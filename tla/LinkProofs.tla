------------------------------- MODULE LinkProofs -------------------------------
(***************************************************************************)
(* Theorems about Link for any frame sizes, size limit and number of       *)
(* connections and frames.                                                 *)
(*                                                                         *)
(* What a reader holds and what is still in the stream are, together, an   *)
(* unbroken piece of the units that were written, which ends with the last *)
(* one.  Where no timeout took units away, that piece begins where the     *)
(* reader's phase says it does.                                            *)
(***************************************************************************)
EXTENDS Link, TLAPS

Unit   == [frame : Nat \ {0}, place : Nat \ {0}, size : Sizes]
Phases == {"header", "body", "failed"}
Reading == [got : Seq(Unit), need : Nat \ {0}, phase : Phases]

\* Units q are an unbroken piece of the frames 1..n, up to the end of the last.
Inside(q, n) ==
    \A i \in 1..Len(q) : q[i].frame =< n /\ q[i].place =< 2 + q[i].size

Unbroken(q) ==
    \A i \in 1..Len(q) : \A k \in 0..(2 + q[i].size - q[i].place) :
        /\ i + k \in 1..Len(q) /\ q[i + k].frame = q[i].frame
        /\ q[i + k].place = q[i].place + k /\ q[i + k].size = q[i].size

Joined(q, n) ==
    \A i \in 1..Len(q) : q[i].place = 2 + q[i].size =>
        \/ i = Len(q) /\ q[i].frame = n
        \/ i + 1 \in 1..Len(q) /\ q[i + 1].frame = q[i].frame + 1 /\ q[i + 1].place = 1

Ascending(q) == \A i, j \in 1..Len(q) : i =< j => q[i].frame =< q[j].frame

Flow(q, n) == q \in Seq(Unit) /\ Inside(q, n) /\ Unbroken(q) /\ Joined(q, n) /\ Ascending(q)

-----------------------------------------------------------------------------
LEMMA EmptyFlow == ASSUME NEW n \in Nat PROVE Flow(<<>>, n)
BY DEF Flow, Inside, Unbroken, Joined, Ascending

LEMMA Concat ==
    ASSUME NEW S, NEW p \in Seq(S), NEW q \in Seq(S)
    PROVE  /\ p \o q \in Seq(S) /\ Len(p \o q) = Len(p) + Len(q)
           /\ Len(p) \in Nat /\ Len(q) \in Nat
           /\ \A i \in 1..Len(p) : (p \o q)[i] = p[i]
           /\ \A i \in 1..Len(q) : (p \o q)[Len(p) + i] = q[i]
OBVIOUS

LEMMA Associative ==
    ASSUME NEW S, NEW p \in Seq(S), NEW q \in Seq(S), NEW r \in Seq(S)
    PROVE  p \o (q \o r) = (p \o q) \o r
<1> DEFINE a == p \o (q \o r)
           b == (p \o q) \o r
<1>1. p \o q \in Seq(S) /\ q \o r \in Seq(S)
  OBVIOUS
<1>2. a \in Seq(S) /\ b \in Seq(S) /\ Len(a) = Len(b)
  BY <1>1
<1>3. \A i \in 1..Len(a) : a[i] = b[i]
  BY <1>1
<1> HIDE DEF a, b
<1>4. a = b
  BY <1>2, <1>3
<1> QED
  BY <1>4 DEF a, b

LEMMA UnitsFacts ==
    ASSUME NEW n \in Nat, NEW size \in Sizes
    PROVE  LET u == Units(n + 1, size)
           IN  /\ u \in Seq(Unit) /\ Len(u) = 2 + size /\ size \in Nat \ {0}
               /\ \A i \in 1..(2 + size) : u[i].frame = n + 1 /\ u[i].place = i /\ u[i].size = size
<1>1. size \in Nat \ {0}
  BY LinkAssumption
<1>2. \A i \in 1..(2 + size) : [frame |-> n + 1, place |-> i, size |-> size] \in Unit
  BY <1>1 DEF Unit
<1> QED
  BY <1>1, <1>2 DEF Units

\* A frame that is written joins the units before it.
LEMMA GrowFlow ==
    ASSUME NEW n \in Nat, NEW size \in Sizes, NEW q, Flow(q, n)
    PROVE  Flow(q \o Units(n + 1, size), n + 1)
<1> DEFINE u == Units(n + 1, size)
           m == Len(q)
           z == q \o u
<1>1. /\ u \in Seq(Unit) /\ Len(u) = 2 + size /\ size \in Nat \ {0}
      /\ \A i \in 1..(2 + size) : u[i].frame = n + 1 /\ u[i].place = i /\ u[i].size = size
  BY UnitsFacts
<1>2. q \in Seq(Unit) /\ Inside(q, n) /\ Unbroken(q) /\ Joined(q, n) /\ Ascending(q)
  BY DEF Flow
<1> HIDE DEF u
<1>19. q \in Seq(Unit) /\ u \in Seq(Unit)
  BY <1>1, <1>2
<1>20. /\ z \in Seq(Unit) /\ Len(z) = m + Len(u) /\ m \in Nat
       /\ \A i \in 1..m : z[i] = q[i]
       /\ \A i \in 1..Len(u) : z[m + i] = u[i]
  BY <1>19, Concat
<1>22. ASSUME NEW i \in 1..Len(z), i \notin 1..m
       PROVE  \E j \in 1..Len(u) : i = m + j
  <2>1. i - m \in 1..Len(u) /\ i = m + (i - m)
    BY <1>1, <1>20, <1>22
  <2> QED
    BY <2>1
<1>21. \A i \in 1..m : q[i] \in Unit
  BY <1>2
<1> HIDE DEF m, z
<1>23. \A i \in 1..Len(z) : i \in 1..m \/ \E j \in 1..(2 + size) : i = m + j
  BY <1>1, <1>22
<1>3. /\ z \in Seq(Unit) /\ Len(z) = m + 2 + size /\ m \in Nat
      /\ \A i \in 1..m : z[i] = q[i] /\ q[i] \in Unit
      /\ \A i \in 1..(2 + size) : z[m + i] = u[i]
      /\ \A i \in 1..Len(z) : i \in 1..m \/ \E j \in 1..(2 + size) : i = m + j
  BY <1>1, <1>20, <1>21, <1>23
<1>4. /\ \A i \in 1..m : z[i].frame \in Nat /\ z[i].place \in Nat \ {0} /\ z[i].size \in Nat
      /\ \A i \in 1..m : z[i].frame =< n /\ z[i].place =< 2 + z[i].size
      /\ m = Len(q)
  BY <1>2, <1>3, LinkAssumption DEF Unit, Inside, m
<1>5. ASSUME NEW j \in 1..(2 + size)
      PROVE  z[m + j].frame = n + 1 /\ z[m + j].place = j /\ z[m + j].size = size
  <2>1. z[m + j] = u[j]
    BY <1>3
  <2> QED
    BY <1>1, <2>1
<1>6. Inside(z, n + 1)
  <2>1. ASSUME NEW i \in 1..Len(z) PROVE z[i].frame =< n + 1 /\ z[i].place =< 2 + z[i].size
    <3>1. CASE i \in 1..m
      BY <1>4, <3>1
    <3>2. CASE \E j \in 1..(2 + size) : i = m + j
      BY <1>1, <1>5, <3>2
    <3> QED
      BY <1>3, <3>1, <3>2
  <2> QED
    BY <2>1 DEF Inside
<1>7. Unbroken(z)
  <2>1. ASSUME NEW i \in 1..Len(z), NEW k \in 0..(2 + z[i].size - z[i].place)
        PROVE  /\ i + k \in 1..Len(z) /\ z[i + k].frame = z[i].frame
               /\ z[i + k].place = z[i].place + k /\ z[i + k].size = z[i].size
    <3>1. CASE i \in 1..m
      <4>1. k \in 0..(2 + q[i].size - q[i].place)
        BY <1>3, <3>1
      <4>2. /\ i + k \in 1..m /\ q[i + k].frame = q[i].frame
            /\ q[i + k].place = q[i].place + k /\ q[i + k].size = q[i].size
        BY <1>2, <1>4, <3>1, <4>1 DEF Unbroken
      <4>3. i + k \in 1..Len(z)
        BY <1>1, <1>3, <4>2
      <4> QED
        BY <1>3, <3>1, <4>2, <4>3
    <3>2. ASSUME NEW j \in 1..(2 + size), i = m + j
          PROVE  /\ i + k \in 1..Len(z) /\ z[i + k].frame = z[i].frame
                 /\ z[i + k].place = z[i].place + k /\ z[i + k].size = z[i].size
      <4>1. z[i].frame = n + 1 /\ z[i].place = j /\ z[i].size = size
        BY <1>5, <3>2
      <4>2. k \in Nat /\ j + k \in 1..(2 + size) /\ i + k = m + (j + k)
        BY <1>1, <1>3, <3>2, <4>1
      <4>3. i + k \in 1..Len(z)
        BY <1>1, <1>3, <4>2
      <4> QED
        BY <1>5, <4>1, <4>2, <4>3
    <3> QED
      BY <1>3, <3>1, <3>2
  <2> QED
    BY <2>1 DEF Unbroken
<1>8. Joined(z, n + 1)
  <2>1. ASSUME NEW i \in 1..Len(z), z[i].place = 2 + z[i].size
        PROVE  \/ i = Len(z) /\ z[i].frame = n + 1
               \/ i + 1 \in 1..Len(z) /\ z[i + 1].frame = z[i].frame + 1 /\ z[i + 1].place = 1
    <3>1. CASE i \in 1..m
      <4>1. \/ i = m /\ q[i].frame = n
            \/ i + 1 \in 1..m /\ q[i + 1].frame = q[i].frame + 1 /\ q[i + 1].place = 1
        BY <1>2, <1>3, <1>4, <2>1, <3>1 DEF Joined
      <4>2. CASE i = m /\ q[i].frame = n
        <5>1. 1 \in 1..(2 + size) /\ i + 1 \in 1..Len(z)
          BY <1>1, <1>3, <4>2
        <5> QED
          BY <1>3, <1>5, <3>1, <4>2, <5>1
      <4>3. CASE i + 1 \in 1..m /\ q[i + 1].frame = q[i].frame + 1 /\ q[i + 1].place = 1
        <5>1. i + 1 \in 1..Len(z)
          BY <1>1, <1>3, <4>3
        <5> QED
          BY <1>3, <3>1, <4>3, <5>1
      <4> QED
        BY <4>1, <4>2, <4>3
    <3>2. ASSUME NEW j \in 1..(2 + size), i = m + j
          PROVE  i = Len(z) /\ z[i].frame = n + 1
      <4>1. z[i].frame = n + 1 /\ z[i].place = j /\ z[i].size = size
        BY <1>5, <3>2
      <4> QED
        BY <1>1, <1>3, <2>1, <3>2, <4>1
    <3> QED
      BY <1>3, <3>1, <3>2
  <2> QED
    BY <2>1 DEF Joined
<1>9. Ascending(z)
  <2>1. ASSUME NEW i \in 1..Len(z), NEW j \in 1..Len(z), i =< j
        PROVE  z[i].frame =< z[j].frame
    <3>1. CASE i \in 1..m /\ j \in 1..m
      BY <1>2, <1>3, <1>4, <2>1, <3>1 DEF Ascending
    <3>2. CASE i \in 1..m /\ j \notin 1..m
      <4>1. z[j].frame = n + 1
        BY <1>3, <1>5, <3>2
      <4> QED
        BY <1>4, <3>2, <4>1
    <3>3. CASE i \notin 1..m
      <4>1. j \notin 1..m
        BY <1>3, <2>1, <3>3
      <4>2. z[i].frame = n + 1 /\ z[j].frame = n + 1
        BY <1>3, <1>5, <3>3, <4>1
      <4> QED
        BY <4>2
    <3> QED
      BY <3>1, <3>2, <3>3
  <2> QED
    BY <2>1 DEF Ascending
<1> QED
  BY <1>3, <1>6, <1>7, <1>8, <1>9 DEF Flow, z, u

\* What is left when the units g have been taken from the front.
LEMMA RestFlow ==
    ASSUME NEW n \in Nat, NEW g \in Seq(Unit), NEW s \in Seq(Unit), Flow(g \o s, n)
    PROVE  /\ Flow(s, n)
           /\ g # <<>> /\ s # <<>> => g[1].frame =< s[1].frame
<1> DEFINE z == g \o s
           m == Len(g)
<1>1. /\ z \in Seq(Unit) /\ Len(z) = m + Len(s) /\ m \in Nat /\ Len(s) \in Nat
      /\ \A i \in 1..m : z[i] = g[i]
      /\ \A i \in 1..Len(s) : z[m + i] = s[i]
  BY Concat
<1>2. Inside(z, n) /\ Unbroken(z) /\ Joined(z, n) /\ Ascending(z)
  BY DEF Flow
<1> HIDE DEF z, m
<1>3. \A i \in 1..Len(s) : m + i \in 1..Len(z) /\ s[i] \in Unit
  BY <1>1
<1>4. Inside(s, n)
  BY <1>1, <1>2, <1>3 DEF Inside
<1>5. Unbroken(s)
  <2>1. ASSUME NEW i \in 1..Len(s), NEW k \in 0..(2 + s[i].size - s[i].place)
        PROVE  /\ i + k \in 1..Len(s) /\ s[i + k].frame = s[i].frame
               /\ s[i + k].place = s[i].place + k /\ s[i + k].size = s[i].size
    <3>1. m + i \in 1..Len(z) /\ z[m + i] = s[i]
      BY <1>1, <1>3
    <3>2. k \in 0..(2 + z[m + i].size - z[m + i].place)
      BY <3>1
    <3>3. /\ (m + i) + k \in 1..Len(z) /\ z[(m + i) + k].frame = s[i].frame
          /\ z[(m + i) + k].place = s[i].place + k /\ z[(m + i) + k].size = s[i].size
      BY <1>2, <3>1, <3>2 DEF Unbroken
    <3>4. k \in Nat
      <4>1. s[i].size \in Nat /\ s[i].place \in Nat
        BY <1>3, LinkAssumption DEF Unit
      <4> QED
        BY <4>1
    <3>5. i + k \in 1..Len(s) /\ (m + i) + k = m + (i + k)
      BY <1>1, <3>3, <3>4
    <3> QED
      BY <1>1, <3>3, <3>5
  <2> QED
    BY <2>1 DEF Unbroken
<1>6. Joined(s, n)
  <2>1. ASSUME NEW i \in 1..Len(s), s[i].place = 2 + s[i].size
        PROVE  \/ i = Len(s) /\ s[i].frame = n
               \/ i + 1 \in 1..Len(s) /\ s[i + 1].frame = s[i].frame + 1 /\ s[i + 1].place = 1
    <3>1. m + i \in 1..Len(z) /\ z[m + i] = s[i] /\ (m + i) + 1 = m + (i + 1)
      BY <1>1, <1>3
    <3>2. \/ m + i = Len(z) /\ s[i].frame = n
          \/ /\ (m + i) + 1 \in 1..Len(z) /\ z[(m + i) + 1].frame = s[i].frame + 1
             /\ z[(m + i) + 1].place = 1
      BY <1>2, <2>1, <3>1 DEF Joined
    <3>3. (m + i) + 1 \in 1..Len(z) => i + 1 \in 1..Len(s)
      BY <1>1
    <3> QED
      BY <1>1, <3>1, <3>2, <3>3
  <2> QED
    BY <2>1 DEF Joined
<1>7. Ascending(s)
  <2>1. ASSUME NEW i \in 1..Len(s), NEW j \in 1..Len(s), i =< j
        PROVE  s[i].frame =< s[j].frame
    <3>1. m + i =< m + j /\ m + i \in 1..Len(z) /\ m + j \in 1..Len(z)
      BY <1>1, <1>3, <2>1
    <3>2. z[m + i].frame =< z[m + j].frame
      BY <1>2, <3>1 DEF Ascending
    <3> QED
      BY <1>1, <3>2
  <2> QED
    BY <2>1 DEF Ascending
<1>8. g # <<>> /\ s # <<>> => g[1].frame =< s[1].frame
  <2>1. CASE g # <<>> /\ s # <<>>
    <3>1. 1 \in 1..m /\ 1 \in 1..Len(s) /\ 1 =< m + 1
      BY <1>1, <2>1 DEF m
    <3>2. 1 \in 1..Len(z) /\ m + 1 \in 1..Len(z) /\ z[1] = g[1] /\ z[m + 1] = s[1]
      BY <1>1, <3>1
    <3> QED
      BY <1>2, <3>1, <3>2 DEF Ascending
  <2> QED
    BY <2>1
<1> QED
  BY <1>4, <1>5, <1>6, <1>7, <1>8 DEF Flow

-----------------------------------------------------------------------------
(* One direction of a connection: reader r, stream s, n frames written, dl delivered. *)

Sound(r, s, n, dl) ==
    /\ r \in Reading /\ s \in Seq(Unit) /\ n \in Nat /\ dl \in Seq(Nat)
    /\ Len(r.got) =< r.need
    /\ Flow(r.got \o s, n)
    /\ \A i, j \in 1..Len(dl) : i < j => dl[i] < dl[j]
    /\ \A i \in 1..Len(dl) : dl[i] =< n
    /\ r.got \o s # <<>> => \A i \in 1..Len(dl) : dl[i] < (r.got \o s)[1].frame

\* Where a reader is that has passed over nothing.
Placed(r, s, n, dl) ==
    LET z == r.got \o s
    IN  /\ \A i \in 1..Len(dl) : dl[i] = i
        /\ r.phase = "header" =>
              /\ r.need = 2
              /\ z = <<>> => n = Len(dl)
              /\ z # <<>> => z[1].frame = Len(dl) + 1 /\ z[1].place = 1
        /\ r.phase = "body" =>
              z # <<>> /\ z[1].frame = Len(dl) + 1 /\ z[1].place = 3 /\ z[1].size = r.need

LEMMA HeaderFacts ==
    /\ AtHeader \in Reading /\ AtHeader.got = <<>> /\ AtHeader.need = 2 /\ AtHeader.phase = "header"
    /\ LET f == [AtHeader EXCEPT !.phase = "failed"]
       IN  f \in Reading /\ f.got = <<>> /\ f.phase = "failed"
<1>1. AtHeader \in Reading /\ AtHeader.got = <<>> /\ AtHeader.need = 2 /\ AtHeader.phase = "header"
  BY DEF AtHeader, Reading, Phases
<1> DEFINE f == [AtHeader EXCEPT !.phase = "failed"]
<1>2. f \in Reading /\ f.got = AtHeader.got /\ f.phase = "failed"
  <2>1. "failed" \in Phases
    BY DEF Phases
  <2> HIDE DEF AtHeader
  <2> QED
    BY <1>1, <2>1 DEF Reading
<1> QED
  BY <1>1, <1>2

LEMMA ReadingFacts ==
    ASSUME NEW r \in Reading
    PROVE  r.got \in Seq(Unit) /\ r.need \in Nat \ {0} /\ r.phase \in Phases /\ Len(r.got) \in Nat
BY DEF Reading

LEMMA StartChannel == Sound(AtHeader, <<>>, 0, <<>>) /\ Placed(AtHeader, <<>>, 0, <<>>)
<1>1. <<>> \o <<>> = <<>> /\ <<>> \in Seq(Unit) /\ <<>> \in Seq(Nat) /\ Len(<<>>) = 0
  OBVIOUS
<1>2. Flow(<<>>, 0)
  BY EmptyFlow
<1> QED
  BY <1>1, <1>2, HeaderFacts DEF Sound, Placed

\* The reader drops what it holds.
LEMMA DropChannel ==
    ASSUME NEW r, NEW s, NEW n, NEW dl, Sound(r, s, n, dl), NEW q \in Reading, q.got = <<>>
    PROVE  /\ Sound(q, s, n, dl) /\ q.got \o s = s
           /\ q.phase = "failed" /\ Placed(r, s, n, dl) => Placed(q, s, n, dl)
<1>1. /\ r \in Reading /\ s \in Seq(Unit) /\ n \in Nat /\ dl \in Seq(Nat)
      /\ Flow(r.got \o s, n)
  BY DEF Sound
<1>2. /\ r.got \in Seq(Unit) /\ Flow(s, n)
      /\ r.got # <<>> /\ s # <<>> => r.got[1].frame =< s[1].frame
  BY <1>1, ReadingFacts, RestFlow
<1>3. q.got \o s = s /\ Len(q.got) =< q.need
  <2>1. q.need \in Nat /\ Len(<<>>) = 0 /\ <<>> \o s = s
    BY <1>1, ReadingFacts
  <2> QED
    BY <2>1
<1>4. ASSUME s # <<>>, NEW i \in 1..Len(dl) PROVE dl[i] < s[1].frame
  <2>0. 1 \in 1..Len(s) /\ s[1] \in Unit /\ dl[i] \in Nat /\ Len(s) \in Nat
    BY <1>1, <1>4
  <2>1. 1 \in 1..Len(s) /\ s[1].frame \in Nat /\ dl[i] \in Nat /\ Len(s) \in Nat
    BY <2>0 DEF Unit
  <2>2. CASE r.got = <<>>
    <3>1. r.got \o s = s
      BY <1>1, <2>2
    <3> QED
      BY <1>4, <3>1 DEF Sound
  <2>3. CASE r.got # <<>>
    <3>0. Len(r.got) \in Nat /\ 1 \in 1..Len(r.got) /\ r.got[1] \in Unit
      BY <1>2, <2>3
    <3>1. Len(r.got) \in Nat /\ 1 \in 1..Len(r.got) /\ r.got[1].frame \in Nat
      BY <3>0 DEF Unit
    <3>2. (r.got \o s)[1] = r.got[1] /\ Len(r.got \o s) # 0
      BY <1>1, <1>2, <2>1, <3>1, Concat
    <3>3. dl[i] < r.got[1].frame
      BY <3>2 DEF Sound
    <3> QED
      BY <1>2, <1>4, <2>1, <2>3, <3>1, <3>3
  <2> QED
    BY <2>2, <2>3
<1>5. Sound(q, s, n, dl)
  BY <1>1, <1>2, <1>3, <1>4 DEF Sound
<1>6. q.phase = "failed" /\ Placed(r, s, n, dl) => Placed(q, s, n, dl)
  BY DEF Placed
<1> QED
  BY <1>3, <1>5, <1>6

LEMMA EndChannel ==
    ASSUME NEW r, NEW s, NEW n, NEW dl, Sound(r, s, n, dl), NEW q \in Reading, q.got = <<>>,
           q.phase = "failed"
    PROVE  /\ Sound(q, <<>>, n, dl)
           /\ Placed(r, s, n, dl) => Placed(q, <<>>, n, dl)
<1>1. <<>> \o <<>> = <<>> /\ <<>> \in Seq(Unit) /\ Len(<<>>) = 0 /\ q.need \in Nat
  BY ReadingFacts
<1>2. n \in Nat /\ Flow(<<>>, n)
  BY EmptyFlow DEF Sound
<1>3. Sound(q, <<>>, n, dl)
  BY <1>1, <1>2 DEF Sound
<1>4. Placed(r, s, n, dl) => Placed(q, <<>>, n, dl)
  BY DEF Placed
<1> QED
  BY <1>3, <1>4

LEMMA WriteChannel ==
    ASSUME NEW r, NEW s, NEW n, NEW dl, Sound(r, s, n, dl), NEW size \in Sizes
    PROVE  LET t == s \o Units(n + 1, size)
           IN  /\ Sound(r, t, n + 1, dl)
               /\ Placed(r, s, n, dl) => Placed(r, t, n + 1, dl)
<1> DEFINE u == Units(n + 1, size)
           t == s \o u
           z == r.got \o s
           y == r.got \o t
<1>1. /\ r \in Reading /\ s \in Seq(Unit) /\ n \in Nat /\ dl \in Seq(Nat) /\ r.got \in Seq(Unit)
      /\ Len(r.got) =< r.need /\ Flow(z, n)
  BY ReadingFacts DEF Sound
<1>2. /\ u \in Seq(Unit) /\ Len(u) = 2 + size /\ size \in Nat
      /\ u[1].frame = n + 1 /\ u[1].place = 1 /\ 1 \in 1..Len(u)
  <2>1. 1 \in 1..(2 + size)
    BY LinkAssumption
  <2> QED
    BY <1>1, <2>1, UnitsFacts
<1>3. Flow(z \o u, n + 1)
  BY <1>1, GrowFlow
<1> HIDE DEF u
<1>4. y = z \o u /\ t \in Seq(Unit) /\ z \in Seq(Unit)
  <2>1. r.got \in Seq(Unit) /\ s \in Seq(Unit) /\ u \in Seq(Unit)
    BY <1>1, <1>2
  <2>2. y = z \o u
    <3> DEFINE g == r.got
    <3>1. g \in Seq(Unit)
      BY <2>1
    <3> HIDE DEF g
    <3>2. g \o (s \o u) = (g \o s) \o u
      BY <2>1, <3>1, Associative
    <3> QED
      BY <3>2 DEF g
  <2> QED
    BY <2>1, <2>2
<1> HIDE DEF t, y, z
<1>5. Len(z) \in Nat /\ Len(y) = Len(z) + 2 + size /\ y # <<>>
  <2>0. z \in Seq(Unit) /\ u \in Seq(Unit)
    BY <1>2, <1>4
  <2>1. Len(z) \in Nat /\ Len(z \o u) = Len(z) + Len(u)
    BY <2>0
  <2>2. Len(y) = Len(z) + (2 + size)
    BY <1>2, <1>4, <2>1
  <2>3. y \in Seq(Unit)
    BY <1>4, <2>0
  <2> QED
    BY <1>2, <2>1, <2>2, <2>3
<1>6. /\ z # <<>> => y[1] = z[1]
      /\ z = <<>> => y[1] = u[1]
  <2>1. CASE z # <<>>
    <3>1. 1 \in 1..Len(z)
      BY <1>4, <2>1
    <3> QED
      BY <1>2, <1>4, <2>1, <3>1, Concat
  <2>2. CASE z = <<>>
    <3>1. y = u
      BY <1>2, <1>4, <2>2
    <3> QED
      BY <2>2, <3>1
  <2> QED
    BY <2>1, <2>2
<1>7. /\ \A i, j \in 1..Len(dl) : i < j => dl[i] < dl[j]
      /\ \A i \in 1..Len(dl) : dl[i] =< n /\ dl[i] \in Nat
      /\ z # <<>> => \A i \in 1..Len(dl) : dl[i] < z[1].frame
  <2>1. \A i \in 1..Len(dl) : dl[i] \in Nat
    BY <1>1
  <2>2. /\ \A i, j \in 1..Len(dl) : i < j => dl[i] < dl[j]
        /\ \A i \in 1..Len(dl) : dl[i] =< n
    BY DEF Sound
  <2>3. z # <<>> => \A i \in 1..Len(dl) : dl[i] < z[1].frame
    BY DEF Sound, z
  <2> QED
    BY <2>1, <2>2, <2>3
<1>8. \A i \in 1..Len(dl) : dl[i] =< n + 1 /\ dl[i] < n + 1 /\ dl[i] < y[1].frame
  BY <1>1, <1>2, <1>6, <1>7
<1>9. Sound(r, t, n + 1, dl)
  <2>1. r.got \o t = y /\ Flow(y, n + 1) /\ n + 1 \in Nat
    BY <1>1, <1>3, <1>4 DEF y
  <2> QED
    BY <1>1, <1>4, <1>7, <1>8, <2>1 DEF Sound
<1>10. Placed(r, s, n, dl) => Placed(r, t, n + 1, dl)
  <2>1. r.got \o t = y /\ r.got \o s = z
    BY DEF y, z
  <2> QED
    BY <1>2, <1>5, <1>6, <2>1 DEF Placed
<1> QED
  BY <1>9, <1>10 DEF t, u

LEMMA ReadChannel ==
    ASSUME NEW r, NEW s, NEW n, NEW dl, Sound(r, s, n, dl), s # <<>>, Len(r.got) < r.need
    PROVE  LET q == [r EXCEPT !.got = Append(@, Head(s))]
           IN  /\ Sound(q, Tail(s), n, dl)
               /\ Placed(r, s, n, dl) => Placed(q, Tail(s), n, dl)
<1> DEFINE g == Append(r.got, Head(s))
           q == [r EXCEPT !.got = g]
<1>1. /\ r \in Reading /\ s \in Seq(Unit) /\ r.got \in Seq(Unit) /\ r.need \in Nat
      /\ Len(r.got) \in Nat
  BY ReadingFacts DEF Sound
<1>2. /\ g \in Seq(Unit) /\ Len(g) = Len(r.got) + 1 /\ Tail(s) \in Seq(Unit)
      /\ g \o Tail(s) = r.got \o s
  BY <1>1
<1> HIDE DEF g
<1>3. q \in Reading /\ q.got = g /\ q.need = r.need /\ q.phase = r.phase
  BY <1>1, <1>2 DEF Reading
<1> HIDE DEF q
<1>4. q.got \o Tail(s) = r.got \o s /\ Len(q.got) =< q.need
  BY <1>1, <1>2, <1>3
<1>5. Sound(q, Tail(s), n, dl)
  BY <1>2, <1>3, <1>4 DEF Sound
<1>6. Placed(r, s, n, dl) => Placed(q, Tail(s), n, dl)
  BY <1>3, <1>4 DEF Placed
<1> QED
  BY <1>5, <1>6 DEF q, g

\* The first unit of those a reader holds, and the ones after it.
LEMMA HeldFacts ==
    ASSUME NEW r, NEW s, NEW n, NEW dl, Sound(r, s, n, dl), Len(r.got) = r.need
    PROVE  LET z == r.got \o s
           IN  /\ z \in Seq(Unit) /\ Len(z) = Len(r.got) + Len(s) /\ Len(s) \in Nat
               /\ Len(r.got) \in Nat \ {0} /\ 1 \in 1..Len(r.got) /\ DOMAIN r.got = 1..Len(r.got)
               /\ 1 \in 1..Len(z) /\ z # <<>> /\ Flow(z, n)
               /\ \A i \in 1..Len(r.got) :
                     /\ z[i] = r.got[i] /\ r.got[i] \in Unit /\ i \in 1..Len(z)
                     /\ r.got[i].frame \in Nat \ {0} /\ r.got[i].place \in Nat \ {0}
                     /\ r.got[i].size \in Nat \ {0}
               /\ \A i \in 1..Len(s) : z[Len(r.got) + i] = s[i] /\ s[i] \in Unit
<1> DEFINE g == r.got
           z == g \o s
<1>1. /\ g \in Seq(Unit) /\ s \in Seq(Unit) /\ Len(g) \in Nat \ {0} /\ Flow(z, n)
  BY ReadingFacts DEF Sound
<1> HIDE DEF g
<1>2. /\ z \in Seq(Unit) /\ Len(z) = Len(g) + Len(s) /\ Len(s) \in Nat
      /\ \A i \in 1..Len(g) : z[i] = g[i]
      /\ \A i \in 1..Len(s) : z[Len(g) + i] = s[i]
  BY <1>1, Concat
<1> HIDE DEF z
<1>3. 1 \in 1..Len(g) /\ 1 \in 1..Len(z) /\ z # <<>>
  BY <1>1, <1>2
<1>4. /\ \A i \in 1..Len(g) : g[i] \in Unit /\ i \in 1..Len(z)
      /\ \A i \in 1..Len(s) : s[i] \in Unit
  BY <1>1, <1>2
<1>5. \A i \in 1..Len(g) : /\ g[i].frame \in Nat \ {0} /\ g[i].place \in Nat \ {0}
                           /\ g[i].size \in Nat \ {0}
  BY <1>4, LinkAssumption DEF Unit
<1>6. DOMAIN g = 1..Len(g)
  BY <1>1
<1> QED
  BY <1>1, <1>2, <1>3, <1>4, <1>5, <1>6 DEF z, g

LEMMA SizeFacts ==
    ASSUME NEW g \in Seq(Unit), g # <<>>, NEW size \in HeaderSizes(g)
    PROVE  size \in Nat \ {0}
<1>1. Len(g) \in Nat /\ 1 \in 1..Len(g) /\ g[1] \in Unit
  OBVIOUS
<1>2. g[1].size \in Nat \ {0} /\ MaxBytes \in Nat \ {0}
  BY <1>1, LinkAssumption DEF Unit
<1> QED
  BY <1>2 DEF HeaderSizes

\* The header of a frame is read as its own size by a reader that passed over nothing.
LEMMA HeaderWhole ==
    ASSUME NEW r, NEW s, NEW n, NEW dl, Sound(r, s, n, dl), Len(r.got) = r.need,
           r.phase = "header", Placed(r, s, n, dl)
    PROVE  /\ HeaderSizes(r.got) = {r.got[1].size}
           /\ s # <<>> /\ s[1].frame = Len(dl) + 1 /\ s[1].place = 3 /\ s[1].size = r.got[1].size
<1> DEFINE g == r.got
           z == g \o s
           f == Len(dl) + 1
<1>1. /\ z \in Seq(Unit) /\ Len(z) = Len(g) + Len(s) /\ Len(s) \in Nat /\ s \in Seq(Unit)
      /\ 1 \in 1..Len(z) /\ z # <<>> /\ Unbroken(z) /\ DOMAIN g = 1..Len(g)
      /\ \A i \in 1..Len(g) : z[i] = g[i] /\ g[i].size \in Nat \ {0}
      /\ \A i \in 1..Len(s) : z[Len(g) + i] = s[i]
  <2>1. s \in Seq(Unit)
    BY DEF Sound
  <2>2. Unbroken(z)
    BY HeldFacts DEF Flow
  <2>3. /\ z \in Seq(Unit) /\ Len(z) = Len(g) + Len(s) /\ Len(s) \in Nat
        /\ 1 \in 1..Len(z) /\ z # <<>> /\ DOMAIN g = 1..Len(g)
    BY HeldFacts
  <2>4. /\ \A i \in 1..Len(g) : z[i] = g[i] /\ g[i].size \in Nat \ {0}
        /\ \A i \in 1..Len(s) : z[Len(g) + i] = s[i]
    BY HeldFacts
  <2> QED
    BY <2>1, <2>2, <2>3, <2>4
<1>2. Len(g) = 2 /\ z[1].frame = f /\ z[1].place = 1
  BY <1>1 DEF Placed
<1> HIDE DEF g, z, f
<1>3. z[1] = g[1] /\ z[2] = g[2] /\ z[1].size \in Nat \ {0}
  <2>1. 1 \in 1..Len(g) /\ 2 \in 1..Len(g)
    BY <1>2
  <2> QED
    BY <1>1, <2>1
<1>4. 1 \in 0..(2 + z[1].size - z[1].place) /\ 2 \in 0..(2 + z[1].size - z[1].place)
  BY <1>2, <1>3
<1>5. /\ z[2].frame = f /\ z[2].place = 2
      /\ 3 \in 1..Len(z) /\ z[3].frame = f /\ z[3].place = 3 /\ z[3].size = z[1].size
  <2>1. /\ 1 + 1 \in 1..Len(z) /\ z[1 + 1].frame = z[1].frame /\ z[1 + 1].place = z[1].place + 1
    BY <1>1, <1>4 DEF Unbroken
  <2>2. /\ 1 + 2 \in 1..Len(z) /\ z[1 + 2].frame = z[1].frame /\ z[1 + 2].place = z[1].place + 2
        /\ z[1 + 2].size = z[1].size
    BY <1>1, <1>4 DEF Unbroken
  <2> QED
    BY <1>2, <2>1, <2>2
<1>6. Whole(g, 1)
  <2>1. \A i \in DOMAIN g : i = 1 \/ i = 2
    BY <1>1, <1>2
  <2> QED
    BY <1>2, <1>3, <1>5, <2>1 DEF Whole
<1>7. s # <<>> /\ s[1] = z[3]
  <2>1. 1 \in 1..Len(s) /\ Len(g) + 1 = 3
    BY <1>1, <1>2, <1>5
  <2> QED
    BY <1>1, <2>1
<1>8. HeaderSizes(g) = {g[1].size}
  BY <1>6 DEF HeaderSizes
<1> QED
  BY <1>3, <1>5, <1>7, <1>8 DEF g, f

\* So is its body, which is then a message.
LEMMA BodyWhole ==
    ASSUME NEW r, NEW s, NEW n, NEW dl, Sound(r, s, n, dl), Len(r.got) = r.need,
           r.phase = "body", Placed(r, s, n, dl)
    PROVE  Whole(r.got, 3) /\ r.got[1].size = r.need /\ r.got[1].frame = Len(dl) + 1
<1> DEFINE g == r.got
           z == g \o s
           f == Len(dl) + 1
<1>1. /\ z \in Seq(Unit) /\ Unbroken(z) /\ 1 \in 1..Len(z) /\ 1 \in 1..Len(g)
      /\ DOMAIN g = 1..Len(g) /\ Len(g) \in Nat
      /\ \A i \in 1..Len(g) : z[i] = g[i] /\ g[i].size \in Nat \ {0}
  BY HeldFacts DEF Flow
<1>2. z[1].frame = f /\ z[1].place = 3 /\ z[1].size = Len(g)
  BY DEF Placed
<1> HIDE DEF g, z, f
<1>3. ASSUME NEW i \in 1..Len(g)
      PROVE  g[i].frame = f /\ g[i].place = 3 + i - 1
  <2>1. i - 1 \in 0..(2 + z[1].size - z[1].place) /\ 1 + (i - 1) = i
    BY <1>1, <1>2
  <2>2. z[1 + (i - 1)].frame = z[1].frame /\ z[1 + (i - 1)].place = z[1].place + (i - 1)
    BY <1>1, <2>1 DEF Unbroken
  <2> QED
    BY <1>1, <1>2, <2>1, <2>2
<1>4. g[1].size = Len(g) /\ g[1].frame = f
  BY <1>1, <1>2
<1>5. Whole(g, 3)
  BY <1>1, <1>3, <1>4 DEF Whole
<1> QED
  BY <1>4, <1>5 DEF g, f

\* A message is the rest of a frame that nothing was delivered of, and what follows it
\* is the next frame.
LEMMA MessageChannel ==
    ASSUME NEW r, NEW s, NEW n, NEW dl, Sound(r, s, n, dl), Len(r.got) = r.need,
           Whole(r.got, 3), r.got[1].size = r.need
    PROVE  LET e == Append(dl, r.got[1].frame)
           IN  /\ Sound(AtHeader, s, n, e)
               /\ r.phase = "body" /\ Placed(r, s, n, dl) => Placed(AtHeader, s, n, e)
<1> DEFINE g == r.got
           z == g \o s
           m == Len(g)
           f == g[1].frame
           e == Append(dl, f)
<1>1. /\ z \in Seq(Unit) /\ Len(z) = m + Len(s) /\ Len(s) \in Nat /\ s \in Seq(Unit)
      /\ m \in Nat \ {0} /\ 1 \in 1..m /\ DOMAIN g = 1..m /\ z # <<>> /\ 1 \in 1..Len(z)
      /\ Flow(z, n)
  BY HeldFacts DEF Sound
<1>2. \A i \in 1..m : /\ z[i] = g[i] /\ i \in 1..Len(z)
                      /\ g[i].frame \in Nat \ {0} /\ g[i].size \in Nat \ {0}
                      /\ g[i].place \in Nat \ {0}
  BY HeldFacts
<1>3. \A i \in 1..Len(s) : z[m + i] = s[i] /\ s[i] \in Unit
  BY HeldFacts
<1>4. \A i \in 1..m : g[i].place = 3 + i - 1 /\ g[i].frame = f
  BY <1>1 DEF Whole
<1>5. g[1].size = m
  OBVIOUS
<1>6. /\ n \in Nat /\ dl \in Seq(Nat) /\ \A i, j \in 1..Len(dl) : i < j => dl[i] < dl[j]
      /\ \A i \in 1..Len(dl) : dl[i] =< n
      /\ \A i \in 1..Len(dl) : dl[i] < z[1].frame
  BY <1>1 DEF Sound
<1>7. Sound(AtHeader, s, n, dl) /\ AtHeader.got \o s = s
  BY HeaderFacts, DropChannel
<1>8. r.phase = "body" /\ Placed(r, s, n, dl) => f = Len(dl) + 1 /\ \A i \in 1..Len(dl) : dl[i] = i
  BY BodyWhole DEF Placed
<1> HIDE DEF z, m, f, g
<1>9. Inside(z, n) /\ Unbroken(z) /\ Joined(z, n)
  BY <1>1 DEF Flow
<1>10. f \in Nat /\ f =< n /\ z[1].frame = f
  <2>1. z[1] = g[1] /\ g[1].frame = f /\ f \in Nat
    BY <1>1, <1>2, <1>4
  <2> QED
    BY <1>1, <1>9, <2>1 DEF Inside
<1>11. m \in 1..Len(z) /\ z[m].place = 2 + z[m].size /\ z[m].frame = f
  <2>1. m \in 1..m /\ z[m] = g[m] /\ z[m].frame = f /\ z[m].place = 2 + m
    BY <1>1, <1>2, <1>4
  <2>2. m - 1 \in 0..(2 + z[1].size - z[1].place) /\ 1 + (m - 1) = m
    BY <1>1, <1>2, <1>4, <1>5
  <2>3. z[1 + (m - 1)].size = z[1].size
    BY <1>1, <1>9, <2>2 DEF Unbroken
  <2> QED
    BY <1>1, <1>2, <1>5, <2>1, <2>2, <2>3
<1>12. /\ s = <<>> => f = n
       /\ s # <<>> => s[1].frame = f + 1 /\ s[1].place = 1
  <2>1. \/ m = Len(z) /\ f = n
        \/ m + 1 \in 1..Len(z) /\ z[m + 1].frame = f + 1 /\ z[m + 1].place = 1
    BY <1>9, <1>11 DEF Joined
  <2>2. CASE s = <<>>
    BY <1>1, <2>1, <2>2
  <2>3. CASE s # <<>>
    <3>1. 1 \in 1..Len(s) /\ Len(z) # m
      BY <1>1, <2>3
    <3> QED
      BY <1>3, <2>1, <2>3, <3>1
  <2> QED
    BY <2>2, <2>3
<1>13. /\ e \in Seq(Nat) /\ Len(e) = Len(dl) + 1 /\ Len(dl) \in Nat /\ e[Len(dl) + 1] = f
       /\ \A i \in 1..Len(dl) : e[i] = dl[i] /\ dl[i] \in Nat
  BY <1>6, <1>10
<1> HIDE DEF e
<1>14. \A i \in 1..Len(e) : i \in 1..Len(dl) \/ i = Len(dl) + 1
  BY <1>13
<1>15. \A i \in 1..Len(dl) : dl[i] < f
  BY <1>6, <1>10
<1>16. \A i \in 1..Len(e) : e[i] =< f /\ e[i] \in Nat
  BY <1>10, <1>13, <1>14, <1>15
<1>17. \A i, j \in 1..Len(e) : i < j => e[i] < e[j]
  <2>1. ASSUME NEW i \in 1..Len(e), NEW j \in 1..Len(e), i < j
        PROVE  e[i] < e[j]
    <3>1. CASE j = Len(dl) + 1
      <4>1. i \in 1..Len(dl)
        BY <1>13, <1>14, <2>1, <3>1
      <4> QED
        BY <1>13, <1>15, <3>1, <4>1
    <3>2. CASE j \in 1..Len(dl)
      <4>1. i \in 1..Len(dl)
        BY <1>13, <1>14, <2>1, <3>2
      <4> QED
        BY <1>6, <1>13, <2>1, <3>2, <4>1
    <3> QED
      BY <1>14, <3>1, <3>2
  <2> QED
    BY <2>1
<1>18. \A i \in 1..Len(e) : e[i] =< n /\ (s # <<>> => e[i] < s[1].frame)
  BY <1>6, <1>10, <1>12, <1>16
<1>19. Sound(AtHeader, s, n, e)
  BY <1>7, <1>13, <1>17, <1>18 DEF Sound
<1>20. r.phase = "body" /\ Placed(r, s, n, dl) => Placed(AtHeader, s, n, e)
  <2>1. ASSUME r.phase = "body", Placed(r, s, n, dl) PROVE Placed(AtHeader, s, n, e)
    <3>1. f = Len(dl) + 1 /\ \A i \in 1..Len(dl) : dl[i] = i
      BY <1>8, <2>1
    <3>2. \A i \in 1..Len(e) : e[i] = i
      BY <1>13, <1>14, <3>1
    <3>3. /\ s = <<>> => n = Len(e)
          /\ s # <<>> => s[1].frame = Len(e) + 1 /\ s[1].place = 1
      BY <1>12, <1>13, <3>1
    <3> QED
      BY <1>7, <3>2, <3>3, HeaderFacts DEF Placed
  <2> QED
    BY <2>1
<1> QED
  BY <1>19, <1>20 DEF e, f, g

\* The size a header is read as, of a frame that is taken or too large.
LEMMA HeaderChannel ==
    ASSUME NEW r, NEW s, NEW n, NEW dl, Sound(r, s, n, dl), Len(r.got) = r.need,
           r.phase = "header", NEW size \in HeaderSizes(r.got)
    PROVE  LET q == [got |-> <<>>, need |-> size, phase |-> "body"]
           IN  /\ Sound(q, s, n, dl)
               /\ Placed(r, s, n, dl) => Placed(q, s, n, dl)
<1> DEFINE q == [got |-> <<>>, need |-> size, phase |-> "body"]
<1>1. r.got \in Seq(Unit) /\ r.got # <<>>
  <2>1. r \in Reading
    BY DEF Sound
  <2> QED
    BY <2>1, ReadingFacts
<1>2. size \in Nat \ {0}
  BY <1>1, SizeFacts
<1>3. q \in Reading /\ q.got = <<>> /\ q.need = size /\ q.phase = "body"
  BY <1>2 DEF Reading, Phases
<1> HIDE DEF q
<1>4. Sound(q, s, n, dl) /\ q.got \o s = s
  BY <1>3, DropChannel
<1>5. ASSUME Placed(r, s, n, dl) PROVE Placed(q, s, n, dl)
  <2>1. HeaderSizes(r.got) = {r.got[1].size}
    BY <1>5, HeaderWhole
  <2>2. s # <<>> /\ s[1].frame = Len(dl) + 1 /\ s[1].place = 3 /\ s[1].size = size
    BY <1>5, <2>1, HeaderWhole
  <2>3. \A i \in 1..Len(dl) : dl[i] = i
    BY <1>5 DEF Placed
  <2> QED
    BY <1>3, <1>4, <2>2, <2>3 DEF Placed
<1> QED
  BY <1>4, <1>5 DEF q

-----------------------------------------------------------------------------
(* The invariant. *)

Types ==
    /\ reader \in [Conns -> [Dirs -> Reading]]
    /\ stream \in [Conns -> [Dirs -> Seq(Unit)]]
    /\ sent \in [Conns -> [Dirs -> Nat]]
    /\ delivered \in [Conns -> [Dirs -> Seq(Nat)]]
    /\ torn \in [Conns -> [Dirs -> BOOLEAN]]

Kept(r, s, n, dl, t) == Sound(r, s, n, dl) /\ (t \/ Placed(r, s, n, dl))

LinkInv ==
    /\ Types
    /\ \A c \in Conns, d \in Dirs :
          Kept(reader[c][d], stream[c][d], sent[c][d], delivered[c][d], torn[c][d])

\* Table h is table f with value v for direction d of connection c.
Becomes(h, f, c, d, v, S) ==
    /\ h \in [Conns -> [Dirs -> S]]
    /\ h[c][d] = v
    /\ \A b \in Conns, e \in Dirs : b # c \/ e # d => h[b][e] = f[b][e]

LEMMA Changed ==
    ASSUME NEW S, NEW f \in [Conns -> [Dirs -> S]], NEW c \in Conns, NEW d \in Dirs, NEW v \in S
    PROVE  Becomes([f EXCEPT ![c][d] = v], f, c, d, v, S)
BY DEF Becomes

LEMMA Same ==
    ASSUME NEW S, NEW f \in [Conns -> [Dirs -> S]], NEW c \in Conns, NEW d \in Dirs
    PROVE  Becomes(f, f, c, d, f[c][d], S)
BY DEF Becomes

LEMMA ChannelStep ==
    ASSUME LinkInv, NEW c \in Conns, NEW d \in Dirs,
           NEW r, NEW s, NEW n, NEW dl, NEW t, Kept(r, s, n, dl, t),
           Becomes(reader', reader, c, d, r, Reading),
           Becomes(stream', stream, c, d, s, Seq(Unit)),
           Becomes(sent', sent, c, d, n, Nat),
           Becomes(delivered', delivered, c, d, dl, Seq(Nat)),
           Becomes(torn', torn, c, d, t, BOOLEAN)
    PROVE  LinkInv'
<1>1. Types'
  BY DEF Becomes, Types
<1>2. ASSUME NEW b \in Conns, NEW e \in Dirs
      PROVE  Kept(reader[b][e], stream[b][e], sent[b][e], delivered[b][e], torn[b][e])'
  <2>1. CASE b = c /\ e = d
    <3>1. /\ reader'[b][e] = r /\ stream'[b][e] = s /\ sent'[b][e] = n
          /\ delivered'[b][e] = dl /\ torn'[b][e] = t
      BY <2>1 DEF Becomes
    <3> QED
      BY <3>1 DEF Kept, Sound, Placed
  <2>2. CASE b # c \/ e # d
    <3>1. /\ reader'[b][e] = reader[b][e] /\ stream'[b][e] = stream[b][e]
          /\ sent'[b][e] = sent[b][e] /\ delivered'[b][e] = delivered[b][e]
          /\ torn'[b][e] = torn[b][e]
      BY <1>2, <2>2 DEF Becomes
    <3>2. Kept(reader[b][e], stream[b][e], sent[b][e], delivered[b][e], torn[b][e])
      BY <1>2 DEF LinkInv
    <3> QED
      BY <3>1, <3>2 DEF Kept, Sound, Placed
  <2> QED
    BY <2>1, <2>2
<1> QED
  BY <1>1, <1>2 DEF LinkInv

\* What one direction is, and that everything else may stay as it is.
LEMMA ChannelFacts ==
    ASSUME LinkInv, NEW c \in Conns, NEW d \in Dirs
    PROVE  /\ Types
           /\ Sound(reader[c][d], stream[c][d], sent[c][d], delivered[c][d])
           /\ torn[c][d] \/ Placed(reader[c][d], stream[c][d], sent[c][d], delivered[c][d])
           /\ torn[c][d] \in BOOLEAN /\ reader[c][d] \in Reading
           /\ stream[c][d] \in Seq(Unit) /\ sent[c][d] \in Nat /\ delivered[c][d] \in Seq(Nat)
           /\ Becomes(reader, reader, c, d, reader[c][d], Reading)
           /\ Becomes(stream, stream, c, d, stream[c][d], Seq(Unit))
           /\ Becomes(sent, sent, c, d, sent[c][d], Nat)
           /\ Becomes(delivered, delivered, c, d, delivered[c][d], Seq(Nat))
           /\ Becomes(torn, torn, c, d, torn[c][d], BOOLEAN)
<1>1. Types
  BY DEF LinkInv
<1>2. /\ Sound(reader[c][d], stream[c][d], sent[c][d], delivered[c][d])
      /\ torn[c][d] \/ Placed(reader[c][d], stream[c][d], sent[c][d], delivered[c][d])
  BY DEF LinkInv, Kept
<1>3. /\ torn[c][d] \in BOOLEAN /\ reader[c][d] \in Reading
      /\ stream[c][d] \in Seq(Unit) /\ sent[c][d] \in Nat /\ delivered[c][d] \in Seq(Nat)
  BY <1>1 DEF Types
<1>4. /\ Becomes(reader, reader, c, d, reader[c][d], Reading)
      /\ Becomes(stream, stream, c, d, stream[c][d], Seq(Unit))
  BY <1>1, Same DEF Types
<1>5. /\ Becomes(sent, sent, c, d, sent[c][d], Nat)
      /\ Becomes(delivered, delivered, c, d, delivered[c][d], Seq(Nat))
      /\ Becomes(torn, torn, c, d, torn[c][d], BOOLEAN)
  BY <1>1, Same DEF Types
<1> QED
  BY <1>1, <1>2, <1>3, <1>4, <1>5

LEMMA WriteStep ==
    ASSUME LinkInv, NEW c \in Conns, NEW d \in Dirs, NEW size \in Sizes, Write(c, d, size)
    PROVE  LinkInv'
<1> DEFINE s == stream[c][d] \o Units(sent[c][d] + 1, size)
           n == sent[c][d] + 1
<1>1. Types /\ stream[c][d] \in Seq(Unit) /\ sent[c][d] \in Nat
  BY ChannelFacts
<1>2. s \in Seq(Unit) /\ n \in Nat
  <2>1. Units(sent[c][d] + 1, size) \in Seq(Unit)
    BY <1>1, UnitsFacts
  <2> QED
    BY <1>1, <2>1
<1>3. Kept(reader[c][d], s, n, delivered[c][d], torn[c][d])
  BY ChannelFacts, WriteChannel DEF Kept
<1>4. stream' = [stream EXCEPT ![c][d] = s] /\ sent' = [sent EXCEPT ![c][d] = n]
  BY DEF Write
<1>5. reader' = reader /\ delivered' = delivered /\ torn' = torn
  BY DEF Write
<1> HIDE DEF s, n
<1>6. Becomes(stream', stream, c, d, s, Seq(Unit)) /\ Becomes(sent', sent, c, d, n, Nat)
  BY <1>1, <1>2, <1>4, Changed DEF Types
<1>7. /\ Becomes(reader', reader, c, d, reader[c][d], Reading)
      /\ Becomes(delivered', delivered, c, d, delivered[c][d], Seq(Nat))
      /\ Becomes(torn', torn, c, d, torn[c][d], BOOLEAN)
  BY <1>5, ChannelFacts
<1> QED
  BY <1>3, <1>6, <1>7, ChannelStep

LEMMA ReadStep ==
    ASSUME LinkInv, NEW c \in Conns, NEW d \in Dirs, Read(c, d)
    PROVE  LinkInv'
<1> DEFINE q == [reader[c][d] EXCEPT !.got = Append(@, Head(stream[c][d]))]
           s == Tail(stream[c][d])
<1>1. Types /\ Sound(reader[c][d], stream[c][d], sent[c][d], delivered[c][d])
  BY ChannelFacts
<1>2. /\ Sound(q, s, sent[c][d], delivered[c][d])
      /\ Placed(reader[c][d], stream[c][d], sent[c][d], delivered[c][d])
            => Placed(q, s, sent[c][d], delivered[c][d])
  <2>1. stream[c][d] # <<>> /\ Len(reader[c][d].got) < reader[c][d].need
    BY DEF Read
  <2> QED
    BY <1>1, <2>1, ReadChannel
<1>3. reader' = [reader EXCEPT ![c][d] = q] /\ stream' = [stream EXCEPT ![c][d] = s]
  BY DEF Read
<1>4. sent' = sent /\ delivered' = delivered /\ torn' = torn
  BY DEF Read
<1> HIDE DEF q, s
<1>5. Kept(q, s, sent[c][d], delivered[c][d], torn[c][d])
  BY <1>2, ChannelFacts DEF Kept
<1>6. q \in Reading /\ s \in Seq(Unit)
  BY <1>2 DEF Sound
<1>7. Becomes(stream', stream, c, d, s, Seq(Unit)) /\ Becomes(reader', reader, c, d, q, Reading)
  BY <1>1, <1>3, <1>6, Changed DEF Types
<1>8. /\ Becomes(sent', sent, c, d, sent[c][d], Nat)
      /\ Becomes(delivered', delivered, c, d, delivered[c][d], Seq(Nat))
      /\ Becomes(torn', torn, c, d, torn[c][d], BOOLEAN)
  BY <1>4, ChannelFacts
<1> QED
  BY <1>5, <1>7, <1>8, ChannelStep

\* The reader of one direction changes, and nothing else.
LEMMA ReaderStep ==
    ASSUME LinkInv, NEW c \in Conns, NEW d \in Dirs, NEW q,
           reader' = [reader EXCEPT ![c][d] = q],
           Sound(q, stream[c][d], sent[c][d], delivered[c][d]),
           torn[c][d] \/ Placed(q, stream[c][d], sent[c][d], delivered[c][d]),
           UNCHANGED <<stream, sent, delivered, torn>>
    PROVE  LinkInv'
<1>1. Kept(q, stream[c][d], sent[c][d], delivered[c][d], torn[c][d])
  BY DEF Kept
<1>2. Becomes(reader', reader, c, d, q, Reading)
  <2>1. q \in Reading /\ Types
    BY ChannelFacts DEF Sound
  <2> QED
    BY <2>1, Changed DEF Types
<1>3. /\ Becomes(stream', stream, c, d, stream[c][d], Seq(Unit))
      /\ Becomes(sent', sent, c, d, sent[c][d], Nat)
      /\ Becomes(delivered', delivered, c, d, delivered[c][d], Seq(Nat))
      /\ Becomes(torn', torn, c, d, torn[c][d], BOOLEAN)
  BY ChannelFacts
<1> QED
  BY <1>1, <1>2, <1>3, ChannelStep

LEMMA HeaderStep ==
    ASSUME LinkInv, NEW c \in Conns, NEW d \in Dirs, HeaderComplete(c, d)
    PROVE  LinkInv'
<1> DEFINE r == reader[c][d]
           f == [AtHeader EXCEPT !.phase = "failed"]
<1>1. /\ Sound(r, stream[c][d], sent[c][d], delivered[c][d])
      /\ torn[c][d] \/ Placed(r, stream[c][d], sent[c][d], delivered[c][d])
  BY ChannelFacts
<1>2. r.phase = "header" /\ Len(r.got) = r.need /\ UNCHANGED <<stream, sent, delivered, torn>>
  BY DEF HeaderComplete
<1>3. PICK size \in HeaderSizes(r.got) :
         reader' = [reader EXCEPT ![c][d] = IF size > MaxBytes THEN f
                                            ELSE [got |-> <<>>, need |-> size, phase |-> "body"]]
  BY DEF HeaderComplete, TooLarge
<1>4. f \in Reading /\ f.got = <<>> /\ f.phase = "failed"
  BY HeaderFacts
<1> HIDE DEF r, f
<1>5. CASE size > MaxBytes
  <2>1. /\ Sound(f, stream[c][d], sent[c][d], delivered[c][d])
        /\ torn[c][d] \/ Placed(f, stream[c][d], sent[c][d], delivered[c][d])
    BY <1>1, <1>4, DropChannel
  <2>2. reader' = [reader EXCEPT ![c][d] = f]
    BY <1>3, <1>5
  <2> QED
    BY <1>2, <2>1, <2>2, ReaderStep
<1>6. CASE ~(size > MaxBytes)
  <2> DEFINE q == [got |-> <<>>, need |-> size, phase |-> "body"]
  <2>1. /\ Sound(q, stream[c][d], sent[c][d], delivered[c][d])
        /\ torn[c][d] \/ Placed(q, stream[c][d], sent[c][d], delivered[c][d])
    BY <1>1, <1>2, HeaderChannel
  <2>2. reader' = [reader EXCEPT ![c][d] = q]
    BY <1>3, <1>6
  <2> HIDE DEF q
  <2> QED
    BY <1>2, <2>1, <2>2, ReaderStep
<1> QED
  BY <1>5, <1>6

LEMMA BodyStep ==
    ASSUME LinkInv, NEW c \in Conns, NEW d \in Dirs, BodyComplete(c, d)
    PROVE  LinkInv'
<1> DEFINE r == reader[c][d]
           e == Append(delivered[c][d], r.got[1].frame)
           message == Whole(r.got, 3) /\ r.got[1].size = r.need
<1>1. /\ Sound(r, stream[c][d], sent[c][d], delivered[c][d])
      /\ torn[c][d] \/ Placed(r, stream[c][d], sent[c][d], delivered[c][d])
  BY ChannelFacts
<1>2. r.phase = "body" /\ Len(r.got) = r.need /\ UNCHANGED <<stream, sent, torn>>
  BY DEF BodyComplete
<1>3. CASE message
  <2>1. reader' = [reader EXCEPT ![c][d] = AtHeader] /\ delivered' = [delivered EXCEPT ![c][d] = e]
    BY <1>3 DEF BodyComplete
  <2>2. /\ Sound(AtHeader, stream[c][d], sent[c][d], e)
        /\ torn[c][d] \/ Placed(AtHeader, stream[c][d], sent[c][d], e)
    BY <1>1, <1>2, <1>3, MessageChannel
  <2> HIDE DEF e, r
  <2>3. Kept(AtHeader, stream[c][d], sent[c][d], e, torn[c][d]) /\ e \in Seq(Nat)
    BY <2>2 DEF Kept, Sound
  <2>4. /\ Becomes(reader', reader, c, d, AtHeader, Reading)
        /\ Becomes(delivered', delivered, c, d, e, Seq(Nat))
    <3>1. Types /\ AtHeader \in Reading
      BY ChannelFacts, HeaderFacts
    <3> QED
      BY <2>1, <2>3, <3>1, Changed DEF Types
  <2>5. /\ Becomes(stream', stream, c, d, stream[c][d], Seq(Unit))
        /\ Becomes(sent', sent, c, d, sent[c][d], Nat)
        /\ Becomes(torn', torn, c, d, torn[c][d], BOOLEAN)
    BY <1>2, ChannelFacts
  <2> QED
    BY <2>3, <2>4, <2>5, ChannelStep
<1>4. CASE ~message
  <2> DEFINE q == AfterBadBody(d)
  <2>1. reader' = [reader EXCEPT ![c][d] = q] /\ delivered' = delivered
    BY <1>4 DEF BodyComplete
  <2>2. q \in Reading /\ q.got = <<>>
    BY HeaderFacts DEF AfterBadBody
  <2>3. torn[c][d]
    BY <1>1, <1>2, <1>4, BodyWhole
  <2> HIDE DEF q, r
  <2>4. Sound(q, stream[c][d], sent[c][d], delivered[c][d])
    BY <1>1, <2>2, DropChannel
  <2> QED
    BY <1>2, <2>1, <2>3, <2>4, ReaderStep
<1> QED
  BY <1>3, <1>4

LEMMA TimeoutStep ==
    ASSUME LinkInv, NEW c \in Conns, NEW d \in Dirs, Timeout(c, d)
    PROVE  LinkInv'
<1> DEFINE r == reader[c][d]
           goesOn == d = "in" \/ r.phase = "header"
           f == [AtHeader EXCEPT !.phase = "failed"]
           t == goesOn \/ torn[c][d]
           q == IF goesOn THEN AtHeader ELSE f
<1>1. /\ Types /\ torn[c][d] \in BOOLEAN
      /\ Sound(r, stream[c][d], sent[c][d], delivered[c][d])
      /\ torn[c][d] \/ Placed(r, stream[c][d], sent[c][d], delivered[c][d])
  BY ChannelFacts
<1>2. reader' = [reader EXCEPT ![c][d] = q] /\ torn' = [torn EXCEPT ![c][d] = t]
  BY DEF Timeout
<1>3. UNCHANGED <<stream, sent, delivered>>
  BY DEF Timeout
<1>4. /\ AtHeader \in Reading /\ AtHeader.got = <<>>
      /\ f \in Reading /\ f.got = <<>> /\ f.phase = "failed"
  BY HeaderFacts
<1>5. t \in BOOLEAN
  OBVIOUS
<1>6. q \in Reading /\ q.got = <<>> /\ (goesOn \/ q.phase = "failed") /\ (goesOn => t)
      /\ (torn[c][d] => t)
  BY <1>4
<1> HIDE DEF r, q, t
<1>7. /\ Sound(q, stream[c][d], sent[c][d], delivered[c][d])
      /\ t \/ Placed(q, stream[c][d], sent[c][d], delivered[c][d])
  BY <1>1, <1>6, DropChannel
<1>8. Kept(q, stream[c][d], sent[c][d], delivered[c][d], t)
  BY <1>7 DEF Kept
<1> HIDE DEF goesOn, f
<1>9. Becomes(reader', reader, c, d, q, Reading) /\ Becomes(torn', torn, c, d, t, BOOLEAN)
  <2>1. reader \in [Conns -> [Dirs -> Reading]] /\ torn \in [Conns -> [Dirs -> BOOLEAN]]
    BY <1>1 DEF Types
  <2>2. Becomes(reader', reader, c, d, q, Reading)
    BY <1>2, <1>6, <2>1, Changed
  <2>3. Becomes(torn', torn, c, d, t, BOOLEAN)
    <3>1. Becomes([torn EXCEPT ![c][d] = t], torn, c, d, t, BOOLEAN)
      BY <1>5, <2>1, Changed, Zenon
    <3> QED
      BY <1>2, <3>1, Zenon
  <2> QED
    BY <2>2, <2>3
<1>10. /\ Becomes(stream', stream, c, d, stream[c][d], Seq(Unit))
       /\ Becomes(sent', sent, c, d, sent[c][d], Nat)
       /\ Becomes(delivered', delivered, c, d, delivered[c][d], Seq(Nat))
  BY <1>3, ChannelFacts
<1> QED
  BY <1>8, <1>9, <1>10, ChannelStep

LEMMA EndStep ==
    ASSUME LinkInv, NEW c \in Conns, NEW d \in Dirs, EndOfStream(c, d)
    PROVE  LinkInv'
<1> DEFINE f == [AtHeader EXCEPT !.phase = "failed"]
<1>1. Types /\ Sound(reader[c][d], stream[c][d], sent[c][d], delivered[c][d])
  BY ChannelFacts
<1>2. reader' = [reader EXCEPT ![c][d] = f] /\ stream' = [stream EXCEPT ![c][d] = <<>>]
  BY DEF EndOfStream
<1>3. UNCHANGED <<sent, delivered, torn>>
  BY DEF EndOfStream
<1>4. f \in Reading /\ f.got = <<>> /\ f.phase = "failed" /\ <<>> \in Seq(Unit)
  BY HeaderFacts
<1> HIDE DEF f
<1>5. Kept(f, <<>>, sent[c][d], delivered[c][d], torn[c][d])
  <2>1. /\ Sound(f, <<>>, sent[c][d], delivered[c][d])
        /\ Placed(reader[c][d], stream[c][d], sent[c][d], delivered[c][d])
              => Placed(f, <<>>, sent[c][d], delivered[c][d])
    BY <1>1, <1>4, EndChannel
  <2> QED
    BY <2>1, ChannelFacts DEF Kept
<1>6. /\ Becomes(reader', reader, c, d, f, Reading)
      /\ Becomes(stream', stream, c, d, <<>>, Seq(Unit))
  BY <1>1, <1>2, <1>4, Changed DEF Types
<1>7. /\ Becomes(sent', sent, c, d, sent[c][d], Nat)
      /\ Becomes(delivered', delivered, c, d, delivered[c][d], Seq(Nat))
      /\ Becomes(torn', torn, c, d, torn[c][d], BOOLEAN)
  BY <1>3, ChannelFacts
<1> QED
  BY <1>5, <1>6, <1>7, ChannelStep

\* An end that is closed leaves the directions it read as they were before the connection.
LEMMA CloseStep ==
    ASSUME LinkInv, NEW p, NEW cs, Close(p, cs)
    PROVE  LinkInv'
<1> DEFINE gone(c, d) == c \in cs /\ ReadingEnd(d) = p
<1>1. Types /\ AtHeader \in Reading /\ <<>> \in Seq(Unit) /\ <<>> \in Seq(Nat)
  BY HeaderFacts DEF LinkInv
<1>2. /\ reader' = [c \in Conns |-> [d \in Dirs |-> IF gone(c, d) THEN AtHeader ELSE reader[c][d]]]
      /\ stream' = [c \in Conns |-> [d \in Dirs |-> IF gone(c, d) THEN <<>> ELSE stream[c][d]]]
      /\ delivered' = [c \in Conns |-> [d \in Dirs |-> IF gone(c, d) THEN <<>> ELSE delivered[c][d]]]
      /\ torn' = [c \in Conns |-> [d \in Dirs |-> torn[c][d] /\ ~gone(c, d)]]
      /\ sent' = [c \in Conns |-> [d \in Dirs |-> IF gone(c, d) THEN 0 ELSE sent[c][d]]]
  BY DEF Close
<1> HIDE DEF gone
<1>3. Types'
  <2>1. reader' \in [Conns -> [Dirs -> Reading]] /\ stream' \in [Conns -> [Dirs -> Seq(Unit)]]
    BY <1>1, <1>2 DEF Types
  <2>2. delivered' \in [Conns -> [Dirs -> Seq(Nat)]] /\ sent' \in [Conns -> [Dirs -> Nat]]
    BY <1>1, <1>2 DEF Types
  <2>3. torn' \in [Conns -> [Dirs -> BOOLEAN]]
    BY <1>1, <1>2 DEF Types
  <2> QED
    BY <2>1, <2>2, <2>3 DEF Types
<1>4. ASSUME NEW c \in Conns, NEW d \in Dirs
      PROVE  Kept(reader[c][d], stream[c][d], sent[c][d], delivered[c][d], torn[c][d])'
  <2>1. CASE gone(c, d)
    <3>1. /\ reader'[c][d] = AtHeader /\ stream'[c][d] = <<>> /\ sent'[c][d] = 0
          /\ delivered'[c][d] = <<>>
      BY <1>2, <1>4, <2>1
    <3> QED
      BY <3>1, StartChannel DEF Kept, Sound, Placed
  <2>2. CASE ~gone(c, d)
    <3>1. /\ reader'[c][d] = reader[c][d] /\ stream'[c][d] = stream[c][d]
          /\ sent'[c][d] = sent[c][d] /\ delivered'[c][d] = delivered[c][d]
      BY <1>2, <1>4, <2>2
    <3>2. torn'[c][d] = torn[c][d]
      <4>1. torn[c][d] \in BOOLEAN
        BY <1>4, ChannelFacts
      <4> QED
        BY <1>2, <1>4, <2>2, <4>1
    <3>3. Kept(reader[c][d], stream[c][d], sent[c][d], delivered[c][d], torn[c][d])
      BY <1>4 DEF LinkInv
    <3> QED
      BY <3>1, <3>2, <3>3 DEF Kept, Sound, Placed
  <2> QED
    BY <2>1, <2>2
<1> QED
  BY <1>3, <1>4 DEF LinkInv

LEMMA StillStep ==
    ASSUME LinkInv, UNCHANGED <<reader, stream, sent, delivered, torn>>
    PROVE  LinkInv'
<1>1. Types'
  BY DEF LinkInv, Types
<1>2. ASSUME NEW c \in Conns, NEW d \in Dirs
      PROVE  Kept(reader[c][d], stream[c][d], sent[c][d], delivered[c][d], torn[c][d])'
  <2>1. Kept(reader[c][d], stream[c][d], sent[c][d], delivered[c][d], torn[c][d])
    BY DEF LinkInv
  <2>2. /\ reader'[c][d] = reader[c][d] /\ stream'[c][d] = stream[c][d]
        /\ sent'[c][d] = sent[c][d] /\ delivered'[c][d] = delivered[c][d]
        /\ torn'[c][d] = torn[c][d]
    OBVIOUS
  <2> QED
    BY <2>1, <2>2 DEF Kept, Sound, Placed
<1> QED
  BY <1>1, <1>2 DEF LinkInv

LEMMA LinkInit == Init => LinkInv
<1> SUFFICES ASSUME Init PROVE LinkInv
  OBVIOUS
<1>1. /\ reader = [c \in Conns |-> [d \in Dirs |-> AtHeader]]
      /\ stream = [c \in Conns |-> [d \in Dirs |-> <<>>]]
      /\ sent = [c \in Conns |-> [d \in Dirs |-> 0]]
      /\ delivered = [c \in Conns |-> [d \in Dirs |-> <<>>]]
      /\ torn = [c \in Conns |-> [d \in Dirs |-> FALSE]]
  BY DEF Init
<1>2. Types
  BY <1>1, HeaderFacts DEF Types
<1>3. ASSUME NEW c \in Conns, NEW d \in Dirs
      PROVE  Kept(reader[c][d], stream[c][d], sent[c][d], delivered[c][d], torn[c][d])
  BY <1>1, <1>3, StartChannel DEF Kept
<1> QED
  BY <1>2, <1>3 DEF LinkInv

LEMMA LinkNext ==
    ASSUME LinkInv, [Next]_vars
    PROVE  LinkInv'
<1>1. ASSUME NEW c \in Conns, NEW d \in Dirs, Reader(c, d)
      PROVE  LinkInv'
  BY <1>1, ReadStep, HeaderStep, BodyStep, EndStep DEF Reader
<1>2. ASSUME NEW c \in Conns, NEW d \in Dirs, Timeout(c, d)
      PROVE  LinkInv'
  BY <1>2, TimeoutStep
<1>3. ASSUME NEW c \in Conns, NEW d \in Dirs, NEW size \in Sizes, Write(c, d, size)
      PROVE  LinkInv'
  BY <1>3, WriteStep
<1>4. CASE Listen \/ Dial \/ DialFails \/ BackoffOver
  BY <1>4, StillStep DEF Listen, Dial, DialFails, BackoffOver
<1>5. CASE ReadError \/ WriteError
  BY <1>5, CloseStep DEF ReadError, WriteError, RunConnReturns
<1>6. ASSUME NEW c \in Conns, HandlerReturns(c)
      PROVE  LinkInv'
  BY <1>6, CloseStep DEF HandlerReturns
<1>7. ASSUME NEW p \in Children, Exits(p)
      PROVE  LinkInv'
  BY <1>7, CloseStep DEF Exits
<1>8. CASE Supervise
  BY <1>8, StillStep DEF Supervise, Start, Poll, Finally, Terminate, Waited, Kill, Connections
<1>9. CASE Interrupt \/ SupervisorDies
  BY <1>9, StillStep DEF Interrupt, Finally, SupervisorDies, Connections
<1>10. CASE UNCHANGED vars
  BY <1>10, StillStep DEF vars
<1> QED
  BY <1>1, <1>2, <1>3, <1>4, <1>5, <1>6, <1>7, <1>8, <1>9, <1>10 DEF Next

LEMMA LinkInvDelivers == LinkInv => FramesDelivered
<1> SUFFICES ASSUME LinkInv, NEW c \in Conns, NEW d \in Dirs
             PROVE  LET got == delivered[c][d]
                    IN  /\ \A i, j \in DOMAIN got : i < j => got[i] < got[j]
                        /\ torn[c][d] \/ got = [i \in DOMAIN got |-> i]
  BY DEF FramesDelivered
<1> DEFINE got == delivered[c][d]
<1>1. got \in Seq(Nat) /\ DOMAIN got = 1..Len(got)
  <2>1. got \in Seq(Nat)
    BY ChannelFacts
  <2> QED
    BY <2>1
<1>2. \A i, j \in 1..Len(got) : i < j => got[i] < got[j]
  BY ChannelFacts DEF Sound
<1>3. torn[c][d] \/ \A i \in 1..Len(got) : got[i] = i
  BY ChannelFacts DEF Placed
<1> HIDE DEF got
<1>4. (\A i \in 1..Len(got) : got[i] = i) => got = [i \in DOMAIN got |-> i]
  BY <1>1
<1> QED
  BY <1>1, <1>2, <1>3, <1>4 DEF got

\* On every connection and in each direction, messages are handed on in the order they
\* were written and none twice, and without a gap unless a timeout took part of a
\* frame away (recv_frame, readJSONFrame and the loops around them).
THEOREM FramesDeliveredHolds == Spec => []FramesDelivered
<1>1. LinkInv /\ [Next]_vars => LinkInv'
  BY LinkNext
<1> QED
  BY <1>1, LinkInit, LinkInvDelivers, PTL DEF Spec
================================================================================
