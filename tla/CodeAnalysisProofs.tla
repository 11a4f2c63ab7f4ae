--------------------------- MODULE CodeAnalysisProofs ---------------------------
(***************************************************************************)
(* Theorems about CodeAnalysis for any number of workers, codes, functions *)
(* and restarts, and for any names that collide as directory names.        *)
(*                                                                         *)
(* A code is sent once, and its future says where it is: in the event      *)
(* queue ("none"), in the pool ("pending") or with a worker ("running").   *)
(* Until its analysis gets as far as a function, no directory names that   *)
(* function, so the directory that does name it is the worker's own.       *)
(*                                                                         *)
(* Without a restart only the holder of the lock has a metadata file open  *)
(* (TornInv), and what was scheduled for a launch is what its code's       *)
(* artifacts still choose (ChosenInv).                                     *)
(*                                                                         *)
(* The second half is about SassText, for any kernels and budgets.  Its    *)
(* steps follow one another, so that its invariant (TextInv) says of each  *)
(* stage what the step before it made: that is a lemma about the           *)
(* algorithm, and the longer part of the proof.                            *)
(***************************************************************************)
EXTENDS CodeAnalysis, SassText, WellFoundedInduction, FiniteSetTheorems, SequenceTheorems, TLAPS

Kern(c, i) == <<c, Functions[c][i]>>

Critical == {"disassemble", "write", "open", "close", "extract", "render", "unlock"}
Writing  == {"write", "open", "close", "extract", "render"}
Failures == {"no", "tool", "torn", "loop"}
Contents == Kernels \cup {Nil, Torn}
Dir      == [sass : Contents, metadata : Contents, loop : Contents]
CodeMessage(m) == m.type = "code"

IsWork(r) ==
    r \in [code : Codes \cup {Nil}, done : Seq(Artifact), used : {r.used}, dir : {r.dir},
           failed : Failures]

AnalysisType ==
    /\ events \in Seq(Message) /\ pool \in Seq(Codes)
    /\ received \in [count : Nat, codes : SUBSET Codes]
    /\ session \in {"none", "active", "ended"}
    /\ future \in [Codes -> {"none", "pending", "running", "cancelled", "done"}]
    /\ locked \in Workers \cup {Nil}
    /\ pc \in [Workers -> {"idle", "waiting", "disassemble", "write", "open", "close", "extract",
                           "render", "unlock", "return"}]
    /\ DOMAIN work = Workers /\ \A w \in Workers : IsWork(work[w])
    /\ \A w \in Workers : pc[w] # "idle" => work[w].code \in Codes
    /\ artifacts \in [Codes -> Seq(Artifact)]
    /\ disk \in [Dirs -> Dir]

\* Where the codes are.
Stage ==
    /\ \A i \in 1..Len(events) : CodeMessage(events[i]) =>
          events[i].code \in received.codes /\ future[events[i].code] = "none"
    /\ \A i, j \in 1..Len(events) :
          CodeMessage(events[i]) /\ CodeMessage(events[j]) /\ events[i].code = events[j].code => i = j
    /\ \A i \in 1..Len(pool) : future[pool[i]] = "pending"
    /\ \A i, j \in 1..Len(pool) : pool[i] = pool[j] => i = j
    /\ \A w \in Workers : pc[w] # "idle" => future[work[w].code] = "running"
    /\ \A v, w \in Workers : pc[v] # "idle" /\ pc[w] # "idle" /\ work[v].code = work[w].code => v = w
    /\ \A c \in Codes : c \notin received.codes => future[c] = "none"

\* Nothing is known of a code before its analysis: neither in memory nor on the disk.
Fresh(c) ==
    /\ artifacts[c] = <<>>
    /\ \A d \in Dirs, i \in 1..Len(Functions[c]) : disk[d].metadata # Kern(c, i)

FreshCodes ==
    /\ \A i \in 1..Len(events) : CodeMessage(events[i]) => Fresh(events[i].code)
    /\ \A i \in 1..Len(pool) : Fresh(pool[i])
    /\ \A c \in Codes : c \notin received.codes => Fresh(c)
    /\ \A w \in Workers : pc[w] # "idle" => artifacts[work[w].code] = <<>>

\* The artifacts a worker has so far.
Done(w) ==
    LET c == work[w].code
        n == Len(work[w].done)
    IN  /\ n =< Len(Functions[c])
        /\ \A i \in 1..n : work[w].done[i].kernel = Kern(c, i) /\ work[w].done[i].text = Kern(c, i)
        /\ pc[w] \in {"waiting", "disassemble"} => n = 0
        /\ pc[w] \in Writing => n < Len(Functions[c])
        /\ pc[w] \in {"unlock", "return"} /\ work[w].failed = "no" => n = 0 \/ n = Len(Functions[c])

\* The directories a worker has written so far.
Written(w) ==
    LET c == work[w].code
        n == Len(work[w].done)
        d == work[w].dir
    IN  /\ pc[w] \in {"waiting", "disassemble", "write", "open", "close"} =>
              \A x \in Dirs, i \in (n + 1)..Len(Functions[c]) : disk[x].metadata # Kern(c, i)
        /\ pc[w] \in {"extract", "render"} =>
              \A x \in Dirs, i \in (n + 1)..Len(Functions[c]) :
                  disk[x].metadata = Kern(c, i) => i = n + 1 /\ x = d
        /\ pc[w] \in {"open", "close", "extract", "render"} /\ d \in Dirs => disk[d].sass = Kern(c, n + 1)
        /\ pc[w] = "render" /\ d \in Dirs => disk[d].loop = Kern(c, n + 1)

Progress ==
    \A w \in Workers : pc[w] # "idle" =>
        (pc[w] \in Critical => locked = w) /\ Done(w) /\ Written(w)

AnalysisInv == AnalysisType /\ Stage /\ FreshCodes /\ Progress /\ ArtifactOfOwnCode

-----------------------------------------------------------------------------
(* Facts about kernels, records and sequences. *)

LEMMA KernelFacts ==
    ASSUME NEW c \in Codes
    PROVE  /\ Len(Functions[c]) \in Nat
           /\ \A i \in 1..Len(Functions[c]) : Kern(c, i) \in Kernels /\ Kern(c, i) # Torn /\ Kern(c, i) # Nil
           /\ \A b \in Codes : \A i \in 1..Len(Functions[c]), j \in 1..Len(Functions[b]) :
                 Kern(c, i) = Kern(b, j) => c = b /\ i = j
<1>1. \A b \in Codes : /\ Functions[b] \in Seq(ToSet(Functions[b])) /\ Len(Functions[b]) \in Nat
                       /\ DOMAIN Functions[b] = 1..Len(Functions[b])
  BY AnalysisAssumption
<1>2. \A i \in 1..Len(Functions[c]) : Functions[c][i] \in ToSet(Functions[c])
  BY <1>1 DEF ToSet
<1>3. \A i \in 1..Len(Functions[c]) : Kern(c, i) \in Kernels
  BY <1>2 DEF Kern, Kernels
<1>4. \A i, j \in 1..Len(Functions[c]) : Functions[c][i] = Functions[c][j] => i = j
  BY <1>1, AnalysisAssumption DEF IsInjective
<1> QED
  BY <1>1, <1>3, <1>4, AnalysisAssumption DEF Kern

\* Assigning a field of a worker's record leaves the others.
LEMMA WorkSet ==
    ASSUME NEW r, IsWork(r), NEW b \in Codes \cup {Nil}, NEW d \in Seq(Artifact), NEW u, NEW y,
           NEW f \in Failures
    PROVE  /\ IsWork([code |-> b, done |-> d, used |-> u, dir |-> y, failed |-> f])
           /\ [r EXCEPT !.failed = f] = [code |-> r.code, done |-> r.done, used |-> r.used,
                                         dir |-> r.dir, failed |-> f]
           /\ [r EXCEPT !.done = d] = [code |-> r.code, done |-> d, used |-> r.used,
                                       dir |-> r.dir, failed |-> r.failed]
           /\ r.code \in Codes \cup {Nil} /\ r.done \in Seq(Artifact) /\ r.failed \in Failures
<1> DEFINE C == Codes \cup {Nil}
           D == Seq(Artifact)
           U == {r.used, u}
           Y == {r.dir, y}
<1>1. r \in [code : C, done : D, used : U, dir : Y, failed : Failures]
  BY DEF IsWork
<1>2. IsWork([code |-> b, done |-> d, used |-> u, dir |-> y, failed |-> f])
  BY DEF IsWork
<1>3. r.code \in C /\ r.done \in D /\ r.failed \in Failures
  BY <1>1
<1> HIDE DEF C, D, U, Y
<1>4. r = [code |-> r.code, done |-> r.done, used |-> r.used, dir |-> r.dir, failed |-> r.failed]
  BY <1>1
<1>5. [r EXCEPT !.failed = f] = [code |-> r.code, done |-> r.done, used |-> r.used,
                                 dir |-> r.dir, failed |-> f]
  BY <1>1
<1>6. [r EXCEPT !.done = d] = [code |-> r.code, done |-> d, used |-> r.used, dir |-> r.dir,
                               failed |-> r.failed]
  BY <1>1
<1> QED
  BY <1>2, <1>3, <1>5, <1>6 DEF C, D

LEMMA PlaceSet ==
    ASSUME NEW r, IsWork(r), NEW u, NEW y
    PROVE  [r EXCEPT !.used = u, !.dir = y] = [code |-> r.code, done |-> r.done, used |-> u,
                                               dir |-> y, failed |-> r.failed]
<1> DEFINE C == Codes \cup {Nil}
           D == Seq(Artifact)
           U == {r.used, u}
           Y == {r.dir, y}
           q == [r EXCEPT !.used = u, !.dir = y]
<1>1. u \in U /\ y \in Y
  OBVIOUS
<1>2. r \in [code : C, done : D, used : U, dir : Y, failed : Failures]
  BY DEF IsWork
<1> HIDE DEF C, D, U, Y
<1>3. /\ q \in [code : C, done : D, used : U, dir : Y, failed : Failures]
      /\ q.code = r.code /\ q.done = r.done /\ q.used = u /\ q.dir = y /\ q.failed = r.failed
  BY <1>1, <1>2
<1> HIDE DEF q
<1>4. q = [code |-> q.code, done |-> q.done, used |-> q.used, dir |-> q.dir, failed |-> q.failed]
  BY <1>3
<1>5. q = [code |-> r.code, done |-> r.done, used |-> u, dir |-> y, failed |-> r.failed]
  BY <1>3, <1>4
<1> QED
  BY <1>5 DEF q

LEMMA NoWorkFacts == IsWork(NoWork) /\ NoWork.done = <<>>
BY DEF NoWork, IsWork, Failures

LEMMA TailFacts ==
    ASSUME NEW S, NEW s \in Seq(S), s # <<>>
    PROVE  /\ Tail(s) \in Seq(S) /\ Len(Tail(s)) = Len(s) - 1 /\ Len(s) \in Nat \ {0}
           /\ \A i \in 1..Len(Tail(s)) : Tail(s)[i] = s[i + 1] /\ i + 1 \in 1..Len(s)
           /\ Head(s) = s[1] /\ 1 \in 1..Len(s) /\ s[1] \in S
OBVIOUS

LEMMA AppendFacts ==
    ASSUME NEW S, NEW s \in Seq(S), NEW e \in S
    PROVE  /\ Append(s, e) \in Seq(S) /\ Len(Append(s, e)) = Len(s) + 1 /\ Len(s) \in Nat
           /\ \A i \in 1..Len(s) : Append(s, e)[i] = s[i]
           /\ Append(s, e)[Len(s) + 1] = e
OBVIOUS

LEMMA MessageFacts ==
    /\ \A c \in Codes : [type |-> "code", code |-> c] \in Message
    /\ \A m \in Message : m.type \in {"code", "launches", "end"}
    /\ \A m \in Message : m.type = "code" => m.code \in Codes
BY DEF Message

-----------------------------------------------------------------------------
(* The initial state and a restart. *)

Blank ==
    /\ events = <<>> /\ session = "none" /\ locked = Nil
    /\ future = [c \in Codes |-> "none"] /\ pool = <<>>
    /\ pc = [w \in Workers |-> "idle"] /\ work = [w \in Workers |-> NoWork]
    /\ artifacts = [c \in Codes |-> <<>>]

Unsent ==
    /\ received \in [count : Nat, codes : SUBSET Codes]
    /\ disk \in [Dirs -> Dir]
    /\ \A c \in Codes : c \notin received.codes =>
          \A d \in Dirs, i \in 1..Len(Functions[c]) : disk[d].metadata # Kern(c, i)

LEMMA BlankInv == Blank /\ Unsent => AnalysisInv
<1> SUFFICES ASSUME Blank, Unsent PROVE AnalysisInv
  OBVIOUS
<1>1. \A w \in Workers : pc[w] = "idle" /\ work[w] = NoWork
  BY DEF Blank
<1>2. \A c \in Codes : artifacts[c] = <<>> /\ future[c] = "none"
  BY DEF Blank
<1>3. AnalysisType
  BY <1>1, NoWorkFacts DEF Blank, Unsent, AnalysisType
<1>4. Stage
  BY <1>1, <1>2 DEF Blank, Stage
<1>5. FreshCodes
  BY <1>1, <1>2 DEF Blank, Unsent, FreshCodes, Fresh
<1>6. Progress
  BY <1>1 DEF Progress
<1>7. ArtifactOfOwnCode
  BY <1>2 DEF ArtifactOfOwnCode, ToSet
<1> QED
  BY <1>3, <1>4, <1>5, <1>6, <1>7 DEF AnalysisInv

LEMMA InitInv == Init => AnalysisInv
<1> SUFFICES ASSUME Init PROVE AnalysisInv
  OBVIOUS
<1>1. Blank
  BY DEF Init, Blank
<1>2. NoDir \in Dir /\ NoDir.metadata = Nil
  BY DEF NoDir, Dir, Contents
<1>3. \A d \in Dirs : disk[d] = NoDir
  BY DEF Init
<1>4. \A c \in Codes : \A i \in 1..Len(Functions[c]) : Kern(c, i) # Nil
  BY KernelFacts
<1>5. Unsent
  BY <1>2, <1>3, <1>4 DEF Init, Unsent
<1> QED
  BY <1>1, <1>5, BlankInv

LEMMA CrashInv == AnalysisInv /\ Crash => AnalysisInv'
<1> SUFFICES ASSUME AnalysisInv, Crash PROVE AnalysisInv'
  OBVIOUS
<1>1. Blank'
  BY DEF Crash, Blank
<1>2. Unsent'
  BY DEF Crash, Unsent, AnalysisInv, AnalysisType, FreshCodes, Fresh
<1> QED
  BY <1>1, <1>2, BlankInv, PTL

-----------------------------------------------------------------------------
(* The readers and the event thread. *)

LEMMA EndedFacts ==
    ASSUME AnalysisType, MarkSessionEnded \/ UNCHANGED <<session, future, pool>>
    PROVE  /\ session' \in {"none", "active", "ended"}
           /\ future' \in [Codes -> {"none", "pending", "running", "cancelled", "done"}]
           /\ \A c \in Codes : future[c] # "pending" => future'[c] = future[c]
           /\ (pool' = pool /\ future' = future) \/ pool' = <<>>
<1>1. EndedFutures \in [Codes -> {"none", "pending", "running", "cancelled", "done"}]
      /\ \A c \in Codes : future[c] # "pending" => EndedFutures[c] = future[c]
  BY DEF EndedFutures, AnalysisType
<1> QED
  BY <1>1 DEF MarkSessionEnded, AnalysisType

\* Steps that leave the workers alone.
LEMMA WorkersKept ==
    ASSUME AnalysisInv, UNCHANGED <<pc, work, locked, disk, artifacts>>
    PROVE  /\ Progress' /\ ArtifactOfOwnCode'
           /\ \A c \in Codes : Fresh(c)' <=> Fresh(c)
BY DEF AnalysisInv, Progress, Done, Written, ArtifactOfOwnCode, Fresh

LEMMA ReceiveInv ==
    ASSUME AnalysisInv, NEW m \in Message, Receive(m)
    PROVE  AnalysisInv'
<1>1. /\ UNCHANGED <<pc, work, locked, disk, artifacts>>
      /\ events' = Append(events, m)
      /\ received' = [count |-> received.count + 1,
                      codes |-> received.codes \cup (IF m.type = "code" THEN {m.code} ELSE {})]
      /\ m.type = "code" => m.code \notin received.codes
      /\ m.type = "code" => UNCHANGED <<session, future, pool>>
      /\ MarkSessionEnded \/ UNCHANGED <<session, future, pool>>
  BY DEF Receive
<1>2. /\ events \in Seq(Message) /\ received.codes \subseteq Codes /\ received.count \in Nat
      /\ m.type = "code" => m.code \in Codes
  BY MessageFacts DEF AnalysisInv, AnalysisType
<1>3. /\ events' \in Seq(Message) /\ Len(events') = Len(events) + 1 /\ Len(events) \in Nat
      /\ \A i \in 1..Len(events) : events'[i] = events[i]
      /\ events'[Len(events) + 1] = m
  BY <1>1, <1>2, AppendFacts
<1>4. /\ received' \in [count : Nat, codes : SUBSET Codes] /\ received.codes \subseteq received'.codes
      /\ m.type = "code" => m.code \in received'.codes
      /\ \A c \in Codes : c \notin received'.codes => c \notin received.codes
  BY <1>1, <1>2
<1>5. /\ session' \in {"none", "active", "ended"}
      /\ future' \in [Codes -> {"none", "pending", "running", "cancelled", "done"}]
      /\ \A c \in Codes : future[c] # "pending" => future'[c] = future[c]
      /\ (pool' = pool /\ future' = future) \/ pool' = <<>>
  BY <1>1, EndedFacts DEF AnalysisInv
<1>6. AnalysisType'
  <2>1. pool' \in Seq(Codes)
    <3>1. pool \in Seq(Codes) /\ <<>> \in Seq(Codes)
      BY DEF AnalysisInv, AnalysisType
    <3> QED
      BY <1>5, <3>1
  <2> QED
    BY <1>1, <1>3, <1>4, <1>5, <2>1 DEF AnalysisInv, AnalysisType
<1>7. \A i \in 1..Len(events') : \/ i \in 1..Len(events) /\ events'[i] = events[i]
                                 \/ i = Len(events) + 1 /\ events'[i] = m
  BY <1>3
<1>8. /\ \A i \in 1..Len(events) : CodeMessage(events[i]) =>
            events[i].code \in received.codes /\ events[i].code \in Codes
            /\ future[events[i].code] = "none"
      /\ \A i, j \in 1..Len(events) :
            CodeMessage(events[i]) /\ CodeMessage(events[j]) /\ events[i].code = events[j].code => i = j
      /\ \A c \in Codes : c \notin received.codes => future[c] = "none" /\ Fresh(c)
      /\ \A i \in 1..Len(events) : CodeMessage(events[i]) => Fresh(events[i].code)
  BY <1>2, MessageFacts DEF AnalysisInv, Stage, FreshCodes, CodeMessage
<1>9. \A i \in 1..Len(events') : CodeMessage(events'[i]) =>
          /\ events'[i].code \in received'.codes /\ future'[events'[i].code] = "none"
          /\ events'[i].code \in Codes /\ Fresh(events'[i].code)
  BY <1>1, <1>2, <1>4, <1>5, <1>7, <1>8 DEF CodeMessage
<1>10. \A i, j \in 1..Len(events') :
          CodeMessage(events'[i]) /\ CodeMessage(events'[j]) /\ events'[i].code = events'[j].code => i = j
  BY <1>1, <1>2, <1>7, <1>8 DEF CodeMessage
<1>11. /\ \A i \in 1..Len(pool') : future'[pool'[i]] = "pending" /\ pool'[i] \in Codes /\ Fresh(pool'[i])
       /\ \A i, j \in 1..Len(pool') : pool'[i] = pool'[j] => i = j
  <2>1. CASE pool' = pool /\ future' = future
    BY <2>1 DEF AnalysisInv, AnalysisType, Stage, FreshCodes
  <2>2. CASE pool' = <<>>
    BY <2>2
  <2> QED
    BY <1>5, <2>1, <2>2
<1>12. \A w \in Workers : pc[w] # "idle" => future'[work[w].code] = "running"
  BY <1>5 DEF AnalysisInv, AnalysisType, Stage
<1>13. \A c \in Codes : c \notin received'.codes => future'[c] = "none" /\ Fresh(c)
  BY <1>4, <1>5, <1>8
<1>14. Stage'
  BY <1>1, <1>9, <1>10, <1>11, <1>12, <1>13 DEF AnalysisInv, Stage, CodeMessage
<1>15. FreshCodes'
  BY <1>1, <1>9, <1>11, <1>13, WorkersKept DEF AnalysisInv, FreshCodes, CodeMessage
<1> QED
  BY <1>1, <1>6, <1>14, <1>15, WorkersKept DEF AnalysisInv

LEMMA TailPart ==
    ASSUME AnalysisInv, events # <<>>, events' = Tail(events)
    PROVE  /\ events' \in Seq(Message) /\ Head(events) \in Message
           /\ \A i \in 1..Len(events') : CodeMessage(events'[i]) =>
                 /\ events'[i].code \in received.codes /\ events'[i].code \in Codes
                 /\ future[events'[i].code] = "none" /\ Fresh(events'[i].code)
                 /\ CodeMessage(Head(events)) => events'[i].code # Head(events).code
           /\ \A i, j \in 1..Len(events') :
                 CodeMessage(events'[i]) /\ CodeMessage(events'[j]) /\ events'[i].code = events'[j].code
                 => i = j
           /\ CodeMessage(Head(events)) =>
                 LET c == Head(events).code
                 IN  c \in Codes /\ c \in received.codes /\ future[c] = "none" /\ Fresh(c)
<1>1. events \in Seq(Message)
  BY DEF AnalysisInv, AnalysisType
<1>2. /\ Tail(events) \in Seq(Message) /\ Len(Tail(events)) = Len(events) - 1
      /\ Len(events) \in Nat \ {0}
      /\ \A i \in 1..Len(Tail(events)) : Tail(events)[i] = events[i + 1] /\ i + 1 \in 1..Len(events)
      /\ Head(events) = events[1] /\ 1 \in 1..Len(events) /\ events[1] \in Message
  BY <1>1, TailFacts
<1>3. /\ \A i \in 1..Len(events) : CodeMessage(events[i]) =>
            /\ events[i].code \in received.codes /\ events[i].code \in Codes
            /\ future[events[i].code] = "none" /\ Fresh(events[i].code)
      /\ \A i, j \in 1..Len(events) :
            CodeMessage(events[i]) /\ CodeMessage(events[j]) /\ events[i].code = events[j].code => i = j
  BY <1>1, MessageFacts DEF AnalysisInv, Stage, FreshCodes, CodeMessage
<1>4. \A i \in 1..Len(events') : events'[i] = events[i + 1] /\ i + 1 \in 1..Len(events) /\ i + 1 # 1
  BY <1>2
<1>5. \A i \in 1..Len(events') : CodeMessage(events'[i]) =>
                 /\ events'[i].code \in received.codes /\ events'[i].code \in Codes
                 /\ future[events'[i].code] = "none" /\ Fresh(events'[i].code)
                 /\ CodeMessage(Head(events)) => events'[i].code # Head(events).code
  BY <1>2, <1>3, <1>4
<1>6. ASSUME NEW i \in 1..Len(events'), NEW j \in 1..Len(events'),
             CodeMessage(events'[i]), CodeMessage(events'[j]), events'[i].code = events'[j].code
      PROVE  i = j
  <2>1. i + 1 = j + 1
    BY <1>3, <1>4, <1>6
  <2> QED
    BY <1>2, <2>1
<1> QED
  BY <1>2, <1>3, <1>5, <1>6

LEMMA DequeueInv ==
    ASSUME AnalysisInv, events # <<>>, events' = Tail(events),
           UNCHANGED <<received, pc, work, locked, disk, artifacts>>,
           session' \in {"none", "active", "ended"},
           MarkSessionEnded \/ UNCHANGED <<future, pool>>
    PROVE  AnalysisInv'
<1>1. /\ events' \in Seq(Message)
      /\ \A i \in 1..Len(events') : CodeMessage(events'[i]) =>
            /\ events'[i].code \in received.codes /\ events'[i].code \in Codes
            /\ future[events'[i].code] = "none" /\ Fresh(events'[i].code)
      /\ \A i, j \in 1..Len(events') :
            CodeMessage(events'[i]) /\ CodeMessage(events'[j]) /\ events'[i].code = events'[j].code
            => i = j
  BY TailPart
<1>2. /\ future' \in [Codes -> {"none", "pending", "running", "cancelled", "done"}]
      /\ \A c \in Codes : future[c] # "pending" => future'[c] = future[c]
      /\ (pool' = pool /\ future' = future) \/ pool' = <<>>
  BY EndedFacts DEF AnalysisInv, AnalysisType
<1>3. pool' \in Seq(Codes)
  <2>1. pool \in Seq(Codes) /\ <<>> \in Seq(Codes)
    BY DEF AnalysisInv, AnalysisType
  <2> QED
    BY <1>2, <2>1
<1>4. AnalysisType'
  BY <1>1, <1>2, <1>3 DEF AnalysisInv, AnalysisType
<1>5. /\ \A i \in 1..Len(pool') : future'[pool'[i]] = "pending" /\ Fresh(pool'[i])
      /\ \A i, j \in 1..Len(pool') : pool'[i] = pool'[j] => i = j
  <2>1. CASE pool' = pool /\ future' = future
    BY <2>1 DEF AnalysisInv, AnalysisType, Stage, FreshCodes
  <2>2. CASE pool' = <<>>
    BY <2>2
  <2> QED
    BY <1>2, <2>1, <2>2
<1>6. \A w \in Workers : pc[w] # "idle" => future'[work[w].code] = "running"
  BY <1>2 DEF AnalysisInv, AnalysisType, Stage
<1>7. \A c \in Codes : c \notin received.codes => future'[c] = "none" /\ Fresh(c)
  BY <1>2 DEF AnalysisInv, Stage, FreshCodes
<1>8. Stage'
  BY <1>1, <1>2, <1>5, <1>6, <1>7 DEF AnalysisInv, Stage, CodeMessage
<1>9. \A c \in Codes : Fresh(c)' <=> Fresh(c)
  BY WorkersKept
<1>10. FreshCodes'
  <2>1. \A i \in 1..Len(pool') : pool'[i] \in Codes
    BY <1>3
  <2> QED
    BY <1>1, <1>5, <1>7, <1>9, <2>1 DEF AnalysisInv, FreshCodes, CodeMessage
<1> QED
  BY <1>4, <1>8, <1>10, WorkersKept DEF AnalysisInv

LEMMA HandleCodeInv ==
    ASSUME AnalysisInv, HandleCode
    PROVE  AnalysisInv'
<1> DEFINE c == Head(events).code
<1>1. /\ events # <<>> /\ events' = Tail(events) /\ CodeMessage(Head(events))
      /\ UNCHANGED <<received, pc, work, locked, disk, artifacts>>
      /\ session' \in {"none", "active", "ended"}
  BY DEF HandleCode, Handling, CodeMessage, Opened, AnalysisInv, AnalysisType
<1>2. CASE UNCHANGED <<future, pool>>
  BY <1>1, <1>2, DequeueInv
<1>3. CASE future' = [future EXCEPT ![c] = "pending"] /\ pool' = Append(pool, c)
  <2> HIDE DEF c
  <2>1. /\ events' \in Seq(Message)
        /\ \A i \in 1..Len(events') : CodeMessage(events'[i]) =>
              /\ events'[i].code \in received.codes /\ events'[i].code \in Codes
              /\ future[events'[i].code] = "none" /\ Fresh(events'[i].code)
              /\ events'[i].code # c
        /\ \A i, j \in 1..Len(events') :
              CodeMessage(events'[i]) /\ CodeMessage(events'[j]) /\ events'[i].code = events'[j].code
              => i = j
        /\ c \in Codes /\ c \in received.codes /\ future[c] = "none" /\ Fresh(c)
    BY <1>1, TailPart DEF c
  <2>2. /\ pool \in Seq(Codes)
        /\ future' \in [Codes -> {"none", "pending", "running", "cancelled", "done"}]
        /\ future'[c] = "pending" /\ \A b \in Codes : b # c => future'[b] = future[b]
    BY <1>3, <2>1 DEF AnalysisInv, AnalysisType
  <2>3. /\ pool' \in Seq(Codes) /\ Len(pool') = Len(pool) + 1 /\ Len(pool) \in Nat
        /\ \A i \in 1..Len(pool) : pool'[i] = pool[i]
        /\ pool'[Len(pool) + 1] = c
    BY <1>3, <2>1, <2>2, AppendFacts
  <2>4. AnalysisType'
    BY <1>1, <2>1, <2>2, <2>3 DEF AnalysisInv, AnalysisType
  <2>5. \A i \in 1..Len(pool') : \/ i \in 1..Len(pool) /\ pool'[i] = pool[i]
                                 \/ i = Len(pool) + 1 /\ pool'[i] = c
    BY <2>3
  <2>6. \A i \in 1..Len(pool) : pool[i] \in Codes /\ pool[i] # c /\ future[pool[i]] = "pending" /\ Fresh(pool[i])
    BY <2>1, <2>2 DEF AnalysisInv, Stage, FreshCodes
  <2>7. \A i \in 1..Len(pool') : pool'[i] \in Codes /\ future'[pool'[i]] = "pending" /\ Fresh(pool'[i])
    BY <2>1, <2>2, <2>5, <2>6
  <2>8. \A i, j \in 1..Len(pool') : pool'[i] = pool'[j] => i = j
    BY <2>5, <2>6 DEF AnalysisInv, Stage
  <2>9. \A w \in Workers : pc[w] # "idle" => future'[work[w].code] = "running"
    BY <2>1, <2>2 DEF AnalysisInv, AnalysisType, Stage
  <2>10. \A b \in Codes : b \notin received.codes => future'[b] = "none" /\ Fresh(b)
    BY <2>1, <2>2 DEF AnalysisInv, Stage, FreshCodes
  <2>11. Stage'
    <3>1. \A v, w \in Workers :
              pc[v] # "idle" /\ pc[w] # "idle" /\ work[v].code = work[w].code => v = w
      BY DEF AnalysisInv, Stage
    <3>2. \A i \in 1..Len(events') : CodeMessage(events'[i]) =>
              events'[i].code \in received.codes /\ future'[events'[i].code] = "none"
      BY <2>1, <2>2
    <3>3. \A i \in 1..Len(pool') : future'[pool'[i]] = "pending"
      BY <2>7
    <3>4. \A b \in Codes : b \notin received.codes => future'[b] = "none"
      BY <2>10
    <3> QED
      BY <1>1, <2>1, <2>8, <2>9, <3>1, <3>2, <3>3, <3>4 DEF Stage, CodeMessage
  <2>12. \A b \in Codes : Fresh(b)' <=> Fresh(b)
    BY <1>1, WorkersKept
  <2>13. FreshCodes'
    BY <1>1, <2>1, <2>7, <2>10, <2>12 DEF AnalysisInv, FreshCodes, CodeMessage
  <2> QED
    BY <1>1, <2>4, <2>11, <2>13, WorkersKept DEF AnalysisInv
<1> QED
  BY <1>2, <1>3 DEF HandleCode

LEMMA QuietInv ==
    ASSUME AnalysisInv, UNCHANGED <<events, received, session, future, pool, pc, work, locked,
                                    artifacts, disk>>
    PROVE  AnalysisInv'
BY DEF AnalysisInv, AnalysisType, Stage, FreshCodes, Fresh, Progress, Done, Written,
       ArtifactOfOwnCode, CodeMessage

LEMMA EventThreadInv ==
    ASSUME AnalysisInv, EventThread \/ RenderWindow \/ UNCHANGED vars
    PROVE  AnalysisInv'
<1>1. CASE HandleEnd
  <2>1. session' \in {"none", "active", "ended"}
    BY <1>1, EndedFacts DEF HandleEnd, AnalysisInv
  <2> QED
    BY <1>1, <2>1, DequeueInv DEF HandleEnd, Handling
<1>2. CASE HandleBatch
  <2>1. session' \in {"none", "active", "ended"}
    BY <1>2 DEF HandleBatch, Opened, AnalysisInv, AnalysisType
  <2> QED
    BY <1>2, <2>1, DequeueInv DEF HandleBatch, Handling
<1>3. CASE HandleLaunches
  BY <1>3, QuietInv DEF HandleLaunches
<1>4. CASE RenderWindow \/ UNCHANGED vars
  BY <1>4, QuietInv DEF RenderWindow, vars, memory
<1> QED
  BY <1>1, <1>2, <1>3, <1>4, HandleCodeInv DEF EventThread

-----------------------------------------------------------------------------
(* The workers. *)

LEMMA WorkType ==
    ASSUME AnalysisInv, NEW w \in Workers
    PROVE  /\ IsWork(work[w]) /\ work[w].done \in Seq(Artifact) /\ Len(work[w].done) \in Nat
           /\ work[w].failed \in Failures
           /\ DOMAIN work = Workers /\ (pc[w] # "idle" => work[w].code \in Codes)
<1>1. IsWork(work[w]) /\ <<>> \in Seq(Artifact) /\ "no" \in Failures
  BY DEF AnalysisInv, AnalysisType, Failures
<1>2. work[w].done \in Seq(Artifact) /\ work[w].failed \in Failures
  BY <1>1, WorkSet
<1> QED
  BY <1>1, <1>2 DEF AnalysisInv, AnalysisType

\* A step changes the metadata of the directories for functions of code c only.
MetaStep(c) ==
    \A x \in Dirs :
        \/ disk'[x].metadata = disk[x].metadata
        \/ disk'[x].metadata = Torn
        \/ \E i \in 1..Len(Functions[c]) : disk'[x].metadata = Kern(c, i)

LEMMA MetaOfOthers ==
    ASSUME NEW c \in Codes, NEW b \in Codes, b # c, MetaStep(c), NEW n \in Nat,
           \A x \in Dirs, i \in (n + 1)..Len(Functions[b]) : disk[x].metadata # Kern(b, i)
    PROVE  \A x \in Dirs, i \in (n + 1)..Len(Functions[b]) : disk'[x].metadata # Kern(b, i)
<1>1. \A i \in (n + 1)..Len(Functions[b]) : i \in 1..Len(Functions[b])
  BY KernelFacts
<1>2. \A i \in 1..Len(Functions[b]) : Kern(b, i) # Torn
  BY KernelFacts
<1>3. \A i \in 1..Len(Functions[b]), j \in 1..Len(Functions[c]) : Kern(b, i) # Kern(c, j)
  BY KernelFacts
<1> QED
  BY <1>1, <1>2, <1>3 DEF MetaStep

LEMMA FreshKept ==
    ASSUME NEW c \in Codes, NEW b \in Codes, b # c, MetaStep(c), Fresh(b),
           artifacts'[b] = artifacts[b]
    PROVE  Fresh(b)'
<1>1. \A x \in Dirs, i \in (0 + 1)..Len(Functions[b]) : disk[x].metadata # Kern(b, i)
  BY DEF Fresh
<1>2. \A x \in Dirs, i \in (0 + 1)..Len(Functions[b]) : disk'[x].metadata # Kern(b, i)
  BY <1>1, MetaOfOthers
<1> QED
  BY <1>2 DEF Fresh, Kern

\* What a step of worker w leaves to the others.
LEMMA OthersKept ==
    ASSUME AnalysisInv, NEW w \in Workers, NEW c \in Codes, MetaStep(c),
           \A v \in Workers : v # w => pc'[v] = pc[v] /\ work'[v] = work[v],
           \A v \in Workers : v # w /\ locked = v => locked' = v /\ disk' = disk,
           NEW v \in Workers, v # w, pc[v] # "idle", work[v].code # c
    PROVE  (pc'[v] \in Critical => locked' = v) /\ Done(v)' /\ Written(v)'
<1>1. pc'[v] = pc[v] /\ work'[v] = work[v] /\ work[v].code \in Codes
  BY DEF AnalysisInv, AnalysisType
<1>2. (pc[v] \in Critical => locked = v) /\ Done(v) /\ Written(v)
  BY DEF AnalysisInv, Progress
<1>3. Done(v)'
  BY <1>1, <1>2 DEF Done, Kern
<1>4. CASE pc[v] \in Critical
  BY <1>1, <1>2, <1>3, <1>4 DEF Written, Kern
<1>5. CASE pc[v] \notin Critical
  <2>1. pc[v] \in {"waiting", "return"}
    BY <1>5 DEF AnalysisInv, AnalysisType, Critical
  <2>2. Len(work[v].done) \in Nat
    BY WorkType
  <2>3. pc[v] = "waiting" => \A x \in Dirs, i \in (Len(work[v].done) + 1)..Len(Functions[work[v].code]) :
                                 disk[x].metadata # Kern(work[v].code, i)
    BY <1>2 DEF Written
  <2>4. pc[v] = "waiting" => \A x \in Dirs, i \in (Len(work[v].done) + 1)..Len(Functions[work[v].code]) :
                                 disk'[x].metadata # Kern(work[v].code, i)
    BY <1>1, <2>2, <2>3, MetaOfOthers
  <2>5. Written(v)'
    BY <1>1, <2>1, <2>4 DEF Written, Kern
  <2> QED
    BY <1>1, <1>3, <1>5, <2>5
<1> QED
  BY <1>4, <1>5

LEMMA WorkerStep ==
    ASSUME AnalysisInv, NEW w \in Workers, pc[w] # "idle", pc'[w] # "idle",
           UNCHANGED <<received, events, pool, future, artifacts>>,
           MetaStep(work[w].code), work'[w].code = work[w].code,
           \A v \in Workers : v # w => pc'[v] = pc[v] /\ work'[v] = work[v],
           \A v \in Workers : v # w /\ locked = v => locked' = v /\ disk' = disk,
           AnalysisType', pc'[w] \in Critical => locked' = w, Done(w)', Written(w)'
    PROVE  AnalysisInv'
<1> DEFINE c == work[w].code
<1>1. c \in Codes /\ future[c] = "running" /\ artifacts[c] = <<>>
  BY DEF AnalysisInv, AnalysisType, Stage, FreshCodes
<1>2. \A v \in Workers : pc'[v] # "idle" <=> pc[v] # "idle"
  OBVIOUS
<1>3. \A v \in Workers : work'[v].code = work[v].code
  OBVIOUS
<1>4. Stage'
  BY <1>2, <1>3 DEF AnalysisInv, Stage, CodeMessage
<1>5. \A b \in Codes : b # c /\ Fresh(b) => Fresh(b)'
  BY <1>1, FreshKept
<1>6. /\ \A i \in 1..Len(events) : CodeMessage(events[i]) =>
            events[i].code \in Codes /\ events[i].code # c /\ Fresh(events[i].code)
      /\ \A i \in 1..Len(pool) : pool[i] \in Codes /\ pool[i] # c /\ Fresh(pool[i])
      /\ \A b \in Codes : b \notin received.codes => b # c /\ Fresh(b)
  <2>1. \A i \in 1..Len(events) : CodeMessage(events[i]) =>
            events[i].code \in Codes /\ events[i].code # c /\ Fresh(events[i].code)
    <3>1. \A i \in 1..Len(events) : events[i] \in Message
      BY DEF AnalysisInv, AnalysisType
    <3> QED
      BY <1>1, <3>1, MessageFacts DEF AnalysisInv, Stage, FreshCodes, CodeMessage
  <2>2. \A i \in 1..Len(pool) : pool[i] \in Codes /\ pool[i] # c /\ Fresh(pool[i])
    BY <1>1 DEF AnalysisInv, AnalysisType, Stage, FreshCodes
  <2>3. \A b \in Codes : b \notin received.codes => b # c /\ Fresh(b)
    BY <1>1 DEF AnalysisInv, Stage, FreshCodes
  <2> QED
    BY <2>1, <2>2, <2>3
<1>7. FreshCodes'
  BY <1>2, <1>3, <1>5, <1>6 DEF AnalysisInv, FreshCodes, CodeMessage
<1>8. \A v \in Workers : v # w /\ pc[v] # "idle" => work[v].code # c
  BY DEF AnalysisInv, Stage
<1>9. Progress'
  <2>1. ASSUME NEW v \in Workers, v # w, pc[v] # "idle"
        PROVE  (pc'[v] \in Critical => locked' = v) /\ Done(v)' /\ Written(v)'
    BY <1>1, <1>8, <2>1, OthersKept
  <2> QED
    BY <1>2, <2>1 DEF Progress
<1>10. ArtifactOfOwnCode'
  BY DEF AnalysisInv, ArtifactOfOwnCode
<1> QED
  BY <1>4, <1>7, <1>9, <1>10 DEF AnalysisInv

LEMMA WorkerType ==
    ASSUME AnalysisInv, NEW w \in Workers, pc[w] # "idle",
           NEW p \in {"disassemble", "write", "open", "close", "extract", "render", "unlock", "return"},
           pc' = [pc EXCEPT ![w] = p],
           UNCHANGED <<received, events, session, pool, future, artifacts>>,
           DOMAIN work' = Workers, IsWork(work'[w]), work'[w].code = work[w].code,
           \A v \in Workers : v # w => work'[v] = work[v],
           locked' \in Workers \cup {Nil}, disk' \in [Dirs -> Dir]
    PROVE  AnalysisType'
<1>1. \A v \in Workers : pc'[v] # "idle" => work'[v].code \in Codes
  BY DEF AnalysisInv, AnalysisType
<1>2. \A v \in Workers : IsWork(work'[v])
  BY DEF AnalysisInv, AnalysisType
<1> QED
  BY <1>1, <1>2 DEF AnalysisInv, AnalysisType

\* Steps that change neither the directories nor the artifacts a worker has.
LEMMA MoveInv ==
    ASSUME AnalysisInv, NEW w \in Workers, pc[w] # "idle",
           NEW p \in {"disassemble", "write", "unlock", "return"}, pc' = [pc EXCEPT ![w] = p],
           UNCHANGED <<received, events, session, pool, future, artifacts, disk>>,
           NEW f \in Failures,
           (work' = work /\ f = work[w].failed) \/ work' = [work EXCEPT ![w].failed = f],
           locked' \in Workers \cup {Nil},
           \A v \in Workers : v # w /\ locked = v => locked' = v,
           p # "return" => locked' = w,
           p = "disassemble" => pc[w] = "waiting",
           p = "write" => pc[w] = "disassemble" /\ 0 < Len(Functions[work[w].code]),
           p = "unlock" => f # "no",
           p = "return" => f = work[w].failed /\ pc[w] \in {"waiting", "unlock"}
    PROVE  AnalysisInv'
<1>1. /\ IsWork(work[w]) /\ work[w].done \in Seq(Artifact) /\ DOMAIN work = Workers
      /\ work[w].code \in Codes /\ work[w].failed \in Failures
  BY WorkType
<1>2. /\ DOMAIN work' = Workers /\ \A v \in Workers : v # w => work'[v] = work[v]
      /\ \/ work'[w] = work[w] /\ f = work[w].failed
         \/ work'[w] = [code |-> work[w].code, done |-> work[w].done, used |-> work[w].used,
                        dir |-> work[w].dir, failed |-> f]
  BY <1>1, WorkSet
<1>3. /\ IsWork(work'[w]) /\ work'[w].code = work[w].code /\ work'[w].done = work[w].done
      /\ work'[w].dir = work[w].dir /\ work'[w].failed = f
  <2> DEFINE r == [code |-> work[w].code, done |-> work[w].done, used |-> work[w].used,
                   dir |-> work[w].dir, failed |-> f]
  <2>1. r.code = work[w].code /\ r.done = work[w].done /\ r.dir = work[w].dir /\ r.failed = f
    OBVIOUS
  <2>2. IsWork(r)
    BY <1>1, WorkSet
  <2> HIDE DEF r
  <2>3. work'[w] = r \/ (work'[w] = work[w] /\ f = work[w].failed)
    BY <1>2 DEF r
  <2> QED
    BY <1>1, <2>1, <2>2, <2>3
<1>4. disk' \in [Dirs -> Dir]
  BY DEF AnalysisInv, AnalysisType
<1>5. AnalysisType'
  BY <1>2, <1>3, <1>4, WorkerType
<1>6. /\ pc'[w] = p /\ \A v \in Workers : v # w => pc'[v] = pc[v]
      /\ Done(w) /\ Written(w)
  BY DEF AnalysisInv, AnalysisType, Progress
<1>7. Done(w)'
  BY <1>3, <1>6 DEF Done, Kern, Writing
<1>8. Written(w)'
  BY <1>3, <1>6 DEF Written, Kern
<1>9. MetaStep(work[w].code)
  BY DEF MetaStep
<1> QED
  BY <1>2, <1>3, <1>5, <1>6, <1>7, <1>8, <1>9, WorkerStep DEF Critical

LEMMA LockedBy ==
    ASSUME AnalysisInv, NEW w \in Workers, pc[w] \in Critical
    PROVE  locked = w
BY DEF AnalysisInv, Progress, Critical

LEMMA StartInv ==
    ASSUME AnalysisInv, NEW w \in Workers, StartAnalysis(w)
    PROVE  AnalysisInv'
<1>1. locked = Nil /\ \A v \in Workers : locked # v
  BY AnalysisAssumption DEF StartAnalysis, LockFree
<1>2. work[w].failed \in Failures
  BY WorkType
<1>3. /\ pc[w] = "waiting" /\ UNCHANGED <<received, events, session, pool, work, future, artifacts, disk>>
      /\ \/ locked' = w /\ pc' = [pc EXCEPT ![w] = "disassemble"]
         \/ locked' = locked /\ pc' = [pc EXCEPT ![w] = "return"]
  BY DEF StartAnalysis, Go, WorkerKeeps
<1>4. CASE locked' = w /\ pc' = [pc EXCEPT ![w] = "disassemble"]
  BY <1>1, <1>2, <1>3, <1>4, MoveInv
<1>5. CASE locked' = locked /\ pc' = [pc EXCEPT ![w] = "return"]
  BY <1>1, <1>2, <1>3, <1>5, MoveInv
<1> QED
  BY <1>3, <1>4, <1>5

LEMMA FailInv ==
    ASSUME AnalysisInv, NEW w \in Workers, pc[w] \in Critical, NEW f \in {"tool", "torn", "loop"},
           Fail(w, f), UNCHANGED <<future, locked, disk, artifacts>>, WorkerKeeps
    PROVE  AnalysisInv'
<1>1. locked = w /\ f \in Failures /\ f # "no" /\ pc[w] # "idle"
  BY LockedBy DEF Failures, Critical
<1>2. /\ work' = [work EXCEPT ![w].failed = f] /\ pc' = [pc EXCEPT ![w] = "unlock"]
      /\ UNCHANGED <<received, events, session, pool>>
  BY DEF Fail, Go, WorkerKeeps
<1> QED
  BY <1>1, <1>2, MoveInv

LEMMA DisassembleInv ==
    ASSUME AnalysisInv, NEW w \in Workers, Disassemble(w)
    PROVE  AnalysisInv'
<1>1. pc[w] = "disassemble" /\ pc[w] \in Critical
  BY DEF Disassemble, Critical
<1>2. CASE Fail(w, "tool")
  BY <1>1, <1>2, FailInv DEF Disassemble
<1>3. CASE Functions[work[w].code] # <<>> /\ Go(w, "write") /\ UNCHANGED work
  <2>1. work[w].code \in Codes /\ work[w].failed \in Failures
    BY <1>1, WorkType
  <2>2. 0 < Len(Functions[work[w].code])
    BY <1>3, <2>1, AnalysisAssumption
  <2>3. /\ locked = w /\ pc' = [pc EXCEPT ![w] = "write"]
        /\ UNCHANGED <<received, events, session, pool, future, artifacts, disk, locked>>
    BY <1>1, <1>3, LockedBy DEF Disassemble, Go, WorkerKeeps
  <2> QED
    BY <1>1, <1>3, <2>1, <2>2, <2>3, MoveInv
<1> QED
  BY <1>2, <1>3 DEF Disassemble

LEMMA UnlockInv ==
    ASSUME AnalysisInv, NEW w \in Workers, Unlock(w)
    PROVE  AnalysisInv'
<1>1. /\ pc[w] = "unlock" /\ pc[w] \in Critical /\ locked' = Nil
      /\ pc' = [pc EXCEPT ![w] = "return"]
      /\ UNCHANGED <<received, events, session, pool, work, future, artifacts, disk>>
  BY DEF Unlock, Critical, Go, Released, WorkerKeeps
<1>2. locked = w /\ work[w].failed \in Failures
  BY <1>1, LockedBy, WorkType
<1> QED
  BY <1>1, <1>2, MoveInv

\* Steps that write a file of the worker's directory.
LEMMA FileInv ==
    ASSUME AnalysisInv, NEW w \in Workers, pc[w] \in Writing,
           NEW p \in {"open", "close", "extract", "render"}, pc' = [pc EXCEPT ![w] = p],
           UNCHANGED <<received, events, session, pool, future, artifacts, locked>>,
           disk' \in [Dirs -> Dir], MetaStep(work[w].code), Written(w)',
           NEW u, NEW d,
           work' = work \/ work' = [work EXCEPT ![w].used = u, ![w].dir = d]
    PROVE  AnalysisInv'
<1>1. /\ IsWork(work[w]) /\ work[w].done \in Seq(Artifact) /\ DOMAIN work = Workers
      /\ work[w].code \in Codes /\ work[w].failed \in Failures
  BY WorkType DEF Writing
<1>2. /\ DOMAIN work' = Workers /\ \A v \in Workers : v # w => work'[v] = work[v]
      /\ \/ work'[w] = work[w]
         \/ work'[w] = [work[w] EXCEPT !.used = u, !.dir = d]
  BY <1>1
<1>3. /\ IsWork(work'[w]) /\ work'[w].code = work[w].code /\ work'[w].done = work[w].done
  <2> DEFINE r == [code |-> work[w].code, done |-> work[w].done, used |-> u,
                   dir |-> d, failed |-> work[w].failed]
  <2>1. r.code = work[w].code /\ r.done = work[w].done
    OBVIOUS
  <2>2. work[w].code \in Codes \cup {Nil}
    BY <1>1
  <2>3. IsWork(r)
    BY <1>1, <2>2, WorkSet
  <2> DEFINE o == work[w]
  <2>4. [o EXCEPT !.used = u, !.dir = d] = [code |-> o.code, done |-> o.done, used |-> u,
                                            dir |-> d, failed |-> o.failed]
    <3>1. IsWork(o)
      BY <1>1
    <3> HIDE DEF o, r
    <3> QED
      BY ONLY <3>1, PlaceSet
  <2>5. [work[w] EXCEPT !.used = u, !.dir = d] = r
    BY <2>4
  <2> HIDE DEF r, o
  <2>6. work'[w] = r \/ work'[w] = work[w]
    BY <1>2, <2>5
  <2> QED
    BY <1>1, <2>1, <2>3, <2>6
<1>4. AnalysisType'
  <2>1. locked' \in Workers \cup {Nil} /\ pc[w] # "idle"
    BY DEF AnalysisInv, AnalysisType, Writing
  <2>2. p \in {"disassemble", "write", "open", "close", "extract", "render", "unlock", "return"}
    OBVIOUS
  <2> QED
    BY <1>2, <1>3, <2>1, <2>2, WorkerType
<1>5. /\ pc'[w] = p /\ \A v \in Workers : v # w => pc'[v] = pc[v]
      /\ Done(w) /\ locked = w
  BY DEF AnalysisInv, AnalysisType, Progress, Writing, Critical
<1>6. Done(w)'
  BY <1>3, <1>5 DEF Done, Kern, Writing
<1> QED
  BY <1>2, <1>3, <1>4, <1>5, <1>6, WorkerStep DEF Writing

\* What a worker at a file step knows.
LEMMA Here ==
    ASSUME AnalysisInv, NEW w \in Workers, pc[w] \in Writing
    PROVE  LET c == work[w].code
               n == Len(work[w].done)
           IN  /\ c \in Codes /\ n \in Nat /\ n < Len(Functions[c]) /\ Len(Functions[c]) \in Nat
               /\ n + 1 \in 1..Len(Functions[c]) /\ n + 1 \in (n + 1)..Len(Functions[c])
               /\ ThisKernel(w) = Kern(c, n + 1) /\ Kern(c, n + 1) \in Kernels /\ Kern(c, n + 1) # Torn
               /\ Written(w) /\ Done(w)
               /\ disk \in [Dirs -> Dir] /\ DOMAIN work = Workers
<1>1. work[w].code \in Codes /\ Len(work[w].done) \in Nat /\ DOMAIN work = Workers
  BY WorkType DEF Writing
<1>2. Written(w) /\ Done(w) /\ disk \in [Dirs -> Dir]
  BY DEF AnalysisInv, AnalysisType, Progress, Writing
<1>3. Len(work[w].done) < Len(Functions[work[w].code])
  BY <1>2 DEF Done
<1>4. Len(Functions[work[w].code]) \in Nat
  BY <1>1, KernelFacts
<1>5. Len(work[w].done) + 1 \in 1..Len(Functions[work[w].code])
  BY <1>1, <1>3, <1>4
<1>6. Kern(work[w].code, Len(work[w].done) + 1) \in Kernels
      /\ Kern(work[w].code, Len(work[w].done) + 1) # Torn
  BY <1>1, <1>5, KernelFacts
<1>7. ThisKernel(w) = Kern(work[w].code, Len(work[w].done) + 1)
  BY DEF ThisKernel, Kern
<1> QED
  BY <1>1, <1>2, <1>3, <1>4, <1>5, <1>6, <1>7

\* Assigning one file of a directory.
LEMMA SassSet ==
    ASSUME disk \in [Dirs -> Dir], NEW d, NEW k \in Contents, disk' = [disk EXCEPT ![d].sass = k]
    PROVE  /\ disk' \in [Dirs -> Dir]
           /\ \A x \in Dirs : disk'[x].metadata = disk[x].metadata
           /\ d \in Dirs => disk'[d].sass = k
<1>1. \A x \in Dirs : disk[x] \in Dir
  OBVIOUS
<1>2. \A x \in Dirs : x # d => disk'[x] = disk[x]
  OBVIOUS
<1>3. d \in Dirs => disk'[d] = [disk[d] EXCEPT !.sass = k]
  OBVIOUS
<1>4. d \in Dirs => /\ disk'[d] \in Dir /\ disk'[d].sass = k
                    /\ disk'[d].metadata = disk[d].metadata
  BY <1>1, <1>3 DEF Dir
<1> QED
  BY <1>1, <1>2, <1>4

LEMMA MetadataSet ==
    ASSUME disk \in [Dirs -> Dir], NEW d, NEW k \in Contents, disk' = [disk EXCEPT ![d].metadata = k]
    PROVE  /\ disk' \in [Dirs -> Dir]
           /\ \A x \in Dirs : disk'[x].sass = disk[x].sass
           /\ \A x \in Dirs : x # d => disk'[x].metadata = disk[x].metadata
           /\ d \in Dirs => disk'[d].metadata = k
<1>1. \A x \in Dirs : disk[x] \in Dir
  OBVIOUS
<1>2. \A x \in Dirs : x # d => disk'[x] = disk[x]
  OBVIOUS
<1>3. d \in Dirs => disk'[d] = [disk[d] EXCEPT !.metadata = k]
  OBVIOUS
<1>4. d \in Dirs => /\ disk'[d] \in Dir /\ disk'[d].metadata = k
                    /\ disk'[d].sass = disk[d].sass
  BY <1>1, <1>3 DEF Dir
<1> QED
  BY <1>1, <1>2, <1>4

LEMMA LoopSet ==
    ASSUME disk \in [Dirs -> Dir], NEW d, NEW k \in Contents, disk' = [disk EXCEPT ![d].loop = k]
    PROVE  /\ disk' \in [Dirs -> Dir]
           /\ \A x \in Dirs : disk'[x].sass = disk[x].sass /\ disk'[x].metadata = disk[x].metadata
           /\ d \in Dirs => disk'[d].loop = k
<1>1. \A x \in Dirs : disk[x] \in Dir
  OBVIOUS
<1>2. \A x \in Dirs : x # d => disk'[x] = disk[x]
  OBVIOUS
<1>3. d \in Dirs => disk'[d] = [disk[d] EXCEPT !.loop = k]
  OBVIOUS
<1>4. d \in Dirs => /\ disk'[d] \in Dir /\ disk'[d].loop = k
                    /\ disk'[d].sass = disk[d].sass /\ disk'[d].metadata = disk[d].metadata
  BY <1>1, <1>3 DEF Dir
<1> QED
  BY <1>1, <1>2, <1>4

LEMMA WriteInv ==
    ASSUME AnalysisInv, NEW w \in Workers, WriteKernel(w)
    PROVE  AnalysisInv'
<1> DEFINE c == work[w].code
           n == Len(work[w].done)
           k == ThisKernel(w)
           d == UniqueDir(k, work[w].used)
           u == work[w].used \cup {d}
<1>1. /\ pc[w] = "write" /\ disk' = [disk EXCEPT ![d].sass = k]
      /\ work' = [work EXCEPT ![w].used = u, ![w].dir = d]
      /\ pc' = [pc EXCEPT ![w] = "open"]
      /\ UNCHANGED <<received, events, session, pool, future, artifacts, locked>>
  BY DEF WriteKernel, Go, WorkerKeeps
<1>2. /\ c \in Codes /\ n \in Nat /\ k = Kern(c, n + 1) /\ k \in Contents /\ Written(w)
      /\ disk \in [Dirs -> Dir] /\ DOMAIN work = Workers
  BY <1>1, Here DEF Writing, Contents
<1> HIDE DEF d, k, u
<1>3. /\ disk' \in [Dirs -> Dir] /\ \A x \in Dirs : disk'[x].metadata = disk[x].metadata
      /\ d \in Dirs => disk'[d].sass = k
  BY <1>1, <1>2, SassSet
<1>4. MetaStep(c)
  BY <1>3 DEF MetaStep
<1>5. work'[w].code = c /\ work'[w].done = work[w].done /\ work'[w].dir = d
  <2>1. work'[w] = [work[w] EXCEPT !.used = u, !.dir = d]
    BY <1>1, <1>2
  <2>2. work[w].done \in Seq(Artifact) /\ work[w].failed \in Failures /\ IsWork(work[w])
    BY WorkType
  <2>3. work'[w] = [code |-> c, done |-> work[w].done, used |-> u, dir |-> d,
                    failed |-> work[w].failed]
    BY <2>1, <2>2, PlaceSet
  <2> QED
    BY <2>3
<1>6. pc'[w] = "open"
  BY <1>1 DEF AnalysisInv, AnalysisType
<1>7. Written(w)'
  <2>1. \A x \in Dirs, i \in (n + 1)..Len(Functions[c]) : disk'[x].metadata # Kern(c, i)
    BY <1>1, <1>2, <1>3 DEF Written
  <2>2. d \in Dirs => disk'[d].sass = Kern(c, n + 1)
    BY <1>2, <1>3
  <2>3. work'[w].code = c /\ Len(work'[w].done) = n /\ work'[w].dir = d
    BY <1>5
  <2> HIDE DEF c, n
  <2> QED
    BY <1>6, <2>1, <2>2, <2>3 DEF Written, Kern
<1> QED
  BY <1>1, <1>3, <1>4, <1>7, FileInv DEF Writing

LEMMA OpenInv ==
    ASSUME AnalysisInv, NEW w \in Workers, OpenMetadata(w)
    PROVE  AnalysisInv'
<1> DEFINE c == work[w].code
           n == Len(work[w].done)
           d == work[w].dir
<1>1. /\ pc[w] = "open" /\ disk' = [disk EXCEPT ![d].metadata = Torn]
      /\ pc' = [pc EXCEPT ![w] = "close"]
      /\ UNCHANGED <<received, events, session, pool, future, artifacts, locked, work>>
  BY DEF OpenMetadata, Go, WorkerKeeps
<1>2. /\ c \in Codes /\ n \in Nat /\ Torn \in Contents /\ Written(w) /\ Len(Functions[c]) \in Nat
      /\ disk \in [Dirs -> Dir]
  BY <1>1, Here DEF Writing, Contents
<1>3. /\ disk' \in [Dirs -> Dir] /\ \A x \in Dirs : disk'[x].sass = disk[x].sass
      /\ \A x \in Dirs : disk'[x].metadata = disk[x].metadata \/ disk'[x].metadata = Torn
  BY <1>1, <1>2, MetadataSet
<1>4. MetaStep(c)
  BY <1>3 DEF MetaStep
<1>5. \A i \in (n + 1)..Len(Functions[c]) : Kern(c, i) # Torn
  BY <1>2, KernelFacts
<1>6. pc'[w] = "close"
  BY <1>1 DEF AnalysisInv, AnalysisType
<1>7. \A x \in Dirs, i \in (n + 1)..Len(Functions[c]) : disk'[x].metadata # Kern(c, i)
  BY <1>1, <1>2, <1>3, <1>5 DEF Written
<1>8. Written(w)'
  BY <1>1, <1>2, <1>3, <1>6, <1>7 DEF Written, Kern
<1> QED
  BY <1>1, <1>3, <1>4, <1>8, FileInv DEF Writing

LEMMA CloseInv ==
    ASSUME AnalysisInv, NEW w \in Workers, CloseMetadata(w)
    PROVE  AnalysisInv'
<1> DEFINE c == work[w].code
           n == Len(work[w].done)
           k == ThisKernel(w)
           d == work[w].dir
<1>1. /\ pc[w] = "close" /\ disk' = [disk EXCEPT ![d].metadata = k]
      /\ pc' = [pc EXCEPT ![w] = "extract"]
      /\ UNCHANGED <<received, events, session, pool, future, artifacts, locked, work>>
  BY DEF CloseMetadata, Go, WorkerKeeps
<1>2. /\ c \in Codes /\ n \in Nat /\ k = Kern(c, n + 1) /\ k \in Contents /\ Written(w)
      /\ disk \in [Dirs -> Dir] /\ n + 1 \in 1..Len(Functions[c]) /\ Len(Functions[c]) \in Nat
  BY <1>1, Here DEF Writing, Contents
<1> HIDE DEF k
<1>3. /\ disk' \in [Dirs -> Dir] /\ \A x \in Dirs : disk'[x].sass = disk[x].sass
      /\ \A x \in Dirs : x # d => disk'[x].metadata = disk[x].metadata
      /\ d \in Dirs => disk'[d].metadata = k
  BY <1>1, <1>2, MetadataSet
<1>4. MetaStep(c)
  BY <1>2, <1>3 DEF MetaStep
<1>5. \A i \in (n + 1)..Len(Functions[c]) : Kern(c, i) = Kern(c, n + 1) => i = n + 1
  BY <1>2, KernelFacts
<1>6. pc'[w] = "extract"
  BY <1>1 DEF AnalysisInv, AnalysisType
<1>7. \A x \in Dirs, i \in (n + 1)..Len(Functions[c]) :
          disk'[x].metadata = Kern(c, i) => i = n + 1 /\ x = d
  BY <1>1, <1>2, <1>3, <1>5 DEF Written
<1>8. Written(w)'
  <2>1. d \in Dirs => disk'[d].sass = Kern(c, n + 1)
    BY <1>1, <1>2, <1>3 DEF Written
  <2>2. work'[w].code = c /\ Len(work'[w].done) = n /\ work'[w].dir = d
    BY <1>1
  <2> HIDE DEF c, n, d
  <2> QED
    BY <1>6, <1>7, <2>1, <2>2 DEF Written, Kern
<1> QED
  BY <1>1, <1>3, <1>4, <1>8, FileInv DEF Writing

LEMMA ExtractInv ==
    ASSUME AnalysisInv, NEW w \in Workers, ExtractLoop(w)
    PROVE  AnalysisInv'
<1> DEFINE c == work[w].code
           n == Len(work[w].done)
           d == work[w].dir
<1>1. /\ pc[w] = "extract" /\ disk' = [disk EXCEPT ![d].loop = disk[d].sass]
      /\ pc' = [pc EXCEPT ![w] = "render"]
      /\ UNCHANGED <<received, events, session, pool, future, artifacts, locked, work>>
  BY DEF ExtractLoop, Go, WorkerKeeps
<1>2. /\ c \in Codes /\ n \in Nat /\ Written(w) /\ disk \in [Dirs -> Dir]
  BY <1>1, Here DEF Writing
<1>3. /\ disk' \in [Dirs -> Dir] /\ \A x \in Dirs : disk'[x].sass = disk[x].sass
      /\ \A x \in Dirs : disk'[x].metadata = disk[x].metadata
      /\ d \in Dirs => disk'[d].loop = disk[d].sass
  <2>1. CASE d \in Dirs
    <3>1. disk[d].sass \in Contents
      BY <1>2, <2>1 DEF Dir
    <3> QED
      BY <1>1, <1>2, <2>1, <3>1, LoopSet
  <2>2. CASE d \notin Dirs
    <3>1. disk' = disk
      BY <1>1, <1>2, <2>2
    <3> QED
      BY <1>2, <2>2, <3>1
  <2> QED
    BY <2>1, <2>2
<1>4. MetaStep(c)
  BY <1>3 DEF MetaStep
<1>6. pc'[w] = "render"
  BY <1>1 DEF AnalysisInv, AnalysisType
<1>7. Written(w)'
  BY <1>1, <1>2, <1>3, <1>6 DEF Written, Kern
<1> QED
  BY <1>1, <1>3, <1>4, <1>7, FileInv DEF Writing

\* A kernel that is rendered comes from the worker's own directory, and its text is the
\* kernel's own.
LEMMA RenderInv ==
    ASSUME AnalysisInv, NEW w \in Workers, RenderSegments(w)
    PROVE  AnalysisInv'
<1> DEFINE c == work[w].code
           n == Len(work[w].done)
           k == ThisKernel(w)
           d == CHOOSE x \in Resolved(k) : TRUE
           a == [kernel |-> k, text |-> disk[d].loop]
           p == IF n + 1 < Len(Functions[c]) THEN "write" ELSE "unlock"
<1>1. /\ pc[w] = "render" /\ pc[w] \in Critical /\ pc[w] # "idle"
      /\ UNCHANGED <<future, locked, disk, artifacts>> /\ WorkerKeeps
  BY DEF RenderSegments, Critical
<1>2. CASE Fail(w, "torn")
  BY <1>1, <1>2, FailInv
<1>3. CASE Fail(w, "loop")
  BY <1>1, <1>3, FailInv
<1>4. CASE /\ Resolved(k) # {}
           /\ work' = [work EXCEPT ![w].done = Append(@, a)] /\ Go(w, p)
  <2>1. /\ c \in Codes /\ n \in Nat /\ n < Len(Functions[c]) /\ Len(Functions[c]) \in Nat
        /\ n + 1 \in (n + 1)..Len(Functions[c])
        /\ k = Kern(c, n + 1) /\ k \in Kernels /\ Written(w) /\ Done(w) /\ disk \in [Dirs -> Dir]
        /\ DOMAIN work = Workers
    BY <1>1, Here DEF Writing
  <2>2. /\ IsWork(work[w]) /\ work[w].done \in Seq(Artifact) /\ work[w].failed \in Failures
        /\ c \in Codes \cup {Nil}
    BY <2>1, WorkType
  <2>3. d \in Resolved(k)
    BY <1>4
  <2>4. DOMAIN disk = Dirs
    BY <2>1
  <2>5. d \in Dirs /\ disk[d].metadata = k
    BY <2>3, <2>4 DEF Resolved
  <2>6. disk[d].loop = k
    <3> HIDE DEF d, k, n, c
    <3>1. d = work[w].dir
      BY <1>1, <2>1, <2>5 DEF Written, n, c
    <3> QED
      BY <1>1, <2>1, <2>5, <3>1 DEF Written, n, c
  <2>7. a = [kernel |-> k, text |-> k] /\ a \in Artifact
    BY <2>1, <2>6 DEF Artifact
  <2>8. a.kernel = k /\ a.text = k
    BY <2>6
  <2> HIDE DEF a, k, d, p
  <2>9. /\ Append(work[w].done, a) \in Seq(Artifact) /\ Len(Append(work[w].done, a)) = n + 1
        /\ \A i \in 1..n : Append(work[w].done, a)[i] = work[w].done[i]
        /\ Append(work[w].done, a)[n + 1] = a
    BY <2>2, <2>7, AppendFacts
  <2> DEFINE q == Append(work[w].done, a)
             r == [code |-> c, done |-> q, used |-> work[w].used, dir |-> work[w].dir,
                   failed |-> work[w].failed]
  <2> HIDE DEF q
  <2>10. /\ DOMAIN work' = Workers /\ \A v \in Workers : v # w => work'[v] = work[v]
         /\ work'[w] = [work[w] EXCEPT !.done = q]
    BY <1>4, <2>1 DEF q
  <2>11. work'[w] = r /\ IsWork(r)
    BY <2>2, <2>9, <2>10, WorkSet DEF q
  <2>12. r.code = c /\ r.done = q /\ r.failed = work[w].failed
    OBVIOUS
  <2> HIDE DEF r
  <2>13. IsWork(work'[w]) /\ work'[w].code = c /\ work'[w].done = q
    BY <2>11, <2>12
  <2>14. p \in {"write", "unlock"} /\ (p = "write" => n + 1 < Len(Functions[c]))
         /\ (p = "unlock" => n + 1 >= Len(Functions[c]))
    BY <2>1 DEF p
  <2>15. pc' = [pc EXCEPT ![w] = p] /\ pc'[w] = p /\ \A v \in Workers : v # w => pc'[v] = pc[v]
    BY <1>4 DEF Go, AnalysisInv, AnalysisType
  <2>16. locked = w /\ locked' \in Workers \cup {Nil} /\ disk' \in [Dirs -> Dir]
         /\ UNCHANGED <<received, events, session, pool, future, artifacts, locked, disk>>
    BY <1>1, <2>1, LockedBy DEF WorkerKeeps
  <2>17. AnalysisType'
    <3>1. p \in {"disassemble", "write", "open", "close", "extract", "render", "unlock", "return"}
      BY <2>14
    <3> QED
      BY <1>1, <2>10, <2>13, <2>15, <2>16, <3>1, WorkerType
  <2>18. Len(work'[w].done) = n + 1 /\ n + 1 \in Nat /\ n + 1 =< Len(Functions[c])
    BY <2>1, <2>9, <2>13 DEF q
  <2>19. \A i \in 1..(n + 1) : q[i].kernel = Kern(c, i) /\ q[i].text = Kern(c, i)
    <3>1. \A i \in 1..(n + 1) : i \in 1..n \/ i = n + 1
      BY <2>1
    <3> QED
      BY <2>1, <2>8, <2>9, <3>1 DEF Done, q
  <2>20. Done(w)'
    BY <2>1, <2>13, <2>14, <2>15, <2>18, <2>19 DEF Done, Kern, Writing
  <2>21. Written(w)'
    <3>1. ASSUME NEW x \in Dirs, NEW i \in (n + 1 + 1)..Len(Functions[c])
          PROVE  disk'[x].metadata # Kern(c, i)
      <4>1. i \in (n + 1)..Len(Functions[c]) /\ i # n + 1
        BY <2>1
      <4> QED
        BY <1>1, <2>1, <2>16, <4>1 DEF Written
    <3> QED
      BY <2>13, <2>14, <2>15, <2>18, <3>1 DEF Written, Kern
  <2>22. MetaStep(c)
    BY <2>16 DEF MetaStep
  <2>23. pc'[w] # "idle" /\ \A v \in Workers : v # w /\ locked = v => locked' = v /\ disk' = disk
    BY <2>14, <2>15, <2>16
  <2> QED
    BY <1>1, <2>10, <2>13, <2>15, <2>16, <2>17, <2>20, <2>21, <2>22, <2>23, WorkerStep
<1> QED
  BY <1>2, <1>3, <1>4 DEF RenderSegments

LEMMA TakenWork ==
    ASSUME NEW c \in Codes
    PROVE  LET r == [NoWork EXCEPT !.code = c]
           IN  r.code = c /\ r.done = <<>> /\ r.failed = "no" /\ IsWork(r)
<1> DEFINE C == Codes \cup {Nil}
           D == Seq(Artifact)
           r == [NoWork EXCEPT !.code = c]
<1>1. NoWork \in [code : C, done : D, used : {{}}, dir : {Nil}, failed : Failures]
  BY DEF NoWork, Failures
<1>2. NoWork.code = Nil /\ NoWork.done = <<>> /\ NoWork.used = {} /\ NoWork.dir = Nil
      /\ NoWork.failed = "no" /\ c \in C
  BY DEF NoWork
<1> HIDE DEF C, D, NoWork
<1>3. /\ r \in [code : C, done : D, used : {{}}, dir : {Nil}, failed : Failures]
      /\ r.code = c /\ r.done = <<>> /\ r.used = {} /\ r.dir = Nil /\ r.failed = "no"
  BY <1>1, <1>2
<1> HIDE DEF r
<1>4. IsWork(r)
  BY <1>3 DEF IsWork, C, D
<1> QED
  BY <1>3, <1>4 DEF r

LEMMA TakeCodeInv ==
    ASSUME AnalysisInv, NEW w \in Workers, TakeCode(w)
    PROVE  AnalysisInv'
<1> DEFINE c == Head(pool)
           r == [NoWork EXCEPT !.code = c]
<1>1. /\ pc[w] = "idle" /\ pool # <<>> /\ pool' = Tail(pool)
      /\ future' = [future EXCEPT ![c] = "running"]
      /\ work' = [work EXCEPT ![w] = r]
      /\ pc' = [pc EXCEPT ![w] = "waiting"] \/ pc' = [pc EXCEPT ![w] = "return"]
      /\ UNCHANGED <<received, events, session, locked, disk, artifacts>>
  BY DEF TakeCode, Go
<1>2. pool \in Seq(Codes)
  BY DEF AnalysisInv, AnalysisType
<1>3. /\ pool' \in Seq(Codes) /\ Len(pool') = Len(pool) - 1 /\ Len(pool) \in Nat \ {0}
      /\ \A i \in 1..Len(pool') : pool'[i] = pool[i + 1] /\ i + 1 \in 1..Len(pool)
      /\ c = pool[1] /\ 1 \in 1..Len(pool) /\ c \in Codes
  BY <1>1, <1>2, TailFacts
<1>5. r.code = c /\ r.done = <<>> /\ r.failed = "no" /\ IsWork(r)
  BY <1>3, TakenWork
<1> HIDE DEF c, r
<1>7. /\ future[c] = "pending" /\ Fresh(c)
      /\ \A i \in 1..Len(pool') :
            pool'[i] \in Codes /\ pool'[i] # c /\ future[pool'[i]] = "pending" /\ Fresh(pool'[i])
      /\ \A i, j \in 1..Len(pool') : pool'[i] = pool'[j] => i = j
  <2>1. /\ \A i \in 1..Len(pool) : future[pool[i]] = "pending" /\ Fresh(pool[i]) /\ pool[i] \in Codes
        /\ \A i, j \in 1..Len(pool) : pool[i] = pool[j] => i = j
    BY <1>2 DEF AnalysisInv, Stage, FreshCodes
  <2>2. \A i \in 1..Len(pool') : i \in Nat /\ i + 1 # 1
    OBVIOUS
  <2>3. ASSUME NEW i \in 1..Len(pool')
        PROVE  pool'[i] \in Codes /\ pool'[i] # c /\ future[pool'[i]] = "pending" /\ Fresh(pool'[i])
    <3>1. PICK j \in 1..Len(pool) : j # 1 /\ pool'[i] = pool[j]
      BY <1>3, <2>2
    <3>2. pool[j] # pool[1]
      BY <1>3, <2>1, <3>1
    <3> QED
      BY <1>3, <2>1, <3>1, <3>2
  <2>4. ASSUME NEW i \in 1..Len(pool'), NEW j \in 1..Len(pool'), pool'[i] = pool'[j]
        PROVE  i = j
    <3>1. i + 1 = j + 1
      BY <1>3, <2>1, <2>4
    <3> QED
      BY <2>2, <3>1
  <2> QED
    BY <1>3, <2>1, <2>3, <2>4
<1>8. /\ future' \in [Codes -> {"none", "pending", "running", "cancelled", "done"}]
      /\ future'[c] = "running" /\ \A b \in Codes : b # c => future'[b] = future[b]
  BY <1>1, <1>3 DEF AnalysisInv, AnalysisType
<1>9. /\ DOMAIN work' = Workers /\ work'[w] = r
      /\ \A v \in Workers : v # w => work'[v] = work[v] /\ pc'[v] = pc[v]
      /\ pc'[w] \in {"waiting", "return"}
      /\ pc' \in [Workers -> {"idle", "waiting", "disassemble", "write", "open", "close", "extract",
                               "render", "unlock", "return"}]
  BY <1>1 DEF AnalysisInv, AnalysisType
<1>10. AnalysisType'
  <2>1. \A v \in Workers : IsWork(work'[v])
    BY <1>5, <1>9 DEF AnalysisInv, AnalysisType
  <2>2. \A v \in Workers : pc'[v] # "idle" => work'[v].code \in Codes
    BY <1>3, <1>5, <1>9 DEF AnalysisInv, AnalysisType
  <2> QED
    BY <1>1, <1>3, <1>8, <1>9, <2>1, <2>2 DEF AnalysisInv, AnalysisType
<1>11. /\ \A i \in 1..Len(events) : CodeMessage(events[i]) =>
             /\ events[i].code \in Codes /\ events[i].code # c
             /\ future'[events[i].code] = "none" /\ Fresh(events[i].code)
       /\ \A b \in Codes : b \notin received.codes => b # c /\ future'[b] = "none" /\ Fresh(b)
  <2>1. \A i \in 1..Len(events) : events[i] \in Message
    BY DEF AnalysisInv, AnalysisType
  <2> QED
    BY <1>7, <1>8, <2>1, MessageFacts DEF AnalysisInv, Stage, FreshCodes, CodeMessage
<1>12. \A v \in Workers : v # w /\ pc'[v] # "idle" =>
          /\ work'[v].code \in Codes /\ work'[v].code # c /\ future'[work'[v].code] = "running"
          /\ work'[v] = work[v] /\ pc'[v] = pc[v]
  BY <1>7, <1>8, <1>9 DEF AnalysisInv, AnalysisType, Stage
<1>13. Stage'
  <2>1. \A u, v \in Workers :
           pc'[u] # "idle" /\ pc'[v] # "idle" /\ work'[u].code = work'[v].code => u = v
    BY <1>5, <1>9, <1>12 DEF AnalysisInv, Stage
  <2>2. \A v \in Workers : pc'[v] # "idle" => future'[work'[v].code] = "running"
    BY <1>5, <1>8, <1>9, <1>12
  <2>3. \A i \in 1..Len(pool') : future'[pool'[i]] = "pending"
    BY <1>7, <1>8
  <2> QED
    BY <1>1, <1>7, <1>11, <2>1, <2>2, <2>3 DEF AnalysisInv, Stage, CodeMessage
<1>14. \A b \in Codes : Fresh(b)' <=> Fresh(b)
  BY <1>1 DEF Fresh, Kern
<1>15. FreshCodes'
  <2>1. \A v \in Workers : pc'[v] # "idle" => artifacts'[work'[v].code] = <<>>
    BY <1>1, <1>5, <1>7, <1>9, <1>12 DEF AnalysisInv, FreshCodes, Fresh
  <2> QED
    BY <1>1, <1>7, <1>11, <1>14, <2>1 DEF FreshCodes, CodeMessage
<1>16. Progress'
  <2>1. Done(w)'
    <3>1. Len(work'[w].done) = 0 /\ Len(Functions[c]) \in Nat
      BY <1>3, <1>5, <1>9, KernelFacts
    <3> QED
      BY <1>5, <1>9, <3>1 DEF Done, Writing
  <2>2. Written(w)'
    <3>1. Len(work'[w].done) = 0 /\ 0 + 1 = 1
      BY <1>5, <1>9
    <3>2. \A x \in Dirs, i \in 1..Len(Functions[c]) : disk'[x].metadata # Kern(c, i)
      BY <1>1, <1>7 DEF Fresh
    <3> QED
      BY <1>5, <1>9, <3>1, <3>2 DEF Written, Kern
  <2>3. ASSUME NEW v \in Workers, v # w, pc'[v] # "idle"
        PROVE  (pc'[v] \in Critical => locked' = v) /\ Done(v)' /\ Written(v)'
    <3>1. work'[v] = work[v] /\ pc'[v] = pc[v] /\ locked' = locked /\ disk' = disk
      BY <1>1, <1>12, <2>3
    <3>2. (pc[v] \in Critical => locked = v) /\ Done(v) /\ Written(v)
      BY <2>3, <3>1 DEF AnalysisInv, Progress
    <3> QED
      BY <3>1, <3>2 DEF Done, Written, Kern
  <2> QED
    BY <1>9, <2>1, <2>2, <2>3 DEF Progress, Critical
<1>17. ArtifactOfOwnCode'
  BY <1>1 DEF AnalysisInv, ArtifactOfOwnCode
<1> QED
  BY <1>10, <1>13, <1>15, <1>16, <1>17 DEF AnalysisInv

LEMMA FinishInv ==
    ASSUME AnalysisInv, NEW w \in Workers, FinishCodeAnalysis(w)
    PROVE  AnalysisInv'
<1> DEFINE c == work[w].code
           q == work[w].done
<1>1. /\ pc[w] = "return" /\ future' = [future EXCEPT ![c] = "done"]
      /\ \/ work[w].failed = "no" /\ artifacts' = [artifacts EXCEPT ![c] = @ \o q]
         \/ artifacts' = artifacts
      /\ work' = [work EXCEPT ![w] = NoWork] /\ pc' = [pc EXCEPT ![w] = "idle"]
      /\ UNCHANGED <<received, events, session, pool, locked, disk>>
  BY DEF FinishCodeAnalysis, Accepted, Go, WorkerKeeps
<1>2. /\ c \in Codes /\ q \in Seq(Artifact) /\ Len(q) \in Nat /\ future[c] = "running"
      /\ artifacts[c] = <<>> /\ artifacts \in [Codes -> Seq(Artifact)] /\ Done(w)
      /\ \A v \in Workers : v # w /\ pc[v] # "idle" => work[v].code # c /\ work[v].code \in Codes
  BY <1>1, WorkType DEF AnalysisInv, AnalysisType, Stage, FreshCodes, Progress
<1>3. /\ \A i \in 1..Len(q) : q[i].kernel = Kern(c, i) /\ q[i].text = Kern(c, i)
      /\ work[w].failed = "no" => Len(q) = 0 \/ Len(q) = Len(Functions[c])
  BY <1>1, <1>2 DEF Done
<1> HIDE DEF c, q
<1>4. artifacts' = artifacts \/ (work[w].failed = "no" /\ artifacts' = [artifacts EXCEPT ![c] = q])
  <2>1. <<>> \o q = q
    BY <1>2
  <2> QED
    BY <1>1, <1>2, <2>1
<1>5. /\ artifacts' \in [Codes -> Seq(Artifact)]
      /\ \A b \in Codes : b # c => artifacts'[b] = artifacts[b]
      /\ artifacts'[c] = <<>> \/ (artifacts'[c] = q /\ work[w].failed = "no")
  BY <1>2, <1>4
<1>6. /\ future' \in [Codes -> {"none", "pending", "running", "cancelled", "done"}]
      /\ \A b \in Codes : b # c => future'[b] = future[b]
  BY <1>1, <1>2 DEF AnalysisInv, AnalysisType
<1>7. /\ DOMAIN work' = Workers /\ work'[w] = NoWork /\ pc'[w] = "idle"
      /\ \A v \in Workers : v # w => work'[v] = work[v] /\ pc'[v] = pc[v]
      /\ pc' \in [Workers -> {"idle", "waiting", "disassemble", "write", "open", "close", "extract",
                               "render", "unlock", "return"}]
  BY <1>1 DEF AnalysisInv, AnalysisType
<1>8. AnalysisType'
  <2>1. \A v \in Workers : IsWork(work'[v])
    BY <1>7, NoWorkFacts DEF AnalysisInv, AnalysisType
  <2>2. \A v \in Workers : pc'[v] # "idle" => work'[v].code \in Codes
    BY <1>7 DEF AnalysisInv, AnalysisType
  <2> QED
    BY <1>1, <1>5, <1>6, <1>7, <2>1, <2>2 DEF AnalysisInv, AnalysisType
<1>9. /\ \A i \in 1..Len(events) : CodeMessage(events[i]) =>
            /\ events[i].code \in Codes /\ events[i].code # c /\ Fresh(events[i].code)
      /\ \A i \in 1..Len(pool) : pool[i] \in Codes /\ pool[i] # c /\ Fresh(pool[i])
      /\ \A b \in Codes : b \notin received.codes => b # c /\ Fresh(b)
  <2>1. /\ \A i \in 1..Len(events) : events[i] \in Message
        /\ \A i \in 1..Len(pool) : pool[i] \in Codes
    BY DEF AnalysisInv, AnalysisType
  <2>2. \A i \in 1..Len(pool) : future[pool[i]] = "pending" /\ Fresh(pool[i])
    BY DEF AnalysisInv, Stage, FreshCodes
  <2>3. \A i \in 1..Len(events) : CodeMessage(events[i]) =>
            /\ events[i].code \in Codes /\ future[events[i].code] = "none" /\ Fresh(events[i].code)
    BY <2>1, MessageFacts DEF AnalysisInv, Stage, FreshCodes, CodeMessage
  <2>4. \A b \in Codes : b \notin received.codes => future[b] = "none" /\ Fresh(b)
    BY DEF AnalysisInv, Stage, FreshCodes
  <2> QED
    BY <1>2, <2>1, <2>2, <2>3, <2>4
<1>10. Stage'
  <2>1. /\ \A i \in 1..Len(events) : CodeMessage(events[i]) => future'[events[i].code] = "none"
        /\ \A i \in 1..Len(pool) : future'[pool[i]] = "pending"
        /\ \A b \in Codes : b \notin received.codes => future'[b] = "none"
    BY <1>6, <1>9 DEF AnalysisInv, Stage
  <2>2. \A v \in Workers : pc'[v] # "idle" =>
            v # w /\ work'[v] = work[v] /\ pc'[v] = pc[v] /\ future'[work[v].code] = "running"
    BY <1>2, <1>6, <1>7 DEF AnalysisInv, Stage
  <2>3. \A u, v \in Workers :
            pc'[u] # "idle" /\ pc'[v] # "idle" /\ work'[u].code = work'[v].code => u = v
    BY <2>2 DEF AnalysisInv, Stage
  <2> QED
    BY <1>1, <2>1, <2>2, <2>3 DEF AnalysisInv, Stage, CodeMessage
<1>11. \A b \in Codes : b # c /\ Fresh(b) => Fresh(b)'
  BY <1>1, <1>5 DEF Fresh, Kern
<1>12. FreshCodes'
  BY <1>1, <1>2, <1>5, <1>7, <1>9, <1>11 DEF AnalysisInv, FreshCodes, CodeMessage
<1>13. Progress'
  <2>1. ASSUME NEW v \in Workers, pc'[v] # "idle"
        PROVE  (pc'[v] \in Critical => locked' = v) /\ Done(v)' /\ Written(v)'
    <3>1. work'[v] = work[v] /\ pc'[v] = pc[v] /\ locked' = locked /\ disk' = disk
      BY <1>1, <1>7, <2>1
    <3>2. (pc[v] \in Critical => locked = v) /\ Done(v) /\ Written(v)
      BY <2>1, <3>1 DEF AnalysisInv, Progress
    <3> QED
      BY <3>1, <3>2 DEF Done, Written, Kern
  <2> QED
    BY <2>1 DEF Progress
<1>14. ArtifactOfOwnCode'
  <2>1. ASSUME NEW b \in Codes
        PROVE  /\ artifacts'[b] # <<>> =>
                     [i \in DOMAIN artifacts'[b] |-> artifacts'[b][i].kernel]
                       = [i \in DOMAIN Functions[b] |-> <<b, Functions[b][i]>>]
               /\ \A a \in ToSet(artifacts'[b]) : a.text = a.kernel
    <3>1. CASE b # c
      BY <1>5, <3>1 DEF AnalysisInv, ArtifactOfOwnCode
    <3>2. CASE b = c /\ artifacts'[c] = <<>>
      BY <3>2 DEF ToSet
    <3>3. CASE b = c /\ artifacts'[c] = q /\ work[w].failed = "no" /\ q # <<>>
      <4>1. Len(q) = Len(Functions[c])
        BY <1>2, <1>3, <3>3
      <4>2. DOMAIN q = 1..Len(q) /\ DOMAIN Functions[c] = 1..Len(Functions[c])
        BY <1>2, AnalysisAssumption
      <4>3. \A i \in DOMAIN q : q[i].kernel = <<c, Functions[c][i]>> /\ q[i].text = q[i].kernel
        BY <1>3, <4>2 DEF Kern
      <4>4. [i \in DOMAIN q |-> q[i].kernel] = [i \in DOMAIN Functions[c] |-> <<c, Functions[c][i]>>]
        BY <4>1, <4>2, <4>3
      <4>5. \A a \in ToSet(q) : a.text = a.kernel
        BY <4>3 DEF ToSet
      <4> QED
        BY <3>3, <4>4, <4>5
    <3> QED
      BY <1>5, <3>1, <3>2, <3>3
  <2> QED
    BY <2>1 DEF ArtifactOfOwnCode
<1> QED
  BY <1>8, <1>10, <1>12, <1>13, <1>14 DEF AnalysisInv

-----------------------------------------------------------------------------
LEMMA NextInv == AnalysisInv /\ [Next]_vars => AnalysisInv'
<1> SUFFICES ASSUME AnalysisInv, [Next]_vars PROVE AnalysisInv'
  OBVIOUS
<1>1. ASSUME NEW m \in Message, Receive(m) PROVE AnalysisInv'
  BY <1>1, ReceiveInv
<1>2. ASSUME EventThread \/ RenderWindow \/ UNCHANGED vars PROVE AnalysisInv'
  BY <1>2, EventThreadInv
<1>3. ASSUME Crash PROVE AnalysisInv'
  BY <1>3, CrashInv
<1>4. ASSUME NEW w \in Workers, Worker(w) PROVE AnalysisInv'
  BY <1>4, TakeCodeInv, StartInv, DisassembleInv, WriteInv, OpenInv, CloseInv, ExtractInv, RenderInv,
     UnlockInv, FinishInv DEF Worker
<1> QED
  BY <1>1, <1>2, <1>3, <1>4 DEF Next

\* Code kept for a session is complete, in order, and rendered from its own text,
\* whatever the names of its functions collide with and wherever the processor was
\* killed before (_analyze_code_object_files under analysis_lock, _finish_code_analysis).
THEOREM ArtifactOfOwnCodeHolds == Spec => []ArtifactOfOwnCode
<1>1. AnalysisInv => ArtifactOfOwnCode
  BY DEF AnalysisInv
<1> QED
  BY <1>1, InitInv, NextInv, PTL DEF Spec

\* No step changes what an ended session holds (the checks of active in _handle_launches
\* and _finish_code_analysis).
THEOREM EndedSessionUntouchedHolds == Spec => EndedSessionUntouched
<1>1. ASSUME [Next]_vars, session = "ended", session' = "ended"
      PROVE  UNCHANGED <<artifacts, scheduled, dropped>>
  <2>1. ASSUME NEW m \in Message, Receive(m) PROVE UNCHANGED <<artifacts, scheduled, dropped>>
    BY <2>1 DEF Receive
  <2>2. ASSUME EventThread PROVE UNCHANGED <<artifacts, scheduled, dropped>>
    BY <1>1, <2>2 DEF EventThread, HandleEnd, HandleCode, HandleBatch, HandleLaunches
  <2>3. ASSUME RenderWindow PROVE UNCHANGED <<artifacts, scheduled, dropped>>
    BY <2>3 DEF RenderWindow, memory
  <2>4. ~Crash
    BY <1>1 DEF Crash
  <2>5. ASSUME NEW w \in Workers, Worker(w) PROVE UNCHANGED <<artifacts, scheduled, dropped>>
    BY <1>1, <2>5 DEF Worker, TakeCode, StartAnalysis, Disassemble, WriteKernel, OpenMetadata,
       CloseMetadata, ExtractLoop, RenderSegments, Unlock, FinishCodeAnalysis, Accepted, WorkerKeeps
  <2>6. ASSUME UNCHANGED vars PROVE UNCHANGED <<artifacts, scheduled, dropped>>
    BY <2>6 DEF vars, memory
  <2> QED
    BY <1>1, <2>1, <2>2, <2>3, <2>4, <2>5, <2>6 DEF Next
<1>2. [Next]_vars => [session = "ended" /\ session' = "ended" =>
                         UNCHANGED <<artifacts, scheduled, dropped>>]_vars
  BY <1>1
<1> QED
  BY <1>2, PTL DEF Spec, EndedSessionUntouched

-----------------------------------------------------------------------------
(* Files that are open for writing. *)

\* Without a restart a torn file is the one that the holder of the lock has open.
TornInv ==
    /\ crashes \in Nat /\ skipped \in BOOLEAN
    /\ crashes = 0 =>
         /\ \A d \in Dirs : disk[d].metadata = Torn => \E w \in Workers : pc[w] = "close" /\ work[w].dir = d
         /\ \A w \in Workers : work[w].failed # "torn"

LEMMA UnreadableLocked ==
    ASSUME AnalysisInv, TornInv, crashes = 0, Unreadable
    PROVE  \E v \in Workers : pc[v] = "close" /\ locked = v
<1>1. PICK d \in Dirs : disk[d].metadata = Torn
  BY DEF Unreadable, AnalysisInv, AnalysisType
<1>2. PICK v \in Workers : pc[v] = "close"
  BY <1>1 DEF TornInv
<1> QED
  BY <1>2, LockedBy DEF Critical

LEMMA TornStep ==
    ASSUME AnalysisInv, TornInv, [Next]_vars
    PROVE  TornInv'
<1>1. CASE Crash
  BY <1>1 DEF Crash, TornInv
<1>2. ASSUME UNCHANGED <<pc, work, disk, crashes>>, skipped' \in BOOLEAN
      PROVE  TornInv'
  BY <1>2 DEF TornInv
<1>3. CASE (\E m \in Message : Receive(m)) \/ EventThread \/ RenderWindow \/ UNCHANGED vars
  <2>1. UNCHANGED <<pc, work, disk, crashes>>
    BY <1>3 DEF Receive, EventThread, HandleEnd, HandleCode, HandleBatch, HandleLaunches,
       RenderWindow, vars, memory
  <2>2. skipped' = skipped \/ skipped' = (skipped \/ Unreadable)
    BY <1>3 DEF Receive, EventThread, HandleEnd, HandleCode, HandleBatch, HandleLaunches,
       RenderWindow, vars, memory
  <2>3. skipped' \in BOOLEAN
    BY <2>2, Zenon DEF TornInv
  <2> QED
    BY <1>2, <2>1, <2>3
<1>4. ASSUME NEW w \in Workers, Worker(w) PROVE TornInv'
  <2>1. UNCHANGED <<crashes, skipped>>
    BY <1>4 DEF Worker, TakeCode, StartAnalysis, Disassemble, WriteKernel, OpenMetadata,
       CloseMetadata, ExtractLoop, RenderSegments, Unlock, FinishCodeAnalysis, WorkerKeeps
  <2>2. /\ DOMAIN pc = Workers /\ DOMAIN work = Workers /\ DOMAIN disk = Dirs
        /\ \A d \in Dirs : disk[d] \in Dir
        /\ work[w] \in [code : Codes \cup {Nil}, done : Seq(Artifact), used : {work[w].used},
                        dir : {work[w].dir}, failed : Failures]
    BY DEF AnalysisInv, AnalysisType, IsWork
  <2>3. SUFFICES ASSUME crashes = 0
                 PROVE  /\ \A d \in Dirs : disk'[d].metadata = Torn =>
                              \E v \in Workers : pc'[v] = "close" /\ work'[v].dir = d
                        /\ \A v \in Workers : work'[v].failed # "torn"
    BY <2>1 DEF TornInv
  <2>4. /\ \A d \in Dirs : disk[d].metadata = Torn => \E v \in Workers : pc[v] = "close" /\ work[v].dir = d
        /\ \A v \in Workers : work[v].failed # "torn"
    BY <2>3 DEF TornInv
  <2>5. /\ \A v \in Workers : v # w => pc'[v] = pc[v] /\ work'[v] = work[v]
    BY <1>4, <2>2 DEF Worker, TakeCode, StartAnalysis, Disassemble, WriteKernel, OpenMetadata,
       CloseMetadata, ExtractLoop, RenderSegments, Unlock, FinishCodeAnalysis, Go, Fail
  <2>6. ASSUME pc[w] # "close", work'[w].failed # "torn",
               \A d \in Dirs : disk'[d].metadata = disk[d].metadata
        PROVE  /\ \A d \in Dirs : disk'[d].metadata = Torn =>
                     \E v \in Workers : pc'[v] = "close" /\ work'[v].dir = d
               /\ \A v \in Workers : work'[v].failed # "torn"
    BY <2>4, <2>5, <2>6
  <2>7. CASE TakeCode(w)
    <3>1. pc[w] # "close" /\ disk' = disk /\ work'[w].failed = "no"
      BY <2>2, <2>7 DEF TakeCode, NoWork
    <3> QED
      BY <2>6, <3>1
  <2>8. CASE StartAnalysis(w) \/ Unlock(w)
    <3>1. pc[w] # "close" /\ disk' = disk /\ work' = work
      BY <2>8 DEF StartAnalysis, Unlock
    <3> QED
      BY <2>4, <2>6, <3>1
  <2>9. CASE Disassemble(w)
    <3>1. pc[w] # "close" /\ disk' = disk /\ (work' = work \/ work' = [work EXCEPT ![w].failed = "tool"])
      BY <2>9 DEF Disassemble, Fail
    <3>2. work'[w].failed # "torn"
      BY <2>2, <2>4, <3>1
    <3> QED
      BY <2>6, <3>1, <3>2
  <2>10. CASE WriteKernel(w)
    <3> DEFINE e == UniqueDir(ThisKernel(w), work[w].used)
    <3>1. /\ pc[w] = "write" /\ disk' = [disk EXCEPT ![e].sass = ThisKernel(w)]
          /\ work' = [work EXCEPT ![w].used = @ \cup {e}, ![w].dir = e]
      BY <2>10 DEF WriteKernel
    <3> HIDE DEF e
    <3>2. work'[w].failed = work[w].failed
      BY <2>2, <3>1
    <3>3. \A d \in Dirs : disk'[d].metadata = disk[d].metadata
      BY <2>2, <3>1 DEF Dir
    <3> QED
      BY <2>4, <2>6, <3>1, <3>2, <3>3
  <2>11. CASE OpenMetadata(w)
    <3> DEFINE e == work[w].dir
    <3>1. /\ pc[w] = "open" /\ pc'[w] = "close" /\ work' = work
          /\ disk' = [disk EXCEPT ![e].metadata = Torn]
      BY <2>2, <2>11 DEF OpenMetadata, Go
    <3>2. \A d \in Dirs : d # e => disk'[d] = disk[d]
      BY <2>2, <3>1
    <3> QED
      BY <2>4, <2>5, <3>1, <3>2
  <2>12. CASE CloseMetadata(w)
    <3> DEFINE e == work[w].dir
    <3>1. /\ pc[w] = "close" /\ work' = work
          /\ disk' = [disk EXCEPT ![e].metadata = ThisKernel(w)]
      BY <2>12 DEF CloseMetadata
    <3>2. \A d \in Dirs : d # e => disk'[d] = disk[d]
      BY <2>2, <3>1
    <3>3. ThisKernel(w) # Torn
      <4>1. /\ work[w].code \in Codes /\ Len(work[w].done) \in Nat
            /\ Len(work[w].done) < Len(Functions[work[w].code])
        BY <3>1, WorkType DEF AnalysisInv, Progress, Done, Writing
      <4>2. Len(work[w].done) + 1 \in 1..Len(Functions[work[w].code])
        BY <4>1, KernelFacts
      <4> QED
        BY <4>1, <4>2, KernelFacts DEF ThisKernel, Kern
    <3>4. \A d \in Dirs : d = e => disk'[d].metadata = ThisKernel(w)
      BY <2>2, <3>1 DEF Dir
    <3> QED
      BY <2>4, <2>5, <3>1, <3>2, <3>3, <3>4
  <2>13. CASE ExtractLoop(w)
    <3>1. /\ pc[w] = "extract" /\ work' = work
          /\ disk' = [disk EXCEPT ![work[w].dir].loop = disk[work[w].dir].sass]
      BY <2>13 DEF ExtractLoop
    <3>2. \A d \in Dirs : disk'[d].metadata = disk[d].metadata
      BY <2>2, <3>1 DEF Dir
    <3> QED
      BY <2>4, <2>6, <3>1, <3>2
  <2>14. CASE RenderSegments(w)
    <3>1. pc[w] = "render" /\ disk' = disk /\ locked = w
      BY <2>14, LockedBy DEF RenderSegments, Critical
    <3>2. ~Unreadable
      BY <2>3, <3>1, UnreadableLocked
    <3>3. \/ work' = [work EXCEPT ![w].failed = "loop"]
          \/ \E a : work' = [work EXCEPT ![w].done = Append(@, a)]
      BY <2>14, <3>2, Zenon DEF RenderSegments, Fail
    <3>4. work'[w].failed # "torn"
      BY <2>2, <2>4, <3>3
    <3> QED
      BY <2>6, <3>1, <3>4
  <2>15. CASE FinishCodeAnalysis(w)
    <3>1. pc[w] = "return" /\ disk' = disk /\ work'[w].failed = "no"
      BY <2>2, <2>15 DEF FinishCodeAnalysis, NoWork
    <3> QED
      BY <2>6, <3>1
  <2> QED
    BY <1>4, <2>7, <2>8, <2>9, <2>10, <2>11, <2>12, <2>13, <2>14, <2>15 DEF Worker
<1> QED
  BY <1>1, <1>3, <1>4 DEF Next

\* For any number of workers, codes and sessions: a file that is read while it is written fails no
\* analysis, and gives a window up only while an analysis runs, unless the processor was killed
\* (load_kernel_metadata against write_json).
THEOREM FailureExplainedHolds == Spec => FailureExplained
<1>1. Init => TornInv
  <2> SUFFICES ASSUME Init PROVE TornInv
    OBVIOUS
  <2>1. \A d \in Dirs : disk[d].metadata # Torn
    BY AnalysisAssumption DEF Init, NoDir
  <2>2. \A w \in Workers : work[w].failed # "torn"
    BY DEF Init, NoWork
  <2> QED
    BY <2>1, <2>2 DEF Init, TornInv
<1>2. ASSUME AnalysisInv, TornInv, TornInv', [Next]_vars, NEW w \in Workers, work'[w].failed = "torn"
      PROVE  crashes > 0
  <2>1. ~Crash
    BY <1>2 DEF Crash, NoWork
  <2>2. crashes' = crashes
    BY <1>2, <2>1 DEF Next, Receive, EventThread, HandleEnd, HandleCode, HandleBatch, HandleLaunches,
       RenderWindow, Worker, TakeCode, StartAnalysis, Disassemble, WriteKernel, OpenMetadata,
       CloseMetadata, ExtractLoop, RenderSegments, Unlock, FinishCodeAnalysis, WorkerKeeps,
       vars, memory
  <2> QED
    BY <1>2, <2>2 DEF TornInv
<1>3. ASSUME AnalysisInv, TornInv, [Next]_vars, skipped' # skipped
      PROVE  crashes > 0 \/ locked # Nil
  <2>1. RenderWindow
    BY <1>3 DEF Next, Receive, EventThread, HandleEnd, HandleCode, HandleBatch, HandleLaunches,
       Crash, Worker, TakeCode, StartAnalysis, Disassemble, WriteKernel, OpenMetadata,
       CloseMetadata, ExtractLoop, RenderSegments, Unlock, FinishCodeAnalysis, WorkerKeeps,
       vars, memory
  <2>2. skipped' = (skipped \/ Unreadable) /\ skipped \in BOOLEAN
    BY <1>3, <2>1 DEF RenderWindow, TornInv
  <2>3. Unreadable
    BY <1>3, <2>2, Zenon
  <2>4. Nil \notin Workers
    BY AnalysisAssumption
  <2> QED
    BY <1>3, <2>3, <2>4, UnreadableLocked DEF TornInv
<1>4. AnalysisInv /\ TornInv /\ [Next]_vars => TornInv'
  BY TornStep
<1>5. AnalysisInv /\ TornInv /\ TornInv' /\ [Next]_vars =>
        [/\ \A w \in Workers : work'[w].failed = "torn" => crashes > 0
         /\ skipped' # skipped => crashes > 0 \/ locked # Nil]_vars
  BY <1>2, <1>3
<1> QED
  BY <1>1, <1>4, <1>5, InitInv, NextInv, PTL DEF Spec, FailureExplained

-----------------------------------------------------------------------------
(* The artifact of a launch. *)

LEMMA LeastNat ==
    ASSUME NEW T \in SUBSET Nat, T # {}
    PROVE  \E x \in T : \A y \in T : x =< y
<1>1. IsWellFoundedOn({p \in Nat \X Nat : p[1] < p[2]}, Nat)
  BY NatLessThanWellFounded DEF OpToRel
<1>2. PICK x \in T : \A y \in T : <<y, x>> \notin {p \in Nat \X Nat : p[1] < p[2]}
  BY <1>1, WFMin
<1>3. \A y \in T : ~(y < x)
  BY <1>2
<1> QED
  BY <1>3

LEMMA LeastNumber ==
    ASSUME NEW S \in SUBSET Nat, S # {}
    PROVE  Min(S) \in S
<1>1. PICK x \in S : \A y \in S : x =< y
  BY LeastNat
<1> QED
  BY <1>1 DEF Min

LEMMA FallbackIsName ==
    ASSUME NEW names, NEW n \in Nat \ {0}, DOMAIN names = 1..n, NEW name
    PROVE  \E i \in 1..n : Fallback(name, names) = names[i]
<1> DEFINE canonical == {i \in DOMAIN names : Canonical[names[i]] = Canonical[name]}
           contained == {i \in DOMAIN names : {names[i], name} \in Overlap}
<1>1. /\ canonical \in SUBSET Nat /\ canonical \subseteq 1..n
      /\ contained \in SUBSET Nat /\ contained \subseteq 1..n /\ 1 \in 1..n
  OBVIOUS
<1>2. Fallback(name, names) =
        names[IF canonical # {} THEN Min(canonical) ELSE IF contained # {} THEN Min(contained) ELSE 1]
  BY DEF Fallback
<1> HIDE DEF canonical, contained
<1>3. /\ canonical # {} => Min(canonical) \in 1..n
      /\ contained # {} => Min(contained) \in 1..n
  BY <1>1, LeastNumber
<1> QED
  BY <1>1, <1>2, <1>3

\* The artifact for a launch is one of the code that it names, and the one with its very name if
\* there is one.
LEMMA ArtifactChosen ==
    ASSUME AnalysisInv, NEW l \in Launches, ArtifactForLaunch(l) # Nil
    PROVE  /\ l.code \in Codes /\ artifacts[l.code] # <<>>
           /\ ArtifactForLaunch(l).kernel[1] = l.code
           /\ l.name \in ToSet(Functions[l.code]) => ArtifactForLaunch(l).kernel[2] = l.name
<1> DEFINE c == l.code
           A == artifacts[c]
           names == [i \in DOMAIN A |-> A[i].kernel[2]]
           name == IF \E a \in ToSet(A) : a.kernel[2] = l.name THEN l.name ELSE Fallback(l.name, names)
<1>1. /\ c # Nil /\ names # <<>>
      /\ ArtifactForLaunch(l) = CHOOSE a \in ToSet(A) : a.kernel[2] = name
  BY DEF ArtifactForLaunch, Candidates
<1>2. c \in Codes
  BY <1>1, AnalysisAssumption
<1>3. A \in Seq(Artifact) /\ A # <<>>
  <2>1. A = <<>> => names = <<>>
    OBVIOUS
  <2> QED
    BY <1>1, <1>2, <2>1 DEF AnalysisInv, AnalysisType
<1>4. PICK n \in Nat \ {0} : DOMAIN A = 1..n /\ DOMAIN Functions[c] = 1..n
  <2>1. [i \in DOMAIN A |-> A[i].kernel] = [i \in DOMAIN Functions[c] |-> <<c, Functions[c][i]>>]
    BY <1>2, <1>3 DEF AnalysisInv, ArtifactOfOwnCode
  <2>2. DOMAIN A = DOMAIN Functions[c]
    BY <2>1
  <2> QED
    BY <1>3, <2>2
<1>5. \A i \in 1..n : A[i].kernel = <<c, Functions[c][i]>> /\ A[i] \in ToSet(A)
  <2>1. [i \in DOMAIN A |-> A[i].kernel] = [i \in DOMAIN Functions[c] |-> <<c, Functions[c][i]>>]
    BY <1>2, <1>3 DEF AnalysisInv, ArtifactOfOwnCode
  <2>2. \A i \in 1..n : A[i].kernel = <<c, Functions[c][i]>>
    BY <1>4, <2>1
  <2>3. \A i \in 1..n : A[i] \in ToSet(A)
    BY <1>4 DEF ToSet
  <2> QED
    BY <2>2, <2>3
<1>6. ToSet(A) = {A[i] : i \in 1..n} /\ ToSet(Functions[c]) = {Functions[c][i] : i \in 1..n}
  BY <1>4 DEF ToSet
<1>7. \E i \in 1..n : names[i] = Fallback(l.name, names)
  <2>1. DOMAIN names = 1..n
    BY <1>4
  <2> QED
    BY <2>1, FallbackIsName
<1>8. \A i \in 1..n : names[i] = Functions[c][i]
  BY <1>4, <1>5
<1>9. \E a \in ToSet(A) : a.kernel[2] = name
  <2>1. CASE \E a \in ToSet(A) : a.kernel[2] = l.name
    BY <2>1
  <2>2. CASE ~\E a \in ToSet(A) : a.kernel[2] = l.name
    <3>1. name = Fallback(l.name, names)
      BY <2>2
    <3>2. PICK i \in 1..n : names[i] = name
      BY <1>7, <3>1
    <3>3. A[i] \in ToSet(A) /\ A[i].kernel[2] = Functions[c][i]
      BY <1>5
    <3> QED
      BY <1>8, <3>2, <3>3
  <2> QED
    BY <2>1, <2>2
<1>10. l.name \in ToSet(Functions[c]) => name = l.name
  <2> SUFFICES ASSUME l.name \in ToSet(Functions[c]) PROVE \E a \in ToSet(A) : a.kernel[2] = l.name
    OBVIOUS
  <2>1. PICK i \in 1..n : Functions[c][i] = l.name
    BY <1>6
  <2> QED
    BY <2>1, <1>5
<1> HIDE DEF name
<1>11. ArtifactForLaunch(l) \in ToSet(A) /\ ArtifactForLaunch(l).kernel[2] = name
  BY <1>1, <1>9
<1>12. ArtifactForLaunch(l).kernel[1] = c
  BY <1>5, <1>6, <1>11
<1> QED
  BY <1>2, <1>3, <1>10, <1>11, <1>12

Chosen ==
    \A l \in Launches : ArtifactForLaunch(l) # Nil =>
        /\ ArtifactForLaunch(l).kernel[1] = l.code
        /\ l.name \in ToSet(Functions[l.code]) => ArtifactForLaunch(l).kernel[2] = l.name

LEMMA AllChosen == AnalysisInv => Chosen
BY ArtifactChosen DEF Chosen

\* The artifacts of a code come at once and stay until a restart.
LEMMA ArtifactsStay ==
    ASSUME AnalysisInv, [Next]_vars, ~Crash, NEW c \in Codes, artifacts[c] # <<>>
    PROVE  artifacts'[c] = artifacts[c]
<1>1. ASSUME NEW w \in Workers, FinishCodeAnalysis(w) PROVE artifacts'[c] = artifacts[c]
  <2>1. artifacts[work[w].code] = <<>>
    BY <1>1 DEF FinishCodeAnalysis, AnalysisInv, FreshCodes
  <2> QED
    BY <1>1, <2>1 DEF FinishCodeAnalysis, AnalysisInv, AnalysisType
<1>2. ASSUME NEW w \in Workers, Worker(w), ~FinishCodeAnalysis(w) PROVE artifacts' = artifacts
  BY <1>2 DEF Worker, TakeCode, StartAnalysis, Disassemble, WriteKernel, OpenMetadata,
     CloseMetadata, ExtractLoop, RenderSegments, Unlock
<1>3. ASSUME (\E m \in Message : Receive(m)) \/ EventThread \/ RenderWindow \/ UNCHANGED vars
      PROVE  artifacts' = artifacts
  BY <1>3 DEF Receive, EventThread, HandleEnd, HandleCode, HandleBatch, HandleLaunches,
     RenderWindow, vars, memory
<1> QED
  BY <1>1, <1>2, <1>3 DEF Next

\* What was scheduled is what is chosen now.
ChosenInv ==
    /\ held \in Launches \cup {Nil}
    /\ DOMAIN scheduled = Launches
    /\ \A l \in Launches : scheduled[l] # Nil => scheduled[l] = ArtifactForLaunch(l)

LEMMA ChosenStay ==
    ASSUME AnalysisInv, ChosenInv, [Next]_vars, ~Crash, NEW l \in Launches, ArtifactForLaunch(l) # Nil
    PROVE  ArtifactForLaunch(l)' = ArtifactForLaunch(l)
<1>1. l.code \in Codes /\ artifacts[l.code] # <<>>
  BY ArtifactChosen
<1>2. artifacts'[l.code] = artifacts[l.code]
  BY <1>1, ArtifactsStay
<1> QED
  BY <1>2 DEF ArtifactForLaunch, Candidates

LEMMA ChosenStep ==
    ASSUME AnalysisInv, ChosenInv, [Next]_vars
    PROVE  ChosenInv'
<1>1. CASE Crash
  BY <1>1 DEF Crash, ChosenInv
<1>2. CASE ~Crash
  <2>1. held' \in Launches \cup {Nil}
    <3>1. CASE HandleBatch
      <4>1. events # <<>> /\ Head(events).type = "launches"
            /\ (held' = Head(events).launch \/ held' = Nil)
        BY <3>1 DEF HandleBatch, Handling
      <4>2. Head(events) \in Message
        BY <4>1 DEF AnalysisInv, AnalysisType
      <4>3. Head(events).launch \in Launches
        BY <4>1, <4>2 DEF Message
      <4> QED
        BY <4>1, <4>3
    <3>2. CASE ~HandleBatch
      <4>1. held' = held \/ held' = Nil
        BY <1>2, <3>2 DEF Next, Receive, EventThread, HandleEnd, HandleCode, HandleLaunches,
           RenderWindow, Worker, TakeCode, StartAnalysis, Disassemble, WriteKernel, OpenMetadata,
           CloseMetadata, ExtractLoop, RenderSegments, Unlock, FinishCodeAnalysis, WorkerKeeps,
           vars, memory
      <4> QED
        BY <4>1 DEF ChosenInv
    <3> QED
      BY <3>1, <3>2
  <2>2. \/ scheduled' = scheduled
        \/ /\ held \in Launches /\ ArtifactForLaunch(held) # Nil /\ artifacts' = artifacts
           /\ scheduled' = [scheduled EXCEPT ![held] = ArtifactForLaunch(held)]
    <3>1. CASE HandleLaunches
      BY <3>1 DEF HandleLaunches, ChosenInv
    <3>2. CASE ~HandleLaunches
      BY <1>2, <3>2 DEF Next, Receive, EventThread, HandleEnd, HandleCode, HandleBatch,
         RenderWindow, Worker, TakeCode, StartAnalysis, Disassemble, WriteKernel, OpenMetadata,
         CloseMetadata, ExtractLoop, RenderSegments, Unlock, FinishCodeAnalysis, WorkerKeeps,
         vars, memory
    <3> QED
      BY <3>1, <3>2
  <2>3. ASSUME NEW l \in Launches, scheduled'[l] # Nil
        PROVE  scheduled'[l] = ArtifactForLaunch(l)'
    <3>1. scheduled'[l] = ArtifactForLaunch(l)
      BY <2>2, <2>3 DEF ChosenInv
    <3> QED
      BY <1>2, <2>3, <3>1, ChosenStay
  <2>4. DOMAIN scheduled' = Launches
    BY <2>2 DEF ChosenInv
  <2> QED
    BY <2>1, <2>3, <2>4 DEF ChosenInv
<1> QED
  BY <1>1, <1>2

\* For any codes, names and interleaving with the analyses: a launch runs on an artifact of its own
\* code, by its own name if that exists, always on the same one, and is not dropped after it was
\* scheduled (_artifact_for_launch against _finish_code_analysis).
THEOREM LaunchResolutionHolds == Spec => LaunchResolution
<1>1. Init => ChosenInv
  BY DEF Init, ChosenInv
<1>2. AnalysisInv /\ ChosenInv /\ [Next]_vars => ChosenInv'
  BY ChosenStep
<1>3. AnalysisInv' => Chosen'
  BY AllChosen, PTL
<1>4. ASSUME AnalysisInv, AnalysisInv', ChosenInv, ChosenInv', [Next]_vars,
             NEW l \in Launches, scheduled'[l] # Nil
      PROVE  /\ scheduled'[l].kernel[1] = l.code
             /\ l.name \in ToSet(Functions[l.code]) => scheduled'[l].kernel[2] = l.name
             /\ scheduled[l] # Nil => scheduled'[l] = scheduled[l]
  <2>1. ~Crash
    BY <1>4 DEF Crash
  <2>2. scheduled'[l] = ArtifactForLaunch(l)'
    BY <1>4 DEF ChosenInv
  <2>3. /\ ArtifactForLaunch(l)'.kernel[1] = l.code
        /\ l.name \in ToSet(Functions[l.code]) => ArtifactForLaunch(l)'.kernel[2] = l.name
    BY <1>4, <1>3, <2>2 DEF Chosen
  <2>4. scheduled[l] # Nil => ArtifactForLaunch(l)' = scheduled[l]
    BY <1>4, <2>1, ChosenStay DEF ChosenInv
  <2> QED
    BY <2>2, <2>3, <2>4
<1>5. ASSUME AnalysisInv, ChosenInv, [Next]_vars, NEW l \in dropped' \ dropped
      PROVE  scheduled[l] = Nil
  <2>1. CASE HandleLaunches
    <3>1. l = held /\ ArtifactForLaunch(held) = Nil /\ held \in Launches
      BY <1>5, <2>1 DEF HandleLaunches, ChosenInv
    <3> QED
      BY <1>5, <3>1 DEF ChosenInv
  <2>2. CASE ~HandleLaunches
    <3>1. dropped' = dropped \/ dropped' = {}
      BY <1>5, <2>2 DEF Next, Receive, EventThread, HandleEnd, HandleCode, HandleBatch, Crash,
         RenderWindow, Worker, TakeCode, StartAnalysis, Disassemble, WriteKernel, OpenMetadata,
         CloseMetadata, ExtractLoop, RenderSegments, Unlock, FinishCodeAnalysis, WorkerKeeps,
         vars, memory
    <3> QED
      BY <1>5, <3>1
  <2> QED
    BY <2>1, <2>2
<1>6. AnalysisInv /\ AnalysisInv' /\ ChosenInv /\ ChosenInv' /\ [Next]_vars =>
       [/\ \A l \in Launches :
            scheduled'[l] # Nil =>
                /\ scheduled'[l].kernel[1] = l.code
                /\ l.name \in ToSet(Functions[l.code]) => scheduled'[l].kernel[2] = l.name
                /\ scheduled[l] # Nil => scheduled'[l] = scheduled[l]
        /\ \A l \in dropped' \ dropped : scheduled[l] = Nil]_vars
  BY <1>4, <1>5
<1> QED
  BY <1>1, <1>2, <1>6, InitInv, NextInv, PTL DEF Spec, LaunchResolution
-----------------------------------------------------------------------------
(***************************************************************************)
(* SassText                                                                *)
(***************************************************************************)

\* Induction over a set of numbers.
LEMMA NatSetInduction ==
    ASSUME NEW S, 0 \in S, \A n \in Nat : n \in S => n + 1 \in S
    PROVE  Nat \subseteq S
<1> SUFFICES ASSUME Nat \ S # {} PROVE FALSE
  OBVIOUS
<1>1. PICK x \in Nat \ S : \A y \in Nat \ S : x =< y
  BY LeastNat
<1>2. x - 1 \in Nat /\ x - 1 \in S
  BY <1>1
<1> QED
  BY <1>1, <1>2
-----------------------------------------------------------------------------
(* The largest element of a set by a measure that is bounded. *)

LEMMA Largest ==
    ASSUME NEW S, S # {}, NEW f \in [S -> Int], NEW n \in Int, \A x \in S : f[x] =< n
    PROVE  \E x \in S : \A y \in S : f[y] =< f[x]
<1> DEFINE U == {z \in Nat : \E y \in S : z = n - f[y]}
<1>1. \A y \in S : n - f[y] \in U
  OBVIOUS
<1>2. U \in SUBSET Nat /\ U # {}
  BY <1>1
<1>3. PICK z \in U : \A u \in U : z =< u
  BY <1>2, LeastNat
<1>4. PICK x \in S : z = n - f[x]
  BY <1>3
<1>5. ASSUME NEW y \in S PROVE f[y] =< f[x]
  <2>1. z =< n - f[y]
    BY <1>1, <1>3
  <2> QED
    BY <1>4, <2>1
<1> QED
  BY <1>5

LEMMA IntervalMax ==
    ASSUME NEW S, S # {}, NEW n \in Int, \A x \in S : x \in Int /\ x =< n
    PROVE  Max(S) \in S /\ \A x \in S : x =< Max(S)
<1> DEFINE f == [x \in S |-> x]
<1>1. f \in [S -> Int] /\ \A x \in S : f[x] = x
  OBVIOUS
<1> HIDE DEF f
<1>2. PICK x \in S : \A y \in S : f[y] =< f[x]
  BY <1>1, Largest
<1>3. \A y \in S : x >= y
  BY <1>1, <1>2
<1>4. Max(S) \in S /\ \A y \in S : Max(S) >= y
  BY <1>3, Zenon DEF Max
<1> QED
  BY <1>4
-----------------------------------------------------------------------------
(* cfg.py *)

LEMMA TextFacts ==
    ASSUME kernel \in KernelTexts
    PROVE  /\ Len(kernel) \in Nat /\ Lines = 1..Len(kernel) /\ DOMAIN kernel = Lines
           /\ \A i \in Lines : /\ kernel[i] \in Instruction /\ kernel[i].cost \in Nat \ {0}
                               /\ Target(i) \in Nat /\ Op(i) \in STRING /\ kernel[i].predicated \in BOOLEAN
                               /\ Target(i) # 0 => Target(i) \in Lines /\ kernel[Target(i)].labelled
<1>1. /\ kernel \in Seq(Instruction)
      /\ \A i \in 1..Len(kernel) : kernel[i].target # 0 =>
            kernel[i].target <= Len(kernel) /\ kernel[kernel[i].target].labelled
  BY TextAssumption
<1>2. Len(kernel) \in Nat /\ DOMAIN kernel = 1..Len(kernel) /\ \A i \in 1..Len(kernel) : kernel[i] \in Instruction
  BY <1>1
<1>3. ASSUME NEW i \in 1..Len(kernel)
      PROVE  /\ kernel[i].cost \in Nat \ {0} /\ kernel[i].target \in Nat
             /\ kernel[i].op \in STRING /\ kernel[i].predicated \in BOOLEAN
  BY <1>2 DEF Instruction
<1> QED
  BY <1>1, <1>2, <1>3 DEF Lines, Target, Op

LEMMA LeaderFacts ==
    ASSUME kernel \in KernelTexts, NEW i \in Lines
    PROVE  /\ Leaders \subseteq Lines /\ 1 \in Leaders
           /\ Target(i) # 0 => Target(i) \in Leaders
           /\ i + 1 \in Lines /\ Op(i) \in BranchOps \cup TerminalOps \cup CallOps => i + 1 \in Leaders
<1>1. Len(kernel) \in Nat /\ Lines = 1..Len(kernel)
  BY TextFacts
<1>2. Leaders \subseteq Lines /\ 1 \in Leaders
  BY <1>1 DEF Leaders
<1>3. Target(i) # 0 => Target(i) \in Leaders
  BY TextFacts DEF Leaders
<1>4. i + 1 \in Lines /\ Op(i) \in BranchOps \cup TerminalOps \cup CallOps => i + 1 \in Leaders
  BY <1>1 DEF Leaders
<1> QED
  BY <1>2, <1>3, <1>4

\* The start of the block of i is the last leader up to i, its end the first line from i
\* on that a leader follows.
LEMMA BlockOf ==
    ASSUME kernel \in KernelTexts, NEW i \in Lines
    PROVE  \E b \in Blocks : i \in Range2(b) /\ (i \in Leaders => b[1] = i)
<1>1. /\ Len(kernel) \in Nat /\ Lines = 1..Len(kernel)
      /\ Leaders \subseteq Lines /\ 1 \in Leaders
  BY TextFacts, LeaderFacts
<1> DEFINE upTo == {l \in Leaders : l <= i}
           ends == {x \in Lines : x >= i /\ (x = Len(kernel) \/ x + 1 \in Leaders)}
<1>2. PICK first \in upTo : \A l \in upTo : l <= first
  <2>1. upTo # {} /\ i \in Int /\ \A x \in upTo : x \in Int /\ x =< i
    BY <1>1
  <2> HIDE DEF upTo
  <2>2. Max(upTo) \in upTo /\ \A x \in upTo : x =< Max(upTo)
    BY <2>1, IntervalMax
  <2> QED
    BY <2>2
<1>3. PICK last \in ends : \A x \in ends : last <= x
  <2>1. ends \in SUBSET Nat /\ ends # {}
    <3>1. Len(kernel) \in ends
      BY <1>1
    <3> QED
      BY <1>1, <3>1
  <2> HIDE DEF ends
  <2> QED
    BY <2>1, LeastNat
<1> DEFINE b == <<first, last>>
<1>4. ASSUME NEW l \in Leaders, l \in first..last
      PROVE  l = first
  <2>1. CASE l <= i
    BY <1>1, <1>2, <1>4, <2>1
  <2>2. CASE l > i
    <3>1. l - 1 \in Lines /\ l - 1 >= i /\ (l - 1) + 1 \in Leaders
      BY <1>1, <1>4, <2>2
    <3>2. last <= l - 1
      BY <1>3, <3>1
    <3> QED
      BY <1>1, <1>4, <3>2
  <2> QED
    BY <1>1, <2>1, <2>2
<1>5. first \in Leaders /\ first \in Lines /\ last \in Lines /\ first <= i /\ i <= last
  BY <1>1, <1>2, <1>3
<1>6. first..last \cap Leaders = {first}
  BY <1>1, <1>4, <1>5
<1>7. last = Len(kernel) \/ last + 1 \in Leaders
  BY <1>3
<1>8. b \in Blocks
  BY <1>1, <1>5, <1>6, <1>7 DEF Blocks, Range2
<1>9. i \in Range2(b)
  BY <1>1, <1>5 DEF Range2
<1>10. i \in Leaders => b[1] = i
  BY <1>1, <1>2, <1>5
<1> QED
  BY <1>8, <1>9, <1>10

LEMMA BlockFacts ==
    ASSUME kernel \in KernelTexts, NEW b \in Blocks
    PROVE  /\ b = <<b[1], b[2]>> /\ b[1] \in Lines /\ b[2] \in Lines /\ b[1] <= b[2]
           /\ b[1] \in Leaders /\ \A l \in Leaders : l \in b[1]..b[2] => l = b[1]
           /\ b[2] = Len(kernel) \/ b[2] + 1 \in Leaders
<1>1. b[1]..b[2] \cap Leaders = {b[1]}
  BY DEF Blocks, Range2
<1>2. b = <<b[1], b[2]>> /\ b[1] \in Lines /\ b[2] \in Lines /\ b[1] <= b[2]
  BY DEF Blocks
<1>3. b[2] = Len(kernel) \/ b[2] + 1 \in Leaders
  BY DEF Blocks
<1> QED
  BY <1>1, <1>2, <1>3

LEMMA BlocksApart ==
    ASSUME kernel \in KernelTexts, NEW b \in Blocks, NEW c \in Blocks, NEW i \in Lines,
           i \in Range2(b), i \in Range2(c)
    PROVE  b = c
<1>1. /\ Len(kernel) \in Nat /\ Lines = 1..Len(kernel)
      /\ b[1] <= i /\ i <= b[2] /\ c[1] <= i /\ i <= c[2]
  BY TextFacts DEF Range2
<1>2. /\ b = <<b[1], b[2]>> /\ b[1] \in Lines /\ b[2] \in Lines
      /\ b[1] \in Leaders /\ \A l \in Leaders : l \in b[1]..b[2] => l = b[1]
      /\ b[2] = Len(kernel) \/ b[2] + 1 \in Leaders
  BY BlockFacts
<1>3. /\ c = <<c[1], c[2]>> /\ c[1] \in Lines /\ c[2] \in Lines
      /\ c[1] \in Leaders /\ \A l \in Leaders : l \in c[1]..c[2] => l = c[1]
      /\ c[2] = Len(kernel) \/ c[2] + 1 \in Leaders
  BY BlockFacts
<1> PICK p, q, r, s : p = b[1] /\ q = b[2] /\ r = c[1] /\ s = c[2]
  OBVIOUS
<1>4. p \in Nat /\ q \in Nat /\ r \in Nat /\ s \in Nat /\ q <= Len(kernel) /\ s <= Len(kernel)
  BY <1>1, <1>2, <1>3
<1>5. p = r
  BY <1>1, <1>2, <1>3, <1>4
<1>6. ~(q < s)
  <2> SUFFICES ASSUME q < s PROVE FALSE
    OBVIOUS
  <2>1. q + 1 \in Leaders /\ q + 1 \in r..s
    BY <1>1, <1>2, <1>4
  <2> QED
    BY <1>1, <1>3, <1>4, <2>1
<1>7. ~(s < q)
  <2> SUFFICES ASSUME s < q PROVE FALSE
    OBVIOUS
  <2>1. s + 1 \in Leaders /\ s + 1 \in p..q
    BY <1>1, <1>3, <1>4
  <2> QED
    BY <1>1, <1>2, <1>4, <2>1
<1> QED
  BY <1>2, <1>3, <1>4, <1>5, <1>6, <1>7
Edges == {e \in Blocks \X Blocks : e[2] \in Successors(e[1])}

\* Inside a block control goes to the next line.
LEMMA StraightOn ==
    ASSUME kernel \in KernelTexts, NEW b \in Blocks, NEW i \in b[1]..(b[2] - 1)
    PROVE  NextOf(i) = {i + 1} /\ i + 1 \in Range2(b)
<1>1. /\ Len(kernel) \in Nat /\ Lines = 1..Len(kernel)
      /\ b[1] \in Lines /\ b[2] \in Lines
      /\ \A l \in Leaders : l \in b[1]..b[2] => l = b[1]
  BY TextFacts, BlockFacts
<1>2. i \in Lines /\ i + 1 \in Lines /\ i + 1 \in b[1]..b[2] /\ i + 1 # b[1]
  BY <1>1
<1>3. Op(i) \notin BranchOps \cup TerminalOps \cup CallOps
  BY <1>1, <1>2, LeaderFacts
<1>4. NextOf(i) = {i + 1}
  BY <1>2, <1>3 DEF NextOf
<1> QED
  BY <1>2, <1>4 DEF Range2

\* From the end of a block control goes to starts of blocks.
LEMMA OnlyToStarts ==
    ASSUME kernel \in KernelTexts, NEW b \in Blocks, NEW j \in Lines, j \in NextOf(b[2])
    PROVE  j \in Leaders /\ (j = Target(b[2]) \/ j = b[2] + 1)
<1>1. b[2] \in Lines /\ (b[2] = Len(kernel) \/ b[2] + 1 \in Leaders)
  BY BlockFacts
<1>2. Len(kernel) \in Nat /\ Lines = 1..Len(kernel)
  BY TextFacts
<1>3. j = Target(b[2]) \/ j = b[2] + 1
  BY DEF NextOf
<1>4. CASE j = Target(b[2])
  BY <1>1, <1>2, <1>4, LeaderFacts
<1>5. CASE j = b[2] + 1
  BY <1>1, <1>2, <1>5
<1> QED
  BY <1>3, <1>4, <1>5

LEMMA EveryStepHasAnEdge ==
    ASSUME kernel \in KernelTexts, NEW b \in Blocks, NEW j \in Lines, j \in NextOf(b[2]),
           Op(b[2]) \notin TerminalOps
    PROVE  \E e \in Edges : e[1][2] = b[2] /\ e[2][1] = j
<1>1. j \in Leaders
  BY OnlyToStarts
<1>2. PICK c \in Blocks : j \in Range2(c) /\ c[1] = j
  BY <1>1, BlockOf
<1> DEFINE i == b[2]
           jump == {x \in Blocks : Target(i) \in Range2(x)}
           through == {x \in Blocks : x[1] = i + 1}
<1>3. j = Target(i) => c \in jump
  BY <1>2
<1>4. j = i + 1 => c \in through
  BY <1>2
<1>5. Successors(b) =
        CASE Op(i) \in BranchOps   -> jump \cup (IF kernel[i].predicated THEN through ELSE {})
          [] Op(i) \in TerminalOps -> {}
          [] Op(i) \in CallOps     -> jump \cup through
          [] OTHER                 -> through
  BY DEF Successors
<1>6. NextOf(i) =
        CASE Op(i) \in BranchOps   -> ({Target(i)} \cap Lines)
                                        \cup (IF kernel[i].predicated THEN {i + 1} \cap Lines ELSE {})
          [] Op(i) \in TerminalOps -> IF kernel[i].predicated THEN {i + 1} \cap Lines ELSE {}
          [] Op(i) \in CallOps     -> ({Target(i)} \cap Lines) \cup ({i + 1} \cap Lines)
          [] OTHER                 -> {i + 1} \cap Lines
  BY DEF NextOf
<1> HIDE DEF jump, through
<1>7. c \in Successors(b)
  <2>1. CASE Op(i) \in BranchOps
    BY <2>1, <1>3, <1>4, <1>5, <1>6
  <2>2. CASE Op(i) \notin BranchOps /\ Op(i) \in CallOps
    BY <2>2, <1>3, <1>4, <1>5, <1>6
  <2>3. CASE Op(i) \notin BranchOps /\ Op(i) \notin CallOps
    BY <2>3, <1>3, <1>4, <1>5, <1>6
  <2> QED
    BY <2>1, <2>2, <2>3
<1> DEFINE e == <<b, c>>
<1>8. e \in Edges /\ e[1][2] = b[2] /\ e[2][1] = j
  BY <1>2, <1>7 DEF Edges
<1> QED
  BY <1>8

LEMMA EveryEdgeIsAStep ==
    ASSUME kernel \in KernelTexts, NEW b \in Blocks, NEW c \in Successors(b)
    PROVE  c \in Blocks /\ c[1] \in NextOf(b[2])
<1> DEFINE i == b[2]
           jump == {x \in Blocks : Target(i) \in Range2(x)}
           through == {x \in Blocks : x[1] = i + 1}
<1>1. i \in Lines
  BY BlockFacts
<1>2. c \in Blocks
  BY DEF Successors
<1>3. c[1] \in Lines /\ Len(kernel) \in Nat /\ Lines = 1..Len(kernel) /\ c[2] \in Lines
  BY <1>2, BlockFacts, TextFacts
<1>4. c \in jump => c[1] = Target(i)
  <2> SUFFICES ASSUME c \in jump PROVE c[1] = Target(i)
    OBVIOUS
  <2>1. Target(i) \in c[1]..c[2] /\ Target(i) # 0
    BY <1>3 DEF Range2
  <2>2. Target(i) \in Leaders
    BY <1>1, <2>1, LeaderFacts
  <2> QED
    BY <1>2, <2>1, <2>2, BlockFacts
<1>5. c \in through => c[1] = i + 1
  OBVIOUS
<1>6. c \in
        CASE Op(i) \in BranchOps   -> jump \cup (IF kernel[i].predicated THEN through ELSE {})
          [] Op(i) \in TerminalOps -> {}
          [] Op(i) \in CallOps     -> jump \cup through
          [] OTHER                 -> through
  BY DEF Successors
<1> HIDE DEF jump, through
<1>7. NextOf(i) =
        CASE Op(i) \in BranchOps   -> ({Target(i)} \cap Lines)
                                        \cup (IF kernel[i].predicated THEN {i + 1} \cap Lines ELSE {})
          [] Op(i) \in TerminalOps -> IF kernel[i].predicated THEN {i + 1} \cap Lines ELSE {}
          [] Op(i) \in CallOps     -> ({Target(i)} \cap Lines) \cup ({i + 1} \cap Lines)
          [] OTHER                 -> {i + 1} \cap Lines
  BY DEF NextOf
<1>8. c[1] \in NextOf(i)
  <2>1. CASE Op(i) \in BranchOps
    BY <2>1, <1>3, <1>4, <1>5, <1>6, <1>7
  <2>2. CASE Op(i) \notin BranchOps /\ Op(i) \in TerminalOps
    <3>1. c \in {}
      BY <2>2, <1>6 DEF TerminalOps, CallOps
    <3> QED
      BY <3>1
  <2>3. CASE Op(i) \notin BranchOps /\ Op(i) \notin TerminalOps /\ Op(i) \in CallOps
    BY <2>3, <1>3, <1>4, <1>5, <1>6, <1>7
  <2>4. CASE Op(i) \notin BranchOps /\ Op(i) \notin TerminalOps /\ Op(i) \notin CallOps
    BY <2>4, <1>3, <1>4, <1>5, <1>6, <1>7
  <2> QED
    BY <2>1, <2>2, <2>3, <2>4
<1> QED
  BY <1>2, <1>8

\* What CfgFaithful says, of the result of BuildCfg.
LEMMA CfgSound ==
    ASSUME kernel \in KernelTexts
    PROVE  /\ \A i \in Lines : \E b \in Blocks : {c \in Blocks : i \in Range2(c)} = {b}
           /\ \A b \in Blocks : \A i \in b[1]..(b[2] - 1) : NextOf(i) = {i + 1}
           /\ \A i, j \in Lines : j \in NextOf(i) =>
                 \/ \E b \in Blocks : {i, j} \subseteq Range2(b) /\ j = i + 1
                 \/ \E e \in Edges : e[1][2] = i /\ e[2][1] = j
                 \/ Op(i) \in TerminalOps
           /\ \A e \in Edges : e \in Blocks \X Blocks /\ e[2][1] \in NextOf(e[1][2])
<1>1. ASSUME NEW i \in Lines
      PROVE  \E b \in Blocks : {c \in Blocks : i \in Range2(c)} = {b}
  <2>1. PICK b \in Blocks : i \in Range2(b)
    BY BlockOf
  <2>2. {c \in Blocks : i \in Range2(c)} = {b}
    BY <2>1, BlocksApart
  <2> QED
    BY <2>2
<1>2. ASSUME NEW i \in Lines, NEW j \in Lines, j \in NextOf(i), Op(i) \notin TerminalOps
      PROVE  \/ \E b \in Blocks : {i, j} \subseteq Range2(b) /\ j = i + 1
             \/ \E e \in Edges : e[1][2] = i /\ e[2][1] = j
  <2>1. PICK b \in Blocks : i \in Range2(b)
    BY BlockOf
  <2>2. b[1] \in Nat /\ b[2] \in Nat /\ i \in Nat /\ i \in b[1]..b[2]
    BY <2>1, BlockFacts, TextFacts DEF Range2
  <2>3. CASE i = b[2]
    BY <1>2, <2>3, EveryStepHasAnEdge
  <2>4. CASE i # b[2]
    <3>1. i \in b[1]..(b[2] - 1)
      BY <2>2, <2>4
    <3>2. j = i + 1 /\ i + 1 \in Range2(b)
      BY <3>1, <1>2, StraightOn
    <3> QED
      BY <2>1, <3>2
  <2> QED
    BY <2>3, <2>4
<1>3. ASSUME NEW e \in Edges
      PROVE  e \in Blocks \X Blocks /\ e[2][1] \in NextOf(e[1][2])
  <2>1. e \in Blocks \X Blocks /\ e[1] \in Blocks /\ e[2] \in Successors(e[1])
    BY DEF Edges
  <2> QED
    BY <2>1, EveryEdgeIsAStep
<1> QED
  BY <1>1, <1>2, <1>3, StraightOn
-----------------------------------------------------------------------------
(* The loops of loop_extract.py. *)

\* Runs within the kernel.
Runs == {r \in Lines \X Lines : r[1] <= r[2]}

LEMMA RunFactsOf ==
    ASSUME kernel \in KernelTexts, NEW r \in Runs
    PROVE  /\ r = <<r[1], r[2]>> /\ r[1] \in Nat /\ r[2] \in Nat
           /\ r[1] \in Lines /\ r[2] \in Lines /\ r[1] <= r[2] /\ Range2(r) \subseteq Lines
           /\ Size(r) \in Nat /\ 1 <= Size(r) /\ Size(r) <= Len(kernel)
<1>1. Len(kernel) \in Nat /\ Lines = 1..Len(kernel)
  BY TextFacts
<1>2. r = <<r[1], r[2]>> /\ r[1] \in Lines /\ r[2] \in Lines /\ r[1] <= r[2]
  BY DEF Runs
<1> QED
  BY <1>1, <1>2 DEF Range2, Size

LEMMA CountFacts ==
    ASSUME kernel \in KernelTexts, NEW r \in Runs, NEW ops
    PROVE  /\ IsFiniteSet({i \in Range2(r) : Op(i) \in ops})
           /\ Count(r, ops) \in Nat /\ Count(r, ops) <= Len(kernel)
<1>1. /\ Len(kernel) \in Nat /\ Lines = 1..Len(kernel)
      /\ {i \in Range2(r) : Op(i) \in ops} \in SUBSET Lines
  BY TextFacts, RunFactsOf
<1>2. IsFiniteSet(Lines) /\ Cardinality(Lines) = Len(kernel)
  <2>1. 1 \in Int /\ Len(kernel) \in Int
    BY <1>1
  <2>2. IsFiniteSet(1..Len(kernel))
        /\ Cardinality(1..Len(kernel)) = IF 1 > Len(kernel) THEN 0 ELSE Len(kernel) - 1 + 1
    BY <2>1, FS_Interval
  <2> QED
    BY <1>1, <2>2
<1> QED
  BY <1>1, <1>2, FS_Subset, FS_CardinalityType DEF Count

LEMMA CountGrows ==
    ASSUME kernel \in KernelTexts, NEW r \in Runs, NEW s \in Runs, Inside(r, s), NEW ops
    PROVE  Count(r, ops) <= Count(s, ops)
<1>1. /\ r[1] \in Nat /\ r[2] \in Nat /\ s[1] \in Nat /\ s[2] \in Nat
      /\ s[1] <= r[1] /\ r[2] <= s[2]
  BY RunFactsOf DEF Inside
<1>2. {i \in Range2(r) : Op(i) \in ops} \in SUBSET {i \in Range2(s) : Op(i) \in ops}
  BY <1>1 DEF Range2
<1> QED
  BY <1>2, CountFacts, FS_Subset DEF Count

LEMMA ScoreFacts ==
    ASSUME kernel \in KernelTexts, NEW r \in Runs, NEW b \in Nat, NEW d \in Nat
    PROVE  ScoreLoop(r, b, d) \in Nat /\ ScoreLoop(r, b, d) <= 18 * Len(kernel) + 4 * b + 2 * d
<1>1. Size(r) \in Nat /\ Size(r) <= Len(kernel) /\ Len(kernel) \in Nat
  BY RunFactsOf, TextFacts
<1>2. \A ops : Count(r, ops) \in Nat /\ Count(r, ops) <= Len(kernel)
  BY CountFacts
<1> PICK n, s, i, w, h, p, m :
      /\ n = Len(kernel) /\ s = Size(r)
      /\ i = Count(r, IntegerOps) /\ w = Count(r, BitwiseOps) /\ h = Count(r, ShiftOps)
      /\ p = Count(r, PredicateOps) /\ m = Count(r, MemoryOps)
  OBVIOUS
<1> PICK x : x = ScoreLoop(r, b, d)
  OBVIOUS
<1>3. x = 2 * s + 4 * i + 4 * w + 3 * h + 3 * p + 2 * m + 4 * b + 2 * d
  BY DEF ScoreLoop
<1>4. /\ n \in Nat /\ s \in Nat /\ i \in Nat /\ w \in Nat /\ h \in Nat /\ p \in Nat /\ m \in Nat
      /\ s <= n /\ i <= n /\ w <= n /\ h <= n /\ p <= n /\ m <= n /\ b \in Nat /\ d \in Nat
  BY <1>1, <1>2
<1>5. x \in Nat /\ x <= 18 * n + 4 * b + 2 * d
  BY ONLY <1>3, <1>4
<1> QED
  BY <1>5

LEMMA LoopFacts ==
    ASSUME kernel \in KernelTexts
    PROVE  /\ Loops \subseteq Runs /\ IsFiniteSet(Loops)
           /\ \A l \in Loops : l[1] = Target(l[2]) /\ l = <<l[1], l[2]>>
           /\ \A l, m \in Loops : l[2] = m[2] => l = m
<1>1. Len(kernel) \in Nat /\ Lines = 1..Len(kernel)
  BY TextFacts
<1>2. ASSUME NEW l \in Loops
      PROVE  l \in Runs /\ l[1] = Target(l[2]) /\ l = <<l[1], l[2]>>
  <2>1. PICK i \in Lines : Target(i) \in 1..(i - 1) /\ l = <<Target(i), i>>
    BY DEF Loops
  <2>2. i \in Nat /\ Target(i) \in Lines /\ Target(i) <= i
    BY <1>1, <2>1
  <2> QED
    BY <2>1, <2>2 DEF Runs
<1>3. IsFiniteSet(Loops)
  <2>1. IsFiniteSet(Lines)
    BY <1>1, FS_Interval
  <2>2. IsFiniteSet(Lines \X Lines)
    BY <2>1, FS_Product
  <2>3. Loops \in SUBSET (Lines \X Lines)
    BY <1>2 DEF Runs
  <2> QED
    BY <2>2, <2>3, FS_Subset
<1>4. \A l, m \in Loops : l[2] = m[2] => l = m
  BY <1>2, Zenon
<1> QED
  BY <1>2, <1>3, <1>4

LEMMA DepthFacts ==
    ASSUME kernel \in KernelTexts, NEW l \in Loops
    PROVE  /\ IsFiniteSet({m \in Loops : m # l /\ Inside(l, m)})
           /\ Depth(l) \in Nat /\ Depth(l) <= Cardinality(Loops) /\ Cardinality(Loops) \in Nat
<1>1. {m \in Loops : m # l /\ Inside(l, m)} \in SUBSET Loops
  OBVIOUS
<1> QED
  BY <1>1, LoopFacts, FS_Subset, FS_CardinalityType DEF Depth

\* Around a nested loop there is one that scores as much and is longer: of the loops around
\* it, the last to end has a line more for each of them.
LEMMA OuterIsBetter ==
    ASSUME kernel \in KernelTexts, NEW l \in Loops, Depth(l) # 0
    PROVE  \E m \in Loops : LoopScore(m) >= LoopScore(l) /\ Size(m) > Size(l)
<1> DEFINE around == {m \in Loops : m # l /\ Inside(l, m)}
<1>1. /\ IsFiniteSet(around) /\ Depth(l) = Cardinality(around) /\ Depth(l) \in Nat
      /\ Len(kernel) \in Nat /\ Lines = 1..Len(kernel)
  BY DepthFacts, TextFacts DEF Depth
<1>2. around # {}
  BY <1>1, FS_EmptySet
<1>3. l \in Runs /\ l[1] \in Nat /\ l[2] \in Nat /\ Size(l) \in Nat
  BY LoopFacts, RunFactsOf
<1>4. ASSUME NEW m \in around
      PROVE  /\ m \in Runs /\ m \in Loops /\ m[1] \in Nat /\ m[2] \in Nat /\ m[2] <= Len(kernel)
             /\ Inside(l, m) /\ m[1] <= l[1] /\ l[2] < m[2]
  <2>1. m \in Runs /\ m \in Loops /\ m # l /\ Inside(l, m) /\ m[1] <= l[1] /\ l[2] <= m[2]
    BY LoopFacts DEF Inside
  <2>2. m[1] \in Nat /\ m[2] \in Nat /\ m[2] \in Lines
    BY <2>1, RunFactsOf
  <2>3. l[2] # m[2]
    BY <2>1, LoopFacts
  <2> QED
    BY <1>1, <1>3, <2>1, <2>2, <2>3
<1> HIDE DEF around
<1>5. PICK m \in around : \A x \in around : x[2] <= m[2]
  <2> DEFINE f == [x \in around |-> x[2]]
  <2>1. f \in [around -> Int] /\ \A x \in around : f[x] = x[2] /\ f[x] =< Len(kernel)
    BY <1>4
  <2> HIDE DEF f
  <2>2. PICK m \in around : \A x \in around : f[x] =< f[m]
    BY <1>1, <1>2, <2>1, Largest
  <2> QED
    BY <2>1, <2>2
<1> DEFINE ends == (l[2] + 1)..m[2]
<1>6. Depth(l) <= m[2] - l[2]
  <2>1. IsFiniteSet(ends) /\ Cardinality(ends) = m[2] - l[2]
    <3>1. l[2] + 1 \in Int /\ m[2] \in Int /\ ~(l[2] + 1 > m[2]) /\ m[2] - (l[2] + 1) + 1 = m[2] - l[2]
      BY <1>3, <1>4
    <3>2. IsFiniteSet(ends) /\ Cardinality(ends) = IF l[2] + 1 > m[2] THEN 0 ELSE m[2] - (l[2] + 1) + 1
      BY <3>1, FS_Interval
    <3> QED
      BY <3>1, <3>2
  <2> DEFINE f == [x \in around |-> x[2]]
  <2>2. f \in [around -> ends] /\ \A x \in around : f[x] = x[2]
    BY <1>3, <1>4, <1>5
  <2> HIDE DEF f, ends
  <2>3. \A x, y \in around : f[x] = f[y] => x = y
    BY <2>2, <1>4, LoopFacts
  <2>4. ~(Cardinality(ends) < Cardinality(around))
    BY <1>1, <2>1, <2>2, <2>3, FS_PigeonHole
  <2> QED
    BY <1>1, <1>3, <1>4, <2>1, <2>4
<1>7. Size(m) >= Size(l) + Depth(l) /\ Size(m) \in Nat
  <2>1. m[1] <= l[1] /\ l[2] < m[2] /\ m[1] \in Nat /\ m[2] \in Nat
    BY <1>4
  <2>2. l[1] \in Nat /\ l[2] \in Nat /\ Size(l) \in Nat /\ Depth(l) \in Nat
    BY <1>1, <1>3
  <2>3. Size(l) = l[2] - l[1] + 1 /\ Size(m) = m[2] - m[1] + 1
    BY DEF Size
  <2> QED
    BY ONLY <1>6, <2>1, <2>2, <2>3
<1>8. \A ops : Count(l, ops) <= Count(m, ops) /\ Count(l, ops) \in Nat /\ Count(m, ops) \in Nat
  BY <1>3, <1>4, CountGrows, CountFacts
<1>9. Depth(m) \in Nat
  BY <1>4, DepthFacts
<1>10. LoopScore(m) >= LoopScore(l)
  <2> PICK s, i, w, h, p, g, d :
        /\ s = Size(l) /\ d = Depth(l)
        /\ i = Count(l, IntegerOps) /\ w = Count(l, BitwiseOps) /\ h = Count(l, ShiftOps)
        /\ p = Count(l, PredicateOps) /\ g = Count(l, MemoryOps)
    OBVIOUS
  <2> PICK ms, mi, mw, mh, mp, mg, md :
        /\ ms = Size(m) /\ md = Depth(m)
        /\ mi = Count(m, IntegerOps) /\ mw = Count(m, BitwiseOps) /\ mh = Count(m, ShiftOps)
        /\ mp = Count(m, PredicateOps) /\ mg = Count(m, MemoryOps)
    OBVIOUS
  <2>1. LoopScore(l) = 2 * s + 4 * i + 4 * w + 3 * h + 3 * p + 2 * g + 4 * 1 + 2 * d
    BY DEF LoopScore, ScoreLoop
  <2>2. LoopScore(m) = 2 * ms + 4 * mi + 4 * mw + 3 * mh + 3 * mp + 2 * mg + 4 * 1 + 2 * md
    BY DEF LoopScore, ScoreLoop
  <2>3. /\ s \in Nat /\ i \in Nat /\ w \in Nat /\ h \in Nat /\ p \in Nat /\ g \in Nat /\ d \in Nat
        /\ ms \in Nat /\ mi \in Nat /\ mw \in Nat /\ mh \in Nat /\ mp \in Nat /\ mg \in Nat /\ md \in Nat
        /\ i <= mi /\ w <= mw /\ h <= mh /\ p <= mp /\ g <= mg /\ ms >= s + d
    BY <1>1, <1>3, <1>7, <1>8, <1>9
  <2>4. 2 * ms + 4 * mi + 4 * mw + 3 * mh + 3 * mp + 2 * mg + 4 * 1 + 2 * md
          >= 2 * s + 4 * i + 4 * w + 3 * h + 3 * p + 2 * g + 4 * 1 + 2 * d
    BY ONLY <2>3
  <2> QED
    BY ONLY <2>1, <2>2, <2>4
<1> QED
  BY <1>1, <1>3, <1>4, <1>7, <1>10

LEMMA BestLoopFacts ==
    ASSUME kernel \in KernelTexts, Loops # {}
    PROVE  BestLoop \in Loops /\ Depth(BestLoop) = 0
<1> DEFINE best == {l \in Loops : \A m \in Loops :
                      \/ LoopScore(l) > LoopScore(m)
                      \/ LoopScore(l) = LoopScore(m) /\ Size(l) >= Size(m)}
<1>1. \A l \in Loops : /\ LoopScore(l) \in Nat /\ Size(l) \in Nat /\ Size(l) <= Len(kernel) /\ l[2] \in Nat
                       /\ LoopScore(l) <= 18 * Len(kernel) + 4 + 2 * Cardinality(Loops)
  <2> TAKE l \in Loops
  <2>1. l \in Runs /\ Depth(l) \in Nat /\ Depth(l) <= Cardinality(Loops) /\ Cardinality(Loops) \in Nat
    BY LoopFacts, DepthFacts
  <2>2. Size(l) \in Nat /\ Size(l) <= Len(kernel) /\ l[2] \in Nat /\ Len(kernel) \in Nat
    BY <2>1, RunFactsOf, TextFacts
  <2>3. LoopScore(l) \in Nat /\ LoopScore(l) <= 18 * Len(kernel) + 4 * 1 + 2 * Depth(l)
    BY <2>1, ScoreFacts DEF LoopScore
  <2> QED
    BY <2>1, <2>2, <2>3
<1>2. PICK l \in Loops : \A m \in Loops : LoopScore(m) =< LoopScore(l)
  <2> DEFINE f == [x \in Loops |-> LoopScore(x)]
             n == 18 * Len(kernel) + 4 + 2 * Cardinality(Loops)
  <2>1. f \in [Loops -> Int] /\ n \in Int /\ \A x \in Loops : f[x] = LoopScore(x) /\ f[x] =< n
    BY <1>1, LoopFacts, TextFacts, FS_CardinalityType
  <2> HIDE DEF f, n
  <2> QED
    BY <2>1, Largest
<1> DEFINE top == {x \in Loops : LoopScore(x) = LoopScore(l)}
<1>3. PICK t \in top : \A x \in top : Size(x) =< Size(t)
  <2> DEFINE f == [x \in top |-> Size(x)]
  <2>1. f \in [top -> Int] /\ Len(kernel) \in Int /\ \A x \in top : f[x] = Size(x) /\ f[x] =< Len(kernel)
    BY <1>1, TextFacts
  <2>2. top # {}
    OBVIOUS
  <2> HIDE DEF f, top
  <2> QED
    BY <2>1, <2>2, Largest
<1>4. t \in best
  <2> SUFFICES ASSUME NEW m \in Loops
               PROVE  \/ LoopScore(t) > LoopScore(m)
                      \/ LoopScore(t) = LoopScore(m) /\ Size(t) >= Size(m)
    OBVIOUS
  <2>1. LoopScore(t) = LoopScore(l) /\ LoopScore(m) =< LoopScore(l)
    BY <1>2
  <2>2. LoopScore(m) = LoopScore(l) => Size(m) =< Size(t)
    BY <1>3
  <2> QED
    BY <1>1, <2>1, <2>2
<1>5. PICK b \in best : \A m \in best : b[2] <= m[2]
  <2> DEFINE f == [x \in best |-> 0 - x[2]]
  <2>1. f \in [best -> Int] /\ 0 \in Int /\ \A x \in best : x[2] \in Nat /\ f[x] = 0 - x[2] /\ f[x] =< 0
    BY <1>1
  <2>2. best # {}
    BY <1>4
  <2> HIDE DEF f, best
  <2>3. PICK b \in best : \A x \in best : f[x] =< f[b]
    BY <2>1, <2>2, Largest
  <2> QED
    BY <2>1, <2>3
<1>6. BestLoop = CHOOSE x \in best : \A m \in best : x[2] <= m[2]
  BY DEF BestLoop
<1>7. BestLoop \in best
  <2> HIDE DEF best
  <2> QED
    BY <1>5, <1>6
<1>8. Depth(BestLoop) = 0
  <2> SUFFICES ASSUME Depth(BestLoop) # 0 PROVE FALSE
    OBVIOUS
  <2>1. PICK m \in Loops : LoopScore(m) >= LoopScore(BestLoop) /\ Size(m) > Size(BestLoop)
    BY <1>7, OuterIsBetter
  <2> QED
    BY <1>1, <1>7, <2>1
<1> QED
  BY <1>7, <1>8
-----------------------------------------------------------------------------
(* The regions of loop_extract.py. *)

LEMMA MinOfTwo ==
    ASSUME NEW a \in Int, NEW b \in Int
    PROVE  Min({a, b}) \in {a, b} /\ Min({a, b}) <= a /\ Min({a, b}) <= b
<1>1. \E x \in {a, b} : \A y \in {a, b} : x <= y
  <2>1. CASE a <= b
    BY <2>1
  <2>2. CASE b <= a
    BY <2>2
  <2> QED
    BY <2>1, <2>2
<1>2. Min({a, b}) \in {a, b} /\ \A y \in {a, b} : Min({a, b}) <= y
  BY <1>1, Zenon DEF Min
<1> QED
  BY <1>2

LEMMA SizeAssumption ==
    /\ SmallKernel \in Nat /\ MinRegion \in Nat /\ TargetRegion \in Nat /\ MaxRegion \in Nat
    /\ 1 <= TargetRegion /\ TargetRegion <= MaxRegion
  BY TextAssumption

LEMMA PieceFacts ==
    ASSUME kernel \in KernelTexts, NEW b \in Runs, NEW p \in Pieces(b)
    PROVE  p \in Runs /\ Size(p) <= MaxRegion
<1>1. CASE Size(b) <= MaxRegion
  BY <1>1 DEF Pieces
<1>2. CASE ~(Size(b) <= MaxRegion)
  <2>1. PICK i \in Range2(b) : p = <<i, Min({i + TargetRegion - 1, b[2]})>>
    BY <1>2 DEF Pieces
  <2>2. /\ b[1] \in Nat /\ b[2] \in Nat /\ i \in b[1]..b[2] /\ i \in Lines /\ i \in Nat
        /\ Lines = 1..Len(kernel) /\ Len(kernel) \in Nat /\ b[2] \in Lines
    BY RunFactsOf, TextFacts DEF Range2
  <2> PICK last : last = Min({i + TargetRegion - 1, b[2]})
    OBVIOUS
  <2>3. last \in {i + TargetRegion - 1, b[2]} /\ last <= i + TargetRegion - 1 /\ last <= b[2]
    <3>1. i + TargetRegion - 1 \in Int /\ b[2] \in Int
      BY <2>2, SizeAssumption
    <3> QED
      BY <3>1, MinOfTwo
  <2>4. last \in Nat /\ i <= last /\ last - i + 1 <= MaxRegion
    BY <2>2, <2>3, SizeAssumption
  <2>5. p = <<i, last>> /\ last \in Lines
    BY <2>1, <2>2, <2>3, <2>4
  <2> QED
    BY <2>2, <2>4, <2>5 DEF Runs, Size
<1> QED
  BY <1>1, <1>2

LEMMA SpanFacts ==
    ASSUME kernel \in KernelTexts, blocks = Blocks, NEW s \in Spans
    PROVE  LET r == <<s[1][1], s[2][2]>> IN r \in Runs /\ Size(r) <= MaxRegion
<1> DEFINE r == <<s[1][1], s[2][2]>>
<1>1. Len(kernel) \in Nat /\ Lines = 1..Len(kernel)
  BY TextFacts
<1>2. /\ s[1] \in SourceBlocks /\ s[2] \in SourceBlocks /\ s[1][1] <= s[2][1]
      /\ s[1] = s[2] \/ Size(r) <= Min({MaxRegion, Len(kernel)})
  BY DEF Spans
<1>3. ASSUME NEW p \in SourceBlocks
      PROVE  p \in Runs /\ Size(p) <= MaxRegion
  <2>1. PICK b \in Blocks : p \in Pieces(b)
    BY DEF SourceBlocks
  <2>2. b \in Runs
    BY <2>1, BlockFacts DEF Runs
  <2> QED
    BY <2>1, <2>2, PieceFacts
<1>4. /\ s[1] \in Runs /\ s[2] \in Runs /\ Size(s[1]) <= MaxRegion
      /\ s[1] = <<s[1][1], s[1][2]>>
      /\ s[1][1] \in Lines /\ s[2][1] \in Nat /\ s[2][2] \in Lines /\ s[2][1] <= s[2][2]
  BY <1>2, <1>3, RunFactsOf
<1>5. r \in Runs
  BY <1>1, <1>2, <1>4 DEF Runs
<1>6. Min({MaxRegion, Len(kernel)}) <= MaxRegion /\ Min({MaxRegion, Len(kernel)}) \in Int
  BY <1>1, SizeAssumption, MinOfTwo
<1>7. Size(r) <= MaxRegion
  <2>1. CASE s[1] = s[2]
    BY <2>1, <1>4
  <2>2. CASE Size(r) <= Min({MaxRegion, Len(kernel)})
    <3>1. Size(r) \in Nat /\ MaxRegion \in Nat
      BY <1>5, RunFactsOf, SizeAssumption
    <3> HIDE DEF r
    <3> QED
      BY <3>1, <2>2, <1>6
  <2> QED
    BY <2>1, <2>2, <1>2
<1> QED
  BY <1>5, <1>7

LEMMA TrimmedFacts ==
    ASSUME kernel \in KernelTexts, NEW r \in Runs
    PROVE  LET t == Trimmed(r)
           IN  /\ t = <<r[1], t[2]>> /\ t[2] \in Int /\ t[2] <= r[2]
               /\ t[2] = r[1] - 1 \/ (t[2] \in Range2(r) /\ Op(t[2]) \notin NoiseOps)
<1> DEFINE ends == {r[1] - 1} \cup {i \in Range2(r) : Op(i) \notin NoiseOps}
<1>1. r[1] \in Nat /\ r[2] \in Nat /\ r[1] <= r[2]
  BY RunFactsOf
<1>2. ends # {} /\ r[2] \in Int /\ \A x \in ends : x \in Int /\ x =< r[2]
  BY <1>1 DEF Range2
<1> PICK m : m = Max(ends)
  OBVIOUS
<1>3. Trimmed(r) = <<r[1], m>>
  BY DEF Trimmed
<1>4. m \in ends
  <2> HIDE DEF ends
  <2> QED
    BY <1>2, IntervalMax
<1>5. m \in Int /\ m <= r[2] /\ (m = r[1] - 1 \/ (m \in Range2(r) /\ Op(m) \notin NoiseOps))
  BY <1>2, <1>4
<1> QED
  BY <1>3, <1>5

LEMMA RegionFacts ==
    ASSUME kernel \in KernelTexts, blocks = Blocks, NEW r \in Regions
    PROVE  r \in Runs /\ Size(r) <= MaxRegion /\ Op(r[2]) \notin NoiseOps /\ NontrivialRegion(r)
<1>1. PICK s \in Spans : r = Trimmed(<<s[1][1], s[2][2]>>)
  BY DEF Regions
<1>2. PICK w : w = <<s[1][1], s[2][2]>>
  OBVIOUS
<1>3. w \in Runs /\ Size(w) <= MaxRegion /\ r = Trimmed(w)
  BY <1>1, <1>2, SpanFacts
<1>4. /\ r = <<w[1], r[2]>> /\ r[2] \in Int /\ r[2] <= w[2]
      /\ r[2] = w[1] - 1 \/ (r[2] \in Range2(w) /\ Op(r[2]) \notin NoiseOps)
  BY <1>3, TrimmedFacts
<1>5. NontrivialRegion(r)
  BY DEF Regions
<1>6. /\ w[1] \in Nat /\ w[2] \in Nat /\ w[1] \in Lines /\ w[2] \in Lines /\ Range2(w) \subseteq Lines
      /\ Size(w) \in Nat
  BY <1>3, RunFactsOf
<1>7. r[2] # w[1] - 1
  <2> SUFFICES ASSUME r[2] = w[1] - 1 PROVE FALSE
    OBVIOUS
  <2>1. Range2(r) = {}
    BY <1>4, <1>6 DEF Range2
  <2>2. Count(r, UsefulOps) = 0
    BY <2>1, FS_EmptySet DEF Count
  <2> QED
    BY <1>5, <2>2 DEF NontrivialRegion
<1>8. r[2] \in Range2(w) /\ Op(r[2]) \notin NoiseOps
  BY <1>4, <1>7
<1>9. r[1] = w[1] /\ r[2] \in Lines /\ r[1] <= r[2]
  BY <1>4, <1>6, <1>8 DEF Range2
<1>10. r \in Runs
  BY <1>4, <1>6, <1>9 DEF Runs
<1>11. Size(r) <= MaxRegion
  BY <1>3, <1>4, <1>6, <1>9, SizeAssumption DEF Size
<1> QED
  BY <1>5, <1>8, <1>10, <1>11

LEMMA TimesGrows ==
    ASSUME NEW a \in Int, NEW x \in Nat, NEW n \in Nat, x <= n
    PROVE  a * x \in Int /\ (0 - a) * x = 0 - a * x
           /\ 0 - a * x <= (IF a < 0 THEN 0 - a ELSE 0) * n
  OBVIOUS

LEMMA MeasuresAre ==
    ASSUME kernel \in KernelTexts, NEW r \in Runs
    PROVE  /\ ScoreRegion(r) \in Int /\ ScoreRegion(r) <= 18 * Len(kernel)
           /\ Size(r) \in Nat /\ Size(r) <= Len(kernel) /\ Distance(r) \in Nat /\ r[1] \in Nat
           /\ Len(kernel) \in Nat
<1>1. /\ Size(r) \in Nat /\ Size(r) <= Len(kernel) /\ r[1] \in Nat /\ Len(kernel) \in Nat
      /\ TargetRegion \in Nat
  BY RunFactsOf, TextFacts, SizeAssumption
<1>2. ScoreLoop(r, 0, 0) \in Nat /\ ScoreLoop(r, 0, 0) <= 18 * Len(kernel) + 4 * 0 + 2 * 0
  BY ScoreFacts
<1>3. Count(r, NoiseOps) \in Nat /\ Count(r, ControlOps) \in Nat /\ Count(r, TrivialOps) \in Nat
  BY CountFacts
<1> PICK n, s, x, y, z : /\ n = Len(kernel) /\ s = ScoreLoop(r, 0, 0) /\ x = Count(r, NoiseOps)
                         /\ y = Count(r, ControlOps) /\ z = Count(r, TrivialOps)
  OBVIOUS
<1>4. ScoreRegion(r) \in Int /\ ScoreRegion(r) <= 18 * Len(kernel)
  <2>1. ScoreRegion(r) = s - 3 * x - 4 * y - 8 * z
    BY DEF ScoreRegion
  <2>2. n \in Nat /\ s \in Nat /\ x \in Nat /\ y \in Nat /\ z \in Nat /\ s <= 18 * n + 4 * 0 + 2 * 0
    BY <1>1, <1>2, <1>3
  <2>3. s - 3 * x - 4 * y - 8 * z \in Int /\ s - 3 * x - 4 * y - 8 * z <= 18 * n
    BY ONLY <2>2
  <2> QED
    BY <2>1, <2>3
<1>5. Distance(r) \in Nat
  <2> PICK t : t = Min({TargetRegion, Len(kernel)})
    OBVIOUS
  <2>1. t \in Int
    <3>1. TargetRegion \in Int /\ Len(kernel) \in Int
      BY <1>1
    <3>2. t \in {TargetRegion, Len(kernel)}
      BY <3>1, MinOfTwo
    <3> QED
      BY <3>1, <3>2
  <2>2. Distance(r) = LET d == Size(r) - t IN IF d < 0 THEN -d ELSE d
    BY DEF Distance
  <2> QED
    BY <1>1, <2>1, <2>2
<1> QED
  BY <1>1, <1>4, <1>5

\* select_best_region finds a region that no other beats: the keys are maximised in turn.
LEMMA BestOf ==
    ASSUME kernel \in KernelTexts, NEW regions \in SUBSET Runs, regions # {}
    PROVE  \E r \in regions : \A s \in regions : Better(r, s)
<1> PICK n : n = Len(kernel)
  OBVIOUS
<1>1. /\ n \in Nat
      /\ \A r \in regions : /\ ScoreRegion(r) \in Int /\ ScoreRegion(r) <= 18 * n /\ Size(r) \in Nat
                         /\ Size(r) <= n /\ Distance(r) \in Nat /\ r[1] \in Nat
  BY TextFacts, MeasuresAre
<1>2. PICK r1 \in regions : \A s \in regions : ScoreRegion(s) <= ScoreRegion(r1)
  <2> DEFINE f == [x \in regions |-> ScoreRegion(x)]
  <2>1. f \in [regions -> Int] /\ 18 * n \in Int /\ \A x \in regions : f[x] = ScoreRegion(x) /\ f[x] =< 18 * n
    BY <1>1
  <2> HIDE DEF f
  <2> QED
    BY <2>1, Largest
<1> PICK best : best = ScoreRegion(r1)
  OBVIOUS
<1> DEFINE A == {x \in regions : ScoreRegion(x) = best}
<1>3. PICK r2 \in A : \A s \in A : 0 - best * Size(s) <= 0 - best * Size(r2)
  <2> DEFINE f == [x \in A |-> 0 - best * Size(x)]
             bound == (IF best < 0 THEN 0 - best ELSE 0) * n
  <2>1. r1 \in A /\ best \in Int
    BY <1>1
  <2>2. \A x \in A : 0 - best * Size(x) \in Int /\ 0 - best * Size(x) <= bound
    BY <1>1, <2>1, TimesGrows
  <2>3. bound \in Int
    BY <1>1, <2>1
  <2>4. f \in [A -> Int] /\ \A x \in A : f[x] = 0 - best * Size(x)
    BY <2>2
  <2> HIDE DEF f, bound, A
  <2> QED
    BY <2>1, <2>2, <2>3, <2>4, Largest
<1> PICK dense : dense = best * Size(r2)
  OBVIOUS
<1>4. dense \in Int /\ \A s \in A : best * Size(s) \in Int /\ best * Size(s) >= dense
  <2>1. \A s \in A : Size(s) \in Nat /\ best \in Int
    BY <1>1
  <2> HIDE DEF A
  <2>2. \A s \in A : best * Size(s) \in Int
    BY <2>1
  <2> QED
    BY <1>3, <2>2
<1> DEFINE B == {x \in A : best * Size(x) = dense}
<1>5. PICK r3 \in B : \A s \in B : Distance(r3) <= Distance(s)
  <2> DEFINE f == [x \in B |-> 0 - Distance(x)]
  <2>1. r2 \in B
    BY <1>3
  <2>2. \A x \in B : Distance(x) \in Nat
    BY <1>1
  <2> HIDE DEF B
  <2>4. f \in [B -> Int] /\ \A x \in B : f[x] = 0 - Distance(x) /\ f[x] =< 0
    BY <2>2
  <2> HIDE DEF f
  <2>3. PICK x \in B : \A s \in B : f[s] =< f[x]
    BY <2>1, <2>4, Largest
  <2> QED
    BY <2>2, <2>3, <2>4
<1> DEFINE C == {x \in B : Distance(x) = Distance(r3)}
<1>6. PICK r4 \in C : \A s \in C : Size(s) <= Size(r4)
  <2> DEFINE f == [x \in C |-> Size(x)]
  <2>1. r3 \in C
    BY <1>5
  <2>2. f \in [C -> Int] /\ n \in Int /\ \A x \in C : f[x] = Size(x) /\ f[x] =< n
    BY <1>1
  <2> HIDE DEF f, C
  <2> QED
    BY <2>1, <2>2, Largest
<1> DEFINE D == {x \in C : Size(x) = Size(r4)}
<1>7. PICK r \in D : \A s \in D : r[1] <= s[1]
  <2> DEFINE f == [x \in D |-> 0 - x[1]]
  <2>1. r4 \in D
    BY <1>6
  <2>2. \A x \in D : x \in regions
    OBVIOUS
  <2> HIDE DEF D
  <2>3. \A x \in D : x[1] \in Nat
    BY <1>1, <2>2
  <2>4. f \in [D -> Int] /\ \A x \in D : f[x] = 0 - x[1] /\ f[x] =< 0
    BY <2>3
  <2> HIDE DEF f
  <2>5. PICK x \in D : \A s \in D : f[s] =< f[x]
    BY <2>1, <2>4, Largest
  <2>6. ASSUME NEW s \in D PROVE x[1] <= s[1]
    <3>1. f[s] =< f[x] /\ f[s] = 0 - s[1] /\ f[x] = 0 - x[1]
      BY <2>4, <2>5
    <3> QED
      BY <2>3, <3>1
  <2> QED
    BY <2>6
<1>8. /\ r \in regions /\ r \in A /\ r \in B /\ r \in C /\ r \in D /\ best \in Int
      /\ ScoreRegion(r) = best /\ best * Size(r) = dense /\ Distance(r) = Distance(r3)
      /\ Size(r) = Size(r4)
  BY <1>1
<1>9. ASSUME NEW s \in regions
      PROVE  Better(r, s)
  <2>1. CASE ScoreRegion(s) # best
    <3>1. /\ ScoreRegion(s) \in Int /\ ScoreRegion(s) <= best /\ best \in Int
          /\ ScoreRegion(r) = best
      BY <1>1, <1>2, <1>8
    <3>2. ScoreRegion(r) > ScoreRegion(s)
      BY ONLY <3>1, <2>1
    <3> QED
      BY <3>2 DEF Better
  <2>2. CASE s \in A /\ s \notin B
    <3>1. Density(r, s) = best * Size(s) /\ Density(s, r) = dense /\ ScoreRegion(r) = ScoreRegion(s)
      BY <1>8, <2>2 DEF Density
    <3>2. best * Size(s) > dense
      <4>1. best * Size(s) # dense /\ best * Size(s) \in Int /\ best * Size(s) >= dense
        BY <1>4, <2>2
      <4> QED
        BY <1>4, <4>1
    <3> QED
      BY <3>1, <3>2 DEF Better
  <2>3. CASE s \in B
    <3>1. ScoreRegion(r) = ScoreRegion(s) /\ Density(r, s) = Density(s, r)
      BY <1>8, <2>3 DEF Density
    <3>2. \/ Distance(r) < Distance(s)
          \/ /\ Distance(r) = Distance(s)
             /\ Size(r) > Size(s) \/ (Size(r) = Size(s) /\ r[1] <= s[1])
      <4>1. CASE s \notin C
        <5>1. Distance(s) # Distance(r3) /\ Distance(r3) <= Distance(s)
          BY <1>5, <2>3, <4>1
        <5>2. Distance(s) \in Nat /\ Distance(r3) \in Nat /\ Distance(r) = Distance(r3)
          BY <1>1, <1>8
        <5> QED
          BY <5>1, <5>2
      <4>2. CASE s \in C /\ s \notin D
        <5>1. Size(s) # Size(r4) /\ Size(s) <= Size(r4)
          BY <1>6, <4>2
        <5>2. Size(s) \in Nat /\ Size(r4) \in Nat /\ Size(r) = Size(r4)
          BY <1>1, <1>8
        <5>3. Distance(r) = Distance(s)
          BY <1>8, <4>2
        <5> QED
          BY <5>1, <5>2, <5>3
      <4>3. CASE s \in D
        BY <1>7, <1>8, <4>3
      <4> QED
        BY <2>3, <4>1, <4>2, <4>3
    <3> QED
      BY <3>1, <3>2 DEF Better
  <2> QED
    BY <2>1, <2>2, <2>3
<1> QED
  BY <1>8, <1>9

LEMMA BestRegionFacts ==
    ASSUME kernel \in KernelTexts, blocks = Blocks, Regions # {}
    PROVE  BestRegion \in Regions
<1> DEFINE eligible == {r \in Regions : Size(r) >= Min({MinRegion, Len(kernel)})}
<1> PICK regions : regions = IF eligible # {} THEN eligible ELSE Regions
  OBVIOUS
<1>1. regions # {} /\ regions \subseteq Regions
  OBVIOUS
<1>2. regions \in SUBSET Runs
  BY <1>1, RegionFacts
<1>3. BestRegion = CHOOSE r \in regions : \A s \in regions : Better(r, s)
  BY DEF BestRegion
<1>4. BestRegion \in regions
  BY <1>1, <1>2, <1>3, BestOf
<1> QED
  BY <1>1, <1>4

\* What MainLoopSound says, of the result of extract_main_loop.
LEMMA MainLoopIs ==
    ASSUME kernel \in KernelTexts, blocks = Blocks
    PROVE  IF Loops # {} THEN MainLoop \in Loops /\ Depth(MainLoop) = 0
           ELSE \/ MainLoop = <<1, Len(kernel)>>
                \/ /\ MainLoop \in Runs /\ Len(kernel) > SmallKernel /\ Size(MainLoop) <= MaxRegion
                   /\ Op(MainLoop[2]) \notin NoiseOps /\ NontrivialRegion(MainLoop)
<1>1. CASE Loops # {}
  <2>1. MainLoop = BestLoop
    BY <1>1 DEF MainLoop
  <2> QED
    BY <1>1, <2>1, BestLoopFacts
<1>2. CASE Loops = {} /\ Len(kernel) > SmallKernel /\ Regions # {}
  <2>1. MainLoop = BestRegion
    BY <1>2 DEF MainLoop
  <2>2. MainLoop \in Regions
    BY <1>2, <2>1, BestRegionFacts
  <2> QED
    BY <1>2, <2>2, RegionFacts
<1>3. CASE Loops = {} /\ ~(Len(kernel) > SmallKernel /\ Regions # {})
  <2>1. MainLoop = <<1, Len(kernel)>>
    BY <1>3 DEF MainLoop
  <2> QED
    BY <1>3, <2>1
<1> QED
  BY <1>1, <1>2, <1>3
-----------------------------------------------------------------------------
(* sass_tokens.py and normalize.py *)

\* A loop over 1..last that starts from a; its turn n makes F[<<n, x>>] of x.
LoopOver(X, a, last, F) == a \in X /\ last \in Nat /\ F \in [(1..last) \X X -> X]

\* Such a loop has a result after each turn.
LEMMA RecursionExists ==
    ASSUME NEW X, NEW a, NEW last, NEW F, LoopOver(X, a, last, F)
    PROVE  \E f \in [0..last -> X] : f[0] = a /\ \A n \in 1..last : f[n] = F[<<n, f[n - 1]>>]
<1>0. a \in X /\ last \in Nat /\ F \in [(1..last) \X X -> X]
  BY DEF LoopOver
<1> DEFINE P(f, m) == f \in [0..m -> X] /\ f[0] = a /\ \A n \in 1..m : f[n] = F[<<n, f[n - 1]>>]
           S == {m \in Nat : m <= last => \E f : P(f, m)}
<1>1. 0 \in S
  <2> DEFINE f == [n \in 0..0 |-> a]
  <2>1. P(f, 0)
    BY <1>0
  <2> QED
    BY <2>1
<1>2. ASSUME NEW m \in Nat, m \in S
      PROVE  m + 1 \in S
  <2> SUFFICES ASSUME m + 1 <= last
               PROVE  \E f : P(f, m + 1)
    OBVIOUS
  <2>1. PICK f : P(f, m)
    BY <1>0, <1>2
  <2> DEFINE g == [n \in 0..(m + 1) |-> IF n = m + 1 THEN F[<<n, f[m]>>] ELSE f[n]]
  <2>2. f[m] \in X /\ m + 1 \in 1..last
    BY <1>0, <2>1
  <2>3. F[<<m + 1, f[m]>>] \in X
    BY <1>0, <2>2
  <2>4. g \in [0..(m + 1) -> X] /\ \A n \in 0..m : g[n] = f[n]
    BY <2>1, <2>3
  <2>5. g[m + 1] = F[<<m + 1, f[m]>>] /\ g[0] = a
    BY <2>1, <2>4
  <2> HIDE DEF g
  <2>6. ASSUME NEW n \in 1..(m + 1)
        PROVE  g[n] = F[<<n, g[n - 1]>>]
    <3>1. CASE n = m + 1
      <4>1. n - 1 = m /\ m \in 0..m
        BY <3>1
      <4>2. g[n - 1] = f[m]
        BY <4>1, <2>4
      <4> QED
        BY <3>1, <4>2, <2>5
    <3>2. CASE n # m + 1
      <4>1. n \in 1..m /\ n \in 0..m /\ n - 1 \in 0..m
        BY <3>2
      <4>2. g[n] = f[n] /\ g[n - 1] = f[n - 1]
        BY <4>1, <2>4
      <4> QED
        BY <4>1, <4>2, <2>1
    <3> QED
      BY <3>1, <3>2
  <2> QED
    BY <2>4, <2>5, <2>6
<1> HIDE DEF S
<1>3. last \in S
  BY <1>0, <1>1, <1>2, NatSetInduction
<1> QED
  BY <1>0, <1>3 DEF S

\* Two runs of such a loop agree as long as they do the same.
InStep(f, g, last) ==
    f[0] = g[0] /\ \A n \in 1..last : f[n - 1] = g[n - 1] => f[n] = g[n]

LEMMA SameRecursion ==
    ASSUME NEW last \in Nat, NEW f, NEW g, InStep(f, g, last)
    PROVE  \A n \in 0..last : f[n] = g[n]
<1>0. f[0] = g[0] /\ \A n \in 1..last : f[n - 1] = g[n - 1] => f[n] = g[n]
  BY DEF InStep
<1> DEFINE S == {n \in Nat : n <= last => f[n] = g[n]}
<1>1. 0 \in S
  BY <1>0
<1>2. ASSUME NEW n \in Nat, n \in S
      PROVE  n + 1 \in S
  <2> SUFFICES ASSUME n + 1 <= last PROVE f[n + 1] = g[n + 1]
    OBVIOUS
  <2>1. f[n] = g[n] /\ n + 1 \in 1..last /\ n + 1 - 1 = n
    BY <1>2
  <2> QED
    BY <1>0, <2>1
<1> HIDE DEF S
<1>3. \A n \in Nat : n \in S
  BY <1>1, <1>2, NatSetInduction
<1> QED
  BY <1>3 DEF S

LEMMA PrefixIs ==
    ASSUME NEW S, NEW s \in Seq(S), NEW n \in 0..Len(s)
    PROVE  /\ SubSeq(s, 1, n) \in Seq(S) /\ Len(SubSeq(s, 1, n)) = n
           /\ \A k \in 1..n : SubSeq(s, 1, n)[k] = s[k]
           /\ SubSeq(SubSeq(s, 1, n), 1, n) = SubSeq(s, 1, n)
<1>1. /\ SubSeq(s, 1, n) \in Seq(S) /\ Len(SubSeq(s, 1, n)) = n
      /\ \A k \in 1..n : SubSeq(s, 1, n)[k] = s[k]
  OBVIOUS
<1> QED
  BY <1>1

\* The sums that Cost adds up.
Sums(f, s) ==
    /\ f \in [0..Len(s) -> Nat] /\ f[0] = 0
    /\ \A n \in 1..Len(s) : f[n] = f[n - 1] + kernel[s[n]].cost

LEMMA CostIs ==
    ASSUME kernel \in KernelTexts, NEW s \in Seq(Lines)
    PROVE  \E f : Sums(f, s) /\ Cost(s) = f[Len(s)]
<1> PICK last : last = Len(s)
  OBVIOUS
<1>1. last \in Nat /\ \A n \in 1..last : s[n] \in Lines /\ kernel[s[n]].cost \in Nat
  BY TextFacts
<1> DEFINE F == [p \in (1..last) \X Nat |-> p[2] + kernel[s[p[1]]].cost]
           Is(f) == f = [n \in 0..Len(s) |-> IF n = 0 THEN 0 ELSE f[n - 1] + kernel[s[n]].cost]
<1>2. F \in [(1..last) \X Nat -> Nat]
  BY <1>1
<1>3. PICK f \in [0..last -> Nat] : f[0] = 0 /\ \A n \in 1..last : f[n] = F[<<n, f[n - 1]>>]
  <2> HIDE DEF F
  <2>1. LoopOver(Nat, 0, last, F)
    BY <1>1, <1>2 DEF LoopOver
  <2> QED
    BY <2>1, RecursionExists
<1>4. Is(f)
  <2>1. ASSUME NEW n \in 1..last PROVE f[n] = f[n - 1] + kernel[s[n]].cost
    <3>1. n - 1 \in 0..last
      BY <1>1
    <3>2. f[n - 1] \in Nat
      BY <1>3, <3>1
    <3> QED
      BY <1>3, <3>2
  <2> HIDE DEF F
  <2> QED
    BY <1>1, <1>3, <2>1
<1> DEFINE g == CHOOSE x : Is(x)
<1>5. Cost(s) = g[Len(s)]
  BY DEF Cost
<1>6. Is(g)
  <2> HIDE DEF Is
  <2> QED
    BY <1>4
<1> HIDE DEF g
<1>7. g[0] = 0 /\ \A n \in 1..last : g[n] = g[n - 1] + kernel[s[n]].cost
  <2>1. g = [n \in 0..Len(s) |-> IF n = 0 THEN 0 ELSE g[n - 1] + kernel[s[n]].cost]
    BY <1>6
  <2> HIDE DEF Is
  <2> QED
    BY <1>1, <2>1
<1>8. f[0] = 0 /\ \A n \in 1..last : f[n] = f[n - 1] + kernel[s[n]].cost
  BY <1>1, <1>4
<1>9. \A n \in 0..last : f[n] = g[n]
  <2>1. InStep(f, g, last)
    BY <1>7, <1>8 DEF InStep
  <2> QED
    BY <1>1, <2>1, SameRecursion
<1>10. f[last] = g[last] /\ Sums(f, s)
  BY <1>1, <1>3, <1>8, <1>9 DEF Sums
<1> QED
  BY <1>5, <1>10

LEMMA CostFacts ==
    ASSUME kernel \in KernelTexts
    PROVE  Cost(<<>>) = 0 /\ \A s \in Seq(Lines) : Cost(s) \in Nat
<1>1. <<>> \in Seq(Lines) /\ Len(<<>>) = 0
  OBVIOUS
<1>2. PICK f : Sums(f, <<>>) /\ Cost(<<>>) = f[Len(<<>>)]
  BY <1>1, CostIs
<1>3. Cost(<<>>) = 0
  BY <1>1, <1>2 DEF Sums
<1>4. ASSUME NEW s \in Seq(Lines) PROVE Cost(s) \in Nat
  <2>1. PICK g : Sums(g, s) /\ Cost(s) = g[Len(s)]
    BY CostIs
  <2>2. Len(s) \in 0..Len(s)
    OBVIOUS
  <2> QED
    BY <2>1, <2>2 DEF Sums
<1> QED
  BY <1>3, <1>4

LEMMA CostAppend ==
    ASSUME kernel \in KernelTexts, NEW s \in Seq(Lines), NEW i \in Lines
    PROVE  Cost(Append(s, i)) = Cost(s) + kernel[i].cost
<1> DEFINE t == Append(s, i)
<1>1. t \in Seq(Lines) /\ Len(t) = Len(s) + 1 /\ t[Len(t)] = i /\ Len(s) \in Nat
      /\ \A n \in 1..Len(s) : t[n] = s[n]
  BY AppendProperties
<1> HIDE DEF t
<1>2. PICK f : Sums(f, s) /\ Cost(s) = f[Len(s)]
  BY CostIs
<1>3. PICK g : Sums(g, t) /\ Cost(t) = g[Len(t)]
  BY <1>1, CostIs
<1>4. /\ f[0] = g[0] /\ \A n \in 1..Len(s) : f[n] = f[n - 1] + kernel[s[n]].cost
      /\ \A n \in 1..Len(t) : g[n] = g[n - 1] + kernel[t[n]].cost
  BY <1>2, <1>3 DEF Sums
<1>5. InStep(f, g, Len(s))
  <2>1. \A n \in 1..Len(s) : n \in 1..Len(t) /\ t[n] = s[n]
    BY <1>1
  <2> QED
    BY <1>4, <2>1 DEF InStep
<1>6. \A n \in 0..Len(s) : f[n] = g[n]
  BY <1>1, <1>5, SameRecursion
<1>7. f[Len(s)] = g[Len(s)] /\ g[Len(t)] = g[Len(s)] + kernel[i].cost
  <2>1. Len(s) \in 0..Len(s) /\ Len(t) \in 1..Len(t) /\ Len(t) - 1 = Len(s)
    BY <1>1
  <2>2. f[Len(s)] = g[Len(s)]
    BY <1>6, <2>1
  <2>3. \A n \in 1..Len(t) : g[n] = g[n - 1] + kernel[t[n]].cost
    BY <1>4
  <2> QED
    BY <1>1, <2>1, <2>2, <2>3
<1>8. Cost(t) = Cost(s) + kernel[i].cost
  BY <1>2, <1>3, <1>7
<1> QED
  BY <1>8 DEF t

\* A beginning costs no more than the whole.
LEMMA CostOfPrefix ==
    ASSUME kernel \in KernelTexts, NEW s \in Seq(Lines), NEW n \in 0..Len(s)
    PROVE  SubSeq(s, 1, n) \in Seq(Lines) /\ Cost(SubSeq(s, 1, n)) <= Cost(s)
<1>1. Len(s) \in Nat /\ \A m \in 1..Len(s) : s[m] \in Lines /\ kernel[s[m]].cost \in Nat
  BY TextFacts
<1>2. \A m \in 0..Len(s) : SubSeq(s, 1, m) \in Seq(Lines) /\ Len(SubSeq(s, 1, m)) = m
  BY <1>1, SubSeqProperties
<1> DEFINE S == {k \in Nat : k <= Len(s) => Cost(SubSeq(s, 1, Len(s) - k)) <= Cost(s)}
<1>3. 0 \in S
  <2>1. SubSeq(s, 1, Len(s)) = s /\ Len(s) - 0 = Len(s)
    BY <1>1
  <2>2. Cost(s) \in Nat
    BY CostFacts
  <2> PICK all : all = Len(s) - 0
    OBVIOUS
  <2>3. SubSeq(s, 1, all) = s
    BY <2>1
  <2>4. Cost(SubSeq(s, 1, all)) = Cost(s)
    BY <2>3, Zenon
  <2> QED
    BY <2>2, <2>4
<1>4. ASSUME NEW k \in Nat, k \in S
      PROVE  k + 1 \in S
  <2> SUFFICES ASSUME k + 1 <= Len(s)
               PROVE  Cost(SubSeq(s, 1, Len(s) - (k + 1))) <= Cost(s)
    OBVIOUS
  <2> PICK m : m = Len(s) - (k + 1)
    OBVIOUS
  <2>1. m \in 0..Len(s) /\ m + 1 \in 1..Len(s) /\ m + 1 = Len(s) - k
    BY <1>1
  <2>2. SubSeq(s, 1, m + 1) = Append(SubSeq(s, 1, m), s[m + 1])
    BY <1>1, <2>1
  <2>3. Cost(SubSeq(s, 1, m + 1)) = Cost(SubSeq(s, 1, m)) + kernel[s[m + 1]].cost
    BY <1>1, <1>2, <2>1, <2>2, CostAppend
  <2>4. Cost(SubSeq(s, 1, m + 1)) <= Cost(s)
    BY <1>4, <2>1
  <2>5. Cost(SubSeq(s, 1, m)) \in Nat /\ Cost(s) \in Nat /\ kernel[s[m + 1]].cost \in Nat
    BY <1>1, <1>2, <2>1, CostFacts
  <2> QED
    BY <2>3, <2>4, <2>5
<1> HIDE DEF S
<1>5. \A k \in Nat : k \in S
  BY <1>3, <1>4, NatSetInduction
<1>6. Len(s) - n \in Nat /\ Len(s) - n <= Len(s) /\ Len(s) - (Len(s) - n) = n
  BY <1>1
<1>7. Cost(SubSeq(s, 1, Len(s) - (Len(s) - n))) <= Cost(s)
  BY <1>5, <1>6 DEF S
<1> QED
  BY <1>2, <1>6, <1>7

LEMMA TruncateFacts ==
    ASSUME kernel \in KernelTexts, NEW s \in Seq(Lines), NEW budget \in Int
    PROVE  LET t == TruncateTo(s, budget)
           IN  /\ t \in Seq(Lines) /\ IsPrefix(t, s)
               /\ t # <<>> \/ budget \in Nat => Cost(t) <= budget
<1> DEFINE fits == {n \in 0..Len(s) : n = 0 \/ Cost(SubSeq(s, 1, n)) <= budget}
<1>1. Len(s) \in Nat
  OBVIOUS
<1>2. fits # {} /\ Len(s) \in Int /\ \A n \in fits : n \in Int /\ n =< Len(s)
  <2>1. 0 \in fits
    BY <1>1
  <2> QED
    BY <1>1, <2>1
<1> PICK n : n = Max(fits)
  OBVIOUS
<1>3. n \in fits
  <2> HIDE DEF fits
  <2> QED
    BY <1>2, IntervalMax
<1> PICK t : t = SubSeq(s, 1, n)
  OBVIOUS
<1>4. TruncateTo(s, budget) = t
  BY DEF TruncateTo
<1>5. n \in 0..Len(s) /\ (n = 0 \/ Cost(t) <= budget)
  BY <1>3
<1>6. t \in Seq(Lines) /\ Len(t) = n
  BY <1>5, PrefixIs
<1>7. IsPrefix(t, s)
  <2>1. SubSeq(t, 1, n) = t
    BY <1>5, PrefixIs
  <2>2. SubSeq(s, 1, n) = t
    OBVIOUS
  <2>3. SubSeq(t, 1, Len(t)) = SubSeq(s, 1, Len(t))
    BY <1>6, <2>1, <2>2, Zenon
  <2>4. Len(t) <= Len(s)
    BY <1>5, <1>6
  <2> QED
    BY <2>3, <2>4, Zenon DEF IsPrefix
<1>8. n = 0 => t = <<>>
  BY <1>6, EmptySeq
<1>9. t # <<>> \/ budget \in Nat => Cost(t) <= budget
  <2>1. CASE n = 0
    <3>1. t = <<>> /\ Cost(<<>>) = 0
      BY <1>8, <2>1, CostFacts
    <3>2. Cost(t) = 0
      BY <3>1, Zenon
    <3> QED
      BY <3>1, <3>2
  <2>2. CASE n # 0
    BY <1>5, <2>2
  <2> QED
    BY <2>1, <2>2
<1> QED
  BY <1>4, <1>6, <1>7, <1>9

\* The text that normalize_sass has after each line.
LEMMA NormalizedFacts ==
    ASSUME kernel \in KernelTexts, NEW r, r \in Runs \/ r = <<1, Len(kernel)>>
    PROVE  NormalizedLines(r) \in Seq(Lines)
<1> PICK last : last = Size(r)
  OBVIOUS
<1>1. last \in Nat /\ \A n \in 1..last : r[1] + n - 1 \in Lines
  <2>1. Len(kernel) \in Nat /\ Lines = 1..Len(kernel)
    BY TextFacts
  <2>2. CASE r \in Runs
    <3>1. /\ r[1] \in Nat /\ r[2] \in Nat /\ r[1] \in Lines /\ r[2] \in Lines /\ r[1] <= r[2]
      BY <2>2, RunFactsOf
    <3> QED
      BY <2>1, <3>1 DEF Size
  <2>3. CASE r = <<1, Len(kernel)>>
    BY <2>1, <2>3 DEF Size
  <2> QED
    BY <2>2, <2>3
<1> DEFINE F == [p \in (1..last) \X Seq(Lines) |->
                   IF Op(r[1] + p[1] - 1) = "NOP" THEN p[2] ELSE Append(p[2], r[1] + p[1] - 1)]
           Is(f) == f = [n \in 0..Size(r) |->
                           IF n = 0 THEN <<>>
                           ELSE IF Op(r[1] + n - 1) = "NOP" THEN f[n - 1]
                                ELSE Append(f[n - 1], r[1] + n - 1)]
<1>2. LoopOver(Seq(Lines), <<>>, last, F)
  BY <1>1 DEF LoopOver
<1>3. PICK f \in [0..last -> Seq(Lines)] : f[0] = <<>> /\ \A n \in 1..last : f[n] = F[<<n, f[n - 1]>>]
  <2> HIDE DEF F
  <2> QED
    BY <1>2, RecursionExists
<1>4. Is(f)
  <2>1. ASSUME NEW n \in 1..last
        PROVE  f[n] = IF Op(r[1] + n - 1) = "NOP" THEN f[n - 1] ELSE Append(f[n - 1], r[1] + n - 1)
    <3>1. n - 1 \in 0..last
      BY <1>1
    <3>2. f[n - 1] \in Seq(Lines)
      BY <1>3, <3>1
    <3> QED
      BY <1>3, <3>2
  <2> HIDE DEF F
  <2>2. \A n \in 0..last : n = 0 \/ n \in 1..last
    BY <1>1
  <2> QED
    BY <1>3, <2>1, <2>2
<1> DEFINE g == CHOOSE x : Is(x)
<1>5. NormalizedLines(r) = g[Size(r)]
  BY DEF NormalizedLines
<1>6. Is(g)
  <2> HIDE DEF Is
  <2> QED
    BY <1>4
<1> HIDE DEF g
<1>7. \A n \in 0..last : f[n] = g[n]
  <2>1. f[0] = <<>> /\ g[0] = <<>>
    BY <1>1, <1>4, <1>6
  <2>2. ASSUME NEW n \in 1..last, f[n - 1] = g[n - 1]
        PROVE  f[n] = g[n]
    <3>1. n \in 0..Size(r) /\ n # 0
      BY <1>1
    <3>2. f[n] = IF Op(r[1] + n - 1) = "NOP" THEN f[n - 1] ELSE Append(f[n - 1], r[1] + n - 1)
      BY <1>4, <3>1
    <3>3. g[n] = IF Op(r[1] + n - 1) = "NOP" THEN g[n - 1] ELSE Append(g[n - 1], r[1] + n - 1)
      BY <1>6, <3>1
    <3> QED
      BY <2>2, <3>2, <3>3
  <2>3. InStep(f, g, last)
    BY <2>1, <2>2 DEF InStep
  <2> QED
    BY <1>1, <2>3, SameRecursion
<1> QED
  BY <1>1, <1>3, <1>5, <1>7
-----------------------------------------------------------------------------
(* The segments of workload_sass.py. *)

\* What FlattenSeq has after each of the sequences.
Joined(f, ss) ==
    /\ f \in [0..Len(ss) -> Seq(Lines)] /\ f[0] = <<>>
    /\ \A n \in 1..Len(ss) : f[n] = f[n - 1] \o ss[n]

LEMMA FlattenIs ==
    ASSUME NEW ss \in Seq(Seq(Lines))
    PROVE  \E f : Joined(f, ss) /\ FlattenSeq(ss) = f[Len(ss)]
<1> PICK last : last = Len(ss)
  OBVIOUS
<1>1. last \in Nat /\ \A n \in 1..last : ss[n] \in Seq(Lines)
  OBVIOUS
<1> DEFINE F == [p \in (1..last) \X Seq(Lines) |-> p[2] \o ss[p[1]]]
           Is(f) == f = [i \in 1..Len(ss) |-> IF i = 1 THEN ss[i] ELSE f[i - 1] \o ss[i]]
<1>2. LoopOver(Seq(Lines), <<>>, last, F)
  BY <1>1 DEF LoopOver
<1>3. PICK f \in [0..last -> Seq(Lines)] : f[0] = <<>> /\ \A n \in 1..last : f[n] = F[<<n, f[n - 1]>>]
  <2> HIDE DEF F
  <2> QED
    BY <1>2, RecursionExists
<1>4. \A n \in 1..last : f[n] = f[n - 1] \o ss[n]
  <2> TAKE n \in 1..last
  <2>1. n - 1 \in 0..last
    BY <1>1
  <2>2. f[n - 1] \in Seq(Lines)
    BY <1>3, <2>1
  <2> QED
    BY <1>3, <2>2
<1> HIDE DEF F
<1>5. Joined(f, ss)
  BY <1>3, <1>4 DEF Joined
<1>8. 1 \in 1..last => f[1] = ss[1]
  <2> SUFFICES ASSUME 1 \in 1..last PROVE f[1] = ss[1]
    OBVIOUS
  <2>0. 1 - 1 = 0
    OBVIOUS
  <2>1. f[1] = f[1 - 1] \o ss[1]
    BY <1>4, Zenon
  <2>2. ss[1] \in Seq(Lines)
    BY <1>1, Zenon
  <2>3. f[1 - 1] = <<>>
    BY <1>3, <2>0, Zenon
  <2>4. f[1] = <<>> \o ss[1]
    BY <2>1, <2>3, Zenon
  <2> QED
    BY <2>4, <2>2
<1>6. CASE last = 0
  <2>1. FlattenSeq(ss) = ss
    BY <1>6 DEF FlattenSeq
  <2>2. ss = <<>>
    BY <1>6, EmptySeq
  <2> QED
    BY <1>3, <1>5, <1>6, <2>1, <2>2
<1>7. CASE last # 0
  <2> DEFINE h == [i \in 1..last |-> f[i]]
  <2>1. Is(h)
    <3>1. ASSUME NEW i \in 1..last
          PROVE  h[i] = IF i = 1 THEN ss[i] ELSE h[i - 1] \o ss[i]
      <4>1. CASE i = 1
        <5> QED
          BY <1>8, <4>1
      <4>2. CASE i # 1
        <5>1. i - 1 \in 1..last
          BY <1>1, <4>2
        <5> QED
          BY <1>4, <4>2, <5>1
      <4> QED
        BY <4>1, <4>2
    <3> HIDE DEF h
    <3>2. h = [i \in 1..last |-> h[i]]
      BY DEF h
    <3> QED
      BY <3>1, <3>2
  <2> DEFINE g == CHOOSE x : Is(x)
  <2>2. FlattenSeq(ss) = g[Len(ss)]
    BY <1>7 DEF FlattenSeq
  <2>3. Is(g)
    <3> HIDE DEF Is, h
    <3> QED
      BY <2>1
  <2> HIDE DEF g
  <2>4. g = [i \in 1..last |-> IF i = 1 THEN ss[i] ELSE g[i - 1] \o ss[i]]
    BY <2>3
  <2> HIDE DEF Is
  <2> DEFINE k == [i \in 0..last |-> IF i = 0 THEN <<>> ELSE g[i]]
  <2>5. k[0] = <<>> /\ \A n \in 1..last : k[n] = g[n]
    BY <1>1
  <2> HIDE DEF k
  <2>6. InStep(f, k, last)
    <3>1. ASSUME NEW n \in 1..last, f[n - 1] = k[n - 1]
          PROVE  f[n] = k[n]
      <4>1. CASE n = 1
        <5>1. g[1] = ss[1]
          BY <2>4, <4>1
        <5> QED
          BY <1>8, <2>5, <4>1, <5>1
      <4>2. CASE n # 1
        <5>1. n - 1 \in 1..last
          BY <1>1, <4>2
        <5>2. g[n] = g[n - 1] \o ss[n] /\ k[n] = g[n] /\ k[n - 1] = g[n - 1]
          BY <2>4, <2>5, <4>2, <5>1
        <5> QED
          BY <1>4, <3>1, <5>2
      <4> QED
        BY <4>1, <4>2
    <3> QED
      BY <1>3, <2>5, <3>1 DEF InStep
  <2>7. \A n \in 0..last : f[n] = k[n]
    BY <1>1, <2>6, SameRecursion
  <2>8. f[last] = g[last]
    BY <1>1, <1>7, <2>5, <2>7
  <2> QED
    BY <1>5, <2>2, <2>8
<1> QED
  BY <1>6, <1>7

LEMMA FlattenAppend ==
    ASSUME NEW ss \in Seq(Seq(Lines)), NEW x \in Seq(Lines)
    PROVE  /\ FlattenSeq(ss) \in Seq(Lines)
           /\ FlattenSeq(Append(ss, x)) = FlattenSeq(ss) \o x
<1> DEFINE t == Append(ss, x)
<1>1. t \in Seq(Seq(Lines)) /\ Len(t) = Len(ss) + 1 /\ t[Len(t)] = x /\ Len(ss) \in Nat
      /\ \A n \in 1..Len(ss) : t[n] = ss[n]
  BY AppendProperties
<1> HIDE DEF t
<1>2. PICK f : Joined(f, ss) /\ FlattenSeq(ss) = f[Len(ss)]
  BY FlattenIs
<1>3. PICK g : Joined(g, t) /\ FlattenSeq(t) = g[Len(t)]
  BY <1>1, FlattenIs
<1>4. /\ f[0] = g[0] /\ \A n \in 1..Len(ss) : f[n] = f[n - 1] \o ss[n]
      /\ \A n \in 1..Len(t) : g[n] = g[n - 1] \o t[n]
  BY <1>2, <1>3 DEF Joined
<1>5. InStep(f, g, Len(ss))
  <2>0. Len(ss) \in Nat /\ Len(t) = Len(ss) + 1 /\ \A n \in 1..Len(ss) : t[n] = ss[n]
    BY <1>1
  <2> PICK last, more : last = Len(ss) /\ more = Len(t)
    OBVIOUS
  <2>3. last \in Nat /\ more = last + 1
    BY <2>0
  <2>4. \A n \in 1..last : n \in 1..more
    BY ONLY <2>3
  <2>1. \A n \in 1..Len(ss) : n \in 1..Len(t) /\ t[n] = ss[n]
    BY <2>0, <2>4, Zenon
  <2> QED
    BY <1>4, <2>1 DEF InStep
<1>6. \A n \in 0..Len(ss) : f[n] = g[n]
  BY <1>1, <1>5, SameRecursion
<1>7. f[Len(ss)] = g[Len(ss)] /\ g[Len(t)] = g[Len(ss)] \o x /\ f[Len(ss)] \in Seq(Lines)
  <2>1. Len(ss) \in 0..Len(ss) /\ Len(t) \in 1..Len(t) /\ Len(t) - 1 = Len(ss)
    BY <1>1
  <2>2. f[Len(ss)] = g[Len(ss)]
    BY <1>6, <2>1
  <2>3. \A n \in 1..Len(t) : g[n] = g[n - 1] \o t[n]
    BY <1>4
  <2>4. f[Len(ss)] \in Seq(Lines)
    BY <1>2, <2>1 DEF Joined
  <2> QED
    BY <1>1, <2>1, <2>2, <2>3, <2>4
<1>8. FlattenSeq(t) = FlattenSeq(ss) \o x
  BY <1>2, <1>3, <1>7
<1> QED
  BY <1>2, <1>7, <1>8 DEF t

\* A cut has at least one piece, the last of which may still be empty.
Cuts == {acc \in Seq(Seq(Lines)) : acc # <<>>}

LEMMA LastOfCut ==
    ASSUME NEW front \in Seq(Seq(Lines)), NEW piece \in Seq(Lines)
    PROVE  Front(Append(front, piece)) = front /\ Last(Append(front, piece)) = piece
<1> PICK t : t = Append(front, piece)
  OBVIOUS
<1>1. /\ t \in Seq(Seq(Lines)) /\ Len(t) = Len(front) + 1 /\ t[Len(t)] = piece /\ Len(front) \in Nat
      /\ \A n \in 1..Len(front) : t[n] = front[n]
  BY AppendProperties
<1>2. SubSeq(t, 1, Len(front)) = front
  BY <1>1
<1>3. Len(t) - 1 = Len(front)
  BY <1>1
<1>4. Front(t) = front
  BY <1>2, <1>3 DEF Front
<1>5. Last(t) = piece
  BY <1>1 DEF Last
<1> QED
  BY <1>4, <1>5

LEMMA LongerPrefix ==
    ASSUME NEW S, NEW s \in Seq(S), NEW n \in Nat, n + 1 \in 1..Len(s)
    PROVE  SubSeq(s, 1, n + 1) = Append(SubSeq(s, 1, n), s[n + 1])
OBVIOUS

LEMMA CutParts ==
    ASSUME NEW acc \in Cuts
    PROVE  \E front \in Seq(Seq(Lines)), piece \in Seq(Lines) : acc = Append(front, piece)
<1>1. acc \in Seq(Seq(Lines)) /\ Len(acc) \in Nat /\ Len(acc) # 0
  BY EmptySeq DEF Cuts
<1> PICK n : n = Len(acc) - 1
  OBVIOUS
<1>2. n \in 0..Len(acc) /\ n + 1 = Len(acc) /\ n + 1 \in 1..Len(acc)
  BY <1>1
<1>3. acc[n + 1] \in Seq(Lines)
  BY <1>1, <1>2
<1>4. SubSeq(acc, 1, n + 1) = Append(SubSeq(acc, 1, n), acc[n + 1])
  <2>1. n \in Nat
    BY <1>1, <1>2
  <2> QED
    BY <1>1, <1>2, <2>1, LongerPrefix, Zenon
<1>5. SubSeq(acc, 1, n + 1) = acc /\ SubSeq(acc, 1, n) \in Seq(Seq(Lines))
  BY <1>1, <1>2
<1> QED
  BY <1>3, <1>4, <1>5, Zenon

LEMMA AddLineIs ==
    ASSUME NEW front \in Seq(Seq(Lines)), NEW piece \in Seq(Lines), NEW i \in Lines
    PROVE  LET acc == Append(front, piece)
           IN  /\ piece # <<>> /\ Cost(piece) + kernel[i].cost > PieceBudget =>
                    AddLine(acc, i) = Append(acc, <<i>>)
               /\ piece = <<>> \/ ~(Cost(piece) + kernel[i].cost > PieceBudget) =>
                    AddLine(acc, i) = Append(front, Append(piece, i))
<1> PICK acc : acc = Append(front, piece)
  OBVIOUS
<1>1. Front(acc) = front /\ Last(acc) = piece
  BY LastOfCut
<1>2. TooMuch(Cost(Last(acc)) + kernel[i].cost) <=> Cost(piece) + kernel[i].cost > PieceBudget
  <2>1. Cost(Last(acc)) = Cost(piece)
    BY <1>1, Zenon
  <2> QED
    BY <2>1 DEF TooMuch
<1>3. AddLine(acc, i) = IF piece # <<>> /\ Cost(piece) + kernel[i].cost > PieceBudget
                        THEN Append(acc, <<i>>) ELSE Append(front, Append(piece, i))
  BY <1>1, <1>2, Zenon DEF AddLine
<1> QED
  BY <1>3, Zenon

LEMMA AddLineCuts ==
    ASSUME NEW acc \in Cuts, NEW i \in Lines
    PROVE  AddLine(acc, i) \in Cuts
<1>1. PICK front \in Seq(Seq(Lines)), piece \in Seq(Lines) : acc = Append(front, piece)
  BY CutParts
<1>2. AddLine(acc, i) = Append(acc, <<i>>) \/ AddLine(acc, i) = Append(front, Append(piece, i))
  BY <1>1, AddLineIs, Zenon
<1>3. <<i>> \in Seq(Lines) /\ Append(piece, i) \in Seq(Lines) /\ acc \in Seq(Seq(Lines))
  BY DEF Cuts
<1>4. ASSUME NEW ss \in Seq(Seq(Lines)), NEW x \in Seq(Lines)
      PROVE  Append(ss, x) \in Cuts
  <2>1. Append(ss, x) \in Seq(Seq(Lines)) /\ Len(Append(ss, x)) = Len(ss) + 1 /\ Len(ss) \in Nat
    BY AppendProperties
  <2>2. Append(ss, x) # <<>>
    BY <2>1
  <2> QED
    BY <2>1, <2>2 DEF Cuts
<1> QED
  BY <1>2, <1>3, <1>4

\* What the pieces are once n lines have been cut.
CutSound(acc, lines, n) ==
    /\ acc \in Cuts /\ FlattenSeq(acc) = SubSeq(lines, 1, n)
    /\ n = 0 => acc = << <<>> >>
    /\ n # 0 => \A k \in 1..Len(acc) : acc[k] # <<>>
    /\ \A k \in 1..Len(acc) : Cost(acc[k]) <= PieceBudget
    /\ \A k \in 1..(Len(acc) - 1) : Cost(acc[k]) + kernel[acc[k + 1][1]].cost > PieceBudget
    /\ Cost(lines) <= PieceBudget => Len(acc) = 1

LEMMA CutFirst ==
    ASSUME kernel \in KernelTexts, NEW lines \in Seq(Lines), PieceBudget \in Nat
    PROVE  CutSound(<< <<>> >>, lines, 0)
<1> PICK acc : acc = << <<>> >>
  OBVIOUS
<1>1. acc \in Seq(Seq(Lines)) /\ Len(acc) = 1 /\ acc[1] = <<>> /\ acc # <<>> /\ <<>> \in Seq(Seq(Lines))
      /\ <<>> \in Seq(Lines)
  BY EmptySeq
<1>2. FlattenSeq(<<>>) = <<>>
  BY DEF FlattenSeq
<1>3. acc = Append(<<>>, <<>>)
  OBVIOUS
<1>4. FlattenSeq(acc) = SubSeq(lines, 1, 0)
  <2>1. FlattenSeq(acc) = FlattenSeq(<<>>) \o <<>>
    BY <1>1, <1>3, FlattenAppend, Zenon
  <2>2. <<>> \o <<>> = SubSeq(lines, 1, 0)
    OBVIOUS
  <2> QED
    BY <1>2, <2>1, <2>2, Zenon
<1>5. Cost(<<>>) <= PieceBudget
  <2>1. Cost(<<>>) = 0
    BY CostFacts
  <2> QED
    BY <2>1
<1>6. \A k \in 1..Len(acc) : Cost(acc[k]) <= PieceBudget
  <2> TAKE k \in 1..Len(acc)
  <2>1. acc[k] = <<>>
    BY <1>1
  <2> QED
    BY <1>5, <2>1, Zenon
<1>7. 1..(Len(acc) - 1) = {}
  BY <1>1
<1> QED
  BY <1>1, <1>4, <1>6, <1>7 DEF CutSound, Cuts

LEMMA JoinAppend ==
    ASSUME NEW s \in Seq(Lines), NEW t \in Seq(Lines), NEW x \in Lines
    PROVE  s \o Append(t, x) = Append(s \o t, x)
OBVIOUS

\* The line joins the last piece.
LEMMA CutJoins ==
    ASSUME kernel \in KernelTexts, NEW lines \in Seq(Lines), PieceBudget \in Nat,
           NEW n \in Nat, n + 1 \in 1..Len(lines), kernel[lines[n + 1]].cost <= PieceBudget,
           NEW front \in Seq(Seq(Lines)), NEW piece \in Seq(Lines),
           CutSound(Append(front, piece), lines, n),
           piece = <<>> \/ Cost(piece) + kernel[lines[n + 1]].cost <= PieceBudget
    PROVE  CutSound(Append(front, Append(piece, lines[n + 1])), lines, n + 1)
<1> PICK i : i = lines[n + 1]
  OBVIOUS
<1> PICK whole : whole = Append(piece, i)
  OBVIOUS
<1> PICK acc : acc = Append(front, piece)
  OBVIOUS
<1> PICK new : new = Append(front, whole)
  OBVIOUS
<1>1. /\ i \in Lines /\ kernel[i].cost \in Nat /\ Len(front) \in Nat
      /\ Cost(piece) \in Nat /\ Cost(lines) \in Nat
  <2>1. i \in Lines /\ Len(front) \in Nat
    OBVIOUS
  <2>2. kernel[i].cost \in Nat
    BY <2>1, TextFacts
  <2> QED
    BY <2>1, <2>2, CostFacts
<1>2. whole \in Seq(Lines) /\ whole # <<>> /\ (piece # <<>> => whole[1] = piece[1])
  BY <1>1
<1>3. /\ acc \in Seq(Seq(Lines)) /\ Len(acc) = Len(front) + 1 /\ acc[Len(acc)] = piece
      /\ \A k \in 1..Len(front) : acc[k] = front[k]
  BY AppendProperties
<1>4. /\ new \in Seq(Seq(Lines)) /\ Len(new) = Len(front) + 1 /\ new[Len(new)] = whole
      /\ \A k \in 1..Len(front) : new[k] = front[k]
  BY <1>2, AppendProperties
<1>5. /\ FlattenSeq(acc) = SubSeq(lines, 1, n)
      /\ n = 0 => acc = << <<>> >>
      /\ n # 0 => \A k \in 1..Len(acc) : acc[k] # <<>>
  BY DEF CutSound
<1>6. /\ \A k \in 1..Len(acc) : Cost(acc[k]) <= PieceBudget
      /\ \A k \in 1..(Len(acc) - 1) : Cost(acc[k]) + kernel[acc[k + 1][1]].cost > PieceBudget
      /\ Cost(lines) <= PieceBudget => Len(acc) = 1
  BY DEF CutSound
<1>7. FlattenSeq(new) = SubSeq(lines, 1, n + 1)
  <2>1. FlattenSeq(new) = FlattenSeq(front) \o whole /\ FlattenSeq(acc) = FlattenSeq(front) \o piece
        /\ FlattenSeq(front) \in Seq(Lines)
    BY <1>2, FlattenAppend, Zenon
  <2>2. ASSUME NEW x \in Seq(Lines) PROVE x \o Append(piece, i) = Append(x \o piece, i)
    <3>1. x \in Seq(Lines) /\ piece \in Seq(Lines) /\ i \in Lines
      BY <1>1
    <3> QED
      BY ONLY <3>1, JoinAppend, Zenon
  <2>3. SubSeq(lines, 1, n + 1) = Append(SubSeq(lines, 1, n), i)
    BY LongerPrefix, Zenon
  <2> QED
    BY <1>5, <2>1, <2>2, <2>3, Zenon
<1>8. Cost(whole) <= PieceBudget
  <2>1. Cost(whole) = Cost(piece) + kernel[i].cost
    BY <1>1, CostAppend
  <2>2. CASE piece = <<>>
    <3>1. Cost(<<>>) = 0
      BY CostFacts
    <3>2. Cost(piece) = 0
      BY <2>2, <3>1, Zenon
    <3> QED
      BY <1>1, <2>1, <3>2
  <2>3. CASE piece # <<>>
    BY <1>1, <2>1, <2>3
  <2> QED
    BY <2>2, <2>3
<1>9. \A k \in 1..Len(new) : Cost(new[k]) <= PieceBudget
  <2> TAKE k \in 1..Len(new)
  <2>1. CASE k = Len(new)
    BY <1>4, <1>8, <2>1, Zenon
  <2>2. CASE k # Len(new)
    <3>1. k \in 1..Len(front) /\ k \in 1..Len(acc)
      <4>1. Len(acc) = Len(front) + 1 /\ Len(new) = Len(front) + 1 /\ Len(front) \in Nat
        BY <1>1, <1>3, <1>4
      <4> QED
        BY ONLY <4>1, <2>2, k \in 1..Len(new)
    <3> QED
      BY <1>3, <1>4, <1>6, <3>1, Zenon
  <2> QED
    BY <2>1, <2>2
<1>10. \A k \in 1..Len(new) : new[k] # <<>>
  <2> TAKE k \in 1..Len(new)
  <2>1. CASE k = Len(new)
    BY <1>2, <1>4, <2>1, Zenon
  <2>2. CASE k # Len(new)
    <3>1. k \in 1..Len(front) /\ k \in 1..Len(acc) /\ Len(acc) # 1
      <4>1. Len(acc) = Len(front) + 1 /\ Len(new) = Len(front) + 1 /\ Len(front) \in Nat
        BY <1>1, <1>3, <1>4
      <4> QED
        BY ONLY <4>1, <2>2, k \in 1..Len(new)
    <3>2. Len(<< <<>> >>) = 1
      OBVIOUS
    <3>3. n # 0
      BY <1>5, <3>1, <3>2, Zenon
    <3> QED
      BY <1>3, <1>4, <1>5, <3>1, <3>3, Zenon
  <2> QED
    BY <2>1, <2>2
<1>11. \A k \in 1..(Len(new) - 1) : Cost(new[k]) + kernel[new[k + 1][1]].cost > PieceBudget
  <2> TAKE k \in 1..(Len(new) - 1)
  <2>1. k \in 1..Len(front) /\ k \in 1..(Len(acc) - 1) /\ Len(acc) # 1 /\ k + 1 \in 1..Len(acc)
    BY <1>1, <1>3, <1>4
  <2>2. new[k] = acc[k]
    BY <1>3, <1>4, <2>1
  <2>3. new[k + 1][1] = acc[k + 1][1]
    <3>1. CASE k + 1 = Len(new)
      <4>1. Len(<< <<>> >>) = 1
        OBVIOUS
      <4>2. n # 0
        BY <1>5, <2>1, <4>1, Zenon
      <4>3. acc[k + 1] = piece /\ piece # <<>>
        BY <1>3, <1>4, <1>5, <2>1, <3>1, <4>2
      <4> QED
        BY <1>2, <1>4, <3>1, <4>3
    <3>2. CASE k + 1 # Len(new)
      <4>1. k + 1 \in 1..Len(front)
        BY <1>1, <1>4, <3>2
      <4> QED
        BY <1>3, <1>4, <4>1
    <3> QED
      BY <3>1, <3>2
  <2>4. Cost(acc[k]) + kernel[acc[k + 1][1]].cost > PieceBudget
    BY <1>6, <2>1
  <2> QED
    BY <2>2, <2>3, <2>4, Zenon
<1>12. Cost(lines) <= PieceBudget => Len(new) = 1
  BY <1>3, <1>4, <1>6
<1>13. new \in Cuts
  <2>1. Len(new) # 0
    BY <1>1, <1>4
  <2>2. new # <<>>
    BY <1>4, <2>1, EmptySeq
  <2> QED
    BY <1>4, <2>2 DEF Cuts
<1>14. n + 1 # 0
  OBVIOUS
<1>15. CutSound(new, lines, n + 1)
  BY <1>7, <1>9, <1>10, <1>11, <1>12, <1>13, <1>14, Zenon DEF CutSound
<1> QED
  BY <1>15, Zenon

\* The line opens a piece.
LEMMA CutOpens ==
    ASSUME kernel \in KernelTexts, NEW lines \in Seq(Lines), PieceBudget \in Nat,
           NEW n \in Nat, n + 1 \in 1..Len(lines), kernel[lines[n + 1]].cost <= PieceBudget,
           NEW front \in Seq(Seq(Lines)), NEW piece \in Seq(Lines),
           CutSound(Append(front, piece), lines, n),
           piece # <<>>, Cost(piece) + kernel[lines[n + 1]].cost > PieceBudget
    PROVE  CutSound(Append(Append(front, piece), <<lines[n + 1]>>), lines, n + 1)
<1> PICK i : i = lines[n + 1]
  OBVIOUS
<1> PICK whole : whole = <<i>>
  OBVIOUS
<1> PICK acc : acc = Append(front, piece)
  OBVIOUS
<1> PICK new : new = Append(acc, whole)
  OBVIOUS
<1>1. /\ i \in Lines /\ kernel[i].cost \in Nat /\ Len(front) \in Nat
      /\ Cost(piece) \in Nat /\ Cost(lines) \in Nat
  <2>1. i \in Lines /\ Len(front) \in Nat
    OBVIOUS
  <2>2. kernel[i].cost \in Nat
    BY <2>1, TextFacts
  <2> QED
    BY <2>1, <2>2, CostFacts
<1>2. whole \in Seq(Lines) /\ whole # <<>> /\ whole[1] = i /\ whole = Append(<<>>, i) /\ <<>> \in Seq(Lines)
  BY <1>1
<1>3. /\ acc \in Seq(Seq(Lines)) /\ Len(acc) = Len(front) + 1 /\ acc[Len(acc)] = piece
      /\ \A k \in 1..Len(front) : acc[k] = front[k]
  BY AppendProperties
<1>4. /\ new \in Seq(Seq(Lines)) /\ Len(new) = Len(acc) + 1 /\ new[Len(new)] = whole
      /\ \A k \in 1..Len(acc) : new[k] = acc[k]
  BY <1>2, <1>3, AppendProperties
<1>5. /\ FlattenSeq(acc) = SubSeq(lines, 1, n)
      /\ n = 0 => acc = << <<>> >>
      /\ n # 0 => \A k \in 1..Len(acc) : acc[k] # <<>>
  BY DEF CutSound
<1>6. /\ \A k \in 1..Len(acc) : Cost(acc[k]) <= PieceBudget
      /\ \A k \in 1..(Len(acc) - 1) : Cost(acc[k]) + kernel[acc[k + 1][1]].cost > PieceBudget
      /\ Cost(lines) <= PieceBudget => Len(acc) = 1
  BY DEF CutSound
<1>7. n # 0
  <2> SUFFICES ASSUME n = 0 PROVE FALSE
    OBVIOUS
  <2>1. acc = << <<>> >>
    BY <1>5
  <2>2. Len(acc) = 1 /\ acc[1] = <<>>
    BY <2>1
  <2>3. acc[Len(acc)] = <<>>
    BY <2>2
  <2> QED
    BY <1>3, <2>3
<1>8. FlattenSeq(new) = SubSeq(lines, 1, n + 1)
  <2>1. FlattenSeq(new) = FlattenSeq(acc) \o whole /\ FlattenSeq(acc) \in Seq(Lines)
    BY <1>2, <1>3, FlattenAppend, Zenon
  <2>2. ASSUME NEW x \in Seq(Lines) PROVE x \o whole = Append(x, i)
    BY <1>1
  <2>3. SubSeq(lines, 1, n + 1) = Append(SubSeq(lines, 1, n), i)
    BY LongerPrefix, Zenon
  <2> QED
    BY <1>5, <2>1, <2>2, <2>3, Zenon
<1>9. Cost(whole) <= PieceBudget
  <2>1. Cost(Append(<<>>, i)) = Cost(<<>>) + kernel[i].cost
    BY <1>1, <1>2, CostAppend
  <2>2. Cost(<<>>) = 0
    BY CostFacts
  <2>3. Cost(whole) = Cost(Append(<<>>, i))
    BY <1>2, Zenon
  <2> QED
    BY <1>1, <2>1, <2>2, <2>3
<1>10. Len(acc) \in Nat /\ Len(acc) \in 1..Len(acc)
  BY <1>1, <1>3
<1>11. \A k \in 1..Len(new) : k = Len(new) \/ k \in 1..Len(acc)
  BY ONLY <1>4, <1>10
<1>12. \A k \in 1..Len(new) : Cost(new[k]) <= PieceBudget
  <2> TAKE k \in 1..Len(new)
  <2>1. CASE k = Len(new)
    BY <1>4, <1>9, <2>1, Zenon
  <2>2. CASE k \in 1..Len(acc)
    BY <1>4, <1>6, <2>2, Zenon
  <2> QED
    BY <1>11, <2>1, <2>2
<1>13. \A k \in 1..Len(new) : new[k] # <<>>
  <2> TAKE k \in 1..Len(new)
  <2>1. CASE k = Len(new)
    BY <1>2, <1>4, <2>1, Zenon
  <2>2. CASE k \in 1..Len(acc)
    BY <1>4, <1>5, <1>7, <2>2, Zenon
  <2> QED
    BY <1>11, <2>1, <2>2
<1>14. \A k \in 1..(Len(new) - 1) : Cost(new[k]) + kernel[new[k + 1][1]].cost > PieceBudget
  <2> TAKE k \in 1..(Len(new) - 1)
  <2>1. k \in 1..Len(acc)
    BY <1>4, <1>10
  <2>2. new[k] = acc[k]
    BY <1>4, <2>1
  <2>3. CASE k = Len(acc)
    <3>1. new[k] = piece /\ new[k + 1] = whole
      BY <1>3, <1>4, <2>2, <2>3
    <3>2. Cost(new[k]) = Cost(piece) /\ new[k + 1][1] = i
      BY <1>2, <3>1, Zenon
    <3> QED
      BY <3>2
  <2>4. CASE k # Len(acc)
    <3>1. k \in 1..(Len(acc) - 1) /\ k + 1 \in 1..Len(acc)
      BY ONLY <1>10, <2>1, <2>4
    <3>2. new[k + 1] = acc[k + 1]
      BY <1>4, <3>1
    <3>3. Cost(acc[k]) + kernel[acc[k + 1][1]].cost > PieceBudget
      BY <1>6, <3>1
    <3> QED
      BY <2>2, <3>2, <3>3, Zenon
  <2> QED
    BY <2>3, <2>4
\* A text within the budget never gets here.
<1>15. ~(Cost(lines) <= PieceBudget)
  <2> SUFFICES ASSUME Cost(lines) <= PieceBudget PROVE FALSE
    OBVIOUS
  <2>1. Len(acc) = 1 /\ Len(front) = 0
    BY <1>1, <1>3, <1>6
  <2>2. front = <<>> /\ FlattenSeq(<<>>) = <<>>
    BY <2>1, EmptySeq DEF FlattenSeq
  <2>3. FlattenSeq(acc) = FlattenSeq(front) \o piece
    BY FlattenAppend
  <2>4. <<>> \o piece = piece
    OBVIOUS
  <2>5. SubSeq(lines, 1, n) = piece
    BY <1>5, <2>2, <2>3, <2>4, Zenon
  <2>6. SubSeq(lines, 1, n + 1) = Append(piece, i)
    BY <2>5, LongerPrefix, Zenon
  <2>7. Cost(SubSeq(lines, 1, n + 1)) = Cost(piece) + kernel[i].cost
    <3>1. Cost(Append(piece, i)) = Cost(piece) + kernel[i].cost
      BY <1>1, CostAppend
    <3> QED
      BY <2>6, <3>1, Zenon
  <2>8. n + 1 \in 0..Len(lines)
    OBVIOUS
  <2>9. Cost(SubSeq(lines, 1, n + 1)) <= Cost(lines)
    BY <2>8, CostOfPrefix
  <2> QED
    BY <1>1, <2>7, <2>9
<1>16. new \in Cuts
  <2>1. Len(new) # 0
    BY <1>4, <1>10
  <2>2. new # <<>>
    BY <1>4, <2>1, EmptySeq
  <2> QED
    BY <1>4, <2>2 DEF Cuts
<1>17. n + 1 # 0
  OBVIOUS
<1>18. CutSound(new, lines, n + 1)
  BY <1>8, <1>12, <1>13, <1>14, <1>15, <1>16, <1>17, Zenon DEF CutSound
<1> QED
  BY <1>18, Zenon

LEMMA CutStep ==
    ASSUME kernel \in KernelTexts, NEW lines \in Seq(Lines), PieceBudget \in Nat,
           NEW n \in Nat, n + 1 \in 1..Len(lines), kernel[lines[n + 1]].cost <= PieceBudget,
           NEW acc, CutSound(acc, lines, n)
    PROVE  CutSound(AddLine(acc, lines[n + 1]), lines, n + 1)
<1>1. acc \in Cuts
  BY DEF CutSound
<1>2. PICK front \in Seq(Seq(Lines)), piece \in Seq(Lines) : acc = Append(front, piece)
  BY <1>1, CutParts
<1>3. CutSound(Append(front, piece), lines, n)
  BY <1>2, Zenon
<1>4. lines[n + 1] \in Lines
  OBVIOUS
<1>5. kernel[lines[n + 1]].cost \in Nat /\ Cost(piece) \in Nat
  BY <1>4, TextFacts, CostFacts
<1>6. CASE piece # <<>> /\ Cost(piece) + kernel[lines[n + 1]].cost > PieceBudget
  <2>1. AddLine(acc, lines[n + 1]) = Append(acc, <<lines[n + 1]>>)
    BY <1>2, <1>4, <1>6, AddLineIs, Zenon
  <2>2. CutSound(Append(Append(front, piece), <<lines[n + 1]>>), lines, n + 1)
    BY <1>3, <1>6, CutOpens
  <2> QED
    BY <1>2, <2>1, <2>2, Zenon
<1>7. CASE ~(piece # <<>> /\ Cost(piece) + kernel[lines[n + 1]].cost > PieceBudget)
  <2>1. AddLine(acc, lines[n + 1]) = Append(front, Append(piece, lines[n + 1]))
    BY <1>2, <1>4, <1>7, AddLineIs, Zenon
  <2>2. piece = <<>> \/ Cost(piece) + kernel[lines[n + 1]].cost <= PieceBudget
    BY <1>5, <1>7
  <2>3. CutSound(Append(front, Append(piece, lines[n + 1])), lines, n + 1)
    BY <1>3, <2>2, CutJoins
  <2> QED
    BY <2>1, <2>3, Zenon
<1> QED
  BY <1>6, <1>7

\* The pieces that split_lines_to_token_budget has after each line.
LEMMA SplitIs ==
    ASSUME kernel \in KernelTexts, NEW lines \in Seq(Lines), SplitLines(lines) # <<>>
    PROVE  /\ PieceBudget \in Nat /\ \A n \in 1..Len(lines) : kernel[lines[n]].cost <= PieceBudget
           /\ \E f : /\ SplitLines(lines) = f[Len(lines)] /\ f[0] = << <<>> >>
                     /\ \A n \in 1..Len(lines) : f[n] = AddLine(f[n - 1], lines[n])
<1> PICK last : last = Len(lines)
  OBVIOUS
<1>1. last \in Nat /\ \A n \in 1..last : lines[n] \in Lines
  OBVIOUS
<1> DEFINE F == [p \in (1..last) \X Cuts |-> AddLine(p[2], lines[p[1]])]
           Is(f) == f = [n \in 0..Len(lines) |->
                           IF n = 0 THEN << <<>> >> ELSE AddLine(f[n - 1], lines[n])]
           Fails == PieceBudget <= 0 \/ lines = <<>>
                       \/ \E n \in DOMAIN lines : kernel[lines[n]].cost > PieceBudget
<1>2. LoopOver(Cuts, << <<>> >>, last, F)
  <2>1. << <<>> >> \in Cuts
    <3>1. << <<>> >> \in Seq(Seq(Lines)) /\ << <<>> >> # <<>>
      OBVIOUS
    <3> QED
      BY <3>1 DEF Cuts
  <2>2. \A p \in (1..last) \X Cuts : AddLine(p[2], lines[p[1]]) \in Cuts
    <3> TAKE p \in (1..last) \X Cuts
    <3>1. p[2] \in Cuts /\ lines[p[1]] \in Lines
      BY <1>1
    <3> QED
      BY <3>1, AddLineCuts
  <2>3. F \in [(1..last) \X Cuts -> Cuts]
    BY <2>2
  <2> HIDE DEF F
  <2> QED
    BY <1>1, <2>1, <2>3 DEF LoopOver
<1>3. PICK f \in [0..last -> Cuts] : f[0] = << <<>> >> /\ \A n \in 1..last : f[n] = F[<<n, f[n - 1]>>]
  <2> HIDE DEF F
  <2> QED
    BY <1>2, RecursionExists
<1>4. \A n \in 1..last : f[n] = AddLine(f[n - 1], lines[n])
  <2> TAKE n \in 1..last
  <2>1. n - 1 \in 0..last
    BY <1>1
  <2>2. <<n, f[n - 1]>> \in (1..last) \X Cuts
    BY <1>3, <2>1
  <2>3. F[<<n, f[n - 1]>>] = AddLine(f[n - 1], lines[n])
    BY <2>2, Zenon
  <2>4. f[n] = F[<<n, f[n - 1]>>]
    <3> HIDE DEF F
    <3> QED
      BY <1>3
  <2> QED
    BY <2>3, <2>4, Zenon
<1> HIDE DEF F
<1>5. Is(f)
  <2>1. ASSUME NEW n \in 0..last
        PROVE  f[n] = IF n = 0 THEN << <<>> >> ELSE AddLine(f[n - 1], lines[n])
    <3>1. CASE n = 0
      BY <1>3, <3>1
    <3>2. CASE n # 0
      <4>1. n \in 1..last
        BY <1>1, <3>2
      <4> QED
        BY <1>4, <3>2, <4>1, Zenon
    <3> QED
      BY <3>1, <3>2
  <2>2. f = [n \in 0..last |-> f[n]]
    BY <1>3
  <2> QED
    BY <2>1, <2>2, Zenon
<1> DEFINE g == CHOOSE x : Is(x)
<1>6. SplitLines(lines) = IF Fails THEN <<>> ELSE g[Len(lines)]
  <2> HIDE DEF TooMuch
  <2> QED
    BY DEF SplitLines
<1>7. Is(g)
  <2> HIDE DEF Is
  <2> QED
    BY <1>5
<1> HIDE DEF g
<1>8. ~Fails /\ SplitLines(lines) = g[Len(lines)]
  <2> HIDE DEF Fails
  <2> QED
    BY <1>6
<1>9. g[0] = << <<>> >> /\ \A n \in 1..last : g[n] = AddLine(g[n - 1], lines[n])
  <2>1. \A n \in 0..last : g[n] = IF n = 0 THEN << <<>> >> ELSE AddLine(g[n - 1], lines[n])
    BY <1>7
  <2>2. 0 \in 0..last /\ \A n \in 1..last : n \in 0..last /\ n # 0
    BY <1>1
  <2> HIDE DEF Is
  <2> QED
    BY <2>1, <2>2, Zenon
<1>10. /\ PieceBudget \in Nat /\ \A n \in 1..Len(lines) : kernel[lines[n]].cost <= PieceBudget
  <2>1. PieceBudget \in Int
    BY TextAssumption DEF PieceBudget
  <2>2. \A n \in 1..Len(lines) : n \in DOMAIN lines /\ kernel[lines[n]].cost \in Nat
    BY TextFacts
  <2> QED
    BY <1>8, <2>1, <2>2
<1> QED
  BY <1>8, <1>9, <1>10

LEMMA SplitFacts ==
    ASSUME kernel \in KernelTexts, NEW lines \in Seq(Lines), SplitLines(lines) # <<>>
    PROVE  CutSound(SplitLines(lines), lines, Len(lines)) /\ Len(lines) \in Nat \ {0}
<1>1. PICK f : /\ SplitLines(lines) = f[Len(lines)] /\ f[0] = << <<>> >>
               /\ \A n \in 1..Len(lines) : f[n] = AddLine(f[n - 1], lines[n])
  BY SplitIs
<1>2. PieceBudget \in Nat /\ \A n \in 1..Len(lines) : kernel[lines[n]].cost <= PieceBudget
  BY SplitIs
<1> PICK last : last = Len(lines)
  OBVIOUS
<1>3. last \in Nat /\ last # 0
  <2>1. lines # <<>>
    BY DEF SplitLines
  <2> QED
    BY <2>1, EmptySeq
<1> DEFINE S == {n \in Nat : n <= last => CutSound(f[n], lines, n)}
<1>4. 0 \in S
  <2>1. CutSound(<< <<>> >>, lines, 0)
    BY <1>2, CutFirst
  <2>2. CutSound(f[0], lines, 0)
    BY <1>1, <2>1, Zenon
  <2> QED
    BY <2>2
<1>5. ASSUME NEW n \in Nat, n \in S
      PROVE  n + 1 \in S
  <2> SUFFICES ASSUME n + 1 <= last PROVE CutSound(f[n + 1], lines, n + 1)
    OBVIOUS
  <2>1. n <= last /\ n + 1 \in 1..Len(lines) /\ n + 1 - 1 = n
    BY <1>3
  <2>2. CutSound(f[n], lines, n)
    BY <1>5, <2>1
  <2>3. CutSound(AddLine(f[n], lines[n + 1]), lines, n + 1)
    BY <1>2, <2>1, <2>2, CutStep
  <2>4. f[n + 1] = AddLine(f[n + 1 - 1], lines[n + 1])
    BY <1>1, <2>1
  <2> QED
    BY <2>1, <2>3, <2>4, Zenon
<1> HIDE DEF S
<1>6. \A n \in Nat : n \in S
  BY <1>4, <1>5, NatSetInduction
<1>7. CutSound(f[last], lines, last)
  BY <1>3, <1>6 DEF S
<1> QED
  BY <1>1, <1>3, <1>7, Zenon

LEMMA FragmentFacts ==
    ASSUME kernel \in KernelTexts, normalized.kernel \in Seq(Lines), normalized.mainLoop \in Seq(Lines),
           Fragment # <<>>
    PROVE  /\ Cost(Fragment) <= PieceBudget
           /\ \E whole \in {normalized.kernel, normalized.mainLoop} : IsPrefix(Fragment, whole)
<1>1. PieceBudget \in Int
  BY TextAssumption DEF PieceBudget
<1>2. CASE Len(normalized.kernel) <= ShortKernel /\ Cost(normalized.kernel) <= PieceBudget
  <2>1. Fragment = normalized.kernel
    BY <1>2, Zenon DEF Fragment
  <2>2. IsPrefix(normalized.kernel, normalized.kernel)
    BY DEF IsPrefix
  <2> QED
    BY <1>2, <2>1, <2>2, Zenon
<1>3. CASE ~(Len(normalized.kernel) <= ShortKernel /\ Cost(normalized.kernel) <= PieceBudget)
  <2> PICK whole : whole = IF normalized.mainLoop # <<>> THEN normalized.mainLoop ELSE normalized.kernel
    OBVIOUS
  <2>1. Fragment = TruncateTo(whole, PieceBudget)
    BY <1>3, Zenon DEF Fragment
  <2>2. whole \in {normalized.kernel, normalized.mainLoop} /\ whole \in Seq(Lines)
    OBVIOUS
  <2>3. IsPrefix(Fragment, whole) /\ Cost(Fragment) <= PieceBudget
    BY <1>1, <2>1, <2>2, TruncateFacts, Zenon
  <2> QED
    BY <2>2, <2>3
<1> QED
  BY <1>2, <1>3

\* What SegmentsExact says of segments cut from the main loop.
LEMMA SegmentsCut ==
    ASSUME kernel \in KernelTexts, NEW lines \in Seq(Lines), Cost(lines) <= BodyBudget,
           NEW ss, ss = SplitLines(lines), ss # <<>>
    PROVE  /\ \A s \in ToSet(ss) : s # <<>> /\ Cost(s) <= PieceBudget
           /\ FlattenSeq(ss) = lines
           /\ \A k \in 1..(Len(ss) - 1) : Cost(ss[k]) + kernel[ss[k + 1][1]].cost > PieceBudget
           /\ BodyBudget <= PieceBudget => Len(ss) = 1
<1>1. SplitLines(lines) # <<>>
  BY Zenon
<1>2. CutSound(SplitLines(lines), lines, Len(lines)) /\ Len(lines) \in Nat \ {0} /\ PieceBudget \in Nat
  BY <1>1, SplitFacts, SplitIs
<1>3. CutSound(ss, lines, Len(lines))
  BY <1>2, Zenon
<1>4. /\ ss \in Seq(Seq(Lines)) /\ FlattenSeq(ss) = SubSeq(lines, 1, Len(lines))
      /\ Len(lines) # 0 => \A k \in 1..Len(ss) : ss[k] # <<>>
  BY <1>3 DEF CutSound, Cuts
<1>5. /\ \A k \in 1..Len(ss) : Cost(ss[k]) <= PieceBudget
      /\ \A k \in 1..(Len(ss) - 1) : Cost(ss[k]) + kernel[ss[k + 1][1]].cost > PieceBudget
      /\ Cost(lines) <= PieceBudget => Len(ss) = 1
  BY <1>3 DEF CutSound
<1>6. \A s \in ToSet(ss) : s # <<>> /\ Cost(s) <= PieceBudget
  <2> TAKE s \in ToSet(ss)
  <2>1. PICK k \in 1..Len(ss) : s = ss[k]
    BY <1>4 DEF ToSet
  <2>2. Cost(ss[k]) <= PieceBudget /\ ss[k] # <<>>
    BY <1>2, <1>4, <1>5
  <2> QED
    BY <2>1, <2>2, Zenon
<1>7. FlattenSeq(ss) = lines
  <2>1. SubSeq(lines, 1, Len(lines)) = lines
    OBVIOUS
  <2> QED
    BY <1>4, <2>1, Zenon
<1>8. BodyBudget <= PieceBudget => Cost(lines) <= PieceBudget
  <2>1. Cost(lines) \in Nat /\ BodyBudget \in Nat
    BY CostFacts, TextAssumption
  <2> QED
    BY <1>2, <2>1
<1> QED
  BY <1>5, <1>6, <1>7, <1>8
-----------------------------------------------------------------------------
(* The specification: each stage holds what the step before it made. *)

LoopSound(l) ==
    IF Loops # {} THEN l \in Loops /\ Depth(l) = 0
    ELSE \/ l = <<1, Len(kernel)>>
         \/ /\ l \in Runs /\ Len(kernel) > SmallKernel /\ Size(l) <= MaxRegion
            /\ Op(l[2]) \notin NoiseOps /\ NontrivialRegion(l)

Stages == {"disassembled", "cfg", "extracted", "normalized", "rendered", "fragment"}

TextInv ==
    /\ kernel \in KernelTexts /\ stage \in Stages
    /\ stage = "cfg" => blocks = Blocks /\ edges = Edges
    /\ stage = "extracted" => LoopSound(mainLoop)
    /\ stage \in {"normalized", "rendered", "fragment"} =>
          /\ normalized.kernel \in Seq(Lines) /\ normalized.mainLoop \in Seq(Lines)
          /\ Cost(normalized.mainLoop) <= BodyBudget
    /\ segments # <<>> => stage \in {"rendered", "fragment"}
    /\ SegmentsExact

LEMMA LoopSoundRun ==
    ASSUME kernel \in KernelTexts, NEW l, LoopSound(l)
    PROVE  l \in Runs \/ l = <<1, Len(kernel)>>
BY LoopFacts DEF LoopSound

\* Nothing that is read off the kernel alone changes.
LEMMA SameText ==
    ASSUME kernel' = kernel
    PROVE  /\ Lines' = Lines /\ Blocks' = Blocks /\ Loops' = Loops /\ Runs' = Runs
           /\ \A b : Successors(b)' = Successors(b)
           /\ \A i : NextOf(i)' = NextOf(i) /\ Op(i)' = Op(i)
           /\ \A l : Depth(l)' = Depth(l) /\ (NontrivialRegion(l)' <=> NontrivialRegion(l))
           /\ \A s : Cost(s)' = Cost(s)
<1>1. Lines' = Lines
  BY DEF Lines
<1>2. \A i : Op(i)' = Op(i) /\ Target(i)' = Target(i)
  BY DEF Op, Target
<1>3. Leaders' = Leaders
  BY <1>1, <1>2 DEF Leaders
<1>4. Blocks' = Blocks
  BY <1>1, <1>3 DEF Blocks, Range2
<1>5. ASSUME NEW b PROVE Successors(b)' = Successors(b)
  BY <1>2, <1>4 DEF Successors, Range2
<1>6. Loops' = Loops
  BY <1>1, <1>2 DEF Loops
<1>7. Runs' = Runs
  BY <1>1 DEF Runs
<1>8. ASSUME NEW i PROVE NextOf(i)' = NextOf(i)
  BY <1>1, <1>2 DEF NextOf
<1>9. ASSUME NEW l PROVE Depth(l)' = Depth(l)
  BY <1>6 DEF Depth, Inside
<1>10. ASSUME NEW l PROVE NontrivialRegion(l)' <=> NontrivialRegion(l)
  BY <1>2 DEF NontrivialRegion, Count, Range2, Size
<1>11. ASSUME NEW s PROVE Cost(s)' = Cost(s)
  BY DEF Cost
<1> QED
  BY <1>1, <1>2, <1>4, <1>5, <1>6, <1>7, <1>8, <1>9, <1>10, <1>11

LEMMA TextStart == TextInit => TextInv
<1> SUFFICES ASSUME TextInit PROVE TextInv
  OBVIOUS
<1>1. kernel \in KernelTexts /\ stage = "disassembled" /\ segments = <<>>
  BY DEF TextInit
<1>2. SegmentsExact
  BY <1>1 DEF SegmentsExact
<1> QED
  BY <1>1, <1>2 DEF TextInv, Stages

LEMMA BuildCfgStep == TextInv /\ BuildCfg => TextInv'
<1> SUFFICES ASSUME TextInv, BuildCfg PROVE TextInv'
  OBVIOUS
<1>1. /\ kernel' = kernel /\ kernel \in KernelTexts /\ stage' = "cfg" /\ blocks' = Blocks
      /\ edges' = Edges /\ segments = <<>> /\ segments' = segments
  BY DEF TextInv, BuildCfg, Edges
<1>2. Blocks' = Blocks /\ Edges' = Edges
  BY <1>1, SameText DEF Edges
<1>3. SegmentsExact'
  BY <1>1 DEF SegmentsExact
<1> QED
  BY <1>1, <1>2, <1>3 DEF TextInv, Stages

LEMMA ExtractStep == TextInv /\ ExtractMainLoop => TextInv'
<1> SUFFICES ASSUME TextInv, ExtractMainLoop PROVE TextInv'
  OBVIOUS
<1>1. /\ kernel' = kernel /\ kernel \in KernelTexts /\ stage' = "extracted" /\ mainLoop' = MainLoop
      /\ blocks = Blocks /\ segments = <<>> /\ segments' = segments
  BY DEF TextInv, ExtractMainLoop
<1> PICK l : l = MainLoop
  OBVIOUS
<1>2. LoopSound(MainLoop)
  BY <1>1, MainLoopIs DEF LoopSound
<1>3. LoopSound(l)
  BY <1>2, Zenon
<1>4. mainLoop' = l
  BY <1>1
<1>5. /\ Loops' = Loops /\ Runs' = Runs /\ Depth(l)' = Depth(l)
      /\ NontrivialRegion(l)' <=> NontrivialRegion(l)
  BY <1>1, SameText
<1>6. Op(l[2])' = Op(l[2])
  BY <1>1 DEF Op
<1>7. LoopSound(l)'
  BY <1>1, <1>3, <1>5, <1>6 DEF LoopSound
<1>8. LoopSound(mainLoop)'
  BY <1>4, <1>7, Zenon
<1>9. SegmentsExact'
  BY <1>1 DEF SegmentsExact
<1> QED
  BY <1>1, <1>8, <1>9 DEF TextInv, Stages

LEMMA NormalizeStep == TextInv /\ NormalizeFiles => TextInv'
<1> SUFFICES ASSUME TextInv, NormalizeFiles PROVE TextInv'
  OBVIOUS
<1>1. /\ kernel' = kernel /\ kernel \in KernelTexts /\ stage' = "normalized" /\ LoopSound(mainLoop)
      /\ segments = <<>> /\ segments' = segments
  BY DEF TextInv, NormalizeFiles
<1> PICK whole : whole = NormalizedLines(<<1, Len(kernel)>>)
  OBVIOUS
<1> PICK body : body = TruncateTo(NormalizedLines(mainLoop), BodyBudget)
  OBVIOUS
<1>2. normalized'.kernel = whole /\ normalized'.mainLoop = body
  BY DEF NormalizeFiles
<1>3. whole \in Seq(Lines)
  BY <1>1, NormalizedFacts
<1>4. NormalizedLines(mainLoop) \in Seq(Lines)
  BY <1>1, LoopSoundRun, NormalizedFacts
<1>5. body \in Seq(Lines) /\ Cost(body) <= BodyBudget
  <2>1. BodyBudget \in Int /\ BodyBudget \in Nat
    BY TextAssumption
  <2> QED
    BY <1>1, <1>4, <2>1, TruncateFacts, Zenon
<1>6. Cost(body)' = Cost(body) /\ Lines' = Lines
  BY <1>1, SameText
<1>7. Cost(normalized.mainLoop)' <= BodyBudget
  <2>1. Cost(normalized.mainLoop)' = Cost(body)
    BY <1>1, <1>2 DEF Cost
  <2> QED
    BY <1>5, <2>1
<1>8. SegmentsExact'
  BY <1>1 DEF SegmentsExact
<1> QED
  BY <1>1, <1>2, <1>3, <1>5, <1>6, <1>7, <1>8 DEF TextInv, Stages

LEMMA RenderSegmentsStep == TextInv /\ RenderL0Segments => TextInv'
<1> SUFFICES ASSUME TextInv, RenderL0Segments PROVE TextInv'
  OBVIOUS
<1>1. /\ kernel' = kernel /\ kernel \in KernelTexts /\ stage' = "rendered" /\ normalized' = normalized
      /\ normalized.kernel \in Seq(Lines) /\ normalized.mainLoop \in Seq(Lines)
      /\ Cost(normalized.mainLoop) <= BodyBudget
  BY DEF TextInv, RenderL0Segments
<1> PICK lines : lines = normalized.mainLoop
  OBVIOUS
<1> PICK ss : ss = SplitLines(lines)
  OBVIOUS
<1>2. segments' = ss
  <2>1. SplitLines(lines) = SplitLines(normalized.mainLoop)
    BY Zenon
  <2> QED
    BY <2>1 DEF RenderL0Segments
<1>3. Lines' = Lines /\ Cost(normalized.mainLoop)' = Cost(normalized.mainLoop)
  <2>1. Cost(normalized.mainLoop)' = Cost(normalized.mainLoop)
    BY <1>1 DEF Cost
  <2> QED
    BY <1>1, <2>1, SameText
<1>4. SegmentsExact'
  <2> SUFFICES ASSUME ss # <<>> PROVE SegmentsExact'
    BY <1>2 DEF SegmentsExact
  <2>1. lines \in Seq(Lines) /\ Cost(lines) <= BodyBudget
    BY <1>1, Zenon
  <2>2. /\ \A s \in ToSet(ss) : s # <<>> /\ Cost(s) <= PieceBudget
        /\ FlattenSeq(ss) = lines
        /\ \A k \in 1..(Len(ss) - 1) : Cost(ss[k]) + kernel[ss[k + 1][1]].cost > PieceBudget
        /\ BodyBudget <= PieceBudget => Len(ss) = 1
    BY <1>1, <2>1, SegmentsCut
  <2>3. ASSUME NEW s \in ToSet(ss)
        PROVE  s # <<>> /\ Cost(s)' <= PieceBudget
    <3>1. Cost(s)' = Cost(s)
      BY <1>1 DEF Cost
    <3> QED
      BY <2>2, <3>1
  <2>4. ASSUME NEW k \in 1..(Len(ss) - 1)
        PROVE  Cost(segments[k])' + kernel[ss[k + 1][1]].cost > PieceBudget
    <3>1. Cost(segments[k])' = Cost(ss[k])
      BY <1>1, <1>2 DEF Cost
    <3> QED
      BY <2>2, <3>1
  <2>5. ToSet(segments') = ToSet(ss) /\ FlattenSeq(segments') = lines /\ Len(segments') = Len(ss)
        /\ \A k : segments'[k] = ss[k]
    BY <1>2, <2>2
  <2> QED
    BY <1>1, <1>2, <2>2, <2>3, <2>4, <2>5 DEF SegmentsExact
<1> QED
  BY <1>1, <1>3, <1>4 DEF TextInv, Stages

LEMMA FragmentStep == TextInv /\ RenderFragment => TextInv'
<1> SUFFICES ASSUME TextInv, RenderFragment PROVE TextInv'
  OBVIOUS
<1>1. /\ kernel' = kernel /\ kernel \in KernelTexts /\ stage' = "fragment" /\ normalized' = normalized
      /\ normalized.kernel \in Seq(Lines) /\ normalized.mainLoop \in Seq(Lines)
      /\ Cost(normalized.mainLoop) <= BodyBudget
  BY DEF TextInv, RenderFragment
<1> PICK text : text = Fragment
  OBVIOUS
<1>2. segments' = IF text = <<>> THEN <<>> ELSE <<text>>
  BY DEF RenderFragment
<1>3. Lines' = Lines /\ Cost(normalized.mainLoop)' = Cost(normalized.mainLoop)
  <2>1. Cost(normalized.mainLoop)' = Cost(normalized.mainLoop)
    BY <1>1 DEF Cost
  <2> QED
    BY <1>1, <2>1, SameText
<1>4. SegmentsExact'
  <2> SUFFICES ASSUME text # <<>> PROVE SegmentsExact'
    BY <1>2 DEF SegmentsExact
  <2>1. Cost(Fragment) <= PieceBudget
        /\ \E whole \in {normalized.kernel, normalized.mainLoop} : IsPrefix(Fragment, whole)
    <3>1. Fragment # <<>>
      BY Zenon
    <3> QED
      BY <1>1, <3>1, FragmentFacts
  <2>2. Cost(text) <= PieceBudget
    BY <2>1, Zenon
  <2>3. PICK whole \in {normalized.kernel, normalized.mainLoop} : IsPrefix(text, whole)
    BY <2>1, Zenon
  <2>4. segments' = <<text>>
    BY <1>2
  <2>5. segments'[1] = text /\ ToSet(segments') = {text}
    BY <2>4 DEF ToSet
  <2>6. Cost(text)' = Cost(text)
    BY <1>1 DEF Cost
  <2>7. \A s \in ToSet(segments') : s # <<>> /\ Cost(s)' <= PieceBudget
    <3> TAKE s \in ToSet(segments')
    <3>1. s = text
      BY <2>5
    <3>2. Cost(s)' = Cost(s)
      BY <1>1 DEF Cost
    <3>3. Cost(s) <= PieceBudget
      BY <2>2, <3>1, Zenon
    <3> QED
      BY <3>1, <3>2, <3>3
  <2>8. IsPrefix(segments'[1], whole) /\ whole \in {normalized'.kernel, normalized'.mainLoop}
    BY <1>1, <2>3, <2>5, Zenon
  <2> QED
    BY <1>1, <2>7, <2>8 DEF SegmentsExact
<1> QED
  BY <1>1, <1>3, <1>4 DEF TextInv, Stages

LEMMA TextStutter == TextInv /\ UNCHANGED textVars => TextInv'
<1> SUFFICES ASSUME TextInv, UNCHANGED textVars PROVE TextInv'
  OBVIOUS
<1>1. /\ kernel' = kernel /\ stage' = stage /\ blocks' = blocks /\ edges' = edges
      /\ mainLoop' = mainLoop /\ normalized' = normalized /\ segments' = segments
  BY DEF textVars
<1>2. Lines' = Lines /\ Blocks' = Blocks /\ Edges' = Edges /\ Loops' = Loops /\ Runs' = Runs
  BY <1>1, SameText DEF Edges
<1>3. LoopSound(mainLoop)' <=> LoopSound(mainLoop)
  <2>1. Depth(mainLoop)' = Depth(mainLoop)
    BY <1>1, <1>2 DEF Depth, Inside
  <2>2. NontrivialRegion(mainLoop)' <=> NontrivialRegion(mainLoop)
    BY <1>1 DEF NontrivialRegion, Count, Op, Range2, Size
  <2>3. Op(mainLoop[2])' = Op(mainLoop[2])
    BY <1>1 DEF Op
  <2> QED
    BY <1>1, <1>2, <2>1, <2>2, <2>3 DEF LoopSound
<1>4. Cost(normalized.mainLoop)' = Cost(normalized.mainLoop)
  BY <1>1 DEF Cost
<1>5. SegmentsExact' <=> SegmentsExact
  BY <1>1 DEF SegmentsExact, Cost
<1> QED
  BY <1>1, <1>2, <1>3, <1>4, <1>5 DEF TextInv

LEMMA TextInvariant == TextSpec => []TextInv
<1>1. TextInv /\ [TextNext]_textVars => TextInv'
  BY BuildCfgStep, ExtractStep, NormalizeStep, RenderSegmentsStep, FragmentStep, TextStutter, Zenon
     DEF TextNext
<1> QED
  BY TextStart, <1>1, PTL DEF TextSpec

\* The blocks and edges of build_cfg are faithful to the control flow of any kernel: every
\* line is in exactly one block, entered at its top and left at its bottom, and an edge
\* stands for each step between blocks but that past a predicated EXIT or RET.
THEOREM CfgFaithfulHolds == TextSpec => []CfgFaithful
<1>1. TextInv => CfgFaithful
  <2> SUFFICES ASSUME TextInv, stage = "cfg" PROVE CfgFaithful
    BY DEF CfgFaithful
  <2>1. kernel \in KernelTexts /\ blocks = Blocks /\ edges = Edges
    BY DEF TextInv
  <2> QED
    BY <2>1, CfgSound DEF CfgFaithful
<1> QED
  BY <1>1, TextInvariant, PTL

\* extract_main_loop takes an outermost loop of any kernel that has one, whatever it
\* scores, since the loop around another outweighs its bonus for depth; without a loop it
\* takes a region of useful instructions or the kernel.
THEOREM MainLoopSoundHolds == TextSpec => []MainLoopSound
<1>1. TextInv => MainLoopSound
  BY DEF TextInv, MainLoopSound, LoopSound
<1> QED
  BY <1>1, TextInvariant, PTL

\* Nothing of the main loop of any kernel is lost or repeated when it is cut into segments,
\* each fits its window, none could have taken the line that opens the next, and a budget
\* of the body's size or more makes one segment.
THEOREM SegmentsExactHolds == TextSpec => []SegmentsExact
<1>1. TextInv => SegmentsExact
  BY DEF TextInv
<1> QED
  BY <1>1, TextInvariant, PTL
================================================================================
