--------------------------- MODULE L0SchedulerProofs ---------------------------
(***************************************************************************)
(* Theorems about L0Scheduler for any streams, launches and budget.        *)
(*                                                                         *)
(* The scheduler keeps the cost, the counts and the ratios of a deque      *)
(* incrementally; DequeOf says that they are those of the launches in it,  *)
(* through every iteration of the eviction loop.  The signature tables are *)
(* what the windows emitted so far say (TablesOf), and the deque is the    *)
(* end of the stream's launches (SuffixOf).  The loops are recursive       *)
(* functions, so the proofs first show that such functions exist, by       *)
(* induction over a set of numbers (NatSetInduction).                      *)
(***************************************************************************)
EXTENDS L0Scheduler, FunctionTheorems, FiniteSetTheorems, SequenceTheorems, WellFoundedInduction, TLAPS

-----------------------------------------------------------------------------
(* Numbers: least and greatest elements, and induction. *)

LEMMA LeastNat ==
    ASSUME NEW T \in SUBSET Nat, T # {}
    PROVE  \E x \in T : \A y \in T : x =< y
<1>1. IsWellFoundedOn({p \in Nat \X Nat : p[1] < p[2]}, Nat)
  BY NatLessThanWellFounded DEF OpToRel
<1>2. PICK x \in T : \A y \in T : <<y, x>> \notin {p \in Nat \X Nat : p[1] < p[2]}
  BY <1>1, WFMin
<1>3. \A y \in T : ~(y < x)
  BY <1>2
<1> QED
  BY <1>3

LEMMA NatSetInduction ==
    ASSUME NEW S, 0 \in S, \A n \in Nat : n \in S => n + 1 \in S
    PROVE  Nat \subseteq S
<1> SUFFICES ASSUME Nat \ S # {} PROVE FALSE
  OBVIOUS
<1>1. PICK x \in Nat \ S : \A y \in Nat \ S : x =< y
  BY LeastNat
<1>2. x - 1 \in Nat /\ x - 1 \in S
  BY <1>1
<1> QED
  BY <1>1, <1>2

LEMMA GreatestNat ==
    ASSUME NEW T \in SUBSET Nat, T # {}, NEW n \in Nat, \A y \in T : y =< n
    PROVE  \E x \in T : \A y \in T : y =< x
<1> DEFINE U == {z \in Nat : \E y \in T : z = n - y}
<1>1. U \in SUBSET Nat /\ U # {}
  <2>1. PICK y \in T : TRUE
    OBVIOUS
  <2>2. n - y \in U
    BY <2>1
  <2> QED
    BY <2>2
<1>2. PICK z \in U : \A u \in U : z =< u
  BY <1>1, LeastNat
<1>3. PICK x \in T : z = n - x
  BY <1>2
<1>4. ASSUME NEW y \in T PROVE y =< x
  <2>1. n - y \in U
    OBVIOUS
  <2> HIDE DEF U
  <2>2. n - x =< n - y /\ x \in Nat /\ y \in Nat
    BY <1>2, <1>3, <2>1
  <2> QED
    BY <2>2
<1> QED
  BY <1>4

LEMMA MaxIs ==
    ASSUME NEW T \in SUBSET Nat, NEW x \in T, \A y \in T : y =< x
    PROVE  Max(T) = x
<1>1. Max(T) = CHOOSE z \in T : \A y \in T : z >= y
  BY DEF Max
<1>2. x \in T /\ \A y \in T : x >= y
  OBVIOUS
<1>3. Max(T) \in T /\ \A y \in T : Max(T) >= y
  BY <1>1, <1>2, Zenon
<1>4. Max(T) \in Nat /\ x \in Nat /\ Max(T) >= x /\ Max(T) =< x
  BY <1>3
<1> QED
  BY <1>4

LEMMA MinIs ==
    ASSUME NEW T \in SUBSET Nat, NEW x \in T, \A y \in T : x =< y
    PROVE  Min(T) = x
<1>1. Min(T) = CHOOSE z \in T : \A y \in T : z =< y
  BY DEF Min
<1>2. x \in T /\ \A y \in T : x =< y
  OBVIOUS
<1>3. Min(T) \in T /\ \A y \in T : Min(T) =< y
  BY <1>1, <1>2, Zenon
<1>4. Min(T) \in Nat /\ x \in Nat /\ Min(T) =< x /\ x =< Min(T)
  BY <1>3
<1> QED
  BY <1>4

-----------------------------------------------------------------------------
(* The cost of a sequence of launches. *)

\* f holds the sums of the first costs, up to m of them.
Adds(f, ls, m) == f = [n \in 0..m |-> IF n = 0 THEN 0 ELSE f[n - 1] + ls[n].cost]
IsSums(f, ls, m) == f \in [0..m -> Int] /\ Adds(f, ls, m)

LEMMA RowCost ==
    ASSUME NEW ls \in Seq(Row)
    PROVE  /\ Len(ls) \in Nat
           /\ \A n \in 1..Len(ls) : ls[n] \in Row /\ ls[n].cost \in 1..Budget /\ ls[n].kernel \in Nat
<1>1. \A r \in Row : r.cost \in 1..Budget /\ r.kernel \in Nat
  BY DEF Row
<1> QED
  BY <1>1, ElementOfSeq, LenProperties

LEMMA SumsExist ==
    ASSUME NEW ls \in Seq(Row)
    PROVE  \E f : IsSums(f, ls, Len(ls))
<1> DEFINE S == {m \in Nat : m =< Len(ls) => \E f : IsSums(f, ls, m)}
<1>0. Len(ls) \in Nat /\ \A n \in 1..Len(ls) : ls[n].cost \in Int
  BY RowCost, SchedulerAssumption
<1>1. 0 \in S
  <2>1. IsSums([n \in 0..0 |-> 0], ls, 0)
    BY DEF IsSums, Adds
  <2> QED
    BY <2>1
<1>2. ASSUME NEW m \in Nat, m \in S
      PROVE  m + 1 \in S
  <2>1. ASSUME m + 1 =< Len(ls)
        PROVE  \E f : IsSums(f, ls, m + 1)
    <3>1. PICK f : IsSums(f, ls, m)
      BY <1>0, <1>2, <2>1
    <3> DEFINE g == [n \in 0..(m + 1) |-> IF n =< m THEN f[n] ELSE f[m] + ls[m + 1].cost]
    <3>2. /\ f \in [0..m -> Int] /\ f[0] = 0
          /\ \A n \in 1..m : f[n] = f[n - 1] + ls[n].cost
      BY <3>1 DEF IsSums, Adds
    <3>3. ls[m + 1].cost \in Int
      BY <1>0, <2>1
    <3>4. g \in [0..(m + 1) -> Int]
      BY <3>2, <3>3
    <3>5. g[0] = 0 /\ \A n \in 1..(m + 1) : g[n] = g[n - 1] + ls[n].cost
      <4>1. ASSUME NEW n \in 1..(m + 1)
            PROVE  g[n] = g[n - 1] + ls[n].cost
        <5>1. CASE n = m + 1
          BY <5>1
        <5>2. CASE n # m + 1
          BY <3>2, <5>2
        <5> QED
          BY <5>1, <5>2
      <4> QED
        BY <3>2, <4>1
    <3> HIDE DEF g
    <3>6. IsSums(g, ls, m + 1)
      BY <3>4, <3>5 DEF IsSums, Adds
    <3> QED
      BY <3>6
  <2> QED
    BY <2>1
<1> HIDE DEF S
<1>3. Len(ls) \in S
  BY <1>0, <1>1, <1>2, NatSetInduction
<1> QED
  BY <1>0, <1>3 DEF S

LEMMA SumsStep ==
    ASSUME NEW ls, NEW m \in Nat, NEW f, Adds(f, ls, m)
    PROVE  f[0] = 0 /\ \A n \in 1..m : f[n] = f[n - 1] + ls[n].cost
<1>1. f[0] = 0
  BY DEF Adds
<1>2. ASSUME NEW n \in 1..m
      PROVE  f[n] = f[n - 1] + ls[n].cost
  <2>1. n \in 0..m /\ n # 0
    OBVIOUS
  <2> QED
    BY <2>1 DEF Adds
<1> QED
  BY <1>1, <1>2

LEMMA CostOfSums ==
    ASSUME NEW ls \in Seq(Row)
    PROVE  \E f : IsSums(f, ls, Len(ls)) /\ CostOf(ls) = f[Len(ls)]
<1> DEFINE f == CHOOSE f : f = [n \in 0..Len(ls) |-> IF n = 0 THEN 0 ELSE f[n - 1] + ls[n].cost]
<1>1. CostOf(ls) = f[Len(ls)]
  BY DEF CostOf
<1>2. f = [n \in 0..Len(ls) |-> IF n = 0 THEN 0 ELSE f[n - 1] + ls[n].cost]
  BY SumsExist DEF IsSums, Adds
<1> HIDE DEF f
<1>3. PICK g : IsSums(g, ls, Len(ls))
  BY SumsExist
<1>4. Len(ls) \in Nat
  BY RowCost
<1>5. /\ f[0] = 0 /\ g[0] = 0
      /\ \A n \in 1..Len(ls) : f[n] = f[n - 1] + ls[n].cost /\ g[n] = g[n - 1] + ls[n].cost
  <2>1. Adds(g, ls, Len(ls)) /\ Adds(f, ls, Len(ls))
    BY <1>2, <1>3 DEF IsSums, Adds
  <2> QED
    BY <1>4, <2>1, SumsStep
<1> DEFINE S == {m \in Nat : m =< Len(ls) => f[m] = g[m]}
<1>6. 0 \in S
  BY <1>5
<1>7. ASSUME NEW m \in Nat, m \in S
      PROVE  m + 1 \in S
  BY <1>4, <1>5, <1>7
<1>8. \A m \in 0..Len(ls) : f[m] = g[m]
  <2> HIDE DEF S
  <2>1. Nat \subseteq S
    BY <1>6, <1>7, NatSetInduction
  <2> QED
    BY <1>4, <2>1 DEF S
<1>9. g \in [0..Len(ls) -> Int]
  BY <1>3 DEF IsSums, Adds
<1> QED
  BY <1>1, <1>3, <1>4, <1>8, <1>9

\* The empty deque costs nothing.
LEMMA CostOfEmpty == CostOf(<<>>) = 0
<1>1. <<>> \in Seq(Row) /\ Len(<<>>) = 0
  OBVIOUS
<1>2. PICK f : IsSums(f, <<>>, Len(<<>>)) /\ CostOf(<<>>) = f[Len(<<>>)]
  BY <1>1, CostOfSums
<1> QED
  BY <1>1, <1>2 DEF IsSums, Adds

\* The first n costs of ms are those of ls after position d.
SameCosts(ls, ms, d, n) ==
    \A i \in 1..n, j \in 1..Len(ls) : j = i + d => ls[j].cost = ms[i].cost

\* f sums the costs of ls and g those of ms, and the first n of ms are those of ls after d.
Agree(f, ls, g, ms, d, n) ==
    /\ IsSums(f, ls, Len(ls)) /\ IsSums(g, ms, Len(ms))
    /\ d \in Nat /\ n \in Nat /\ n + d =< Len(ls) /\ n =< Len(ms)
    /\ SameCosts(ls, ms, d, n)

\* Equal costs have equal sums; the second sequence may start later and from another sum.
LEMMA SumsAgree ==
    ASSUME NEW ls \in Seq(Row), NEW ms \in Seq(Row), NEW d, NEW n, NEW f, NEW g,
           Agree(f, ls, g, ms, d, n)
    PROVE  f[n + d] = g[n] + f[d]
<1> PICK base : base = f[d]
  OBVIOUS
<1>0. /\ IsSums(f, ls, Len(ls)) /\ IsSums(g, ms, Len(ms))
      /\ d \in Nat /\ n \in Nat /\ n + d =< Len(ls) /\ n =< Len(ms)
      /\ SameCosts(ls, ms, d, n) /\ f[d] = base
  BY DEF Agree
<1>00. base \in Int
  BY <1>0, LenProperties DEF IsSums
<1>1. Len(ls) \in Nat /\ Len(ms) \in Nat /\ \A i \in 1..Len(ms) : ms[i].cost \in Int
  BY RowCost, SchedulerAssumption
<1>2. /\ f \in [0..Len(ls) -> Int] /\ g \in [0..Len(ms) -> Int] /\ g[0] = 0
      /\ \A i \in 1..Len(ls) : f[i] = f[i - 1] + ls[i].cost
      /\ \A i \in 1..Len(ms) : g[i] = g[i - 1] + ms[i].cost
  <2>1. /\ Adds(f, ls, Len(ls)) /\ Adds(g, ms, Len(ms))
        /\ f \in [0..Len(ls) -> Int] /\ g \in [0..Len(ms) -> Int]
    BY <1>0 DEF IsSums
  <2>2. Len(ls) \in Nat /\ Len(ms) \in Nat
    BY <1>1
  <2>3. f[0] = 0 /\ \A i \in 1..Len(ls) : f[i] = f[i - 1] + ls[i].cost
    BY <2>1, <2>2, SumsStep
  <2>4. g[0] = 0 /\ \A i \in 1..Len(ms) : g[i] = g[i - 1] + ms[i].cost
    BY <2>1, <2>2, SumsStep
  <2> QED
    BY <2>1, <2>3, <2>4
<1> DEFINE S == {m \in Nat : m =< n => f[m + d] = g[m] + base}
<1>3. 0 \in S
  BY <1>0, <1>00, <1>2
<1>4. ASSUME NEW m \in Nat, m \in S
      PROVE  m + 1 \in S
  <2> SUFFICES ASSUME m + 1 =< n
               PROVE  f[m + 1 + d] = g[m + 1] + base
    OBVIOUS
  <2>1. f[m + d] = g[m] + base
    BY <1>0, <1>4
  <2>2. m + 1 + d \in 1..Len(ls) /\ m + 1 \in 1..Len(ms) /\ m + 1 \in 1..n
    BY <1>0, <1>1
  <2>3. f[m + 1 + d] = f[m + d] + ls[m + 1 + d].cost
    <3>1. m + 1 + d - 1 = m + d
      BY <1>0
    <3> QED
      BY <1>0, <1>2, <2>2, <3>1
  <2>4. g[m + 1] = g[m] + ms[m + 1].cost
    <3>1. m + 1 - 1 = m
      OBVIOUS
    <3> QED
      BY <1>2, <2>2, <3>1
  <2>5. ls[m + 1 + d].cost = ms[m + 1].cost
    BY <1>0, <2>2 DEF SameCosts
  <2>6. g[m] \in Int /\ ms[m + 1].cost \in Int
    <3>1. m \in 0..Len(ms)
      BY <1>1, <2>2
    <3>2. g[m] \in Int
      BY <1>2, <3>1
    <3> QED
      BY <1>1, <2>2, <3>2
  <2> QED
    BY <1>0, <1>00, <2>1, <2>3, <2>4, <2>5, <2>6
<1> HIDE DEF S
<1>5. n \in S
  BY <1>0, <1>3, <1>4, NatSetInduction
<1> QED
  BY <1>0, <1>5 DEF S

LEMMA CostOfAppend ==
    ASSUME NEW ls \in Seq(Row), NEW l \in Row
    PROVE  CostOf(Append(ls, l)) = CostOf(ls) + l.cost
<1> DEFINE ms == Append(ls, l)
<1>1. ms \in Seq(Row) /\ Len(ms) = Len(ls) + 1 /\ ms[Len(ms)] = l /\ Len(ls) \in Nat
      /\ \A i \in 1..Len(ls) : ms[i] = ls[i]
  BY AppendProperties, LenProperties
<1> HIDE DEF ms
<1>2. PICK f : IsSums(f, ls, Len(ls)) /\ CostOf(ls) = f[Len(ls)]
  BY CostOfSums
<1>3. PICK g : IsSums(g, ms, Len(ms)) /\ CostOf(ms) = g[Len(ms)]
  BY <1>1, CostOfSums
<1>4. g[Len(ls)] = f[Len(ls)]
  <2>1. g[0] = 0 /\ f[Len(ls)] \in Int
    BY <1>1, <1>2, <1>3 DEF IsSums, Adds
  <2>2. SameCosts(ms, ls, 0, Len(ls))
    BY <1>1 DEF SameCosts
  <2>3. /\ Len(ls) = Len(ls) + 0 /\ Len(ls) =< Len(ms) /\ Len(ls) =< Len(ls)
        /\ 0 \in Nat /\ 0 \in Int
    BY <1>1
  <2>4. Agree(g, ms, f, ls, 0, Len(ls))
    BY <1>1, <1>2, <1>3, <2>2, <2>3 DEF Agree
  <2>5. g[Len(ls) + 0] = f[Len(ls)] + g[0]
    BY <1>1, <2>4, SumsAgree
  <2> QED
    BY <1>1, <2>1, <2>5
<1>5. g[Len(ms)] = g[Len(ls)] + l.cost
  <2>1. Len(ms) \in 1..Len(ms) /\ Len(ms) - 1 = Len(ls) /\ Len(ms) \in 0..Len(ms) /\ Len(ms) # 0
    BY <1>1
  <2> QED
    BY <1>1, <1>3, <2>1 DEF IsSums, Adds
<1> QED
  BY <1>2, <1>3, <1>4, <1>5 DEF ms

LEMMA CostOfTail ==
    ASSUME NEW ls \in Seq(Row), ls # <<>>
    PROVE  CostOf(ls) = CostOf(Tail(ls)) + Head(ls).cost
<1> DEFINE ms == Tail(ls)
<1>1. ms \in Seq(Row) /\ Len(ls) \in Nat \ {0} /\ Len(ms) = Len(ls) - 1
      /\ Head(ls) = ls[1] /\ \A i \in 1..Len(ms) : ms[i] = ls[i + 1]
  BY HeadTailProperties, EmptySeq, LenProperties
<1> HIDE DEF ms
<1>2. PICK f : IsSums(f, ls, Len(ls)) /\ CostOf(ls) = f[Len(ls)]
  BY CostOfSums
<1>3. PICK g : IsSums(g, ms, Len(ms)) /\ CostOf(ms) = g[Len(ms)]
  BY <1>1, CostOfSums
<1>4. f[1] = Head(ls).cost /\ Head(ls).cost \in Int
  <2>1. 1 \in 1..Len(ls) /\ 1 - 1 = 0 /\ f[0] = 0 /\ ls[1].cost \in Int
    BY <1>1, <1>2, RowCost, SchedulerAssumption DEF IsSums, Adds
  <2>2. f[1] = f[0] + ls[1].cost
    BY <1>2, <2>1 DEF IsSums, Adds
  <2> QED
    BY <1>1, <2>1, <2>2
<1>5. f[Len(ls)] = g[Len(ms)] + Head(ls).cost
  <2>1. /\ Len(ms) \in Nat /\ Len(ls) \in Nat /\ Len(ls) = Len(ms) + 1 /\ Len(ls) =< Len(ls)
        /\ Len(ms) =< Len(ms) /\ 1 \in Nat
    BY <1>1
  <2>2. SameCosts(ls, ms, 1, Len(ms))
    BY <1>1 DEF SameCosts
  <2>3. Agree(f, ls, g, ms, 1, Len(ms))
    BY <1>2, <1>3, <2>1, <2>2 DEF Agree
  <2>4. f[Len(ms) + 1] = g[Len(ms)] + f[1]
    BY <1>1, <2>3, SumsAgree
  <2> QED
    BY <1>4, <2>1, <2>4
<1> QED
  BY <1>2, <1>3, <1>5 DEF ms

\* A cost is a natural number, and that of a launch which is alone is its own.
LEMMA CostOfType ==
    ASSUME NEW ls \in Seq(Row)
    PROVE  CostOf(ls) \in Nat
<1>1. PICK f : IsSums(f, ls, Len(ls)) /\ CostOf(ls) = f[Len(ls)]
  BY CostOfSums
<1>2. Len(ls) \in Nat /\ \A i \in 1..Len(ls) : ls[i].cost \in Nat
  BY RowCost, SchedulerAssumption
<1>3. f[0] = 0 /\ \A i \in 1..Len(ls) : f[i] = f[i - 1] + ls[i].cost
  BY <1>1, <1>2, SumsStep DEF IsSums
<1> DEFINE S == {m \in Nat : m =< Len(ls) => f[m] \in Nat}
<1>4. 0 \in S
  BY <1>3
<1>5. ASSUME NEW m \in Nat, m \in S
      PROVE  m + 1 \in S
  <2> SUFFICES ASSUME m + 1 =< Len(ls)
               PROVE  f[m + 1] \in Nat
    OBVIOUS
  <2>1. f[m] \in Nat /\ m + 1 \in 1..Len(ls) /\ m + 1 - 1 = m
    BY <1>2, <1>5
  <2>2. f[m + 1] = f[m] + ls[m + 1].cost
    BY <1>3, <2>1
  <2> QED
    BY <1>2, <2>1, <2>2
<1> HIDE DEF S
<1>6. Len(ls) \in S
  BY <1>2, <1>4, <1>5, NatSetInduction
<1> QED
  BY <1>1, <1>2, <1>6 DEF S

LEMMA CostOfOne ==
    ASSUME NEW ls \in Seq(Row), Len(ls) = 1
    PROVE  CostOf(ls) =< Budget
<1>1. ls # <<>> /\ Tail(ls) = <<>> /\ Head(ls).cost \in 1..Budget
  <2>1. ls # <<>> /\ Head(ls) = ls[1] /\ Tail(ls) \in Seq(Row) /\ Len(Tail(ls)) = 0
    BY HeadTailProperties, EmptySeq
  <2> QED
    BY <2>1, EmptySeq, RowCost
<1>2. CostOf(ls) = CostOf(<<>>) + Head(ls).cost
  BY <1>1, CostOfTail
<1> QED
  BY <1>1, <1>2, CostOfEmpty, SchedulerAssumption

-----------------------------------------------------------------------------
(* The positions at which a kernel is launched. *)

At(ls, k) == {i \in DOMAIN ls : ls[i].kernel = k}

LEMMA AtIs ==
    ASSUME NEW ls \in Seq(Row), NEW k
    PROVE  /\ At(ls, k) = {i \in 1..Len(ls) : ls[i].kernel = k}
           /\ At(ls, k) \in SUBSET Nat /\ IsFiniteSet(At(ls, k))
           /\ CountOf(ls, k) = Cardinality(At(ls, k))
           /\ LatestRatio(ls, k) = ls[Max(At(ls, k))].ratio
           /\ k \in KernelsOf(ls) <=> At(ls, k) # {}
<1>1. Len(ls) \in Nat /\ DOMAIN ls = 1..Len(ls)
  BY LenProperties
<1>2. IsFiniteSet(1..Len(ls))
  BY <1>1, FS_Interval
<1>3. At(ls, k) \in SUBSET (1..Len(ls))
  BY <1>1 DEF At
<1>4. IsFiniteSet(At(ls, k))
  BY <1>2, <1>3, FS_Subset
<1> QED
  BY <1>1, <1>3, <1>4 DEF At, CountOf, LatestRatio, KernelsOf

LEMMA CountBounds ==
    ASSUME NEW ls \in Seq(Row), NEW k
    PROVE  /\ CountOf(ls, k) \in 0..Len(ls)
           /\ k \in KernelsOf(ls) <=> CountOf(ls, k) > 0
<1>1. Len(ls) \in Nat
  BY LenProperties
<1>2. IsFiniteSet(1..Len(ls)) /\ Cardinality(1..Len(ls)) = Len(ls)
  BY <1>1, FS_Interval
<1>3. At(ls, k) \in SUBSET (1..Len(ls))
  BY AtIs
<1>4. Cardinality(At(ls, k)) =< Len(ls)
  BY <1>2, <1>3, FS_Subset
<1>5. IsFiniteSet(At(ls, k)) /\ Cardinality(At(ls, k)) \in Nat
  BY AtIs, FS_CardinalityType
<1>6. Cardinality(At(ls, k)) = 0 <=> At(ls, k) = {}
  BY <1>5, FS_EmptySet
<1> QED
  BY <1>1, <1>4, <1>5, <1>6, AtIs

\* A kernel of the deque has a latest launch, and its ratio is that launch's.
LEMMA LatestIs ==
    ASSUME NEW ls \in Seq(Row), NEW k \in KernelsOf(ls)
    PROVE  /\ Max(At(ls, k)) \in At(ls, k) /\ \A i \in At(ls, k) : i =< Max(At(ls, k))
           /\ LatestRatio(ls, k) \in 0..100
<1>1. At(ls, k) # {} /\ At(ls, k) \in SUBSET Nat /\ Len(ls) \in Nat
      /\ \A i \in At(ls, k) : i =< Len(ls)
  BY AtIs, LenProperties
<1>2. PICK x \in At(ls, k) : \A i \in At(ls, k) : i =< x
  BY <1>1, GreatestNat
<1>3. Max(At(ls, k)) = x
  BY <1>1, <1>2, MaxIs
<1>4. x \in 1..Len(ls)
  BY <1>2, AtIs
<1>5. ls[x] \in Row
  BY <1>4, ElementOfSeq
<1>6. ls[x].ratio \in 0..100
  BY <1>5 DEF Row
<1> QED
  BY <1>2, <1>3, <1>6, AtIs

\* What an appended launch does to the positions of a kernel.
LEMMA AtAppend ==
    ASSUME NEW ls \in Seq(Row), NEW l \in Row, NEW k
    PROVE  At(Append(ls, l), k) = IF k = l.kernel THEN At(ls, k) \cup {Len(ls) + 1} ELSE At(ls, k)
<1> DEFINE ms == Append(ls, l)
<1>1. ms \in Seq(Row) /\ Len(ms) = Len(ls) + 1 /\ ms[Len(ls) + 1] = l /\ Len(ls) \in Nat
      /\ \A i \in 1..Len(ls) : ms[i] = ls[i]
  BY AppendProperties, LenProperties
<1> HIDE DEF ms
<1>2. /\ At(ms, k) = {i \in 1..Len(ms) : ms[i].kernel = k}
      /\ At(ls, k) = {i \in 1..Len(ls) : ls[i].kernel = k}
  BY <1>1, AtIs
<1>3. 1..Len(ms) = 1..Len(ls) \cup {Len(ls) + 1}
  BY <1>1
<1>4. At(ms, k) = IF k = l.kernel THEN At(ls, k) \cup {Len(ls) + 1} ELSE At(ls, k)
  BY <1>1, <1>2, <1>3
<1> QED
  BY <1>4 DEF ms

\* The counts, kernels and latest ratios of an appended deque.
LEMMA AppendCounts ==
    ASSUME NEW ls \in Seq(Row), NEW l \in Row
    PROVE  /\ KernelsOf(Append(ls, l)) = KernelsOf(ls) \cup {l.kernel}
           /\ \A k : CountOf(Append(ls, l), k)
                      = IF k = l.kernel THEN CountOf(ls, k) + 1 ELSE CountOf(ls, k)
           /\ \A k \in KernelsOf(ls) \cup {l.kernel} :
                 LatestRatio(Append(ls, l), k)
                   = IF k = l.kernel THEN l.ratio ELSE LatestRatio(ls, k)
<1> DEFINE ms == Append(ls, l)
<1>1. ms \in Seq(Row) /\ Len(ms) = Len(ls) + 1 /\ ms[Len(ls) + 1] = l /\ Len(ls) \in Nat
      /\ \A i \in 1..Len(ls) : ms[i] = ls[i]
  BY AppendProperties, LenProperties
<1>2. ASSUME NEW k
      PROVE  At(ms, k) = IF k = l.kernel THEN At(ls, k) \cup {Len(ls) + 1} ELSE At(ls, k)
  BY AtAppend
<1> HIDE DEF ms
<1>3. ASSUME NEW k
      PROVE  k \in KernelsOf(ms) <=> k \in KernelsOf(ls) \/ k = l.kernel
  <2>1. k \in KernelsOf(ms) <=> At(ms, k) # {}
    BY <1>1, AtIs
  <2>2. k \in KernelsOf(ls) <=> At(ls, k) # {}
    BY AtIs
  <2> QED
    BY <1>2, <2>1, <2>2
<1>4. ASSUME NEW k
      PROVE  CountOf(ms, k) = IF k = l.kernel THEN CountOf(ls, k) + 1 ELSE CountOf(ls, k)
  <2>1. CountOf(ms, k) = Cardinality(At(ms, k)) /\ CountOf(ls, k) = Cardinality(At(ls, k))
        /\ IsFiniteSet(At(ls, k))
    BY <1>1, AtIs
  <2>2. Len(ls) + 1 \notin At(ls, k)
    BY <1>1, AtIs
  <2>3. Cardinality(At(ls, k) \cup {Len(ls) + 1}) = Cardinality(At(ls, k)) + 1
    BY <2>1, <2>2, FS_AddElement
  <2> QED
    BY <1>2, <2>1, <2>3
<1>5. ASSUME NEW k \in KernelsOf(ls) \cup {l.kernel}
      PROVE  LatestRatio(ms, k) = IF k = l.kernel THEN l.ratio ELSE LatestRatio(ls, k)
  <2>1. LatestRatio(ms, k) = ms[Max(At(ms, k))].ratio
        /\ LatestRatio(ls, k) = ls[Max(At(ls, k))].ratio
    BY <1>1, AtIs
  <2>2. CASE k = l.kernel
    <3>1. At(ms, k) \in SUBSET Nat /\ Len(ls) + 1 \in At(ms, k)
          /\ \A i \in At(ms, k) : i =< Len(ls) + 1
      BY <1>1, <1>2, <2>2, AtIs
    <3>2. Max(At(ms, k)) = Len(ls) + 1
      BY <3>1, MaxIs
    <3> QED
      BY <1>1, <2>1, <2>2, <3>2
  <2>3. CASE k # l.kernel
    <3>1. At(ms, k) = At(ls, k) /\ k \in KernelsOf(ls)
      BY <1>2, <2>3
    <3>2. Max(At(ls, k)) \in 1..Len(ls)
      BY <3>1, LatestIs, AtIs
    <3> QED
      BY <1>1, <2>1, <2>3, <3>1, <3>2
  <2> QED
    BY <2>2, <2>3
<1> QED
  BY <1>3, <1>4, <1>5 DEF ms

\* Without the oldest launch, the positions of a kernel move down by one.
LEMMA AtTail ==
    ASSUME NEW ls \in Seq(Row), ls # <<>>, NEW k
    PROVE  /\ At(Tail(ls), k) = {i \in Nat : i # 0 /\ i + 1 \in At(ls, k)}
           /\ Cardinality(At(Tail(ls), k)) = Cardinality(At(ls, k) \ {1})
<1> DEFINE ms == Tail(ls)
<1>1. ms \in Seq(Row) /\ Len(ls) \in Nat \ {0} /\ Len(ms) = Len(ls) - 1
      /\ \A i \in 1..Len(ms) : ms[i] = ls[i + 1]
  BY HeadTailProperties, EmptySeq, LenProperties
<1> HIDE DEF ms
<1>2. /\ At(ms, k) = {i \in 1..Len(ms) : ms[i].kernel = k}
      /\ At(ls, k) = {i \in 1..Len(ls) : ls[i].kernel = k}
      /\ IsFiniteSet(At(ls, k))
  BY <1>1, AtIs
<1>3. At(ms, k) = {i \in Nat : i # 0 /\ i + 1 \in At(ls, k)}
  <2>1. ASSUME NEW i \in Nat
        PROVE  i \in 1..Len(ms) <=> i # 0 /\ i + 1 \in 1..Len(ls)
    BY <1>1
  <2>2. ASSUME NEW i \in 1..Len(ms)
        PROVE  i \in Nat /\ (i \in At(ms, k) <=> i + 1 \in At(ls, k))
    BY <1>1, <1>2, <2>1
  <2> QED
    BY <1>2, <2>1, <2>2
<1>4. Cardinality(At(ms, k)) = Cardinality(At(ls, k) \ {1})
  <2> DEFINE S == At(ls, k) \ {1}
             shift == [i \in S |-> i - 1]
  <2>1. IsFiniteSet(S)
    BY <1>2, FS_RemoveElement
  <2>2. \A i \in S : i \in Nat /\ i > 1
    BY <1>1, <1>2
  <2>3. shift \in [S -> At(ms, k)]
    BY <1>3, <2>2
  <2>4. \A a, b \in S : shift[a] = shift[b] => a = b
    BY <2>2
  <2>5. \A j \in At(ms, k) : \E i \in S : shift[i] = j
    <3>1. ASSUME NEW j \in At(ms, k)
          PROVE  j + 1 \in S /\ shift[j + 1] = j
      BY <1>3
    <3> QED
      BY <3>1
  <2> HIDE DEF S, shift
  <2>6. ExistsBijection(S, At(ms, k))
    BY <2>3, <2>4, <2>5, Fun_IsBij DEF ExistsBijection
  <2>7. Cardinality(At(ms, k)) = Cardinality(S)
    BY <2>1, <2>6, FS_Bijection
  <2> QED
    BY <2>7 DEF S
<1> QED
  BY <1>3, <1>4 DEF ms

\* The counts, kernels and latest ratios of a deque that lost its oldest launch.
LEMMA TailCounts ==
    ASSUME NEW ls \in Seq(Row), ls # <<>>
    PROVE  /\ KernelsOf(Tail(ls)) = KernelsOf(ls)
                 \ (IF CountOf(ls, Head(ls).kernel) =< 1 THEN {Head(ls).kernel} ELSE {})
           /\ \A k : CountOf(Tail(ls), k)
                      = IF k = Head(ls).kernel THEN CountOf(ls, k) - 1 ELSE CountOf(ls, k)
           /\ \A k \in KernelsOf(Tail(ls)) : LatestRatio(Tail(ls), k) = LatestRatio(ls, k)
           /\ Head(ls).kernel \in KernelsOf(ls)
<1> DEFINE ms == Tail(ls)
           h  == Head(ls).kernel
<1>1. ms \in Seq(Row) /\ Len(ls) \in Nat \ {0} /\ Len(ms) = Len(ls) - 1 /\ Head(ls) = ls[1]
      /\ \A i \in 1..Len(ms) : ms[i] = ls[i + 1]
  BY HeadTailProperties, EmptySeq, LenProperties
<1>2. \A k : /\ At(ms, k) = {i \in Nat : i # 0 /\ i + 1 \in At(ls, k)}
             /\ Cardinality(At(ms, k)) = Cardinality(At(ls, k) \ {1})
  BY AtTail
<1>3. \A k : 1 \in At(ls, k) <=> k = h
  <2>1. ASSUME NEW k
        PROVE  1 \in At(ls, k) <=> k = h
    <3>1. At(ls, k) = {i \in 1..Len(ls) : ls[i].kernel = k}
      BY AtIs
    <3>2. 1 \in 1..Len(ls)
      BY <1>1
    <3> QED
      BY <1>1, <3>1, <3>2
  <2> QED
    BY <2>1
<1> HIDE DEF ms, h
<1>4. ASSUME NEW k
      PROVE  CountOf(ms, k) = IF k = h THEN CountOf(ls, k) - 1 ELSE CountOf(ls, k)
  <2>1. CountOf(ms, k) = Cardinality(At(ms, k)) /\ CountOf(ls, k) = Cardinality(At(ls, k))
        /\ IsFiniteSet(At(ls, k))
    BY <1>1, AtIs
  <2>2. Cardinality(At(ls, k) \ {1})
          = IF 1 \in At(ls, k) THEN Cardinality(At(ls, k)) - 1 ELSE Cardinality(At(ls, k))
    BY <2>1, FS_RemoveElement
  <2> QED
    BY <1>2, <1>3, <2>1, <2>2
<1>5. ASSUME NEW k
      PROVE  k \in KernelsOf(ms) <=> k \in KernelsOf(ls) /\ (k = h => CountOf(ls, k) > 1)
  <2>1. /\ k \in KernelsOf(ms) <=> CountOf(ms, k) > 0
        /\ k \in KernelsOf(ls) <=> CountOf(ls, k) > 0
        /\ CountOf(ls, k) \in Nat
    BY <1>1, CountBounds
  <2> QED
    BY <1>4, <2>1
<1>6. h \in KernelsOf(ls)
  <2>1. At(ls, h) # {}
    BY <1>3
  <2> QED
    BY <2>1, AtIs
<1>7. KernelsOf(ms) = KernelsOf(ls) \ (IF CountOf(ls, h) =< 1 THEN {h} ELSE {})
  <2>1. CountOf(ls, h) \in Nat
    BY CountBounds
  <2> QED
    BY <1>5, <2>1
<1>8. ASSUME NEW k \in KernelsOf(ms)
      PROVE  LatestRatio(ms, k) = LatestRatio(ls, k)
  <2>1. LatestRatio(ms, k) = ms[Max(At(ms, k))].ratio
        /\ LatestRatio(ls, k) = ls[Max(At(ls, k))].ratio
    BY <1>1, AtIs
  <2>2. PICK x : x = Max(At(ms, k))
    OBVIOUS
  <2>3. x \in At(ms, k) /\ (\A i \in At(ms, k) : i =< x) /\ x \in 1..Len(ms)
    BY <1>1, <2>2, LatestIs, AtIs
  <2>4. x + 1 \in At(ls, k) /\ x + 1 \in Nat
    BY <1>2, <2>3
  <2>5. At(ls, k) \in SUBSET Nat /\ \A i \in At(ls, k) : i >= 1
    BY AtIs
  <2>6. ASSUME NEW i \in At(ls, k)
        PROVE  i =< x + 1
    <3>1. CASE i = 1
      BY <2>3, <3>1
    <3>2. CASE i # 1
      <4>1. i - 1 \in Nat /\ i - 1 # 0 /\ i - 1 + 1 = i
        BY <2>5, <3>2
      <4>2. i - 1 \in At(ms, k)
        BY <1>2, <4>1
      <4>3. i - 1 =< x
        BY <2>3, <4>2
      <4> QED
        BY <2>3, <2>5, <4>3
    <3> QED
      BY <3>1, <3>2
  <2>7. Max(At(ls, k)) = x + 1
    BY <2>4, <2>5, <2>6, MaxIs
  <2> QED
    BY <1>1, <2>1, <2>2, <2>3, <2>7
<1> QED
  BY <1>4, <1>6, <1>7, <1>8 DEF ms, h

-----------------------------------------------------------------------------
(* The signature of a deque: the three kernels launched most. *)

LEMMA FirstIs ==
    ASSUME NEW ks \in SUBSET Nat, ks # {}, NEW counts, NEW bound \in Nat,
           \A k \in ks : counts[k] \in 0..bound
    PROVE  /\ First(counts, ks) \in ks
           /\ \A other \in ks \ {First(counts, ks)} : RanksBefore(counts, First(counts, ks), other)
<1> DEFINE Values == {counts[k] : k \in ks}
<1>1. Values \in SUBSET Nat /\ Values # {} /\ \A n \in Values : n =< bound
  <2>1. \A k \in ks : counts[k] \in Nat /\ counts[k] =< bound
    OBVIOUS
  <2> QED
    BY <2>1
<1>2. PICK m \in Values : \A n \in Values : n =< m
  BY <1>1, GreatestNat
<1> DEFINE Most == {k \in ks : counts[k] = m}
<1>3. Most \in SUBSET Nat /\ Most # {}
  OBVIOUS
<1>4. PICK a \in Most : \A k \in Most : a =< k
  BY <1>3, LeastNat
<1>5. a \in ks /\ \A other \in ks \ {a} : RanksBefore(counts, a, other)
  <2>1. ASSUME NEW other \in ks \ {a}
        PROVE  RanksBefore(counts, a, other)
    <3>1. counts[other] \in Values /\ counts[other] =< m /\ counts[a] = m /\ m \in Nat
          /\ counts[other] \in Nat /\ a \in Nat /\ other \in Nat
      BY <1>1, <1>2
    <3>2. CASE counts[other] = m
      <4>1. other \in Most
        BY <3>2
      <4>2. a =< other
        BY <1>4, <4>1
      <4>3. a < other
        BY <3>1, <4>2
      <4> QED
        BY <3>1, <3>2, <4>3 DEF RanksBefore
    <3>3. CASE counts[other] # m
      BY <3>1, <3>3 DEF RanksBefore
    <3> QED
      BY <3>2, <3>3
  <2> QED
    BY <2>1
<1>6. First(counts, ks)
        = CHOOSE k \in ks : \A other \in ks \ {k} : RanksBefore(counts, k, other)
  BY DEF First
<1> QED
  BY <1>5, <1>6, Zenon

LEMMA KernelsFinite ==
    ASSUME NEW ls \in Seq(Row)
    PROVE  /\ KernelsOf(ls) \in SUBSET Nat /\ IsFiniteSet(KernelsOf(ls))
           /\ ls # <<>> => KernelsOf(ls) # {}
<1>1. Len(ls) \in Nat /\ DOMAIN ls = 1..Len(ls) /\ \A i \in 1..Len(ls) : ls[i].kernel \in Nat
  BY RowCost, LenProperties
<1>2. KernelsOf(ls) \in SUBSET Nat
  BY <1>1 DEF KernelsOf
<1>3. IsFiniteSet(1..Len(ls))
  BY <1>1, FS_Interval
<1> DEFINE f == [i \in 1..Len(ls) |-> ls[i].kernel]
<1>4. f \in Surjection(1..Len(ls), KernelsOf(ls))
  <2>1. KernelsOf(ls) = {ls[i].kernel : i \in 1..Len(ls)}
    BY <1>1 DEF KernelsOf
  <2>2. f \in [1..Len(ls) -> KernelsOf(ls)]
    BY <2>1
  <2>3. \A k \in KernelsOf(ls) : \E i \in 1..Len(ls) : f[i] = k
    BY <2>1
  <2> QED
    BY <2>2, <2>3, Fun_IsSurj
<1> HIDE DEF f
<1>5. IsFiniteSet(KernelsOf(ls))
  BY <1>3, <1>4, FS_Surjection
<1>6. ASSUME ls # <<>>
      PROVE  KernelsOf(ls) # {}
  <2>1. Len(ls) # 0
    BY <1>6, EmptySeq
  <2>2. 1 \in DOMAIN ls
    BY <1>1, <2>1
  <2> QED
    BY <2>2 DEF KernelsOf
<1> QED
  BY <1>2, <1>5, <1>6

\* The counts are those of the launches.
Counts(counts, ls) ==
    /\ DOMAIN counts = KernelsOf(ls)
    /\ \A k \in KernelsOf(ls) : counts[k] = CountOf(ls, k)

\* top holds the first of the kernels ks in the order of the counts.
TopOf(top, ls) ==
    /\ top \in Seq(Nat)
    /\ Len(top) = IF Cardinality(KernelsOf(ls)) < 3 THEN Cardinality(KernelsOf(ls)) ELSE 3
    /\ \A i, j \in 1..Len(top) : i < j => Beats(ls, top[i], top[j])
    /\ \A k \in KernelsOf(ls) \ ToSet(top) : Beats(ls, top[Len(top)], k)

LEMMA FirstKernel ==
    ASSUME NEW ls \in Seq(Row), NEW counts, Counts(counts, ls),
           NEW ks \in SUBSET KernelsOf(ls), ks # {}
    PROVE  /\ First(counts, ks) \in ks
           /\ \A k \in ks \ {First(counts, ks)} : Beats(ls, First(counts, ks), k)
<1>1. ks \in SUBSET Nat
  BY KernelsFinite
<1>2. Len(ls) \in Nat /\ \A k \in ks : counts[k] \in 0..Len(ls)
  BY CountBounds, LenProperties DEF Counts
<1> DEFINE a == First(counts, ks)
<1>3. a \in ks /\ \A k \in ks \ {a} : RanksBefore(counts, a, k)
  BY <1>1, <1>2, FirstIs
<1> HIDE DEF a
<1>4. ASSUME NEW k \in ks \ {a}
      PROVE  Beats(ls, a, k)
  <2>1. counts[a] = CountOf(ls, a) /\ counts[k] = CountOf(ls, k)
    BY <1>3 DEF Counts
  <2> QED
    BY <1>3, <2>1 DEF RanksBefore, Beats
<1> QED
  BY <1>3, <1>4 DEF a

LEMMA TopIs ==
    ASSUME NEW ls \in Seq(Row), ls # <<>>, NEW counts, Counts(counts, ls)
    PROVE  TopOf(Top3(counts), ls)
<1> DEFINE all == KernelsOf(ls)
           a   == First(counts, all)
           b   == First(counts, all \ {a})
           c   == First(counts, all \ {a, b})
           top == Top3(counts)
<1>0. all # {} /\ all \in SUBSET Nat /\ IsFiniteSet(all) /\ DOMAIN counts = all
  BY KernelsFinite DEF Counts
<1>1. top = IF all \ {a} = {} THEN <<a>> ELSE IF all \ {a, b} = {} THEN <<a, b>> ELSE <<a, b, c>>
  BY <1>0 DEF Top3
<1>2. a \in all /\ \A k \in all \ {a} : Beats(ls, a, k)
  BY <1>0, FirstKernel
<1>3. all \ {a} # {} => b \in all \ {a} /\ \A k \in (all \ {a}) \ {b} : Beats(ls, b, k)
  BY FirstKernel
<1>4. all \ {a, b} # {} => c \in all \ {a, b} /\ \A k \in (all \ {a, b}) \ {c} : Beats(ls, c, k)
  BY FirstKernel
<1> HIDE DEF all, a, b, c, top
<1>5. CASE all \ {a} = {}
  <2>1. top = <<a>> /\ all = {a}
    BY <1>1, <1>2, <1>5
  <2>2. Cardinality(all) = 1
    BY <2>1, FS_Singleton
  <2>3. top \in Seq(Nat) /\ Len(top) = 1
    BY <1>0, <1>2, <2>1
  <2>4. all \ ToSet(top) = {}
    BY <2>1 DEF ToSet
  <2>5. TopOf(top, ls)
    BY <2>2, <2>3, <2>4 DEF TopOf, all
  <2> QED
    BY <2>5 DEF top
<1>6. CASE all \ {a} # {} /\ all \ {a, b} = {}
  <2>1. top = <<a, b>> /\ all = {a, b} /\ a # b /\ b \in all /\ Beats(ls, a, b)
    BY <1>1, <1>2, <1>3, <1>6
  <2>2. Cardinality(all) = 2
    <3>1. PICK one : one = {a}
      OBVIOUS
    <3>2. IsFiniteSet(one) /\ Cardinality(one) = 1 /\ b \notin one /\ all = one \cup {b}
      BY <2>1, <3>1, FS_Singleton
    <3>3. Cardinality(one \cup {b}) = Cardinality(one) + 1
      BY <3>2, FS_AddElement
    <3> QED
      BY <3>2, <3>3
  <2>3. top \in Seq(Nat) /\ Len(top) = 2 /\ top[1] = a /\ top[2] = b
    BY <1>0, <1>2, <2>1
  <2>4. all \ ToSet(top) = {}
    BY <2>1 DEF ToSet
  <2>5. \A i, j \in 1..Len(top) : i < j => Beats(ls, top[i], top[j])
    BY <2>1, <2>3
  <2>6. TopOf(top, ls)
    BY <2>2, <2>3, <2>4, <2>5 DEF TopOf, all
  <2> QED
    BY <2>6 DEF top
<1>7. CASE all \ {a} # {} /\ all \ {a, b} # {}
  <2>1. top = <<a, b, c>> /\ a # b /\ c \notin {a, b} /\ b \in all /\ c \in all
        /\ Beats(ls, a, b) /\ Beats(ls, a, c) /\ Beats(ls, b, c)
        /\ \A k \in all \ {a, b, c} : Beats(ls, c, k)
    BY <1>1, <1>2, <1>3, <1>4, <1>7
  <2>2. Cardinality(all) >= 3
    <3>1. PICK one, two, three : one = {a} /\ two = one \cup {b} /\ three = two \cup {c}
      OBVIOUS
    <3>2. Cardinality(one) = 1 /\ IsFiniteSet(one) /\ b \notin one /\ c \notin two
          /\ three \in SUBSET all
      BY <1>2, <2>1, <3>1, FS_Singleton
    <3>3. Cardinality(one \cup {b}) = Cardinality(one) + 1 /\ IsFiniteSet(one \cup {b})
      BY <3>2, FS_AddElement
    <3>4. Cardinality(two) = 2 /\ IsFiniteSet(two)
      BY <3>1, <3>2, <3>3
    <3>5. Cardinality(two \cup {c}) = Cardinality(two) + 1
      BY <3>2, <3>4, FS_AddElement
    <3>6. Cardinality(three) =< Cardinality(all)
      BY <1>0, <3>2, FS_Subset
    <3>7. Cardinality(all) \in Nat
      BY <1>0, FS_CardinalityType
    <3>8. Cardinality(three) = Cardinality(two) + 1
      <4>1. three = two \cup {c}
        BY <3>1
      <4> QED
        BY <3>5, <4>1, Zenon
    <3>9. Cardinality(three) = 3
      BY <3>4, <3>8
    <3> QED
      BY <3>6, <3>7, <3>9
  <2>3. top \in Seq(Nat) /\ Len(top) = 3 /\ top[1] = a /\ top[2] = b /\ top[3] = c
    BY <1>0, <1>2, <2>1
  <2>4. ToSet(top) = {a, b, c}
    BY <2>1 DEF ToSet
  <2>5. \A i, j \in 1..Len(top) : i < j => Beats(ls, top[i], top[j])
    BY <2>1, <2>3
  <2>6. Cardinality(all) \in Nat
    BY <1>0, FS_CardinalityType
  <2>7. \A k \in all \ ToSet(top) : Beats(ls, top[Len(top)], k)
    BY <2>1, <2>3, <2>4
  <2>8. Len(top) = IF Cardinality(all) < 3 THEN Cardinality(all) ELSE 3
    BY <2>2, <2>3, <2>6
  <2>9. TopOf(top, ls)
    BY <2>3, <2>5, <2>7, <2>8 DEF TopOf, all
  <2> QED
    BY <2>9 DEF top
<1> QED
  BY <1>5, <1>6, <1>7

-----------------------------------------------------------------------------
(* The deque of a stream. *)

\* st is a record with the fields of a StreamState.
Stream(st) ==
    st = [launches |-> st.launches, cost |-> st.cost, counts |-> st.counts,
          ratios |-> st.ratios, first |-> st.first, occurrences |-> st.occurrences,
          evicted |-> st.evicted, unready |-> st.unready]

\* The ratios are the latest ones.
Ratios(ratios, ls) ==
    /\ DOMAIN ratios = KernelsOf(ls)
    /\ \A k \in KernelsOf(ls) : ratios[k] = LatestRatio(ls, k)

\* The cost, counts and ratios kept for the deque are those of its launches.
DequeOf(st) ==
    /\ Stream(st)
    /\ st.launches \in Seq(Row) /\ st.cost = CostOf(st.launches)
    /\ Counts(st.counts, st.launches) /\ Ratios(st.ratios, st.launches)
    /\ st.evicted \in Nat /\ st.unready \in Nat

SameTables(st, x) ==
    x.first = st.first /\ x.occurrences = st.occurrences

LEMMA EnterFields ==
    ASSUME NEW st, Stream(st), NEW l
    PROVE  /\ Stream(Enter(st, l)) /\ SameTables(st, Enter(st, l))
           /\ Enter(st, l).launches = Append(st.launches, l)
           /\ Enter(st, l).cost = st.cost + l.cost
           /\ Enter(st, l).counts = Set(st.counts, l.kernel, Get(st.counts, l.kernel, 0) + 1)
           /\ Enter(st, l).ratios = Set(st.ratios, l.kernel, l.ratio)
           /\ Enter(st, l).evicted = st.evicted /\ Enter(st, l).unready = st.unready
<1>1. /\ DOMAIN st = {"launches", "cost", "counts", "ratios", "first", "occurrences", "evicted",
                       "unready"}
      /\ st = [f \in DOMAIN st |-> st[f]]
  BY DEF Stream
<1> DEFINE x == Enter(st, l)
<1>2. x = [f \in DOMAIN st |->
             IF f = "launches" THEN Append(st.launches, l)
             ELSE IF f = "cost" THEN st.cost + l.cost
             ELSE IF f = "counts" THEN Set(st.counts, l.kernel, Get(st.counts, l.kernel, 0) + 1)
             ELSE IF f = "ratios" THEN Set(st.ratios, l.kernel, l.ratio)
             ELSE st[f]]
  BY <1>1 DEF Enter
<1> HIDE DEF x
<1>3. /\ x.launches = Append(st.launches, l) /\ x.cost = st.cost + l.cost
      /\ x.counts = Set(st.counts, l.kernel, Get(st.counts, l.kernel, 0) + 1)
      /\ x.ratios = Set(st.ratios, l.kernel, l.ratio)
      /\ x.first = st.first /\ x.occurrences = st.occurrences
      /\ x.evicted = st.evicted /\ x.unready = st.unready /\ DOMAIN x = DOMAIN st
  BY <1>1, <1>2
<1>4. x = [f \in DOMAIN x |-> x[f]]
  BY <1>2
<1>5. Stream(x)
  BY <1>1, <1>3, <1>4 DEF Stream
<1> QED
  BY <1>3, <1>5 DEF x, SameTables

LEMMA EnterDeque ==
    ASSUME NEW st, DequeOf(st), NEW l \in Row
    PROVE  /\ DequeOf(Enter(st, l)) /\ SameTables(st, Enter(st, l))
           /\ Enter(st, l).launches = Append(st.launches, l)
           /\ Enter(st, l).cost = st.cost + l.cost
<1> DEFINE ls == st.launches
           ms == Append(ls, l)
           x  == Enter(st, l)
<1>1. /\ Stream(x) /\ SameTables(st, x) /\ x.launches = ms /\ x.cost = st.cost + l.cost
      /\ x.counts = Set(st.counts, l.kernel, Get(st.counts, l.kernel, 0) + 1)
      /\ x.ratios = Set(st.ratios, l.kernel, l.ratio)
      /\ x.evicted = st.evicted /\ x.unready = st.unready
  BY EnterFields DEF DequeOf
<1>2. /\ ls \in Seq(Row) /\ st.cost = CostOf(ls)
      /\ Counts(st.counts, ls) /\ Ratios(st.ratios, ls)
      /\ st.evicted \in Nat /\ st.unready \in Nat
  BY DEF DequeOf
<1>3. ms \in Seq(Row) /\ CostOf(ms) = CostOf(ls) + l.cost
  BY <1>2, AppendProperties, CostOfAppend
<1>4. /\ KernelsOf(ms) = KernelsOf(ls) \cup {l.kernel}
      /\ \A k : CountOf(ms, k) = IF k = l.kernel THEN CountOf(ls, k) + 1 ELSE CountOf(ls, k)
      /\ \A k \in KernelsOf(ls) \cup {l.kernel} :
            LatestRatio(ms, k) = IF k = l.kernel THEN l.ratio ELSE LatestRatio(ls, k)
  BY <1>2, AppendCounts
<1> HIDE DEF ls, ms, x
<1>5. Counts(x.counts, ms)
  <2>1. Get(st.counts, l.kernel, 0) = CountOf(ls, l.kernel)
    <3>1. CASE l.kernel \in KernelsOf(ls)
      BY <1>2, <3>1 DEF Counts, Get
    <3>2. CASE l.kernel \notin KernelsOf(ls)
      <4>1. CountOf(ls, l.kernel) = 0
        BY <1>2, <3>2, CountBounds
      <4> QED
        BY <1>2, <3>2, <4>1 DEF Counts, Get
    <3> QED
      BY <3>1, <3>2
  <2>2. DOMAIN st.counts = KernelsOf(ls) /\ \A k \in KernelsOf(ls) : st.counts[k] = CountOf(ls, k)
    BY <1>2 DEF Counts
  <2> QED
    BY <1>1, <1>4, <2>1, <2>2 DEF Counts, Set
<1>6. Ratios(x.ratios, ms)
  BY <1>1, <1>2, <1>4 DEF Ratios, Set
<1> QED
  BY <1>1, <1>2, <1>3, <1>5, <1>6 DEF DequeOf, ls, ms, x

LEMMA EvictFields ==
    ASSUME NEW st, Stream(st), ~(st.cost =< Budget)
    PROVE  LET k      == Head(st.launches).kernel
               counts == Decrement(st.counts, k)
               x      == EvictOne(st)
           IN  /\ Stream(x) /\ SameTables(st, x)
               /\ x.launches = Tail(st.launches) /\ x.cost = st.cost - Head(st.launches).cost
               /\ x.counts = counts
               /\ x.ratios = IF k \in DOMAIN counts THEN st.ratios ELSE Del(st.ratios, k)
               /\ x.evicted = st.evicted + 1 /\ x.unready = st.unready
BY DEF Stream, EvictOne, SameTables

\* A deque over the budget holds a launch, and without the oldest it is a deque again.
LEMMA EvictDeque ==
    ASSUME NEW st, DequeOf(st), ~(st.cost =< Budget)
    PROVE  /\ st.launches # <<>>
           /\ DequeOf(EvictOne(st)) /\ SameTables(st, EvictOne(st))
           /\ EvictOne(st).launches = Tail(st.launches)
<1> DEFINE ls == st.launches
           ms == Tail(ls)
           x  == EvictOne(st)
           k  == Head(ls).kernel
<1>1. /\ Stream(x) /\ SameTables(st, x) /\ x.launches = ms
      /\ x.cost = st.cost - Head(ls).cost
      /\ x.counts = Decrement(st.counts, k)
      /\ x.ratios = IF k \in DOMAIN Decrement(st.counts, k) THEN st.ratios ELSE Del(st.ratios, k)
      /\ x.evicted = st.evicted + 1 /\ x.unready = st.unready
  BY EvictFields DEF DequeOf
<1>2. /\ ls \in Seq(Row) /\ st.cost = CostOf(ls)
      /\ Counts(st.counts, ls) /\ Ratios(st.ratios, ls)
      /\ st.evicted \in Nat /\ st.unready \in Nat
  BY DEF DequeOf
<1>3. ls # <<>>
  BY <1>2, CostOfEmpty, SchedulerAssumption
<1>4. ms \in Seq(Row) /\ CostOf(ls) = CostOf(ms) + Head(ls).cost /\ CostOf(ms) \in Int
      /\ Head(ls).cost \in Int
  <2>1. Head(ls) \in Row
    BY <1>2, <1>3, HeadTailProperties
  <2>2. Head(ls).cost \in Int
    BY <2>1, SchedulerAssumption DEF Row
  <2>3. ms \in Seq(Row) /\ CostOf(ls) = CostOf(ms) + Head(ls).cost
    BY <1>2, <1>3, HeadTailProperties, CostOfTail
  <2>4. CostOf(ms) \in Nat
    BY <2>3, CostOfType
  <2> QED
    BY <2>2, <2>3, <2>4
<1>5. /\ KernelsOf(ms) = KernelsOf(ls) \ (IF CountOf(ls, k) =< 1 THEN {k} ELSE {})
      /\ \A j : CountOf(ms, j) = IF j = k THEN CountOf(ls, j) - 1 ELSE CountOf(ls, j)
      /\ \A j \in KernelsOf(ms) : LatestRatio(ms, j) = LatestRatio(ls, j)
      /\ k \in KernelsOf(ls)
  BY <1>2, <1>3, TailCounts
<1> HIDE DEF ls, ms, x, k
<1>6. /\ DOMAIN st.counts = KernelsOf(ls) /\ st.counts[k] = CountOf(ls, k)
      /\ \A j \in KernelsOf(ls) : st.counts[j] = CountOf(ls, j)
  BY <1>2, <1>5 DEF Counts
<1>7. DOMAIN Decrement(st.counts, k) = KernelsOf(ms)
      /\ Counts(Decrement(st.counts, k), ms)
  <2>1. CASE st.counts[k] =< 1
    <3>1. Decrement(st.counts, k) = [j \in KernelsOf(ls) \ {k} |-> st.counts[j]]
      BY <1>6, <2>1 DEF Decrement, Del
    <3>2. KernelsOf(ms) = KernelsOf(ls) \ {k}
      BY <1>5, <1>6, <2>1
    <3> QED
      BY <1>5, <1>6, <3>1, <3>2 DEF Counts
  <2>2. CASE ~(st.counts[k] =< 1)
    <3>1. Decrement(st.counts, k)
            = [j \in KernelsOf(ls) \cup {k} |-> IF j = k THEN st.counts[k] - 1 ELSE st.counts[j]]
      BY <1>6, <2>2 DEF Decrement, Set
    <3>2. KernelsOf(ms) = KernelsOf(ls) /\ KernelsOf(ls) \cup {k} = KernelsOf(ls)
      BY <1>5, <1>6, <2>2
    <3> QED
      BY <1>5, <1>6, <3>1, <3>2 DEF Counts
  <2> QED
    BY <2>1, <2>2
<1>8. Ratios(x.ratios, ms)
  <2>1. DOMAIN st.ratios = KernelsOf(ls) /\ \A j \in KernelsOf(ls) : st.ratios[j] = LatestRatio(ls, j)
    BY <1>2 DEF Ratios
  <2>2. CASE k \in KernelsOf(ms)
    <3>1. x.ratios = st.ratios /\ KernelsOf(ms) = KernelsOf(ls)
      BY <1>1, <1>5, <1>7, <2>2
    <3> QED
      BY <1>5, <2>1, <3>1 DEF Ratios
  <2>3. CASE k \notin KernelsOf(ms)
    <3>1. x.ratios = [j \in KernelsOf(ls) \ {k} |-> st.ratios[j]]
      BY <1>1, <1>7, <2>1, <2>3 DEF Del
    <3>2. KernelsOf(ms) = KernelsOf(ls) \ {k}
      BY <1>5, <2>3
    <3> QED
      BY <1>5, <2>1, <3>1, <3>2 DEF Ratios
  <2> QED
    BY <2>2, <2>3
<1> QED
  BY <1>1, <1>2, <1>3, <1>4, <1>7, <1>8 DEF DequeOf, ls, ms, x, k

-----------------------------------------------------------------------------
(* A deque, and a window, is a run of the stream's launches. *)

\* ls are the launches of full that end at position upto.
RunOf(ls, full, upto) ==
    /\ Len(ls) =< upto /\ upto =< Len(full)
    /\ \A i \in 1..Len(ls) : ls[i] = full[upto - Len(ls) + i]

LEMMA RunTail ==
    ASSUME NEW ls \in Seq(Row), NEW full \in Seq(Row), NEW upto \in Nat, ls # <<>>,
           RunOf(ls, full, upto)
    PROVE  RunOf(Tail(ls), full, upto)
<1> DEFINE ms == Tail(ls)
<1>1. ms \in Seq(Row) /\ Len(ls) \in Nat \ {0} /\ Len(ms) = Len(ls) - 1
      /\ \A i \in 1..Len(ms) : ms[i] = ls[i + 1]
  BY HeadTailProperties, EmptySeq, LenProperties
<1> HIDE DEF ms
<1>2. ASSUME NEW i \in 1..Len(ms)
      PROVE  ms[i] = full[upto - Len(ms) + i]
  <2>1. i + 1 \in 1..Len(ls) /\ upto - Len(ls) + (i + 1) = upto - Len(ms) + i
    BY <1>1
  <2>2. ls[i + 1] = full[upto - Len(ls) + (i + 1)]
    BY <2>1 DEF RunOf
  <2> QED
    BY <1>1, <2>1, <2>2
<1>3. Len(ms) =< upto /\ upto =< Len(full)
  BY <1>1 DEF RunOf
<1> QED
  BY <1>2, <1>3 DEF RunOf, ms

LEMMA RunAppend ==
    ASSUME NEW ls \in Seq(Row), NEW full \in Seq(Row), NEW l \in Row,
           RunOf(ls, full, Len(full))
    PROVE  RunOf(Append(ls, l), Append(full, l), Len(Append(full, l)))
<1> DEFINE ms == Append(ls, l)
           fs == Append(full, l)
<1>1. /\ ms \in Seq(Row) /\ Len(ms) = Len(ls) + 1 /\ Len(ls) \in Nat /\ ms[Len(ls) + 1] = l
      /\ \A i \in 1..Len(ls) : ms[i] = ls[i]
  BY AppendProperties, LenProperties
<1>2. /\ fs \in Seq(Row) /\ Len(fs) = Len(full) + 1 /\ Len(full) \in Nat /\ fs[Len(full) + 1] = l
      /\ \A i \in 1..Len(full) : fs[i] = full[i]
  BY AppendProperties, LenProperties
<1> HIDE DEF ms, fs
<1>3. Len(ls) =< Len(full)
  BY DEF RunOf
<1>4. ASSUME NEW i \in 1..Len(ms)
      PROVE  ms[i] = fs[Len(fs) - Len(ms) + i]
  <2>1. CASE i = Len(ls) + 1
    <3>1. Len(fs) - Len(ms) + i = Len(full) + 1
      BY <1>1, <1>2, <2>1
    <3> QED
      BY <1>1, <1>2, <2>1, <3>1
  <2>2. CASE i # Len(ls) + 1
    <3>1. i \in 1..Len(ls) /\ Len(fs) - Len(ms) + i = Len(full) - Len(ls) + i
      BY <1>1, <1>2, <2>2
    <3>2. ls[i] = full[Len(full) - Len(ls) + i]
      BY <3>1 DEF RunOf
    <3>3. Len(full) - Len(ls) + i \in 1..Len(full)
      BY <1>1, <1>2, <1>3, <3>1
    <3> QED
      BY <1>1, <1>2, <3>1, <3>2, <3>3
  <2> QED
    BY <2>1, <2>2
<1>5. Len(ms) =< Len(fs) /\ Len(fs) =< Len(fs)
  BY <1>1, <1>2, <1>3
<1>6. RunOf(ms, fs, Len(fs))
  BY <1>4, <1>5 DEF RunOf
<1> QED
  BY <1>6 DEF ms, fs

LEMMA RunKept ==
    ASSUME NEW ls \in Seq(Row), NEW full \in Seq(Row), NEW l \in Row, NEW upto \in Nat,
           RunOf(ls, full, upto)
    PROVE  RunOf(ls, Append(full, l), upto)
<1> DEFINE fs == Append(full, l)
<1>1. /\ fs \in Seq(Row) /\ Len(fs) = Len(full) + 1 /\ Len(full) \in Nat /\ Len(ls) \in Nat
      /\ \A i \in 1..Len(full) : fs[i] = full[i]
  BY AppendProperties, LenProperties
<1> HIDE DEF fs
<1>2. Len(ls) =< upto /\ upto =< Len(full)
  BY DEF RunOf
<1>3. ASSUME NEW i \in 1..Len(ls)
      PROVE  ls[i] = fs[upto - Len(ls) + i]
  <2>1. ls[i] = full[upto - Len(ls) + i]
    BY DEF RunOf
  <2>2. upto - Len(ls) + i \in 1..Len(full)
    BY <1>1, <1>2
  <2> QED
    BY <1>1, <2>1, <2>2
<1> QED
  BY <1>1, <1>2, <1>3 DEF RunOf, fs

LEMMA RunIsSubSeq ==
    ASSUME NEW ls \in Seq(Row), NEW full \in Seq(Row), NEW upto \in Nat, RunOf(ls, full, upto)
    PROVE  ls = SubSeq(full, upto - Len(ls) + 1, upto)
<1>1. Len(ls) \in Nat /\ Len(full) \in Nat /\ Len(ls) =< upto /\ upto =< Len(full)
  BY LenProperties DEF RunOf
<1> DEFINE from == upto - Len(ls) + 1
           ms   == SubSeq(full, from, upto)
<1>2. from \in Int /\ upto \in Int /\ upto - from + 1 = Len(ls) /\ from >= 1
  BY <1>1
<1>3. \A i \in from..upto : full[i] \in Row
  BY <1>1, <1>2, ElementOfSeq
<1> HIDE DEF from
<1>4. /\ ms \in Seq(Row) /\ Len(ms) = (IF from =< upto THEN upto - from + 1 ELSE 0)
      /\ \A i \in 1..(upto - from + 1) : ms[i] = full[from + i - 1]
  BY <1>2, <1>3, SubSeqProperties
<1>5. Len(ms) = Len(ls)
  BY <1>1, <1>2, <1>4
<1>6. ASSUME NEW i \in 1..Len(ls)
      PROVE  ls[i] = ms[i]
  <2>1. ls[i] = full[upto - Len(ls) + i]
    BY DEF RunOf
  <2>2. from + i - 1 = upto - Len(ls) + i
    BY <1>1 DEF from
  <2> QED
    BY <1>2, <1>4, <2>1, <2>2
<1> HIDE DEF ms
<1>7. ls = ms
  BY <1>4, <1>5, <1>6, SeqEqual
<1> QED
  BY <1>7 DEF ms, from

-----------------------------------------------------------------------------
(* The eviction loop. *)

\* f holds the stream after each of the first m iterations.
Loops(f, st, m) == f = [n \in 0..m |-> IF n = 0 THEN st ELSE EvictOne(f[n - 1])]

LEMMA LoopExists ==
    ASSUME NEW st, NEW length \in Nat
    PROVE  \E f : Loops(f, st, length)
<1> DEFINE S == {m \in Nat : \E f : Loops(f, st, m)}
<1>1. 0 \in S
  <2>1. Loops([n \in 0..0 |-> st], st, 0)
    BY DEF Loops
  <2> QED
    BY <2>1
<1>2. ASSUME NEW m \in Nat, m \in S
      PROVE  m + 1 \in S
  <2>1. PICK f : Loops(f, st, m)
    BY <1>2
  <2> DEFINE g == [n \in 0..(m + 1) |-> IF n =< m THEN f[n] ELSE EvictOne(f[m])]
  <2>2. f[0] = st /\ \A n \in 1..m : f[n] = EvictOne(f[n - 1])
    BY <2>1 DEF Loops
  <2>3. ASSUME NEW n \in 0..(m + 1)
        PROVE  g[n] = IF n = 0 THEN st ELSE EvictOne(g[n - 1])
    <3>1. CASE n = 0
      BY <2>2, <3>1
    <3>2. CASE n = m + 1
      <4>1. n - 1 = m /\ g[n - 1] = f[m] /\ g[n] = EvictOne(f[m]) /\ n # 0
        BY <3>2
      <4> QED
        BY <4>1
    <3>3. CASE n # 0 /\ n # m + 1
      <4>1. n \in 1..m /\ n - 1 \in 0..m
        BY <3>3
      <4>2. g[n] = f[n] /\ g[n - 1] = f[n - 1]
        BY <4>1
      <4> QED
        BY <2>2, <3>3, <4>1, <4>2
    <3> QED
      BY <3>1, <3>2, <3>3
  <2>4. DOMAIN g = 0..(m + 1) /\ g = [n \in 0..(m + 1) |-> g[n]]
    OBVIOUS
  <2> HIDE DEF g
  <2>5. Loops(g, st, m + 1)
    BY <2>3, <2>4 DEF Loops
  <2> QED
    BY <2>5
<1> HIDE DEF S
<1>3. length \in S
  BY <1>1, <1>2, NatSetInduction
<1> QED
  BY <1>3 DEF S

LEMMA EvictionsAre ==
    ASSUME NEW st, Len(st.launches) \in Nat
    PROVE  /\ Evictions(st)[0] = st
           /\ \A n \in 1..Len(st.launches) : Evictions(st)[n] = EvictOne(Evictions(st)[n - 1])
<1> DEFINE f == CHOOSE f : f = [n \in 0..Len(st.launches) |-> IF n = 0 THEN st ELSE EvictOne(f[n - 1])]
<1>1. Evictions(st) = f
  BY DEF Evictions
<1>2. f = [n \in 0..Len(st.launches) |-> IF n = 0 THEN st ELSE EvictOne(f[n - 1])]
  BY LoopExists DEF Loops
<1> HIDE DEF f
<1>3. f[0] = st
  BY <1>2
<1>4. ASSUME NEW n \in 1..Len(st.launches)
      PROVE  f[n] = EvictOne(f[n - 1])
  <2>1. n \in 0..Len(st.launches) /\ n # 0
    OBVIOUS
  <2> QED
    BY <1>2, <2>1
<1> QED
  BY <1>1, <1>3, <1>4

\* After n iterations from st: a deque that ends the stream's launches, never empty, within the
\* budget unless each iteration evicted a launch, and unchanged if st was within the budget.
EvictedTo(st, x, full, n) ==
    /\ DequeOf(x) /\ SameTables(st, x)
    /\ x.launches # <<>> /\ RunOf(x.launches, full, Len(full))
    /\ x.cost =< Budget \/ Len(x.launches) + n = Len(st.launches)
    /\ st.cost =< Budget => x = st

LEMMA EvictedStep ==
    ASSUME NEW st, NEW x, NEW full \in Seq(Row), NEW n \in Nat, EvictedTo(st, x, full, n)
    PROVE  EvictedTo(st, EvictOne(x), full, n + 1)
<1>1. CASE x.cost =< Budget
  <2>1. EvictOne(x) = x
    BY <1>1 DEF EvictOne
  <2> QED
    BY <1>1, <2>1 DEF EvictedTo
<1>2. CASE ~(x.cost =< Budget)
  <2> DEFINE y  == EvictOne(x)
             ls == x.launches
  <2>1. /\ DequeOf(x) /\ SameTables(st, x) /\ RunOf(ls, full, Len(full))
        /\ Len(ls) + n = Len(st.launches) /\ ~(st.cost =< Budget)
    BY <1>2 DEF EvictedTo
  <2>2. ls # <<>> /\ DequeOf(y) /\ SameTables(x, y) /\ y.launches = Tail(ls)
    BY <1>2, <2>1, EvictDeque
  <2>3. ls \in Seq(Row) /\ x.cost = CostOf(ls) /\ Len(full) \in Nat
    BY <2>1, LenProperties DEF DequeOf
  <2> HIDE DEF y, ls
  <2>4. Tail(ls) \in Seq(Row) /\ Len(Tail(ls)) = Len(ls) - 1 /\ Len(ls) \in Nat \ {0}
    BY <2>2, <2>3, HeadTailProperties, EmptySeq
  <2>5. Len(ls) # 1
    BY <1>2, <2>3, CostOfOne
  <2>6. Tail(ls) # <<>>
    <3>1. Len(Tail(ls)) # 0
      BY <2>4, <2>5
    <3>2. Len(<<>>) = 0
      OBVIOUS
    <3> QED
      BY <3>1, <3>2, Zenon
  <2>7. RunOf(Tail(ls), full, Len(full))
    BY <2>1, <2>2, <2>3, RunTail
  <2>8. Len(Tail(ls)) + (n + 1) = Len(st.launches)
    BY <2>1, <2>4
  <2>9. SameTables(st, y)
    BY <2>1, <2>2 DEF SameTables
  <2> QED
    BY <2>1, <2>2, <2>6, <2>7, <2>8, <2>9 DEF EvictedTo, y
<1> QED
  BY <1>1, <1>2

\* What _evict_to_budget makes of a deque that is not empty.
LEMMA EvictToBudgetDeque ==
    ASSUME NEW st, NEW full \in Seq(Row), DequeOf(st), st.launches # <<>>,
           RunOf(st.launches, full, Len(full))
    PROVE  LET x == EvictToBudget(st)
           IN  /\ DequeOf(x) /\ SameTables(st, x) /\ x.cost =< Budget
               /\ x.launches # <<>> /\ RunOf(x.launches, full, Len(full))
               /\ st.cost =< Budget => x = st
<1> PICK length : length = Len(st.launches)
  OBVIOUS
<1> PICK after : after = Evictions(st)
  OBVIOUS
<1>1. length \in Nat \ {0}
  BY EmptySeq DEF DequeOf
<1>2. after[0] = st /\ \A n \in 1..length : after[n] = EvictOne(after[n - 1])
  BY <1>1, EvictionsAre
<1> DEFINE S == {n \in Nat : n =< length => EvictedTo(st, after[n], full, n)}
<1>3. 0 \in S
  <2>1. EvictedTo(st, st, full, 0)
    BY <1>1 DEF EvictedTo, SameTables
  <2> QED
    BY <1>2, <2>1
<1>4. ASSUME NEW n \in Nat, n \in S
      PROVE  n + 1 \in S
  <2> SUFFICES ASSUME n + 1 =< length
               PROVE  EvictedTo(st, after[n + 1], full, n + 1)
    OBVIOUS
  <2>1. EvictedTo(st, after[n], full, n)
    BY <1>1, <1>4
  <2>2. after[n + 1] = EvictOne(after[n])
    <3>1. n + 1 \in 1..length /\ n + 1 - 1 = n
      BY <1>1
    <3> QED
      BY <1>2, <3>1
  <2> QED
    BY <2>1, <2>2, EvictedStep
<1> HIDE DEF S
<1>5. EvictedTo(st, after[length], full, length)
  <2>1. length \in S
    BY <1>1, <1>3, <1>4, NatSetInduction
  <2> QED
    BY <1>1, <2>1 DEF S
<1> DEFINE x == after[length]
<1>6. DequeOf(x) /\ x.launches # <<>> /\ Len(x.launches) \in Nat \ {0}
  BY <1>5, EmptySeq DEF EvictedTo, DequeOf
<1>7. x.cost =< Budget
  <2> HIDE DEF x
  <2>1. x.cost =< Budget \/ Len(x.launches) + length = length
    BY <1>5 DEF EvictedTo, x
  <2>2. \A a \in Nat \ {0}, b \in Nat \ {0} : a + b # b
    OBVIOUS
  <2>3. Len(x.launches) + length # length
    BY <1>1, <1>6, <2>2
  <2> QED
    BY <2>1, <2>3, Zenon
<1>8. EvictToBudget(st) = x
  BY DEF EvictToBudget
<1> QED
  BY <1>5, <1>7, <1>8 DEF EvictedTo

-----------------------------------------------------------------------------
(* The signature tables. *)

\* The first n windows that have the stream s and the signature sg.
Same(ws, s, sg, n) == {j \in 1..n : ws[j].stream = s /\ ws[j].signature = sg}

\* signature_first_window_id and signature_occurrences of stream s are what the windows say.
TablesOf(st, s, ws) ==
    /\ DOMAIN st.first = DOMAIN st.occurrences
    /\ \A sg : sg \in DOMAIN st.occurrences <=> Same(ws, s, sg, Len(ws)) # {}
    /\ \A sg \in DOMAIN st.occurrences :
          /\ st.occurrences[sg] = Cardinality(Same(ws, s, sg, Len(ws)))
          /\ st.first[sg] = Min(Same(ws, s, sg, Len(ws))) - 1

LEMMA SameIs ==
    ASSUME NEW ws, NEW s, NEW sg, NEW n \in Nat
    PROVE  /\ Same(ws, s, sg, n) \in SUBSET (1..n) /\ IsFiniteSet(Same(ws, s, sg, n))
           /\ Cardinality(Same(ws, s, sg, n)) \in Nat
           /\ Same(ws, s, sg, n) # {} =>
                 /\ Min(Same(ws, s, sg, n)) \in Same(ws, s, sg, n)
                 /\ \A j \in Same(ws, s, sg, n) : Min(Same(ws, s, sg, n)) =< j
<1>1. Same(ws, s, sg, n) \in SUBSET (1..n)
  BY DEF Same
<1>2. IsFiniteSet(1..n)
  BY FS_Interval
<1>3. IsFiniteSet(Same(ws, s, sg, n))
  BY <1>1, <1>2, FS_Subset
<1>4. ASSUME Same(ws, s, sg, n) # {}
      PROVE  /\ Min(Same(ws, s, sg, n)) \in Same(ws, s, sg, n)
             /\ \A j \in Same(ws, s, sg, n) : Min(Same(ws, s, sg, n)) =< j
  <2>1. Same(ws, s, sg, n) \in SUBSET Nat
    BY <1>1
  <2>2. PICK x \in Same(ws, s, sg, n) : \A j \in Same(ws, s, sg, n) : x =< j
    BY <1>4, <2>1, LeastNat
  <2>3. Min(Same(ws, s, sg, n)) = x
    BY <2>1, <2>2, MinIs
  <2> QED
    BY <2>2, <2>3
<1> QED
  BY <1>1, <1>3, <1>4, FS_CardinalityType

\* vs continues the n windows ws, and none of the windows between them and the one numbered i
\* has the stream and the signature.
Grown(ws, vs, s, sg, n, i) ==
    /\ n < i
    /\ \A j \in 1..n : vs[j] = ws[j]
    /\ \A j \in (n + 1)..(i - 1) : ~(vs[j].stream = s /\ vs[j].signature = sg)

\* Of the first i windows vs, those with the signature are the n first ones' and maybe the last.
SameAre(ws, vs, s, sg, n, i) ==
    Same(vs, s, sg, i) = IF vs[i].stream = s /\ vs[i].signature = sg
                         THEN Same(ws, s, sg, n) \cup {i} ELSE Same(ws, s, sg, n)

\* The windows with a signature once the window numbered i is one more of them.
LEMMA SameGrows ==
    ASSUME NEW ws, NEW vs, NEW s, NEW sg, NEW n \in Nat, NEW i \in Nat, Grown(ws, vs, s, sg, n, i)
    PROVE  SameAre(ws, vs, s, sg, n, i)
<1>1. ASSUME NEW j \in 1..i
      PROVE  \/ j \in 1..n /\ vs[j] = ws[j]
             \/ ~(vs[j].stream = s /\ vs[j].signature = sg) /\ j \notin 1..n /\ j # i
             \/ j = i /\ j \notin 1..n
  <2>1. n < i
    BY DEF Grown
  <2>2. \/ j \in 1..n /\ j # i
        \/ j \in (n + 1)..(i - 1) /\ j \notin 1..n /\ j # i
        \/ j = i /\ j \notin 1..n
    BY <2>1
  <2> QED
    BY <2>2 DEF Grown
<1>2. i \in 1..i /\ i \notin 1..n /\ 1..n \subseteq 1..i
  BY DEF Grown
<1>3. /\ vs[i].stream = s /\ vs[i].signature = sg =>
            Same(vs, s, sg, i) = Same(ws, s, sg, n) \cup {i}
      /\ ~(vs[i].stream = s /\ vs[i].signature = sg) =>
            Same(vs, s, sg, i) = Same(ws, s, sg, n)
  BY <1>1, <1>2 DEF Same
<1> QED
  BY <1>3 DEF SameAre

\* The tables give the window numbered i its occurrence and its source, those of the windows same.
Give(st, sg, same, i) ==
    /\ Get(st.occurrences, sg, 0) = Cardinality(same) - 1
    /\ Get(st.first, sg, i - 1) = Min(same) - 1
    /\ Get(st.occurrences, sg, 0) \in Nat /\ Get(st.first, sg, i - 1) \in Nat

\* The tables give the next window of a signature its number and its source.
LEMMA TablesGive ==
    ASSUME NEW st, NEW s, NEW ws, Len(ws) \in Nat, TablesOf(st, s, ws), NEW sg,
           NEW i \in Nat, Len(ws) < i
    PROVE  Give(st, sg, Same(ws, s, sg, Len(ws)) \cup {i}, i)
<1> DEFINE old  == Same(ws, s, sg, Len(ws))
           same == old \cup {i}
<1>1. /\ old \in SUBSET (1..Len(ws)) /\ IsFiniteSet(old) /\ Cardinality(old) \in Nat
      /\ old # {} => Min(old) \in old /\ \A j \in old : Min(old) =< j
  BY SameIs
<1>2. /\ DOMAIN st.first = DOMAIN st.occurrences
      /\ sg \in DOMAIN st.occurrences <=> old # {}
      /\ sg \in DOMAIN st.occurrences =>
            st.occurrences[sg] = Cardinality(old) /\ st.first[sg] = Min(old) - 1
  BY DEF TablesOf
<1> HIDE DEF old
<1>3. i \notin old
  BY <1>1
<1>4. Cardinality(same) = Cardinality(old) + 1
  BY <1>1, <1>3, FS_AddElement
<1>5. same \in SUBSET Nat
  BY <1>1
<1>6. CASE old = {}
  <2>1. Cardinality(old) = 0
    BY <1>6, FS_EmptySet
  <2>2. same \in SUBSET Nat /\ i \in same /\ \A j \in same : i =< j
    BY <1>5, <1>6
  <2>3. Min(same) = i
    BY <2>2, MinIs
  <2>4. Get(st.occurrences, sg, 0) = 0 /\ Get(st.first, sg, i - 1) = i - 1
    BY <1>2, <1>6 DEF Get
  <2>5. i - 1 \in Nat
    OBVIOUS
  <2> QED
    BY <1>4, <2>1, <2>3, <2>4, <2>5 DEF old, Give
<1>7. CASE old # {}
  <2>1. PICK x : x = Min(old)
    OBVIOUS
  <2>2. x \in old /\ x \in Nat /\ x >= 1 /\ x < i /\ \A j \in old : x =< j
    <3>1. x \in old /\ \A j \in old : x =< j
      BY <1>1, <1>7, <2>1
    <3>2. x \in 1..Len(ws)
      BY <1>1, <3>1
    <3> QED
      BY <3>1, <3>2
  <2>3. x \in same /\ \A j \in same : x =< j
    BY <2>2
  <2>4. Min(same) = x
    BY <1>5, <2>3, MinIs
  <2>5. Get(st.occurrences, sg, 0) = Cardinality(old) /\ Get(st.first, sg, i - 1) = x - 1
    BY <1>2, <1>7, <2>1 DEF Get
  <2>6. x - 1 \in Nat
    BY <2>2
  <2> QED
    BY <1>1, <1>4, <2>4, <2>5, <2>6 DEF old, Give
<1> QED
  BY <1>6, <1>7

LEMMA EmittedFields ==
    ASSUME NEW st, Stream(st), NEW w
    PROVE  LET x == Emitted(st, w)
           IN  /\ Stream(x) /\ x.launches = st.launches /\ x.cost = st.cost
               /\ x.counts = st.counts /\ x.ratios = st.ratios
               /\ x.occurrences = Set(st.occurrences, w.signature, w.occurrence + 1)
               /\ x.first = Set(st.first, w.signature, w.source)
               /\ x.evicted = st.evicted /\ x.unready = st.unready
<1>1. /\ DOMAIN st = {"launches", "cost", "counts", "ratios", "first", "occurrences", "evicted",
                       "unready"}
      /\ st = [f \in DOMAIN st |-> st[f]]
  BY DEF Stream
<1> DEFINE x == Emitted(st, w)
<1>2. x = [f \in DOMAIN st |->
             IF f = "occurrences" THEN Set(st.occurrences, w.signature, w.occurrence + 1)
             ELSE IF f = "first" THEN Set(st.first, w.signature, w.source)
             ELSE st[f]]
  BY <1>1 DEF Emitted
<1> HIDE DEF x
<1>3. /\ x.launches = st.launches /\ x.cost = st.cost
      /\ x.counts = st.counts /\ x.ratios = st.ratios
      /\ x.occurrences = Set(st.occurrences, w.signature, w.occurrence + 1)
      /\ x.first = Set(st.first, w.signature, w.source)
      /\ x.evicted = st.evicted /\ x.unready = st.unready /\ DOMAIN x = DOMAIN st
  BY <1>1, <1>2
<1>4. x = [f \in DOMAIN x |-> x[f]]
  BY <1>2
<1>5. Stream(x)
  BY <1>1, <1>3, <1>4 DEF Stream
<1> QED
  BY <1>3, <1>5 DEF x

\* Emitting leaves the deque alone.
LEMMA EmittedDeque ==
    ASSUME NEW st, DequeOf(st), NEW w
    PROVE  /\ DequeOf(Emitted(st, w))
           /\ Emitted(st, w).launches = st.launches /\ Emitted(st, w).cost = st.cost
<1>1. PICK x : x = Emitted(st, w)
  OBVIOUS
<1>2. /\ Stream(x) /\ x.launches = st.launches /\ x.cost = st.cost
      /\ x.counts = st.counts /\ x.ratios = st.ratios
      /\ x.evicted = st.evicted /\ x.unready = st.unready
  BY <1>1, EmittedFields DEF DequeOf
<1>3. DequeOf(x)
  BY <1>2 DEF DequeOf
<1> QED
  BY <1>1, <1>2, <1>3

\* One more window: the windows with a signature.
LEMMA SameAppend ==
    ASSUME NEW ws \in Seq(L0Window), NEW w \in L0Window, NEW s, NEW sg
    PROVE  /\ Len(Append(ws, w)) = Len(ws) + 1 /\ Len(ws) \in Nat
           /\ Same(Append(ws, w), s, sg, Len(ws) + 1)
                = IF w.stream = s /\ w.signature = sg
                  THEN Same(ws, s, sg, Len(ws)) \cup {Len(ws) + 1} ELSE Same(ws, s, sg, Len(ws))
<1>0. PICK vs, n, i : vs = Append(ws, w) /\ n = Len(ws) /\ i = Len(ws) + 1
  OBVIOUS
<1>1. Len(vs) = i /\ n \in Nat /\ i \in Nat /\ n < i /\ i = n + 1 /\ vs[i] = w
      /\ \A j \in 1..n : vs[j] = ws[j]
  BY <1>0, AppendProperties, LenProperties
<1>2. Grown(ws, vs, s, sg, n, i)
  <2>1. (n + 1)..(i - 1) = {}
    BY <1>1
  <2> QED
    BY <1>1, <2>1 DEF Grown
<1>3. SameAre(ws, vs, s, sg, n, i)
  <2>1. n \in Nat /\ i \in Nat
    BY <1>1
  <2> QED
    BY <1>2, <2>1, SameGrows
<1> QED
  BY <1>0, <1>1, <1>3 DEF SameAre

LEMMA TablesEmitted ==
    ASSUME NEW st, Stream(st), NEW s, NEW ws \in Seq(L0Window), TablesOf(st, s, ws),
           NEW w \in L0Window, w.stream = s,
           w.occurrence = Get(st.occurrences, w.signature, 0),
           w.source = Get(st.first, w.signature, Len(ws))
    PROVE  TablesOf(Emitted(st, w), s, Append(ws, w))
<1>0. PICK vs, n, x : vs = Append(ws, w) /\ n = Len(ws) /\ x = Emitted(st, w)
  OBVIOUS
<1>1. n \in Nat /\ Len(vs) = n + 1
      /\ \A sg : Same(vs, s, sg, n + 1) = IF sg = w.signature THEN Same(ws, s, sg, n) \cup {n + 1}
                                          ELSE Same(ws, s, sg, n)
  BY <1>0, SameAppend
<1>2. /\ x.occurrences = Set(st.occurrences, w.signature, w.occurrence + 1)
      /\ x.first = Set(st.first, w.signature, w.source)
  BY <1>0, EmittedFields
<1>3. /\ DOMAIN st.first = DOMAIN st.occurrences
      /\ \A sg : sg \in DOMAIN st.occurrences <=> Same(ws, s, sg, n) # {}
      /\ \A sg \in DOMAIN st.occurrences :
            /\ st.occurrences[sg] = Cardinality(Same(ws, s, sg, n))
            /\ st.first[sg] = Min(Same(ws, s, sg, n)) - 1
  BY <1>0 DEF TablesOf
<1>4. /\ w.occurrence = Cardinality(Same(ws, s, w.signature, n) \cup {n + 1}) - 1
      /\ w.source = Min(Same(ws, s, w.signature, n) \cup {n + 1}) - 1
      /\ w.occurrence \in Nat
      /\ Cardinality(Same(vs, s, w.signature, n + 1)) \in Nat
  <2>1. n + 1 - 1 = n /\ n + 1 \in Nat /\ n < n + 1
    BY <1>1
  <2>2. Cardinality(Same(vs, s, w.signature, n + 1)) \in Nat
    BY <2>1, SameIs
  <2>3. Len(ws) \in Nat /\ Len(ws) < n + 1
    BY <1>0, <1>1
  <2>4. Give(st, w.signature, Same(ws, s, w.signature, Len(ws)) \cup {n + 1}, n + 1)
    BY <2>1, <2>3, TablesGive
  <2> QED
    BY <1>0, <1>1, <2>1, <2>2, <2>4 DEF Give
<1>5. DOMAIN x.occurrences = DOMAIN st.occurrences \cup {w.signature}
      /\ DOMAIN x.first = DOMAIN x.occurrences
  BY <1>2, <1>3 DEF Set
<1>6. ASSUME NEW sg
      PROVE  sg \in DOMAIN x.occurrences <=> Same(vs, s, sg, n + 1) # {}
  BY <1>1, <1>3, <1>5
<1>7. ASSUME NEW sg \in DOMAIN x.occurrences
      PROVE  /\ x.occurrences[sg] = Cardinality(Same(vs, s, sg, n + 1))
             /\ x.first[sg] = Min(Same(vs, s, sg, n + 1)) - 1
  <2>1. CASE sg = w.signature
    <3>1. x.occurrences[sg] = w.occurrence + 1 /\ x.first[sg] = w.source
      BY <1>2, <1>5, <2>1 DEF Set
    <3>2. Same(vs, s, sg, n + 1) = Same(ws, s, w.signature, n) \cup {n + 1}
      BY <1>1, <2>1
    <3>3. x.occurrences[sg] = Cardinality(Same(vs, s, sg, n + 1))
      <4>1. PICK c : c = Cardinality(Same(vs, s, sg, n + 1))
        OBVIOUS
      <4>2. c \in Nat /\ w.occurrence = c - 1
        BY <1>4, <2>1, <3>2, <4>1
      <4>3. x.occurrences[sg] = c
        BY <3>1, <4>2
      <4> QED
        BY <4>1, <4>3
    <3> QED
      BY <1>4, <3>1, <3>2, <3>3
  <2>2. CASE sg # w.signature
    <3>1. sg \in DOMAIN st.occurrences /\ sg \in DOMAIN st.first
      BY <1>3, <1>5, <2>2
    <3>2. x.occurrences[sg] = st.occurrences[sg] /\ x.first[sg] = st.first[sg]
      BY <1>2, <2>2, <3>1 DEF Set
    <3> QED
      BY <1>1, <1>3, <2>2, <3>1, <3>2
  <2> QED
    BY <2>1, <2>2
<1> QED
  BY <1>0, <1>1, <1>5, <1>6, <1>7 DEF TablesOf

\* The window of another stream leaves the tables right.
LEMMA TablesKept ==
    ASSUME NEW st, NEW s, NEW ws \in Seq(L0Window), TablesOf(st, s, ws),
           NEW w \in L0Window, w.stream # s
    PROVE  TablesOf(st, s, Append(ws, w))
<1>1. Len(Append(ws, w)) = Len(ws) + 1
      /\ \A sg : Same(Append(ws, w), s, sg, Len(ws) + 1) = Same(ws, s, sg, Len(ws))
  BY SameAppend
<1> QED
  BY <1>1 DEF TablesOf

-----------------------------------------------------------------------------
(* The window of a deque describes its launches. *)

\* What WindowDescribesLaunches says of a window by itself, and of its place among the windows ws.
Describe(w) ==
    /\ w.launches # <<>> /\ w.cost = CostOf(w.launches) /\ w.cost =< Budget
    /\ w.signature.kernels = KernelsOf(w.launches)
    /\ TopOf(w.signature.top3, w.launches)
    /\ w.maxRatio = Max({LatestRatio(w.launches, k) : k \in KernelsOf(w.launches)})

SourceIn(ws, i) ==
    /\ ws[i].source = Min(Same(ws, ws[i].stream, ws[i].signature, i)) - 1
    /\ ws[i].occurrence = Cardinality(Same(ws, ws[i].stream, ws[i].signature, i)) - 1

LEMMA MaxRatioIs ==
    ASSUME NEW ls \in Seq(Row), ls # <<>>, NEW ratios, Ratios(ratios, ls)
    PROVE  /\ Max({ratios[k] : k \in KernelsOf(ls)})
                = Max({LatestRatio(ls, k) : k \in KernelsOf(ls)})
           /\ Max({ratios[k] : k \in KernelsOf(ls)}) \in 0..100
<1> DEFINE S == {LatestRatio(ls, k) : k \in KernelsOf(ls)}
<1>1. {ratios[k] : k \in KernelsOf(ls)} = S
  BY DEF Ratios
<1>2. \A k \in KernelsOf(ls) : LatestRatio(ls, k) \in 0..100
  BY LatestIs
<1>3. S \in SUBSET (0..100) /\ S # {}
  BY <1>2, KernelsFinite
<1> HIDE DEF S
<1>4. S \in SUBSET Nat /\ \A y \in S : y =< 100
  BY <1>3
<1>5. PICK x \in S : \A y \in S : y =< x
  BY <1>3, <1>4, GreatestNat
<1>6. Max(S) = x
  BY <1>4, <1>5, MaxIs
<1> QED
  BY <1>1, <1>3, <1>5, <1>6 DEF S

LEMMA WindowDescribed ==
    ASSUME TypeOK, NEW s \in Streams, NEW st, DequeOf(st), st.launches # <<>>, st.cost =< Budget,
           NEW index \in Nat,
           NEW trigger \in {"token_budget_would_overflow", "offline_final_flush"},
           \A sg : Get(st.occurrences, sg, 0) \in Nat /\ Get(st.first, sg, index) \in Nat
    PROVE  LET w == Window(s, st, index, trigger)
           IN  /\ w \in L0Window /\ Describe(w)
               /\ w.stream = s /\ w.launches = st.launches /\ w.cost = st.cost
               /\ w.upto = Len(seen[s]) /\ w.trigger = trigger
               /\ w.occurrence = Get(st.occurrences, w.signature, 0)
               /\ w.source = Get(st.first, w.signature, index)
<1> PICK w : w = Window(s, st, index, trigger)
  OBVIOUS
<1> DEFINE ls == st.launches
           sg == Signature(st.counts)
<1>1. w = [stream |-> s, launches |-> ls, cost |-> st.cost, signature |-> sg,
           maxRatio |-> Max({st.ratios[k] : k \in DOMAIN st.counts}),
           occurrence |-> Get(st.occurrences, sg, 0),
           source |-> Get(st.first, sg, index),
           upto |-> Len(seen[s]),
           trigger |-> trigger]
  BY DEF Window
<1>2. /\ ls \in Seq(Row) /\ st.cost = CostOf(ls)
      /\ Counts(st.counts, ls) /\ Ratios(st.ratios, ls)
  BY DEF DequeOf
<1>3. sg.kernels = KernelsOf(ls) /\ sg.top3 = Top3(st.counts)
      /\ sg = [kernels |-> KernelsOf(ls), top3 |-> Top3(st.counts)]
  BY <1>2 DEF Signature, Counts
<1>4. TopOf(sg.top3, ls) /\ sg.top3 \in Seq(Nat)
  BY <1>2, <1>3, TopIs DEF TopOf
<1>5. KernelsOf(ls) \in SUBSET Nat /\ CostOf(ls) \in Nat
  BY <1>2, KernelsFinite, CostOfType
<1>6. Len(seen[s]) \in Nat
  <2>1. seen[s] \in Seq(Row)
    BY DEF TypeOK
  <2> QED
    BY <2>1, LenProperties
<1>7. DOMAIN st.counts = KernelsOf(ls)
  BY <1>2 DEF Counts
<1>8. Max({st.ratios[k] : k \in KernelsOf(ls)})
                = Max({LatestRatio(ls, k) : k \in KernelsOf(ls)})
      /\ Max({st.ratios[k] : k \in KernelsOf(ls)}) \in 0..100
  BY <1>2, MaxRatioIs
<1>9. sg \in [kernels : SUBSET Nat, top3 : Seq(Nat)]
  BY <1>3, <1>4, <1>5
<1> HIDE DEF ls, sg
<1>10. /\ w.stream = s /\ w.launches = ls /\ w.cost = st.cost /\ w.signature = sg
       /\ w.upto = Len(seen[s]) /\ w.trigger = trigger
       /\ w.occurrence = Get(st.occurrences, sg, 0) /\ w.source = Get(st.first, sg, index)
       /\ w.maxRatio = Max({LatestRatio(ls, k) : k \in KernelsOf(ls)}) /\ w.maxRatio \in 0..100
  BY <1>1, <1>7, <1>8
<1>11. w \in L0Window
  <2>1. w = [stream |-> s, launches |-> ls, cost |-> w.cost, signature |-> sg,
             maxRatio |-> w.maxRatio, occurrence |-> w.occurrence, source |-> w.source,
             upto |-> w.upto, trigger |-> trigger]
    BY <1>1
  <2>2. w.cost \in Nat /\ w.occurrence \in Nat /\ w.source \in Nat /\ w.upto \in Nat
    BY <1>2, <1>5, <1>6, <1>10
  <2> QED
    BY <1>2, <1>9, <1>10, <2>1, <2>2 DEF L0Window
<1>12. Describe(w)
  BY <1>2, <1>3, <1>4, <1>10 DEF Describe, ls
<1> QED
  BY <1>10, <1>11, <1>12 DEF ls

-----------------------------------------------------------------------------
(* The invariant. *)

\* The deque st of a stream whose launches are full.
Held(st, full) ==
    DequeOf(st) /\ st.cost =< Budget /\ RunOf(st.launches, full, Len(full))

\* Where window w stands among its stream's launches, and the launch that made it overflow.
Placed(w, full) ==
    /\ RunOf(w.launches, full, w.upto)
    /\ w.trigger = "token_budget_would_overflow" =>
          w.upto < Len(full) /\ w.cost + full[w.upto + 1].cost > Budget

\* The p-th launch of stream s is in a window.
Covered(ws, s, p) ==
    \E i \in 1..Len(ws) : ws[i].stream = s /\ p \in Covers(ws[i].launches, ws[i].upto)

StreamsInv ==
    /\ DOMAIN state = Streams
    /\ \A s \in Streams : /\ Held(state[s], seen[s])
                          /\ state[s].launches # <<>> => Contains(order, s)

TablesInv == ~flushed => \A s \in Streams : TablesOf(state[s], s, windows)

WindowsInv ==
    \A i \in 1..Len(windows) :
        /\ Describe(windows[i]) /\ SourceIn(windows, i)
        /\ Placed(windows[i], seen[windows[i].stream])

CoveredInv ==
    \A s \in Streams : \A p \in 1..Len(seen[s]) :
        Covered(windows, s, p) \/ (~flushed /\ p \in Covers(state[s].launches, Len(seen[s])))

SchedulerInv == TypeOK /\ StreamsInv /\ TablesInv /\ WindowsInv /\ CoveredInv

-----------------------------------------------------------------------------
(* The next window of a stream. *)

\* w is the window of stream s numbered i, for the deque and the tables as they are.
Emission(w, s, i, trigger) ==
    /\ w \in L0Window /\ Describe(w) /\ w.stream = s
    /\ w.launches = state[s].launches /\ w.cost = state[s].cost /\ w.upto = Len(seen[s])
    /\ w.trigger = trigger
    /\ w.occurrence = Get(state[s].occurrences, w.signature, 0)
    /\ w.source = Get(state[s].first, w.signature, i - 1)
    /\ w.occurrence
         = Cardinality(Same(windows, s, w.signature, Len(windows)) \cup {i}) - 1
    /\ w.source = Min(Same(windows, s, w.signature, Len(windows)) \cup {i}) - 1

LEMMA NextWindow ==
    ASSUME TypeOK, StreamsInv, TablesInv, ~flushed, NEW s \in Streams, state[s].launches # <<>>,
           NEW i \in Nat, Len(windows) < i,
           NEW trigger \in {"token_budget_would_overflow", "offline_final_flush"}
    PROVE  Emission(Window(s, state[s], i - 1, trigger), s, i, trigger)
<1>1. PICK st : st = state[s]
  OBVIOUS
<1>2. DequeOf(st) /\ st.cost =< Budget /\ st.launches # <<>> /\ TablesOf(st, s, windows)
  BY <1>1 DEF StreamsInv, TablesInv, Held
<1>3. Len(windows) \in Nat /\ i - 1 \in Nat
  BY LenProperties DEF TypeOK
<1>4. \A sg : Give(st, sg, Same(windows, s, sg, Len(windows)) \cup {i}, i)
  BY <1>2, <1>3, TablesGive
<1>5. \A sg : Get(st.occurrences, sg, 0) \in Nat /\ Get(st.first, sg, i - 1) \in Nat
  BY <1>4 DEF Give
<1>6. PICK w : w = Window(s, st, i - 1, trigger)
  OBVIOUS
<1>7. /\ w \in L0Window /\ Describe(w)
      /\ w.stream = s /\ w.launches = st.launches /\ w.cost = st.cost
      /\ w.upto = Len(seen[s]) /\ w.trigger = trigger
      /\ w.occurrence = Get(st.occurrences, w.signature, 0)
      /\ w.source = Get(st.first, w.signature, i - 1)
  BY <1>2, <1>3, <1>5, <1>6, WindowDescribed
<1>8. Give(st, w.signature, Same(windows, s, w.signature, Len(windows)) \cup {i}, i)
  BY <1>4
<1> QED
  BY <1>1, <1>6, <1>7, <1>8 DEF Emission, Give

\* In windows that continue the present ones it has the right source and occurrence.
LEMMA SourceOfNext ==
    ASSUME NEW s, NEW i \in Nat, NEW trigger, NEW ws, Len(windows) \in Nat,
           Emission(ws[i], s, i, trigger),
           Grown(windows, ws, s, ws[i].signature, Len(windows), i)
    PROVE  SourceIn(ws, i)
<1>1. ws[i].stream = s
  BY DEF Emission
<1>2. Same(ws, s, ws[i].signature, i)
        = Same(windows, s, ws[i].signature, Len(windows)) \cup {i}
  <2>1. PICK sg, n : sg = ws[i].signature /\ n = Len(windows)
    OBVIOUS
  <2>2. n \in Nat /\ Grown(windows, ws, s, sg, n, i) /\ ws[i].stream = s /\ ws[i].signature = sg
    BY <1>1, <2>1
  <2>3. SameAre(windows, ws, s, sg, n, i)
    BY <2>2, SameGrows
  <2> QED
    BY <2>1, <2>2, <2>3 DEF SameAre
<1> QED
  BY <1>1, <1>2 DEF Emission, SourceIn

LEMMA SourceKept ==
    ASSUME NEW ws, NEW vs, NEW n \in Nat, NEW i \in 1..n, SourceIn(ws, i),
           \A j \in 1..n : vs[j] = ws[j]
    PROVE  SourceIn(vs, i)
<1>1. \A j \in 1..i : vs[j] = ws[j]
  OBVIOUS
<1>2. vs[i] = ws[i]
  OBVIOUS
<1>3. Same(vs, ws[i].stream, ws[i].signature, i) = Same(ws, ws[i].stream, ws[i].signature, i)
  BY <1>1 DEF Same
<1> QED
  BY <1>2, <1>3 DEF SourceIn

-----------------------------------------------------------------------------
(* add_launch of a ready launch. *)

LEMMA ReadyRow ==
    ASSUME NEW l \in Launches, Ready(l), l.cost =< Budget
    PROVE  /\ [l EXCEPT !.ratio = Clamp(@)] \in Row
           /\ [l EXCEPT !.ratio = Clamp(@)].cost = l.cost
<1>1. l \in [kernel : Nat, cost : Int, ratio : Int] /\ Budget \in Nat
  BY SchedulerAssumption
<1>2. Clamp(l.ratio) \in 0..100
  BY <1>1 DEF Clamp
<1>3. l.cost \in 1..Budget
  BY <1>1 DEF Ready
<1> QED
  BY <1>1, <1>2, <1>3 DEF Row

\* The stream and the windows after add_launch emitted, entered the launch and evicted.
Emits(s, l) == Overflows(state[s], l)
WindowOf(s) == Window(s, state[s], Len(windows), "token_budget_would_overflow")
WindowsWith(s, l) == IF Emits(s, l) THEN Append(windows, WindowOf(s)) ELSE windows
EmittedWith(s, l) == IF Emits(s, l) THEN Emitted(state[s], WindowOf(s)) ELSE state[s]
RowOf(l) == [l EXCEPT !.ratio = Clamp(@)]
StreamWith(s, l) == EvictToBudget(Enter(EmittedWith(s, l), RowOf(l)))

\* What holds where add_launch of l begins.
AddGuard(s, l) ==
    /\ TypeOK /\ StreamsInv /\ TablesInv /\ WindowsInv /\ CoveredInv /\ ~flushed
    /\ s \in Streams /\ l \in Launches /\ Ready(l) /\ l.cost =< Budget

LEMMA EmittedWindow ==
    ASSUME NEW s, NEW l, AddGuard(s, l), Emits(s, l)
    PROVE  /\ Emission(WindowOf(s), s, Len(windows) + 1, "token_budget_would_overflow")
           /\ WindowOf(s) \in L0Window
<1>1. Len(windows) \in Nat
  BY LenProperties DEF AddGuard, TypeOK
<1>2. state[s].launches # <<>>
  BY DEF Emits, Overflows
<1>3. PICK i : i = Len(windows) + 1
  OBVIOUS
<1>4. i \in Nat /\ Len(windows) < i /\ i - 1 = Len(windows)
  BY <1>1, <1>3
<1>5. Emission(Window(s, state[s], i - 1, "token_budget_would_overflow"), s, i,
               "token_budget_would_overflow")
  BY <1>2, <1>4, NextWindow DEF AddGuard
<1> QED
  BY <1>3, <1>4, <1>5 DEF WindowOf, Emission

\* The windows afterwards continue those before.
LEMMA WindowsExtend ==
    ASSUME NEW s, NEW l, AddGuard(s, l)
    PROVE  LET ws == WindowsWith(s, l)
           IN  /\ ws \in Seq(L0Window) /\ Len(ws) \in Nat /\ Len(windows) \in Nat
               /\ Len(windows) =< Len(ws)
               /\ \A j \in 1..Len(windows) : ws[j] = windows[j]
               /\ Emits(s, l) => Len(ws) = Len(windows) + 1 /\ ws[Len(windows) + 1] = WindowOf(s)
               /\ ~Emits(s, l) => Len(ws) = Len(windows)
<1>1. windows \in Seq(L0Window) /\ Len(windows) \in Nat
  BY LenProperties DEF AddGuard, TypeOK
<1>2. CASE Emits(s, l)
  <2>1. WindowOf(s) \in L0Window
    BY <1>2, EmittedWindow
  <2>2. PICK w : w = WindowOf(s)
    OBVIOUS
  <2>3. WindowsWith(s, l) = Append(windows, w)
    BY <1>2, <2>2 DEF WindowsWith
  <2>4. /\ Append(windows, w) \in Seq(L0Window) /\ Len(Append(windows, w)) = Len(windows) + 1
        /\ Append(windows, w)[Len(windows) + 1] = w
        /\ \A j \in 1..Len(windows) : Append(windows, w)[j] = windows[j]
    BY <1>1, <2>1, <2>2, AppendProperties
  <2> QED
    BY <1>1, <1>2, <2>2, <2>3, <2>4
<1>3. CASE ~Emits(s, l)
  BY <1>1, <1>3 DEF WindowsWith
<1> QED
  BY <1>2, <1>3

LEMMA EmittedStream ==
    ASSUME NEW s, NEW l, AddGuard(s, l)
    PROVE  LET x == EmittedWith(s, l)
           IN  /\ DequeOf(x) /\ x.launches = state[s].launches /\ x.cost = state[s].cost
               /\ TablesOf(x, s, WindowsWith(s, l))
<1>1. PICK st : st = state[s]
  OBVIOUS
<1>2. DequeOf(st) /\ Stream(st) /\ TablesOf(st, s, windows)
  BY <1>1 DEF AddGuard, StreamsInv, TablesInv, Held, DequeOf
<1>3. CASE Emits(s, l)
  <2>1. PICK w : w = WindowOf(s)
    OBVIOUS
  <2>2. Emission(w, s, Len(windows) + 1, "token_budget_would_overflow")
    BY <1>3, <2>1, EmittedWindow
  <2>3. windows \in Seq(L0Window) /\ Len(windows) + 1 - 1 = Len(windows)
    <3>1. windows \in Seq(L0Window)
      BY DEF AddGuard, TypeOK
    <3>2. Len(windows) \in Nat
      BY <3>1, LenProperties
    <3> QED
      BY <3>1, <3>2
  <2>4. /\ w \in L0Window /\ w.stream = s
        /\ w.occurrence = Get(st.occurrences, w.signature, 0)
        /\ w.source = Get(st.first, w.signature, Len(windows))
    BY <1>1, <2>2, <2>3 DEF Emission
  <2>5. TablesOf(Emitted(st, w), s, Append(windows, w))
    BY <1>2, <2>3, <2>4, TablesEmitted
  <2>6. EmittedWith(s, l) = Emitted(st, w) /\ WindowsWith(s, l) = Append(windows, w)
    BY <1>1, <1>3, <2>1 DEF EmittedWith, WindowsWith
  <2> QED
    BY <1>1, <1>2, <2>5, <2>6, EmittedDeque
<1>4. CASE ~Emits(s, l)
  <2>1. EmittedWith(s, l) = st /\ WindowsWith(s, l) = windows
    BY <1>1, <1>4 DEF EmittedWith, WindowsWith
  <2> QED
    BY <1>1, <1>2, <2>1
<1> QED
  BY <1>3, <1>4

\* The deque afterwards: it ends with the launch, and lost something only if a window was emitted.
LEMMA AddedStream ==
    ASSUME NEW s, NEW l, AddGuard(s, l)
    PROVE  LET x == StreamWith(s, l)
           IN  /\ Held(x, Append(seen[s], RowOf(l))) /\ x.launches # <<>>
               /\ TablesOf(x, s, WindowsWith(s, l))
               /\ ~Emits(s, l) => x.launches = Append(state[s].launches, RowOf(l))
<1>1. PICK mid, row, full, ls : /\ mid = EmittedWith(s, l) /\ row = RowOf(l) /\ full = seen[s]
                                /\ ls = state[s].launches
  OBVIOUS
<1>2. /\ DequeOf(mid) /\ mid.launches = ls /\ mid.cost = state[s].cost
      /\ TablesOf(mid, s, WindowsWith(s, l))
  BY <1>1, EmittedStream
<1>3. row \in Row /\ row.cost = l.cost
  BY <1>1, ReadyRow DEF AddGuard, RowOf
<1>4. full \in Seq(Row) /\ ls \in Seq(Row) /\ RunOf(ls, full, Len(full))
  <2>1. Held(state[s], seen[s]) /\ seen[s] \in Seq(Row)
    BY DEF AddGuard, StreamsInv, TypeOK
  <2> QED
    BY <1>1, <2>1 DEF Held, DequeOf
<1>5. PICK ent : ent = Enter(mid, row)
  OBVIOUS
<1>6. /\ DequeOf(ent) /\ SameTables(mid, ent) /\ ent.launches = Append(ls, row)
      /\ ent.cost = mid.cost + row.cost
  BY <1>2, <1>3, <1>5, EnterDeque
<1>7. /\ Append(full, row) \in Seq(Row) /\ ent.launches # <<>>
      /\ RunOf(ent.launches, Append(full, row), Len(Append(full, row)))
  BY <1>3, <1>4, <1>6, AppendProperties, RunAppend
<1>8. PICK x : x = EvictToBudget(ent)
  OBVIOUS
<1>9. /\ DequeOf(x) /\ SameTables(ent, x) /\ x.cost =< Budget
      /\ x.launches # <<>> /\ RunOf(x.launches, Append(full, row), Len(Append(full, row)))
      /\ ent.cost =< Budget => x = ent
  BY <1>6, <1>7, <1>8, EvictToBudgetDeque
<1>10. x = StreamWith(s, l)
  BY <1>1, <1>5, <1>8 DEF StreamWith
<1>11. TablesOf(x, s, WindowsWith(s, l))
  BY <1>2, <1>6, <1>9 DEF TablesOf, SameTables
<1>12. ASSUME ~Emits(s, l)
       PROVE  x.launches = Append(ls, row)
  <2>1. ls = <<>> \/ state[s].cost + l.cost =< Budget
    <3>1. state[s].cost \in Int /\ l.cost \in Int /\ Budget \in Int
      <4>1. state[s].cost \in 0..Budget
        BY DEF AddGuard, TypeOK
      <4>2. l \in [kernel : Nat, cost : Int, ratio : Int]
        BY SchedulerAssumption DEF AddGuard
      <4> QED
        BY <4>1, <4>2, SchedulerAssumption
    <3> QED
      BY <1>1, <1>12, <3>1 DEF Emits, Overflows
  <2>2. CASE ls = <<>>
    <3>1. mid.cost = 0
      BY <1>2, <2>2, CostOfEmpty DEF DequeOf
    <3>2. row.cost \in 1..Budget
      BY <1>3 DEF Row
    <3>3. ent.cost =< Budget
      BY <1>6, <3>1, <3>2, SchedulerAssumption
    <3> QED
      BY <1>6, <1>9, <3>3
  <2>3. CASE state[s].cost + l.cost =< Budget
    BY <1>2, <1>3, <1>6, <1>9, <2>3
  <2> QED
    BY <2>1, <2>2, <2>3
<1> QED
  BY <1>1, <1>9, <1>10, <1>11, <1>12 DEF Held

\* The windows afterwards are right: those before, and the one emitted.
LEMMA AddedWindows ==
    ASSUME NEW s, NEW l, AddGuard(s, l), NEW i \in 1..Len(WindowsWith(s, l))
    PROVE  LET ws == WindowsWith(s, l)
           IN  /\ Describe(ws[i]) /\ SourceIn(ws, i)
               /\ Placed(ws[i], IF ws[i].stream = s THEN Append(seen[s], RowOf(l))
                                ELSE seen[ws[i].stream])
<1>1. PICK ws, n, row : ws = WindowsWith(s, l) /\ n = Len(windows) /\ row = RowOf(l)
  OBVIOUS
<1>2. /\ ws \in Seq(L0Window) /\ Len(ws) \in Nat /\ n \in Nat /\ n =< Len(ws)
      /\ \A j \in 1..n : ws[j] = windows[j]
      /\ Emits(s, l) => Len(ws) = n + 1 /\ ws[n + 1] = WindowOf(s)
      /\ ~Emits(s, l) => Len(ws) = n
  BY <1>1, WindowsExtend
<1>3. row \in Row /\ row.cost = l.cost
  BY <1>1, ReadyRow DEF AddGuard, RowOf
<1>4. ASSUME NEW t \in Streams
      PROVE  seen[t] \in Seq(Row) /\ Len(seen[t]) \in Nat
  <2>1. seen[t] \in Seq(Row)
    BY DEF AddGuard, TypeOK
  <2> QED
    BY <2>1, LenProperties
<1>5. s \in Streams
  BY DEF AddGuard
<1>6. i \in 1..Len(ws)
  BY <1>1
<1>7. PICK w : w = ws[i]
  OBVIOUS
<1>8. w \in L0Window
  BY <1>2, <1>6, <1>7, ElementOfSeq
<1>9. w.stream \in Streams /\ w.launches \in Seq(Row) /\ w.upto \in Nat
  BY <1>8 DEF L0Window
<1>10. CASE i \in 1..n
  <2>1. Describe(w) /\ SourceIn(windows, i) /\ Placed(w, seen[w.stream])
    BY <1>1, <1>2, <1>7, <1>10 DEF AddGuard, WindowsInv
  <2>2. SourceIn(ws, i)
    BY <1>2, <1>10, <2>1, SourceKept
  <2>3. CASE w.stream = s
    <3>1. PICK full : full = seen[s]
      OBVIOUS
    <3>2. full \in Seq(Row) /\ Len(full) \in Nat /\ Placed(w, full)
      BY <1>4, <1>5, <2>1, <2>3, <3>1
    <3>3. RunOf(w.launches, Append(full, row), w.upto)
      BY <1>3, <1>9, <3>2, RunKept DEF Placed
    <3>4. ASSUME w.trigger = "token_budget_would_overflow"
          PROVE  w.upto < Len(Append(full, row)) /\ w.cost + Append(full, row)[w.upto + 1].cost > Budget
      <4>1. w.upto < Len(full) /\ w.cost + full[w.upto + 1].cost > Budget
        BY <3>2, <3>4 DEF Placed
      <4>2. w.upto + 1 \in 1..Len(full)
        BY <1>9, <3>2, <4>1
      <4>3. Append(full, row)[w.upto + 1] = full[w.upto + 1] /\ Len(Append(full, row)) = Len(full) + 1
        BY <1>3, <3>2, <4>2, AppendProperties
      <4> QED
        BY <1>9, <3>2, <4>1, <4>3
    <3>5. Placed(w, Append(full, row))
      BY <3>3, <3>4 DEF Placed
    <3> QED
      BY <1>1, <1>7, <2>1, <2>2, <2>3, <3>1, <3>5
  <2>4. CASE w.stream # s
    BY <1>1, <1>7, <2>1, <2>2, <2>4
  <2> QED
    BY <2>3, <2>4
<1>11. CASE i \notin 1..n
  <2>1. i = n + 1 /\ Emits(s, l) /\ w = WindowOf(s)
    BY <1>2, <1>6, <1>7, <1>11
  <2>2. Emission(w, s, i, "token_budget_would_overflow")
    BY <1>1, <2>1, EmittedWindow
  <2>3. SourceIn(ws, i)
    <3>1. (n + 1)..(i - 1) = {} /\ n < i /\ i \in Nat
      BY <1>2, <2>1
    <3>2. Grown(windows, ws, s, ws[i].signature, n, i)
      BY <1>2, <3>1 DEF Grown
    <3>3. Emission(ws[i], s, i, "token_budget_would_overflow") /\ Len(windows) \in Nat
          /\ Grown(windows, ws, s, ws[i].signature, Len(windows), i)
      BY <1>1, <1>2, <1>7, <2>2, <3>2
    <3> QED
      BY <3>1, <3>3, SourceOfNext
  <2>4. PICK full : full = seen[s]
    OBVIOUS
  <2>5. /\ Describe(w) /\ w.stream = s /\ w.launches = state[s].launches
        /\ w.cost = state[s].cost /\ w.upto = Len(full)
    BY <2>2, <2>4 DEF Emission
  <2>6. full \in Seq(Row) /\ Len(full) \in Nat
    BY <1>4, <1>5, <2>4
  <2>7. RunOf(w.launches, full, Len(full))
    BY <1>5, <2>4, <2>5 DEF AddGuard, StreamsInv, Held
  <2>8. RunOf(w.launches, Append(full, row), w.upto)
    BY <1>3, <1>9, <2>5, <2>6, <2>7, RunKept
  <2>9. Append(full, row)[Len(full) + 1] = row /\ Len(Append(full, row)) = Len(full) + 1
    BY <1>3, <2>6, AppendProperties
  <2>10. w.cost + row.cost > Budget
    BY <1>3, <2>1, <2>5 DEF Emits, Overflows
  <2>11. Placed(w, Append(full, row))
    BY <2>5, <2>6, <2>8, <2>9, <2>10 DEF Placed
  <2> QED
    BY <1>1, <1>7, <2>3, <2>4, <2>5, <2>11
<1> QED
  BY <1>10, <1>11

\* The tables of the other streams stay right.
LEMMA AddedTables ==
    ASSUME NEW s, NEW l, AddGuard(s, l), NEW t \in Streams, t # s
    PROVE  TablesOf(state[t], t, WindowsWith(s, l))
<1>1. TablesOf(state[t], t, windows) /\ windows \in Seq(L0Window)
  BY DEF AddGuard, TablesInv, TypeOK
<1>2. CASE Emits(s, l)
  <2>1. PICK w : w = WindowOf(s)
    OBVIOUS
  <2>2. w \in L0Window /\ w.stream # t
    BY <1>2, <2>1, EmittedWindow DEF Emission
  <2>3. TablesOf(state[t], t, Append(windows, w))
    BY <1>1, <2>2, TablesKept
  <2> QED
    BY <1>2, <2>1, <2>3 DEF WindowsWith
<1>3. CASE ~Emits(s, l)
  BY <1>1, <1>3 DEF WindowsWith
<1> QED
  BY <1>2, <1>3

LEMMA CoversIs ==
    ASSUME NEW ls \in Seq(Row), NEW upto \in Nat, NEW p \in Nat
    PROVE  p \in Covers(ls, upto) <=> upto - Len(ls) < p /\ p =< upto
<1>1. Len(ls) \in Nat
  BY LenProperties
<1> QED
  BY <1>1 DEF Covers

\* Every launch of the stream is in a window or in the deque afterwards.
LEMMA AddedCovered ==
    ASSUME NEW s, NEW l, AddGuard(s, l), NEW p \in 1..Len(Append(seen[s], RowOf(l)))
    PROVE  \/ Covered(WindowsWith(s, l), s, p)
           \/ p \in Covers(StreamWith(s, l).launches, Len(Append(seen[s], RowOf(l))))
<1>1. PICK ws, n, row, full, ls, ms :
          /\ ws = WindowsWith(s, l) /\ n = Len(windows) /\ row = RowOf(l) /\ full = seen[s]
          /\ ls = state[s].launches /\ ms = StreamWith(s, l).launches
  OBVIOUS
<1>2. /\ Len(ws) \in Nat /\ n \in Nat /\ n =< Len(ws)
      /\ \A j \in 1..n : ws[j] = windows[j]
      /\ Emits(s, l) => Len(ws) = n + 1 /\ ws[n + 1] = WindowOf(s)
      /\ ~Emits(s, l) => Len(ws) = n
  BY <1>1, WindowsExtend
<1>3. row \in Row
  BY <1>1, ReadyRow DEF AddGuard, RowOf
<1>4. full \in Seq(Row) /\ Len(full) \in Nat /\ ls \in Seq(Row) /\ Len(ls) \in Nat
  <2>1. seen[s] \in Seq(Row) /\ DequeOf(state[s])
    BY DEF AddGuard, TypeOK, StreamsInv, Held
  <2>2. state[s].launches \in Seq(Row)
    BY <2>1 DEF DequeOf
  <2> QED
    BY <1>1, <2>1, <2>2, LenProperties
<1>5. Len(Append(full, row)) = Len(full) + 1
  BY <1>3, <1>4, AppendProperties
<1>6. ms \in Seq(Row) /\ ms # <<>> /\ Len(ms) \in Nat \ {0}
      /\ (~Emits(s, l) => ms = Append(ls, row))
  <2>1. ms \in Seq(Row) /\ ms # <<>> /\ (~Emits(s, l) => ms = Append(ls, row))
    BY <1>1, AddedStream DEF Held, DequeOf
  <2> QED
    BY <2>1, EmptySeq
<1>7. p \in Nat /\ p >= 1 /\ p =< Len(full) + 1
  BY <1>1, <1>4, <1>5
<1>8. CASE p = Len(full) + 1
  <2>1. p \in Covers(ms, Len(full) + 1)
    BY <1>4, <1>6, <1>7, <1>8, CoversIs
  <2> QED
    BY <1>1, <1>5, <2>1
<1>9. CASE p # Len(full) + 1
  <2>1. p \in 1..Len(full)
    BY <1>4, <1>7, <1>9
  <2>2. Covered(windows, s, p) \/ p \in Covers(ls, Len(full))
    BY <1>1, <2>1 DEF AddGuard, CoveredInv
  <2>3. CASE Covered(windows, s, p)
    <3>1. PICK i \in 1..n : windows[i].stream = s /\ p \in Covers(windows[i].launches, windows[i].upto)
      BY <1>1, <2>3 DEF Covered
    <3>2. i \in 1..Len(ws) /\ ws[i] = windows[i]
      BY <1>2, <3>1
    <3>3. Covered(ws, s, p)
      BY <3>1, <3>2 DEF Covered
    <3> QED
      BY <1>1, <3>3
  <2>4. CASE p \in Covers(ls, Len(full)) /\ Emits(s, l)
    <3>1. ws[n + 1].stream = s /\ ws[n + 1].launches = ls /\ ws[n + 1].upto = Len(full)
      BY <1>1, <1>2, <2>4, EmittedWindow DEF Emission
    <3>2. n + 1 \in 1..Len(ws)
      BY <1>2, <2>4
    <3>3. Covered(ws, s, p)
      BY <2>4, <3>1, <3>2 DEF Covered
    <3> QED
      BY <1>1, <3>3
  <2>5. CASE p \in Covers(ls, Len(full)) /\ ~Emits(s, l)
    <3>1. Len(ms) = Len(ls) + 1
      BY <1>3, <1>4, <1>6, <2>5, AppendProperties
    <3>2. Len(full) - Len(ls) < p
      BY <1>4, <1>7, <2>5, CoversIs
    <3>3. p \in Covers(ms, Len(full) + 1)
      BY <1>4, <1>6, <1>7, <3>1, <3>2, CoversIs
    <3> QED
      BY <1>1, <1>5, <3>3
  <2> QED
    BY <2>2, <2>3, <2>4, <2>5
<1> QED
  BY <1>8, <1>9

\* Another stream's launches stay covered.
LEMMA CoveredKept ==
    ASSUME NEW ws, NEW vs, NEW n \in Nat, NEW m \in Nat, Len(ws) = n, Len(vs) = m, n =< m,
           \A j \in 1..n : vs[j] = ws[j], NEW s, NEW p, Covered(ws, s, p)
    PROVE  Covered(vs, s, p)
<1>1. PICK i \in 1..n : ws[i].stream = s /\ p \in Covers(ws[i].launches, ws[i].upto)
  BY DEF Covered
<1>2. i \in 1..m /\ vs[i] = ws[i]
  BY <1>1
<1> QED
  BY <1>1, <1>2 DEF Covered

-----------------------------------------------------------------------------
(* flush: one window more for each stream that holds launches. *)

FlushOne(ws, s) ==
    IF state[s].launches = <<>> THEN ws
    ELSE Append(ws, Window(s, state[s], Len(ws), "offline_final_flush"))

\* f holds the windows after each of the first m streams.
FlushLoops(f, m) ==
    f = [n \in 0..m |-> IF n = 0 THEN windows ELSE FlushOne(f[n - 1], order[n])]

LEMMA FlushLoopExists ==
    ASSUME NEW length \in Nat
    PROVE  \E f : FlushLoops(f, length)
<1> DEFINE S == {m \in Nat : \E f : FlushLoops(f, m)}
<1>1. 0 \in S
  <2>1. FlushLoops([n \in 0..0 |-> windows], 0)
    BY DEF FlushLoops
  <2> QED
    BY <2>1
<1>2. ASSUME NEW m \in Nat, m \in S
      PROVE  m + 1 \in S
  <2>1. PICK f : FlushLoops(f, m)
    BY <1>2
  <2> DEFINE g == [n \in 0..(m + 1) |-> IF n =< m THEN f[n] ELSE FlushOne(f[m], order[n])]
  <2>2. f[0] = windows /\ \A n \in 1..m : f[n] = FlushOne(f[n - 1], order[n])
    BY <2>1 DEF FlushLoops
  <2>3. ASSUME NEW n \in 0..(m + 1)
        PROVE  g[n] = IF n = 0 THEN windows ELSE FlushOne(g[n - 1], order[n])
    <3>1. CASE n = 0
      BY <2>2, <3>1
    <3>2. CASE n = m + 1
      <4>1. n - 1 = m /\ g[n - 1] = f[m] /\ g[n] = FlushOne(f[m], order[n]) /\ n # 0
        BY <3>2
      <4> QED
        BY <4>1
    <3>3. CASE n # 0 /\ n # m + 1
      <4>1. n \in 1..m /\ n - 1 \in 0..m
        BY <3>3
      <4>2. g[n] = f[n] /\ g[n - 1] = f[n - 1]
        BY <4>1
      <4> QED
        BY <2>2, <3>3, <4>1, <4>2
    <3> QED
      BY <3>1, <3>2, <3>3
  <2>4. DOMAIN g = 0..(m + 1) /\ g = [n \in 0..(m + 1) |-> g[n]]
    OBVIOUS
  <2> HIDE DEF g
  <2>5. FlushLoops(g, m + 1)
    BY <2>3, <2>4 DEF FlushLoops
  <2> QED
    BY <2>5
<1> HIDE DEF S
<1>3. length \in S
  BY <1>1, <1>2, NatSetInduction
<1> QED
  BY <1>3 DEF S

LEMMA FlushesAre ==
    ASSUME Len(order) \in Nat
    PROVE  /\ Flushes[0] = windows
           /\ \A n \in 1..Len(order) : Flushes[n] = FlushOne(Flushes[n - 1], order[n])
<1> DEFINE f == CHOOSE f : f = [n \in 0..Len(order) |->
                                  IF n = 0 THEN windows ELSE FlushOne(f[n - 1], order[n])]
<1>1. Flushes = f
  BY DEF Flushes, FlushOne
<1>2. f = [n \in 0..Len(order) |-> IF n = 0 THEN windows ELSE FlushOne(f[n - 1], order[n])]
  BY FlushLoopExists DEF FlushLoops
<1> HIDE DEF f
<1>3. f[0] = windows
  BY <1>2
<1>4. ASSUME NEW n \in 1..Len(order)
      PROVE  f[n] = FlushOne(f[n - 1], order[n])
  <2>1. n \in 0..Len(order) /\ n # 0
    OBVIOUS
  <2> QED
    BY <1>2, <2>1
<1> QED
  BY <1>1, <1>3, <1>4

\* After n streams: the windows before, then the windows of those of the n streams that hold
\* launches, one each.
FlushedTo(ws, n) ==
    /\ ws \in Seq(L0Window) /\ Len(windows) =< Len(ws)
    /\ \A j \in 1..Len(windows) : ws[j] = windows[j]
    /\ \A i \in (Len(windows) + 1)..Len(ws) : \E m \in 1..n :
          /\ state[order[m]].launches # <<>>
          /\ Emission(ws[i], order[m], i, "offline_final_flush")
    /\ \A i, j \in (Len(windows) + 1)..Len(ws) : i # j => ws[i].stream # ws[j].stream
    /\ \A m \in 1..n : state[order[m]].launches # <<>> =>
          \E i \in (Len(windows) + 1)..Len(ws) : ws[i].stream = order[m]

FlushGuard == TypeOK /\ StreamsInv /\ TablesInv /\ WindowsInv /\ CoveredInv /\ ~flushed

LEMMA FlushedStep ==
    ASSUME FlushGuard, NEW ws, NEW n \in Nat, n + 1 =< Len(order), FlushedTo(ws, n)
    PROVE  FlushedTo(FlushOne(ws, order[n + 1]), n + 1)
<1>1. PICK s, k, l : s = order[n + 1] /\ k = Len(windows) /\ l = Len(ws)
  OBVIOUS
<1>2. /\ k \in Nat /\ l \in Nat /\ k =< l /\ ws \in Seq(L0Window)
      /\ Len(order) \in Nat /\ n + 1 \in 1..Len(order) /\ s \in Streams
      /\ \A m \in 1..n : m \in 1..Len(order) /\ order[m] # s
  <2>1. windows \in Seq(L0Window) /\ order \in Seq(Streams) /\ IsInjective(order)
        /\ ws \in Seq(L0Window) /\ k =< l
    BY <1>1 DEF FlushGuard, TypeOK, FlushedTo
  <2>2. k \in Nat /\ l \in Nat /\ Len(order) \in Nat /\ DOMAIN order = 1..Len(order)
    BY <1>1, <2>1, LenProperties
  <2>3. n + 1 \in 1..Len(order) /\ \A m \in 1..n : m \in 1..Len(order) /\ m # n + 1
    BY <2>2
  <2>4. s \in Streams
    BY <1>1, <2>1, <2>3, ElementOfSeq
  <2>5. \A m \in 1..n : order[m] # s
    BY <1>1, <2>1, <2>2, <2>3 DEF IsInjective
  <2> QED
    BY <2>1, <2>2, <2>3, <2>4, <2>5
<1>3. 1..(n + 1) = 1..n \cup {n + 1}
  OBVIOUS
<1>4. /\ \A j \in 1..k : ws[j] = windows[j]
      /\ \A i \in (k + 1)..l : \E m \in 1..n :
            state[order[m]].launches # <<>> /\ Emission(ws[i], order[m], i, "offline_final_flush")
      /\ \A i, j \in (k + 1)..l : i # j => ws[i].stream # ws[j].stream
      /\ \A m \in 1..n : state[order[m]].launches # <<>> =>
            \E i \in (k + 1)..l : ws[i].stream = order[m]
  BY <1>1 DEF FlushedTo
<1>5. CASE state[s].launches = <<>>
  <2>1. FlushOne(ws, s) = ws
    BY <1>5 DEF FlushOne
  <2>2. \A i \in (k + 1)..l : \E m \in 1..(n + 1) :
            state[order[m]].launches # <<>> /\ Emission(ws[i], order[m], i, "offline_final_flush")
    BY <1>3, <1>4
  <2>3. \A m \in 1..(n + 1) : state[order[m]].launches # <<>> =>
            \E i \in (k + 1)..l : ws[i].stream = order[m]
    BY <1>1, <1>3, <1>4, <1>5
  <2>4. FlushedTo(ws, n + 1)
    BY <1>1, <1>2, <1>4, <2>2, <2>3 DEF FlushedTo
  <2> QED
    BY <1>1, <2>1, <2>4
<1>6. CASE state[s].launches # <<>>
  <2>1. PICK w : w = Window(s, state[s], l, "offline_final_flush")
    OBVIOUS
  <2>2. Emission(w, s, l + 1, "offline_final_flush")
    <3>1. TypeOK /\ StreamsInv /\ TablesInv /\ ~flushed
      BY DEF FlushGuard
    <3>2. l + 1 \in Nat /\ Len(windows) < l + 1 /\ l + 1 - 1 = l
      BY <1>1, <1>2
    <3>3. Emission(Window(s, state[s], l + 1 - 1, "offline_final_flush"), s, l + 1,
                   "offline_final_flush")
      BY <1>2, <1>6, <3>1, <3>2, NextWindow
    <3> QED
      BY <2>1, <3>2, <3>3
  <2>3. w \in L0Window /\ w.stream = s
    BY <2>2 DEF Emission
  <2>4. PICK vs : vs = Append(ws, w)
    OBVIOUS
  <2>5. /\ vs \in Seq(L0Window) /\ Len(vs) = l + 1 /\ vs[l + 1] = w
        /\ \A i \in 1..l : vs[i] = ws[i]
    BY <1>1, <1>2, <2>3, <2>4, AppendProperties
  <2>6. FlushOne(ws, s) = vs
    BY <1>1, <1>6, <2>1, <2>4 DEF FlushOne
  <2>7. (k + 1)..(l + 1) = (k + 1)..l \cup {l + 1} /\ \A i \in (k + 1)..l : i \in 1..l /\ i # l + 1
    BY <1>2
  <2>8. \A j \in 1..k : vs[j] = windows[j]
    BY <1>2, <1>4, <2>5
  <2>9. \A i \in (k + 1)..l : vs[i] = ws[i] /\ ws[i].stream # s
    <3>1. ASSUME NEW i \in (k + 1)..l
          PROVE  vs[i] = ws[i] /\ ws[i].stream # s
      <4>1. PICK m \in 1..n : Emission(ws[i], order[m], i, "offline_final_flush")
        BY <1>4
      <4>2. ws[i].stream = order[m]
        BY <4>1 DEF Emission
      <4> QED
        BY <1>2, <2>5, <2>7, <4>2
    <3> QED
      BY <3>1
  <2>10. \A i \in (k + 1)..(l + 1) : \E m \in 1..(n + 1) :
            state[order[m]].launches # <<>> /\ Emission(vs[i], order[m], i, "offline_final_flush")
    <3>1. ASSUME NEW i \in (k + 1)..(l + 1)
          PROVE  \E m \in 1..(n + 1) :
            state[order[m]].launches # <<>> /\ Emission(vs[i], order[m], i, "offline_final_flush")
      <4>1. CASE i \in (k + 1)..l
        BY <1>3, <1>4, <2>9, <4>1
      <4>2. CASE i = l + 1
        <5>1. n + 1 \in 1..(n + 1) /\ state[order[n + 1]].launches # <<>>
              /\ Emission(vs[i], order[n + 1], i, "offline_final_flush")
          BY <1>1, <1>3, <1>6, <2>2, <2>5, <4>2
        <5> QED
          BY <5>1
      <4> QED
        BY <2>7, <4>1, <4>2
    <3> QED
      BY <3>1
  <2>11. \A i, j \in (k + 1)..(l + 1) : i # j => vs[i].stream # vs[j].stream
    <3>1. ASSUME NEW i \in (k + 1)..(l + 1), NEW j \in (k + 1)..(l + 1), i # j
          PROVE  vs[i].stream # vs[j].stream
      <4>1. CASE i \in (k + 1)..l /\ j \in (k + 1)..l
        <5>1. \A a, b \in (k + 1)..l : a # b => ws[a].stream # ws[b].stream
          BY <1>4
        <5>2. ws[i].stream # ws[j].stream
          BY <3>1, <4>1, <5>1
        <5> QED
          BY <2>9, <4>1, <5>2
      <4>2. CASE i = l + 1
        <5>1. j \in (k + 1)..l /\ vs[i].stream = s
          BY <2>3, <2>5, <2>7, <3>1, <4>2
        <5> QED
          BY <2>9, <5>1
      <4>3. CASE j = l + 1
        <5>1. i \in (k + 1)..l /\ vs[j].stream = s
          BY <2>3, <2>5, <2>7, <3>1, <4>3
        <5> QED
          BY <2>9, <5>1
      <4> QED
        BY <2>7, <4>1, <4>2, <4>3
    <3> QED
      BY <3>1
  <2>12. \A m \in 1..(n + 1) : state[order[m]].launches # <<>> =>
            \E i \in (k + 1)..(l + 1) : vs[i].stream = order[m]
    <3>1. ASSUME NEW m \in 1..(n + 1), state[order[m]].launches # <<>>
          PROVE  \E i \in (k + 1)..(l + 1) : vs[i].stream = order[m]
      <4>1. CASE m \in 1..n
        <5>1. PICK i \in (k + 1)..l : ws[i].stream = order[m]
          BY <1>4, <3>1, <4>1
        <5> QED
          BY <2>7, <2>9, <5>1
      <4>2. CASE m = n + 1
        BY <1>1, <2>3, <2>5, <2>7, <4>2
      <4> QED
        BY <1>3, <4>1, <4>2
    <3> QED
      BY <3>1
  <2>13. k =< l + 1
    BY <1>2
  <2>14. FlushedTo(vs, n + 1)
    BY <1>1, <2>5, <2>8, <2>10, <2>11, <2>12, <2>13 DEF FlushedTo
  <2> QED
    BY <1>1, <2>6, <2>14
<1> QED
  BY <1>5, <1>6

LEMMA FlushedAll ==
    ASSUME FlushGuard
    PROVE  FlushedTo(Flushes[Len(order)], Len(order))
<1>1. PICK after, length : after = Flushes /\ length = Len(order)
  OBVIOUS
<1>2. windows \in Seq(L0Window) /\ Len(windows) \in Nat /\ length \in Nat
  <2>1. windows \in Seq(L0Window) /\ order \in Seq(Streams)
    BY DEF FlushGuard, TypeOK
  <2> QED
    BY <1>1, <2>1, LenProperties
<1>3. after[0] = windows /\ \A n \in 1..length : after[n] = FlushOne(after[n - 1], order[n])
  BY <1>1, <1>2, FlushesAre
<1> DEFINE S == {n \in Nat : n =< length => FlushedTo(after[n], n)}
<1>4. 0 \in S
  <2>1. (Len(windows) + 1)..Len(windows) = {} /\ 1..0 = {}
    BY <1>2
  <2>2. FlushedTo(windows, 0)
    BY <1>2, <2>1 DEF FlushedTo
  <2> QED
    BY <1>3, <2>2
<1>5. ASSUME NEW n \in Nat, n \in S
      PROVE  n + 1 \in S
  <2> SUFFICES ASSUME n + 1 =< length
               PROVE  FlushedTo(after[n + 1], n + 1)
    OBVIOUS
  <2>1. FlushedTo(after[n], n)
    BY <1>2, <1>5
  <2>2. after[n + 1] = FlushOne(after[n], order[n + 1])
    <3>1. n + 1 \in 1..length /\ n + 1 - 1 = n
      BY <1>2
    <3> QED
      BY <1>3, <3>1
  <2> QED
    BY <1>1, <2>1, <2>2, FlushedStep
<1> HIDE DEF S
<1>6. length \in S
  BY <1>2, <1>4, <1>5, NatSetInduction
<1> QED
  BY <1>1, <1>2, <1>6 DEF S

\* The windows after flush() are right.
LEMMA FlushedWindows ==
    ASSUME FlushGuard, NEW vs, FlushedTo(vs, Len(order)), NEW i \in 1..Len(vs)
    PROVE  Describe(vs[i]) /\ SourceIn(vs, i) /\ Placed(vs[i], seen[vs[i].stream])
<1>1. PICK n : n = Len(windows)
  OBVIOUS
<1>2. /\ n \in Nat /\ Len(vs) \in Nat /\ n =< Len(vs) /\ Len(order) \in Nat
      /\ \A j \in 1..n : vs[j] = windows[j] /\ order \in Seq(Streams)
  <2>1. windows \in Seq(L0Window) /\ order \in Seq(Streams) /\ vs \in Seq(L0Window)
    BY DEF FlushGuard, TypeOK, FlushedTo
  <2> QED
    BY <1>1, <2>1, LenProperties DEF FlushedTo
<1>3. CASE i \in 1..n
  <2>1. Describe(windows[i]) /\ SourceIn(windows, i) /\ Placed(windows[i], seen[windows[i].stream])
    BY <1>1, <1>3 DEF FlushGuard, WindowsInv
  <2>2. SourceIn(vs, i)
    BY <1>2, <1>3, <2>1, SourceKept
  <2> QED
    BY <1>2, <1>3, <2>1, <2>2
<1>4. CASE i \notin 1..n
  <2>1. i \in (n + 1)..Len(vs) /\ i \in Nat /\ n < i
    BY <1>2, <1>4
  <2>2. PICK m \in 1..Len(order) : /\ state[order[m]].launches # <<>>
                                   /\ Emission(vs[i], order[m], i, "offline_final_flush")
    BY <1>1, <2>1 DEF FlushedTo
  <2>3. PICK s : s = order[m]
    OBVIOUS
  <2>4. s \in Streams
    <3>1. order \in Seq(Streams)
      BY DEF FlushGuard, TypeOK
    <3> QED
      BY <2>3, <3>1, ElementOfSeq
  <2>5. /\ Describe(vs[i]) /\ vs[i].stream = s /\ vs[i].launches = state[s].launches
        /\ vs[i].upto = Len(seen[s]) /\ vs[i].trigger = "offline_final_flush"
    BY <2>2, <2>3 DEF Emission
  <2>6. Grown(windows, vs, s, vs[i].signature, n, i)
    <3>1. ASSUME NEW j \in (n + 1)..(i - 1)
          PROVE  vs[j].stream # s
      <4>1. j \in (n + 1)..Len(vs) /\ j # i
        BY <1>2, <2>1
      <4>2. vs[i].stream # vs[j].stream
        BY <1>1, <2>1, <4>1 DEF FlushedTo
      <4> QED
        BY <2>5, <4>2
    <3> QED
      BY <1>2, <2>1, <3>1 DEF Grown
  <2>7. SourceIn(vs, i)
    <3>1. /\ Len(windows) \in Nat /\ Emission(vs[i], s, i, "offline_final_flush")
          /\ Grown(windows, vs, s, vs[i].signature, Len(windows), i)
      BY <1>1, <1>2, <2>2, <2>3, <2>6
    <3> QED
      BY <2>1, <3>1, SourceOfNext
  <2>8. RunOf(state[s].launches, seen[s], Len(seen[s]))
    BY <2>4 DEF FlushGuard, StreamsInv, Held
  <2>9. Placed(vs[i], seen[s])
    BY <2>5, <2>8 DEF Placed
  <2> QED
    BY <2>5, <2>7, <2>9
<1> QED
  BY <1>3, <1>4

\* After flush() every launch is in a window.
LEMMA FlushedCovered ==
    ASSUME FlushGuard, NEW vs, FlushedTo(vs, Len(order)),
           NEW s \in Streams, NEW p \in 1..Len(seen[s])
    PROVE  Covered(vs, s, p)
<1>1. PICK n : n = Len(windows)
  OBVIOUS
<1>2. /\ n \in Nat /\ Len(vs) \in Nat /\ n =< Len(vs)
      /\ \A j \in 1..n : vs[j] = windows[j]
  <2>1. windows \in Seq(L0Window) /\ vs \in Seq(L0Window)
    BY DEF FlushGuard, TypeOK, FlushedTo
  <2> QED
    BY <1>1, <2>1, LenProperties DEF FlushedTo
<1>3. Covered(windows, s, p) \/ p \in Covers(state[s].launches, Len(seen[s]))
  BY DEF FlushGuard, CoveredInv
<1>4. CASE Covered(windows, s, p)
  <2>1. PICK len : len = Len(vs)
    OBVIOUS
  <2>2. len \in Nat /\ n =< len /\ Len(windows) = n /\ Len(vs) = len
    BY <1>1, <1>2, <2>1
  <2> QED
    BY <1>2, <1>4, <2>2, CoveredKept
<1>5. CASE p \in Covers(state[s].launches, Len(seen[s]))
  <2>1. PICK ls, full : ls = state[s].launches /\ full = seen[s]
    OBVIOUS
  <2>2. ls \in Seq(Row) /\ Len(ls) \in Nat /\ Len(full) \in Nat
    <3>1. seen[s] \in Seq(Row) /\ DequeOf(state[s])
      BY DEF FlushGuard, TypeOK, StreamsInv, Held
    <3>2. state[s].launches \in Seq(Row)
      BY <3>1 DEF DequeOf
    <3> QED
      BY <2>1, <3>1, <3>2, LenProperties
  <2>3. ls # <<>>
    <3>1. p \in Nat /\ p =< Len(full)
      BY <2>1, <2>2
    <3>2. Len(full) - Len(ls) < p
      BY <1>5, <2>1, <2>2, <3>1, CoversIs
    <3>3. Len(ls) # 0
      BY <2>2, <3>1, <3>2
    <3> QED
      BY <3>3
  <2>4. Contains(order, s)
    BY <2>1, <2>3 DEF FlushGuard, StreamsInv
  <2>5. PICK m \in 1..Len(order) : order[m] = s
    BY <2>4 DEF Contains
  <2>6. PICK i \in (n + 1)..Len(vs) : vs[i].stream = s
    BY <1>1, <2>1, <2>3, <2>5 DEF FlushedTo
  <2>7. PICK q \in 1..Len(order) : Emission(vs[i], order[q], i, "offline_final_flush")
    BY <1>1, <2>6 DEF FlushedTo
  <2>8. vs[i].launches = ls /\ vs[i].upto = Len(full)
    BY <2>1, <2>6, <2>7 DEF Emission
  <2>9. i \in 1..Len(vs)
    BY <1>2, <2>6
  <2> QED
    BY <1>5, <2>1, <2>6, <2>8, <2>9 DEF Covered
<1> QED
  BY <1>3, <1>4, <1>5

-----------------------------------------------------------------------------
(* The invariant holds. *)

LEMMA NewStreamHeld == Held(NewStream, <<>>) /\ NewStream.launches = <<>>
<1>1. PICK st : st = NewStream
  OBVIOUS
<1>2. Stream(st) /\ st.launches = <<>> /\ st.cost = 0 /\ st.counts = <<>> /\ st.ratios = <<>>
      /\ st.evicted = 0 /\ st.unready = 0
  BY <1>1 DEF NewStream, Stream
<1>3. KernelsOf(<<>>) = {} /\ DOMAIN <<>> = {} /\ <<>> \in Seq(Row) /\ Len(<<>>) = 0
  BY DEF KernelsOf
<1>4. Counts(st.counts, st.launches) /\ Ratios(st.ratios, st.launches)
  BY <1>2, <1>3 DEF Counts, Ratios
<1>5. DequeOf(st)
  BY <1>2, <1>3, <1>4, CostOfEmpty DEF DequeOf
<1>6. RunOf(st.launches, <<>>, Len(<<>>))
  BY <1>2, <1>3 DEF RunOf
<1> QED
  BY <1>1, <1>2, <1>5, <1>6, SchedulerAssumption DEF Held

\* The type of a deque.
HasType(st) ==
    /\ st.launches \in Seq(Row) /\ st.cost \in 0..Budget
    /\ st.evicted \in Nat /\ st.unready \in Nat

LEMMA HeldType ==
    ASSUME NEW st, NEW full, Held(st, full)
    PROVE  HasType(st)
<1>1. DequeOf(st) /\ st.cost =< Budget
  BY DEF Held
<1>2. st.launches \in Seq(Row) /\ st.cost = CostOf(st.launches)
  BY <1>1 DEF DequeOf
<1>3. CostOf(st.launches) \in Nat
  BY <1>2, CostOfType
<1>4. st.cost \in 0..Budget
  BY <1>1, <1>2, <1>3, SchedulerAssumption
<1> QED
  BY <1>1, <1>2, <1>4 DEF HasType, DequeOf

LEMMA Registered ==
    ASSUME order \in Seq(Streams), IsInjective(order), NEW s \in Streams
    PROVE  /\ Register(s) \in Seq(Streams) /\ IsInjective(Register(s))
           /\ \A t : Contains(Register(s), t) <=> Contains(order, t) \/ t = s
<1>1. PICK os, n : os = order /\ n = Len(order)
  OBVIOUS
<1>2. os \in Seq(Streams) /\ n \in Nat /\ DOMAIN os = 1..n /\ Len(os) = n /\ IsInjective(os)
  BY <1>1, LenProperties
<1>3. CASE Contains(os, s)
  BY <1>1, <1>2, <1>3 DEF Register
<1>4. CASE ~Contains(os, s)
  <2>1. PICK ms : ms = Append(os, s)
    OBVIOUS
  <2>2. /\ ms \in Seq(Streams) /\ Len(ms) = n + 1 /\ ms[n + 1] = s /\ DOMAIN ms = 1..(n + 1)
        /\ \A i \in 1..n : ms[i] = os[i]
    BY <1>2, <2>1, AppendProperties, LenProperties
  <2>3. \A i \in 1..n : os[i] # s
    BY <1>2, <1>4 DEF Contains
  <2>4. 1..(n + 1) = 1..n \cup {n + 1}
    BY <1>2
  <2>5. \A a, b \in 1..n : os[a] = os[b] => a = b
    BY <1>2 DEF IsInjective
  <2>6. \A a, b \in 1..(n + 1) : ms[a] = ms[b] => a = b
    BY <2>2, <2>3, <2>4, <2>5
  <2>7. IsInjective(ms)
    BY <2>2, <2>6 DEF IsInjective
  <2>8. \A t : Contains(ms, t) <=> Contains(os, t) \/ t = s
    BY <1>2, <2>2, <2>4 DEF Contains
  <2>9. Register(s) = ms
    BY <1>1, <1>4, <2>1 DEF Register
  <2> QED
    BY <1>1, <2>2, <2>7, <2>8, <2>9
<1> QED
  BY <1>3, <1>4

LEMMA InitInv ==
    ASSUME Init
    PROVE  SchedulerInv
<1>1. /\ state = [s \in Streams |-> NewStream] /\ order = <<>> /\ windows = <<>>
      /\ flushed = FALSE /\ seen = [s \in Streams |-> <<>>]
  BY DEF Init
<1>2. Len(<<>>) = 0 /\ <<>> \in Seq(L0Window) /\ <<>> \in Seq(Streams) /\ <<>> \in Seq(Row)
  OBVIOUS
<1>3. StreamsInv
  BY <1>1, NewStreamHeld DEF StreamsInv
<1>4. TypeOK
  <2>1. \A s \in Streams : HasType(state[s])
    BY <1>3, HeldType DEF StreamsInv
  <2>2. IsInjective(<<>>)
    BY DEF IsInjective
  <2> QED
    BY <1>1, <1>2, <2>1, <2>2 DEF TypeOK, HasType
<1>5. TablesInv
  <2>1. ASSUME NEW s \in Streams
        PROVE  TablesOf(state[s], s, windows)
    <3>1. \A sg : Same(<<>>, s, sg, 0) = {}
      BY DEF Same
    <3>2. state[s].occurrences = <<>> /\ state[s].first = <<>> /\ DOMAIN <<>> = {}
      BY <1>1 DEF NewStream
    <3> QED
      BY <1>1, <1>2, <3>1, <3>2 DEF TablesOf
  <2> QED
    BY <2>1 DEF TablesInv
<1>6. WindowsInv
  BY <1>1, <1>2 DEF WindowsInv
<1>7. CoveredInv
  BY <1>1, <1>2 DEF CoveredInv
<1> QED
  BY <1>3, <1>4, <1>5, <1>6, <1>7 DEF SchedulerInv

\* A launch that is not ready only counts.
LEMMA UnreadyStream ==
    ASSUME NEW st, NEW full, Held(st, full), NEW s, NEW ws, TablesOf(st, s, ws)
    PROVE  LET x == [st EXCEPT !.unready = @ + 1]
           IN  Held(x, full) /\ TablesOf(x, s, ws) /\ x.launches = st.launches
<1>1. /\ Stream(st) /\ st.unready \in Nat
  BY DEF Held, DequeOf
<1>2. PICK x : x = [st EXCEPT !.unready = @ + 1]
  OBVIOUS
<1>3. /\ Stream(x) /\ x.launches = st.launches /\ x.cost = st.cost
      /\ x.counts = st.counts /\ x.ratios = st.ratios
      /\ x.first = st.first /\ x.occurrences = st.occurrences
      /\ x.evicted = st.evicted /\ x.unready = st.unready + 1
  BY <1>1, <1>2 DEF Stream
<1>4. DequeOf(x)
  BY <1>1, <1>3 DEF Held, DequeOf
<1>5. TablesOf(x, s, ws)
  BY <1>3 DEF TablesOf
<1> QED
  BY <1>2, <1>3, <1>4, <1>5 DEF Held

LEMMA AddUnreadyInv ==
    ASSUME SchedulerInv, NEW s \in Streams, NEW l \in Launches, AddUnready(s, l)
    PROVE  SchedulerInv'
<1>1. TypeOK /\ StreamsInv /\ TablesInv /\ WindowsInv /\ CoveredInv
  BY DEF SchedulerInv
<1>2. /\ ~flushed /\ state' = [state EXCEPT ![s].unready = @ + 1] /\ order' = Register(s)
      /\ windows' = windows /\ flushed' = flushed /\ seen' = seen
  BY DEF AddUnready
<1>3. /\ DOMAIN state' = Streams /\ state'[s] = [state[s] EXCEPT !.unready = @ + 1]
      /\ \A t \in Streams : t # s => state'[t] = state[t]
  BY <1>1, <1>2 DEF StreamsInv
<1>4. /\ Register(s) \in Seq(Streams) /\ IsInjective(Register(s))
      /\ \A t : Contains(Register(s), t) <=> Contains(order, t) \/ t = s
  BY <1>1, Registered DEF TypeOK
<1>5. ASSUME NEW t \in Streams
      PROVE  /\ Held(state'[t], seen[t]) /\ TablesOf(state'[t], t, windows)
             /\ state'[t].launches = state[t].launches
             /\ state'[t].launches # <<>> => Contains(Register(s), t)
  <2>1. /\ Held(state[t], seen[t]) /\ TablesOf(state[t], t, windows)
        /\ state[t].launches # <<>> => Contains(order, t)
    BY <1>1, <1>2 DEF StreamsInv, TablesInv
  <2>2. CASE t = s
    <3>1. PICK x : x = [state[s] EXCEPT !.unready = @ + 1]
      OBVIOUS
    <3>2. Held(x, seen[s]) /\ TablesOf(x, s, windows) /\ x.launches = state[s].launches
      BY <2>1, <2>2, <3>1, UnreadyStream
    <3>3. state'[t] = x
      BY <1>3, <2>2, <3>1
    <3> QED
      BY <1>4, <2>2, <3>2, <3>3
  <2>3. CASE t # s
    BY <1>3, <1>4, <2>1, <2>3
  <2> QED
    BY <2>2, <2>3
<1>6. StreamsInv'
  BY <1>2, <1>3, <1>5 DEF StreamsInv
<1>7. TypeOK'
  <2>1. \A t \in Streams : HasType(state'[t])
    BY <1>5, HeldType
  <2> QED
    BY <1>1, <1>2, <1>4, <2>1 DEF TypeOK, HasType
<1>8. TablesInv'
  BY <1>2, <1>5 DEF TablesInv
<1>9. WindowsInv'
  BY <1>1, <1>2 DEF WindowsInv
<1>10. CoveredInv'
  BY <1>1, <1>2, <1>5 DEF CoveredInv
<1> QED
  BY <1>6, <1>7, <1>8, <1>9, <1>10 DEF SchedulerInv

LEMMA AddLaunchInv ==
    ASSUME SchedulerInv, NEW s \in Streams, NEW l \in Launches, AddLaunch(s, l)
    PROVE  SchedulerInv'
<1>1. TypeOK /\ StreamsInv /\ TablesInv /\ WindowsInv /\ CoveredInv
  BY DEF SchedulerInv
<1>2. /\ ~flushed /\ Ready(l) /\ l.cost =< Budget
      /\ state' = [state EXCEPT ![s] = StreamWith(s, l)]
      /\ windows' = WindowsWith(s, l) /\ seen' = [seen EXCEPT ![s] = Append(@, RowOf(l))]
      /\ order' = Register(s) /\ flushed' = flushed
  BY DEF AddLaunch, StreamWith, WindowsWith, EmittedWith, Emits, WindowOf, RowOf
<1>3. AddGuard(s, l)
  BY <1>1, <1>2 DEF AddGuard
<1>4. PICK x, row, ws : x = StreamWith(s, l) /\ row = RowOf(l) /\ ws = WindowsWith(s, l)
  OBVIOUS
<1>5. row \in Row
  BY <1>2, <1>4, ReadyRow DEF RowOf
<1>6. /\ DOMAIN state' = Streams /\ state'[s] = x
      /\ \A t \in Streams : t # s => state'[t] = state[t]
  BY <1>1, <1>2, <1>4 DEF StreamsInv
<1>7. /\ seen' \in [Streams -> Seq(Row)] /\ seen'[s] = Append(seen[s], row)
      /\ \A t \in Streams : t # s => seen'[t] = seen[t]
  <2>1. seen \in [Streams -> Seq(Row)]
    BY <1>1 DEF TypeOK
  <2>2. Append(seen[s], row) \in Seq(Row)
    BY <1>5, <2>1, AppendProperties
  <2> QED
    BY <1>2, <1>4, <2>1, <2>2
<1>8. /\ Register(s) \in Seq(Streams) /\ IsInjective(Register(s))
      /\ \A t : Contains(Register(s), t) <=> Contains(order, t) \/ t = s
  BY <1>1, Registered DEF TypeOK
<1>9. /\ Held(x, Append(seen[s], row)) /\ TablesOf(x, s, ws)
  BY <1>3, <1>4, AddedStream
<1>10. /\ ws \in Seq(L0Window) /\ Len(ws) \in Nat /\ Len(windows) \in Nat
       /\ Len(windows) =< Len(ws) /\ \A j \in 1..Len(windows) : ws[j] = windows[j]
  BY <1>3, <1>4, WindowsExtend
<1>11. ASSUME NEW t \in Streams
       PROVE  /\ Held(state'[t], seen'[t]) /\ TablesOf(state'[t], t, ws)
              /\ state'[t].launches # <<>> => Contains(Register(s), t)
  <2>1. CASE t = s
    BY <1>6, <1>7, <1>8, <1>9, <2>1
  <2>2. CASE t # s
    <3>1. /\ Held(state[t], seen[t]) /\ TablesOf(state[t], t, ws)
          /\ state[t].launches # <<>> => Contains(order, t)
      BY <1>1, <1>3, <1>4, <2>2, AddedTables DEF StreamsInv
    <3> QED
      BY <1>6, <1>7, <1>8, <2>2, <3>1
  <2> QED
    BY <2>1, <2>2
<1>12. StreamsInv'
  BY <1>2, <1>6, <1>11 DEF StreamsInv
<1>13. TypeOK'
  <2>1. \A t \in Streams : HasType(state'[t])
    BY <1>11, HeldType
  <2>2. flushed' \in BOOLEAN
    BY <1>1, <1>2 DEF TypeOK
  <2> QED
    BY <1>2, <1>4, <1>7, <1>8, <1>10, <2>1, <2>2 DEF TypeOK, HasType
<1>14. TablesInv'
  BY <1>2, <1>4, <1>11 DEF TablesInv
<1>15. WindowsInv'
  <2>1. ASSUME NEW i \in 1..Len(ws)
        PROVE  Describe(ws[i]) /\ SourceIn(ws, i) /\ Placed(ws[i], seen'[ws[i].stream])
    <3>1. /\ Describe(ws[i]) /\ SourceIn(ws, i)
          /\ Placed(ws[i], IF ws[i].stream = s THEN Append(seen[s], row) ELSE seen[ws[i].stream])
      BY <1>3, <1>4, AddedWindows
    <3>2. ws[i].stream \in Streams
      <4>1. ws[i] \in L0Window
        BY <1>10, ElementOfSeq
      <4> QED
        BY <4>1 DEF L0Window
    <3>3. seen'[ws[i].stream]
            = IF ws[i].stream = s THEN Append(seen[s], row) ELSE seen[ws[i].stream]
      BY <1>7, <3>2
    <3> QED
      BY <3>1, <3>3
  <2> QED
    BY <1>2, <1>4, <2>1 DEF WindowsInv
<1>16. CoveredInv'
  <2>1. ASSUME NEW t \in Streams, NEW p \in 1..Len(seen'[t])
        PROVE  Covered(ws, t, p) \/ (~flushed /\ p \in Covers(state'[t].launches, Len(seen'[t])))
    <3>1. CASE t = s
      <4>1. p \in 1..Len(Append(seen[s], row))
        BY <1>7, <3>1
      <4>2. Covered(ws, s, p) \/ p \in Covers(x.launches, Len(Append(seen[s], row)))
        BY <1>3, <1>4, <4>1, AddedCovered
      <4> QED
        BY <1>2, <1>6, <1>7, <3>1, <4>2
    <3>2. CASE t # s
      <4>1. Covered(windows, t, p) \/ p \in Covers(state[t].launches, Len(seen[t]))
        BY <1>1, <1>7, <3>2 DEF CoveredInv
      <4>2. Covered(windows, t, p) => Covered(ws, t, p)
        BY <1>10, CoveredKept
      <4> QED
        BY <1>2, <1>6, <1>7, <3>2, <4>1, <4>2
    <3> QED
      BY <3>1, <3>2
  <2> QED
    BY <1>2, <1>4, <2>1 DEF CoveredInv
<1> QED
  BY <1>12, <1>13, <1>14, <1>15, <1>16 DEF SchedulerInv

LEMMA FlushInv ==
    ASSUME SchedulerInv, Flush
    PROVE  SchedulerInv'
<1>1. TypeOK /\ StreamsInv /\ TablesInv /\ WindowsInv /\ CoveredInv
  BY DEF SchedulerInv
<1>2. PICK vs : vs = Flushes[Len(order)]
  OBVIOUS
<1>3. /\ ~flushed /\ windows' = vs /\ flushed' = TRUE /\ order' = order /\ seen' = seen
      /\ state' = [s \in Streams |->
            IF state[s].launches = <<>> THEN state[s]
            ELSE LET i == CHOOSE j \in (Len(windows) + 1)..Len(windows') : windows'[j].stream = s
                 IN  Emitted(state[s], windows'[i])]
  BY <1>2 DEF Flush
<1>4. FlushGuard
  BY <1>1, <1>3 DEF FlushGuard
<1>5. FlushedTo(vs, Len(order))
  BY <1>2, <1>4, FlushedAll
<1>6. ASSUME NEW s \in Streams
      PROVE  Held(state'[s], seen[s]) /\ state'[s].launches = state[s].launches
  <2>1. Held(state[s], seen[s]) /\ DequeOf(state[s])
    BY <1>1 DEF StreamsInv, Held
  <2>2. CASE state[s].launches = <<>>
    BY <1>3, <2>1, <2>2
  <2>3. CASE state[s].launches # <<>>
    <3>1. PICK i : i = CHOOSE j \in (Len(windows) + 1)..Len(windows') : windows'[j].stream = s
      OBVIOUS
    <3>2. PICK w : w = windows'[i]
      OBVIOUS
    <3>3. state'[s] = Emitted(state[s], w)
      BY <1>3, <2>3, <3>1, <3>2
    <3> QED
      BY <2>1, <3>3, EmittedDeque DEF Held
  <2> QED
    BY <2>2, <2>3
<1>7. DOMAIN state' = Streams
  BY <1>3
<1>8. StreamsInv'
  BY <1>1, <1>3, <1>6, <1>7 DEF StreamsInv
<1>9. TypeOK'
  <2>1. \A t \in Streams : HasType(state'[t])
    BY <1>6, HeldType
  <2>2. vs \in Seq(L0Window)
    BY <1>5 DEF FlushedTo
  <2> QED
    BY <1>1, <1>3, <2>1, <2>2 DEF TypeOK, HasType
<1>10. TablesInv'
  BY <1>3 DEF TablesInv
<1>11. WindowsInv'
  <2>1. \A i \in 1..Len(vs) : Describe(vs[i]) /\ SourceIn(vs, i) /\ Placed(vs[i], seen[vs[i].stream])
    BY <1>4, <1>5, FlushedWindows
  <2> QED
    BY <1>3, <2>1 DEF WindowsInv
<1>12. CoveredInv'
  <2>1. \A s \in Streams : \A p \in 1..Len(seen[s]) : Covered(vs, s, p)
    BY <1>4, <1>5, FlushedCovered
  <2> QED
    BY <1>3, <2>1 DEF CoveredInv
<1> QED
  BY <1>8, <1>9, <1>10, <1>11, <1>12 DEF SchedulerInv

LEMMA UnchangedInv ==
    ASSUME SchedulerInv, UNCHANGED vars
    PROVE  SchedulerInv'
<1>1. /\ state' = state /\ order' = order /\ windows' = windows /\ flushed' = flushed
      /\ seen' = seen
  BY DEF vars
<1> QED
  BY <1>1 DEF SchedulerInv, TypeOK, StreamsInv, TablesInv, WindowsInv, CoveredInv

THEOREM SchedulerInvariant == Spec => []SchedulerInv
<1>1. Init => SchedulerInv
  BY InitInv
<1>2. SchedulerInv /\ [Next]_vars => SchedulerInv'
  <2> SUFFICES ASSUME SchedulerInv, [Next]_vars PROVE SchedulerInv'
    OBVIOUS
  <2>1. ASSUME NEW s \in Streams, NEW l \in Launches, AddUnready(s, l) PROVE SchedulerInv'
    BY <2>1, AddUnreadyInv
  <2>2. ASSUME NEW s \in Streams, NEW l \in Launches, AddLaunch(s, l) PROVE SchedulerInv'
    BY <2>2, AddLaunchInv
  <2>3. CASE Flush
    BY <2>3, FlushInv
  <2>4. CASE Returned \/ UNCHANGED vars
    BY <2>4, UnchangedInv DEF Returned
  <2> QED
    BY <2>1, <2>2, <2>3, <2>4 DEF Next
<1> QED
  BY <1>1, <1>2, PTL DEF Spec

-----------------------------------------------------------------------------
(* Theorems. *)

\* The variables have their types: a deque holds ready launches within the token budget and the
\* windows are what window classification is handed (StreamState, L0Window).
THEOREM SchedulerTypeOK == Spec => []TypeOK
<1>1. SchedulerInv => TypeOK
  BY DEF SchedulerInv
<1> QED
  BY <1>1, SchedulerInvariant, PTL

\* Every emitted window describes the launches it carries, with the signature, cost and ratio
\* that the scheduler kept incrementally through every entry and eviction, and points to the
\* first window of its stream with the signature (_candidate_window, _evict_to_budget).
THEOREM WindowDescribesLaunchesHolds == Spec => []WindowDescribesLaunches
<1>1. SchedulerInv => WindowDescribesLaunches
  <2> SUFFICES ASSUME SchedulerInv, NEW i \in DOMAIN windows
               PROVE  LET w == windows[i]  ls == w.launches  top == w.signature.top3
                      IN  /\ ls # <<>> /\ w.cost = CostOf(ls) /\ w.cost =< Budget
                          /\ w.signature.kernels = KernelsOf(ls)
                          /\ Len(top) = (IF Cardinality(KernelsOf(ls)) < 3
                                         THEN Cardinality(KernelsOf(ls)) ELSE 3)
                          /\ IsSorted(top, LAMBDA a, b : Beats(ls, a, b))
                          /\ \A k \in KernelsOf(ls) \ ToSet(top) : Beats(ls, top[Len(top)], k)
                          /\ w.maxRatio = Max({LatestRatio(ls, k) : k \in KernelsOf(ls)})
                          /\ SignatureSource(i)
    BY DEF WindowDescribesLaunches
  <2>1. i \in 1..Len(windows)
    BY LenProperties DEF SchedulerInv, TypeOK
  <2>2. Describe(windows[i]) /\ SourceIn(windows, i)
    BY <2>1 DEF SchedulerInv, WindowsInv
  <2>3. SignatureSource(i)
    BY <2>2 DEF SourceIn, Same, SignatureSource
  <2>4. IsSorted(windows[i].signature.top3,
                 LAMBDA a, b : Beats(windows[i].launches, a, b))
    BY <2>2, Zenon DEF Describe, TopOf, IsSorted
  <2> QED
    BY <2>2, <2>3, <2>4, Zenon DEF Describe, TopOf
<1> QED
  BY <1>1, SchedulerInvariant, PTL

\* No launch escapes classification: each is in an emitted window or still in the deque, and in
\* a window once flush() ran; a window is a run of its stream, and an online window is full
\* (add_launch, flush).
THEOREM NoLaunchUnseenHolds == Spec => []NoLaunchUnseen
<1>1. SchedulerInv => NoLaunchUnseen
  <2> SUFFICES ASSUME SchedulerInv PROVE LaunchesCovered /\ ContiguousAndFull
    BY DEF NoLaunchUnseen
  <2>1. DOMAIN windows = 1..Len(windows) /\ windows \in Seq(L0Window)
    BY LenProperties DEF SchedulerInv, TypeOK
  <2>2. ASSUME NEW s \in Streams, NEW p \in 1..Len(seen[s])
        PROVE  \/ p \in UNION {Covers(windows[i].launches, windows[i].upto) :
                                 i \in {j \in DOMAIN windows : windows[j].stream = s}}
               \/ p \in (IF flushed THEN {} ELSE Covers(state[s].launches, Len(seen[s])))
    <3>1. Covered(windows, s, p) \/ (~flushed /\ p \in Covers(state[s].launches, Len(seen[s])))
      BY DEF SchedulerInv, CoveredInv
    <3>2. CASE Covered(windows, s, p)
      BY <2>1, <3>2 DEF Covered
    <3>3. CASE ~flushed /\ p \in Covers(state[s].launches, Len(seen[s]))
      BY <3>3
    <3> QED
      BY <3>1, <3>2, <3>3
  <2>3. LaunchesCovered
    BY <2>2 DEF LaunchesCovered
  <2>4. ASSUME NEW i \in DOMAIN windows
        PROVE  /\ windows[i].launches = SubSeq(seen[windows[i].stream],
                     windows[i].upto - Len(windows[i].launches) + 1, windows[i].upto)
               /\ windows[i].trigger = "token_budget_would_overflow" =>
                     windows[i].cost + seen[windows[i].stream][windows[i].upto + 1].cost > Budget
    <3>1. PICK w : w = windows[i]
      OBVIOUS
    <3>2. w \in L0Window
      BY <2>1, <3>1, ElementOfSeq
    <3>3. w.stream \in Streams /\ w.launches \in Seq(Row) /\ w.upto \in Nat
      BY <3>2 DEF L0Window
    <3>4. Placed(w, seen[w.stream])
      BY <2>1, <3>1 DEF SchedulerInv, WindowsInv
    <3>5. seen[w.stream] \in Seq(Row)
      BY <3>3 DEF SchedulerInv, TypeOK
    <3>6. w.launches = SubSeq(seen[w.stream], w.upto - Len(w.launches) + 1, w.upto)
      BY <3>3, <3>4, <3>5, RunIsSubSeq DEF Placed
    <3> QED
      BY <3>1, <3>4, <3>6 DEF Placed
  <2>5. ContiguousAndFull
    BY <2>4 DEF ContiguousAndFull
  <2> QED
    BY <2>3, <2>5
<1> QED
  BY <1>1, SchedulerInvariant, PTL
================================================================================
