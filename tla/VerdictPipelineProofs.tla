------------------------- MODULE VerdictPipelineProofs -------------------------
(***************************************************************************)
(* Theorems about VerdictPipeline for any number of workers, connections,  *)
(* windows and scores, and any history length: types, the order in which   *)
(* the policy sees windows, the signature cache, where each window is, and *)
(* which verdicts a connection still has to deliver.                       *)
(***************************************************************************)
EXTENDS VerdictPipeline, WellFoundedInduction, SequenceTheorems, TLAPS

(* Lemmas about the operators. *)

\* Remember, the policy's deque, holds scores only and at most History of them.
LEMMA RememberType ==
    ASSUME NEW q \in Seq(Scores), Len(q) =< History, NEW s \in Scores
    PROVE  Remember(q, s) \in Seq(Scores) /\ Len(Remember(q, s)) =< History
BY PolicyAssumption DEF Remember

\* A non-empty set of positions has a least one.
LEMMA LeastPosition ==
    ASSUME NEW I \in SUBSET Nat, I # {}
    PROVE  Min(I) \in I
<1> DEFINE R == OpToRel(<, Nat)
<1>1. IsWellFoundedOn(R, Nat)
  BY NatLessThanWellFounded
<1>2. \A x, y \in Nat : (<<y, x>> \in R) <=> y < x
  BY DEF OpToRel
<1> HIDE DEF R
<1>3. PICK x \in I : \A y \in I : ~ (<<y, x>> \in R)
  BY <1>1, WFMin
<1>4. ASSUME NEW y \in I
      PROVE  x =< y
  <2>1. x \in Nat /\ y \in Nat
    OBVIOUS
  <2>2. ~ (y < x)
    BY <1>2, <1>3, <2>1, Zenon
  <2> QED
    BY <2>1, <2>2
<1> QED
  BY <1>4 DEF Min

\* Removing a row from the outbox leaves a sequence of rows.
LEMMA WithoutType ==
    ASSUME NEW S, NEW q \in Seq(S), NEW e
    PROVE  Without(q, e) \in Seq(S)
<1>1. CASE \E i \in 1..Len(q) : q[i] = e
  <2> DEFINE I == {i \in 1..Len(q) : q[i] = e}
             k == Min(I)
  <2>1. k \in 1..Len(q)
    BY <1>1, LeastPosition
  <2>2. Without(q, e) = SubSeq(q, 1, k - 1) \o SubSeq(q, k + 1, Len(q))
    BY <1>1 DEF Without, RemoveFirst, RemoveAt, SelectInSeq
  <2> HIDE DEF k
  <2> QED
    BY <2>1, <2>2
<1>2. CASE ~ \E i \in 1..Len(q) : q[i] = e
  BY <1>2 DEF Without, RemoveFirst
<1> QED
  BY <1>1, <1>2


\* What Put and Drop make of a dict with keys in S and values in T.
LEMMA PutType ==
    ASSUME NEW S, NEW T, NEW f, DOMAIN f \subseteq S, f \in [DOMAIN f -> T],
           NEW k \in S, NEW v \in T
    PROVE  /\ DOMAIN Put(f, k, v) = DOMAIN f \cup {k}
           /\ DOMAIN Put(f, k, v) \subseteq S
           /\ Put(f, k, v) \in [DOMAIN Put(f, k, v) -> T]
BY DEF Put

LEMMA DropType ==
    ASSUME NEW S, NEW T, NEW f, DOMAIN f \subseteq S, f \in [DOMAIN f -> T], NEW k
    PROVE  /\ DOMAIN Drop(f, k) = DOMAIN f \ {k}
           /\ DOMAIN Drop(f, k) \subseteq S
           /\ Drop(f, k) \in [DOMAIN Drop(f, k) -> T]
           /\ \A x \in DOMAIN Drop(f, k) : Drop(f, k)[x] = f[x]
BY DEF Drop

\* The elements of a sequence over S are in S.
LEMMA ToSetType ==
    ASSUME NEW S, NEW q \in Seq(S)
    PROVE  ToSet(q) \subseteq S
BY DEF ToSet

\* A sequence of submitted windows stays one when another window is submitted.
LEMMA SubmittedGrows ==
    ASSUME NEW a \in Nat, NEW b \in Nat, a =< b, NEW q \in Seq(0..(a - 1))
    PROVE  q \in Seq(0..(b - 1))
<1>1. 0..(a - 1) \subseteq 0..(b - 1)
  OBVIOUS
<1> QED
  BY <1>1, SeqMonotonic

\* _apply_online_verdict_policy makes a verdict of a submitted window's entry.
LEMMA DecideType ==
    ASSUME NEW w \in Windows, NEW entry \in Entries
    PROVE  Decide(w, entry) \in Verdicts
<1>1. Suspicious(Remember(scores, entry.score)) \in BOOLEAN
  BY Zenon DEF Suspicious
<1> QED
  BY <1>1 DEF Decide, Verdicts, Entries

\* Resolving windows keeps the pending verdicts well typed.
LEMMA ResolvedType ==
    ASSUME NEW w \in Windows, NEW score \in Scores, NEW followers \in SUBSET Windows,
           DOMAIN pending \subseteq Windows, pending \in [DOMAIN pending -> Entries]
    PROVE  /\ DOMAIN Resolved(w, score, followers) \subseteq Windows
           /\ Resolved(w, score, followers) \in [DOMAIN Resolved(w, score, followers) -> Entries]
<1>1. [score |-> score, cached |-> TRUE] \in Entries /\ [score |-> score, cached |-> FALSE] \in Entries
  BY DEF Entries
<1>2. DOMAIN Resolved(w, score, followers) = DOMAIN pending \cup {w} \cup followers
  BY DEF Resolved
<1>3. \A x \in DOMAIN pending \cup {w} \cup followers : Resolved(w, score, followers)[x] \in Entries
  BY <1>1 DEF Resolved
<1>4. Resolved(w, score, followers) = [x \in DOMAIN Resolved(w, score, followers) |-> Resolved(w, score, followers)[x]]
  BY DEF Resolved
<1> QED
  BY <1>2, <1>3, <1>4

-----------------------------------------------------------------------------
(* Type correctness. *)

\* The indices the scheduler has handed over.
Submitted == 0..(submitted - 1)

\* What makes TypeOK inductive: every window the session state mentions was submitted,
\* a busy worker has a window, and a connection that sends has a row.
IndexInv ==
    /\ DOMAIN pending \subseteq Submitted
    /\ skipped \subseteq Submitted
    /\ \A s \in DOMAIN waiting : waiting[s] \in Seq(Submitted)
    /\ jobs \in Seq(Submitted)
    /\ \A w \in Workers : pc[w] # "idle" => win[w] \in Submitted
    /\ \A c \in Conns : conn[c].state \in {"sending", "sent"} => conn[c].row \in Verdicts

TypeInv == TypeOK /\ IndexInv

LEMMA EmptyType ==
    DOMAIN Empty = {} /\ \A S : Empty \in [DOMAIN Empty -> S]
BY DEF Empty

LEMMA TypeInvInit == Init => TypeInv
<1> SUFFICES ASSUME Init PROVE TypeInv
  OBVIOUS
<1> USE PolicyAssumption, PipelineAssumption DEF Init, Windows, Threads
<1>1. WindowsTypeOK
  BY DEF WindowsTypeOK
<1>2. SessionTypeOK
  <2>1. pending \in [DOMAIN pending -> Entries] /\ cache \in [DOMAIN cache -> Scores]
    BY EmptyType, Zenon
  <2>2. waiting \in [DOMAIN waiting -> Seq(Windows)]
    BY EmptyType, Zenon
  <2>3. DOMAIN pending = {} /\ DOMAIN cache = {} /\ DOMAIN waiting = {}
    BY EmptyType
  <2>4. next \in 0..submitted /\ skipped \subseteq 0..(MaxWindows - 1)
    OBVIOUS
  <2>5. scores \in Seq(Scores) /\ Len(scores) =< History
    OBVIOUS
  <2> QED
    BY <2>1, <2>2, <2>3, <2>4, <2>5, Zenon DEF SessionTypeOK
<1>3. ThreadsTypeOK
  BY DEF ThreadsTypeOK, Labels
<1>0. FlagsTypeOK
  BY Zenon DEF FlagsTypeOK
<1>4. DrainTypeOK
  BY DEF DrainTypeOK
<1>5. HistoryTypeOK
  BY EmptyType DEF HistoryTypeOK
<1>6. IndexInv
  BY EmptyType DEF IndexInv, Submitted
<1> QED
  BY <1>0, <1>1, <1>2, <1>3, <1>4, <1>5, <1>6 DEF TypeInv, TypeOK

LEMMA TypeInvHandleLaunches ==
    ASSUME TypeInv, NEW n \in 1..MaxBatch, HandleLaunches(n)
    PROVE  TypeInv'
<1> USE PipelineAssumption, PolicyAssumption DEF TypeInv, TypeOK, HandleLaunches, Windows, Threads, session, threads, drain, history
<1>1. WindowsTypeOK'
  BY DEF WindowsTypeOK
<1>2. FlagsTypeOK'
  BY Zenon DEF FlagsTypeOK
<1>3. SessionTypeOK'
  BY DEF SessionTypeOK, WindowsTypeOK
<1>4. ThreadsTypeOK'
  BY DEF ThreadsTypeOK, Labels
<1>5. DrainTypeOK'
  BY DEF DrainTypeOK
<1>6. HistoryTypeOK'
  BY DEF HistoryTypeOK
<1>7. IndexInv'
  BY DEF IndexInv, SessionTypeOK, ThreadsTypeOK, WindowsTypeOK, DrainTypeOK, Submitted
<1> QED
  BY <1>1, <1>2, <1>3, <1>4, <1>5, <1>6, <1>7

LEMMA TypeInvSubmitIgnored ==
    ASSUME TypeInv, SubmitIgnored
    PROVE  TypeInv'
<1> USE PipelineAssumption, PolicyAssumption DEF TypeInv, TypeOK, SubmitIgnored, Windows, Threads, session, threads, drain, history
<1>1. WindowsTypeOK'
  BY DEF WindowsTypeOK
<1>2. FlagsTypeOK'
  BY Zenon DEF FlagsTypeOK
<1>3. SessionTypeOK'
  BY DEF SessionTypeOK, WindowsTypeOK
<1>4. ThreadsTypeOK'
  BY DEF ThreadsTypeOK, Labels
<1>5. DrainTypeOK'
  BY DEF DrainTypeOK
<1>6. HistoryTypeOK'
  BY DEF HistoryTypeOK
<1>7. IndexInv'
  <2>1. \A s \in DOMAIN waiting : waiting[s] \in Seq(0..submitted)
    BY SubmittedGrows DEF IndexInv, WindowsTypeOK, Submitted
  <2>2. jobs \in Seq(0..submitted)
    BY SubmittedGrows DEF IndexInv, WindowsTypeOK, Submitted
  <2>3. Submitted' = 0..submitted /\ Submitted \subseteq 0..submitted
    BY DEF WindowsTypeOK, Submitted
  <2>4. DOMAIN pending \subseteq 0..submitted /\ skipped \subseteq 0..submitted
    BY <2>3 DEF IndexInv
  <2>5. \A w \in Workers : pc[w] # "idle" => win[w] \in 0..submitted
    BY <2>3 DEF IndexInv
  <2>6. UNCHANGED <<pending, skipped, waiting, jobs, pc, win, conn>>
    OBVIOUS
  <2>7. \A c \in Conns : conn[c].state \in {"sending", "sent"} => conn[c].row \in Verdicts
    BY DEF IndexInv
  <2> QED
    BY ONLY <2>1, <2>2, <2>3, <2>4, <2>5, <2>6, <2>7, Zenon DEF IndexInv
<1> QED
  BY <1>1, <1>2, <1>3, <1>4, <1>5, <1>6, <1>7

LEMMA TypeInvSubmitCached ==
    ASSUME TypeInv, SubmitCached
    PROVE  TypeInv'
<1> USE PipelineAssumption, PolicyAssumption DEF TypeInv, TypeOK, SubmitCached, Windows, Threads, session, threads, drain, history
<1>1. WindowsTypeOK'
  BY DEF WindowsTypeOK
<1>2. FlagsTypeOK'
  BY Zenon DEF FlagsTypeOK
<1>3. SessionTypeOK'
  <2> DEFINE e == [score |-> cache[sig[submitted]], cached |-> TRUE]
  <2>1. submitted \in Windows /\ sig[submitted] \in Signatures
    BY DEF WindowsTypeOK
  <2>2. e \in Entries
    BY DEF Entries, SessionTypeOK
  <2>3. DOMAIN pending \subseteq Windows /\ pending \in [DOMAIN pending -> Entries]
    BY DEF SessionTypeOK
  <2>4. pending' = Put(pending, submitted, e)
    OBVIOUS
  <2> HIDE DEF e, Windows
  <2>5. DOMAIN pending' \subseteq Windows /\ pending' \in [DOMAIN pending' -> Entries]
    BY ONLY <2>1, <2>2, <2>3, <2>4, PutType
  <2>6. next' \in 0..submitted'
    BY DEF SessionTypeOK, WindowsTypeOK, Windows
  <2> QED
    BY <2>5, <2>6 DEF SessionTypeOK
<1>4. ThreadsTypeOK'
  BY DEF ThreadsTypeOK, Labels, StartRelease
<1>5. DrainTypeOK'
  BY DEF DrainTypeOK
<1>6. HistoryTypeOK'
  BY DEF HistoryTypeOK
<1>7. IndexInv'
  <2>1. DOMAIN pending' = DOMAIN pending \cup {submitted}
    BY DEF Put
  <2>2. \A s \in DOMAIN waiting : waiting[s] \in Seq(0..submitted)
    BY SubmittedGrows DEF IndexInv, WindowsTypeOK, Submitted
  <2>3. jobs \in Seq(0..submitted)
    BY SubmittedGrows DEF IndexInv, WindowsTypeOK, Submitted
  <2>4. \A w \in Workers : pc'[w] = pc[w]
    BY DEF StartRelease, ThreadsTypeOK
  <2> QED
    BY <2>1, <2>2, <2>3, <2>4 DEF IndexInv, WindowsTypeOK, Submitted
<1> QED
  BY <1>1, <1>2, <1>3, <1>4, <1>5, <1>6, <1>7

LEMMA TypeInvSubmitWaiting ==
    ASSUME TypeInv, SubmitWaiting
    PROVE  TypeInv'
<1> USE PipelineAssumption, PolicyAssumption DEF TypeInv, TypeOK, SubmitWaiting, Windows, Threads, session, threads, drain, history
<1>1. WindowsTypeOK'
  BY DEF WindowsTypeOK
<1>2. FlagsTypeOK'
  BY Zenon DEF FlagsTypeOK
<1>3. SessionTypeOK'
  <2>1. submitted \in Windows
    BY DEF WindowsTypeOK
  <2>2. DOMAIN waiting' = DOMAIN waiting /\ waiting' \in [DOMAIN waiting -> Seq(Windows)]
    BY <2>1 DEF SessionTypeOK
  <2> QED
    BY <2>2 DEF SessionTypeOK, WindowsTypeOK
<1>4. ThreadsTypeOK'
  BY DEF ThreadsTypeOK, Labels
<1>5. DrainTypeOK'
  BY DEF DrainTypeOK
<1>6. HistoryTypeOK'
  BY DEF HistoryTypeOK
<1>7. IndexInv'
  <2>1. \A s \in DOMAIN waiting : waiting[s] \in Seq(0..submitted)
    BY SubmittedGrows DEF IndexInv, WindowsTypeOK, Submitted
  <2>2. \A s \in DOMAIN waiting' : waiting'[s] \in Seq(0..submitted)
    <3>1. waiting' = [waiting EXCEPT ![sig[submitted]] = Append(@, submitted)]
      OBVIOUS
    <3>2. submitted \in 0..submitted
      BY DEF WindowsTypeOK
    <3> DEFINE T == 0..submitted
    <3> HIDE DEF T
    <3>3. ASSUME NEW s \in DOMAIN waiting
          PROVE  waiting'[s] \in Seq(T)
      <4>1. waiting[s] \in Seq(T) /\ submitted \in T
        BY <2>1, <3>2 DEF T
      <4>2. Append(waiting[s], submitted) \in Seq(T)
        BY ONLY <4>1, AppendProperties
      <4> QED
        BY ONLY <3>1, <4>1, <4>2
    <3> QED
      BY <3>1, <3>3 DEF T
  <2>3. jobs \in Seq(0..submitted)
    BY SubmittedGrows DEF IndexInv, WindowsTypeOK, Submitted
  <2> QED
    BY <2>2, <2>3 DEF IndexInv, WindowsTypeOK, Submitted
<1> QED
  BY <1>1, <1>2, <1>3, <1>4, <1>5, <1>6, <1>7

LEMMA TypeInvSubmitJob ==
    ASSUME TypeInv, SubmitJob
    PROVE  TypeInv'
<1> USE PipelineAssumption, PolicyAssumption DEF TypeInv, TypeOK, SubmitJob, Windows, Threads, session, threads, drain, history
<1>1. WindowsTypeOK'
  BY DEF WindowsTypeOK
<1>2. FlagsTypeOK'
  BY Zenon DEF FlagsTypeOK
<1>3. SessionTypeOK'
  <2> DEFINE T == Seq(Windows)
  <2>1. sig[submitted] \in Signatures /\ <<>> \in T
    BY DEF WindowsTypeOK
  <2>2. DOMAIN waiting \subseteq Signatures /\ waiting \in [DOMAIN waiting -> T]
    BY DEF SessionTypeOK
  <2>3. waiting' = Put(waiting, sig[submitted], <<>>)
    BY DEF Lead
  <2> HIDE DEF T
  <2>4. DOMAIN waiting' \subseteq Signatures /\ waiting' \in [DOMAIN waiting' -> T]
    BY ONLY <2>1, <2>2, <2>3, PutType
  <2> QED
    BY <2>4 DEF SessionTypeOK, WindowsTypeOK, T
<1>4. ThreadsTypeOK'
  BY DEF ThreadsTypeOK, Labels
<1>5. DrainTypeOK'
  BY DEF DrainTypeOK
<1>6. HistoryTypeOK'
  BY DEF HistoryTypeOK
<1>7. IndexInv'
  <2>1. \A s \in DOMAIN waiting : waiting[s] \in Seq(0..submitted)
    BY SubmittedGrows DEF IndexInv, WindowsTypeOK, Submitted
  <2>2. \A s \in DOMAIN waiting' : waiting'[s] \in Seq(0..submitted)
    <3>1. waiting' = [x \in DOMAIN waiting \cup {sig[submitted]} |->
                         IF x = sig[submitted] THEN <<>> ELSE waiting[x]]
      BY DEF Lead, Put
    <3>2. <<>> \in Seq(0..submitted)
      OBVIOUS
    <3> QED
      BY ONLY <2>1, <3>1, <3>2
  <2>3. jobs \in Seq(0..submitted) /\ submitted \in 0..submitted
    BY SubmittedGrows DEF IndexInv, WindowsTypeOK, Submitted
  <2>4. jobs' \in Seq(0..submitted)
    BY <2>3
  <2> QED
    BY <2>2, <2>4 DEF IndexInv, WindowsTypeOK, Submitted
<1> QED
  BY <1>1, <1>2, <1>3, <1>4, <1>5, <1>6, <1>7

LEMMA TypeInvBatchDone ==
    ASSUME TypeInv, BatchDone
    PROVE  TypeInv'
<1> USE PipelineAssumption, PolicyAssumption DEF TypeInv, TypeOK, BatchDone, Windows, Threads, session, threads, drain, history
<1>1. WindowsTypeOK'
  BY DEF WindowsTypeOK
<1>2. FlagsTypeOK'
  BY Zenon DEF FlagsTypeOK
<1>3. SessionTypeOK'
  BY DEF SessionTypeOK, WindowsTypeOK
<1>4. ThreadsTypeOK'
  BY DEF ThreadsTypeOK, Labels
<1>5. DrainTypeOK'
  BY DEF DrainTypeOK
<1>6. HistoryTypeOK'
  BY DEF HistoryTypeOK
<1>7. IndexInv'
  BY DEF IndexInv, SessionTypeOK, ThreadsTypeOK, WindowsTypeOK, DrainTypeOK, Submitted
<1> QED
  BY <1>1, <1>2, <1>3, <1>4, <1>5, <1>6, <1>7

LEMMA TypeInvReleaseSkip ==
    ASSUME TypeInv, NEW t \in Threads, ReleaseSkip(t)
    PROVE  TypeInv'
<1> USE PipelineAssumption, PolicyAssumption DEF TypeInv, TypeOK, ReleaseSkip, Windows, Threads, session, threads, drain, history
<1>1. WindowsTypeOK'
  BY DEF WindowsTypeOK
<1>2. FlagsTypeOK'
  BY Zenon DEF FlagsTypeOK
<1>3. SessionTypeOK'
  BY DEF SessionTypeOK, WindowsTypeOK, IndexInv, Submitted
<1>4. ThreadsTypeOK'
  BY DEF ThreadsTypeOK, Labels
<1>5. DrainTypeOK'
  BY DEF DrainTypeOK
<1>6. HistoryTypeOK'
  BY DEF HistoryTypeOK
<1>7. IndexInv'
  BY DEF IndexInv, SessionTypeOK, ThreadsTypeOK, WindowsTypeOK, DrainTypeOK, Submitted
<1> QED
  BY <1>1, <1>2, <1>3, <1>4, <1>5, <1>6, <1>7

LEMMA TypeInvReleaseDiscard ==
    ASSUME TypeInv, NEW t \in Threads, ReleaseDiscard(t)
    PROVE  TypeInv'
<1> USE PipelineAssumption, PolicyAssumption DEF TypeInv, TypeOK, ReleaseDiscard, Windows, Threads, session, threads, drain, history
<1>1. WindowsTypeOK'
  BY DEF WindowsTypeOK
<1>2. FlagsTypeOK'
  BY Zenon DEF FlagsTypeOK
<1>3. SessionTypeOK'
  <2>1. DOMAIN pending' \subseteq Windows /\ pending' \in [DOMAIN pending' -> Entries]
    BY DropType DEF SessionTypeOK
  <2>2. next \in Submitted
    BY DEF IndexInv, ReleaseIndex
  <2> QED
    BY <2>1, <2>2 DEF SessionTypeOK, WindowsTypeOK, Submitted
<1>4. ThreadsTypeOK'
  BY DEF ThreadsTypeOK, Labels
<1>5. DrainTypeOK'
  BY DEF DrainTypeOK
<1>6. HistoryTypeOK'
  BY DEF HistoryTypeOK
<1>7. IndexInv'
  <2>1. DOMAIN pending' \subseteq DOMAIN pending
    BY DropType DEF SessionTypeOK
  <2> QED
    BY <2>1 DEF IndexInv, ThreadsTypeOK, Submitted
<1> QED
  BY <1>1, <1>2, <1>3, <1>4, <1>5, <1>6, <1>7

LEMMA TypeInvReleaseApply ==
    ASSUME TypeInv, NEW t \in Threads, ReleaseApply(t)
    PROVE  TypeInv'
<1> USE PipelineAssumption, PolicyAssumption DEF TypeInv, TypeOK, ReleaseApply, Windows, Threads, session, threads, drain, history
<1>1. WindowsTypeOK'
  BY DEF WindowsTypeOK
<1>2. FlagsTypeOK'
  <2>1. Suspicious(Remember(scores, pending[next].score)) \in BOOLEAN
    BY Zenon DEF Suspicious
  <2> QED
    BY <2>1, Zenon DEF FlagsTypeOK, Decide, ReleaseIndex
<1>3. SessionTypeOK'
  <2> DEFINE v == Decide(next, pending[next])
  <2>1. next \in Submitted /\ next \in Windows /\ pending[next] \in Entries
    BY DEF IndexInv, SessionTypeOK, WindowsTypeOK, Submitted, ReleaseIndex
  <2>2. v \in Verdicts
    BY <2>1, DecideType
  <2>3. pending' = Empty \/ pending' = Drop(pending, next)
    BY DEF ReleaseIndex
  <2>4. DOMAIN pending' \subseteq Windows /\ pending' \in [DOMAIN pending' -> Entries]
    BY <2>3, DropType, EmptyType DEF SessionTypeOK
  <2>5. scores' \in Seq(Scores) /\ Len(scores') =< History
    BY <2>1, RememberType DEF SessionTypeOK, Entries, Decide, ReleaseIndex
  <2>6. skipped' \subseteq Windows /\ next' \in 0..submitted'
    BY <2>1 DEF SessionTypeOK, WindowsTypeOK, Submitted
  <2> QED
    BY <2>4, <2>5, <2>6 DEF SessionTypeOK
<1>4. ThreadsTypeOK'
  <2> DEFINE v == Decide(next, pending[next])
  <2>1. next \in Submitted /\ next \in Windows /\ pending[next] \in Entries
    BY DEF IndexInv, SessionTypeOK, WindowsTypeOK, Submitted, ReleaseIndex
  <2>2. v \in Verdicts
    BY <2>1, DecideType
  <2>3. resp' = [resp EXCEPT ![t] = Append(@, v)]
    BY DEF ReleaseIndex
  <2>4. resp' \in [Threads -> Seq(Verdicts)]
    BY <2>2, <2>3 DEF ThreadsTypeOK
  <2>5. lock' \in Threads \cup {NoThread} /\ pc' \in [Threads -> Labels]
    BY DEF ThreadsTypeOK, Unlock, Labels
  <2> QED
    BY <2>4, <2>5 DEF ThreadsTypeOK
<1>5. DrainTypeOK'
  BY DEF DrainTypeOK
<1>6. HistoryTypeOK'
  <2> DEFINE v == Decide(next, pending[next])
  <2>1. next \in Submitted /\ next \in Windows /\ pending[next] \in Entries
    BY DEF IndexInv, SessionTypeOK, WindowsTypeOK, Submitted, ReleaseIndex
  <2>2. v \in Verdicts
    BY <2>1, DecideType
  <2> QED
    BY <2>2 DEF HistoryTypeOK, ReleaseIndex
<1>7. IndexInv'
  <2> DEFINE v == Decide(next, pending[next])
  <2>1. next \in Submitted /\ next \in Windows /\ pending[next] \in Entries
    BY DEF IndexInv, SessionTypeOK, WindowsTypeOK, Submitted, ReleaseIndex
  <2>2. v \in Verdicts
    BY <2>1, DecideType
  <2>3. DOMAIN pending' \subseteq DOMAIN pending
    BY DropType, EmptyType DEF SessionTypeOK
  <2>4. \A w \in Workers : pc'[w] # "idle" => pc[w] # "idle"
    BY DEF Releasing, Unlock, ThreadsTypeOK
  <2> QED
    BY <2>3, <2>4 DEF IndexInv, Submitted
<1> QED
  BY <1>1, <1>2, <1>3, <1>4, <1>5, <1>6, <1>7

LEMMA TypeInvReleaseDone ==
    ASSUME TypeInv, NEW t \in Threads, ReleaseDone(t)
    PROVE  TypeInv'
<1> USE PipelineAssumption, PolicyAssumption DEF TypeInv, TypeOK, ReleaseDone, Windows, Threads, session, threads, drain, history
<1>1. WindowsTypeOK'
  BY DEF WindowsTypeOK
<1>2. FlagsTypeOK'
  BY Zenon DEF FlagsTypeOK
<1>3. SessionTypeOK'
  BY DEF SessionTypeOK, WindowsTypeOK
<1>4. ThreadsTypeOK'
  BY DEF ThreadsTypeOK, Unlock, Labels
<1>5. DrainTypeOK'
  BY DEF DrainTypeOK
<1>6. HistoryTypeOK'
  BY DEF HistoryTypeOK
<1>7. IndexInv'
  <2>1. \A w \in Workers : pc'[w] # "idle" => pc[w] # "idle"
    BY DEF Releasing, Unlock, ThreadsTypeOK
  <2> QED
    BY <2>1 DEF IndexInv, Submitted
<1> QED
  BY <1>1, <1>2, <1>3, <1>4, <1>5, <1>6, <1>7

LEMMA TypeInvEnqueueResponses ==
    ASSUME TypeInv, NEW t \in Threads, EnqueueResponses(t)
    PROVE  TypeInv'
<1> USE PipelineAssumption, PolicyAssumption DEF TypeInv, TypeOK, EnqueueResponses, Windows, Threads, session, threads, drain, history
<1>1. WindowsTypeOK'
  BY DEF WindowsTypeOK
<1>2. FlagsTypeOK'
  BY Zenon DEF FlagsTypeOK
<1>3. SessionTypeOK'
  BY DEF SessionTypeOK, WindowsTypeOK
<1>4. ThreadsTypeOK'
  BY DEF ThreadsTypeOK, Labels
<1>5. DrainTypeOK'
  BY DEF DrainTypeOK, ThreadsTypeOK
<1>6. HistoryTypeOK'
  BY DEF HistoryTypeOK
<1>7. IndexInv'
  BY DEF IndexInv, SessionTypeOK, ThreadsTypeOK, WindowsTypeOK, DrainTypeOK, Submitted
<1> QED
  BY <1>1, <1>2, <1>3, <1>4, <1>5, <1>6, <1>7

LEMMA TypeInvTakeJob ==
    ASSUME TypeInv, NEW w \in Workers, TakeJob(w)
    PROVE  TypeInv'
<1> USE PipelineAssumption, PolicyAssumption DEF TypeInv, TypeOK, TakeJob, Windows, Threads, session, threads, drain, history
<1>1. WindowsTypeOK'
  BY DEF WindowsTypeOK
<1>2. FlagsTypeOK'
  BY Zenon DEF FlagsTypeOK
<1>3. SessionTypeOK'
  BY DEF SessionTypeOK, WindowsTypeOK
<1>4. ThreadsTypeOK'
  BY DEF ThreadsTypeOK, WindowsTypeOK, Labels
<1>5. DrainTypeOK'
  BY DEF DrainTypeOK
<1>6. HistoryTypeOK'
  BY DEF HistoryTypeOK
<1>7. IndexInv'
  <2>1. Head(jobs) \in Submitted /\ Tail(jobs) \in Seq(Submitted)
    BY DEF IndexInv
  <2>2. \A k \in Workers : pc'[k] # "idle" => win'[k] \in Submitted
    BY <2>1 DEF IndexInv, ThreadsTypeOK
  <2> QED
    BY <2>1, <2>2 DEF IndexInv, Submitted
<1> QED
  BY <1>1, <1>2, <1>3, <1>4, <1>5, <1>6, <1>7

LEMMA TypeInvCheckActive ==
    ASSUME TypeInv, NEW w \in Workers, CheckActive(w)
    PROVE  TypeInv'
<1> USE PipelineAssumption, PolicyAssumption DEF TypeInv, TypeOK, CheckActive, Windows, Threads, session, threads, drain, history
<1>1. WindowsTypeOK'
  BY DEF WindowsTypeOK
<1>2. FlagsTypeOK'
  BY Zenon DEF FlagsTypeOK
<1>3. SessionTypeOK'
  BY DEF SessionTypeOK, WindowsTypeOK
<1>4. ThreadsTypeOK'
  BY DEF ThreadsTypeOK, Labels
<1>5. DrainTypeOK'
  BY DEF DrainTypeOK
<1>6. HistoryTypeOK'
  BY DEF HistoryTypeOK
<1>7. IndexInv'
  BY DEF IndexInv, SessionTypeOK, ThreadsTypeOK, WindowsTypeOK, DrainTypeOK, Submitted
<1> QED
  BY <1>1, <1>2, <1>3, <1>4, <1>5, <1>6, <1>7

LEMMA TypeInvRunL1 ==
    ASSUME TypeInv, NEW w \in Workers, NEW r \in Scores \cup {NoScore}, RunL1(w, r)
    PROVE  TypeInv'
<1> USE PipelineAssumption, PolicyAssumption DEF TypeInv, TypeOK, RunL1, Windows, Threads, session, threads, drain, history
<1>1. WindowsTypeOK'
  BY DEF WindowsTypeOK
<1>2. FlagsTypeOK'
  BY Zenon DEF FlagsTypeOK
<1>3. SessionTypeOK'
  BY DEF SessionTypeOK, WindowsTypeOK
<1>4. ThreadsTypeOK'
  BY DEF ThreadsTypeOK, Labels
<1>5. DrainTypeOK'
  BY DEF DrainTypeOK
<1>6. HistoryTypeOK'
  <2> DEFINE T == Scores \cup {NoScore}
  <2>1. win[w] \in Windows /\ r \in T
    BY DEF IndexInv, Submitted, WindowsTypeOK
  <2>2. DOMAIN inferred \subseteq Windows /\ inferred \in [DOMAIN inferred -> T]
    BY DEF HistoryTypeOK
  <2>3. inferred' = Put(inferred, win[w], r)
    OBVIOUS
  <2> HIDE DEF T, Windows
  <2>4. DOMAIN inferred' \subseteq Windows /\ inferred' \in [DOMAIN inferred' -> T]
    BY ONLY <2>1, <2>2, <2>3, PutType
  <2>5. observed' \in Seq(Verdicts)
    BY DEF HistoryTypeOK
  <2> QED
    BY <2>4, <2>5 DEF HistoryTypeOK, T
<1>7. IndexInv'
  BY DEF IndexInv, SessionTypeOK, ThreadsTypeOK, WindowsTypeOK, DrainTypeOK, Submitted
<1> QED
  BY <1>1, <1>2, <1>3, <1>4, <1>5, <1>6, <1>7

LEMMA TypeInvFinishVerdict ==
    ASSUME TypeInv, NEW w \in Workers, FinishVerdict(w)
    PROVE  TypeInv'
<1> USE PipelineAssumption, PolicyAssumption DEF TypeInv, TypeOK, FinishVerdict, Windows, Threads, session, threads, drain, history
<1>1. WindowsTypeOK'
  BY DEF WindowsTypeOK
<1>2. FlagsTypeOK'
  BY Zenon DEF FlagsTypeOK
<1>3. SessionTypeOK'
  <2> DEFINE s == sig[win[w]]
             followers == IF terminal THEN {} ELSE WaitingFor(s)
  <2>1. win[w] \in Submitted /\ win[w] \in Windows /\ s \in Signatures /\ result[w] \in Scores
    BY DEF IndexInv, Submitted, WindowsTypeOK, ThreadsTypeOK
  <2>2. followers \subseteq Windows
    BY ToSetType DEF WaitingFor, SessionTypeOK
  <2>3. DOMAIN pending' \subseteq Windows /\ pending' \in [DOMAIN pending' -> Entries]
    BY <2>1, <2>2, ResolvedType DEF SessionTypeOK
  <2>4. DOMAIN cache' \subseteq Signatures /\ cache' \in [DOMAIN cache' -> Scores]
    <3>1. DOMAIN cache \subseteq Signatures /\ cache \in [DOMAIN cache -> Scores]
      BY DEF SessionTypeOK
    <3>2. cache' = Put(cache, s, result[w])
      OBVIOUS
    <3> HIDE DEF s
    <3> QED
      BY ONLY <2>1, <3>1, <3>2, PutType
  <2>5. DOMAIN waiting' \subseteq Signatures /\ waiting' \in [DOMAIN waiting' -> Seq(Windows)]
    <3> DEFINE T == Seq(Windows)
    <3>1. DOMAIN waiting \subseteq Signatures /\ waiting \in [DOMAIN waiting -> T]
      BY DEF SessionTypeOK
    <3>2. waiting' = Drop(waiting, sig[win[w]])
      OBVIOUS
    <3> HIDE DEF T
    <3>3. DOMAIN waiting' \subseteq Signatures /\ waiting' \in [DOMAIN waiting' -> T]
      BY ONLY <3>1, <3>2, DropType
    <3> QED
      BY <3>3 DEF T
  <2> QED
    BY <2>3, <2>4, <2>5 DEF SessionTypeOK
<1>4. ThreadsTypeOK'
  BY DEF ThreadsTypeOK, StartRelease, Labels
<1>5. DrainTypeOK'
  BY DEF DrainTypeOK
<1>6. HistoryTypeOK'
  BY DEF HistoryTypeOK
<1>7. IndexInv'
  <2> DEFINE s == sig[win[w]]
             followers == IF terminal THEN {} ELSE WaitingFor(s)
  <2>1. win[w] \in Submitted /\ result[w] \in Scores
    BY DEF IndexInv, ThreadsTypeOK
  <2>2. followers \subseteq Submitted
    BY ToSetType DEF WaitingFor, IndexInv
  <2>3. DOMAIN pending' = DOMAIN pending \cup {win[w]} \cup followers
    BY DEF Resolved
  <2>4. \A x \in DOMAIN waiting' : waiting'[x] \in Seq(Submitted)
    BY DEF Drop, IndexInv
  <2>5. \A k \in Workers : pc'[k] # "idle" => win[k] \in Submitted
    BY DEF IndexInv, ThreadsTypeOK, StartRelease
  <2> QED
    BY <2>1, <2>2, <2>3, <2>4, <2>5 DEF IndexInv, Submitted
<1> QED
  BY <1>1, <1>2, <1>3, <1>4, <1>5, <1>6, <1>7

LEMMA TypeInvSkipPolicyWindow ==
    ASSUME TypeInv, NEW w \in Workers, SkipPolicyWindow(w)
    PROVE  TypeInv'
<1> USE PipelineAssumption, PolicyAssumption DEF TypeInv, TypeOK, SkipPolicyWindow, Windows, Threads, session, threads, drain, history
<1>1. WindowsTypeOK'
  BY DEF WindowsTypeOK
<1>2. FlagsTypeOK'
  BY Zenon DEF FlagsTypeOK
<1>3. SessionTypeOK'
  <2>1. win[w] \in Windows
    BY DEF IndexInv, Submitted, WindowsTypeOK
  <2> QED
    BY <2>1 DEF SessionTypeOK
<1>4. ThreadsTypeOK'
  BY DEF ThreadsTypeOK, StartRelease, Labels
<1>5. DrainTypeOK'
  BY DEF DrainTypeOK
<1>6. HistoryTypeOK'
  BY DEF HistoryTypeOK
<1>7. IndexInv'
  <2>1. win[w] \in Submitted
    BY DEF IndexInv
  <2>2. \A k \in Workers : pc'[k] # "idle" => win[k] \in Submitted
    BY DEF IndexInv, ThreadsTypeOK, StartRelease
  <2> QED
    BY <2>1, <2>2 DEF IndexInv, Submitted
<1> QED
  BY <1>1, <1>2, <1>3, <1>4, <1>5, <1>6, <1>7

LEMMA TypeInvSkipPendingSignatureWindows ==
    ASSUME TypeInv, NEW w \in Workers, SkipPendingSignatureWindows(w)
    PROVE  TypeInv'
<1> USE PipelineAssumption, PolicyAssumption DEF TypeInv, TypeOK, SkipPendingSignatureWindows, Windows, Threads, session, threads, drain, history
<1>1. WindowsTypeOK'
  BY DEF WindowsTypeOK
<1>2. FlagsTypeOK'
  BY Zenon DEF FlagsTypeOK
<1>3. SessionTypeOK'
  <2>1. WaitingFor(sig[win[w]]) \subseteq Windows
    BY ToSetType DEF WaitingFor, SessionTypeOK
  <2>2. DOMAIN waiting' \subseteq Signatures /\ waiting' \in [DOMAIN waiting' -> Seq(Windows)]
    <3> DEFINE T == Seq(Windows)
    <3>1. DOMAIN waiting \subseteq Signatures /\ waiting \in [DOMAIN waiting -> T]
      BY DEF SessionTypeOK
    <3>2. waiting' = Drop(waiting, sig[win[w]])
      OBVIOUS
    <3> HIDE DEF T
    <3>3. DOMAIN waiting' \subseteq Signatures /\ waiting' \in [DOMAIN waiting' -> T]
      BY ONLY <3>1, <3>2, DropType
    <3> QED
      BY <3>3 DEF T
  <2> QED
    BY <2>1, <2>2 DEF SessionTypeOK
<1>4. ThreadsTypeOK'
  BY DEF ThreadsTypeOK, StartRelease, Labels
<1>5. DrainTypeOK'
  BY DEF DrainTypeOK
<1>6. HistoryTypeOK'
  BY DEF HistoryTypeOK
<1>7. IndexInv'
  <2>1. WaitingFor(sig[win[w]]) \subseteq Submitted
    BY ToSetType DEF WaitingFor, IndexInv
  <2>2. \A x \in DOMAIN waiting' : waiting'[x] \in Seq(Submitted)
    BY DEF Drop, IndexInv
  <2>3. \A k \in Workers : pc'[k] # "idle" => win[k] \in Submitted
    BY DEF IndexInv, ThreadsTypeOK, StartRelease
  <2> QED
    BY <2>1, <2>2, <2>3 DEF IndexInv, Submitted
<1> QED
  BY <1>1, <1>2, <1>3, <1>4, <1>5, <1>6, <1>7

LEMMA TypeInvFinishInactive ==
    ASSUME TypeInv, NEW w \in Workers, FinishInactive(w)
    PROVE  TypeInv'
<1> USE PipelineAssumption, PolicyAssumption DEF TypeInv, TypeOK, FinishInactive, Windows, Threads, session, threads, drain, history
<1>1. WindowsTypeOK'
  BY DEF WindowsTypeOK
<1>2. FlagsTypeOK'
  BY Zenon DEF FlagsTypeOK
<1>3. SessionTypeOK'
  BY DEF SessionTypeOK, WindowsTypeOK
<1>4. ThreadsTypeOK'
  BY DEF ThreadsTypeOK, Labels
<1>5. DrainTypeOK'
  BY DEF DrainTypeOK
<1>6. HistoryTypeOK'
  BY DEF HistoryTypeOK
<1>7. IndexInv'
  BY DEF IndexInv, SessionTypeOK, ThreadsTypeOK, WindowsTypeOK, DrainTypeOK, Submitted
<1> QED
  BY <1>1, <1>2, <1>3, <1>4, <1>5, <1>6, <1>7

LEMMA TypeInvSessionEnd ==
    ASSUME TypeInv, SessionEnd
    PROVE  TypeInv'
<1> USE PipelineAssumption, PolicyAssumption DEF TypeInv, TypeOK, SessionEnd, Windows, Threads, session, threads, drain, history
<1>1. WindowsTypeOK'
  BY DEF WindowsTypeOK
<1>2. FlagsTypeOK'
  BY Zenon DEF FlagsTypeOK
<1>3. SessionTypeOK'
  BY DEF SessionTypeOK, WindowsTypeOK
<1>4. ThreadsTypeOK'
  BY DEF ThreadsTypeOK, Labels
<1>5. DrainTypeOK'
  BY DEF DrainTypeOK
<1>6. HistoryTypeOK'
  BY DEF HistoryTypeOK
<1>7. IndexInv'
  BY DEF IndexInv, SessionTypeOK, ThreadsTypeOK, WindowsTypeOK, DrainTypeOK, Submitted
<1> QED
  BY <1>1, <1>2, <1>3, <1>4, <1>5, <1>6, <1>7

LEMMA TypeInvConnect ==
    ASSUME TypeInv, NEW c \in Conns, Connect(c)
    PROVE  TypeInv'
<1> USE PipelineAssumption, PolicyAssumption DEF TypeInv, TypeOK, Connect, Windows, Threads, session, threads, drain, history
<1>1. WindowsTypeOK'
  BY DEF WindowsTypeOK
<1>2. FlagsTypeOK'
  BY Zenon DEF FlagsTypeOK
<1>3. SessionTypeOK'
  BY DEF SessionTypeOK, WindowsTypeOK
<1>4. ThreadsTypeOK'
  BY DEF ThreadsTypeOK, Labels
<1>5. DrainTypeOK'
  BY DEF DrainTypeOK
<1>6. HistoryTypeOK'
  BY DEF HistoryTypeOK
<1>7. IndexInv'
  BY DEF IndexInv, SessionTypeOK, ThreadsTypeOK, WindowsTypeOK, DrainTypeOK, Submitted
<1> QED
  BY <1>1, <1>2, <1>3, <1>4, <1>5, <1>6, <1>7

LEMMA TypeInvDisconnect ==
    ASSUME TypeInv, NEW c \in Conns, Disconnect(c)
    PROVE  TypeInv'
<1> USE PipelineAssumption, PolicyAssumption DEF TypeInv, TypeOK, Disconnect, Windows, Threads, session, threads, drain, history
<1>1. WindowsTypeOK'
  BY DEF WindowsTypeOK
<1>2. FlagsTypeOK'
  BY Zenon DEF FlagsTypeOK
<1>3. SessionTypeOK'
  BY DEF SessionTypeOK, WindowsTypeOK
<1>4. ThreadsTypeOK'
  BY DEF ThreadsTypeOK, Labels
<1>5. DrainTypeOK'
  BY DEF DrainTypeOK
<1>6. HistoryTypeOK'
  BY DEF HistoryTypeOK
<1>7. IndexInv'
  BY DEF IndexInv, SessionTypeOK, ThreadsTypeOK, WindowsTypeOK, DrainTypeOK, Submitted
<1> QED
  BY <1>1, <1>2, <1>3, <1>4, <1>5, <1>6, <1>7

LEMMA TypeInvPeek ==
    ASSUME TypeInv, NEW c \in Conns, Peek(c)
    PROVE  TypeInv'
<1> USE PipelineAssumption, PolicyAssumption DEF TypeInv, TypeOK, Peek, Windows, Threads, session, threads, drain, history
<1>1. WindowsTypeOK'
  BY DEF WindowsTypeOK
<1>2. FlagsTypeOK'
  BY Zenon DEF FlagsTypeOK
<1>3. SessionTypeOK'
  BY DEF SessionTypeOK, WindowsTypeOK
<1>4. ThreadsTypeOK'
  BY DEF ThreadsTypeOK, Labels
<1>5. DrainTypeOK'
  BY DEF DrainTypeOK
<1>6. HistoryTypeOK'
  BY DEF HistoryTypeOK
<1>7. IndexInv'
  BY DEF IndexInv, SessionTypeOK, ThreadsTypeOK, WindowsTypeOK, DrainTypeOK, Submitted
<1> QED
  BY <1>1, <1>2, <1>3, <1>4, <1>5, <1>6, <1>7

LEMMA TypeInvSendRow ==
    ASSUME TypeInv, NEW c \in Conns, SendRow(c)
    PROVE  TypeInv'
<1> USE PipelineAssumption, PolicyAssumption DEF TypeInv, TypeOK, SendRow, Windows, Threads, session, threads, drain, history
<1>1. WindowsTypeOK'
  BY DEF WindowsTypeOK
<1>2. FlagsTypeOK'
  BY Zenon DEF FlagsTypeOK
<1>3. SessionTypeOK'
  BY DEF SessionTypeOK, WindowsTypeOK
<1>4. ThreadsTypeOK'
  BY DEF ThreadsTypeOK, Labels
<1>5. DrainTypeOK'
  <2>1. conn[c].row \in Verdicts
    BY DEF IndexInv
  <2> QED
    BY <2>1 DEF DrainTypeOK
<1>6. HistoryTypeOK'
  BY DEF HistoryTypeOK
<1>7. IndexInv'
  BY DEF IndexInv, SessionTypeOK, ThreadsTypeOK, WindowsTypeOK, DrainTypeOK, Submitted
<1> QED
  BY <1>1, <1>2, <1>3, <1>4, <1>5, <1>6, <1>7

LEMMA TypeInvSendFailed ==
    ASSUME TypeInv, NEW c \in Conns, SendFailed(c)
    PROVE  TypeInv'
<1> USE PipelineAssumption, PolicyAssumption DEF TypeInv, TypeOK, SendFailed, Windows, Threads, session, threads, drain, history
<1>1. WindowsTypeOK'
  BY DEF WindowsTypeOK
<1>2. FlagsTypeOK'
  BY Zenon DEF FlagsTypeOK
<1>3. SessionTypeOK'
  BY DEF SessionTypeOK, WindowsTypeOK
<1>4. ThreadsTypeOK'
  BY DEF ThreadsTypeOK, Labels
<1>5. DrainTypeOK'
  BY DEF DrainTypeOK
<1>6. HistoryTypeOK'
  BY DEF HistoryTypeOK
<1>7. IndexInv'
  BY DEF IndexInv, SessionTypeOK, ThreadsTypeOK, WindowsTypeOK, DrainTypeOK, Submitted
<1> QED
  BY <1>1, <1>2, <1>3, <1>4, <1>5, <1>6, <1>7

LEMMA TypeInvRemoveRow ==
    ASSUME TypeInv, NEW c \in Conns, RemoveRow(c)
    PROVE  TypeInv'
<1> USE PipelineAssumption, PolicyAssumption DEF TypeInv, TypeOK, RemoveRow, Windows, Threads, session, threads, drain, history
<1>1. WindowsTypeOK'
  BY DEF WindowsTypeOK
<1>2. FlagsTypeOK'
  BY Zenon DEF FlagsTypeOK
<1>3. SessionTypeOK'
  BY DEF SessionTypeOK, WindowsTypeOK
<1>4. ThreadsTypeOK'
  BY DEF ThreadsTypeOK, Labels
<1>5. DrainTypeOK'
  <2>1. outbox' \in Seq(Verdicts)
    BY WithoutType DEF DrainTypeOK
  <2> QED
    BY <2>1 DEF DrainTypeOK
<1>6. HistoryTypeOK'
  BY DEF HistoryTypeOK
<1>7. IndexInv'
  BY DEF IndexInv, SessionTypeOK, ThreadsTypeOK, WindowsTypeOK, DrainTypeOK, Submitted
<1> QED
  BY <1>1, <1>2, <1>3, <1>4, <1>5, <1>6, <1>7

LEMMA TypeInvNext ==
    ASSUME TypeInv, [Next]_vars
    PROVE  TypeInv'
<1>1. CASE EventStep
  BY <1>1, TypeInvHandleLaunches, TypeInvSubmitIgnored, TypeInvSubmitCached,
     TypeInvSubmitWaiting, TypeInvSubmitJob, TypeInvBatchDone DEF EventStep
<1>2. ASSUME NEW t \in Threads, ReleaseStep(t) \/ EnqueueResponses(t)
      PROVE  TypeInv'
  BY <1>2, TypeInvReleaseSkip, TypeInvReleaseDiscard, TypeInvReleaseApply,
     TypeInvReleaseDone, TypeInvEnqueueResponses DEF ReleaseStep
<1>3. ASSUME NEW w \in Workers, InferenceStep(w)
      PROVE  TypeInv'
  BY <1>3, TypeInvTakeJob, TypeInvCheckActive, TypeInvRunL1, TypeInvFinishVerdict,
     TypeInvSkipPolicyWindow, TypeInvSkipPendingSignatureWindows, TypeInvFinishInactive
  DEF InferenceStep
<1>4. ASSUME NEW c \in Conns, DrainStep(c)
      PROVE  TypeInv'
  BY <1>4, TypeInvConnect, TypeInvDisconnect, TypeInvPeek, TypeInvSendRow,
     TypeInvSendFailed, TypeInvRemoveRow DEF DrainStep
<1>5. CASE SessionEnd
  BY <1>5, TypeInvSessionEnd
<1>6. CASE UNCHANGED vars
  <2> USE <1>6 DEF vars, session, threads, drain, history
  <2>1. WindowsTypeOK' /\ SessionTypeOK' /\ ThreadsTypeOK' /\ DrainTypeOK' /\ HistoryTypeOK'
    BY DEF TypeInv, TypeOK, WindowsTypeOK, SessionTypeOK, ThreadsTypeOK, DrainTypeOK, HistoryTypeOK
  <2>2. FlagsTypeOK'
    BY Zenon DEF TypeInv, TypeOK, FlagsTypeOK
  <2>3. IndexInv'
    BY DEF TypeInv, IndexInv, Submitted
  <2> QED
    BY <2>1, <2>2, <2>3 DEF TypeInv, TypeOK
<1> QED
  BY <1>1, <1>2, <1>3, <1>4, <1>5, <1>6 DEF Next, AwaitMessage

\* Spec => []TypeInv, the basis of the theorems below.
LEMMA TypeInvAlways == Spec => []TypeInv
<1> QED
  BY TypeInvInit, TypeInvNext, PTL DEF Spec

\* The session state, the queues and the history are well typed in every reachable
\* state: no index the release loop or the workers handle lies outside the submitted
\* windows, and the policy's deque never exceeds the configured history.
THEOREM PipelineTypeOK == Spec => []TypeOK
<1>1. TypeInv => TypeOK
  BY DEF TypeInv
<1> QED
  BY <1>1, TypeInvAlways, PTL

-----------------------------------------------------------------------------
(* The order of the policy's decisions. *)

\* Only the release loop moves the next index or lets the policy decide.
LEMMA OnlyReleaseDecides ==
    ASSUME [Next]_vars
    PROVE  \/ UNCHANGED <<next, terminal, scores, observed>>
           \/ \E t \in Threads : ReleaseSkip(t) \/ ReleaseDiscard(t) \/ ReleaseApply(t)
<1> USE DEF session, threads, drain, history
<1>1. CASE EventStep
  BY <1>1 DEF EventStep, HandleLaunches, SubmitIgnored, SubmitCached, SubmitWaiting, SubmitJob, BatchDone
<1>2. ASSUME NEW t \in Threads, ReleaseStep(t) \/ EnqueueResponses(t)
      PROVE  \/ UNCHANGED <<next, terminal, scores, observed>>
             \/ ReleaseSkip(t) \/ ReleaseDiscard(t) \/ ReleaseApply(t)
  BY <1>2 DEF ReleaseStep, ReleaseDone, EnqueueResponses
<1>3. ASSUME NEW w \in Workers, InferenceStep(w)
      PROVE  UNCHANGED <<next, terminal, scores, observed>>
  BY <1>3 DEF InferenceStep, TakeJob, CheckActive, RunL1, FinishVerdict, SkipPolicyWindow,
              SkipPendingSignatureWindows, FinishInactive
<1>4. ASSUME NEW c \in Conns, DrainStep(c)
      PROVE  UNCHANGED <<next, terminal, scores, observed>>
  BY <1>4 DEF DrainStep, Connect, Disconnect, Peek, SendRow, SendFailed, RemoveRow
<1>5. CASE SessionEnd
  BY <1>5 DEF SessionEnd
<1>6. CASE UNCHANGED vars
  BY <1>6 DEF vars
<1> QED
  BY <1>1, <1>2, <1>3, <1>4, <1>5, <1>6 DEF Next, AwaitMessage

\* Everything decided so far lies before the next index, and a suspicious decision has
\* set the terminal flag, which keeps the loop from deciding again.
OrderInv ==
    /\ \A i \in DOMAIN observed : observed[i].win < next
    /\ \A i \in DOMAIN observed : observed[i].suspicious => terminal
    /\ PolicyOrder

LEMMA OrderInvNext ==
    ASSUME TypeInv, OrderInv, [Next]_vars
    PROVE  OrderInv'
<1> USE DEF session, threads, drain, history
<1>1. /\ next \in Nat /\ observed \in Seq(Verdicts)
      /\ \A i \in DOMAIN observed : observed[i].win \in Nat
  <2>1. next \in Nat /\ observed \in Seq(Verdicts)
    BY DEF TypeInv, TypeOK, SessionTypeOK, WindowsTypeOK, HistoryTypeOK
  <2>2. \A i \in DOMAIN observed : observed[i] \in Verdicts
    BY <2>1
  <2>3. \A x \in Verdicts : x.win \in Nat
    BY DEF Verdicts, Windows
  <2> QED
    BY <2>1, <2>2, <2>3
<1>2. CASE UNCHANGED <<next, terminal, scores, observed>>
  BY <1>2 DEF OrderInv, PolicyOrder
<1>3. ASSUME NEW t \in Threads, ReleaseSkip(t) \/ ReleaseDiscard(t)
      PROVE  OrderInv'
  <2>1. next' = next + 1 /\ UNCHANGED <<terminal, observed>>
    BY <1>3 DEF ReleaseSkip, ReleaseDiscard
  <2> QED
    BY <1>1, <2>1 DEF OrderInv, PolicyOrder
<1>4. ASSUME NEW t \in Threads, ReleaseApply(t)
      PROVE  OrderInv'
  <2> DEFINE v == Decide(next, pending[next])
  <2>1. /\ ~terminal
        /\ next' = next + 1
        /\ observed' = Append(observed, v)
        /\ terminal' = v.suspicious
    BY <1>4 DEF ReleaseApply, ReleaseIndex
  <2>2. v.win = next
    BY DEF Decide
  <2> HIDE DEF v
  <2>3. \A i \in DOMAIN observed : ~ observed[i].suspicious
    BY <2>1 DEF OrderInv
  <2>4. /\ DOMAIN observed' = 1..(Len(observed) + 1) /\ DOMAIN observed = 1..Len(observed)
        /\ observed'[Len(observed) + 1] = v
        /\ \A i \in DOMAIN observed : observed'[i] = observed[i]
        /\ Len(observed) \in Nat
    BY <1>1, <2>1
  <2>5. \A i \in DOMAIN observed' : observed'[i].win < next'
    BY <1>1, <2>1, <2>2, <2>4 DEF OrderInv
  <2>6. \A i \in DOMAIN observed' : observed'[i].suspicious => terminal'
    BY <2>1, <2>3, <2>4
  <2>7. \A i, j \in DOMAIN observed' :
            i < j => observed'[i].win < observed'[j].win /\ ~observed'[i].suspicious
    BY <1>1, <2>2, <2>3, <2>4 DEF OrderInv, PolicyOrder
  <2> QED
    BY <2>5, <2>6, <2>7 DEF OrderInv, PolicyOrder
<1> QED
  BY <1>2, <1>3, <1>4, OnlyReleaseDecides

\* The policy sees the windows in the order of their indices although any number of
\* workers finish them in any order, and nothing after the verdict that ends the session.
THEOREM PolicyOrderHolds == Spec => []PolicyOrder
<1>1. Init => OrderInv
  BY DEF Init, OrderInv, PolicyOrder
<1>2. TypeInv /\ OrderInv /\ [Next]_vars => OrderInv'
  BY OrderInvNext
<1>3. OrderInv => PolicyOrder
  BY DEF OrderInv
<1> QED
  BY <1>1, <1>2, <1>3, TypeInvAlways, PTL DEF Spec

-----------------------------------------------------------------------------
(* The end of a session. *)

\* A release loop runs in a locked section that found the session active, and the
\* section that ends the session waits for the lock.
LockInv == lock # NoThread => active

LEMMA LockInvNext ==
    ASSUME LockInv, [Next]_vars
    PROVE  LockInv'
<1> USE DEF LockInv, session, threads, drain, history
<1>1. CASE EventStep
  BY <1>1, Zenon DEF EventStep, HandleLaunches, SubmitIgnored, SubmitCached, SubmitWaiting,
                     SubmitJob, BatchDone, StartRelease
<1>2. ASSUME NEW t \in Threads, ReleaseStep(t) \/ EnqueueResponses(t)
      PROVE  LockInv'
  BY <1>2, Zenon DEF ReleaseStep, ReleaseSkip, ReleaseDiscard, ReleaseApply, ReleaseDone, Unlock, EnqueueResponses
<1>3. ASSUME NEW w \in Workers, InferenceStep(w)
      PROVE  LockInv'
  BY <1>3, Zenon DEF InferenceStep, TakeJob, CheckActive, RunL1, FinishVerdict, SkipPolicyWindow,
              SkipPendingSignatureWindows, FinishInactive, SessionLive, StartRelease
<1>4. ASSUME NEW c \in Conns, DrainStep(c)
      PROVE  LockInv'
  BY <1>4, Zenon DEF DrainStep, Connect, Disconnect, Peek, SendRow, SendFailed, RemoveRow
<1>5. CASE SessionEnd
  BY <1>5, Zenon DEF SessionEnd
<1>6. CASE UNCHANGED vars
  BY <1>6, Zenon DEF vars
<1> QED
  BY <1>1, <1>2, <1>3, <1>4, <1>5, <1>6 DEF Next, AwaitMessage

\* A session that has ended stays ended.
LEMMA EndedForGood ==
    ASSUME ~active, [Next]_vars
    PROVE  active' = active
<1> USE DEF session, threads, drain, history
<1>1. CASE EventStep
  BY <1>1, Zenon DEF EventStep, HandleLaunches, SubmitIgnored, SubmitCached, SubmitWaiting,
                     SubmitJob, BatchDone
<1>2. ASSUME NEW t \in Threads, ReleaseStep(t) \/ EnqueueResponses(t)
      PROVE  active' = active
  BY <1>2, Zenon DEF ReleaseStep, ReleaseSkip, ReleaseDiscard, ReleaseApply, ReleaseDone, EnqueueResponses
<1>3. ASSUME NEW w \in Workers, InferenceStep(w)
      PROVE  active' = active
  BY <1>3, Zenon DEF InferenceStep, TakeJob, CheckActive, RunL1, FinishVerdict, SkipPolicyWindow,
              SkipPendingSignatureWindows, FinishInactive
<1>4. ASSUME NEW c \in Conns, DrainStep(c)
      PROVE  active' = active
  BY <1>4, Zenon DEF DrainStep, Connect, Disconnect, Peek, SendRow, SendFailed, RemoveRow
<1>5. CASE SessionEnd
  BY <1>5, Zenon DEF SessionEnd
<1>6. CASE UNCHANGED vars
  BY <1>6, Zenon DEF vars
<1> QED
  BY <1>1, <1>2, <1>3, <1>4, <1>5, <1>6 DEF Next, AwaitMessage

\* No inference result reaches the policy of a session that has ended, whatever was
\* queued, running or waiting at that moment.
THEOREM EndedSessionFrozenHolds == Spec => EndedSessionFrozen
<1> DEFINE A == ~active => UNCHANGED <<active, scores, observed, next, terminal>>
<1>1. Init => LockInv
  BY Zenon DEF Init, LockInv
<1>2. LockInv /\ [Next]_vars => LockInv'
  BY LockInvNext
<1>3. LockInv /\ [Next]_vars => [A]_vars
  <2> SUFFICES ASSUME LockInv, [Next]_vars, ~active
               PROVE  UNCHANGED <<active, scores, observed, next, terminal>>
    OBVIOUS
  <2>1. ~ \E t \in Threads : Releasing(t)
    BY PipelineAssumption DEF LockInv, Releasing, Threads
  <2>2. UNCHANGED <<next, terminal, scores, observed>>
    BY <2>1, OnlyReleaseDecides DEF ReleaseSkip, ReleaseDiscard, ReleaseApply
  <2> QED
    BY <2>2, EndedForGood, Zenon
<1> QED
  BY <1>1, <1>2, <1>3, PTL DEF Spec, EndedSessionFrozen

-----------------------------------------------------------------------------
(* What the policy decides on. *)

\* The recent scores, with their number named.
LEMMA RecentIs ==
    ASSUME NEW ws, NEW j, NEW l, l = IF j < History THEN j ELSE History
    PROVE  Recent(ws, j) = [i \in 1..l |-> ws[j - l + i].score]
BY DEF Recent

\* The deque after one more verdict holds the recent scores again.
LEMMA RememberIsRecent ==
    ASSUME NEW vs \in Seq(Verdicts), NEW v \in Verdicts
    PROVE  Remember(Recent(vs, Len(vs)), v.score) = Recent(Append(vs, v), Len(vs) + 1)
<1> DEFINE m == Len(vs)
           n == IF m < History THEN m ELSE History
           k == IF m + 1 < History THEN m + 1 ELSE History
           ws == Append(vs, v)
           old == Recent(vs, m)
           new == Recent(ws, m + 1)
           grown == Remember(old, v.score)
<1>1. /\ m \in Nat /\ History \in Nat \ {0} /\ n \in Nat /\ k \in Nat
      /\ m < History => n = m /\ k = m + 1
      /\ ~ (m < History) => n = History /\ k = History
  BY PolicyAssumption
<1>2. old = [i \in 1..n |-> vs[m - n + i].score]
  BY DEF Recent
<1>3. /\ \A i \in 1..m : ws[i] = vs[i]
      /\ ws[m + 1] = v
      /\ v.score \in Scores
      /\ \A i \in 1..m : vs[i].score \in Scores
  <2>1. \A x \in Verdicts : x.score \in Scores
    BY DEF Verdicts
  <2>2. \A i \in 1..m : vs[i] \in Verdicts
    OBVIOUS
  <2> QED
    BY <2>1, <2>2
<1>4. k = IF m + 1 < History THEN m + 1 ELSE History
  OBVIOUS
<1>5. Remember(Recent(vs, Len(vs)), v.score) = grown /\ Recent(Append(vs, v), Len(vs) + 1) = new
  OBVIOUS
<1> HIDE DEF m, n, k, ws
<1>6. old \in Seq(Scores) /\ Len(old) = n /\ \A i \in 1..n : old[i] = vs[m - n + i].score
  <2>1. \A i \in 1..n : m - n + i \in 1..m
    BY <1>1
  <2>2. \A i \in 1..n : vs[m - n + i].score \in Scores
    BY <1>3, <2>1
  <2> HIDE DEF old
  <2>3. \A i \in 1..n : old[i] = vs[m - n + i].score
    BY <1>2
  <2>4. old \in [1..n -> Scores]
    BY <1>2, <2>2
  <2>5. old \in Seq(Scores)
    BY <1>1, <2>4, SeqDef
  <2> QED
    BY <1>1, <2>3, <2>4, <2>5, LenProperties
<1>7. /\ DOMAIN new = 1..k /\ new = [i \in DOMAIN new |-> new[i]]
      /\ \A i \in 1..k : new[i] = ws[m + 1 - k + i].score
  <2> DEFINE j == m + 1
  <2>1. k = IF j < History THEN j ELSE History
    BY <1>4
  <2>2. new = Recent(ws, j)
    OBVIOUS
  <2>3. j \in Nat /\ j = m + 1 /\ m \in Nat /\ k \in Nat
    BY <1>1
  <2> HIDE DEF new, j
  <2>4. new = [i \in 1..k |-> ws[j - k + i].score]
    BY ONLY <2>1, <2>2, RecentIs
  <2>5. \A i \in 1..k : new[i] = ws[j - k + i].score
    BY ONLY <2>4
  <2>6. \A i \in 1..k : j - k + i = m + 1 - k + i
    BY ONLY <2>3
  <2>7. DOMAIN new = 1..k /\ new = [i \in DOMAIN new |-> new[i]]
    BY ONLY <2>4
  <2> QED
    BY <2>5, <2>6, <2>7
<1> HIDE DEF old, new
<1>8. ASSUME m < History PROVE grown = new
  <2>1. grown = Append(old, v.score)
    BY <1>1, <1>6, <1>8 DEF Remember
  <2>2. /\ grown \in Seq(Scores) /\ Len(grown) = k
        /\ \A i \in 1..m : grown[i] = old[i]
        /\ grown[k] = v.score
    BY <1>1, <1>3, <1>6, <1>8, <2>1
  <2>3. ASSUME NEW i \in 1..k
        PROVE  grown[i] = new[i]
    <3>1. m + 1 - k + i = i /\ m - n + i = i
      BY <1>1, <1>8
    <3>2. new[i] = ws[i].score
      BY <1>7, <3>1
    <3>3. CASE i = k
      BY <1>1, <1>3, <1>8, <2>2, <3>2, <3>3
    <3>4. CASE i \in 1..m
      <4>1. old[i] = vs[i].score
        BY <1>1, <1>6, <1>8, <3>1, <3>4
      <4> QED
        BY <1>3, <2>2, <3>2, <3>4, <4>1
    <3> QED
      BY <1>1, <1>8, <3>3, <3>4
  <2> HIDE DEF grown
  <2>5. grown = [i \in 1..k |-> grown[i]]
    BY <1>1, <2>2
  <2> QED
    BY <1>7, <2>5, <2>3
<1>9. ASSUME ~ (m < History) PROVE grown = new
  <2>1. grown = Append(Tail(old), v.score)
    BY <1>1, <1>6, <1>9 DEF Remember
  <2>2. /\ Tail(old) \in Seq(Scores) /\ Len(Tail(old)) = k - 1
        /\ \A i \in 1..(k - 1) : Tail(old)[i] = old[i + 1]
    BY <1>1, <1>6, <1>9
  <2>3. /\ grown \in Seq(Scores) /\ Len(grown) = k
        /\ \A i \in 1..(k - 1) : grown[i] = old[i + 1]
        /\ grown[k] = v.score
    BY <1>1, <1>3, <1>9, <2>1, <2>2
  <2>4. ASSUME NEW i \in 1..k
        PROVE  grown[i] = new[i]
    <3>1. CASE i = k
      <4>1. m + 1 - k + i = m + 1
        BY <1>1, <3>1
      <4> QED
        BY <1>3, <1>7, <2>3, <3>1, <4>1
    <3>2. CASE i \in 1..(k - 1)
      <4>1. m + 1 - k + i \in 1..m /\ m - n + (i + 1) = m + 1 - k + i /\ i + 1 \in 1..n
        BY <1>1, <1>9, <3>2
      <4>2. old[i + 1] = vs[m + 1 - k + i].score
        BY <1>6, <4>1
      <4> QED
        BY <1>3, <1>7, <2>3, <3>2, <4>1, <4>2
    <3> QED
      BY <1>1, <3>1, <3>2
  <2> HIDE DEF grown
  <2>5. grown = [i \in 1..k |-> grown[i]]
    BY <1>1, <2>3
  <2> QED
    BY <1>7, <2>5, <2>4
<1> QED
  BY <1>8, <1>9, <1>5

\* A further decision leaves the recent scores of the earlier ones alone.
LEMMA RecentOfPast ==
    ASSUME NEW vs \in Seq(Verdicts), NEW v, NEW k \in 1..Len(vs)
    PROVE  Recent(Append(vs, v), k) = Recent(vs, k)
<1> DEFINE n == IF k < History THEN k ELSE History
<1>1. \A i \in 1..n : k - n + i \in 1..Len(vs)
  BY PolicyAssumption
<1>2. \A i \in 1..Len(vs) : Append(vs, v)[i] = vs[i]
  OBVIOUS
<1> QED
  BY <1>1, <1>2 DEF Recent

\* The policy's deque holds the scores of the last decisions.
DequeInv ==
    /\ scores = Recent(observed, Len(observed))
    /\ DecisionOnRecentWindows

LEMMA DequeInvNext ==
    ASSUME TypeInv, DequeInv, [Next]_vars
    PROVE  DequeInv'
<1> USE DEF session, threads, drain, history
<1>1. observed \in Seq(Verdicts)
  BY DEF TypeInv, TypeOK, HistoryTypeOK
<1>2. ASSUME UNCHANGED <<scores, observed>>
      PROVE  DequeInv'
  BY <1>2 DEF DequeInv, DecisionOnRecentWindows
<1>3. ASSUME NEW t \in Threads, ReleaseApply(t)
      PROVE  DequeInv'
  <2> DEFINE v == Decide(next, pending[next])
  <2>1. observed' = Append(observed, v) /\ scores' = Remember(scores, v.score)
    BY <1>3 DEF ReleaseApply, ReleaseIndex
  <2>2. next \in Windows /\ pending[next] \in Entries
    BY <1>3 DEF ReleaseApply, ReleaseIndex, TypeInv, TypeOK, SessionTypeOK
  <2>3. v \in Verdicts
    BY <2>2, DecideType
  <2>4. v.suspicious = Suspicious(Remember(scores, v.score))
    BY DEF Decide
  <2> HIDE DEF v
  <2>5. /\ Len(observed') = Len(observed) + 1
        /\ DOMAIN observed' = 1..(Len(observed) + 1) /\ Len(observed) \in Nat
        /\ observed'[Len(observed) + 1] = v
        /\ \A k \in 1..Len(observed) : observed'[k] = observed[k]
    BY <1>1, <2>1, <2>3
  <2>6. Remember(scores, v.score) = Recent(observed', Len(observed) + 1)
    BY <1>1, <2>1, <2>3, RememberIsRecent DEF DequeInv
  <2>7. scores' = Recent(observed', Len(observed'))
    BY <2>1, <2>5, <2>6
  <2>8. ASSUME NEW k \in DOMAIN observed'
        PROVE  observed'[k].suspicious = Suspicious(Recent(observed', k))
    <3>1. CASE k = Len(observed) + 1
      BY <2>4, <2>5, <2>6, <3>1, Zenon
    <3>2. CASE k \in 1..Len(observed)
      <4>1. Recent(observed', k) = Recent(observed, k)
        BY <1>1, <2>1, <3>2, RecentOfPast
      <4>2. observed[k].suspicious = Suspicious(Recent(observed, k))
        BY <1>1, <3>2 DEF DequeInv, DecisionOnRecentWindows
      <4> QED
        BY <2>5, <3>2, <4>1, <4>2
    <3> QED
      BY <2>5, <3>1, <3>2
  <2> QED
    BY <2>7, <2>8 DEF DequeInv, DecisionOnRecentWindows
<1> QED
  BY <1>2, <1>3, OnlyReleaseDecides DEF ReleaseSkip, ReleaseDiscard

\* Every decision of the policy, for any history length and thresholds, is the threshold
\* test on exactly the last History decided windows.
THEOREM DecisionOnRecentWindowsHolds == Spec => []DecisionOnRecentWindows
<1>1. Init => DequeInv
  BY PolicyAssumption DEF Init, DequeInv, DecisionOnRecentWindows, Recent
<1>2. TypeInv /\ DequeInv /\ [Next]_vars => DequeInv'
  BY DequeInvNext
<1>3. DequeInv => DecisionOnRecentWindows
  BY DEF DequeInv
<1> QED
  BY <1>1, <1>2, <1>3, TypeInvAlways, PTL DEF Spec


-----------------------------------------------------------------------------
(* The leaders of the signatures: the windows that are queued for inference or held by a *)
(* worker until it has dealt with the windows that wait for them.                        *)

Stage(w) ==
    CASE pc[w] \in {"start", "run"} -> "before"
      [] pc[w] = "finish" -> "finish"
      [] pc[w] = "skipWaiting" \/ (pc[w] \in {"release", "enqueue"} /\ cont[w] = "skipWaiting")
            -> "skipping"
      [] OTHER -> "none"

Leading(w) == Stage(w) # "none"

\* A signature has one leader.
OneLeader ==
    /\ \A i, j \in 1..Len(jobs) : sig[jobs[i]] = sig[jobs[j]] => i = j
    /\ \A i \in 1..Len(jobs), w \in Workers : Leading(w) => sig[jobs[i]] # sig[win[w]]
    /\ \A v, w \in Workers : Leading(v) /\ Leading(w) /\ sig[win[v]] = sig[win[w]] => v = w

\* Its signature is in the table of waiting windows.
Registered ==
    /\ \A i \in 1..Len(jobs) : sig[jobs[i]] \in DOMAIN waiting /\ jobs[i] \notin DOMAIN inferred
    /\ \A w \in Workers : Leading(w) => sig[win[w]] \in DOMAIN waiting

\* What a worker holds is what inference returned.
Results ==
    /\ DOMAIN inferred \subseteq Submitted
    /\ \A w \in Workers :
          /\ Stage(w) = "before" => win[w] \notin DOMAIN inferred
          /\ Stage(w) \in {"finish", "skipping"} /\ win[w] \in DOMAIN inferred
                => inferred[win[w]] = result[w]
          /\ Stage(w) = "skipping" => result[w] = NoScore
          /\ Stage(w) = "finish" /\ result[w] # NoScore => win[w] \in DOMAIN inferred

\* A signature that was classified is cached or still has its leader, and gets no other.
ScoredOnce ==
    \A u \in DOMAIN inferred : inferred[u] # NoScore =>
        /\ sig[u] \in DOMAIN cache \cup DOMAIN waiting
        /\ \A i \in 1..Len(jobs) : sig[jobs[i]] # sig[u]
        /\ \A w \in Workers : Leading(w) /\ sig[win[w]] = sig[u] => win[w] = u
        /\ \A v \in DOMAIN inferred : inferred[v] # NoScore /\ sig[v] = sig[u] => u = v

\* A waiting window has the signature it waits for and leads none.
Followers ==
    \A s \in DOMAIN waiting : \A i \in 1..Len(waiting[s]) :
        /\ sig[waiting[s][i]] = s /\ waiting[s][i] \notin DOMAIN inferred
        /\ \A j \in 1..Len(jobs) : jobs[j] # waiting[s][i]
        /\ \A w \in Workers : Leading(w) => win[w] # waiting[s][i]

LeadInv == OneLeader /\ Registered /\ Results /\ ScoredOnce /\ Followers

LEMMA WindowFacts ==
    ASSUME TypeInv
    PROVE  /\ submitted \in Nat /\ submitted \notin Submitted /\ Submitted \subseteq Windows
           /\ jobs \in Seq(Submitted) /\ Len(jobs) \in Nat
           /\ \A i \in 1..Len(jobs) : jobs[i] \in Submitted
           /\ \A s \in DOMAIN waiting : waiting[s] \in Seq(Submitted) /\ Len(waiting[s]) \in Nat
           /\ \A s \in DOMAIN waiting : \A i \in 1..Len(waiting[s]) : waiting[s][i] \in Submitted
           /\ \A w \in Workers : Leading(w) => win[w] \in Submitted
<1>1. submitted \in Nat /\ submitted \notin Submitted /\ Submitted \subseteq Windows
  BY PipelineAssumption DEF TypeInv, TypeOK, WindowsTypeOK, Submitted, Windows
<1>2. jobs \in Seq(Submitted) /\ \A s \in DOMAIN waiting : waiting[s] \in Seq(Submitted)
  BY DEF TypeInv, IndexInv
<1>3. \A w \in Workers : Leading(w) => win[w] \in Submitted
  <2>1. ASSUME NEW w \in Workers, Leading(w) PROVE pc[w] # "idle"
    BY <2>1 DEF Leading, Stage
  <2> QED
    BY <2>1 DEF TypeInv, IndexInv
<1>4. \A i \in 1..Len(jobs) : jobs[i] \in Submitted
  BY <1>2
<1>5. \A s \in DOMAIN waiting : \A i \in 1..Len(waiting[s]) : waiting[s][i] \in Submitted
  BY <1>2
<1> QED
  BY <1>1, <1>2, <1>3, <1>4, <1>5

\* The step of a thread leaves the stages of the others.
LEMMA OtherStages ==
    ASSUME NEW w \in Workers, pc'[w] = pc[w], cont'[w] = cont[w]
    PROVE  Stage(w)' = Stage(w)
BY DEF Stage

\* A step that has no part in inference, except that the session may end.
LEMMA QuietLead ==
    ASSUME TypeInv, LeadInv, UNCHANGED <<sig, waiting, cache, win, result, inferred>>,
           Submitted \subseteq Submitted', jobs' = jobs \/ jobs' = <<>>,
           \A w \in Workers : Stage(w)' \in {Stage(w), "none"}
    PROVE  LeadInv'
<1>1. /\ Len(jobs') \in Nat
      /\ \A i \in 1..Len(jobs') : i \in 1..Len(jobs) /\ jobs'[i] = jobs[i]
  BY WindowFacts
<1>2. \A w \in Workers : Leading(w)' => Leading(w) /\ Stage(w)' = Stage(w)
  BY DEF Leading
<1>3. OneLeader'
  BY <1>1, <1>2 DEF LeadInv, OneLeader
<1>4. Registered'
  BY <1>1, <1>2 DEF LeadInv, Registered
<1>5. Results'
  BY <1>2 DEF LeadInv, Results, Leading
<1>6. ScoredOnce'
  BY <1>1, <1>2 DEF LeadInv, ScoredOnce
<1>7. Followers'
  BY <1>1, <1>2 DEF LeadInv, Followers
<1> QED
  BY <1>3, <1>4, <1>5, <1>6, <1>7 DEF LeadInv

LEMMA LeadSubmitWaiting ==
    ASSUME TypeInv, LeadInv, SubmitWaiting
    PROVE  LeadInv'
<1> DEFINE s0 == sig[submitted]
<1>1. /\ s0 \in DOMAIN waiting /\ submitted' = submitted + 1
      /\ waiting' = [waiting EXCEPT ![s0] = Append(@, submitted)]
      /\ UNCHANGED <<sig, jobs, cache, pc, cont, win, result, inferred>>
  BY DEF SubmitWaiting, threads, history
<1>2. \A w \in Workers : Stage(w)' = Stage(w) /\ (Leading(w)' <=> Leading(w))
  BY <1>1 DEF Stage, Leading
<1>3. DOMAIN waiting' = DOMAIN waiting
  BY <1>1
<1>4. OneLeader' /\ Registered' /\ ScoredOnce'
  BY <1>1, <1>2, <1>3 DEF LeadInv, OneLeader, Registered, ScoredOnce
<1>5. Results'
  <2>1. Submitted \subseteq Submitted'
    BY <1>1, WindowFacts DEF Submitted
  <2> QED
    BY <1>1, <1>2, <2>1 DEF LeadInv, Results
<1>6. Followers'
  <2> SUFFICES ASSUME NEW s \in DOMAIN waiting, NEW i \in 1..Len(waiting'[s])
               PROVE  /\ sig[waiting'[s][i]] = s /\ waiting'[s][i] \notin DOMAIN inferred
                      /\ \A j \in 1..Len(jobs) : jobs[j] # waiting'[s][i]
                      /\ \A w \in Workers : Leading(w) => win[w] # waiting'[s][i]
    BY <1>1, <1>2, <1>3 DEF Followers
  <2>1. waiting[s] \in Seq(Submitted) /\ Len(waiting[s]) \in Nat
    BY WindowFacts
  <2>2. CASE s # s0 \/ i \in 1..Len(waiting[s])
    <3>1. i \in 1..Len(waiting[s]) /\ waiting'[s][i] = waiting[s][i]
      <4>1. CASE s # s0
        BY <1>1, <4>1
      <4>2. CASE s = s0 /\ i \in 1..Len(waiting[s])
        <5>1. waiting'[s] = Append(waiting[s], submitted)
          BY <1>1, <4>2
        <5> HIDE DEF s0
        <5> QED
          BY <2>1, <4>2, <5>1
      <4> QED
        BY <2>2, <4>1, <4>2
    <3> QED
      BY <3>1 DEF LeadInv, Followers
  <2>3. CASE s = s0 /\ i \notin 1..Len(waiting[s])
    <3>1. waiting'[s] = Append(waiting[s], submitted)
      BY <1>1, <2>3
    <3>2. waiting'[s][i] = submitted
      BY <2>1, <2>3, <3>1
    <3> QED
      BY <2>3, <3>2, WindowFacts DEF LeadInv, Results
  <2> QED
    BY <2>2, <2>3
<1> QED
  BY <1>4, <1>5, <1>6 DEF LeadInv

LEMMA LeadSubmitJob ==
    ASSUME TypeInv, LeadInv, SubmitJob
    PROVE  LeadInv'
<1> DEFINE s0 == sig[submitted]
<1>1. /\ s0 \notin DOMAIN waiting /\ s0 \notin DOMAIN cache /\ submitted' = submitted + 1
      /\ waiting' = Put(waiting, s0, <<>>) /\ jobs' = Append(jobs, submitted)
      /\ UNCHANGED <<sig, cache, pc, cont, win, result, inferred>>
  BY DEF SubmitJob, Lead, threads, history
<1>2. \A w \in Workers : Stage(w)' = Stage(w) /\ (Leading(w)' <=> Leading(w))
  BY <1>1 DEF Stage, Leading
<1>3. /\ DOMAIN waiting' = DOMAIN waiting \cup {s0} /\ waiting'[s0] = <<>>
      /\ \A s \in DOMAIN waiting : waiting'[s] = waiting[s]
  BY <1>1 DEF Put
<1>4. /\ Len(jobs) \in Nat /\ Len(jobs') = Len(jobs) + 1
      /\ \A i \in 1..Len(jobs') : \/ i \in 1..Len(jobs) /\ jobs'[i] = jobs[i]
                                  \/ i = Len(jobs) + 1 /\ jobs'[i] = submitted
  <2>1. jobs \in Seq(Submitted) /\ Len(jobs) \in Nat
    BY WindowFacts
  <2> QED
    BY <1>1, <2>1
<1>5. \A i \in 1..Len(jobs) : sig[jobs[i]] # s0 /\ jobs[i] # submitted
  BY <1>1, WindowFacts DEF LeadInv, Registered
<1>6. \A w \in Workers : Leading(w) => sig[win[w]] # s0 /\ win[w] # submitted
  BY <1>1, WindowFacts DEF LeadInv, Registered
<1>7. submitted \notin DOMAIN inferred /\ Submitted \subseteq Submitted'
  BY <1>1, WindowFacts DEF LeadInv, Results, Submitted
<1> HIDE DEF s0
<1>8. OneLeader'
  <2>1. \A i, j \in 1..Len(jobs') : sig[jobs'[i]] = sig[jobs'[j]] => i = j
    BY <1>4, <1>5 DEF LeadInv, OneLeader, s0
  <2>2. \A i \in 1..Len(jobs'), w \in Workers : Leading(w) => sig[jobs'[i]] # sig[win[w]]
    BY <1>4, <1>6 DEF LeadInv, OneLeader, s0
  <2> QED
    BY <1>1, <1>2, <2>1, <2>2 DEF LeadInv, OneLeader
<1>9. Registered'
  BY <1>1, <1>2, <1>3, <1>4, <1>7 DEF LeadInv, Registered, s0
<1>10. Results'
  BY <1>1, <1>2, <1>7 DEF LeadInv, Results
<1>11. ScoredOnce'
  <2>1. \A u \in DOMAIN inferred : inferred[u] # NoScore => sig[u] # s0
    BY <1>1 DEF LeadInv, ScoredOnce
  <2> QED
    BY <1>1, <1>2, <1>3, <1>4, <2>1 DEF LeadInv, ScoredOnce, s0
<1>12. Followers'
  <2> SUFFICES ASSUME NEW s \in DOMAIN waiting', NEW i \in 1..Len(waiting'[s])
               PROVE  /\ sig[waiting'[s][i]] = s /\ waiting'[s][i] \notin DOMAIN inferred
                      /\ \A j \in 1..Len(jobs') : jobs'[j] # waiting'[s][i]
                      /\ \A w \in Workers : Leading(w) => win[w] # waiting'[s][i]
    BY <1>1, <1>2 DEF Followers
  <2>1. s \in DOMAIN waiting /\ waiting'[s] = waiting[s]
    BY <1>3
  <2>2. waiting[s][i] # submitted
    BY <2>1, WindowFacts
  <2>3. /\ sig[waiting[s][i]] = s /\ waiting[s][i] \notin DOMAIN inferred
        /\ \A j \in 1..Len(jobs) : jobs[j] # waiting[s][i]
        /\ \A w \in Workers : Leading(w) => win[w] # waiting[s][i]
    BY <2>1 DEF LeadInv, Followers
  <2>4. \A j \in 1..Len(jobs') : jobs'[j] # waiting[s][i]
    BY <1>4, <2>2, <2>3
  <2> QED
    BY <2>1, <2>3, <2>4
<1> QED
  BY <1>8, <1>9, <1>10, <1>11, <1>12 DEF LeadInv


\* The inference job of a leader starts: the worker holds what the queue held.
LEMMA LeadTakeJob ==
    ASSUME TypeInv, LeadInv, NEW w \in Workers, TakeJob(w)
    PROVE  LeadInv'
<1>1. /\ jobs # <<>> /\ pc[w] = "idle" /\ jobs' = Tail(jobs)
      /\ win' = [win EXCEPT ![w] = Head(jobs)] /\ pc' = [pc EXCEPT ![w] = "start"]
      /\ UNCHANGED <<sig, submitted, waiting, cache, cont, result, inferred>>
  BY DEF TakeJob, threads, session, history
<1>2. /\ Len(jobs) \in Nat /\ Len(jobs) > 0 /\ Len(jobs') = Len(jobs) - 1
      /\ \A i \in 1..Len(jobs') : i + 1 \in 1..Len(jobs) /\ jobs'[i] = jobs[i + 1]
      /\ Head(jobs) = jobs[1] /\ 1 \in 1..Len(jobs)
  <2>1. jobs \in Seq(Submitted)
    BY WindowFacts
  <2> QED
    BY <1>1, <2>1
<1>3. /\ win'[w] = jobs[1] /\ Stage(w)' = "before" /\ Stage(w) = "none"
      /\ \A v \in Workers : v # w => win'[v] = win[v] /\ Stage(v)' = Stage(v)
  BY <1>1, <1>2 DEF TypeInv, TypeOK, ThreadsTypeOK, Threads, Stage
<1>4. \A v \in Workers : Leading(v)' => v = w \/ Leading(v)
  BY <1>3 DEF Leading
<1>5. Submitted' = Submitted
  BY <1>1 DEF Submitted
<1>6. OneLeader'
  <2>1. \A i, j \in 1..Len(jobs') : sig[jobs'[i]] = sig[jobs'[j]] => i = j
    BY <1>2 DEF LeadInv, OneLeader
  <2>2. \A i \in 1..Len(jobs') : sig[jobs'[i]] # sig[jobs[1]]
    BY <1>2 DEF LeadInv, OneLeader
  <2>3. \A v \in Workers : Leading(v) => sig[jobs[1]] # sig[win[v]]
    BY <1>2 DEF LeadInv, OneLeader
  <2>4. \A i \in 1..Len(jobs'), v \in Workers : Leading(v) => sig[jobs'[i]] # sig[win[v]]
    BY <1>2 DEF LeadInv, OneLeader
  <2> QED
    BY <1>1, <1>3, <1>4, <2>1, <2>2, <2>3, <2>4 DEF LeadInv, OneLeader
<1>7. Registered'
  BY <1>1, <1>2, <1>3, <1>4 DEF LeadInv, Registered
<1>8. Results'
  <2>1. jobs[1] \notin DOMAIN inferred
    BY <1>2 DEF LeadInv, Registered
  <2> QED
    BY <1>1, <1>3, <1>5, <2>1 DEF LeadInv, Results
<1>9. ScoredOnce'
  BY <1>1, <1>2, <1>3, <1>4 DEF LeadInv, ScoredOnce
<1>10. Followers'
  BY <1>1, <1>2, <1>3, <1>4 DEF LeadInv, Followers
<1> QED
  BY <1>6, <1>7, <1>8, <1>9, <1>10 DEF LeadInv

\* A leader's worker goes to another stage and leaves the tables alone.
LEMMA LeadMoves ==
    ASSUME TypeInv, LeadInv, NEW w \in Workers, Leading(w),
           UNCHANGED <<sig, submitted, jobs, waiting, cache, win, inferred>>,
           \A v \in Workers : v # w => Stage(v)' = Stage(v) /\ result'[v] = result[v],
           Stage(w)' = "before" => win[w] \notin DOMAIN inferred,
           Stage(w)' \in {"finish", "skipping"} /\ win[w] \in DOMAIN inferred
              => inferred[win[w]] = result'[w],
           Stage(w)' = "skipping" => result'[w] = NoScore,
           Stage(w)' = "finish" /\ result'[w] # NoScore => win[w] \in DOMAIN inferred
    PROVE  LeadInv'
<1>1. \A v \in Workers : Leading(v)' => Leading(v)
  BY DEF Leading
<1>2. OneLeader' /\ Registered' /\ ScoredOnce' /\ Followers'
  BY <1>1 DEF LeadInv, OneLeader, Registered, ScoredOnce, Followers
<1>3. Results'
  BY DEF LeadInv, Results, Submitted
<1> QED
  BY <1>2, <1>3 DEF LeadInv

LEMMA LeadCheckActive ==
    ASSUME TypeInv, LeadInv, NEW w \in Workers, CheckActive(w)
    PROVE  LeadInv'
<1>1. /\ pc[w] = "start" /\ pc' = [pc EXCEPT ![w] = IF active THEN "run" ELSE "finish"]
      /\ result' = [result EXCEPT ![w] = NoScore]
      /\ UNCHANGED <<sig, submitted, jobs, waiting, cache, win, inferred, cont>>
  BY DEF CheckActive, session, history
<1>2. /\ Stage(w) = "before" /\ Stage(w)' \in {"before", "finish"} /\ result'[w] = NoScore
      /\ \A v \in Workers : v # w => Stage(v)' = Stage(v) /\ result'[v] = result[v]
  BY <1>1 DEF TypeInv, TypeOK, ThreadsTypeOK, Threads, Stage
<1>3. win[w] \notin DOMAIN inferred
  BY <1>2 DEF LeadInv, Results
<1>4. Leading(w)
  BY <1>2 DEF Leading
<1> QED
  BY <1>1, <1>2, <1>3, <1>4, LeadMoves

LEMMA LeadSkipPolicyWindow ==
    ASSUME TypeInv, LeadInv, NEW w \in Workers, SkipPolicyWindow(w)
    PROVE  LeadInv'
<1>1. /\ pc[w] = "finish" /\ result[w] = NoScore
      /\ pc' = [pc EXCEPT ![w] = "release"] /\ cont' = [cont EXCEPT ![w] = "skipWaiting"]
      /\ UNCHANGED <<sig, submitted, jobs, waiting, cache, win, inferred, result>>
  BY DEF SkipPolicyWindow, StartRelease, history
<1>2. /\ Stage(w) = "finish" /\ Stage(w)' = "skipping"
      /\ \A v \in Workers : v # w => Stage(v)' = Stage(v)
  BY <1>1 DEF TypeInv, TypeOK, ThreadsTypeOK, Threads, Stage
<1>3. win[w] \in DOMAIN inferred => inferred[win[w]] = result[w]
  BY <1>2 DEF LeadInv, Results
<1>4. Leading(w)
  BY <1>2 DEF Leading
<1> QED
  BY <1>1, <1>2, <1>3, <1>4, LeadMoves

LEMMA LeadRunL1 ==
    ASSUME TypeInv, LeadInv, NEW w \in Workers, NEW r, RunL1(w, r)
    PROVE  LeadInv'
<1>1. /\ pc[w] = "run" /\ pc' = [pc EXCEPT ![w] = "finish"]
      /\ result' = [result EXCEPT ![w] = r] /\ inferred' = Put(inferred, win[w], r)
      /\ UNCHANGED <<sig, submitted, jobs, waiting, cache, win, cont>>
  BY DEF RunL1, session
<1>2. /\ Stage(w) = "before" /\ Stage(w)' = "finish" /\ result'[w] = r
      /\ \A v \in Workers : v # w => Stage(v)' = Stage(v) /\ result'[v] = result[v]
  BY <1>1 DEF TypeInv, TypeOK, ThreadsTypeOK, Threads, Stage
<1>3. Leading(w) /\ \A v \in Workers : Leading(v)' <=> Leading(v)
  BY <1>2 DEF Leading
<1>4. /\ DOMAIN inferred' = DOMAIN inferred \cup {win[w]} /\ inferred'[win[w]] = r
      /\ win[w] \notin DOMAIN inferred
      /\ \A u \in DOMAIN inferred : u # win[w] /\ inferred'[u] = inferred[u]
  <2>1. win[w] \notin DOMAIN inferred
    BY <1>2 DEF LeadInv, Results
  <2> QED
    BY <1>1, <2>1 DEF Put
<1>5. /\ \A v \in Workers : Leading(v) /\ v # w => sig[win[v]] # sig[win[w]]
      /\ \A i \in 1..Len(jobs) : sig[jobs[i]] # sig[win[w]]
  BY <1>3 DEF LeadInv, OneLeader
<1>6. OneLeader'
  BY <1>1, <1>3 DEF LeadInv, OneLeader
<1>7. Registered'
  BY <1>1, <1>3, <1>4, <1>5 DEF LeadInv, Registered
<1>8. Results'
  <2>1. DOMAIN inferred' \subseteq Submitted'
    BY <1>1, <1>3, <1>4, WindowFacts DEF LeadInv, Results, Submitted
  <2>2. ASSUME NEW v \in Workers
        PROVE  /\ Stage(v)' = "before" => win[v] \notin DOMAIN inferred'
               /\ Stage(v)' \in {"finish", "skipping"} /\ win[v] \in DOMAIN inferred'
                     => inferred'[win[v]] = result'[v]
               /\ Stage(v)' = "skipping" => result'[v] = NoScore
               /\ Stage(v)' = "finish" /\ result'[v] # NoScore => win[v] \in DOMAIN inferred'
    <3>1. CASE v = w
      BY <1>2, <1>4, <3>1
    <3>2. CASE v # w /\ Leading(v)
      <4>1. win[v] # win[w]
        BY <1>5, <3>2
      <4> QED
        BY <1>2, <1>4, <3>2, <4>1 DEF LeadInv, Results
    <3>3. CASE v # w /\ ~Leading(v)
      BY <1>2, <3>3 DEF Leading
    <3> QED
      BY <3>1, <3>2, <3>3
  <2> QED
    BY <1>1, <2>1, <2>2 DEF Results
<1>9. ScoredOnce'
  <2>1. ASSUME NEW u \in DOMAIN inferred', inferred'[u] # NoScore
        PROVE  /\ sig[u] \in DOMAIN cache \cup DOMAIN waiting
               /\ \A i \in 1..Len(jobs) : sig[jobs[i]] # sig[u]
               /\ \A v \in Workers : Leading(v) /\ sig[win[v]] = sig[u] => win[v] = u
    <3>1. CASE u = win[w]
      BY <1>3, <1>5, <3>1 DEF LeadInv, Registered
    <3>2. CASE u \in DOMAIN inferred
      BY <1>4, <2>1, <3>2 DEF LeadInv, ScoredOnce
    <3> QED
      BY <1>4, <3>1, <3>2
  <2>2. \A u \in DOMAIN inferred : inferred[u] # NoScore => sig[u] # sig[win[w]]
    BY <1>3, <1>4 DEF LeadInv, ScoredOnce
  <2>3. \A u, v \in DOMAIN inferred' :
            inferred'[u] # NoScore /\ inferred'[v] # NoScore /\ sig[v] = sig[u] => u = v
    BY <1>4, <2>2 DEF LeadInv, ScoredOnce
  <2> QED
    BY <1>1, <1>3, <2>1, <2>3 DEF ScoredOnce
<1>10. Followers'
  <2>1. \A s \in DOMAIN waiting : \A i \in 1..Len(waiting[s]) : waiting[s][i] # win[w]
    BY <1>3 DEF LeadInv, Followers
  <2> QED
    BY <1>1, <1>3, <1>4, <2>1 DEF LeadInv, Followers
<1> QED
  BY <1>6, <1>7, <1>8, <1>9, <1>10 DEF LeadInv

\* A leader gives up its signature, which is cached or was not classified by it.
LEMMA LeadLeaves ==
    ASSUME TypeInv, LeadInv, NEW w \in Workers, Leading(w),
           UNCHANGED <<sig, submitted, jobs, win, result, inferred>>,
           Stage(w)' = "none", \A v \in Workers : v # w => Stage(v)' = Stage(v),
           waiting' = Drop(waiting, sig[win[w]]), DOMAIN cache \subseteq DOMAIN cache',
           \A u \in DOMAIN inferred : inferred[u] # NoScore /\ sig[u] = sig[win[w]]
              => sig[u] \in DOMAIN cache'
    PROVE  LeadInv'
<1>1. /\ DOMAIN waiting' = DOMAIN waiting \ {sig[win[w]]}
      /\ \A s \in DOMAIN waiting' : waiting'[s] = waiting[s]
  BY DEF Drop
<1>2. \A v \in Workers : Leading(v)' => Leading(v) /\ v # w
  BY DEF Leading
<1>3. /\ \A v \in Workers : Leading(v) /\ v # w => sig[win[v]] # sig[win[w]]
      /\ \A i \in 1..Len(jobs) : sig[jobs[i]] # sig[win[w]]
  BY DEF LeadInv, OneLeader
<1>4. OneLeader'
  BY <1>2 DEF LeadInv, OneLeader
<1>5. Registered'
  BY <1>1, <1>2, <1>3 DEF LeadInv, Registered
<1>6. Results'
  BY DEF LeadInv, Results, Submitted
<1>7. ScoredOnce'
  BY <1>1, <1>2 DEF LeadInv, ScoredOnce
<1>8. Followers'
  BY <1>1, <1>2 DEF LeadInv, Followers
<1> QED
  BY <1>4, <1>5, <1>6, <1>7, <1>8 DEF LeadInv

LEMMA LeadFinishVerdict ==
    ASSUME TypeInv, LeadInv, NEW w \in Workers, FinishVerdict(w)
    PROVE  LeadInv'
<1>1. /\ pc[w] = "finish" /\ result[w] # NoScore
      /\ pc' = [pc EXCEPT ![w] = "release"] /\ cont' = [cont EXCEPT ![w] = "idle"]
      /\ cache' = Put(cache, sig[win[w]], result[w]) /\ waiting' = Drop(waiting, sig[win[w]])
      /\ UNCHANGED <<sig, submitted, jobs, win, result, inferred>>
  BY DEF FinishVerdict, StartRelease, history
<1>2. /\ Stage(w) = "finish" /\ Stage(w)' = "none"
      /\ \A v \in Workers : v # w => Stage(v)' = Stage(v)
  BY <1>1 DEF TypeInv, TypeOK, ThreadsTypeOK, Threads, Stage
<1>3. DOMAIN cache' = DOMAIN cache \cup {sig[win[w]]}
  BY <1>1 DEF Put
<1>4. Leading(w)
  BY <1>2 DEF Leading
<1> QED
  BY <1>1, <1>2, <1>3, <1>4, LeadLeaves

LEMMA LeadSkipPending ==
    ASSUME TypeInv, LeadInv, NEW w \in Workers, SkipPendingSignatureWindows(w)
    PROVE  LeadInv'
<1>1. /\ pc[w] = "skipWaiting" /\ waiting' = Drop(waiting, sig[win[w]])
      /\ pc' = [pc EXCEPT ![w] = "release"] /\ cont' = [cont EXCEPT ![w] = "idle"]
      /\ UNCHANGED <<sig, submitted, jobs, cache, win, result, inferred>>
  BY DEF SkipPendingSignatureWindows, StartRelease, history
<1>2. /\ Stage(w) = "skipping" /\ Stage(w)' = "none"
      /\ \A v \in Workers : v # w => Stage(v)' = Stage(v)
  BY <1>1 DEF TypeInv, TypeOK, ThreadsTypeOK, Threads, Stage
<1>3. Leading(w)
  BY <1>2 DEF Leading
<1>4. ASSUME NEW u \in DOMAIN inferred, inferred[u] # NoScore, sig[u] = sig[win[w]]
      PROVE  FALSE
  <2>1. win[w] = u
    BY <1>3, <1>4 DEF LeadInv, ScoredOnce
  <2> QED
    BY <1>2, <1>4, <2>1 DEF LeadInv, Results
<1> QED
  BY <1>1, <1>2, <1>3, <1>4, LeadLeaves


\* The steps that infer nothing: the stages stay, or a worker gives up an ended session.
LEMMA LeadOtherSteps ==
    ASSUME TypeInv, LeadInv,
           \/ \E n \in 1..MaxBatch : HandleLaunches(n)
           \/ SubmitIgnored \/ SubmitCached \/ BatchDone \/ SessionEnd \/ UNCHANGED vars
           \/ \E t \in Threads : ReleaseStep(t) \/ EnqueueResponses(t)
           \/ \E w \in Workers : FinishInactive(w)
           \/ \E c \in Conns : DrainStep(c)
    PROVE  LeadInv'
<1> USE DEF session, threads, drain, history
<1>0. /\ pc \in [Threads -> Labels] /\ cont \in [Threads -> {"idle", "skipWaiting", "submit"}]
      /\ Workers \subseteq Threads /\ EventThread \in Threads /\ EventThread \notin Workers
  BY PipelineAssumption DEF TypeInv, TypeOK, ThreadsTypeOK, Threads
<1>1. ASSUME submitted' = submitted \/ submitted' = submitted + 1
      PROVE  Submitted \subseteq Submitted'
  BY <1>1, WindowFacts DEF Submitted
<1>2. ASSUME UNCHANGED <<sig, waiting, cache, win, result, inferred, jobs>>,
             submitted' = submitted \/ submitted' = submitted + 1,
             \A w \in Workers : pc'[w] = pc[w] /\ cont'[w] = cont[w]
      PROVE  LeadInv'
  BY <1>1, <1>2, OtherStages, QuietLead
<1>3. CASE \E n \in 1..MaxBatch : HandleLaunches(n)
  BY <1>0, <1>2, <1>3 DEF HandleLaunches
<1>4. CASE SubmitIgnored
  BY <1>2, <1>4 DEF SubmitIgnored
<1>5. CASE SubmitCached
  BY <1>0, <1>2, <1>5 DEF SubmitCached, StartRelease
<1>6. CASE BatchDone
  BY <1>0, <1>2, <1>6 DEF BatchDone
<1>7. CASE SessionEnd
  <2>1. /\ UNCHANGED <<sig, waiting, cache, win, result, inferred, submitted, pc, cont>>
        /\ jobs' = <<>>
    BY <1>7 DEF SessionEnd
  <2>2. \A w \in Workers : Stage(w)' = Stage(w)
    BY <2>1, OtherStages
  <2> QED
    BY <1>1, <2>1, <2>2, QuietLead
<1>8. ASSUME NEW t \in Threads, ReleaseSkip(t) \/ ReleaseDiscard(t)
      PROVE  LeadInv'
  BY <1>2, <1>8 DEF ReleaseSkip, ReleaseDiscard
<1>9. ASSUME NEW t \in Threads, ReleaseApply(t) \/ ReleaseDone(t) \/ EnqueueResponses(t)
      PROVE  LeadInv'
  <2>1. /\ UNCHANGED <<sig, waiting, cache, win, result, inferred, submitted, jobs, cont>>
        /\ pc[t] \in {"release", "enqueue"}
        /\ \/ pc' = pc
           \/ pc' = [pc EXCEPT ![t] = cont[t]]
           \/ pc' = [pc EXCEPT ![t] = "enqueue"]
    BY <1>9 DEF ReleaseApply, ReleaseDone, EnqueueResponses, Releasing, Unlock
  <2>2. ASSUME NEW w \in Workers PROVE Stage(w)' = Stage(w)
    <3>1. CASE w = t
      <4>1. pc'[w] \in {cont[w], "enqueue", pc[w]}
        BY <1>0, <2>1, <3>1
      <4> QED
        BY <1>0, <2>1, <3>1, <4>1 DEF Stage
    <3>2. CASE w # t
      <4>1. pc'[w] = pc[w] /\ cont'[w] = cont[w]
        BY <1>0, <2>1, <3>2
      <4> QED
        BY <4>1, OtherStages
    <3> QED
      BY <3>1, <3>2
  <2> QED
    BY <1>1, <2>1, <2>2, QuietLead
<1>10. ASSUME NEW w \in Workers, FinishInactive(w)
       PROVE  LeadInv'
  <2>1. /\ UNCHANGED <<sig, waiting, cache, win, result, inferred, submitted, jobs, cont>>
        /\ pc' = [pc EXCEPT ![w] = "idle"]
    BY <1>10 DEF FinishInactive
  <2>2. \A v \in Workers : Stage(v)' \in {Stage(v), "none"}
    BY <1>0, <2>1 DEF Stage
  <2> QED
    BY <1>1, <2>1, <2>2, QuietLead
<1>11. ASSUME NEW c \in Conns, DrainStep(c)
       PROVE  LeadInv'
  BY <1>2, <1>11 DEF DrainStep, Connect, Disconnect, Peek, SendRow, SendFailed, RemoveRow
<1>12. CASE UNCHANGED vars
  BY <1>2, <1>12 DEF vars
<1> QED
  BY <1>3, <1>4, <1>5, <1>6, <1>7, <1>8, <1>9, <1>10, <1>11, <1>12 DEF ReleaseStep

LEMMA LeadInvInit == Init => LeadInv
<1> SUFFICES ASSUME Init PROVE LeadInv
  OBVIOUS
<1>1. DOMAIN waiting = {} /\ DOMAIN inferred = {} /\ jobs = <<>> /\ Len(jobs) = 0
  BY EmptyType DEF Init
<1>2. \A w \in Workers : Stage(w) = "none"
  BY DEF Init, Stage, Threads
<1> QED
  BY <1>1, <1>2 DEF LeadInv, OneLeader, Registered, Results, ScoredOnce, Followers, Leading

LEMMA LeadInvNext ==
    ASSUME TypeInv, LeadInv, [Next]_vars
    PROVE  LeadInv'
<1>1. CASE EventStep
  BY <1>1, LeadOtherSteps, LeadSubmitWaiting, LeadSubmitJob DEF EventStep
<1>2. ASSUME NEW t \in Threads, ReleaseStep(t) \/ EnqueueResponses(t)
      PROVE  LeadInv'
  BY <1>2, LeadOtherSteps
<1>3. ASSUME NEW w \in Workers, InferenceStep(w)
      PROVE  LeadInv'
  <2>1. CASE FinishInactive(w)
    BY <2>1, LeadOtherSteps
  <2> QED
    BY <1>3, <2>1, LeadTakeJob, LeadCheckActive, LeadRunL1, LeadFinishVerdict,
       LeadSkipPolicyWindow, LeadSkipPending DEF InferenceStep
<1>4. ASSUME NEW c \in Conns, DrainStep(c)
      PROVE  LeadInv'
  BY <1>4, LeadOtherSteps
<1>5. CASE SessionEnd \/ UNCHANGED vars
  BY <1>5, LeadOtherSteps
<1> QED
  BY <1>1, <1>2, <1>3, <1>4, <1>5 DEF Next, AwaitMessage

LEMMA LeadInvAlways == Spec => [](TypeInv /\ LeadInv)
<1>1. TypeInv /\ LeadInv /\ [Next]_vars => LeadInv'
  BY LeadInvNext
<1> QED
  BY <1>1, LeadInvInit, TypeInvAlways, PTL DEF Spec


-----------------------------------------------------------------------------
(* What the signature cache holds. *)

\* The score is what inference returned for a window of x's signature, for x itself
\* unless it is marked cached.
Predicted(x, score, isCached) ==
    \E u \in DOMAIN inferred : /\ sig[u] = sig[x] /\ inferred[u] = score
                               /\ isCached = (u # x)

\* The scores on their way to the policy and those it decided.
Predictions ==
    /\ \A s \in DOMAIN cache : \E u \in DOMAIN inferred : sig[u] = s /\ inferred[u] = cache[s]
    /\ \A x \in DOMAIN pending : Predicted(x, pending[x].score, pending[x].cached)
    /\ \A i \in DOMAIN observed :
          Predicted(observed[i].win, observed[i].score, observed[i].cached)

\* What was inferred stays inferred.
LEMMA InferredGrows ==
    ASSUME TypeInv, LeadInv, [Next]_vars
    PROVE  /\ sig' = sig
           /\ \A u \in DOMAIN inferred : u \in DOMAIN inferred' /\ inferred'[u] = inferred[u]
<1> USE DEF session, threads, drain, history
<1>1. ASSUME NEW w \in Workers, NEW r, RunL1(w, r)
      PROVE  /\ sig' = sig
             /\ \A u \in DOMAIN inferred : u \in DOMAIN inferred' /\ inferred'[u] = inferred[u]
  <2>1. win[w] \notin DOMAIN inferred
    BY <1>1 DEF LeadInv, Results, RunL1, Stage
  <2> QED
    BY <1>1, <2>1 DEF RunL1, Put
<1>2. CASE EventStep
  BY <1>2 DEF EventStep, HandleLaunches, SubmitIgnored, SubmitCached, SubmitWaiting, SubmitJob, BatchDone
<1>3. ASSUME NEW t \in Threads, ReleaseStep(t) \/ EnqueueResponses(t)
      PROVE  UNCHANGED <<sig, inferred>>
  BY <1>3 DEF ReleaseStep, ReleaseSkip, ReleaseDiscard, ReleaseApply, ReleaseDone, EnqueueResponses
<1>4. ASSUME NEW w \in Workers, InferenceStep(w)
      PROVE  UNCHANGED <<sig, inferred>> \/ \E r \in Scores \cup {NoScore} : RunL1(w, r)
  BY <1>4 DEF InferenceStep, TakeJob, CheckActive, FinishVerdict, SkipPolicyWindow,
              SkipPendingSignatureWindows, FinishInactive
<1>5. ASSUME NEW c \in Conns, DrainStep(c)
      PROVE  UNCHANGED <<sig, inferred>>
  BY <1>5 DEF DrainStep, Connect, Disconnect, Peek, SendRow, SendFailed, RemoveRow
<1>6. CASE SessionEnd \/ UNCHANGED vars
  BY <1>6 DEF SessionEnd, vars
<1> QED
  BY <1>1, <1>2, <1>3, <1>4, <1>5, <1>6 DEF Next, AwaitMessage

\* Predictions survives a step when every new entry is a prediction.
LEMMA PredictionsStep ==
    ASSUME TypeInv, LeadInv, Predictions, [Next]_vars,
           \A s \in DOMAIN cache' :
              \/ s \in DOMAIN cache /\ cache'[s] = cache[s]
              \/ \E u \in DOMAIN inferred : sig[u] = s /\ inferred[u] = cache'[s],
           \A x \in DOMAIN pending' :
              \/ x \in DOMAIN pending /\ pending'[x] = pending[x]
              \/ Predicted(x, pending'[x].score, pending'[x].cached),
           \A i \in DOMAIN observed' :
              \/ i \in DOMAIN observed /\ observed'[i] = observed[i]
              \/ Predicted(observed'[i].win, observed'[i].score, observed'[i].cached)
    PROVE  Predictions'
<1>1. /\ sig' = sig
      /\ \A u \in DOMAIN inferred : u \in DOMAIN inferred' /\ inferred'[u] = inferred[u]
  BY InferredGrows
<1>2. \A s \in DOMAIN cache' : \E u \in DOMAIN inferred' : sig'[u] = s /\ inferred'[u] = cache'[s]
  BY <1>1 DEF Predictions
<1>3. \A x \in DOMAIN pending' : Predicted(x, pending'[x].score, pending'[x].cached)
  BY Zenon DEF Predictions
<1>4. \A i \in DOMAIN observed' :
          Predicted(observed'[i].win, observed'[i].score, observed'[i].cached)
  BY Zenon DEF Predictions
<1>5. ASSUME NEW x \in DOMAIN pending'
      PROVE  \E u \in DOMAIN inferred' : /\ sig'[u] = sig'[x] /\ inferred'[u] = pending'[x].score
                                         /\ pending'[x].cached = (u # x)
  <2>1. PICK u \in DOMAIN inferred : /\ sig[u] = sig[x] /\ inferred[u] = pending'[x].score
                                     /\ pending'[x].cached = (u # x)
    BY <1>3, Zenon DEF Predicted
  <2>2. u \in DOMAIN inferred' /\ inferred'[u] = inferred[u] /\ sig'[u] = sig[u] /\ sig'[x] = sig[x]
    BY <1>1
  <2> QED
    BY <2>1, <2>2, Zenon
<1>6. ASSUME NEW i \in DOMAIN observed'
      PROVE  \E u \in DOMAIN inferred' :
                /\ sig'[u] = sig'[observed'[i].win] /\ inferred'[u] = observed'[i].score
                /\ observed'[i].cached = (u # observed'[i].win)
  <2> DEFINE x == observed'[i].win
  <2>1. PICK u \in DOMAIN inferred : /\ sig[u] = sig[x] /\ inferred[u] = observed'[i].score
                                     /\ observed'[i].cached = (u # x)
    BY <1>4, Zenon DEF Predicted
  <2>2. u \in DOMAIN inferred' /\ inferred'[u] = inferred[u] /\ sig'[u] = sig[u] /\ sig'[x] = sig[x]
    BY <1>1
  <2> QED
    BY <2>1, <2>2, Zenon
<1> QED
  BY <1>2, <1>5, <1>6, Zenon DEF Predictions, Predicted

LEMMA PredictionsNext ==
    ASSUME TypeInv, LeadInv, Predictions, [Next]_vars
    PROVE  Predictions'
<1> USE DEF session, threads, drain, history
<1>1. ASSUME UNCHANGED <<cache, pending, observed>>
      PROVE  Predictions'
  BY <1>1, PredictionsStep
<1>2. CASE SubmitCached
  <2>1. /\ UNCHANGED <<cache, observed>> /\ sig[submitted] \in DOMAIN cache
        /\ pending' = Put(pending, submitted, [score |-> cache[sig[submitted]], cached |-> TRUE])
    BY <1>2 DEF SubmitCached
  <2>2. PICK u \in DOMAIN inferred : sig[u] = sig[submitted] /\ inferred[u] = cache[sig[submitted]]
    BY <2>1 DEF Predictions
  <2>3. u # submitted
    BY WindowFacts DEF LeadInv, Results
  <2>4. Predicted(submitted, cache[sig[submitted]], TRUE)
    BY <2>2, <2>3, Zenon DEF Predicted
  <2>5. /\ pending'[submitted].score = cache[sig[submitted]] /\ pending'[submitted].cached = TRUE
        /\ \A x \in DOMAIN pending' : \/ x = submitted
                                      \/ x \in DOMAIN pending /\ pending'[x] = pending[x]
    BY <2>1 DEF Put
  <2>6. \A x \in DOMAIN pending' :
            \/ x \in DOMAIN pending /\ pending'[x] = pending[x]
            \/ Predicted(x, pending'[x].score, pending'[x].cached)
    BY <2>4, <2>5, Zenon
  <2> QED
    BY <2>1, <2>6, PredictionsStep
<1>3. ASSUME NEW w \in Workers, FinishVerdict(w)
      PROVE  Predictions'
  <2> DEFINE x0 == win[w]
             r == result[w]
             followers == IF terminal THEN {} ELSE WaitingFor(sig[x0])
  <2>1. /\ pc[w] = "finish" /\ r # NoScore /\ observed' = observed
        /\ cache' = Put(cache, sig[x0], r) /\ pending' = Resolved(x0, r, followers)
    BY <1>3 DEF FinishVerdict
  <2>2. x0 \in DOMAIN inferred /\ inferred[x0] = r
    BY <2>1 DEF LeadInv, Results, Stage
  <2>3. \A x \in followers : sig[x] = sig[x0] /\ x # x0
    <3>1. CASE sig[x0] \notin DOMAIN waiting \/ terminal
      BY <3>1 DEF WaitingFor
    <3>2. CASE sig[x0] \in DOMAIN waiting /\ ~terminal
      <4>1. \A x \in followers : \E i \in 1..Len(waiting[sig[x0]]) : x = waiting[sig[x0]][i]
        BY <3>2, WindowFacts DEF WaitingFor, ToSet
      <4> QED
        BY <2>2, <3>2, <4>1 DEF LeadInv, Followers
    <3> QED
      BY <3>1, <3>2
  <2> HIDE DEF x0, r, followers
  <2>4. Predicted(x0, r, FALSE)
    BY <2>2, Zenon DEF Predicted
  <2>5. \A x \in followers : Predicted(x, r, TRUE)
    BY <2>2, <2>3, Zenon DEF Predicted
  <2>6. /\ DOMAIN pending' = DOMAIN pending \cup {x0} \cup followers
        /\ pending'[x0] = [score |-> r, cached |-> FALSE]
        /\ \A x \in followers : pending'[x] = [score |-> r, cached |-> TRUE]
        /\ \A x \in DOMAIN pending : x # x0 /\ x \notin followers => pending'[x] = pending[x]
    <3>1. pending' = Resolved(x0, r, followers)
      BY <2>1
    <3>2. DOMAIN pending' = DOMAIN pending \cup {x0} \cup followers
      BY <3>1 DEF Resolved
    <3>3. pending'[x0] = [score |-> r, cached |-> FALSE]
      BY <2>3, <3>1 DEF Resolved
    <3>4. ASSUME NEW x \in followers PROVE pending'[x] = [score |-> r, cached |-> TRUE]
      BY <2>3, <3>1 DEF Resolved
    <3>5. ASSUME NEW x \in DOMAIN pending, x # x0, x \notin followers PROVE pending'[x] = pending[x]
      BY <3>1, <3>5 DEF Resolved
    <3> QED
      BY <3>2, <3>3, <3>4, <3>5
  <2>7. /\ pending'[x0].score = r /\ pending'[x0].cached = FALSE
        /\ \A x \in followers : pending'[x].score = r /\ pending'[x].cached = TRUE
    BY <2>3, <2>6
  <2>8. \A x \in DOMAIN pending' :
            \/ x \in DOMAIN pending /\ pending'[x] = pending[x]
            \/ Predicted(x, pending'[x].score, pending'[x].cached)
    <3>1. Predicted(x0, pending'[x0].score, pending'[x0].cached)
      BY <2>4, <2>7, Zenon
    <3>2. \A x \in followers : Predicted(x, pending'[x].score, pending'[x].cached)
      BY <2>5, <2>7, Zenon
    <3> QED
      BY <2>6, <3>1, <3>2, Zenon
  <2>9. \A s \in DOMAIN cache' :
            \/ s \in DOMAIN cache /\ cache'[s] = cache[s]
            \/ \E u \in DOMAIN inferred : sig[u] = s /\ inferred[u] = cache'[s]
    BY <2>1, <2>2 DEF Put
  <2> QED
    BY <2>1, <2>8, <2>9, PredictionsStep
<1>4. ASSUME NEW t \in Threads, ReleaseDiscard(t)
      PROVE  Predictions'
  <2>1. UNCHANGED <<cache, observed>> /\ pending' = Drop(pending, ReleaseIndex)
    BY <1>4 DEF ReleaseDiscard
  <2>2. \A x \in DOMAIN pending' : x \in DOMAIN pending /\ pending'[x] = pending[x]
    BY <2>1 DEF Drop
  <2> QED
    BY <2>1, <2>2, PredictionsStep
<1>5. ASSUME NEW t \in Threads, ReleaseApply(t)
      PROVE  Predictions'
  <2> DEFINE v == Decide(next, pending[next])
  <2>1. /\ cache' = cache /\ next \in DOMAIN pending /\ observed' = Append(observed, v)
        /\ pending' = Empty \/ pending' = Drop(pending, next)
    BY <1>5 DEF ReleaseApply, ReleaseIndex
  <2>2. v.win = next /\ v.score = pending[next].score /\ v.cached = pending[next].cached
    BY DEF Decide
  <2>3. Predicted(v.win, v.score, v.cached)
    BY <2>1, <2>2, Zenon DEF Predictions
  <2> HIDE DEF v
  <2>4. \A x \in DOMAIN pending' : x \in DOMAIN pending /\ pending'[x] = pending[x]
    BY <2>1, EmptyType DEF Drop
  <2>5. observed \in Seq(Verdicts)
    BY DEF TypeInv, TypeOK, HistoryTypeOK
  <2>6. \A i \in DOMAIN observed' : \/ i \in DOMAIN observed /\ observed'[i] = observed[i]
                                    \/ observed'[i] = v
    BY <2>1, <2>5
  <2>7. \A i \in DOMAIN observed' :
            \/ i \in DOMAIN observed /\ observed'[i] = observed[i]
            \/ Predicted(observed'[i].win, observed'[i].score, observed'[i].cached)
    BY <2>3, <2>6, Zenon
  <2> QED
    BY <2>1, <2>4, <2>7, PredictionsStep
<1>6. CASE EventStep
  BY <1>1, <1>2, <1>6 DEF EventStep, HandleLaunches, SubmitIgnored, SubmitWaiting, SubmitJob, BatchDone
<1>7. ASSUME NEW t \in Threads, ReleaseStep(t) \/ EnqueueResponses(t)
      PROVE  Predictions'
  BY <1>1, <1>4, <1>5, <1>7 DEF ReleaseStep, ReleaseSkip, ReleaseDone, EnqueueResponses
<1>8. ASSUME NEW w \in Workers, InferenceStep(w)
      PROVE  Predictions'
  BY <1>1, <1>3, <1>8 DEF InferenceStep, TakeJob, CheckActive, RunL1, SkipPolicyWindow,
                          SkipPendingSignatureWindows, FinishInactive
<1>9. ASSUME NEW c \in Conns, DrainStep(c)
      PROVE  Predictions'
  BY <1>1, <1>9 DEF DrainStep, Connect, Disconnect, Peek, SendRow, SendFailed, RemoveRow
<1>10. CASE SessionEnd \/ UNCHANGED vars
  BY <1>1, <1>10 DEF SessionEnd, vars
<1> QED
  BY <1>6, <1>7, <1>8, <1>9, <1>10 DEF Next, AwaitMessage

\* Every score the policy decides on, taken from the signature cache or not, is what
\* inference returned for a window of the same signature, and no signature is classified
\* successfully twice, for any number of workers and windows.
THEOREM CacheCoherentHolds == Spec => []CacheCoherent
<1>1. Init => Predictions
  BY EmptyType DEF Init, Predictions
<1>2. TypeInv /\ LeadInv /\ Predictions /\ [Next]_vars => Predictions'
  BY PredictionsNext
<1>3. LeadInv /\ Predictions => CacheCoherent
  <2> SUFFICES ASSUME LeadInv, Predictions PROVE CacheCoherent
    OBVIOUS
  <2>1. \A i \in DOMAIN observed : \E u \in DOMAIN inferred :
            /\ sig[u] = sig[observed[i].win] /\ inferred[u] = observed[i].score
            /\ observed[i].cached = (u # observed[i].win)
    BY Zenon DEF Predictions, Predicted
  <2>2. \A u, v \in DOMAIN inferred :
            sig[u] = sig[v] /\ NoScore \notin {inferred[u], inferred[v]} => u = v
    BY DEF LeadInv, ScoredOnce
  <2> QED
    BY <2>1, <2>2, Zenon DEF CacheCoherent
<1> QED
  BY <1>1, <1>2, <1>3, LeadInvAlways, PTL DEF Spec


-----------------------------------------------------------------------------
(* Where the decided verdicts are. *)

\* Removing a row from the outbox keeps the others.
LEMMA WithoutKeeps ==
    ASSUME NEW S, NEW q \in Seq(S), NEW e, NEW x \in ToSet(q), x # e
    PROVE  x \in ToSet(Without(q, e))
<1>1. PICK i \in 1..Len(q) : q[i] = x
  BY DEF ToSet
<1>2. CASE \E j \in 1..Len(q) : q[j] = e
  <2> DEFINE I == {j \in 1..Len(q) : q[j] = e}
             k == Min(I)
             r == SubSeq(q, 1, k - 1) \o SubSeq(q, k + 1, Len(q))
  <2>1. k \in I
    <3>1. I \in SUBSET Nat /\ I # {}
      BY <1>2
    <3> HIDE DEF I
    <3> QED
      BY <3>1, LeastPosition
  <2>2. k \in 1..Len(q) /\ q[k] = e
    BY <2>1
  <2>3. Without(q, e) = r
    BY <1>2 DEF Without, RemoveFirst, RemoveAt, SelectInSeq
  <2> HIDE DEF k
  <2>4. /\ r \in Seq(S) /\ Len(r) = Len(q) - 1 /\ Len(q) \in Nat
        /\ \A j \in 1..(k - 1) : r[j] = q[j]
        /\ \A j \in k..(Len(q) - 1) : r[j] = q[j + 1]
    <3> DEFINE a == SubSeq(q, 1, k - 1)
               b == SubSeq(q, k + 1, Len(q))
    <3>1. /\ a \in Seq(S) /\ Len(a) = k - 1 /\ \A j \in 1..(k - 1) : a[j] = q[j]
          /\ b \in Seq(S) /\ Len(b) = Len(q) - k /\ \A j \in 1..(Len(q) - k) : b[j] = q[k + j]
          /\ Len(q) \in Nat
      BY <2>2
    <3>2. r = a \o b
      OBVIOUS
    <3> HIDE DEF a, b, r
    <3>3. /\ r \in Seq(S) /\ Len(r) = Len(a) + Len(b)
          /\ \A j \in 1..Len(a) : r[j] = a[j]
          /\ \A j \in 1..Len(b) : r[Len(a) + j] = b[j]
      <4>1. /\ r \in Seq(S) /\ Len(r) = Len(a) + Len(b)
            /\ \A j \in 1..(Len(a) + Len(b)) :
                  r[j] = IF j =< Len(a) THEN a[j] ELSE b[j - Len(a)]
        BY <3>1, <3>2, ConcatProperties
      <4>2. Len(a) \in Nat /\ Len(b) \in Nat
        BY <3>1
      <4>3. \A j \in 1..Len(a) : r[j] = a[j]
        BY <4>1, <4>2
      <4>4. \A j \in 1..Len(b) : Len(a) + j \in 1..(Len(a) + Len(b)) /\ (Len(a) + j) - Len(a) = j
                                  /\ ~(Len(a) + j =< Len(a))
        BY <4>2
      <4>5. \A j \in 1..Len(b) : r[Len(a) + j] = b[j]
        BY <4>1, <4>4
      <4> QED
        BY <4>1, <4>3, <4>5
    <3>4. ASSUME NEW j \in k..(Len(q) - 1) PROVE r[j] = q[j + 1]
      <4>1. j - k + 1 \in 1..Len(b) /\ Len(a) + (j - k + 1) = j /\ k + (j - k + 1) = j + 1
        BY <2>2, <3>1
      <4> QED
        BY <3>1, <3>3, <4>1
    <3> QED
      BY <2>2, <3>1, <3>3, <3>4
  <2> HIDE DEF r
  <2>5. i # k
    BY <1>1, <2>2
  <2>6. \E j \in 1..Len(r) : r[j] = x
    <3>1. CASE i < k
      <4>1. i \in 1..Len(r) /\ r[i] = x
        BY <1>1, <2>2, <2>4, <3>1
      <4> QED
        BY <4>1
    <3>2. CASE i > k
      <4>1. i - 1 \in 1..Len(r) /\ i - 1 \in k..(Len(q) - 1) /\ i - 1 + 1 = i
        BY <2>2, <2>4, <3>2
      <4>2. r[i - 1] = x
        BY <1>1, <2>4, <4>1
      <4> QED
        BY <4>1, <4>2
    <3> QED
      BY <2>2, <2>5, <3>1, <3>2
  <2> QED
    BY <2>3, <2>6 DEF ToSet
<1>3. CASE ~ \E j \in 1..Len(q) : q[j] = e
  BY <1>3 DEF Without, RemoveFirst
<1> QED
  BY <1>2, <1>3

\* A longer sequence has the elements of its parts.
LEMMA OutboxGrows ==
    ASSUME NEW S, NEW q \in Seq(S), NEW r \in Seq(S)
    PROVE  ToSet(q) \subseteq ToSet(q \o r) /\ ToSet(r) \subseteq ToSet(q \o r)
<1> DEFINE c == q \o r
<1>1. /\ Len(q) \in Nat /\ Len(r) \in Nat /\ c \in Seq(S)
      /\ Len(c) = Len(q) + Len(r) /\ \A i \in 1..Len(q) : c[i] = q[i]
      /\ \A i \in 1..Len(r) : c[Len(q) + i] = r[i]
  OBVIOUS
<1>2. ToSet(c) = {c[i] : i \in 1..Len(c)}
  BY DEF ToSet
<1> HIDE DEF c
<1>3. \A i \in 1..Len(q) : i \in 1..Len(c) /\ c[i] = q[i]
  BY <1>1
<1>4. \A i \in 1..Len(r) : Len(q) + i \in 1..Len(c) /\ c[Len(q) + i] = r[i]
  BY <1>1
<1>5. ToSet(q) \subseteq ToSet(c)
  BY <1>2, <1>3 DEF ToSet
<1>6. ToSet(r) \subseteq ToSet(c)
  BY <1>2, <1>4 DEF ToSet
<1> QED
  BY <1>5, <1>6 DEF c

LEMMA ResponsesGrow ==
    ASSUME NEW S, NEW q \in Seq(S), NEW x \in S
    PROVE  ToSet(q) \subseteq ToSet(Append(q, x)) /\ x \in ToSet(Append(q, x))
<1> DEFINE a == Append(q, x)
<1>1. /\ Len(q) \in Nat /\ a \in Seq(S)
      /\ Len(a) = Len(q) + 1 /\ a[Len(q) + 1] = x /\ \A i \in 1..Len(q) : a[i] = q[i]
  OBVIOUS
<1>2. ToSet(a) = {a[i] : i \in 1..Len(a)}
  BY DEF ToSet
<1> HIDE DEF a
<1>3. \A i \in 1..Len(q) : i \in 1..Len(a) /\ a[i] = q[i]
  BY <1>1
<1>4. ToSet(q) \subseteq ToSet(a)
  BY <1>2, <1>3 DEF ToSet
<1>5. x \in ToSet(a)
  BY <1>1, <1>2
<1> QED
  BY <1>4, <1>5 DEF a

\* A verdict is held by a thread, in the outbox, or written.
Kept == sent \cup ToSet(outbox) \cup UNION {ToSet(resp[t]) : t \in Threads}

\* A connection removes the row it has written.
KeptInv ==
    /\ \A c \in Conns : conn[c].state = "sent" => conn[c].row \in sent
    /\ active => \A i \in DOMAIN observed : observed[i] \in Kept

LEMMA KeptNext ==
    ASSUME TypeInv, KeptInv, [Next]_vars
    PROVE  KeptInv'
<1> USE DEF session, threads, drain, history
<1>0. /\ outbox \in Seq(Verdicts) /\ resp \in [Threads -> Seq(Verdicts)] /\ observed \in Seq(Verdicts)
      /\ conn \in [Conns -> [state : {"down", "open", "sending", "sent"}, row : Verdicts \cup {NoVerdict}]]
  BY DEF TypeInv, TypeOK, ThreadsTypeOK, DrainTypeOK, HistoryTypeOK
<1>1. ASSUME UNCHANGED <<observed, resp, outbox, conn, sent>>, active' => active
      PROVE  KeptInv'
  BY <1>1, Zenon DEF KeptInv, Kept
<1>2. CASE EventStep
  BY <1>1, <1>2, Zenon DEF EventStep, HandleLaunches, SubmitIgnored, SubmitCached, SubmitWaiting, SubmitJob, BatchDone
<1>3. ASSUME NEW t \in Threads, ReleaseSkip(t) \/ ReleaseDiscard(t) \/ ReleaseDone(t)
      PROVE  KeptInv'
  BY <1>1, <1>3, Zenon DEF ReleaseSkip, ReleaseDiscard, ReleaseDone
<1>4. ASSUME NEW t \in Threads, ReleaseApply(t)
      PROVE  KeptInv'
  <2> DEFINE v == Decide(next, pending[next])
  <2>1. /\ observed' = Append(observed, v) /\ resp' = [resp EXCEPT ![t] = Append(@, v)]
        /\ UNCHANGED <<outbox, conn, sent>>
    BY <1>4 DEF ReleaseApply, ReleaseIndex
  <2>2. active' = active
    BY <1>4, Zenon DEF ReleaseApply
  <2>3. v \in Verdicts
    <3>1. next \in Windows /\ pending[next] \in Entries
      BY <1>4 DEF ReleaseApply, ReleaseIndex, TypeInv, TypeOK, SessionTypeOK
    <3> QED
      BY <3>1, DecideType
  <2> HIDE DEF v
  <2>4. /\ \A u \in Threads : ToSet(resp[u]) \subseteq ToSet(resp'[u])
        /\ v \in ToSet(resp'[t])
    <3>1. resp'[t] = Append(resp[t], v) /\ resp[t] \in Seq(Verdicts)
      BY <1>0, <2>1
    <3>2. ToSet(resp[t]) \subseteq ToSet(resp'[t]) /\ v \in ToSet(resp'[t])
      BY <2>3, <3>1, ResponsesGrow
    <3>3. \A u \in Threads : u # t => resp'[u] = resp[u]
      BY <1>0, <2>1
    <3> QED
      BY <3>2, <3>3
  <2>5. Kept \subseteq Kept'
    BY <2>1, <2>4 DEF Kept
  <2>6. v \in Kept'
    BY <2>4 DEF Kept
  <2>7. \A i \in DOMAIN observed' : \/ i \in DOMAIN observed /\ observed'[i] = observed[i]
                                    \/ observed'[i] = v
    BY <1>0, <2>1, <2>3
  <2>8. active' => \A i \in DOMAIN observed' : observed'[i] \in Kept'
    <3> SUFFICES ASSUME active, NEW i \in DOMAIN observed'
                 PROVE  observed'[i] \in Kept'
      BY <2>2, Zenon
    <3>1. \A j \in DOMAIN observed : observed[j] \in Kept
      BY Zenon DEF KeptInv
    <3>2. CASE i \in DOMAIN observed /\ observed'[i] = observed[i]
      BY <2>5, <3>1, <3>2
    <3>3. CASE observed'[i] = v
      BY <2>6, <3>3
    <3> QED
      BY <2>7, <3>2, <3>3, Zenon
  <2>9. \A c \in Conns : conn'[c].state = "sent" => conn'[c].row \in sent'
    BY <2>1 DEF KeptInv
  <2> QED
    BY <2>8, <2>9, Zenon DEF KeptInv
<1>5. ASSUME NEW t \in Threads, EnqueueResponses(t)
      PROVE  KeptInv'
  <2>1. /\ outbox' = outbox \o resp[t] /\ resp' = [resp EXCEPT ![t] = <<>>]
        /\ UNCHANGED <<observed, conn, sent>>
    BY <1>5 DEF EnqueueResponses
  <2>2. active' = active
    BY <1>5, Zenon DEF EnqueueResponses
  <2>3. ToSet(outbox) \subseteq ToSet(outbox') /\ ToSet(resp[t]) \subseteq ToSet(outbox')
    <3>1. resp[t] \in Seq(Verdicts)
      BY <1>0
    <3>2. outbox' = outbox \o resp[t]
      BY <2>1
    <3> QED
      BY <1>0, <3>1, <3>2, OutboxGrows
  <2>4. \A u \in Threads : u # t => resp'[u] = resp[u]
    BY <1>0, <2>1
  <2>5. Kept \subseteq Kept'
    BY <2>1, <2>3, <2>4 DEF Kept
  <2> QED
    BY <2>1, <2>2, <2>5, Zenon DEF KeptInv
<1>6. CASE SessionEnd
  BY <1>6, Zenon DEF SessionEnd, KeptInv
<1>7. ASSUME NEW w \in Workers, InferenceStep(w)
      PROVE  KeptInv'
  BY <1>1, <1>7, Zenon DEF InferenceStep, TakeJob, CheckActive, RunL1, FinishVerdict, SkipPolicyWindow,
                          SkipPendingSignatureWindows, FinishInactive
<1>8. ASSUME NEW c \in Conns, Connect(c) \/ Disconnect(c) \/ Peek(c) \/ SendFailed(c)
      PROVE  KeptInv'
  <2>1. /\ UNCHANGED <<observed, resp, outbox, sent>>
        /\ \A d \in Conns : conn'[d].state = "sent" => conn'[d] = conn[d]
    BY <1>0, <1>8 DEF Connect, Disconnect, Peek, SendFailed
  <2>2. active' = active
    BY <1>8, Zenon DEF Connect, Disconnect, Peek, SendFailed
  <2> QED
    BY <2>1, <2>2, Zenon DEF KeptInv, Kept
<1>9. ASSUME NEW c \in Conns, SendRow(c)
      PROVE  KeptInv'
  <2>1. /\ UNCHANGED <<observed, resp, outbox>> /\ sent' = sent \cup {conn[c].row}
        /\ \A d \in Conns : conn'[d].row = conn[d].row
        /\ \A d \in Conns : d # c => conn'[d] = conn[d]
    BY <1>0, <1>9 DEF SendRow
  <2>2. active' = active
    BY <1>9, Zenon DEF SendRow
  <2>3. Kept \subseteq Kept'
    BY <2>1 DEF Kept
  <2>4. \A d \in Conns : conn'[d].state = "sent" => conn'[d].row \in sent'
    BY <2>1 DEF KeptInv
  <2> QED
    BY <2>1, <2>2, <2>3, <2>4, Zenon DEF KeptInv
<1>10. ASSUME NEW c \in Conns, RemoveRow(c)
       PROVE  KeptInv'
  <2>1. /\ UNCHANGED <<observed, resp, sent>> /\ outbox' = Without(outbox, conn[c].row)
        /\ conn[c].state = "sent"
        /\ \A d \in Conns : conn'[d].state = "sent" => conn'[d] = conn[d]
    BY <1>0, <1>10 DEF RemoveRow
  <2>2. active' = active
    BY <1>10, Zenon DEF RemoveRow
  <2>3. conn[c].row \in sent
    BY <2>1 DEF KeptInv
  <2>4. \A x \in ToSet(outbox) : x = conn[c].row \/ x \in ToSet(outbox')
    BY <1>0, <2>1, WithoutKeeps
  <2>5. Kept \subseteq Kept'
    BY <2>1, <2>3, <2>4 DEF Kept
  <2> QED
    BY <2>1, <2>2, <2>5, Zenon DEF KeptInv
<1>11. CASE UNCHANGED vars
  BY <1>1, <1>11, Zenon DEF vars
<1> QED
  BY <1>2, <1>3, <1>4, <1>5, <1>6, <1>7, <1>8, <1>9, <1>10, <1>11
  DEF Next, AwaitMessage, ReleaseStep, DrainStep

\* A decided verdict of a live session is never lost: any number of connections may drain
\* the outbox at once and any write may fail.
THEOREM VerdictsKeptHolds == Spec => []VerdictsKept
<1>1. Init => KeptInv
  <2> SUFFICES ASSUME Init PROVE KeptInv
    OBVIOUS
  <2>1. DOMAIN observed = {} /\ \A c \in Conns : conn[c].state # "sent"
    BY DEF Init
  <2> QED
    BY <2>1 DEF KeptInv
<1>2. TypeInv /\ KeptInv /\ [Next]_vars => KeptInv'
  BY KeptNext
<1>3. KeptInv => VerdictsKept
  BY DEF KeptInv, Kept, VerdictsKept
<1> QED
  BY <1>1, <1>2, <1>3, TypeInvAlways, PTL DEF Spec


-----------------------------------------------------------------------------
(* Where the submitted windows are. *)

LEMMA AppendElements ==
    ASSUME NEW S, NEW q \in Seq(S), NEW x
    PROVE  ToSet(Append(q, x)) = ToSet(q) \cup {x}
<1> DEFINE a == Append(q, x)
<1>1. /\ Len(q) \in Nat /\ Len(a) = Len(q) + 1 /\ a[Len(q) + 1] = x
      /\ \A i \in 1..Len(q) : a[i] = q[i]
  <2>1. q \in Seq(S \cup {x})
    BY SeqMonotonic
  <2> QED
    BY <2>1
<1>2. ToSet(a) = {a[i] : i \in 1..Len(a)} /\ ToSet(q) = {q[i] : i \in 1..Len(q)}
  BY DEF ToSet
<1> HIDE DEF a
<1>3. \A i \in 1..Len(a) : a[i] \in ToSet(q) \cup {x}
  <2>1. \A i \in 1..Len(a) : i \in 1..Len(q) \/ i = Len(q) + 1
    BY <1>1
  <2> QED
    BY <1>1, <1>2, <2>1
<1>4. \A i \in 1..Len(q) : i \in 1..Len(a) /\ a[i] = q[i]
  BY <1>1
<1>5. Len(q) + 1 \in 1..Len(a)
  BY <1>1
<1> QED
  BY <1>1, <1>2, <1>3, <1>4, <1>5 DEF a

LEMMA TailElements ==
    ASSUME NEW S, NEW q \in Seq(S), q # <<>>, \A i, j \in 1..Len(q) : q[i] = q[j] => i = j
    PROVE  \A x : x \in ToSet(Tail(q)) <=> x \in ToSet(q) /\ x # Head(q)
<1> DEFINE r == Tail(q)
<1>1. /\ Len(q) \in Nat /\ Len(q) > 0 /\ Len(r) = Len(q) - 1 /\ Head(q) = q[1] /\ r \in Seq(S)
      /\ \A i \in 1..Len(r) : r[i] = q[i + 1]
  OBVIOUS
<1> HIDE DEF r
<1>2. ToSet(r) = {r[i] : i \in 1..Len(r)} /\ ToSet(q) = {q[i] : i \in 1..Len(q)}
  BY <1>1 DEF ToSet
<1>3. ASSUME NEW x \in ToSet(r) PROVE x \in ToSet(q) /\ x # Head(q)
  <2>1. PICK i \in 1..Len(r) : x = r[i]
    BY <1>2
  <2>2. i + 1 \in 1..Len(q) /\ 1 \in 1..Len(q) /\ i + 1 # 1 /\ x = q[i + 1]
    BY <1>1, <2>1
  <2> QED
    BY <1>1, <1>2, <2>2
<1>4. ASSUME NEW x \in ToSet(q), x # Head(q) PROVE x \in ToSet(r)
  <2>1. PICK i \in 1..Len(q) : x = q[i]
    BY <1>2
  <2>2. i # 1
    BY <1>1, <1>4, <2>1
  <2>3. i - 1 \in 1..Len(r) /\ r[i - 1] = x
    BY <1>1, <2>1, <2>2
  <2> QED
    BY <1>2, <2>3
<1> QED
  BY <1>3, <1>4 DEF r

\* The window is in the job queue, with a worker, in a waiting list, among the pending
\* verdicts or among the skipped indices, and in one of them only.
Placed(x) ==
    LET J == x \in ToSet(jobs)
        W == InWorker(x)
        Q == InWaiting(x)
        P == x \in DOMAIN pending
        K == x \in skipped
    IN  \/ (J /\ ~W /\ ~Q /\ ~P /\ ~K)
        \/ (~J /\ W /\ ~Q /\ ~P /\ ~K)
        \/ (~J /\ ~W /\ Q /\ ~P /\ ~K)
        \/ (~J /\ ~W /\ ~Q /\ P /\ ~K)
        \/ (~J /\ ~W /\ ~Q /\ ~P /\ K)

PlacedInv == active /\ ~terminal => \A x \in next..(submitted - 1) : Placed(x)

Busy(k) == pc[k] \in {"start", "run", "finish"}

\* A session that has ended or is decided stays so.
LEMMA OpenBefore ==
    ASSUME [Next]_vars, active', ~terminal'
    PROVE  active /\ ~terminal
<1>1. active
  BY EndedForGood, Zenon
<1>2. ~terminal
  BY OnlyReleaseDecides, Zenon DEF ReleaseSkip, ReleaseDiscard, ReleaseApply, session
<1> QED
  BY <1>1, <1>2, Zenon

\* The next window to submit is nowhere yet.
LEMMA NotYetPlaced ==
    ASSUME TypeInv
    PROVE  /\ submitted \notin ToSet(jobs) /\ ~InWorker(submitted) /\ ~InWaiting(submitted)
           /\ submitted \notin DOMAIN pending /\ submitted \notin skipped
<1>1. submitted \notin Submitted
  BY WindowFacts
<1>2. ToSet(jobs) \subseteq Submitted
  BY WindowFacts, ToSetType
<1>3. ~InWorker(submitted)
  BY <1>1 DEF InWorker, TypeInv, IndexInv
<1>4. ~InWaiting(submitted)
  BY <1>1, WindowFacts, ToSetType DEF InWaiting
<1>5. submitted \notin DOMAIN pending /\ submitted \notin skipped
  BY <1>1 DEF TypeInv, IndexInv
<1> QED
  BY <1>1, <1>2, <1>3, <1>4, <1>5

\* A window with a worker leads its signature and is with no other.
LEMMA BusyLeads ==
    ASSUME TypeInv, LeadInv
    PROVE  /\ \A k \in Workers : Busy(k) => Leading(k)
           /\ \A k, l \in Workers : Leading(k) /\ Leading(l) /\ win[k] = win[l] => k = l
           /\ \A x : InWorker(x) <=> \E k \in Workers : Busy(k) /\ win[k] = x
<1>1. \A k \in Workers : Busy(k) => Leading(k)
  BY DEF Busy, Leading, Stage
<1>2. \A k, l \in Workers : Leading(k) /\ Leading(l) /\ win[k] = win[l] => k = l
  BY DEF LeadInv, OneLeader
<1>3. \A x : InWorker(x) <=> \E k \in Workers : Busy(k) /\ win[k] = x
  BY DEF InWorker, Busy
<1> QED
  BY <1>1, <1>2, <1>3

\* The windows that wait for a signature are those of the waiting lists that have it.
LEMMA WaitingForIs ==
    ASSUME TypeInv, LeadInv, NEW s
    PROVE  /\ \A x : x \in WaitingFor(s) <=> InWaiting(x) /\ sig[x] = s
           /\ \A t \in DOMAIN waiting : \A x \in ToSet(waiting[t]) : sig[x] = t
<1>1. \A t \in DOMAIN waiting : \A x \in ToSet(waiting[t]) : sig[x] = t
  <2> SUFFICES ASSUME NEW t \in DOMAIN waiting, NEW x \in ToSet(waiting[t])
               PROVE  sig[x] = t
    OBVIOUS
  <2>1. PICK i \in 1..Len(waiting[t]) : x = waiting[t][i]
    BY WindowFacts DEF ToSet
  <2> QED
    BY <2>1 DEF LeadInv, Followers
<1>2. \A x : x \in WaitingFor(s) <=> InWaiting(x) /\ sig[x] = s
  BY <1>1 DEF WaitingFor, InWaiting
<1> QED
  BY <1>1, <1>2

LEMMA WaitingDropped ==
    ASSUME TypeInv, LeadInv, NEW s, waiting' = Drop(waiting, s)
    PROVE  \A x : InWaiting(x)' <=> InWaiting(x) /\ x \notin WaitingFor(s)
<1>1. /\ DOMAIN waiting' = DOMAIN waiting \ {s}
      /\ \A t \in DOMAIN waiting' : waiting'[t] = waiting[t]
  BY DEF Drop
<1>2. \A x : InWaiting(x)' <=> \E t \in DOMAIN waiting : t # s /\ x \in ToSet(waiting[t])
  BY <1>1 DEF InWaiting
<1> QED
  BY <1>2, WaitingForIs DEF InWaiting

\* Windows that move between no places stay placed.
LEMMA PlacedStays ==
    ASSUME TypeInv, PlacedInv, [Next]_vars, UNCHANGED <<jobs, waiting, win>>,
           \A k \in Workers : Busy(k)' <=> Busy(k),
           \A x \in next'..(submitted' - 1) :
              /\ x \in next..(submitted - 1)
              /\ x \in DOMAIN pending' <=> x \in DOMAIN pending
              /\ x \in skipped' <=> x \in skipped
    PROVE  PlacedInv'
<1> SUFFICES ASSUME active', ~terminal', NEW x \in next'..(submitted' - 1)
             PROVE  Placed(x)'
  BY Zenon DEF PlacedInv
<1>1. Placed(x)
  BY OpenBefore, Zenon DEF PlacedInv
<1>2. InWorker(x)' <=> InWorker(x)
  BY DEF InWorker, Busy
<1>3. InWaiting(x)' <=> InWaiting(x)
  BY DEF InWaiting
<1> QED
  BY <1>1, <1>2, <1>3, Zenon DEF Placed

LEMMA PlacedSubmit ==
    ASSUME TypeInv, LeadInv, PlacedInv, [Next]_vars, SubmitCached \/ SubmitWaiting \/ SubmitJob
    PROVE  PlacedInv'
<1> SUFFICES ASSUME active', ~terminal', NEW x \in next'..(submitted' - 1)
             PROVE  Placed(x)'
  BY Zenon DEF PlacedInv
<1> DEFINE s0 == sig[submitted]
<1>1. /\ next' = next /\ submitted' = submitted + 1 /\ UNCHANGED <<skipped, win>>
      /\ next \in Nat /\ submitted \in Nat
      /\ \A k \in Workers : Busy(k)' <=> Busy(k)
  <2>1. next' = next /\ submitted' = submitted + 1 /\ UNCHANGED <<skipped, win>>
    BY DEF SubmitCached, SubmitWaiting, SubmitJob, threads
  <2>2. next \in Nat /\ submitted \in Nat
    BY DEF TypeInv, TypeOK, SessionTypeOK, WindowsTypeOK
  <2>3. \A k \in Workers : pc'[k] = pc[k]
    <3>1. pc' = pc \/ pc' = [pc EXCEPT ![EventThread] = "release"]
      BY DEF SubmitCached, SubmitWaiting, SubmitJob, StartRelease, threads
    <3> QED
      BY <3>1, PipelineAssumption DEF TypeInv, TypeOK, ThreadsTypeOK, Threads
  <2> QED
    BY <2>1, <2>2, <2>3 DEF Busy
<1>2. x = submitted \/ (x # submitted /\ Placed(x))
  <2>1. x = submitted \/ (x # submitted /\ x \in next..(submitted - 1))
    BY <1>1
  <2> QED
    BY <2>1, OpenBefore, Zenon DEF PlacedInv
<1>3. InWorker(x)' <=> InWorker(x)
  BY <1>1 DEF InWorker, Busy
<1>4. CASE SubmitCached
  <2>1. UNCHANGED <<jobs, waiting>> /\ DOMAIN pending' = DOMAIN pending \cup {submitted}
    BY <1>4 DEF SubmitCached, Put
  <2>2. InWaiting(x)' <=> InWaiting(x)
    BY <2>1 DEF InWaiting
  <2>3. x \in DOMAIN pending' <=> x \in DOMAIN pending \/ x = submitted
    BY <2>1
  <2> QED
    BY <1>1, <1>2, <1>3, <2>1, <2>2, <2>3, NotYetPlaced, Zenon DEF Placed
<1>5. CASE SubmitWaiting
  <2>1. /\ UNCHANGED <<jobs, pending>> /\ s0 \in DOMAIN waiting
        /\ waiting' = [waiting EXCEPT ![s0] = Append(@, submitted)]
    BY <1>5 DEF SubmitWaiting
  <2>2. ToSet(waiting'[s0]) = ToSet(waiting[s0]) \cup {submitted}
    <3>1. waiting[s0] \in Seq(Submitted) /\ waiting'[s0] = Append(waiting[s0], submitted)
      BY <2>1, WindowFacts
    <3> QED
      BY <3>1, AppendElements
  <2>3. /\ DOMAIN waiting' = DOMAIN waiting
        /\ \A s \in DOMAIN waiting : s # s0 => waiting'[s] = waiting[s]
    BY <2>1
  <2>4. InWaiting(x)' <=> InWaiting(x) \/ x = submitted
    BY <2>1, <2>2, <2>3 DEF InWaiting
  <2> QED
    BY <1>1, <1>2, <1>3, <2>1, <2>4, NotYetPlaced, Zenon DEF Placed
<1>6. CASE SubmitJob
  <2>1. /\ pending' = pending /\ jobs' = Append(jobs, submitted) /\ s0 \notin DOMAIN waiting
        /\ waiting' = Put(waiting, s0, <<>>)
    BY <1>6 DEF SubmitJob, Lead
  <2>2. ToSet(jobs') = ToSet(jobs) \cup {submitted}
    BY <2>1, WindowFacts, AppendElements
  <2>3. /\ DOMAIN waiting' = DOMAIN waiting \cup {s0} /\ waiting'[s0] = <<>>
        /\ \A s \in DOMAIN waiting : waiting'[s] = waiting[s]
    BY <2>1 DEF Put
  <2>4. ToSet(<<>>) = {}
    BY DEF ToSet
  <2>5. InWaiting(x)' <=> InWaiting(x)
    BY <2>1, <2>3, <2>4 DEF InWaiting
  <2>6. x \in ToSet(jobs') <=> x \in ToSet(jobs) \/ x = submitted
    BY <2>2
  <2> QED
    BY <1>1, <1>2, <1>3, <2>1, <2>5, <2>6, NotYetPlaced, Zenon DEF Placed
<1> QED
  BY <1>4, <1>5, <1>6

LEMMA PlacedTakeJob ==
    ASSUME TypeInv, LeadInv, PlacedInv, [Next]_vars, NEW w \in Workers, TakeJob(w)
    PROVE  PlacedInv'
<1> SUFFICES ASSUME active', ~terminal', NEW x \in next'..(submitted' - 1)
             PROVE  Placed(x)'
  BY Zenon DEF PlacedInv
<1>1. /\ UNCHANGED <<next, submitted, waiting, pending, skipped>> /\ jobs # <<>> /\ jobs' = Tail(jobs)
      /\ pc[w] = "idle" /\ pc' = [pc EXCEPT ![w] = "start"] /\ win' = [win EXCEPT ![w] = Head(jobs)]
  BY DEF TakeJob, session
<1>2. Placed(x)
  BY <1>1, OpenBefore, Zenon DEF PlacedInv
<1>3. \A i, j \in 1..Len(jobs) : jobs[i] = jobs[j] => i = j
  BY DEF LeadInv, OneLeader
<1>4. x \in ToSet(jobs') <=> x \in ToSet(jobs) /\ x # Head(jobs)
  BY <1>1, <1>3, WindowFacts, TailElements
<1>5. Head(jobs) \in ToSet(jobs)
  BY <1>1, WindowFacts DEF ToSet
<1>6. /\ ~Busy(w) /\ Busy(w)' /\ win'[w] = Head(jobs)
      /\ \A k \in Workers : k # w => (Busy(k)' <=> Busy(k)) /\ win'[k] = win[k]
  BY <1>1 DEF TypeInv, TypeOK, ThreadsTypeOK, Threads, Busy
<1>7. InWorker(x)' <=> InWorker(x) \/ x = Head(jobs)
  BY <1>6 DEF InWorker, Busy
<1>8. InWaiting(x)' <=> InWaiting(x)
  BY <1>1 DEF InWaiting
<1> QED
  BY <1>1, <1>2, <1>4, <1>5, <1>7, <1>8, Zenon DEF Placed

\* A worker gives its window up.
LEMMA WorkerDone ==
    ASSUME TypeInv, LeadInv, NEW w \in Workers, pc[w] = "finish", win' = win,
           pc' = [pc EXCEPT ![w] = "release"]
    PROVE  /\ InWorker(win[w])
           /\ \A x : InWorker(x)' <=> InWorker(x) /\ x # win[w]
<1>1. /\ Busy(w) /\ ~Busy(w)' /\ \A k \in Workers : k # w => (Busy(k)' <=> Busy(k))
  BY DEF TypeInv, TypeOK, ThreadsTypeOK, Threads, Busy
<1>2. \A x : InWorker(x)' <=> \E k \in Workers : Busy(k)' /\ win[k] = x
  BY DEF InWorker, Busy
<1> QED
  BY <1>1, <1>2, BusyLeads

LEMMA PlacedFinishVerdict ==
    ASSUME TypeInv, LeadInv, PlacedInv, [Next]_vars, NEW w \in Workers, FinishVerdict(w)
    PROVE  PlacedInv'
<1> SUFFICES ASSUME active', ~terminal', NEW x \in next'..(submitted' - 1)
             PROVE  Placed(x)'
  BY Zenon DEF PlacedInv
<1> DEFINE s0 == sig[win[w]]
<1>1. active /\ ~terminal
  BY OpenBefore
<1>2. /\ UNCHANGED <<next, submitted, jobs, skipped, win>> /\ waiting' = Drop(waiting, s0)
      /\ pc[w] = "finish" /\ pc' = [pc EXCEPT ![w] = "release"]
      /\ pending' = Resolved(win[w], result[w], WaitingFor(s0))
  BY <1>1 DEF FinishVerdict, StartRelease
<1>3. Placed(x)
  BY <1>1, <1>2, Zenon DEF PlacedInv
<1>4. InWorker(win[w]) /\ (InWorker(x)' <=> InWorker(x) /\ x # win[w])
  BY <1>2, WorkerDone
<1>5. /\ x \in WaitingFor(s0) => InWaiting(x)
      /\ InWaiting(x)' <=> InWaiting(x) /\ x \notin WaitingFor(s0)
  BY <1>2, WaitingForIs, WaitingDropped
<1>6. x \in DOMAIN pending' <=> x \in DOMAIN pending \/ x = win[w] \/ x \in WaitingFor(s0)
  BY <1>2 DEF Resolved
<1> QED
  BY <1>2, <1>3, <1>4, <1>5, <1>6, Zenon DEF Placed

LEMMA PlacedSkip ==
    ASSUME TypeInv, LeadInv, PlacedInv, [Next]_vars, NEW w \in Workers,
           SkipPolicyWindow(w) \/ SkipPendingSignatureWindows(w)
    PROVE  PlacedInv'
<1> SUFFICES ASSUME active', ~terminal', NEW x \in next'..(submitted' - 1)
             PROVE  Placed(x)'
  BY Zenon DEF PlacedInv
<1> DEFINE s0 == sig[win[w]]
<1>1. active /\ ~terminal
  BY OpenBefore
<1>2. UNCHANGED <<next, submitted, jobs, pending, win>>
  BY DEF SkipPolicyWindow, SkipPendingSignatureWindows
<1>3. Placed(x)
  BY <1>1, <1>2, Zenon DEF PlacedInv
<1>4. CASE SkipPolicyWindow(w)
  <2>1. /\ waiting' = waiting /\ skipped' = skipped \cup {win[w]}
        /\ pc[w] = "finish" /\ pc' = [pc EXCEPT ![w] = "release"]
    BY <1>4 DEF SkipPolicyWindow, StartRelease
  <2>2. InWorker(win[w]) /\ (InWorker(x)' <=> InWorker(x) /\ x # win[w])
    BY <1>2, <2>1, WorkerDone
  <2>3. InWaiting(x)' <=> InWaiting(x)
    BY <2>1 DEF InWaiting
  <2>4. x \in skipped' <=> x \in skipped \/ x = win[w]
    BY <2>1
  <2> QED
    BY <1>2, <1>3, <2>2, <2>3, <2>4, Zenon DEF Placed
<1>5. CASE SkipPendingSignatureWindows(w)
  <2>1. /\ waiting' = Drop(waiting, s0) /\ skipped' = skipped \cup WaitingFor(s0)
        /\ pc[w] = "skipWaiting" /\ pc' = [pc EXCEPT ![w] = "release"]
    BY <1>5 DEF SkipPendingSignatureWindows, StartRelease
  <2>2. \A k \in Workers : Busy(k)' <=> Busy(k)
    BY <2>1 DEF TypeInv, TypeOK, ThreadsTypeOK, Threads, Busy
  <2>3. InWorker(x)' <=> InWorker(x)
    BY <1>2, <2>2 DEF InWorker, Busy
  <2>4. /\ x \in WaitingFor(s0) => InWaiting(x)
        /\ InWaiting(x)' <=> InWaiting(x) /\ x \notin WaitingFor(s0)
    BY <2>1, WaitingForIs, WaitingDropped
  <2>5. x \in skipped' <=> x \in skipped \/ x \in WaitingFor(s0)
    BY <2>1
  <2> QED
    BY <1>2, <1>3, <2>3, <2>4, <2>5, Zenon DEF Placed
<1> QED
  BY <1>4, <1>5


LEMMA PlacedOtherSteps ==
    ASSUME TypeInv, PlacedInv, [Next]_vars,
           \/ \E n \in 1..MaxBatch : HandleLaunches(n)
           \/ SubmitIgnored \/ BatchDone \/ SessionEnd \/ UNCHANGED vars
           \/ \E t \in Threads : ReleaseStep(t) \/ EnqueueResponses(t)
           \/ \E w \in Workers : CheckActive(w) \/ FinishInactive(w)
           \/ \E w \in Workers, r \in Scores \cup {NoScore} : RunL1(w, r)
           \/ \E c \in Conns : DrainStep(c)
    PROVE  PlacedInv'
<1> USE DEF session, threads, drain, history
<1>0. /\ pc \in [Threads -> Labels] /\ cont \in [Threads -> {"idle", "skipWaiting", "submit"}]
      /\ Workers \subseteq Threads /\ EventThread \in Threads /\ EventThread \notin Workers
      /\ next \in Nat /\ submitted \in Nat
  BY PipelineAssumption DEF TypeInv, TypeOK, ThreadsTypeOK, Threads, SessionTypeOK, WindowsTypeOK
<1>1. ASSUME UNCHANGED <<next, submitted, jobs, waiting, win, pending, skipped>>,
             \A k \in Workers : Busy(k)' <=> Busy(k)
      PROVE  PlacedInv'
  BY <1>1, PlacedStays
<1>2. CASE \E n \in 1..MaxBatch : HandleLaunches(n)
  BY <1>0, <1>1, <1>2 DEF HandleLaunches, Busy
<1>3. CASE SubmitIgnored
  <2>1. ~(active /\ ~terminal)
    BY <1>3, Zenon DEF SubmitIgnored
  <2> QED
    BY <2>1, OpenBefore, Zenon DEF PlacedInv
<1>4. CASE BatchDone
  BY <1>0, <1>1, <1>4 DEF BatchDone, Busy
<1>5. CASE SessionEnd
  BY <1>5, Zenon DEF SessionEnd, PlacedInv
<1>6. CASE UNCHANGED vars
  BY <1>1, <1>6 DEF vars, Busy
<1>7. ASSUME NEW t \in Threads, ReleaseSkip(t)
      PROVE  PlacedInv'
  <2>1. /\ UNCHANGED <<submitted, jobs, waiting, win, pending, pc>>
        /\ next' = next + 1 /\ skipped' = skipped \ {next}
    BY <1>7 DEF ReleaseSkip
  <2>2. \A x \in next'..(submitted' - 1) : x \in next..(submitted - 1) /\ x # next
    BY <1>0, <2>1
  <2> QED
    BY <2>1, <2>2, PlacedStays DEF Busy
<1>8. ASSUME NEW t \in Threads, ReleaseDiscard(t)
      PROVE  PlacedInv'
  <2>1. ~(active /\ ~terminal)
    BY <1>8, Zenon DEF ReleaseDiscard
  <2> QED
    BY <2>1, OpenBefore, Zenon DEF PlacedInv
<1>9. ASSUME NEW t \in Threads, ReleaseApply(t)
      PROVE  PlacedInv'
  <2> DEFINE v == Decide(next, pending[next])
  <2>1. CASE v.suspicious
    <3>1. terminal'
      BY <1>9, <2>1, Zenon DEF ReleaseApply, ReleaseIndex
    <3> QED
      BY <3>1, Zenon DEF PlacedInv
  <2>2. CASE ~v.suspicious
    <3>1. /\ UNCHANGED <<submitted, jobs, waiting, win>> /\ next' = next + 1
      BY <1>9 DEF ReleaseApply
    <3>2. UNCHANGED <<skipped, pc>> /\ pending' = Drop(pending, next)
      BY <1>9, <2>2, Zenon DEF ReleaseApply, ReleaseIndex
    <3>3. DOMAIN pending' = DOMAIN pending \ {next}
      BY <3>2 DEF Drop
    <3>4. \A x \in next'..(submitted' - 1) : x \in next..(submitted - 1) /\ x # next
      BY <1>0, <3>1
    <3> QED
      BY <3>1, <3>2, <3>3, <3>4, PlacedStays DEF Busy
  <2> QED
    BY <2>1, <2>2
<1>10. ASSUME NEW t \in Threads, ReleaseDone(t) \/ EnqueueResponses(t)
       PROVE  PlacedInv'
  <2>1. /\ UNCHANGED <<next, submitted, jobs, waiting, win, pending, skipped>>
        /\ pc[t] \in {"release", "enqueue"}
        /\ pc' = [pc EXCEPT ![t] = cont[t]] \/ pc' = [pc EXCEPT ![t] = "enqueue"]
    BY <1>10 DEF ReleaseDone, EnqueueResponses, Releasing, Unlock
  <2>2. \A k \in Workers : Busy(k)' <=> Busy(k)
    BY <1>0, <2>1 DEF Busy
  <2> QED
    BY <1>1, <2>1, <2>2
<1>11. ASSUME NEW w \in Workers, CheckActive(w)
       PROVE  PlacedInv'
  BY <1>0, <1>1, <1>11 DEF CheckActive, Busy
<1>12. ASSUME NEW w \in Workers, FinishInactive(w)
       PROVE  PlacedInv'
  <2>1. ~active
    BY <1>12, Zenon DEF FinishInactive, SessionLive
  <2> QED
    BY <2>1, OpenBefore, Zenon DEF PlacedInv
<1>13. ASSUME NEW w \in Workers, NEW r, RunL1(w, r)
       PROVE  PlacedInv'
  BY <1>0, <1>1, <1>13 DEF RunL1, Busy
<1>14. ASSUME NEW c \in Conns, DrainStep(c)
       PROVE  PlacedInv'
  BY <1>1, <1>14 DEF DrainStep, Connect, Disconnect, Peek, SendRow, SendFailed, RemoveRow, Busy
<1> QED
  BY <1>2, <1>3, <1>4, <1>5, <1>6, <1>7, <1>8, <1>9, <1>10, <1>11, <1>12, <1>13, <1>14 DEF ReleaseStep

LEMMA PlacedNext ==
    ASSUME TypeInv, LeadInv, PlacedInv, [Next]_vars
    PROVE  PlacedInv'
<1>1. CASE EventStep
  BY <1>1, PlacedOtherSteps, PlacedSubmit DEF EventStep
<1>2. ASSUME NEW t \in Threads, ReleaseStep(t) \/ EnqueueResponses(t)
      PROVE  PlacedInv'
  BY <1>2, PlacedOtherSteps
<1>3. ASSUME NEW w \in Workers, InferenceStep(w)
      PROVE  PlacedInv'
  <2>1. CASE CheckActive(w) \/ FinishInactive(w)
    BY <2>1, PlacedOtherSteps
  <2>2. CASE \E r \in Scores \cup {NoScore} : RunL1(w, r)
    BY <2>2, PlacedOtherSteps
  <2> QED
    BY <1>3, <2>1, <2>2, PlacedTakeJob, PlacedFinishVerdict, PlacedSkip DEF InferenceStep
<1>4. ASSUME NEW c \in Conns, DrainStep(c)
      PROVE  PlacedInv'
  BY <1>4, PlacedOtherSteps
<1>5. CASE SessionEnd \/ UNCHANGED vars
  BY <1>5, PlacedOtherSteps
<1> QED
  BY <1>1, <1>2, <1>3, <1>4, <1>5 DEF Next, AwaitMessage

\* A placed window is in exactly one entry of Places.
LEMMA PlacedIsOnePlace ==
    ASSUME NEW x, Placed(x)
    PROVE  \E i \in 1..5 : Places(x)[i] /\ \A j \in 1..5 \ {i} : ~Places(x)[j]
<1> DEFINE J == x \in ToSet(jobs)
           W == InWorker(x)
           Q == InWaiting(x)
           P == x \in DOMAIN pending
           K == x \in skipped
<1>1. /\ Places(x)[1] <=> J
      /\ Places(x)[2] <=> W
      /\ Places(x)[3] <=> Q
      /\ Places(x)[4] <=> P
      /\ Places(x)[5] <=> K
  BY DEF Places
<1>3. \/ (J /\ ~W /\ ~Q /\ ~P /\ ~K)
      \/ (~J /\ W /\ ~Q /\ ~P /\ ~K)
      \/ (~J /\ ~W /\ Q /\ ~P /\ ~K)
      \/ (~J /\ ~W /\ ~Q /\ P /\ ~K)
      \/ (~J /\ ~W /\ ~Q /\ ~P /\ K)
  BY Zenon DEF Placed
<1> HIDE DEF J, W, Q, P, K
<1>4. CASE J /\ ~W /\ ~Q /\ ~P /\ ~K
  <2>1. Places(x)[1] /\ ~Places(x)[2] /\ ~Places(x)[3] /\ ~Places(x)[4] /\ ~Places(x)[5]
    BY <1>1, <1>4, Zenon
  <2>2. \A j \in 1..5 \ {1} : j = 2 \/ j = 3 \/ j = 4 \/ j = 5
    OBVIOUS
  <2>3. \A j \in 1..5 \ {1} : ~Places(x)[j]
    BY <2>1, <2>2
  <2>4. 1 \in 1..5 /\ Places(x)[1]
    BY <2>1
  <2> QED
    BY <2>3, <2>4
<1>5. CASE ~J /\ W /\ ~Q /\ ~P /\ ~K
  <2>1. ~Places(x)[1] /\ Places(x)[2] /\ ~Places(x)[3] /\ ~Places(x)[4] /\ ~Places(x)[5]
    BY <1>1, <1>5, Zenon
  <2>2. \A j \in 1..5 \ {2} : j = 1 \/ j = 3 \/ j = 4 \/ j = 5
    OBVIOUS
  <2>3. \A j \in 1..5 \ {2} : ~Places(x)[j]
    BY <2>1, <2>2
  <2>4. 2 \in 1..5 /\ Places(x)[2]
    BY <2>1
  <2> QED
    BY <2>3, <2>4
<1>6. CASE ~J /\ ~W /\ Q /\ ~P /\ ~K
  <2>1. ~Places(x)[1] /\ ~Places(x)[2] /\ Places(x)[3] /\ ~Places(x)[4] /\ ~Places(x)[5]
    BY <1>1, <1>6, Zenon
  <2>2. \A j \in 1..5 \ {3} : j = 1 \/ j = 2 \/ j = 4 \/ j = 5
    OBVIOUS
  <2>3. \A j \in 1..5 \ {3} : ~Places(x)[j]
    BY <2>1, <2>2
  <2>4. 3 \in 1..5 /\ Places(x)[3]
    BY <2>1
  <2> QED
    BY <2>3, <2>4
<1>7. CASE ~J /\ ~W /\ ~Q /\ P /\ ~K
  <2>1. ~Places(x)[1] /\ ~Places(x)[2] /\ ~Places(x)[3] /\ Places(x)[4] /\ ~Places(x)[5]
    BY <1>1, <1>7, Zenon
  <2>2. \A j \in 1..5 \ {4} : j = 1 \/ j = 2 \/ j = 3 \/ j = 5
    OBVIOUS
  <2>3. \A j \in 1..5 \ {4} : ~Places(x)[j]
    BY <2>1, <2>2
  <2>4. 4 \in 1..5 /\ Places(x)[4]
    BY <2>1
  <2> QED
    BY <2>3, <2>4
<1>8. CASE ~J /\ ~W /\ ~Q /\ ~P /\ K
  <2>1. ~Places(x)[1] /\ ~Places(x)[2] /\ ~Places(x)[3] /\ ~Places(x)[4] /\ Places(x)[5]
    BY <1>1, <1>8, Zenon
  <2>2. \A j \in 1..5 \ {5} : j = 1 \/ j = 2 \/ j = 3 \/ j = 4
    OBVIOUS
  <2>3. \A j \in 1..5 \ {5} : ~Places(x)[j]
    BY <2>1, <2>2
  <2>4. 5 \in 1..5 /\ Places(x)[5]
    BY <2>1
  <2> QED
    BY <2>3, <2>4
<1> QED
  BY <1>3, <1>4, <1>5, <1>6, <1>7, <1>8, Zenon

\* Until its index is released or the session is decided or over, every submitted window
\* is in exactly one place, whatever the order in which any number of workers finish:
\* no verdict is awaited from a window that nobody holds, none is produced twice.
THEOREM WindowAccountedHolds == Spec => []WindowAccounted
<1>1. Init => PlacedInv
  <2> SUFFICES ASSUME Init PROVE \A x \in next..(submitted - 1) : Placed(x)
    BY Zenon DEF PlacedInv
  <2>1. next = 0 /\ submitted = 0
    BY DEF Init
  <2> QED
    BY <2>1
<1>2. TypeInv /\ LeadInv /\ PlacedInv /\ [Next]_vars => PlacedInv'
  BY PlacedNext
<1>3. PlacedInv => WindowAccounted
  BY PlacedIsOnePlace, Zenon DEF PlacedInv, WindowAccounted
<1> QED
  BY <1>1, <1>2, <1>3, LeadInvAlways, PTL DEF Spec
================================================================================
