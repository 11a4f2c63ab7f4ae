------------------------------ MODULE L0Scheduler ------------------------------
(***************************************************************************)
(* The L0 window scheduler, src/gpu_sentry/sass/l0_windows.py: per CUDA    *)
(* stream a rolling deque of ready launches under a token budget.  A       *)
(* launch that would overflow the budget first emits the current deque as  *)
(* a window, then enters, and the oldest launches are evicted until the    *)
(* budget holds again.  The scheduler keeps the cost, the launches per     *)
(* kernel and the latest ratio per kernel incrementally, and numbers the   *)
(* windows of all streams with one counter.                                *)
(*                                                                         *)
(* Kernel ids are numbers (only equality and order matter), ratios are     *)
(* integer percentages.                                                    *)
(***************************************************************************)
EXTENDS Integers, Sequences, FiniteSets, SequencesExt, Functions

CONSTANTS
    Streams,       \* (pid, device, stream) groups
    Launches,      \* what a launch can look like: [kernel, cost, ratio]
    Budget,        \* windowing.*_content_tokens
    MaxLaunches    \* bound: launches of a session

ASSUME SchedulerAssumption ==
    /\ Budget \in Nat \ {0} /\ MaxLaunches \in Nat
    /\ Launches \subseteq [kernel : Nat, cost : Int, ratio : Int]

VARIABLES
    state,         \* StreamState of each stream
    order,         \* streams in the order of their first launch (dict order)
    windows,       \* windows emitted; their position is next_window_index + 1
    flushed,       \* the offline pipeline called flush()
    seen           \* history: launches accepted per stream, in order

vars == <<state, order, windows, flushed, seen>>

Get(f, k, default) == IF k \in DOMAIN f THEN f[k] ELSE default
Set(f, k, v) == [x \in DOMAIN f \cup {k} |-> IF x = k THEN v ELSE f[x]]
Del(f, k) == [x \in DOMAIN f \ {k} |-> f[x]]

NewStream ==
    [launches |-> <<>>, cost |-> 0, counts |-> <<>>, ratios |-> <<>>,
     first |-> <<>>, occurrences |-> <<>>, evicted |-> 0, unready |-> 0]

\* A ready launch in a deque.
Row == [kernel : Nat, cost : 1..Budget, ratio : 0..100]

\* An emitted window.
L0Window ==
    [stream : Streams, launches : Seq(Row), cost : Nat, maxRatio : 0..100,
     signature : [kernels : SUBSET Nat, top3 : Seq(Nat)],
     occurrence : Nat, source : Nat, upto : Nat,
     trigger : {"token_budget_would_overflow", "offline_final_flush"}]

TypeOK ==
    /\ \A s \in Streams :
          /\ state[s].launches \in Seq(Row) /\ state[s].cost \in 0..Budget
          /\ state[s].evicted \in Nat /\ state[s].unready \in Nat
    /\ order \in Seq(Streams) /\ IsInjective(order)
    /\ flushed \in BOOLEAN
    /\ seen \in [Streams -> Seq(Row)]
    /\ windows \in Seq(L0Window)

Init ==
    /\ state = [s \in Streams |-> NewStream]
    /\ order = <<>> /\ windows = <<>>
    /\ flushed = FALSE
    /\ seen = [s \in Streams |-> <<>>]

-----------------------------------------------------------------------------

\* ready_launch_attributes: positive cost required, the ratio is clamped to [0, 1].
Ready(l) == l.cost > 0

Clamp(r) == IF r < 0 THEN 0 ELSE IF r > 100 THEN 100 ELSE r

\* The sort key of top3_kernels: by descending count, then by id.
RanksBefore(counts, a, b) == counts[a] > counts[b] \/ (counts[a] = counts[b] /\ a < b)

\* The first of the kernels ks in that order.
First(counts, ks) == CHOOSE k \in ks : \A other \in ks \ {k} : RanksBefore(counts, k, other)

\* top3_kernels: the first three of the sorted counts, or all of them; composition_signature.
Top3(counts) ==
    LET all == DOMAIN counts
        a   == First(counts, all)
        b   == First(counts, all \ {a})
        c   == First(counts, all \ {a, b})
    IN  IF all \ {a} = {} THEN <<a>> ELSE IF all \ {a, b} = {} THEN <<a, b>> ELSE <<a, b, c>>
Signature(counts) == [kernels |-> DOMAIN counts, top3 |-> Top3(counts)]

\* _candidate_window and _assign_window_id for stream s in state st; index is the
\* window's number.  upto records how many launches the stream had accepted.
Window(s, st, index, trigger) ==
    LET sg == Signature(st.counts)
    IN  [stream |-> s, launches |-> st.launches, cost |-> st.cost, signature |-> sg,
         maxRatio |-> Max({st.ratios[k] : k \in DOMAIN st.counts}),
         occurrence |-> Get(st.occurrences, sg, 0),
         source |-> Get(st.first, sg, index),
         upto |-> Len(seen[s]),
         trigger |-> trigger]

\* What emitting window w changes in the stream's signature tables.
Emitted(st, w) ==
    [st EXCEPT !.occurrences = Set(@, w.signature, w.occurrence + 1),
               !.first = Set(@, w.signature, w.source)]

\* The launch enters the deque.
Enter(st, l) ==
    [st EXCEPT !.launches = Append(@, l),
               !.cost = @ + l.cost,
               !.counts = Set(@, l.kernel, Get(@, l.kernel, 0) + 1),
               !.ratios = Set(@, l.kernel, l.ratio)]

\* Mutant: a kernel whose last launch is evicted keeps its entry.
DecrementToZero(counts, k) == Set(counts, k, counts[k] - 1)

\* kernel_counts[k] -= 1, and the entry goes when nothing is left.
Decrement(counts, k) ==
    IF counts[k] =< 1 THEN Del(counts, k) ELSE Set(counts, k, counts[k] - 1)

\* One iteration of _evict_to_budget, which stops as soon as the budget holds.
EvictOne(st) ==
    IF st.cost =< Budget THEN st
    ELSE LET k      == Head(st.launches).kernel
             counts == Decrement(st.counts, k)
         IN  [st EXCEPT !.launches = Tail(@),
                        !.cost = @ - Head(st.launches).cost,
                        !.counts = counts,
                        !.ratios = IF k \in DOMAIN counts THEN @ ELSE Del(@, k),
                        !.evicted = @ + 1]

\* The stream after each iteration; the deque is empty after as many as it has launches.
Evictions(st) ==
    LET after[n \in 0..Len(st.launches)] == IF n = 0 THEN st ELSE EvictOne(after[n - 1])
    IN  after

EvictToBudget(st) == Evictions(st)[Len(st.launches)]

\* Launches of the session so far.
Total == SumFunction([s \in Streams |-> Len(seen[s]) + state[s].unready])

\* self.states.setdefault(key, StreamState(...))
Register(s) == IF Contains(order, s) THEN order ELSE Append(order, s)

\* add_launch: not ready, or larger than the whole budget.
AddUnready(s, l) ==
    /\ ~flushed /\ Total < MaxLaunches
    /\ ~Ready(l) \/ l.cost > Budget
    /\ state' = [state EXCEPT ![s].unready = @ + 1]
    /\ order' = Register(s)
    /\ UNCHANGED <<windows, flushed, seen>>

\* Mutant: a window is emitted only once the budget is used up.
OverflowsLate(st, l) == st.launches # <<>> /\ st.cost >= Budget

\* The launch does not fit any more.
Overflows(st, l) == st.launches # <<>> /\ st.cost + l.cost > Budget

\* add_launch of a ready launch: emit if it would overflow, enter, evict.
AddLaunch(s, l) ==
    /\ ~flushed /\ Total < MaxLaunches
    /\ Ready(l) /\ l.cost =< Budget
    /\ LET st   == state[s]
           row  == [l EXCEPT !.ratio = Clamp(@)]
           full == Overflows(st, l)
           w    == Window(s, st, Len(windows), "token_budget_would_overflow")
       IN  /\ windows' = IF full THEN Append(windows, w) ELSE windows
           /\ state' = [state EXCEPT
                ![s] = EvictToBudget(Enter(IF full THEN Emitted(st, w) ELSE st, row))]
           /\ seen' = [seen EXCEPT ![s] = Append(@, row)]
    /\ order' = Register(s)
    /\ UNCHANGED flushed

\* The windows once flush() has come to the n-th stream, in dict order: one more for a stream
\* that holds launches.
Flushes ==
    LET after[n \in 0..Len(order)] ==
          IF n = 0 THEN windows
          ELSE LET ws == after[n - 1]
                   s  == order[n]
               IN  IF state[s].launches = <<>> THEN ws
                   ELSE Append(ws, Window(s, state[s], Len(ws), "offline_final_flush"))
    IN  after

\* flush (offline only).
Flush ==
    /\ ~flushed
    /\ windows' = Flushes[Len(order)]
    /\ state' = [s \in Streams |->
          IF state[s].launches = <<>> THEN state[s]
          ELSE LET i == CHOOSE j \in (Len(windows) + 1)..Len(windows') : windows'[j].stream = s
               IN  Emitted(state[s], windows'[i])]
    /\ flushed' = TRUE
    /\ UNCHANGED <<order, seen>>

\* build_l0_windows returns; the scheduler is not used again.
Returned == flushed /\ UNCHANGED vars

Next ==
    \/ \E s \in Streams, l \in Launches : AddUnready(s, l) \/ AddLaunch(s, l)
    \/ Flush \/ Returned

Spec == Init /\ [][Next]_vars

-----------------------------------------------------------------------------
(* Properties. *)

CostOf(ls) ==
    LET upTo[n \in 0..Len(ls)] == IF n = 0 THEN 0 ELSE upTo[n - 1] + ls[n].cost
    IN  upTo[Len(ls)]
KernelsOf(ls) == {ls[i].kernel : i \in DOMAIN ls}
CountOf(ls, k) == Cardinality({i \in DOMAIN ls : ls[i].kernel = k})
LatestRatio(ls, k) == ls[Max({i \in DOMAIN ls : ls[i].kernel = k})].ratio

\* a ranks before b among the kernels of ls.
Beats(ls, a, b) ==
    CountOf(ls, a) > CountOf(ls, b) \/ (CountOf(ls, a) = CountOf(ls, b) /\ a < b)

\* signature_source_window_id names the first window of the stream with the signature,
\* signature_occurrence_index counts the earlier ones.
SignatureSource(i) ==
    LET same == {j \in 1..i : /\ windows[j].stream = windows[i].stream
                              /\ windows[j].signature = windows[i].signature}
    IN  /\ windows[i].source = Min(same) - 1
        /\ windows[i].occurrence = Cardinality(same) - 1

\* An emitted window describes its own launches: the signature that keys the online
\* prediction cache, the cost and the ratio are those of the launches it carries, and it points
\* to the first window of its stream that has the signature.
WindowDescribesLaunches ==
    \A i \in DOMAIN windows :
        LET w == windows[i]  ls == w.launches  top == w.signature.top3
        IN  /\ ls # <<>> /\ w.cost = CostOf(ls) /\ w.cost =< Budget
            /\ w.signature.kernels = KernelsOf(ls)
            /\ Len(top) = IF Cardinality(KernelsOf(ls)) < 3 THEN Cardinality(KernelsOf(ls)) ELSE 3
            /\ IsSorted(top, LAMBDA a, b : Beats(ls, a, b))
            /\ \A k \in KernelsOf(ls) \ ToSet(top) : Beats(ls, top[Len(top)], k)
            /\ w.maxRatio = Max({LatestRatio(ls, k) : k \in KernelsOf(ls)})
            /\ SignatureSource(i)

\* Positions of the stream's accepted launches that a run of launches ending at upto covers.
Covers(ls, upto) == (upto - Len(ls) + 1)..upto

\* Every accepted launch is in a window emitted before or still in the deque, and after flush()
\* it is in some window.
LaunchesCovered ==
    \A s \in Streams :
        LET inWindows == UNION {Covers(windows[i].launches, windows[i].upto) :
                                i \in {j \in DOMAIN windows : windows[j].stream = s}}
            inDeque == Covers(state[s].launches, Len(seen[s]))
        IN  1..Len(seen[s]) \subseteq inWindows \cup (IF flushed THEN {} ELSE inDeque)

\* A window is a contiguous run of its stream, and an online window is full: the launch
\* that triggered it does not fit.
ContiguousAndFull ==
    \A i \in DOMAIN windows :
        LET w == windows[i]
        IN  /\ w.launches = SubSeq(seen[w.stream], w.upto - Len(w.launches) + 1, w.upto)
            /\ w.trigger = "token_budget_would_overflow" =>
                  w.cost + seen[w.stream][w.upto + 1].cost > Budget

\* No launch escapes classification, between the windows or at the end of a stream, and no
\* window is smaller than it has to be (L0Scheduler.add_launch, flush).
NoLaunchUnseen == LaunchesCovered /\ ContiguousAndFull
================================================================================
