------------------------------- MODULE EventQueue ------------------------------
(***************************************************************************)
(* What the telemetry ring promises its users: a bounded first-in first-   *)
(* out queue that is open from initialisation to shutdown.  An offer the   *)
(* queue does not take leaves it unchanged, and a take returns a prefix of *)
(* what was accepted, in order.                                            *)
(***************************************************************************)
EXTENDS Integers, Sequences

CONSTANTS Event, Capacity, BatchSize

VARIABLES open, queue, taken

qvars == <<open, queue, taken>>

QInit == open = FALSE /\ queue = <<>> /\ taken = <<>>

Open == ~open /\ open' = TRUE /\ queue' = <<>> /\ UNCHANGED taken

\* Some event is added at the end.
Offer ==
    /\ open /\ Len(queue) < Capacity
    /\ Len(queue') = Len(queue) + 1
    /\ queue'[Len(queue')] \in Event
    /\ queue = SubSeq(queue', 1, Len(queue))
    /\ UNCHANGED <<open, taken>>

Take(n) ==
    /\ open /\ n =< Len(queue)
    /\ n = Len(queue) \/ n = BatchSize
    /\ taken' = taken \o SubSeq(queue, 1, n)
    /\ queue' = SubSeq(queue, n + 1, Len(queue))
    /\ UNCHANGED open

Close == open /\ open' = FALSE /\ queue' = <<>> /\ UNCHANGED taken

QNext ==
    \/ Open \/ Close \/ Offer
    \/ \E n \in 1..BatchSize : Take(n)

QSpec == QInit /\ [][QNext]_qvars
================================================================================
