----------------------------- MODULE TelemetryRing -----------------------------
(***************************************************************************)
(* The hook's telemetry ring (native/src/telemetry.cc), the Go client that *)
(* drains it (native/go/client/main.go: runClient, drainLoop) and the      *)
(* library constructor and destructor around them                          *)
(* (native/src/telemetry_bridge.cc).                                       *)
(*                                                                         *)
(* Producers are application threads inside a hooked CUDA call: they only  *)
(* try the mutex and drop their event when it is taken.  Client and Loader *)
(* block on it.  A critical section is two steps, lock and body, so that a *)
(* producer can find the mutex held.  A code event owns a heap copy of the *)
(* code, identified by the event's sequence number; free() removes it from *)
(* heap.                                                                   *)
(***************************************************************************)
EXTENDS Integers, Sequences, FiniteSets

CONSTANTS
    Producers, Client, Loader,
    Capacity,      \* ring_capacity, at least 1
    BatchSize,     \* clientConfig.batchSize
    MaxEvents,     \* bound: events the application produces
    Free, Nil

Events == [kind : {"code", "launch"}, seq : Nat \ {0}, tid : Producers]

ASSUME RingAssumption ==
    /\ Capacity \in Nat \ {0}
    /\ BatchSize \in Nat \ {0}
    /\ MaxEvents \in Nat
    /\ Client \notin Producers /\ Loader \notin Producers /\ Client # Loader
    /\ Free \notin Producers \cup {Client, Loader}
    /\ Nil \notin Events

VARIABLES
    initialized, slots, head, tail, count,   \* ring_*
    nextSequence, dropped, mutex,
    ppc, ev,             \* producers: label and the event being pushed
    cpc, batch, pos,     \* client: label, popped events, events of it written
    stop, lpc,           \* the stop channel, the loader's label
    heap,                \* live heap copies
    attempts, popped, discarded, sent   \* history

ring     == <<initialized, slots, head, tail, count>>
client   == <<cpc, batch, pos>>
vars == <<ring, nextSequence, dropped, mutex, ppc, ev, client, stop, lpc, heap,
          attempts, popped, discarded, sent>>

Index  == 0..(Capacity - 1)

TypeOK ==
    /\ initialized \in BOOLEAN
    /\ slots \in [Index -> Events \cup {Nil}]
    /\ head \in Index /\ tail \in Index /\ count \in 0..Capacity
    /\ nextSequence \in Nat \ {0} /\ dropped \in Nat
    /\ mutex \in Producers \cup {Client, Loader, Free}
    /\ ppc \in [Producers -> {"idle", "push", "locked"}]
    /\ ev \in [Producers -> Events \cup {Nil}]
    /\ cpc \in {"absent", "unstarted", "dial", "dialling", "handshake", "pause", "poll", "stats",
                "statsLocked", "statsWrite", "pop", "popLocked", "write", "done"}
    /\ batch \in Seq(Events) /\ pos \in 0..Len(batch)
    /\ stop \in BOOLEAN
    /\ lpc \in {"load", "create", "running", "stopping", "shutdown", "locked", "done"}
    /\ heap \subseteq Nat \ {0}
    /\ attempts \in Nat /\ discarded \in Nat
    /\ popped \in Seq(Events) /\ sent \in Seq(Events)

Slot(i) == (head + i) % Capacity

\* Mutant: the index stops at the last slot.
AdvanceNoWrap(i) == IF i + 1 = Capacity THEN i ELSE i + 1

Advance(i) == (i + 1) % Capacity

Full == count = Capacity

\* The heap copies the events of a set own.
Copies(E) == {e.seq : e \in {x \in E : x.kind = "code"}}

Init ==
    /\ initialized = FALSE /\ slots = [i \in Index |-> Nil]
    /\ head = 0 /\ tail = 0 /\ count = 0
    /\ nextSequence = 1 /\ dropped = 0 /\ mutex = Free
    /\ ppc = [p \in Producers |-> "idle"] /\ ev = [p \in Producers |-> Nil]
    /\ cpc = "absent" /\ batch = <<>> /\ pos = 0
    /\ stop = FALSE /\ lpc = "load"
    /\ heap = {}
    /\ attempts = 0 /\ popped = <<>> /\ discarded = 0 /\ sent = <<>>

-----------------------------------------------------------------------------
(* Producers: sg_enqueue_code and sg_enqueue_kernel_launch. *)

\* sg_enqueue_code: malloc of the copy fails, the event is only counted.
CopyFails(p) ==
    /\ ppc[p] = "idle" /\ attempts < MaxEvents
    /\ attempts' = attempts + 1
    /\ dropped' = dropped + 1
    /\ UNCHANGED <<ring, nextSequence, mutex, ppc, ev, client, stop, lpc, heap, popped, discarded, sent>>

\* The copy is made and fill_common takes the next sequence number, before the mutex.
Prepare(p, kind) ==
    /\ ppc[p] = "idle" /\ attempts < MaxEvents
    /\ attempts' = attempts + 1
    /\ ev' = [ev EXCEPT ![p] = [kind |-> kind, seq |-> nextSequence, tid |-> p]]
    /\ heap' = IF kind = "code" THEN heap \cup {nextSequence} ELSE heap
    /\ nextSequence' = nextSequence + 1
    /\ ppc' = [ppc EXCEPT ![p] = "push"]
    /\ UNCHANGED <<ring, dropped, mutex, client, stop, lpc, popped, discarded, sent>>

\* Mutant: count_drop is forgotten.
DropEventUncounted(p) ==
    /\ dropped' = dropped
    /\ heap' = heap \ Copies({ev[p]})
    /\ ev' = [ev EXCEPT ![p] = Nil]
    /\ ppc' = [ppc EXCEPT ![p] = "idle"]

\* The event is not taken: count_drop, and the enqueue function frees the copy.
DropEvent(p) ==
    /\ dropped' = dropped + 1
    /\ heap' = heap \ Copies({ev[p]})
    /\ ev' = [ev EXCEPT ![p] = Nil]
    /\ ppc' = [ppc EXCEPT ![p] = "idle"]

\* push_event: trylock fails.
TryLockFails(p) ==
    /\ ppc[p] = "push" /\ mutex # Free
    /\ DropEvent(p)
    /\ UNCHANGED <<ring, nextSequence, mutex, client, stop, lpc, attempts, popped, discarded, sent>>

TryLock(p) ==
    /\ ppc[p] = "push" /\ mutex = Free
    /\ mutex' = p
    /\ ppc' = [ppc EXCEPT ![p] = "locked"]
    /\ UNCHANGED <<ring, nextSequence, dropped, ev, client, stop, lpc, heap,
                   attempts, popped, discarded, sent>>

\* push_event: not initialised, or full.
PushRejected(p) ==
    /\ ppc[p] = "locked"
    /\ ~initialized \/ Full
    /\ mutex' = Free
    /\ DropEvent(p)
    /\ UNCHANGED <<ring, nextSequence, client, stop, lpc, attempts, popped, discarded, sent>>

\* push_event: the event is stored at the tail; the ring owns its copy now.
PushStored(p) ==
    /\ ppc[p] = "locked"
    /\ initialized /\ ~Full
    /\ slots' = [slots EXCEPT ![tail] = ev[p]]
    /\ tail' = Advance(tail)
    /\ count' = count + 1
    /\ mutex' = Free
    /\ ev' = [ev EXCEPT ![p] = Nil]
    /\ ppc' = [ppc EXCEPT ![p] = "idle"]
    /\ UNCHANGED <<initialized, head, nextSequence, dropped, client, stop, lpc, heap,
                   attempts, popped, discarded, sent>>

-----------------------------------------------------------------------------
(* The Go client: runClient and drainLoop. *)

\* sg_go_start, run by the detached thread the constructor created.
StartClient ==
    /\ cpc = "unstarted"
    /\ cpc' = "dial"
    /\ UNCHANGED <<ring, nextSequence, dropped, mutex, ppc, ev, batch, pos, stop, lpc, heap,
                   attempts, popped, discarded, sent>>

\* Mutant: drainLoop never looks at the stop channel.
StopSeenWhenDialling == stop /\ cpc # "poll"

\* select on the stop channel.
StopSeen == stop

\* Both loops look at the stop channel first, and the pause before a redial waits for it.
ClientStops ==
    /\ cpc \in {"dial", "pause", "poll"} /\ StopSeen
    /\ cpc' = "done"
    /\ UNCHANGED <<ring, nextSequence, dropped, mutex, ppc, ev, batch, pos, stop, lpc, heap,
                   attempts, popped, discarded, sent>>

\* A round of runClient, or sleepOrStop when its second is over.
ClientDials ==
    /\ cpc \in {"dial", "pause"} /\ ~StopSeen
    /\ cpc' = IF cpc = "dial" THEN "dialling" ELSE "dial"
    /\ UNCHANGED <<ring, nextSequence, dropped, mutex, ppc, ev, batch, pos, stop, lpc, heap,
                   attempts, popped, discarded, sent>>

\* The dial ends, with a connection or an error, after a second at the latest.
Dialled(ok) ==
    /\ cpc = "dialling"
    /\ cpc' = IF ok THEN "handshake" ELSE "pause"
    /\ UNCHANGED <<ring, nextSequence, dropped, mutex, ppc, ev, batch, pos, stop, lpc, heap,
                   attempts, popped, discarded, sent>>

\* sendHandshake writes; a failure, or no memory for drainLoop's buffer, ends the connection.
Handshake(ok) ==
    /\ cpc = "handshake"
    /\ cpc' = IF ok THEN "poll" ELSE "pause"
    /\ UNCHANGED <<ring, nextSequence, dropped, mutex, ppc, ev, batch, pos, stop, lpc, heap,
                   attempts, popped, discarded, sent>>

\* A round of drainLoop: when a second has passed it reports statistics, then it pops.
Poll(next) ==
    /\ cpc = "poll" /\ ~StopSeen
    /\ cpc' = next
    /\ UNCHANGED <<ring, nextSequence, dropped, mutex, ppc, ev, batch, pos, stop, lpc, heap,
                   attempts, popped, discarded, sent>>

\* sg_ring_stats and sg_ring_pop_batch wait for the mutex ...
ClientLock ==
    /\ cpc \in {"stats", "pop"} /\ mutex = Free
    /\ mutex' = Client
    /\ cpc' = IF cpc = "pop" THEN "popLocked" ELSE "statsLocked"
    /\ UNCHANGED <<ring, nextSequence, dropped, ppc, ev, batch, pos, stop, lpc, heap,
                   attempts, popped, discarded, sent>>

\* ... sg_ring_stats reads ring_count and unlocks; the report is written after that.
ReadStats ==
    /\ cpc = "statsLocked"
    /\ mutex' = Free
    /\ cpc' = "statsWrite"
    /\ UNCHANGED <<ring, nextSequence, dropped, ppc, ev, batch, pos, stop, lpc, heap,
                   attempts, popped, discarded, sent>>

\* The report is written; a failure ends the connection.
WriteStats(ok) ==
    /\ cpc = "statsWrite"
    /\ cpc' = IF ok THEN "pop" ELSE "pause"
    /\ UNCHANGED <<ring, nextSequence, dropped, mutex, ppc, ev, batch, pos, stop, lpc, heap,
                   attempts, popped, discarded, sent>>

\* sg_ring_pop_batch on an empty or uninitialised ring: the client sleeps and polls.
PopNothing ==
    /\ cpc = "popLocked"
    /\ ~initialized \/ count = 0
    /\ mutex' = Free
    /\ cpc' = "poll"
    /\ UNCHANGED <<ring, nextSequence, dropped, ppc, ev, batch, pos, stop, lpc, heap,
                   attempts, popped, discarded, sent>>

\* Mutant: the batch is filled from its end.
OldestReversed(n) == [i \in 1..n |-> slots[Slot(n - i)]]

\* The first n queued events.
Oldest(n) == [i \in 1..n |-> slots[Slot(i - 1)]]

\* sg_ring_pop_batch: the oldest events move to the client, with their copies.
PopBatch ==
    /\ cpc = "popLocked"
    /\ initialized /\ count # 0
    /\ LET n   == IF count < BatchSize THEN count ELSE BatchSize
           out == Oldest(n)
       IN  /\ batch' = out
           /\ popped' = popped \o out
           /\ slots' = [i \in Index |-> IF \E k \in 0..(n - 1) : i = Slot(k) THEN Nil ELSE slots[i]]
           /\ head' = (head + n) % Capacity
           /\ count' = count - n
    /\ pos' = 0
    /\ mutex' = Free
    /\ cpc' = "write"
    /\ UNCHANGED <<initialized, tail, nextSequence, dropped, ppc, ev, stop, lpc, heap,
                   attempts, discarded, sent>>

\* convertEvent copies the event out of the batch; writeEnvelope sends it.
WriteEvent ==
    /\ cpc = "write" /\ pos < Len(batch)
    /\ sent' = Append(sent, batch[pos + 1])
    /\ pos' = pos + 1
    /\ UNCHANGED <<ring, nextSequence, dropped, mutex, ppc, ev, cpc, batch, stop, lpc, heap,
                   attempts, popped, discarded>>

\* sg_ring_release_batch frees the copies of the whole batch: at its end, or when a
\* write fails, which loses the events not yet written.
ReleaseBatch(next) ==
    /\ cpc = "write"
    /\ IF pos = Len(batch) THEN next = "poll" ELSE next = "pause"
    /\ heap' = heap \ Copies({batch[i] : i \in 1..Len(batch)})
    /\ batch' = <<>> /\ pos' = 0
    /\ cpc' = next
    /\ UNCHANGED <<ring, nextSequence, dropped, mutex, ppc, ev, stop, lpc,
                   attempts, popped, discarded, sent>>

-----------------------------------------------------------------------------
(* The loader: telemetry_constructor and telemetry_destructor. *)

\* sg_telemetry_init, with its whole critical section in one step.
InitRing ==
    /\ lpc = "load" /\ mutex = Free
    /\ initialized' = TRUE
    /\ head' = 0 /\ tail' = 0 /\ count' = 0
    /\ lpc' = "create"
    /\ UNCHANGED <<slots, nextSequence, dropped, mutex, ppc, ev, client, stop, heap,
                   attempts, popped, discarded, sent>>

\* calloc fails: nothing is started, every event is dropped.
InitRingFails ==
    /\ lpc = "load" /\ mutex = Free
    /\ lpc' = "done"
    /\ UNCHANGED <<ring, nextSequence, dropped, mutex, ppc, ev, client, stop, heap,
                   attempts, popped, discarded, sent>>

\* pthread_create; when it fails the library goes on without a client (telemetry_started).
CreateClient(ok) ==
    /\ lpc = "create"
    /\ lpc' = "running"
    /\ cpc' = IF ok THEN "unstarted" ELSE "absent"
    /\ UNCHANGED <<ring, nextSequence, dropped, mutex, ppc, ev, batch, pos, stop, heap,
                   attempts, popped, discarded, sent>>

\* sg_go_stop: closes the channel if the client is started; a client that is not there, or has
\* not run sg_go_start yet, is not waited for.
GoStop ==
    /\ lpc = "running"
    /\ stop' = (cpc \notin {"absent", "unstarted"})
    /\ lpc' = IF cpc \in {"absent", "unstarted"} THEN "shutdown" ELSE "stopping"
    /\ UNCHANGED <<ring, nextSequence, dropped, mutex, ppc, ev, client, heap,
                   attempts, popped, discarded, sent>>

ClientDone ==
    /\ lpc = "stopping" /\ cpc = "done"
    /\ lpc' = "shutdown"
    /\ UNCHANGED <<ring, nextSequence, dropped, mutex, ppc, ev, client, stop, heap,
                   attempts, popped, discarded, sent>>

ShutdownLock ==
    /\ lpc = "shutdown" /\ mutex = Free
    /\ mutex' = Loader
    /\ lpc' = "locked"
    /\ UNCHANGED <<ring, nextSequence, dropped, ppc, ev, client, stop, heap,
                   attempts, popped, discarded, sent>>

\* Mutant: shutdown walks the slots from 0 instead of from the head.
StillQueuedFromZero == {slots[i] : i \in 0..(count - 1)} \ {Nil}

\* The slots shutdown walks.
StillQueued == {slots[Slot(i)] : i \in 0..(count - 1)}

\* sg_telemetry_shutdown frees the copies still queued and closes the ring.
ShutdownRing ==
    /\ lpc = "locked"
    /\ heap' = heap \ Copies(StillQueued)
    /\ discarded' = discarded + count
    /\ head' = 0 /\ tail' = 0 /\ count' = 0
    /\ initialized' = FALSE
    /\ mutex' = Free
    /\ lpc' = "done"
    /\ UNCHANGED <<slots, nextSequence, dropped, ppc, ev, client, stop, attempts, popped, sent>>

-----------------------------------------------------------------------------

Produce(p) ==
    \/ CopyFails(p)
    \/ \E kind \in {"code", "launch"} : Prepare(p, kind)

Push(p) == TryLockFails(p) \/ TryLock(p) \/ PushRejected(p) \/ PushStored(p)

\* What the client does without waiting for the collector or the mutex.
ClientRuns ==
    \/ StartClient \/ ClientStops \/ ClientDials
    \/ \E ok \in BOOLEAN : Dialled(ok)
    \/ \E next \in {"stats", "pop"} : Poll(next)
    \/ ReadStats \/ PopNothing \/ PopBatch

\* A write to the collector returns: net.Conn has no deadline here.
ClientWrites ==
    \/ \E ok \in BOOLEAN : Handshake(ok) \/ WriteStats(ok)
    \/ WriteEvent
    \/ \E next \in {"poll", "pause"} : ReleaseBatch(next)

ClientStep == ClientRuns \/ ClientLock \/ ClientWrites

LoaderStep ==
    \/ InitRing \/ InitRingFails
    \/ \E ok \in BOOLEAN : CreateClient(ok)
    \/ GoStop \/ ClientDone \/ ShutdownLock \/ ShutdownRing

\* The process is over: its library is unloaded and its threads are gone.
Exited ==
    /\ lpc = "done" /\ cpc \in {"absent", "done"} /\ attempts = MaxEvents
    /\ \A p \in Producers : ppc[p] = "idle"
    /\ UNCHANGED vars

Next ==
    \/ \E p \in Producers : Produce(p) \/ Push(p)
    \/ ClientStep \/ LoaderStep \/ Exited

Spec == Init /\ [][Next]_vars

\* Threads inside the library go on, and the mutex, which is held only for a few instructions,
\* is granted to a thread that keeps asking.  Nothing is assumed of the collector: a dial may
\* fail each time, and a write may never return.
Fairness ==
    /\ \A p \in Producers : WF_vars(Push(p))
    /\ WF_vars(ClientRuns) /\ SF_vars(ClientLock)
    /\ WF_vars(ClientDone \/ ShutdownRing) /\ SF_vars(ShutdownLock)

FairSpec == Spec /\ Fairness

-----------------------------------------------------------------------------
(* Properties. *)

\* The queued events in order, read through the modulo arithmetic of the ring.
Queued == [i \in 1..count |-> slots[Slot(i - 1)]]
InRing == {Queued[i] : i \in 1..count}
InBatch == {batch[i] : i \in 1..Len(batch)}
InPush == {ev[p] : p \in Producers} \ {Nil}

\* A heap copy is live exactly as long as one of producer, ring and client holds the
\* event that owns it: none is leaked, freed twice or read after it was freed
\* (sg_enqueue_code, sg_ring_release_batch and sg_telemetry_shutdown each free).
CopiesOwned ==
    /\ heap = Copies(InPush \cup InRing \cup InBatch)
    /\ InPush \cap InRing = {} /\ InPush \cap InBatch = {} /\ InRing \cap InBatch = {}

\* dropped_events is exact: each event the application produced is being pushed,
\* queued, handed to the client, discarded by shutdown, or counted as dropped.
EventsConserved ==
    attempts = Cardinality(InPush) + count + Len(popped) + discarded + dropped

\* The events of one application thread reach the collector in the order of their
\* sequence numbers, across reconnections (across threads they may not: the number
\* is taken before the mutex).
ThreadOrder ==
    \A i, j \in 1..Len(sent) :
        i < j /\ sent[i].tid = sent[j].tid => sent[i].seq < sent[j].seq

\* The ring implements the bounded FIFO queue.
Queue == INSTANCE EventQueue
    WITH Event <- Events, open <- initialized, queue <- Queued, taken <- popped
ImplementsQueue == Queue!QSpec

\* No write hangs for ever.  A collector that goes on reading or closes its connections sees to it.
WritesReturn == WF_vars(ClientWrites)

\* The collector can be reached: a client that tries again and again is connected at last, and
\* its handshake and its report arrive.
CollectorAnswers ==
    SF_vars(Dialled(TRUE)) /\ SF_vars(Handshake(TRUE)) /\ SF_vars(WriteStats(TRUE))

\* The destructor returns (sg_go_stop's wait for the client and the mutex end), also when no
\* collector was ever there, unless a write hangs for ever; and with a collector that answers and
\* a client thread no accepted event stays in the ring: the client takes it or the library goes.
RingDrains ==
    WritesReturn =>
        /\ lpc \in {"stopping", "shutdown", "locked"} ~> lpc = "done"
        /\ CollectorAnswers => (count > 0 ~> count = 0 \/ lpc # "running" \/ cpc = "absent")
================================================================================
