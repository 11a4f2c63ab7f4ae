-------------------------- MODULE TelemetryRingProofs --------------------------
(***************************************************************************)
(* Theorems about TelemetryRing for any number of application threads, any *)
(* capacity and any batch size, with the implementation of EventQueue.     *)
(*                                                                         *)
(* Most steps only move a thread or take the mutex.  Quiet names them, and *)
(* the proofs look at the other nine.                                      *)
(***************************************************************************)
EXTENDS TelemetryRing, FiniteSetTheorems, TLAPS

data == <<slots, head, tail, count, nextSequence, dropped, ev, batch, pos, heap,
          attempts, popped, discarded, sent>>

Quiet ==
    \/ \E p \in Producers : TryLock(p)
    \/ StartClient \/ ClientStops \/ ClientDials \/ ClientLock \/ ReadStats \/ PopNothing
    \/ \E next \in {"stats", "pop"} : Poll(next)
    \/ \E ok \in BOOLEAN : Dialled(ok) \/ Handshake(ok) \/ WriteStats(ok) \/ CreateClient(ok)
    \/ InitRingFails \/ GoStop \/ ClientDone \/ ShutdownLock \/ Exited
    \/ UNCHANGED vars

Drop(p) == TryLockFails(p) \/ PushRejected(p)

\* How threads, ring and client state fit together.
Shape ==
    /\ \A p \in Producers : IF ppc[p] = "idle" THEN ev[p] = Nil
                            ELSE ev[p] \in Events /\ ev[p].tid = p
    /\ tail = Slot(count)
    /\ \A i \in 0..(count - 1) : slots[Slot(i)] \in Events
    /\ initialized <=> lpc \in {"create", "running", "stopping", "shutdown", "locked"}
    /\ ~initialized => count = 0
    /\ cpc # "write" => batch = <<>>
    /\ lpc \in {"load", "create"} => cpc = "absent"

RingInv == TypeOK /\ Shape

-----------------------------------------------------------------------------
(* The arithmetic of the ring. *)

LEMMA SlotType ==
    ASSUME head \in Index, NEW i \in Nat
    PROVE  Slot(i) \in Index
BY RingAssumption DEF Slot, Index

LEMMA SlotValue ==
    ASSUME head \in Index, NEW i \in 0..Capacity
    PROVE  Slot(i) = IF head + i < Capacity THEN head + i ELSE head + i - Capacity
BY RingAssumption DEF Slot, Index

LEMMA SlotInjective ==
    ASSUME head \in Index, NEW i \in Index, NEW j \in Index, Slot(i) = Slot(j)
    PROVE  i = j
<1>1. i \in 0..Capacity /\ j \in 0..Capacity
  BY RingAssumption DEF Index
<1> QED
  BY <1>1, SlotValue, RingAssumption DEF Index

LEMMA AdvanceSlot ==
    ASSUME head \in Index, NEW i \in 0..(Capacity - 1)
    PROVE  Advance(Slot(i)) = Slot(i + 1)
<1>1. i \in 0..Capacity /\ i + 1 \in 0..Capacity
  BY RingAssumption
<1>2. Slot(i) \in Index
  BY SlotType
<1>3. Advance(Slot(i)) = IF Slot(i) + 1 = Capacity THEN 0 ELSE Slot(i) + 1
  BY <1>2, RingAssumption DEF Advance, Index
<1> QED
  BY <1>1, <1>3, SlotValue, RingAssumption DEF Index

\* The slots counted from n places further on.
LEMMA SlotShift ==
    ASSUME head \in Index, NEW n \in 0..Capacity, NEW i \in Nat, n + i \in 0..Capacity
    PROVE  /\ (head + n) % Capacity \in Index
           /\ (((head + n) % Capacity) + i) % Capacity = Slot(n + i)
<1>1. (head + n) % Capacity = IF head + n < Capacity THEN head + n ELSE head + n - Capacity
  BY RingAssumption DEF Index
<1>2. (head + n) % Capacity \in Index
  BY <1>1, RingAssumption DEF Index
<1> DEFINE h == (head + n) % Capacity
<1>3. (h + i) % Capacity = IF h + i < Capacity THEN h + i ELSE h + i - Capacity
  <2> HIDE DEF h
  <2>1. h \in Index
    BY <1>2 DEF h
  <2>2. i \in 0..Capacity
    BY RingAssumption
  <2> QED
    BY <2>1, <2>2, RingAssumption DEF Index
<1> QED
  BY <1>1, <1>2, <1>3, SlotValue, RingAssumption DEF Index

-----------------------------------------------------------------------------
(* The steps. *)

LEMMA NextCases ==
    ASSUME Next \/ UNCHANGED vars
    PROVE  \/ Quiet
           \/ \E p \in Producers : CopyFails(p) \/ Drop(p) \/ PushStored(p)
           \/ \E p \in Producers, kind \in {"code", "launch"} : Prepare(p, kind)
           \/ PopBatch \/ WriteEvent
           \/ \E next \in {"poll", "pause"} : ReleaseBatch(next)
           \/ InitRing \/ ShutdownRing
BY Zenon DEF Next, Produce, Push, ClientStep, ClientRuns, ClientWrites, LoaderStep, Drop, Quiet

LEMMA QuietKeepsData == Quiet => UNCHANGED data
<1>1. ASSUME NEW p \in Producers, TryLock(p) PROVE UNCHANGED data
  BY <1>1 DEF TryLock, data, ring, client
<1>2. ASSUME StartClient \/ ClientStops \/ ClientDials \/ ClientLock \/ ReadStats \/ PopNothing
      PROVE  UNCHANGED data
  BY <1>2 DEF StartClient, ClientStops, ClientDials, ClientLock, ReadStats, PopNothing, data, ring
<1>3. ASSUME NEW next \in {"stats", "pop"}, Poll(next) PROVE UNCHANGED data
  BY <1>3 DEF Poll, data, ring
<1>4. ASSUME NEW ok \in BOOLEAN, Dialled(ok) \/ Handshake(ok) \/ WriteStats(ok) \/ CreateClient(ok)
      PROVE  UNCHANGED data
  BY <1>4 DEF Dialled, Handshake, WriteStats, CreateClient, data, ring
<1>5. ASSUME InitRingFails \/ GoStop \/ ClientDone \/ ShutdownLock PROVE UNCHANGED data
  BY <1>5 DEF InitRingFails, GoStop, ClientDone, ShutdownLock, data, ring, client
<1>6. ASSUME Exited \/ UNCHANGED vars PROVE UNCHANGED data
  BY <1>6 DEF Exited, vars, data, ring, client
<1> QED
  BY <1>1, <1>2, <1>3, <1>4, <1>5, <1>6, Zenon DEF Quiet

-----------------------------------------------------------------------------
(* The type invariant. *)

LEMMA InitRingInv == Init => RingInv
<1> SUFFICES ASSUME Init PROVE RingInv
  OBVIOUS
<1>1. Slot(count) = 0
  BY SlotValue, RingAssumption DEF Init, Index
<1>2. TypeOK
  BY RingAssumption DEF Init, TypeOK, Index
<1> QED
  BY <1>1, <1>2, RingAssumption DEF Init, RingInv, Shape

LEMMA EventType ==
    ASSUME TypeOK, NEW p \in Producers, NEW kind \in {"code", "launch"}
    PROVE  [kind |-> kind, seq |-> nextSequence, tid |-> p] \in Events
BY DEF TypeOK, Events

LEMMA PrepareInv ==
    ASSUME RingInv, NEW p \in Producers, NEW kind \in {"code", "launch"}, Prepare(p, kind)
    PROVE  RingInv'
<1> DEFINE e == [kind |-> kind, seq |-> nextSequence, tid |-> p]
<1>1. e \in Events /\ e.tid = p
  BY EventType DEF RingInv
<1>2. ev' = [ev EXCEPT ![p] = e] /\ ppc' = [ppc EXCEPT ![p] = "push"]
  BY DEF Prepare
<1>3. UNCHANGED <<ring, client, lpc, mutex, dropped, stop, popped, discarded, sent>>
  BY DEF Prepare
<1>4. heap' \subseteq Nat \ {0} /\ nextSequence' \in Nat \ {0} /\ attempts' \in Nat
  BY DEF RingInv, TypeOK, Prepare
<1> HIDE DEF e
<1>5. TypeOK'
  BY <1>1, <1>2, <1>3, <1>4 DEF RingInv, TypeOK, ring, client
<1>6. Shape'
  BY <1>1, <1>2, <1>3 DEF RingInv, TypeOK, Shape, ring, client, Slot
<1> QED
  BY <1>5, <1>6 DEF RingInv

LEMMA DropInv ==
    ASSUME RingInv, NEW p \in Producers, CopyFails(p) \/ Drop(p)
    PROVE  RingInv'
<1>1. /\ dropped' = dropped + 1 /\ heap' \subseteq heap
      /\ \/ ev' = [ev EXCEPT ![p] = Nil] /\ ppc' = [ppc EXCEPT ![p] = "idle"]
         \/ UNCHANGED <<ev, ppc>>
      /\ mutex' \in {mutex, Free} /\ attempts' \in {attempts, attempts + 1}
      /\ UNCHANGED <<ring, nextSequence, client, stop, lpc, popped, discarded, sent>>
  BY DEF CopyFails, Drop, TryLockFails, PushRejected, DropEvent
<1>2. TypeOK'
  BY <1>1 DEF RingInv, TypeOK, ring, client
<1>3. Shape'
  BY <1>1 DEF RingInv, TypeOK, Shape, ring, client, Slot
<1> QED
  BY <1>2, <1>3 DEF RingInv

LEMMA PushStoredInv ==
    ASSUME RingInv, NEW p \in Producers, PushStored(p)
    PROVE  RingInv'
<1>1. ev[p] \in Events /\ count < Capacity
  BY RingAssumption DEF RingInv, TypeOK, Shape, PushStored, Full
<1>2. count \in 0..(Capacity - 1) /\ count + 1 \in 0..Capacity /\ head \in Index
  BY <1>1, RingAssumption DEF RingInv, TypeOK
<1>3. tail = Slot(count) /\ Advance(tail) = Slot(count + 1)
  BY <1>2, AdvanceSlot DEF RingInv, Shape
<1>4. Slot(count) \in Index /\ Slot(count + 1) \in Index
  BY <1>2, SlotType
<1>5. TypeOK'
  BY <1>1, <1>2, <1>3, <1>4, RingAssumption DEF RingInv, TypeOK, PushStored, client
<1>6. \A i \in 0..(count' - 1) : slots'[Slot(i)'] \in Events
  <2> TAKE i \in 0..(count' - 1)
  <2>1. Slot(i)' = Slot(i) /\ slots' = [slots EXCEPT ![Slot(count)] = ev[p]] /\ count' = count + 1
    BY <1>3 DEF PushStored, Slot
  <2>2. CASE i = count
    BY <1>1, <1>4, <2>1, <2>2 DEF RingInv, TypeOK
  <2>3. CASE i # count
    <3>1. i \in 0..(count - 1) /\ i \in Index /\ count \in Index
      BY <1>2, <2>1, <2>3, RingAssumption DEF Index
    <3>2. Slot(i) # Slot(count)
      BY <1>2, <2>3, <3>1, SlotInjective
    <3> QED
      BY <1>4, <2>1, <3>1, <3>2 DEF RingInv, TypeOK, Shape
  <2> QED
    BY <2>2, <2>3
<1>7. tail' = Slot(count)'
  BY <1>2, <1>3 DEF PushStored, Slot
<1> QED
  BY <1>5, <1>6, <1>7, RingAssumption
     DEF RingInv, TypeOK, Shape, PushStored, client

LEMMA PopSize ==
    ASSUME RingInv, count # 0, NEW n, n = IF count < BatchSize THEN count ELSE BatchSize
    PROVE  n \in 1..count /\ n \in 1..BatchSize /\ n \in 0..Capacity
BY RingAssumption DEF RingInv, TypeOK

LEMMA OldestType ==
    ASSUME RingInv, NEW n \in 0..count
    PROVE  /\ Oldest(n) \in Seq(Events) /\ Len(Oldest(n)) = n
           /\ \A i \in 1..n : Oldest(n)[i] = slots[Slot(i - 1)]
<1>1. \A i \in 1..n : slots[Slot(i - 1)] \in Events
  BY RingAssumption DEF RingInv, TypeOK, Shape
<1>2. n \in Nat
  BY RingAssumption DEF RingInv, TypeOK
<1> QED
  BY <1>1, <1>2 DEF Oldest

LEMMA PopBatchInv ==
    ASSUME RingInv, PopBatch
    PROVE  RingInv'
<1> DEFINE n == IF count < BatchSize THEN count ELSE BatchSize
<1>1. n \in 1..count /\ n \in 1..BatchSize /\ n \in 0..Capacity
  BY PopSize DEF PopBatch
<1>2. /\ batch' = Oldest(n) /\ popped' = popped \o Oldest(n)
      /\ slots' = [i \in Index |-> IF \E k \in 0..(n - 1) : i = Slot(k) THEN Nil ELSE slots[i]]
      /\ head' = (head + n) % Capacity /\ count' = count - n
      /\ pos' = 0 /\ mutex' = Free /\ cpc' = "write"
      /\ UNCHANGED <<initialized, tail, nextSequence, dropped, ppc, ev, stop, lpc, heap,
                     attempts, discarded, sent>>
  BY DEF PopBatch
<1> HIDE DEF n
<1>3. head \in Index /\ count \in 0..Capacity
  BY DEF RingInv, TypeOK
<1>4. \A i \in 0..(count - n) : Slot(i)' = Slot(n + i)
  BY <1>1, <1>2, <1>3, SlotShift, RingAssumption DEF Slot
<1>5. head' \in Index
  BY <1>1, <1>2, <1>3, SlotType, RingAssumption DEF Slot
<1>6. Oldest(n) \in Seq(Events) /\ Len(Oldest(n)) = n
  BY <1>1, <1>3, OldestType
<1>7. TypeOK'
  <2>1. slots' \in [Index -> Events \cup {Nil}]
    BY <1>2 DEF RingInv, TypeOK
  <2>2. batch' \in Seq(Events) /\ pos' \in 0..Len(batch') /\ popped' \in Seq(Events)
    BY <1>1, <1>2, <1>6 DEF RingInv, TypeOK
  <2> QED
    BY <1>1, <1>2, <1>3, <1>5, <2>1, <2>2, RingAssumption DEF RingInv, TypeOK
<1>8. \A i \in 0..(count' - 1) : slots'[Slot(i)'] \in Events
  <2> TAKE i \in 0..(count' - 1)
  <2>1. i \in 0..(count - n) /\ n + i \in 0..(count - 1) /\ n + i \in Index
    BY <1>1, <1>2, <1>3, RingAssumption DEF Index
  <2>2. \A k \in 0..(n - 1) : Slot(n + i) # Slot(k)
    <3> TAKE k \in 0..(n - 1)
    <3>1. k \in Index /\ k # n + i
      BY <1>1, <1>3, <2>1, RingAssumption DEF Index
    <3> QED
      BY <1>3, <2>1, <3>1, SlotInjective
  <2>3. Slot(n + i) \in Index
    BY <1>3, <2>1, SlotType, RingAssumption DEF Index
  <2>4. slots'[Slot(n + i)] = slots[Slot(n + i)]
    BY <1>2, <2>2, <2>3
  <2> QED
    BY <1>4, <2>1, <2>4 DEF RingInv, Shape
<1>9. tail' = Slot(count)'
  <2>1. count - n \in 0..(count - n) /\ n + (count - n) = count
    BY <1>1, <1>3, RingAssumption
  <2>2. (head' + count') % Capacity = Slot(count)
    BY <1>2, <1>4, <2>1 DEF Slot
  <2> QED
    BY <1>2, <2>2 DEF RingInv, Shape, Slot
<1>10. \A p \in Producers : IF ppc'[p] = "idle" THEN ev'[p] = Nil
                            ELSE ev'[p] \in Events /\ ev'[p].tid = p
  BY <1>2 DEF RingInv, Shape
<1>11. /\ initialized' <=> lpc' \in {"create", "running", "stopping", "shutdown", "locked"}
       /\ ~initialized' => count' = 0 
       /\ lpc' \in {"load", "create"} => cpc' = "absent"
  BY <1>2 DEF RingInv, Shape, PopBatch
<1> QED
  BY <1>2, <1>7, <1>8, <1>9, <1>10, <1>11 DEF RingInv, Shape

LEMMA ReleaseInv ==
    ASSUME RingInv, WriteEvent \/ \E next \in {"poll", "pause"} : ReleaseBatch(next)
    PROVE  RingInv'
<1>1. CASE WriteEvent
  <2>1. batch[pos + 1] \in Events /\ pos + 1 \in 0..Len(batch)
    BY <1>1 DEF WriteEvent, RingInv, TypeOK
  <2>2. sent' \in Seq(Events)
    BY <1>1, <2>1 DEF WriteEvent, RingInv, TypeOK
  <2>3. UNCHANGED <<ring, nextSequence, dropped, mutex, ppc, ev, cpc, batch, stop, lpc, heap,
                    attempts, popped, discarded>> /\ pos' = pos + 1
    BY <1>1 DEF WriteEvent
  <2>4. TypeOK'
    BY <2>1, <2>2, <2>3 DEF RingInv, TypeOK, ring
  <2> QED
    BY <2>3, <2>4 DEF RingInv, Shape, ring, Slot
<1>2. CASE \E next \in {"poll", "pause"} : ReleaseBatch(next)
  <2>1. /\ batch' = <<>> /\ pos' = 0 /\ cpc = "write" /\ cpc' \in {"poll", "pause"}
        /\ heap' \subseteq heap
        /\ UNCHANGED <<ring, nextSequence, dropped, mutex, ppc, ev, stop, lpc,
                       attempts, popped, discarded, sent>>
    BY <1>2 DEF ReleaseBatch
  <2>2. TypeOK'
    BY <2>1 DEF RingInv, TypeOK, ring
  <2> QED
    BY <2>1, <2>2 DEF RingInv, Shape, ring, Slot
<1> QED
  BY <1>1, <1>2

LEMMA LoaderInv ==
    ASSUME RingInv, InitRing \/ ShutdownRing
    PROVE  RingInv'
<1>1. /\ head' = 0 /\ tail' = 0 /\ count' = 0
      /\ heap' \subseteq heap /\ discarded' \in {discarded, discarded + count}
      /\ UNCHANGED <<slots, nextSequence, dropped, ppc, ev, client, stop, attempts, popped, sent>>
      /\ mutex' \in {mutex, Free}
  BY DEF InitRing, ShutdownRing, client
<1>2. \/ initialized' = TRUE /\ lpc' = "create" /\ lpc = "load"
      \/ initialized' = FALSE /\ lpc' = "done"
  BY DEF InitRing, ShutdownRing
<1>3. 0 \in Index /\ 0 \in 0..Capacity
  BY RingAssumption DEF Index
<1>4. (0 + 0) % Capacity = 0
  BY RingAssumption
<1>5. TypeOK'
  <2>1. discarded' \in Nat /\ heap' \subseteq Nat \ {0} /\ mutex' \in Producers \cup {Client, Loader, Free}
    BY <1>1, RingAssumption DEF RingInv, TypeOK
  <2>2. /\ initialized' \in BOOLEAN
        /\ lpc' \in {"load", "create", "running", "stopping", "shutdown", "locked", "done"}
    BY <1>2
  <2> HIDE <1>2
  <2> QED
    BY <1>1, <1>3, <2>1, <2>2 DEF RingInv, TypeOK, client
<1>6. tail' = Slot(count)'
  BY <1>1, <1>4 DEF Slot
<1> QED
  BY <1>1, <1>2, <1>5, <1>6 DEF RingInv, Shape, client

LEMMA QuietInv ==
    ASSUME RingInv, Quiet
    PROVE  RingInv'
<1>1. UNCHANGED data
  BY QuietKeepsData
<1>2. ASSUME NEW p \in Producers, TryLock(p) PROVE RingInv'
  <2>1. /\ mutex' = p /\ ppc[p] = "push" /\ ppc' = [ppc EXCEPT ![p] = "locked"]
        /\ UNCHANGED <<ring, client, stop, lpc>>
    BY <1>2 DEF TryLock
  <2>2. TypeOK'
    BY <1>1, <2>1 DEF RingInv, TypeOK, data, ring, client
  <2> QED
    BY <1>1, <2>1, <2>2 DEF RingInv, TypeOK, Shape, data, ring, client, Slot
<1>3. ASSUME /\ UNCHANGED <<initialized, ppc>> /\ cpc # "write"
             /\ cpc' \in {"dial", "dialling", "handshake", "pause", "poll", "stats",
                          "statsLocked", "statsWrite", "pop", "popLocked", "done"}
             /\ mutex' \in {mutex, Free, Client} /\ cpc # "absent"
             /\ UNCHANGED stop /\ lpc' = lpc
      PROVE  RingInv'
  <2>1. TypeOK'
    BY <1>1, <1>3 DEF RingInv, TypeOK, data
  <2> QED
    BY <1>1, <1>3, <2>1 DEF RingInv, Shape, data, Slot
<1>4. ASSUME StartClient \/ ClientStops \/ ClientDials \/ ClientLock \/ ReadStats \/ PopNothing
      PROVE  RingInv'
  BY <1>3, <1>4 DEF StartClient, ClientStops, ClientDials, ClientLock, ReadStats, PopNothing, ring,
                    RingInv, Shape
<1>5. ASSUME NEW next \in {"stats", "pop"}, Poll(next) PROVE RingInv'
  BY <1>3, <1>5 DEF Poll, ring, RingInv, Shape
<1>6. ASSUME NEW ok \in BOOLEAN, Dialled(ok) \/ Handshake(ok) \/ WriteStats(ok) PROVE RingInv'
  BY <1>3, <1>6 DEF Dialled, Handshake, WriteStats, ring, RingInv, Shape
<1>10. ASSUME NEW ok \in BOOLEAN, CreateClient(ok) PROVE RingInv'
  <2>1. /\ cpc' \in {"absent", "unstarted"} /\ batch = <<>> /\ lpc = "create" /\ lpc' = "running"
        /\ UNCHANGED <<initialized, mutex, ppc, stop>>
    BY <1>10 DEF CreateClient, ring, RingInv, Shape
  <2>2. TypeOK'
    BY <1>1, <2>1 DEF RingInv, TypeOK, data
  <2> QED
    BY <1>1, <2>1, <2>2 DEF RingInv, Shape, data, Slot
<1>7. ASSUME InitRingFails PROVE RingInv'
  BY <1>1, <1>7 DEF InitRingFails, RingInv, TypeOK, Shape, data, ring, client, Slot
<1>8. ASSUME GoStop \/ ClientDone \/ ShutdownLock PROVE RingInv'
  <2>1. /\ lpc \in {"running", "stopping", "shutdown"}
        /\ lpc' \in {"stopping", "shutdown", "locked"}
        /\ mutex' \in {mutex, Loader} /\ UNCHANGED <<initialized, cpc, ppc>> /\ stop' \in BOOLEAN
    BY <1>8 DEF GoStop, ClientDone, ShutdownLock, ring, client, RingInv, TypeOK
  <2>2. TypeOK'
    BY <1>1, <2>1 DEF RingInv, TypeOK, data
  <2> QED
    BY <1>1, <2>1, <2>2 DEF RingInv, Shape, data, Slot
<1>9. ASSUME Exited \/ UNCHANGED vars PROVE RingInv'
  BY <1>1, <1>9 DEF Exited, vars, RingInv, TypeOK, Shape, data, ring, client, Slot
<1> QED
  BY <1>2, <1>4, <1>5, <1>6, <1>7, <1>8, <1>9, <1>10, Zenon DEF Quiet

LEMMA NextInv ==
    ASSUME RingInv, Next \/ UNCHANGED vars
    PROVE  RingInv'
BY NextCases, QuietInv, DropInv, PushStoredInv, PrepareInv, PopBatchInv, ReleaseInv, LoaderInv,
   Zenon

LEMMA RingInvariant == Spec => []RingInv
<1>1. Init => RingInv
  BY InitRingInv
<1>2. RingInv /\ [Next]_vars => RingInv'
  BY NextInv
<1> QED
  BY <1>1, <1>2, PTL DEF Spec

\* Type correctness of the ring, its client and its loader.
THEOREM RingTypeOK == Spec => []TypeOK
BY RingInvariant, PTL DEF RingInv

-----------------------------------------------------------------------------
(* The implementation of EventQueue. *)

LEMMA QueuedType ==
    ASSUME RingInv
    PROVE  /\ Queued \in Seq(Events) /\ Len(Queued) = count
           /\ \A i \in 1..count : Queued[i] = slots[Slot(i - 1)] /\ Queued[i] \in Events
<1>1. count \in Nat
  BY RingAssumption DEF RingInv, TypeOK
<1>2. \A i \in 1..count : i - 1 \in 0..(count - 1)
  BY <1>1
<1>3. \A i \in 1..count : slots[Slot(i - 1)] \in Events
  BY <1>2 DEF RingInv, Shape
<1> QED
  BY <1>1, <1>3 DEF Queued

\* What the steps that move events do to the queue.
LEMMA PushAppends ==
    ASSUME RingInv, NEW p \in Producers, PushStored(p)
    PROVE  /\ ev[p] \in Events
           /\ count' = count + 1
           /\ \A i \in 1..count : Queued'[i] = Queued[i]
           /\ Queued'[count + 1] = ev[p]
<1>1. ev[p] \in Events /\ count < Capacity
  BY RingAssumption DEF RingInv, TypeOK, Shape, PushStored, Full
<1>2. count \in 0..(Capacity - 1) /\ count \in Index /\ head \in Index /\ count \in Nat
  BY <1>1, RingAssumption DEF RingInv, TypeOK, Index
<1>3. /\ slots' = [slots EXCEPT ![Slot(count)] = ev[p]] /\ count' = count + 1
      /\ \A i : Slot(i)' = Slot(i)
  BY DEF PushStored, RingInv, Shape, Slot
<1>4. slots'[Slot(count)] = ev[p]
  BY <1>2, <1>3, SlotType DEF RingInv, TypeOK
<1>5. ASSUME NEW i \in 1..count PROVE slots'[Slot(i - 1)] = slots[Slot(i - 1)]
  <2>1. i - 1 \in Index /\ i - 1 # count /\ i - 1 \in Nat
    BY <1>2, RingAssumption DEF Index
  <2>2. Slot(i - 1) # Slot(count) /\ Slot(i - 1) \in Index
    BY <1>2, <2>1, SlotInjective, SlotType
  <2> QED
    BY <1>2, <1>3, <2>2 DEF RingInv, TypeOK
<1>6. \A i \in 1..(count + 1) : Queued'[i] = slots'[Slot(i - 1)]
  BY <1>3 DEF Queued
<1>7. \A i \in 1..count : Queued[i] = slots[Slot(i - 1)] /\ i \in 1..(count + 1)
  BY <1>2 DEF Queued
<1>8. count + 1 \in 1..(count + 1) /\ (count + 1) - 1 = count
  BY <1>2
<1> QED
  BY <1>1, <1>3, <1>4, <1>5, <1>6, <1>7, <1>8

LEMMA PopTakesPrefix ==
    ASSUME RingInv, PopBatch
    PROVE  \E n \in 1..count :
              /\ n \in 1..BatchSize /\ (n = count \/ n = BatchSize)
              /\ count' = count - n
              /\ \A i \in 1..(count - n) : Queued'[i] = Queued[n + i]
              /\ Len(batch') = n /\ batch' \in Seq(Events)
              /\ \A i \in 1..n : batch'[i] = Queued[i]
              /\ popped' = popped \o batch'
<1> DEFINE n == IF count < BatchSize THEN count ELSE BatchSize
<1>1. n \in 1..count /\ n \in 1..BatchSize /\ n \in 0..Capacity /\ (n = count \/ n = BatchSize)
  BY PopSize DEF PopBatch
<1>2. /\ batch' = Oldest(n) /\ popped' = popped \o Oldest(n)
      /\ slots' = [i \in Index |-> IF \E k \in 0..(n - 1) : i = Slot(k) THEN Nil ELSE slots[i]]
      /\ head' = (head + n) % Capacity /\ count' = count - n
  BY DEF PopBatch
<1> HIDE DEF n
<1>3. head \in Index /\ count \in 0..Capacity
  BY DEF RingInv, TypeOK
<1>4. /\ Oldest(n) \in Seq(Events) /\ Len(Oldest(n)) = n
      /\ \A i \in 1..n : Oldest(n)[i] = slots[Slot(i - 1)]
  BY <1>1, <1>3, OldestType
<1>5. \A i \in 1..n : Oldest(n)[i] = Queued[i]
  BY <1>1, <1>3, <1>4, QueuedType
<1>6. ASSUME NEW i \in 1..(count - n) PROVE Queued'[i] = Queued[n + i]
  <2>1. i - 1 \in Nat /\ n + (i - 1) \in 0..Capacity /\ n + (i - 1) \in Index
        /\ n + i \in 1..count /\ n + (i - 1) = (n + i) - 1
    BY <1>1, <1>3, RingAssumption DEF Index
  <2>2. Slot(i - 1)' = Slot(n + (i - 1))
    BY <1>1, <1>2, <1>3, <2>1, SlotShift DEF Slot
  <2>3. \A k \in 0..(n - 1) : Slot(n + (i - 1)) # Slot(k)
    <3> TAKE k \in 0..(n - 1)
    <3>1. k \in Index /\ k # n + (i - 1)
      BY <1>1, <1>3, <2>1, RingAssumption DEF Index
    <3> QED
      BY <1>3, <2>1, <3>1, SlotInjective
  <2>4. Slot(n + (i - 1)) \in Index
    BY <1>3, <2>1, SlotType DEF Index
  <2>5. slots'[Slot(n + (i - 1))] = slots[Slot(n + (i - 1))]
    BY <1>2, <2>3, <2>4
  <2>6. Queued'[i] = slots'[Slot(i - 1)'] /\ Queued[n + i] = slots[Slot((n + i) - 1)]
    BY <1>2, <2>1 DEF Queued
  <2> QED
    BY <2>1, <2>2, <2>5, <2>6
<1> QED
  BY <1>1, <1>2, <1>4, <1>5, <1>6

LEMMA QueueUntouched ==
    ASSUME UNCHANGED <<slots, head, count>>
    PROVE  Queued' = Queued
BY DEF Queued, Slot

\* No step outside the ring is visible in the queue.
LEMMA OutsideSteps ==
    ASSUME NEW p \in Producers, CopyFails(p) \/ Drop(p) \/ \E kind \in {"code", "launch"} : Prepare(p, kind)
    PROVE  UNCHANGED <<initialized, slots, head, count, popped>>
BY DEF CopyFails, Drop, TryLockFails, PushRejected, Prepare, ring

LEMMA QueueInit == Init => Queue!QInit
<1> SUFFICES ASSUME Init PROVE Queue!QInit
  OBVIOUS
<1>1. Queued = <<>>
  BY DEF Init, Queued
<1> QED
  BY <1>1 DEF Init, Queue!QInit

QueuedOK == Queued \in Seq(Events) /\ Len(Queued) = count

LEMMA QueuedAfter == RingInv' => QueuedOK'
<1>1. RingInv => QueuedOK
  BY QueuedType DEF QueuedOK
<1> QED
  BY <1>1, PTL

LEMMA QueueStep ==
    ASSUME RingInv, RingInv', Next \/ UNCHANGED vars
    PROVE  Queue!QNext \/ UNCHANGED Queue!qvars
<1>1. ASSUME UNCHANGED <<initialized, slots, head, count, popped>>
      PROVE  UNCHANGED Queue!qvars
  BY <1>1, QueueUntouched DEF Queue!qvars
<1>2. ASSUME Quiet PROVE Queue!QNext \/ UNCHANGED Queue!qvars
  <2>1. UNCHANGED <<slots, head, count, popped>>
    BY <1>2, QuietKeepsData DEF data
  <2>2. UNCHANGED initialized
    BY <1>2 DEF Quiet, TryLock, StartClient, ClientStops, ClientDials, ClientLock, ReadStats, PopNothing,
                Poll, Dialled, Handshake, WriteStats, CreateClient, InitRingFails, GoStop, ClientDone,
                ShutdownLock, Exited, vars, ring
  <2> QED
    BY <1>1, <2>1, <2>2
<1>3. ASSUME NEW p \in Producers, PushStored(p) PROVE Queue!Offer
  <2>1. Queued \in Seq(Events) /\ Len(Queued) = count /\ count \in Nat
    BY QueuedType DEF RingInv, TypeOK
  <2>2. Queued' \in Seq(Events) /\ Len(Queued') = count'
    BY QueuedAfter DEF QueuedOK
  <2>3. /\ ev[p] \in Events /\ count' = count + 1 /\ Queued'[count + 1] = ev[p]
        /\ \A i \in 1..count : Queued'[i] = Queued[i]
    BY <1>3, PushAppends
  <2>4. Queued = SubSeq(Queued', 1, Len(Queued))
    BY <2>1, <2>2, <2>3
  <2>5. initialized /\ Len(Queued) < Capacity /\ UNCHANGED <<initialized, popped>>
    BY <1>3, <2>1, RingAssumption DEF PushStored, Full, RingInv, TypeOK
  <2> QED
    BY <2>1, <2>2, <2>3, <2>4, <2>5 DEF Queue!Offer
<1>4. ASSUME PopBatch PROVE Queue!QNext
  <2>1. PICK n \in 1..count :
              /\ n \in 1..BatchSize /\ (n = count \/ n = BatchSize)
              /\ count' = count - n
              /\ \A i \in 1..(count - n) : Queued'[i] = Queued[n + i]
              /\ Len(batch') = n /\ batch' \in Seq(Events)
              /\ \A i \in 1..n : batch'[i] = Queued[i]
              /\ popped' = popped \o batch'
    BY <1>4, PopTakesPrefix
  <2>2. Queued \in Seq(Events) /\ Len(Queued) = count /\ count \in Nat
    BY QueuedType DEF RingInv, TypeOK
  <2>3. batch' = SubSeq(Queued, 1, n)
    BY <2>1, <2>2
  <2>4. Queued' = SubSeq(Queued, n + 1, Len(Queued))
    <3>1. Queued' = [i \in 1..(count - n) |-> Queued[n + i]]
      BY <2>1 DEF Queued
    <3>2. SubSeq(Queued, n + 1, count) = [i \in 1..(count - n) |-> Queued[n + i]]
      BY <2>1, <2>2
    <3> QED
      BY <2>2, <3>1, <3>2
  <2>5. initialized /\ UNCHANGED initialized
    BY <1>4 DEF PopBatch
  <2>6. Queue!Take(n)
    BY <2>1, <2>2, <2>3, <2>4, <2>5 DEF Queue!Take
  <2> QED
    BY <2>1, <2>6 DEF Queue!QNext
<1>5. ASSUME InitRing \/ ShutdownRing PROVE Queue!QNext
  <2>1. Queued' = <<>> /\ UNCHANGED popped
    BY <1>5 DEF InitRing, ShutdownRing, Queued
  <2>2. InitRing => ~initialized /\ initialized'
    BY DEF InitRing, RingInv, Shape
  <2>3. ShutdownRing => initialized /\ ~initialized'
    BY DEF ShutdownRing, RingInv, Shape
  <2>4. initialized' \in BOOLEAN
    BY DEF RingInv, TypeOK
  <2>5. CASE InitRing
    BY <2>1, <2>2, <2>4, <2>5 DEF Queue!QNext, Queue!Open, InitRing
  <2>6. CASE ShutdownRing
    BY <2>1, <2>3, <2>4, <2>6 DEF Queue!QNext, Queue!Close, ShutdownRing
  <2> QED
    BY <1>5, <2>5, <2>6
<1>6. ASSUME WriteEvent \/ \E next \in {"poll", "pause"} : ReleaseBatch(next)
      PROVE  UNCHANGED <<initialized, slots, head, count, popped>>
  BY <1>6 DEF WriteEvent, ReleaseBatch, ring
<1>7. ASSUME NEW p \in Producers, PushStored(p) PROVE Queue!QNext
  BY <1>3, <1>7 DEF Queue!QNext
<1> QED
  BY NextCases, <1>1, <1>2, <1>4, <1>5, <1>6, <1>7, OutsideSteps, Zenon

\* The ring with its modulo indices, its mutex and its batches is a bounded first-in
\* first-out queue: nothing is overwritten, skipped or taken twice, at any capacity.
THEOREM RingImplementsQueue == Spec => ImplementsQueue
<1>1. Init => Queue!QInit
  BY QueueInit
<1>2. RingInv /\ RingInv' /\ [Next]_vars => [Queue!QNext]_(Queue!qvars)
  BY QueueStep
<1> QED
  BY <1>1, <1>2, RingInvariant, PTL DEF Spec, ImplementsQueue, Queue!QSpec

-----------------------------------------------------------------------------
(* Sequence numbers tell the events in the program apart. *)

SeqInv ==
    /\ \A p, q \in Producers : ev[p] # Nil /\ ev[q] # Nil /\ ev[p].seq = ev[q].seq => p = q
    /\ \A i, j \in 1..count : Queued[i].seq = Queued[j].seq => i = j
    /\ \A i, j \in 1..Len(batch) : batch[i].seq = batch[j].seq => i = j
    /\ \A p \in Producers, i \in 1..count : ev[p] # Nil => ev[p].seq # Queued[i].seq
    /\ \A p \in Producers, i \in 1..Len(batch) : ev[p] # Nil => ev[p].seq # batch[i].seq
    /\ \A i \in 1..count, j \in 1..Len(batch) : Queued[i].seq # batch[j].seq
    /\ \A p \in Producers : ev[p] # Nil => ev[p].seq < nextSequence
    /\ \A i \in 1..count : Queued[i].seq < nextSequence
    /\ \A i \in 1..Len(batch) : batch[i].seq < nextSequence

\* What the steps do to the events under way.
LEMMA PrepareAdds ==
    ASSUME RingInv, NEW p \in Producers, NEW kind \in {"code", "launch"}, Prepare(p, kind)
    PROVE  /\ ev[p] = Nil /\ ev'[p] \in Events /\ ev'[p] # Nil /\ ev'[p].seq = nextSequence
           /\ ev'[p].kind = kind /\ ev'[p].tid = p
           /\ \A q \in Producers : q # p => ev'[q] = ev[q]
           /\ nextSequence' = nextSequence + 1 /\ nextSequence \in Nat
           /\ UNCHANGED <<slots, head, count, batch, pos, popped, sent, discarded, dropped>>
           /\ Queued' = Queued
<1>1. [kind |-> kind, seq |-> nextSequence, tid |-> p] \in Events
  BY EventType DEF RingInv
<1>2. UNCHANGED <<slots, head, count, batch, pos, popped, sent, discarded, dropped>>
  BY DEF Prepare, ring, client
<1> QED
  BY <1>1, <1>2, QueueUntouched, RingAssumption DEF Prepare, RingInv, TypeOK, Shape

LEMMA DropRemoves ==
    ASSUME RingInv, NEW p \in Producers, Drop(p)
    PROVE  /\ ev[p] \in Events /\ ev[p] # Nil /\ ev'[p] = Nil
           /\ \A q \in Producers : q # p => ev'[q] = ev[q]
           /\ heap' = heap \ Copies({ev[p]}) /\ dropped' = dropped + 1
           /\ UNCHANGED <<slots, head, count, batch, pos, popped, sent, discarded, attempts,
                          nextSequence>>
           /\ Queued' = Queued
<1>1. ppc[p] # "idle"
  BY DEF Drop, TryLockFails, PushRejected
<1>2. UNCHANGED <<slots, head, count, batch, pos, popped, sent, discarded, attempts, nextSequence>>
  BY DEF Drop, TryLockFails, PushRejected, DropEvent, ring, client
<1>3. /\ ev' = [ev EXCEPT ![p] = Nil]
      /\ heap' = heap \ Copies({ev[p]}) /\ dropped' = dropped + 1
  BY DEF Drop, TryLockFails, PushRejected, DropEvent
<1> QED
  BY <1>1, <1>2, <1>3, QueueUntouched, RingAssumption DEF RingInv, TypeOK, Shape

LEMMA CopyFailsKeeps ==
    ASSUME NEW p \in Producers, CopyFails(p)
    PROVE  /\ UNCHANGED <<slots, head, count, batch, pos, popped, sent, discarded, ev, heap,
                          nextSequence>>
           /\ Queued' = Queued
           /\ attempts' = attempts + 1 /\ dropped' = dropped + 1
BY QueueUntouched DEF CopyFails, ring, client

LEMMA PushMoves ==
    ASSUME RingInv, NEW p \in Producers, PushStored(p)
    PROVE  /\ ev[p] # Nil /\ ev'[p] = Nil
           /\ \A q \in Producers : q # p => ev'[q] = ev[q]
           /\ UNCHANGED <<batch, pos, popped, sent, discarded, attempts, dropped, nextSequence, heap>>
<1>1. ppc[p] # "idle"
  BY DEF PushStored
<1>2. ev' = [ev EXCEPT ![p] = Nil]
  BY DEF PushStored
<1>3. UNCHANGED <<batch, pos, popped, sent, discarded, attempts, dropped, nextSequence, heap>>
  BY DEF PushStored, client
<1> QED
  BY <1>1, <1>2, <1>3, RingAssumption DEF RingInv, TypeOK, Shape

LEMMA PopKeeps ==
    ASSUME RingInv, PopBatch
    PROVE  /\ batch = <<>> /\ pos' = 0
           /\ UNCHANGED <<ev, sent, discarded, attempts, dropped, nextSequence, heap>>
BY DEF PopBatch, RingInv, Shape

LEMMA WriteKeeps ==
    ASSUME WriteEvent
    PROVE  /\ UNCHANGED <<slots, head, count, ev, batch, popped, discarded, attempts, dropped,
                          nextSequence, heap>>
           /\ Queued' = Queued
BY QueueUntouched DEF WriteEvent, ring

LEMMA ReleaseEmpties ==
    ASSUME NEW next \in {"poll", "pause"}, ReleaseBatch(next)
    PROVE  /\ batch' = <<>> /\ pos' = 0
           /\ heap' = heap \ Copies(InBatch)
           /\ UNCHANGED <<slots, head, count, ev, popped, sent, discarded, attempts, dropped,
                          nextSequence>>
           /\ Queued' = Queued
BY QueueUntouched DEF ReleaseBatch, ring, InBatch

LEMMA LoaderEmpties ==
    ASSUME RingInv, InitRing \/ ShutdownRing
    PROVE  /\ count' = 0
           /\ UNCHANGED <<ev, batch, pos, popped, sent, attempts, dropped, nextSequence>>
           /\ \/ count = 0 /\ UNCHANGED <<heap, discarded>>
              \/ heap' = heap \ Copies(StillQueued) /\ discarded' = discarded + count
BY DEF InitRing, ShutdownRing, RingInv, Shape, client

LEMMA EventFields == \A e \in Events : e.seq \in Nat /\ e.kind \in {"code", "launch"} /\ e # Nil
BY RingAssumption DEF Events

LEMMA SeqStep ==
    ASSUME RingInv, SeqInv, Next \/ UNCHANGED vars
    PROVE  SeqInv'
<1>1. CASE Quiet
  <2>1. UNCHANGED data /\ Queued' = Queued
    BY <1>1, QuietKeepsData, QueueUntouched DEF data
  <2> QED
    BY <2>1 DEF SeqInv, data
<1>2. ASSUME NEW p \in Producers, NEW kind \in {"code", "launch"}, Prepare(p, kind) PROVE SeqInv'
  <2>1. /\ \A i \in 1..count : Queued[i].seq \in Nat
        /\ \A i \in 1..Len(batch) : batch[i].seq \in Nat
        /\ \A q \in Producers : ev[q] # Nil => ev[q].seq \in Nat
    BY QueuedType, EventFields DEF RingInv, TypeOK
  <2>2. /\ ev[p] = Nil /\ ev'[p].seq = nextSequence
        /\ \A q \in Producers : q # p => ev'[q] = ev[q]
        /\ nextSequence' = nextSequence + 1 /\ nextSequence \in Nat
        /\ Queued' = Queued /\ UNCHANGED <<count, batch>>
    BY <1>2, PrepareAdds
  <2>3. \A q \in Producers : ev'[q] # Nil /\ q # p => ev'[q].seq \in Nat /\ ev'[q].seq < nextSequence
    BY <2>1, <2>2 DEF SeqInv
  <2>4. /\ \A i \in 1..count : Queued'[i].seq < nextSequence
        /\ \A i \in 1..Len(batch) : batch'[i].seq < nextSequence
    BY <2>2 DEF SeqInv
  <2>5. \A q, r \in Producers : ev'[q] # Nil /\ ev'[r] # Nil /\ ev'[q].seq = ev'[r].seq => q = r
    BY <2>2, <2>3 DEF SeqInv
  <2>6. /\ \A q \in Producers, i \in 1..count : ev'[q] # Nil => ev'[q].seq # Queued'[i].seq
        /\ \A q \in Producers, i \in 1..Len(batch) : ev'[q] # Nil => ev'[q].seq # batch'[i].seq
    BY <2>2, <2>4 DEF SeqInv
  <2>7. /\ \A q \in Producers : ev'[q] # Nil => ev'[q].seq < nextSequence'
        /\ \A i \in 1..count : Queued'[i].seq < nextSequence'
        /\ \A i \in 1..Len(batch) : batch'[i].seq < nextSequence'
    BY <2>1, <2>2, <2>3, <2>4
  <2> QED
    BY <2>2, <2>5, <2>6, <2>7 DEF SeqInv
<1>3. ASSUME NEW p \in Producers, CopyFails(p) PROVE SeqInv'
  BY <1>3, CopyFailsKeeps DEF SeqInv
<1>4. ASSUME NEW p \in Producers, Drop(p) PROVE SeqInv'
  <2>1. /\ \A q \in Producers : ev'[q] = Nil \/ ev'[q] = ev[q]
        /\ Queued' = Queued /\ UNCHANGED <<count, batch, nextSequence>>
    BY <1>4, DropRemoves
  <2> QED
    BY <2>1 DEF SeqInv
<1>5. ASSUME NEW p \in Producers, PushStored(p) PROVE SeqInv'
  <2>1. count \in Nat
    BY DEF RingInv, TypeOK
  <2>2. \A i \in 1..count' : i \in 1..count \/ i = count + 1
    BY <1>5, <2>1, PushAppends
  <2>3. /\ ev[p] # Nil /\ ev'[p] = Nil
        /\ \A q \in Producers : q # p => ev'[q] = ev[q]
        /\ batch' = batch /\ nextSequence' = nextSequence
    BY <1>5, PushMoves
  <2>4. \A i \in 1..count' : \/ i \in 1..count /\ Queued'[i] = Queued[i]
                             \/ i = count + 1 /\ Queued'[i] = ev[p]
    BY <1>5, <2>2, PushAppends
  <2>5. /\ \A i, j \in 1..count' : Queued'[i].seq = Queued'[j].seq => i = j
        /\ \A i \in 1..count' : Queued'[i].seq < nextSequence'
    BY <2>3, <2>4 DEF SeqInv
  <2>6. /\ \A q \in Producers, i \in 1..count' : ev'[q] # Nil => ev'[q].seq # Queued'[i].seq
        /\ \A i \in 1..count', j \in 1..Len(batch') : Queued'[i].seq # batch'[j].seq
    BY <2>3, <2>4 DEF SeqInv
  <2>7. /\ \A q, r \in Producers : ev'[q] # Nil /\ ev'[r] # Nil /\ ev'[q].seq = ev'[r].seq => q = r
        /\ \A q \in Producers : ev'[q] # Nil => ev'[q].seq < nextSequence'
        /\ \A q \in Producers, i \in 1..Len(batch') : ev'[q] # Nil => ev'[q].seq # batch'[i].seq
    BY <2>3 DEF SeqInv
  <2> QED
    BY <2>3, <2>5, <2>6, <2>7 DEF SeqInv
<1>6. CASE PopBatch
  <2>1. PICK n \in 1..count :
              /\ count' = count - n
              /\ \A i \in 1..(count - n) : Queued'[i] = Queued[n + i]
              /\ Len(batch') = n
              /\ \A i \in 1..n : batch'[i] = Queued[i]
    BY <1>6, PopTakesPrefix
  <2>2. count \in Nat
    BY DEF RingInv, TypeOK
  <2>3. \A i \in 1..count' : n + i \in 1..count /\ Queued'[i] = Queued[n + i]
    BY <2>1, <2>2
  <2>4. \A i \in 1..Len(batch') : i \in 1..count /\ batch'[i] = Queued[i]
    BY <2>1, <2>2
  <2>5. \A i \in 1..count', j \in 1..Len(batch') : n + i # j
    BY <2>1, <2>2
  <2>6. \A i, j \in 1..count' : n + i = n + j => i = j
    BY <2>1, <2>2
  <2>7. UNCHANGED <<ev, nextSequence>>
    BY <1>6, PopKeeps
  <2>8. /\ \A i, j \in 1..count' : Queued'[i].seq = Queued'[j].seq => i = j
        /\ \A i \in 1..count' : Queued'[i].seq < nextSequence'
        /\ \A p \in Producers, i \in 1..count' : ev'[p] # Nil => ev'[p].seq # Queued'[i].seq
    BY <2>3, <2>6, <2>7 DEF SeqInv
  <2>9. /\ \A i, j \in 1..Len(batch') : batch'[i].seq = batch'[j].seq => i = j
        /\ \A i \in 1..Len(batch') : batch'[i].seq < nextSequence'
        /\ \A p \in Producers, i \in 1..Len(batch') : ev'[p] # Nil => ev'[p].seq # batch'[i].seq
    BY <2>4, <2>7 DEF SeqInv
  <2>10. \A i \in 1..count', j \in 1..Len(batch') : Queued'[i].seq # batch'[j].seq
    BY <2>3, <2>4, <2>5 DEF SeqInv
  <2> QED
    BY <2>7, <2>8, <2>9, <2>10 DEF SeqInv
<1>7. CASE WriteEvent
  BY <1>7, WriteKeeps DEF SeqInv
<1>8. ASSUME NEW next \in {"poll", "pause"}, ReleaseBatch(next) PROVE SeqInv'
  <2>1. Len(batch') = 0
    BY <1>8, ReleaseEmpties
  <2> QED
    BY <1>8, <2>1, ReleaseEmpties DEF SeqInv
<1>9. CASE InitRing \/ ShutdownRing
  BY <1>9, LoaderEmpties DEF SeqInv
<1> QED
  BY NextCases, <1>1, <1>2, <1>3, <1>4, <1>5, <1>6, <1>7, <1>8, <1>9, Zenon

LEMMA SeqInvariant == Spec => []SeqInv
<1>1. Init => SeqInv
  BY DEF Init, SeqInv
<1>2. RingInv /\ SeqInv /\ [Next]_vars => SeqInv'
  BY SeqStep
<1> QED
  BY <1>1, <1>2, RingInvariant, PTL DEF Spec

-----------------------------------------------------------------------------
(* Heap copies. *)

Live == InPush \cup InRing \cup InBatch

LiveOK ==
    /\ InPush = {e \in Events : \E p \in Producers : ev[p] = e}
    /\ InRing = {e \in Events : \E i \in 1..count : Queued[i] = e}
    /\ InBatch = {e \in Events : \E i \in 1..Len(batch) : batch[i] = e}

LEMMA LiveElements == RingInv => LiveOK
<1> SUFFICES ASSUME RingInv PROVE LiveOK
  OBVIOUS
<1>1. \A p \in Producers : ev[p] # Nil => ev[p] \in Events
  BY DEF RingInv, TypeOK
<1>2. \A i \in 1..count : Queued[i] \in Events
  BY QueuedType
<1>3. \A i \in 1..Len(batch) : batch[i] \in Events
  BY DEF RingInv, TypeOK
<1> QED
  BY <1>1, <1>2, <1>3, RingAssumption DEF InPush, InRing, InBatch, LiveOK

LEMMA LiveElementsAfter == RingInv' => LiveOK'
BY LiveElements, PTL

LEMMA LiveDistinct ==
    ASSUME RingInv, SeqInv
    PROVE  /\ \A e, f \in Live : e.seq = f.seq => e = f
           /\ InPush \cap InRing = {} /\ InPush \cap InBatch = {} /\ InRing \cap InBatch = {}
<1>1. \A e \in InPush : \E p \in Producers : ev[p] = e /\ ev[p] # Nil
  BY DEF InPush
<1>2. \A e \in InRing : \E i \in 1..count : Queued[i] = e
  BY DEF InRing
<1>3. \A e \in InBatch : \E i \in 1..Len(batch) : batch[i] = e
  BY DEF InBatch
<1>4. \A e, f \in InPush : e.seq = f.seq => e = f
  BY <1>1 DEF SeqInv
<1>5. \A e, f \in InRing : e.seq = f.seq => e = f
  BY <1>2 DEF SeqInv
<1>6. \A e, f \in InBatch : e.seq = f.seq => e = f
  BY <1>3 DEF SeqInv
<1>7. \A e \in InPush, f \in InRing \cup InBatch : e.seq # f.seq
  BY <1>1, <1>2, <1>3 DEF SeqInv
<1>8. \A e \in InRing, f \in InBatch : e.seq # f.seq
  BY <1>2, <1>3 DEF SeqInv
<1> QED
  BY <1>4, <1>5, <1>6, <1>7, <1>8 DEF Live

\* Freeing the copies of some live events leaves those of the others.
LEMMA CopiesMinus ==
    ASSUME NEW S, NEW T \in SUBSET S, \A e, f \in S : e.seq = f.seq => e = f
    PROVE  Copies(S \ T) = Copies(S) \ Copies(T)
BY DEF Copies

LEMMA CopiesPlus ==
    ASSUME NEW S, NEW e
    PROVE  Copies(S \cup {e}) = IF e.kind = "code" THEN Copies(S) \cup {e.seq} ELSE Copies(S)
BY DEF Copies

\* How each step changes the set of live events.
LEMMA LiveStep ==
    ASSUME RingInv, RingInv', SeqInv, Next \/ UNCHANGED vars
    PROVE  \/ Live' = Live /\ heap' = heap
           \/ \E e \in Events : Live' = Live \cup {e}
                                /\ heap' = IF e.kind = "code" THEN heap \cup {e.seq} ELSE heap
           \/ \E T \in SUBSET Live : Live' = Live \ T /\ heap' = heap \ Copies(T)
<1> DEFINE Prod  == {e \in Events : \E p \in Producers : ev[p] = e}
           Rng   == {e \in Events : \E i \in 1..count : Queued[i] = e}
           Bat   == {e \in Events : \E i \in 1..Len(batch) : batch[i] = e}
<1>0. InPush = Prod /\ InRing = Rng /\ InBatch = Bat /\ InPush' = Prod' /\ InRing' = Rng' /\ InBatch' = Bat'
  BY LiveElements, LiveElementsAfter DEF LiveOK
<1>d. /\ \A e, f \in Live : e.seq = f.seq => e = f
      /\ InPush \cap InRing = {} /\ InPush \cap InBatch = {} /\ InRing \cap InBatch = {}
  BY LiveDistinct
<1>1. CASE Quiet \/ WriteEvent \/ \E p \in Producers : CopyFails(p)
  <2>1. ev' = ev /\ count' = count /\ batch' = batch /\ heap' = heap /\ Queued' = Queued
    BY <1>1, QuietKeepsData, QueueUntouched, WriteKeeps, CopyFailsKeeps DEF data
  <2> QED
    BY <2>1, <1>0 DEF Live
<1>2. ASSUME NEW p \in Producers, NEW kind \in {"code", "launch"}, Prepare(p, kind)
      PROVE  \E e \in Events : Live' = Live \cup {e}
                /\ heap' = IF e.kind = "code" THEN heap \cup {e.seq} ELSE heap
  <2>1. /\ ev[p] = Nil /\ ev'[p] \in Events /\ ev'[p].seq = nextSequence /\ ev'[p].kind = kind
        /\ \A q \in Producers : q # p => ev'[q] = ev[q]
        /\ UNCHANGED <<count, batch>> /\ Queued' = Queued
    BY <1>2, PrepareAdds
  <2>2. heap' = IF kind = "code" THEN heap \cup {nextSequence} ELSE heap
    BY <1>2 DEF Prepare
  <2>3. Prod' = Prod \cup {ev'[p]} /\ Rng' = Rng /\ Bat' = Bat
    BY <2>1, RingAssumption
  <2> QED
    BY <1>0, <2>1, <2>2, <2>3 DEF Live
<1>3. ASSUME NEW p \in Producers, Drop(p)
      PROVE  \E T \in SUBSET Live : Live' = Live \ T /\ heap' = heap \ Copies(T)
  <2>1. /\ ev[p] \in Events /\ ev[p] # Nil /\ ev'[p] = Nil /\ heap' = heap \ Copies({ev[p]})
        /\ \A q \in Producers : q # p => ev'[q] = ev[q]
        /\ UNCHANGED <<count, batch>> /\ Queued' = Queued
    BY <1>3, DropRemoves
  <2>2. \A q \in Producers : ev[q] = ev[p] => q = p
    BY <2>1 DEF SeqInv
  <2>3. ev[p] \in Prod /\ Prod' = Prod \ {ev[p]} /\ Rng' = Rng /\ Bat' = Bat
    BY <2>1, <2>2, RingAssumption
  <2>4. ev[p] \notin Rng /\ ev[p] \notin Bat
    BY <1>0, <1>d, <2>3
  <2> QED
    BY <1>0, <2>1, <2>3, <2>4 DEF Live
<1>4. ASSUME NEW p \in Producers, PushStored(p) PROVE Live' = Live /\ heap' = heap
  <2>1. /\ ev[p] \in Events /\ ev'[p] = Nil /\ heap' = heap
        /\ \A q \in Producers : q # p => ev'[q] = ev[q]
        /\ count' = count + 1 /\ \A i \in 1..count : Queued'[i] = Queued[i]
        /\ Queued'[count + 1] = ev[p] /\ batch' = batch
    BY <1>4, PushMoves, PushAppends
  <2>2. count \in Nat /\ \A i : i \in 1..count' <=> i \in 1..count \/ i = count + 1
    BY <2>1 DEF RingInv, TypeOK
  <2>3. Prod' \cup {ev[p]} = Prod \cup {ev[p]} /\ ev[p] \in Prod
    BY <2>1, RingAssumption
  <2>4. Rng' = Rng \cup {ev[p]}
    BY <2>1, <2>2
  <2> QED
    BY <1>0, <2>1, <2>3, <2>4 DEF Live
<1>5. CASE PopBatch
  <2>1. PICK n \in 1..count :
              /\ count' = count - n
              /\ \A i \in 1..(count - n) : Queued'[i] = Queued[n + i]
              /\ Len(batch') = n
              /\ \A i \in 1..n : batch'[i] = Queued[i]
    BY <1>5, PopTakesPrefix
  <2>2. count \in Nat /\ batch = <<>> /\ heap' = heap /\ ev' = ev
    BY <1>5, PopKeeps DEF RingInv, TypeOK
  <2>3. \A i \in 1..count : i \in 1..n \/ (i - n \in 1..(count - n) /\ i = n + (i - n))
    BY <2>1, <2>2
  <2>4. \A i \in 1..count : (\E j \in 1..Len(batch') : batch'[j] = Queued[i])
                            \/ (\E j \in 1..count' : Queued'[j] = Queued[i])
    BY <2>1, <2>3
  <2>5. \A j \in 1..Len(batch') : j \in 1..count /\ batch'[j] = Queued[j]
    BY <2>1, <2>2
  <2>6. \A j \in 1..count' : n + j \in 1..count /\ Queued'[j] = Queued[n + j]
    BY <2>1, <2>2
  <2>7. Rng = Rng' \cup Bat'
    BY <2>4, <2>5, <2>6
  <2>8. Bat = {} /\ Prod' = Prod
    BY <2>2
  <2> QED
    BY <1>0, <2>2, <2>7, <2>8 DEF Live
<1>6. ASSUME NEW next \in {"poll", "pause"}, ReleaseBatch(next)
      PROVE  \E T \in SUBSET Live : Live' = Live \ T /\ heap' = heap \ Copies(T)
  <2>1. /\ batch' = <<>> /\ heap' = heap \ Copies(InBatch) /\ UNCHANGED <<count, ev>>
        /\ Queued' = Queued
    BY <1>6, ReleaseEmpties
  <2>2. Bat' = {} /\ Prod' = Prod /\ Rng' = Rng
    BY <2>1
  <2>3. InBatch \in SUBSET Live /\ Live' = Live \ InBatch
    BY <1>0, <1>d, <2>2 DEF Live
  <2> QED
    BY <2>1, <2>3
<1>7. CASE InitRing \/ ShutdownRing
  <2>1. /\ count' = 0 /\ UNCHANGED <<ev, batch>>
        /\ \/ count = 0 /\ heap' = heap
           \/ heap' = heap \ Copies(StillQueued)
    BY <1>7, LoaderEmpties
  <2>2. StillQueued = InRing
    <3>1. \A i \in 0..(count - 1) : i + 1 \in 1..count /\ Queued[i + 1] = slots[Slot(i)]
                                    /\ slots[Slot(i)] # Nil
      <4> TAKE i \in 0..(count - 1)
      <4>1. i + 1 \in 1..count /\ (i + 1) - 1 = i
        BY DEF RingInv, TypeOK
      <4>2. slots[Slot(i)] # Nil
        BY RingAssumption DEF RingInv, Shape
      <4> QED
        BY <4>1, <4>2, QueuedType
    <3>2. \A i \in 1..count : i - 1 \in 0..(count - 1) /\ Queued[i] = slots[Slot(i - 1)]
      <4>1. \A i \in 1..count : Queued[i] = slots[Slot(i - 1)]
        BY QueuedType
      <4>2. count \in Nat
        BY RingAssumption DEF RingInv, TypeOK
      <4>3. \A i \in 1..count : i - 1 \in 0..(count - 1)
        BY <4>2
      <4> QED
        BY <4>1, <4>3
    <3> QED
      BY <3>1, <3>2 DEF StillQueued, InRing
  <2>3. Rng' = {} /\ Prod' = Prod /\ Bat' = Bat
    BY <2>1
  <2>4. count = 0 => Rng = {}
    OBVIOUS
  <2>5. InRing \in SUBSET Live /\ Live' = Live \ InRing
    BY <1>0, <1>d, <2>3 DEF Live
  <2>6. CASE count = 0 /\ heap' = heap
    BY <1>0, <2>4, <2>5, <2>6
  <2>7. CASE heap' = heap \ Copies(StillQueued)
    BY <2>2, <2>5, <2>7
  <2> QED
    BY <2>1, <2>6, <2>7
<1> QED
  BY NextCases, <1>1, <1>2, <1>3, <1>4, <1>5, <1>6, <1>7, Zenon

HeapInv == heap = Copies(Live)

LEMMA HeapStep ==
    ASSUME RingInv, RingInv', SeqInv, HeapInv, Next \/ UNCHANGED vars
    PROVE  HeapInv'
<1>1. CASE Live' = Live /\ heap' = heap
  BY <1>1 DEF HeapInv, Copies
<1>2. ASSUME NEW e \in Events, Live' = Live \cup {e},
             heap' = IF e.kind = "code" THEN heap \cup {e.seq} ELSE heap
      PROVE  HeapInv'
  <2>1. Copies(Live \cup {e}) = heap'
    BY <1>2, CopiesPlus DEF HeapInv
  <2> QED
    BY <1>2, <2>1 DEF HeapInv, Copies
<1>3. ASSUME NEW T \in SUBSET Live, Live' = Live \ T, heap' = heap \ Copies(T)
      PROVE  HeapInv'
  <2>1. Copies(Live \ T) = Copies(Live) \ Copies(T)
    BY CopiesMinus, LiveDistinct
  <2> QED
    BY <1>3, <2>1 DEF HeapInv, Copies
<1> QED
  BY LiveStep, <1>1, <1>2, <1>3

\* No heap copy is leaked, freed twice or used after it was freed, whichever of the
\* four paths frees it: the live copies are those of the events under way, and each
\* event has one owner.
THEOREM CopiesOwnedHolds == Spec => []CopiesOwned
<1>1. Init => HeapInv
  BY DEF Init, HeapInv, Live, Copies, InPush, InRing, InBatch, Queued
<1>2. RingInv /\ RingInv' /\ SeqInv /\ HeapInv /\ [Next]_vars => HeapInv'
  BY HeapStep
<1>3. RingInv /\ SeqInv /\ HeapInv => CopiesOwned
  BY LiveDistinct DEF HeapInv, Live, CopiesOwned
<1> QED
  BY <1>1, <1>2, <1>3, RingInvariant, SeqInvariant, PTL DEF Spec

-----------------------------------------------------------------------------
(* The count of dropped events. *)

LEMMA JoinedLength ==
    ASSUME NEW s \in Seq(Events), NEW t \in Seq(Events)
    PROVE  Len(s \o t) = Len(s) + Len(t)
OBVIOUS

CountInv == IsFiniteSet(InPush) /\ EventsConserved

LEMMA CountStep ==
    ASSUME RingInv, RingInv', SeqInv, CountInv, Next \/ UNCHANGED vars
    PROVE  CountInv'
<1>0. /\ attempts \in Nat /\ count \in Nat /\ Len(popped) \in Nat /\ discarded \in Nat
      /\ dropped \in Nat /\ IsFiniteSet(InPush) /\ Cardinality(InPush) \in Nat
      /\ attempts = Cardinality(InPush) + count + Len(popped) + discarded + dropped
  <2>1. IsFiniteSet(InPush) /\ Cardinality(InPush) \in Nat
    BY FS_CardinalityType DEF CountInv
  <2>2. /\ attempts \in Nat /\ count \in Nat /\ popped \in Seq(Events) /\ discarded \in Nat
        /\ dropped \in Nat
    BY RingAssumption DEF RingInv, TypeOK
  <2>3. Len(popped) \in Nat
    BY <2>2
  <2> QED
    BY <2>1, <2>2, <2>3 DEF CountInv, EventsConserved
<1>k. ASSUME InPush' = InPush,
             attempts' = Cardinality(InPush) + count' + Len(popped') + discarded' + dropped'
      PROVE  CountInv'
  BY <1>k, <1>0 DEF CountInv, EventsConserved
<1>1. CASE Quiet \/ WriteEvent \/ \E next \in {"poll", "pause"} : ReleaseBatch(next)
  <2>1. UNCHANGED <<ev, count, popped, discarded, dropped, attempts>>
    BY <1>1, QuietKeepsData, WriteKeeps, ReleaseEmpties DEF data
  <2> QED
    BY <2>1, <1>0, <1>k DEF InPush
<1>2. ASSUME NEW p \in Producers, CopyFails(p) PROVE CountInv'
  <2>1. UNCHANGED <<ev, count, popped, discarded>> /\ attempts' = attempts + 1 /\ dropped' = dropped + 1
    BY <1>2, CopyFailsKeeps
  <2>2. InPush' = InPush
    BY <2>1 DEF InPush
  <2> QED
    BY <2>1, <2>2, <1>0, <1>k
<1>3. ASSUME NEW p \in Producers, NEW kind \in {"code", "launch"}, Prepare(p, kind) PROVE CountInv'
  <2>1. /\ ev[p] = Nil /\ ev'[p] # Nil /\ ev'[p].tid = p
        /\ \A q \in Producers : q # p => ev'[q] = ev[q]
        /\ UNCHANGED <<count, popped, discarded, dropped>> /\ attempts' = attempts + 1
    BY <1>3, PrepareAdds DEF Prepare
  <2>2. InPush' = InPush \cup {ev'[p]}
    BY <2>1 DEF InPush
  <2>3. ev'[p] \notin InPush
    <3>1. \A q \in Producers : ev[q] # Nil => ev[q].tid = q
      BY DEF RingInv, Shape
    <3> QED
      BY <2>1, <3>1 DEF InPush
  <2>4. IsFiniteSet(InPush') /\ Cardinality(InPush') = Cardinality(InPush) + 1
    BY <1>0, <2>2, <2>3, FS_AddElement
  <2> QED
    BY <1>0, <2>1, <2>4 DEF CountInv, EventsConserved
<1>4. ASSUME NEW p \in Producers, Drop(p) \/ PushStored(p) PROVE CountInv'
  <2>1. /\ ev[p] # Nil /\ ev'[p] = Nil
        /\ \A q \in Producers : q # p => ev'[q] = ev[q]
        /\ UNCHANGED <<popped, discarded, attempts>>
    BY <1>4, DropRemoves, PushMoves
  <2>0. \/ count' = count + 1 /\ dropped' = dropped
        \/ count' = count /\ dropped' = dropped + 1
    BY <1>4, DropRemoves, PushMoves, PushAppends
  <2>2. \A q \in Producers : ev[q] = ev[p] => q = p
    BY <2>1 DEF SeqInv
  <2>3. InPush' = InPush \ {ev[p]} /\ ev[p] \in InPush
    BY <2>1, <2>2 DEF InPush
  <2>4. IsFiniteSet(InPush') /\ Cardinality(InPush') = Cardinality(InPush) - 1
    BY <1>0, <2>3, FS_RemoveElement
  <2> QED
    BY <1>0, <2>0, <2>1, <2>4 DEF CountInv, EventsConserved
<1>5. CASE PopBatch
  <2>1. PICK n \in 1..count : count' = count - n /\ Len(batch') = n /\ batch' \in Seq(Events)
                              /\ popped' = popped \o batch'
    BY <1>5, PopTakesPrefix
  <2>2. UNCHANGED <<ev, discarded, dropped, attempts>>
    BY <1>5, PopKeeps
  <2>3. Len(popped') = Len(popped) + n
    <3>1. popped \in Seq(Events) /\ batch' \in Seq(Events)
      BY <2>1 DEF RingInv, TypeOK
    <3> QED
      BY <2>1, <3>1, JoinedLength
  <2>4. InPush' = InPush
    BY <2>2 DEF InPush
  <2> QED
    BY <1>0, <1>k, <2>1, <2>2, <2>3, <2>4
<1>6. CASE InitRing \/ ShutdownRing
  <2>1. /\ count' = 0 /\ UNCHANGED <<ev, popped, attempts, dropped>>
        /\ discarded' = discarded + count
    <3>1. count' = 0 /\ UNCHANGED <<ev, popped, attempts, dropped>>
      BY <1>6, LoaderEmpties
    <3>2. (count = 0 /\ discarded' = discarded) \/ discarded' = discarded + count
      BY <1>6, LoaderEmpties
    <3> QED
      BY <1>0, <3>1, <3>2
  <2>2. InPush' = InPush
    BY <2>1 DEF InPush
  <2> QED
    BY <1>0, <1>k, <2>1, <2>2
<1> QED
  BY NextCases, <1>1, <1>2, <1>3, <1>4, <1>5, <1>6, Zenon

\* The drop counter is exact, also for events dropped because the lock was taken.
THEOREM EventsConservedHolds == Spec => []EventsConserved
<1>1. Init => CountInv
  <2> SUFFICES ASSUME Init PROVE CountInv
    OBVIOUS
  <2>1. InPush = {}
    BY DEF Init, InPush
  <2> QED
    BY <2>1, FS_EmptySet DEF Init, CountInv, EventsConserved
<1>2. RingInv /\ RingInv' /\ SeqInv /\ CountInv /\ [Next]_vars => CountInv'
  BY CountStep
<1>3. CountInv => EventsConserved
  BY DEF CountInv
<1> QED
  BY <1>1, <1>2, <1>3, RingInvariant, SeqInvariant, PTL DEF Spec

-----------------------------------------------------------------------------
(* The order of one thread's events. *)

\* Of two events of a thread, the one further on its way has the smaller number.
InOrder(e, f) == e.tid = f.tid => e.seq < f.seq

OrderInv ==
    /\ \A i, j \in 1..Len(sent) : i < j => InOrder(sent[i], sent[j])
    /\ \A i, j \in (pos + 1)..Len(batch) : i < j => InOrder(batch[i], batch[j])
    /\ \A i, j \in 1..count : i < j => InOrder(Queued[i], Queued[j])
    /\ \A i \in 1..Len(sent), j \in (pos + 1)..Len(batch) : InOrder(sent[i], batch[j])
    /\ \A i \in 1..Len(sent), j \in 1..count : InOrder(sent[i], Queued[j])
    /\ \A i \in (pos + 1)..Len(batch), j \in 1..count : InOrder(batch[i], Queued[j])
    /\ \A p \in Producers : ev[p] # Nil =>
          /\ \A i \in 1..Len(sent) : InOrder(sent[i], ev[p])
          /\ \A i \in (pos + 1)..Len(batch) : InOrder(batch[i], ev[p])
          /\ \A i \in 1..count : InOrder(Queued[i], ev[p])
    /\ \A i \in 1..Len(sent) : sent[i].seq < nextSequence

LEMMA OrderStep ==
    ASSUME RingInv, RingInv', SeqInv, OrderInv, Next \/ UNCHANGED vars
    PROVE  OrderInv'
<1>0. /\ count \in Nat /\ pos \in Nat /\ Len(batch) \in Nat /\ Len(sent) \in Nat
      /\ \A i \in 1..Len(sent) : sent[i] \in Events
      /\ \A i \in 1..Len(batch) : batch[i] \in Events
      /\ \A i \in (pos + 1)..Len(batch) : i \in 1..Len(batch)
  <2>1. /\ count \in Nat /\ batch \in Seq(Events) /\ sent \in Seq(Events) /\ pos \in 0..Len(batch)
    BY RingAssumption DEF RingInv, TypeOK
  <2>2. /\ Len(sent) \in Nat /\ \A i \in 1..Len(sent) : sent[i] \in Events
        /\ Len(batch) \in Nat /\ \A i \in 1..Len(batch) : batch[i] \in Events
    BY <2>1
  <2> QED
    BY <2>1, <2>2
<1>1. CASE Quiet
  <2>1. UNCHANGED data /\ Queued' = Queued
    BY <1>1, QuietKeepsData, QueueUntouched DEF data
  <2> QED
    BY <2>1 DEF OrderInv, data
<1>2. ASSUME NEW p \in Producers, NEW kind \in {"code", "launch"}, Prepare(p, kind) PROVE OrderInv'
  <2>1. /\ ev'[p].seq = nextSequence
        /\ \A q \in Producers : q # p => ev'[q] = ev[q]
        /\ nextSequence' = nextSequence + 1 /\ nextSequence \in Nat
        /\ Queued' = Queued /\ UNCHANGED <<count, batch, pos, sent>>
    BY <1>2, PrepareAdds
  <2>2. /\ \A i \in 1..Len(sent) : sent[i].seq \in Nat /\ sent[i].seq < nextSequence
        /\ \A i \in 1..Len(batch) : batch[i].seq < nextSequence
        /\ \A i \in 1..count : Queued[i].seq < nextSequence
    BY <1>0, EventFields DEF SeqInv, OrderInv
  <2>3. /\ \A i \in 1..Len(sent) : InOrder(sent[i], ev'[p])
        /\ \A i \in (pos + 1)..Len(batch) : InOrder(batch[i], ev'[p])
        /\ \A i \in 1..count : InOrder(Queued[i], ev'[p])
    BY <1>0, <2>1, <2>2 DEF InOrder
  <2>4. \A i \in 1..Len(sent) : sent[i].seq < nextSequence'
    BY <2>1, <2>2
  <2>5. \A q \in Producers : ev'[q] # Nil =>
          /\ \A i \in 1..Len(sent) : InOrder(sent[i], ev'[q])
          /\ \A i \in (pos + 1)..Len(batch) : InOrder(batch[i], ev'[q])
          /\ \A i \in 1..count : InOrder(Queued[i], ev'[q])
    BY <2>1, <2>3 DEF OrderInv
  <2> QED
    BY <2>1, <2>4, <2>5 DEF OrderInv, InOrder
<1>3. ASSUME NEW p \in Producers, CopyFails(p) \/ Drop(p) PROVE OrderInv'
  <2>1. /\ \A q \in Producers : ev'[q] = Nil \/ ev'[q] = ev[q]
        /\ Queued' = Queued /\ UNCHANGED <<count, batch, pos, sent, nextSequence>>
    BY <1>3, CopyFailsKeeps, DropRemoves
  <2> QED
    BY <2>1 DEF OrderInv, InOrder
<1>4. ASSUME NEW p \in Producers, PushStored(p) PROVE OrderInv'
  <2>1. /\ ev[p] # Nil /\ ev'[p] = Nil /\ \A q \in Producers : q # p => ev'[q] = ev[q]
        /\ UNCHANGED <<batch, pos, sent, nextSequence>>
        /\ count' = count + 1 /\ \A i \in 1..count : Queued'[i] = Queued[i]
        /\ Queued'[count + 1] = ev[p]
    BY <1>4, PushMoves, PushAppends
  <2>2. \A i \in 1..count' : i \in 1..count \/ (i = count + 1 /\ Queued'[i] = ev[p])
    BY <1>0, <2>1
  <2>3. \A i, j \in 1..count' : i < j => i \in 1..count
    BY <1>0, <2>1
  <2>4. \A q \in Producers : ev'[q] # Nil => q # p /\ ev[q] # Nil /\ InOrder(ev[p], ev'[q])
    <3>1. \A q \in Producers : ev[q] # Nil => ev[q].tid = q
      BY DEF RingInv, Shape
    <3> QED
      BY <2>1, <3>1 DEF InOrder
  <2>5. \A i, j \in 1..count' : i < j => InOrder(Queued'[i], Queued'[j])
    BY <2>1, <2>2, <2>3 DEF OrderInv
  <2>6. /\ \A i \in 1..Len(sent), j \in 1..count' : InOrder(sent[i], Queued'[j])
        /\ \A i \in (pos + 1)..Len(batch), j \in 1..count' : InOrder(batch[i], Queued'[j])
    BY <2>1, <2>2 DEF OrderInv
  <2>7. \A q \in Producers : ev'[q] # Nil =>
          /\ \A i \in 1..Len(sent) : InOrder(sent[i], ev'[q])
          /\ \A i \in (pos + 1)..Len(batch) : InOrder(batch[i], ev'[q])
          /\ \A i \in 1..count' : InOrder(Queued'[i], ev'[q])
    BY <2>1, <2>2, <2>4 DEF OrderInv
  <2> QED
    BY <2>1, <2>5, <2>6, <2>7 DEF OrderInv, InOrder
<1>5. CASE PopBatch
  <2>1. PICK n \in 1..count :
              /\ count' = count - n
              /\ \A i \in 1..(count - n) : Queued'[i] = Queued[n + i]
              /\ Len(batch') = n
              /\ \A i \in 1..n : batch'[i] = Queued[i]
    BY <1>5, PopTakesPrefix
  <2>2. pos' = 0 /\ UNCHANGED <<ev, sent, nextSequence>>
    BY <1>5, PopKeeps
  <2>3. \A i \in 1..count' : n + i \in 1..count /\ Queued'[i] = Queued[n + i]
    BY <1>0, <2>1
  <2>4. \A i \in (pos' + 1)..Len(batch') : i \in 1..count /\ batch'[i] = Queued[i]
    BY <1>0, <2>1, <2>2
  <2>5. \A i \in (pos' + 1)..Len(batch'), j \in 1..count' : i < n + j
    BY <1>0, <2>1, <2>2
  <2>6. \A i, j \in 1..count' : i < j => n + i < n + j
    BY <1>0, <2>1
  <2>7. /\ \A i, j \in (pos' + 1)..Len(batch') : i < j => InOrder(batch'[i], batch'[j])
        /\ \A i \in 1..Len(sent), j \in (pos' + 1)..Len(batch') : InOrder(sent[i], batch'[j])
    BY <2>4 DEF OrderInv
  <2>8. /\ \A i, j \in 1..count' : i < j => InOrder(Queued'[i], Queued'[j])
        /\ \A i \in 1..Len(sent), j \in 1..count' : InOrder(sent[i], Queued'[j])
    BY <2>3, <2>6 DEF OrderInv
  <2>9. \A i \in (pos' + 1)..Len(batch'), j \in 1..count' : InOrder(batch'[i], Queued'[j])
    BY <2>3, <2>4, <2>5 DEF OrderInv
  <2>10. \A q \in Producers : ev[q] # Nil =>
          /\ \A i \in (pos' + 1)..Len(batch') : InOrder(batch'[i], ev[q])
          /\ \A i \in 1..count' : InOrder(Queued'[i], ev[q])
    BY <2>3, <2>4 DEF OrderInv
  <2> QED
    BY <2>2, <2>7, <2>8, <2>9, <2>10 DEF OrderInv, InOrder
<1>6. CASE WriteEvent
  <2>1. Queued' = Queued /\ UNCHANGED <<count, ev, batch, nextSequence>>
    BY <1>6, WriteKeeps
  <2>2. /\ pos + 1 \in 1..Len(batch) /\ pos + 1 \in (pos + 1)..Len(batch)
        /\ sent' = Append(sent, batch[pos + 1]) /\ pos' = pos + 1
    BY <1>0, <1>6 DEF WriteEvent
  <2>3. /\ Len(sent') = Len(sent) + 1
        /\ \A i \in 1..Len(sent) : sent'[i] = sent[i]
        /\ sent'[Len(sent) + 1] = batch[pos + 1]
    BY <2>2, <1>0 DEF RingInv, TypeOK
  <2>4. \A i \in 1..Len(sent') : \/ i \in 1..Len(sent) /\ sent'[i] = sent[i]
                                 \/ i = Len(sent) + 1 /\ sent'[i] = batch[pos + 1]
    BY <1>0, <2>3
  <2>5. \A i, j \in 1..Len(sent') : i < j => i \in 1..Len(sent)
    BY <1>0, <2>3
  <2>6. \A i \in (pos' + 1)..Len(batch) : i \in (pos + 1)..Len(batch) /\ pos + 1 < i
    BY <1>0, <2>2
  <2>7. \A i, j \in 1..Len(sent') : i < j => InOrder(sent'[i], sent'[j])
    BY <2>2, <2>4, <2>5 DEF OrderInv
  <2>8. /\ \A i \in 1..Len(sent'), j \in (pos' + 1)..Len(batch) : InOrder(sent'[i], batch[j])
        /\ \A i \in 1..Len(sent'), j \in 1..count : InOrder(sent'[i], Queued[j])
    BY <2>2, <2>4, <2>6 DEF OrderInv
  <2>9. /\ \A i, j \in (pos' + 1)..Len(batch) : i < j => InOrder(batch[i], batch[j])
        /\ \A i \in (pos' + 1)..Len(batch), j \in 1..count : InOrder(batch[i], Queued[j])
    BY <2>6 DEF OrderInv
  <2>10. \A q \in Producers : ev[q] # Nil =>
          /\ \A i \in 1..Len(sent') : InOrder(sent'[i], ev[q])
          /\ \A i \in (pos' + 1)..Len(batch) : InOrder(batch[i], ev[q])
    BY <2>2, <2>4, <2>6 DEF OrderInv
  <2>11. \A i \in 1..Len(sent') : sent'[i].seq < nextSequence
    BY <2>2, <2>4 DEF OrderInv, SeqInv
  <2> QED
    BY <2>1, <2>7, <2>8, <2>9, <2>10, <2>11 DEF OrderInv, InOrder
<1>7. ASSUME NEW next \in {"poll", "pause"}, ReleaseBatch(next) PROVE OrderInv'
  <2>1. /\ Queued' = Queued /\ UNCHANGED <<count, ev, sent, nextSequence>>
        /\ Len(batch') = 0 /\ pos' = 0
    BY <1>7, ReleaseEmpties
  <2>2. (pos' + 1)..Len(batch') = {}
    BY <2>1
  <2> QED
    BY <2>1, <2>2 DEF OrderInv, InOrder
<1>8. CASE InitRing \/ ShutdownRing
  <2>1. count' = 0 /\ 1..count' = {} /\ UNCHANGED <<ev, batch, pos, sent, nextSequence>>
    BY <1>8, LoaderEmpties
  <2> QED
    BY <2>1 DEF OrderInv, InOrder
<1> QED
  BY NextCases, <1>1, <1>2, <1>3, <1>4, <1>5, <1>6, <1>7, <1>8, Zenon

\* The collector receives the events of a thread in the order of their numbers, over
\* any number of reconnections and lost batches.
THEOREM ThreadOrderHolds == Spec => []ThreadOrder
<1>1. Init => OrderInv
  BY DEF Init, OrderInv
<1>2. RingInv /\ RingInv' /\ SeqInv /\ OrderInv /\ [Next]_vars => OrderInv'
  BY OrderStep
<1>3. OrderInv => ThreadOrder
  BY DEF OrderInv, InOrder, ThreadOrder
<1> QED
  BY <1>1, <1>2, <1>3, RingInvariant, SeqInvariant, PTL DEF Spec
================================================================================
