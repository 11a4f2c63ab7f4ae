----------------------------- MODULE CollectorProofs -----------------------------
(***************************************************************************)
(* Theorems about Collector for any number of sessions, connections,       *)
(* events and batch and channel sizes.                                     *)
(*                                                                         *)
(* A handler passes through its clean-up steps in one direction: while it  *)
(* is before the first, the session may have an open batch; while it is    *)
(* before the last, the registry may name it.  A command to terminate is   *)
(* followed from the verdict through the channel and the lookup to the     *)
(* connection it is written to.                                            *)
(*                                                                         *)
(* The order of launches and code is one relation of five stations: what   *)
(* the process has sent, the wire and the handler's envelope of each       *)
(* connection, the batches, and the flow to the processor.  What a station *)
(* holds of a connection lies below everything the stations before it hold *)
(* or will hold.                                                           *)
(***************************************************************************)
EXTENDS Collector, SequenceTheorems, TLAPS

Places == {"none", "accept", "read", "store", "endBatch", "endSession", "unregister", "closed"}
Batching == {"read", "store", "endBatch"}
Attached == {"read", "store", "endBatch", "endSession", "unregister"}

Shape ==
    /\ alive \in [Sessions -> BOOLEAN] /\ cur \in [Sessions -> Nat]
    /\ handler \in [Conns -> Places]
    /\ registry \in [Sessions -> Conns \cup {NoConn}] /\ DOMAIN batches = Sessions
    /\ verdictCh \in Seq(Verdicts) /\ control \in Conns \cup {NoConn}

\* A connection is made once.
NotMadeYet == \A c \in Conns : c[2] > cur[c[1]] => handler[c] = "none"

Registered ==
    \A s \in Sessions : registry[s] # NoConn =>
        Session(registry[s]) = s /\ handler[registry[s]] \in Attached

Batched ==
    \A s \in Sessions : batches[s] # <<>> =>
        \E c \in Conns : Session(c) = s /\ handler[c] \in Batching

Sound(v, those) == v.action = "terminate" => v.session \in those

Decided ==
    /\ \A i \in 1..Len(verdictCh) : Sound(verdictCh[i], decided)
    /\ control # NoConn => Session(control) \in decided
    /\ OnlyDecidedTerminated

CollectorInv == Shape /\ NotMadeYet /\ Registered /\ Batched /\ Decided

-----------------------------------------------------------------------------
LEMMA ConnFacts ==
    /\ NoConn \notin Conns
    /\ \A c \in Conns : Session(c) \in Sessions /\ c = <<c[1], c[2]>> /\ c[2] \in 1..MaxConns
    /\ \A s \in Sessions, k \in 1..MaxConns : <<s, k>> \in Conns
BY CollectorAssumption DEF Conns, Session

LEMMA InitInv == Init => CollectorInv
<1> SUFFICES ASSUME Init PROVE CollectorInv
  OBVIOUS
<1>1. Shape
  BY DEF Init, Shape, Places
<1>2. NotMadeYet /\ Registered /\ Batched
  BY DEF Init, NotMadeYet, Registered, Batched
<1>3. Decided
  BY DEF Init, Decided, Sound, OnlyDecidedTerminated
<1> QED
  BY <1>1, <1>2, <1>3 DEF CollectorInv

\* A handler that moves on, without its entry or its batch losing their handler.
LEMMA HandlerMoves ==
    ASSUME CollectorInv, NEW c \in Conns, NEW p \in Places \ {"none"}, handler[c] # "none",
           handler' = [handler EXCEPT ![c] = p],
           UNCHANGED <<alive, cur, verdictCh, control, decided>>,
           registry' \in [Sessions -> Conns \cup {NoConn}], DOMAIN batches' = Sessions,
           \A s \in Sessions :
              \/ registry'[s] = NoConn
              \/ registry'[s] = registry[s] /\ (registry[s] = c => p \in Attached)
              \/ registry'[s] = c /\ Session(c) = s /\ p \in Attached,
           \A s \in Sessions :
              \/ batches'[s] = <<>>
              \/ batches'[s] = batches[s] /\ (Session(c) = s /\ handler[c] \in Batching => p \in Batching)
              \/ Session(c) = s /\ p \in Batching
    PROVE  CollectorInv'
<1>1. /\ handler' \in [Conns -> Places] /\ handler'[c] = p
      /\ \A x \in Conns : x # c => handler'[x] = handler[x]
  BY DEF CollectorInv, Shape
<1>2. Shape'
  BY <1>1 DEF CollectorInv, Shape
<1>3. NotMadeYet'
  BY <1>1 DEF CollectorInv, NotMadeYet
<1>4. Registered'
  BY <1>1 DEF CollectorInv, Registered, Shape, Session
<1>5. Batched'
  <2>1. ASSUME NEW s \in Sessions, batches'[s] # <<>>
        PROVE  \E x \in Conns : Session(x) = s /\ handler'[x] \in Batching
    <3>1. CASE Session(c) = s /\ p \in Batching
      BY <1>1, <3>1
    <3>2. CASE batches'[s] = batches[s] /\ (Session(c) = s /\ handler[c] \in Batching => p \in Batching)
      <4>1. PICK x \in Conns : Session(x) = s /\ handler[x] \in Batching
        BY <2>1, <3>2 DEF CollectorInv, Batched
      <4> QED
        BY <1>1, <3>2, <4>1
    <3> QED
      BY <2>1, <3>1, <3>2
  <2> QED
    BY <2>1 DEF Batched, Session
<1>6. Decided'
  BY DEF CollectorInv, Decided, Sound, OnlyDecidedTerminated, Session
<1> QED
  BY <1>2, <1>3, <1>4, <1>5, <1>6 DEF CollectorInv

LEMMA HandlerInv ==
    ASSUME CollectorInv, NEW c \in Conns, HandlerStep(c)
    PROVE  CollectorInv'
<1>1. /\ Session(c) \in Sessions /\ c # NoConn
      /\ registry \in [Sessions -> Conns \cup {NoConn}] /\ DOMAIN batches = Sessions
  BY ConnFacts DEF CollectorInv, Shape
<1>2. CASE ReadAndRegister(c)
  <2>1. /\ handler[c] # "none" /\ "store" \in Places \ {"none"} /\ "store" \in Attached
        /\ "store" \in Batching
        /\ handler' = [handler EXCEPT ![c] = "store"] /\ registry' = [registry EXCEPT ![Session(c)] = c]
        /\ UNCHANGED <<alive, cur, verdictCh, control, decided, batches>>
    BY <1>2 DEF ReadAndRegister, Places, Attached, Batching, hook, proc, batching
  <2> QED
    BY <1>1, <2>1, HandlerMoves
<1>3. ASSUME NEW after \in {"read", "endBatch"}, Store(c, after) PROVE CollectorInv'
  <2>1. /\ handler[c] # "none" /\ after \in Places \ {"none"} /\ after \in Attached
        /\ after \in Batching /\ handler' = [handler EXCEPT ![c] = after]
        /\ UNCHANGED <<alive, cur, verdictCh, control, decided, registry>>
    BY <1>3 DEF Store, Places, Attached, Batching, hook, proc, batching
  <2>2. batches' = batches \/ \E rows : batches' = [batches EXCEPT ![Session(c)] = rows]
    BY <1>3 DEF Store, BatcherAdd
  <2> QED
    BY <1>1, <2>1, <2>2, HandlerMoves
<1>4. CASE HandlerReturns(c)
  <2>1. /\ handler[c] # "none"
        /\ UNCHANGED <<alive, cur, verdictCh, control, decided, registry, batches>>
    BY <1>4 DEF HandlerReturns, hook, proc, batching
  <2>2. CASE handler[c] = "accept"
    <3>1. handler' = [handler EXCEPT ![c] = "closed"] /\ "closed" \in Places \ {"none"}
          /\ handler[c] \notin Batching
      BY <1>4, <2>2 DEF HandlerReturns, Places, Batching, CollectorInv, Shape
    <3>2. \A s \in Sessions : registry[s] # c
      BY <1>1, <2>2 DEF CollectorInv, Registered, Attached
    <3> QED
      BY <1>1, <2>1, <3>1, <3>2, HandlerMoves
  <2>3. CASE handler[c] # "accept"
    <3>1. handler' = [handler EXCEPT ![c] = "endBatch"] /\ "endBatch" \in Places \ {"none"}
          /\ "endBatch" \in Batching /\ "endBatch" \in Attached
      BY <1>4, <2>3 DEF HandlerReturns, Places, Batching, Attached, CollectorInv, Shape
    <3> QED
      BY <1>1, <2>1, <3>1, HandlerMoves
  <2> QED
    BY <2>2, <2>3
<1>5. CASE EndBatch(c)
  <2>1. /\ handler[c] # "none" /\ "endSession" \in Places \ {"none"} /\ "endSession" \in Attached
        /\ handler' = [handler EXCEPT ![c] = "endSession"]
        /\ batches' = [batches EXCEPT ![Session(c)] = <<>>]
        /\ UNCHANGED <<alive, cur, verdictCh, control, decided, registry>>
    BY <1>5 DEF EndBatch, Places, Attached, hook, proc, batching
  <2> QED
    BY <1>1, <2>1, HandlerMoves
<1>6. CASE EndSession(c)
  <2>1. /\ handler[c] # "none" /\ "unregister" \in Places \ {"none"} /\ "unregister" \in Attached
        /\ handler[c] \notin Batching /\ handler' = [handler EXCEPT ![c] = "unregister"]
        /\ UNCHANGED <<alive, cur, verdictCh, control, decided, registry, batches>>
    BY <1>6 DEF EndSession, Places, Attached, Batching, hook, proc, batching
  <2> QED
    BY <1>1, <2>1, HandlerMoves
<1>7. CASE Unregister(c)
  <2>1. /\ handler[c] # "none" /\ "closed" \in Places \ {"none"}
        /\ handler[c] \notin Batching /\ handler' = [handler EXCEPT ![c] = "closed"]
        /\ registry' = Unregistered(c)
        /\ UNCHANGED <<alive, cur, verdictCh, control, decided, batches>>
    BY <1>7 DEF Unregister, Places, Batching, hook, proc, batching
  <2>2. \A s \in Sessions : registry[s] = c => s = Session(c)
    BY <1>1 DEF CollectorInv, Registered
  <2>3. /\ registry' \in [Sessions -> Conns \cup {NoConn}]
        /\ \A s \in Sessions : registry'[s] = NoConn \/ (registry'[s] = registry[s] /\ registry[s] # c)
    BY <1>1, <2>1, <2>2 DEF Unregistered
  <2> QED
    BY <1>1, <2>1, <2>3, HandlerMoves
<1> QED
  BY <1>2, <1>3, <1>4, <1>5, <1>6, <1>7 DEF HandlerStep

LEMMA ClientInv ==
    ASSUME CollectorInv, NEW s \in Sessions,
           ClientStep(s) \/ \E lost \in BOOLEAN : ConnectionBreaks(s, lost)
    PROVE  CollectorInv'
<1>1. CASE ClientConnect(s)
  <2> DEFINE c == <<s, cur[s] + 1>>
  <2>1. /\ handler' = [handler EXCEPT ![c] = "accept"] /\ cur' = [cur EXCEPT ![s] = @ + 1]
        /\ UNCHANGED <<alive, registry, batches, verdictCh, control, decided>>
        /\ cur[s] < MaxConns /\ cur[s] \in Nat /\ cur \in [Sessions -> Nat]
    BY <1>1 DEF ClientConnect, CollectorInv, Shape, proc, batching
  <2>2. c \in Conns /\ c[1] = s /\ c[2] = cur[s] + 1
    <3>1. cur[s] + 1 \in 1..MaxConns
      BY <2>1, CollectorAssumption
    <3> QED
      BY <3>1, ConnFacts
  <2>3. handler[c] = "none"
    BY <2>1, <2>2 DEF CollectorInv, NotMadeYet
  <2> HIDE DEF c
  <2>4. /\ handler' \in [Conns -> Places] /\ handler'[c] = "accept"
        /\ \A x \in Conns : x # c => handler'[x] = handler[x]
    BY <2>1, <2>2 DEF CollectorInv, Shape, Places
  <2>5. Shape'
    BY <2>1, <2>4 DEF CollectorInv, Shape
  <2>6. NotMadeYet'
    <3>1. ASSUME NEW x \in Conns, x[2] > cur'[x[1]]
          PROVE  handler'[x] = "none"
      <4>1. x[1] \in Sessions /\ x[2] \in Nat
        BY ConnFacts DEF Session
      <4>2. x # c /\ x[2] > cur[x[1]]
        BY <2>1, <2>2, <3>1, <4>1
      <4> QED
        BY <2>4, <4>2 DEF CollectorInv, NotMadeYet
    <3> QED
      BY <3>1 DEF NotMadeYet
  <2>7. Registered'
    <3>1. \A r \in Sessions : registry[r] # c
      BY <2>2, <2>3, ConnFacts DEF CollectorInv, Registered, Attached
    <3>2. \A r \in Sessions : registry[r] # NoConn => registry[r] \in Conns
      BY DEF CollectorInv, Shape
    <3> QED
      BY <2>1, <2>4, <3>1, <3>2 DEF CollectorInv, Registered, Session
  <2>8. Batched'
    <3>1. ASSUME NEW r \in Sessions, batches[r] # <<>>
          PROVE  \E x \in Conns : Session(x) = r /\ handler'[x] \in Batching
      <4>1. PICK x \in Conns : Session(x) = r /\ handler[x] \in Batching
        BY <3>1 DEF CollectorInv, Batched
      <4>2. x # c
        BY <2>3, <4>1 DEF Batching
      <4> QED
        BY <2>4, <4>1, <4>2
    <3> QED
      BY <2>1, <3>1 DEF Batched, Session
  <2>9. Decided'
    BY <2>1 DEF CollectorInv, Decided, Sound, OnlyDecidedTerminated, Session
  <2> QED
    BY <2>5, <2>6, <2>7, <2>8, <2>9 DEF CollectorInv
<1>2. CASE ~ClientConnect(s)
  <2>1. UNCHANGED <<alive, cur, handler, registry, batches, verdictCh, control, decided>>
    BY <1>2 DEF ClientStep, ClientSend, ClientStats, ConnectionBreaks, hook, proc, batching
  <2> QED
    BY <2>1 DEF CollectorInv, Shape, NotMadeYet, Registered, Batched, Decided, Sound,
                OnlyDecidedTerminated, Session
<1> QED
  BY <1>1, <1>2

LEMMA FlushInv ==
    ASSUME CollectorInv, FlushAll
    PROVE  CollectorInv'
<1>1. PICK s : /\ batches' = [batches EXCEPT ![s] = <<>>]
               /\ UNCHANGED <<alive, cur, handler, registry, verdictCh, control, decided>>
  BY DEF FlushAll, hook, conns, proc
<1>2. DOMAIN batches' = Sessions /\ \A r \in Sessions : batches'[r] # <<>> => batches'[r] = batches[r]
  BY <1>1 DEF CollectorInv, Shape
<1> QED
  BY <1>1, <1>2 DEF CollectorInv, Shape, NotMadeYet, Registered, Batched, Decided, Sound,
              OnlyDecidedTerminated, Session

LEMMA VerdictInv ==
    ASSUME CollectorInv, NEW s \in Sessions, NEW action \in {"log", "terminate"},
           VerdictArrives(s, action)
    PROVE  CollectorInv'
<1> DEFINE v == [session |-> s, action |-> action]
<1>1. /\ decided' = IF action = "terminate" THEN decided \cup {s} ELSE decided
      /\ verdictCh' = Append(verdictCh, v) \/ verdictCh' = verdictCh
      /\ UNCHANGED <<alive, cur, handler, registry, batches, control>>
  BY DEF VerdictArrives, hook, conns, batching
<1>2. decided \subseteq decided'
  BY <1>1
<1>3. v \in Verdicts /\ Sound(v, decided')
  BY <1>1 DEF Verdicts, Sound
<1>4. \A x : Sound(x, decided) => Sound(x, decided')
  BY <1>2 DEF Sound
<1> HIDE DEF v
<1>5. /\ verdictCh' \in Seq(Verdicts)
      /\ \A i \in 1..Len(verdictCh') : Sound(verdictCh'[i], decided')
  <2>1. verdictCh \in Seq(Verdicts) /\ \A i \in 1..Len(verdictCh) : Sound(verdictCh[i], decided)
    BY DEF CollectorInv, Shape, Decided
  <2>2. CASE verdictCh' = verdictCh
    BY <1>4, <2>1, <2>2
  <2>3. CASE verdictCh' = Append(verdictCh, v)
    <3>1. /\ verdictCh' \in Seq(Verdicts) /\ Len(verdictCh') = Len(verdictCh) + 1
          /\ Len(verdictCh) \in Nat /\ verdictCh'[Len(verdictCh) + 1] = v
          /\ \A i \in 1..Len(verdictCh) : verdictCh'[i] = verdictCh[i]
      BY <1>3, <2>1, <2>3
    <3>2. \A i \in 1..Len(verdictCh') : i \in 1..Len(verdictCh) \/ i = Len(verdictCh) + 1
      BY <3>1
    <3>3. ASSUME NEW i \in 1..Len(verdictCh') PROVE Sound(verdictCh'[i], decided')
      <4>1. CASE i \in 1..Len(verdictCh)
        BY <1>4, <2>1, <3>1, <4>1
      <4>2. CASE i = Len(verdictCh) + 1
        BY <1>3, <3>1, <4>2
      <4> QED
        BY <3>2, <4>1, <4>2
    <3> QED
      BY <3>1, <3>3
  <2> QED
    BY <1>1, <2>2, <2>3
<1>6. Decided'
  <2>1. \A i \in 1..Len(verdictCh') : Sound(verdictCh'[i], decided')
    BY <1>5 DEF Sound
  <2>2. (control # NoConn => Session(control) \in decided)' /\ OnlyDecidedTerminated'
    BY <1>1, <1>2 DEF CollectorInv, Decided, Sound, OnlyDecidedTerminated, Session
  <2> QED
    BY <2>1, <2>2 DEF Decided
<1> QED
  BY <1>1, <1>5, <1>6 DEF CollectorInv, Shape, NotMadeYet, Registered, Batched, Session

LEMMA LookUpInv ==
    ASSUME CollectorInv, LookUpSession
    PROVE  CollectorInv'
<1>1. /\ verdictCh # <<>> /\ verdictCh' = Tail(verdictCh)
      /\ control' = Addressee(Head(verdictCh))
      /\ UNCHANGED <<alive, cur, handler, registry, batches, decided>>
  BY DEF LookUpSession, hook, conns, proc, batching
<1>2. verdictCh \in Seq(Verdicts) /\ \A i \in 1..Len(verdictCh) : Sound(verdictCh[i], decided)
  BY DEF CollectorInv, Shape, Decided
<1>3. /\ verdictCh' \in Seq(Verdicts) /\ Head(verdictCh) = verdictCh[1] /\ 1 \in 1..Len(verdictCh)
      /\ Head(verdictCh) \in Verdicts
      /\ \A i \in 1..Len(verdictCh') : verdictCh'[i] = verdictCh[i + 1] /\ i + 1 \in 1..Len(verdictCh)
  BY <1>1, <1>2
<1>4. Sound(Head(verdictCh), decided) /\ \A i \in 1..Len(verdictCh') : Sound(verdictCh'[i], decided)
  BY <1>2, <1>3
<1>5. /\ control' \in Conns \cup {NoConn}
      /\ control' # NoConn => Session(control') \in decided
  <2>1. Head(verdictCh).session \in Sessions
    BY <1>3 DEF Verdicts
  <2>2. CASE Head(verdictCh).action = "terminate"
    <3>1. control' = registry[Head(verdictCh).session] /\ Head(verdictCh).session \in decided
      BY <1>1, <1>4, <2>2 DEF Addressee, Sound
    <3> QED
      BY <2>1, <3>1 DEF CollectorInv, Shape, Registered
  <2>3. CASE Head(verdictCh).action # "terminate"
    BY <1>1, <2>3 DEF Addressee
  <2> QED
    BY <2>2, <2>3
<1>6. Decided'
  <2>1. \A i \in 1..Len(verdictCh') : Sound(verdictCh'[i], decided')
    BY <1>1, <1>4 DEF Sound
  <2>2. (control # NoConn => Session(control) \in decided)' /\ OnlyDecidedTerminated'
    BY <1>1, <1>5 DEF CollectorInv, Decided, Sound, OnlyDecidedTerminated, Session
  <2> QED
    BY <2>1, <2>2 DEF Decided
<1> QED
  BY <1>1, <1>3, <1>5, <1>6 DEF CollectorInv, Shape, NotMadeYet, Registered, Batched, Session

LEMMA ControlInv ==
    ASSUME CollectorInv, SendControl
    PROVE  CollectorInv'
<1>1. /\ control # NoConn /\ control' = NoConn
      /\ alive' = alive \/ alive' = [alive EXCEPT ![Session(control)] = FALSE]
      /\ UNCHANGED <<cur, handler, registry, batches, verdictCh, decided>>
  BY DEF SendControl, proc, batching
<1>2. alive' \in [Sessions -> BOOLEAN] /\ \A s \in Sessions : ~alive'[s] => ~alive[s] \/ s = Session(control)
  BY <1>1 DEF CollectorInv, Shape
<1>3. Decided'
  BY <1>1, <1>2 DEF CollectorInv, Decided, Sound, OnlyDecidedTerminated
<1> QED
  BY <1>1, <1>2, <1>3 DEF CollectorInv, Shape, NotMadeYet, Registered, Batched, Session

LEMMA NextInv == CollectorInv /\ [Next]_vars => CollectorInv'
<1> SUFFICES ASSUME CollectorInv, [Next]_vars PROVE CollectorInv'
  OBVIOUS
<1>1. ASSUME LinkUp \/ WriteMessage \/ (\E lose \in BOOLEAN : LinkDown(lose)) \/ UNCHANGED vars
      PROVE  CollectorInv'
  <2>1. UNCHANGED <<alive, cur, handler, registry, batches, verdictCh, control, decided>>
    BY <1>1 DEF LinkUp, WriteMessage, LinkDown, vars, hook, conns, proc, batching
  <2> QED
    BY <2>1 DEF CollectorInv, Shape, NotMadeYet, Registered, Batched, Decided, Sound,
                OnlyDecidedTerminated, Session
<1> QED
  BY <1>1, ClientInv, HandlerInv, FlushInv, VerdictInv, LookUpInv, ControlInv DEF Next

LEMMA Invariant == Spec => []CollectorInv
BY InitInv, NextInv, PTL DEF Spec

-----------------------------------------------------------------------------
(* The numbers of a connection, from the wire through the handler, the batch *)
(* and the channel to the processor.                                         *)

Numbered(e) == e \in [kind : {"code", "launch"}, n : 1..MaxSent]
InHand(e)   == IF Numbered(e) THEN {e.n} ELSE {}
Rest(w)     == {w[i].n : i \in {j \in DOMAIN w : Numbered(w[j])}}
Increasing(w) ==
    \A i, j \in DOMAIN w : i < j /\ Numbered(w[i]) /\ Numbered(w[j]) => w[i].n < w[j].n

\* What the collector has not stored yet of each connection: its numbers rise, the envelope
\* in hand comes first, and they have been sent.
ClientAt(e, w, f) ==
    \A c \in Conns :
        /\ Increasing(w[c])
        /\ \A a \in InHand(f[c]), b \in Rest(w[c]) : a < b
        /\ InHand(f[c]) \cup Rest(w[c]) \subseteq 1..e[Session(c)]

\* The numbers below all that their connection still holds or will hold.
StoredAt(e, w, f) ==
    {x \in Rows : /\ x.n =< e[Session(x.conn)]
                  /\ \A a \in InHand(f[x.conn]) \cup Rest(w[x.conn]) : x.n < a}

LessThan(x, y) == x.conn = y.conn => x.n < y.n

Marks(m) ==
    IF m.type = "code" THEN <<[conn |-> m.conn, n |-> m.n]>> ELSE RowsIn(m)

Rising(rows) == \A k, l \in DOMAIN rows : k < l => LessThan(rows[k], rows[l])

\* The launches in front of rows.
InFrontOf(q, rows) ==
    \A i \in DOMAIN q : \A k \in DOMAIN RowsIn(q[i]), l \in DOMAIN rows :
        LessThan(RowsIn(q[i])[k], rows[l])

Ordered(q) ==
    /\ \A i \in DOMAIN q : Rising(RowsIn(q[i]))
    /\ \A i, j \in DOMAIN q : i < j =>
         \A k \in DOMAIN RowsIn(q[i]), l \in DOMAIN Marks(q[j]) :
            LessThan(RowsIn(q[i])[k], Marks(q[j])[l])

FlowAt(q, stored) ==
    /\ Ordered(q)
    /\ \A i \in DOMAIN q : \A k \in DOMAIN Marks(q[i]) : Marks(q[i])[k] \in stored

BatchAt(q, b, stored) ==
    \A s \in Sessions :
        /\ Rising(b[s]) /\ InFrontOf(q, b[s])
        /\ \A k \in DOMAIN b[s] : Session(b[s][k].conn) = s /\ b[s][k] \in stored

\* The order along the whole way, as a relation of its five stations.
OrderAt(e, w, f, b, q) ==
    /\ ClientAt(e, w, f) /\ FlowAt(q, StoredAt(e, w, f)) /\ BatchAt(q, b, StoredAt(e, w, f))

OrderShape ==
    /\ cur \in [Sessions -> 0..MaxConns] /\ events \in [Sessions -> 0..MaxSent]
    /\ wire \in [Conns -> Seq(Envelopes)]
    /\ frame \in [Conns -> Envelopes \cup {<<>>}]
    /\ batches \in [Sessions -> Seq(Rows)]
    /\ arrived \in Seq(Messages) /\ sendCh \in Seq(Messages)

Holding == \A c \in Conns : handler[c] = "store" => frame[c] \in Envelopes

OrderInv == OrderShape /\ OrderAt(events, wire, frame, batches, Flow) /\ Holding

-----------------------------------------------------------------------------
(* Lemmas about sequences of envelopes. *)

LEMMA Unnumbered == ~Numbered(<<>>) /\ \A k \in {"info", "hello", "stats"} : ~Numbered([kind |-> k])
<1>1. ~Numbered(<<>>)
  <2> SUFFICES ASSUME Numbered(<<>>) PROVE FALSE
    OBVIOUS
  <2>1. DOMAIN <<>> = {"kind", "n"}
    BY DEF Numbered
  <2> QED
    BY <2>1
<1>2. \A k \in {"info", "hello", "stats"} : ~Numbered([kind |-> k])
  BY DEF Numbered
<1> QED
  BY <1>1, <1>2

LEMMA NumberedEnvelope ==
    \A e : Numbered(e) => e \in Envelopes /\ e.n \in Nat /\ e.kind \in {"code", "launch"}
BY CollectorAssumption DEF Numbered, Envelopes

LEMMA NoWire == ASSUME NEW w, w = <<>> PROVE w \in Seq(Envelopes) /\ Rest(w) = {} /\ Increasing(w)
BY DEF Rest, Increasing

LEMMA ShortWire ==
    ASSUME NEW k \in {"info", "hello", "stats"}, NEW w, w = <<[kind |-> k]>>
    PROVE  w \in Seq(Envelopes) /\ Rest(w) = {} /\ Increasing(w)
<1>1. w \in Seq(Envelopes) /\ DOMAIN w = {1} /\ w[1] = [kind |-> k]
  BY DEF Envelopes
<1>2. \A i \in DOMAIN w : ~Numbered(w[i])
  BY <1>1, Unnumbered
<1> QED
  BY <1>1, <1>2 DEF Rest, Increasing

LEMMA LongerWire ==
    ASSUME NEW w \in Seq(Envelopes), NEW e \in Envelopes, Increasing(w),
           \A a \in Rest(w), b \in InHand(e) : a < b
    PROVE  /\ Append(w, e) \in Seq(Envelopes) /\ Increasing(Append(w, e))
           /\ Rest(Append(w, e)) = Rest(w) \cup InHand(e)
<1> DEFINE v == Append(w, e)
<1>1. /\ v \in Seq(Envelopes) /\ Len(v) = Len(w) + 1 /\ Len(w) \in Nat /\ v[Len(w) + 1] = e
      /\ \A i \in 1..Len(w) : v[i] = w[i]
      /\ DOMAIN v = 1..(Len(w) + 1) /\ DOMAIN w = 1..Len(w)
  OBVIOUS
<1> HIDE DEF v
<1>2. \A i \in DOMAIN v : i \in DOMAIN w \/ i = Len(w) + 1
  BY <1>1
<1>3. Rest(v) = Rest(w) \cup InHand(e)
  <2>1. ASSUME NEW x \in Rest(v) PROVE x \in Rest(w) \cup InHand(e)
    <3>1. PICK i \in DOMAIN v : Numbered(v[i]) /\ x = v[i].n
      BY <2>1 DEF Rest
    <3> QED
      BY <1>1, <1>2, <3>1 DEF Rest, InHand
  <2>2. ASSUME NEW x \in Rest(w) PROVE x \in Rest(v)
    <3>1. PICK i \in DOMAIN w : Numbered(w[i]) /\ x = w[i].n
      BY <2>2 DEF Rest
    <3>2. i \in DOMAIN v /\ v[i] = w[i]
      BY <1>1
    <3> QED
      BY <3>1, <3>2 DEF Rest
  <2>3. ASSUME NEW x \in InHand(e) PROVE x \in Rest(v)
    <3>1. Numbered(e) /\ x = e.n
      BY <2>3 DEF InHand
    <3>2. Len(w) + 1 \in DOMAIN v
      BY <1>1
    <3> QED
      BY <1>1, <3>1, <3>2 DEF Rest
  <2> QED
    BY <2>1, <2>2, <2>3
<1>4. Increasing(v)
  <2> SUFFICES ASSUME NEW i \in DOMAIN v, NEW j \in DOMAIN v, i < j, Numbered(v[i]), Numbered(v[j])
               PROVE  v[i].n < v[j].n
    BY DEF Increasing
  <2>1. i \in DOMAIN w /\ v[i] = w[i]
    BY <1>1, <1>2
  <2>2. CASE j \in DOMAIN w
    BY <1>1, <2>1, <2>2 DEF Increasing
  <2>3. CASE j = Len(w) + 1
    <3>1. v[i].n \in Rest(w) /\ v[j].n \in InHand(e)
      BY <1>1, <2>1, <2>3 DEF Rest, InHand
    <3> QED
      BY <3>1
  <2> QED
    BY <1>2, <2>2, <2>3
<1> QED
  BY <1>1, <1>3, <1>4 DEF v

LEMMA ShorterWire ==
    ASSUME NEW w \in Seq(Envelopes), w # <<>>, Increasing(w)
    PROVE  /\ Head(w) \in Envelopes /\ Tail(w) \in Seq(Envelopes) /\ Increasing(Tail(w))
           /\ InHand(Head(w)) \cup Rest(Tail(w)) \subseteq Rest(w)
           /\ \A a \in InHand(Head(w)), b \in Rest(Tail(w)) : a < b
<1> DEFINE v == Tail(w)
<1>1. /\ v \in Seq(Envelopes) /\ Len(w) \in Nat \ {0} /\ Head(w) = w[1] /\ Head(w) \in Envelopes
      /\ DOMAIN w = 1..Len(w) /\ DOMAIN v = 1..(Len(w) - 1)
      /\ \A i \in 1..(Len(w) - 1) : v[i] = w[i + 1]
  OBVIOUS
<1> HIDE DEF v
<1>2. \A i \in DOMAIN v : i \in Nat \ {0} /\ i + 1 \in DOMAIN w /\ v[i] = w[i + 1]
  BY <1>1
<1>3. 1 \in DOMAIN w
  BY <1>1
<1>4. Increasing(v)
  <2> SUFFICES ASSUME NEW i \in DOMAIN v, NEW j \in DOMAIN v, i < j, Numbered(v[i]), Numbered(v[j])
               PROVE  v[i].n < v[j].n
    BY DEF Increasing
  <2>1. i + 1 < j + 1
    BY <1>2
  <2> QED
    BY <1>2, <2>1 DEF Increasing
<1>5. ASSUME NEW b \in Rest(v)
      PROVE  b \in Rest(w) /\ \A a \in InHand(Head(w)) : a < b
  <2>1. PICK i \in DOMAIN v : Numbered(v[i]) /\ b = v[i].n
    BY <1>5 DEF Rest
  <2>2. b \in Rest(w)
    BY <1>2, <2>1 DEF Rest
  <2>3. ASSUME NEW a \in InHand(Head(w)) PROVE a < b
    <3>1. Numbered(w[1]) /\ a = w[1].n
      BY <1>1, <2>3 DEF InHand
    <3>2. 1 < i + 1
      BY <1>2
    <3> QED
      BY <1>2, <1>3, <2>1, <3>1, <3>2 DEF Increasing
  <2> QED
    BY <2>2, <2>3
<1>6. InHand(Head(w)) \subseteq Rest(w)
  BY <1>1, <1>3 DEF InHand, Rest
<1> QED
  BY <1>1, <1>4, <1>5, <1>6 DEF v

-----------------------------------------------------------------------------
(* Lemmas about sequences of messages. *)

LEMMA MarkFacts ==
    ASSUME NEW m \in Messages
    PROVE  /\ RowsIn(m) \in Seq(Rows) /\ Marks(m) \in Seq(Rows)
           /\ m.type = "code" => RowsIn(m) = <<>> /\ m.conn \in Conns /\ m.n \in 1..MaxSent
           /\ m.type # "code" => Marks(m) = RowsIn(m)
           /\ m.type \notin {"code", "launches"} => RowsIn(m) = <<>>
<1>1. m.type = "code" => m.conn \in Conns /\ m.n \in 1..MaxSent
  BY DEF Messages
<1>2. m.type = "launches" => m.rows \in Seq(Rows)
  BY DEF Messages
<1>3. m.type = "code" => [conn |-> m.conn, n |-> m.n] \in Rows
  BY <1>1 DEF Rows
<1>4. <<>> \in Seq(Rows) /\ \A x \in Rows : <<x>> \in Seq(Rows)
  OBVIOUS
<1> QED
  BY <1>1, <1>2, <1>3, <1>4 DEF RowsIn, Marks

LEMMA RowFacts == ASSUME NEW x \in Rows PROVE x.conn \in Conns /\ x.n \in Nat
BY CollectorAssumption DEF Rows

LEMMA AppendOrdered ==
    ASSUME NEW q \in Seq(Messages), NEW m \in Messages, Ordered(q), Rising(RowsIn(m)),
           InFrontOf(q, Marks(m))
    PROVE  Ordered(Append(q, m))
<1> DEFINE r == Append(q, m)
<1>1. /\ Len(q) \in Nat /\ DOMAIN q = 1..Len(q) /\ DOMAIN r = 1..(Len(q) + 1)
      /\ r[Len(q) + 1] = m /\ \A i \in DOMAIN q : r[i] = q[i]
  OBVIOUS
<1> HIDE DEF r
<1>2. \A i \in DOMAIN r : i \in DOMAIN q \/ i = Len(q) + 1
  BY <1>1
<1>3. ASSUME NEW i \in DOMAIN r PROVE Rising(RowsIn(r[i]))
  BY <1>1, <1>2 DEF Ordered
<1>4. ASSUME NEW i \in DOMAIN r, NEW j \in DOMAIN r, i < j,
             NEW k \in DOMAIN RowsIn(r[i]), NEW l \in DOMAIN Marks(r[j])
      PROVE  LessThan(RowsIn(r[i])[k], Marks(r[j])[l])
  <2>1. i \in DOMAIN q /\ r[i] = q[i]
    BY <1>1, <1>2, <1>4
  <2>2. CASE j \in DOMAIN q
    <3>1. r[j] = q[j]
      BY <1>1, <2>2
    <3> QED
      BY <1>4, <2>1, <2>2, <3>1 DEF Ordered
  <2>3. CASE j = Len(q) + 1
    <3>1. r[j] = m
      BY <1>1, <2>3
    <3> QED
      BY <1>4, <2>1, <3>1 DEF InFrontOf
  <2> QED
    BY <1>2, <2>2, <2>3
<1> QED
  BY <1>3, <1>4 DEF Ordered, r

LEMMA AppendInFront ==
    ASSUME NEW q \in Seq(Messages), NEW m \in Messages, NEW rows, InFrontOf(q, rows),
           \A k \in DOMAIN RowsIn(m), l \in DOMAIN rows : LessThan(RowsIn(m)[k], rows[l])
    PROVE  InFrontOf(Append(q, m), rows)
<1> DEFINE r == Append(q, m)
<1>1. /\ Len(q) \in Nat /\ DOMAIN q = 1..Len(q) /\ DOMAIN r = 1..(Len(q) + 1)
      /\ r[Len(q) + 1] = m /\ \A i \in DOMAIN q : r[i] = q[i]
  OBVIOUS
<1> HIDE DEF r
<1>2. \A i \in DOMAIN r : i \in DOMAIN q \/ i = Len(q) + 1
  BY <1>1
<1>3. ASSUME NEW i \in DOMAIN r, NEW k \in DOMAIN RowsIn(r[i]), NEW l \in DOMAIN rows
      PROVE  LessThan(RowsIn(r[i])[k], rows[l])
  <2>1. CASE i \in DOMAIN q
    <3>1. r[i] = q[i]
      BY <1>1, <2>1
    <3> QED
      BY <1>3, <2>1, <3>1 DEF InFrontOf
  <2>2. CASE i = Len(q) + 1
    <3>1. r[i] = m
      BY <1>1, <2>2
    <3> QED
      BY <1>3, <3>1
  <2> QED
    BY <1>2, <2>1, <2>2
<1> QED
  BY <1>3 DEF InFrontOf, r

\* A sequence that keeps some of the messages of another, in their order.
Thinned(r, q) ==
    \E h \in [DOMAIN r -> DOMAIN q] :
        /\ \A i \in DOMAIN r : r[i] = q[h[i]]
        /\ \A i, j \in DOMAIN r : i < j => h[i] < h[j]

LEMMA ThinnedOrdered ==
    ASSUME NEW q, NEW r, Thinned(r, q), Ordered(q)
    PROVE  /\ Ordered(r)
           /\ \A rows : InFrontOf(q, rows) => InFrontOf(r, rows)
           /\ \A i \in DOMAIN r : \E j \in DOMAIN q : r[i] = q[j]
<1>1. PICK h \in [DOMAIN r -> DOMAIN q] :
        /\ \A i \in DOMAIN r : r[i] = q[h[i]]
        /\ \A i, j \in DOMAIN r : i < j => h[i] < h[j]
  BY DEF Thinned
<1>2. \A i \in DOMAIN r : h[i] \in DOMAIN q /\ r[i] = q[h[i]]
  BY <1>1
<1>3. ASSUME NEW i \in DOMAIN r PROVE Rising(RowsIn(r[i]))
  BY <1>2 DEF Ordered
<1>4. ASSUME NEW i \in DOMAIN r, NEW j \in DOMAIN r, i < j,
             NEW k \in DOMAIN RowsIn(r[i]), NEW l \in DOMAIN Marks(r[j])
      PROVE  LessThan(RowsIn(r[i])[k], Marks(r[j])[l])
  <2>1. /\ h[i] \in DOMAIN q /\ h[j] \in DOMAIN q /\ h[i] < h[j]
        /\ r[i] = q[h[i]] /\ r[j] = q[h[j]]
    BY <1>1, <1>2, <1>4
  <2>2. k \in DOMAIN RowsIn(q[h[i]]) /\ l \in DOMAIN Marks(q[h[j]])
    BY <1>4, <2>1
  <2> QED
    BY <2>1, <2>2 DEF Ordered
<1>5. ASSUME NEW rows, InFrontOf(q, rows) PROVE InFrontOf(r, rows)
  <2> SUFFICES ASSUME NEW i \in DOMAIN r, NEW k \in DOMAIN RowsIn(r[i]), NEW l \in DOMAIN rows
               PROVE  LessThan(RowsIn(r[i])[k], rows[l])
    BY DEF InFrontOf
  <2>1. h[i] \in DOMAIN q /\ r[i] = q[h[i]]
    BY <1>2
  <2> QED
    BY <1>5, <2>1 DEF InFrontOf
<1> QED
  BY <1>2, <1>3, <1>4, <1>5 DEF Ordered

LEMMA FlowType == ASSUME OrderShape PROVE Flow \in Seq(Messages)
BY ConcatProperties DEF OrderShape, Flow

LEMMA FlowSame == ASSUME NEW q \in Seq(Messages) PROVE Thinned(q, q)
<1>1. [i \in DOMAIN q |-> i] \in [DOMAIN q -> DOMAIN q]
  OBVIOUS
<1> QED
  BY <1>1 DEF Thinned

LEMMA FlowAppended ==
    ASSUME OrderShape, NEW m \in Messages, arrived' = arrived, sendCh' = Append(sendCh, m)
    PROVE  Flow' = Append(Flow, m)
<1>1. arrived \in Seq(Messages) /\ sendCh \in Seq(Messages)
  BY DEF OrderShape
<1>2. arrived \o Append(sendCh, m) = Append(arrived \o sendCh, m)
  BY <1>1
<1> QED
  BY <1>2 DEF Flow

\* The oldest message of the channel is lost, or is not one that counts.
LEMMA FlowDropped ==
    ASSUME OrderShape, sendCh # <<>>, arrived' = arrived, sendCh' = Tail(sendCh)
    PROVE  Thinned(Flow', Flow)
<1> DEFINE a == Len(arrived)  z == Len(sendCh)  r == arrived \o Tail(sendCh)  q == arrived \o sendCh
<1>1. /\ arrived \in Seq(Messages) /\ sendCh \in Seq(Messages) /\ Tail(sendCh) \in Seq(Messages)
      /\ a \in Nat /\ z \in Nat \ {0} /\ Len(Tail(sendCh)) = z - 1
      /\ \A i \in 1..(z - 1) : Tail(sendCh)[i] = sendCh[i + 1]
  BY DEF OrderShape
<1>2. /\ DOMAIN q = 1..(a + z) /\ DOMAIN r = 1..(a + z - 1)
      /\ \A i \in 1..(a + z) : q[i] = IF i =< a THEN arrived[i] ELSE sendCh[i - a]
      /\ \A i \in 1..(a + z - 1) : r[i] = IF i =< a THEN arrived[i] ELSE sendCh[i - a + 1]
  <2>1. /\ q \in Seq(Messages) /\ Len(q) = a + z
        /\ \A i \in 1..(a + z) : q[i] = IF i =< a THEN arrived[i] ELSE sendCh[i - a]
    BY <1>1, ConcatProperties
  <2>2. /\ r \in Seq(Messages) /\ Len(r) = a + (z - 1)
        /\ \A i \in 1..(a + (z - 1)) : r[i] = IF i =< a THEN arrived[i] ELSE Tail(sendCh)[i - a]
    BY <1>1, ConcatProperties
  <2>3. a + (z - 1) = a + z - 1
    BY <1>1
  <2>4. ASSUME NEW i \in 1..(a + z - 1), ~(i =< a) PROVE Tail(sendCh)[i - a] = sendCh[i - a + 1]
    <3>1. i - a \in 1..(z - 1)
      BY <1>1, <2>4
    <3> QED
      BY <1>1, <3>1
  <2> QED
    BY <2>1, <2>2, <2>3, <2>4
<1> DEFINE h == [i \in DOMAIN r |-> IF i =< a THEN i ELSE i + 1]
<1> HIDE DEF a, z, r, q
<1>3. h \in [DOMAIN r -> DOMAIN q] /\ \A i, j \in DOMAIN r : i < j => h[i] < h[j]
  BY <1>1, <1>2
<1>4. ASSUME NEW i \in DOMAIN r PROVE r[i] = q[h[i]]
  <2>1. CASE i =< a
    BY <1>1, <1>2, <2>1
  <2>2. CASE ~(i =< a)
    <3>1. h[i] = i + 1
      BY <2>2
    <3>2. i \in 1..(a + z - 1)
      BY <1>2
    <3>3. r[i] = sendCh[i - a + 1]
      BY <1>2, <2>2, <3>2
    <3>4. \A j \in 1..(a + z) : ~(j =< a) => q[j] = sendCh[j - a]
      BY <1>2
    <3>5. PICK j \in Int : j = i + 1
      BY <3>2
    <3>6. j \in 1..(a + z) /\ ~(j =< a) /\ j - a = i - a + 1
      BY <1>1, <2>2, <3>2, <3>5
    <3>7. q[j] = sendCh[j - a]
      BY <3>4, <3>6
    <3> QED
      BY <3>1, <3>3, <3>5, <3>6, <3>7
  <2> QED
    BY <2>1, <2>2
<1>5. Thinned(r, q)
  BY <1>3, <1>4 DEF Thinned
<1> QED
  BY <1>5 DEF Flow, r, q

LEMMA FlowMoved ==
    ASSUME OrderShape, sendCh # <<>>, arrived' = Append(arrived, Head(sendCh)),
           sendCh' = Tail(sendCh)
    PROVE  Flow' = Flow
<1>1. arrived \in Seq(Messages) /\ sendCh \in Seq(Messages)
  BY DEF OrderShape
<1>2. Append(arrived, Head(sendCh)) \o Tail(sendCh) = arrived \o sendCh
  BY <1>1
<1> QED
  BY <1>2 DEF Flow


-----------------------------------------------------------------------------
(* How the stations change together. *)

LEMMA LessRead ==
    ASSUME NEW e \in [Sessions -> 0..MaxSent],
           NEW w \in [Conns -> Seq(Envelopes)], NEW v \in [Conns -> Seq(Envelopes)],
           NEW f, NEW g, ClientAt(e, w, f),
           \A c \in Conns :
              /\ Increasing(v[c])
              /\ \A a \in InHand(g[c]), b \in Rest(v[c]) : a < b
              /\ InHand(g[c]) \cup Rest(v[c]) \subseteq InHand(f[c]) \cup Rest(w[c])
    PROVE  ClientAt(e, v, g) /\ StoredAt(e, w, f) \subseteq StoredAt(e, v, g)
<1>1. ClientAt(e, v, g)
  BY DEF ClientAt
<1>2. StoredAt(e, w, f) \subseteq StoredAt(e, v, g)
  BY RowFacts DEF StoredAt
<1> QED
  BY <1>1, <1>2

LEMMA OneMoreSent ==
    ASSUME NEW e \in [Sessions -> 0..MaxSent], NEW d \in [Sessions -> 0..MaxSent],
           NEW w \in [Conns -> Seq(Envelopes)], NEW v \in [Conns -> Seq(Envelopes)], NEW f,
           ClientAt(e, w, f), NEW c \in Conns, NEW x \in Envelopes, Numbered(x),
           x.n = e[Session(c)] + 1, d[Session(c)] = e[Session(c)] + 1,
           \A s \in Sessions : s # Session(c) => d[s] = e[s],
           v[c] = Append(w[c], x), \A y \in Conns : y # c => v[y] = w[y]
    PROVE  ClientAt(d, v, f) /\ StoredAt(e, w, f) \subseteq StoredAt(d, v, f)
<1> DEFINE n == e[Session(c)] + 1
<1>1. Session(c) \in Sessions /\ e[Session(c)] \in Nat /\ MaxSent \in Nat
  BY ConnFacts, CollectorAssumption
<1>2. InHand(x) = {n}
  BY DEF InHand
<1>3. ASSUME NEW s \in Sessions PROVE e[s] \in 0..MaxSent /\ d[s] \in 0..MaxSent /\ e[s] =< d[s]
  <2>1. e[s] \in 0..MaxSent /\ d[s] \in 0..MaxSent
    OBVIOUS
  <2>2. d[s] = e[s] \/ d[s] = e[s] + 1
    OBVIOUS
  <2> QED
    BY <1>1, <2>1, <2>2
<1>4. w[c] \in Seq(Envelopes) /\ Increasing(w[c]) /\ \A a \in Rest(w[c]), b \in InHand(x) : a < b
  <2>1. \A a \in Rest(w[c]) : a \in 1..e[Session(c)]
    BY DEF ClientAt
  <2> QED
    BY <1>1, <1>2, <2>1 DEF ClientAt
<1>5. Increasing(v[c]) /\ Rest(v[c]) = Rest(w[c]) \cup {n}
  BY <1>2, <1>4, LongerWire
<1>7. ClientAt(d, v, f)
  <2> SUFFICES ASSUME NEW y \in Conns
               PROVE  /\ Increasing(v[y])
                      /\ \A a \in InHand(f[y]), b \in Rest(v[y]) : a < b
                      /\ InHand(f[y]) \cup Rest(v[y]) \subseteq 1..d[Session(y)]
    BY DEF ClientAt
  <2>1. /\ Increasing(w[y])
        /\ \A a \in InHand(f[y]), b \in Rest(w[y]) : a < b
        /\ \A a \in InHand(f[y]) \cup Rest(w[y]) : a \in 1..e[Session(y)]
    BY DEF ClientAt
  <2>2. Session(y) \in Sessions /\ e[Session(y)] \in Nat /\ d[Session(y)] \in Nat /\ e[Session(y)] =< d[Session(y)]
    BY <1>3, ConnFacts
  <2>3. \A a \in InHand(f[y]) \cup Rest(w[y]) : a \in 1..d[Session(y)]
    BY <2>1, <2>2
  <2>4. CASE y = c
    <3>1. \A a \in InHand(f[y]) : a < n
      BY <1>1, <2>1, <2>4
    <3>2. n \in 1..d[Session(c)]
      BY <1>1
    <3> HIDE DEF n
    <3> QED
      BY <1>5, <2>1, <2>3, <2>4, <3>1, <3>2
  <2>5. CASE y # c
    BY <2>1, <2>3, <2>5
  <2> QED
    BY <2>4, <2>5
<1>8. ASSUME NEW y \in StoredAt(e, w, f) PROVE y \in StoredAt(d, v, f)
  <2>1. /\ y \in Rows /\ y.conn \in Conns /\ y.n \in Nat /\ y.n =< e[Session(y.conn)]
        /\ \A a \in InHand(f[y.conn]) \cup Rest(w[y.conn]) : y.n < a
    BY <1>8, RowFacts DEF StoredAt
  <2>2. Session(y.conn) \in Sessions
    BY <2>1, ConnFacts
  <2>3. y.n =< d[Session(y.conn)]
    BY <1>3, <2>1, <2>2
  <2>4. ASSUME NEW a \in InHand(f[y.conn]) \cup Rest(v[y.conn]) PROVE y.n < a
    <3>1. CASE y.conn = c
      <4>1. y.n < n
        BY <1>1, <2>1, <3>1
      <4> QED
        BY <1>5, <2>1, <2>4, <3>1, <4>1
    <3>2. CASE y.conn # c
      BY <2>1, <2>4, <3>2
    <3> QED
      BY <3>1, <3>2
  <2> QED
    BY <2>1, <2>3, <2>4 DEF StoredAt
<1> QED
  BY <1>7, <1>8

\* An event that leaves the hand of its handler is passed, and all that was passed is below it.
LEMMA OneMoreStored ==
    ASSUME NEW e \in [Sessions -> 0..MaxSent], NEW w \in [Conns -> Seq(Envelopes)],
           NEW f, NEW g, ClientAt(e, w, f), NEW c \in Conns, Numbered(f[c]), g[c] = <<>>,
           NEW x \in Rows, x.conn = c, x.n = f[c].n
    PROVE  x \in StoredAt(e, w, g) /\ \A y \in StoredAt(e, w, f) : LessThan(y, x)
<1>1. f[c].n \in 1..MaxSent /\ InHand(f[c]) = {f[c].n}
  BY DEF Numbered, InHand
<1>3. InHand(g[c]) = {}
  BY Unnumbered DEF InHand
<1>4. x \in StoredAt(e, w, g)
  <2>1. /\ \A b \in Rest(w[c]) : f[c].n < b
        /\ f[c].n \in 1..e[Session(c)]
    BY <1>1 DEF ClientAt
  <2>2. f[c].n =< e[Session(c)]
    BY <2>1, ConnFacts
  <2> QED
    BY <1>3, <2>1, <2>2 DEF StoredAt
<1>5. \A y \in StoredAt(e, w, f) : LessThan(y, x)
  BY <1>1 DEF StoredAt, LessThan
<1> QED
  BY <1>4, <1>5

LEMMA NothingInFront ==
    ASSUME NEW rows, rows = <<>>
    PROVE  Rising(rows) /\ \A q : InFrontOf(q, rows)
BY DEF Rising, InFrontOf

\* Messages and batches may be lost.
LEMMA OrderKept ==
    ASSUME NEW q, NEW r, NEW b, NEW d, NEW S, NEW T,
           FlowAt(q, S), BatchAt(q, b, S), S \subseteq T, Thinned(r, q),
           \A s \in Sessions : d[s] = b[s] \/ d[s] = <<>>
    PROVE  FlowAt(r, T) /\ BatchAt(r, d, T)
<1>1. /\ Ordered(r)
      /\ \A rows : InFrontOf(q, rows) => InFrontOf(r, rows)
      /\ \A i \in DOMAIN r : \E j \in DOMAIN q : r[i] = q[j]
  BY ThinnedOrdered DEF FlowAt
<1>2. FlowAt(r, T)
  <2>1. ASSUME NEW i \in DOMAIN r, NEW k \in DOMAIN Marks(r[i]) PROVE Marks(r[i])[k] \in T
    <3>1. PICK j \in DOMAIN q : r[i] = q[j]
      BY <1>1
    <3>2. k \in DOMAIN Marks(q[j])
      BY <3>1
    <3> QED
      BY <3>1, <3>2 DEF FlowAt
  <2> QED
    BY <1>1, <2>1 DEF FlowAt
<1>3. ASSUME NEW s \in Sessions
      PROVE  /\ Rising(d[s]) /\ InFrontOf(r, d[s])
             /\ \A k \in DOMAIN d[s] : Session(d[s][k].conn) = s /\ d[s][k] \in T
  <2>1. CASE d[s] = b[s]
    BY <1>1, <2>1 DEF BatchAt
  <2>2. CASE d[s] = <<>>
    BY <2>2, NothingInFront
  <2> QED
    BY <2>1, <2>2
<1> QED
  BY <1>2, <1>3 DEF BatchAt

\* A message is put in the channel.
LEMMA OrderGrows ==
    ASSUME NEW q \in Seq(Messages), NEW m \in Messages, NEW b, NEW d, NEW S, NEW T,
           FlowAt(q, S), BatchAt(q, b, S), S \subseteq T,
           Rising(RowsIn(m)), InFrontOf(q, Marks(m)),
           \A k \in DOMAIN Marks(m) : Marks(m)[k] \in T,
           \A s \in Sessions :
              \/ d[s] = <<>>
              \/ d[s] = b[s] /\ \A k \in DOMAIN RowsIn(m), l \in DOMAIN b[s] : LessThan(RowsIn(m)[k], b[s][l])
    PROVE  FlowAt(Append(q, m), T) /\ BatchAt(Append(q, m), d, T)
<1> DEFINE r == Append(q, m)
<1>1. Ordered(r)
  BY AppendOrdered DEF FlowAt
<1>2. /\ Len(q) \in Nat /\ DOMAIN q = 1..Len(q) /\ DOMAIN r = 1..(Len(q) + 1)
      /\ r[Len(q) + 1] = m /\ \A i \in DOMAIN q : r[i] = q[i]
  OBVIOUS
<1>3. \A rows : InFrontOf(q, rows)
                /\ (\A k \in DOMAIN RowsIn(m), l \in DOMAIN rows : LessThan(RowsIn(m)[k], rows[l]))
                => InFrontOf(r, rows)
  BY AppendInFront
<1> HIDE DEF r
<1>4. FlowAt(r, T)
  <2>1. ASSUME NEW i \in DOMAIN r, NEW k \in DOMAIN Marks(r[i]) PROVE Marks(r[i])[k] \in T
    <3>1. i \in DOMAIN q \/ i = Len(q) + 1
      BY <1>2
    <3>2. CASE i \in DOMAIN q
      <4>1. r[i] = q[i]
        BY <1>2, <3>2
      <4> QED
        BY <2>1, <3>2, <4>1 DEF FlowAt
    <3>3. CASE i = Len(q) + 1
      <4>1. r[i] = m
        BY <1>2, <3>3
      <4> QED
        BY <2>1, <4>1
    <3> QED
      BY <3>1, <3>2, <3>3
  <2> QED
    BY <1>1, <2>1 DEF FlowAt
<1>5. ASSUME NEW s \in Sessions
      PROVE  /\ Rising(d[s]) /\ InFrontOf(r, d[s])
             /\ \A k \in DOMAIN d[s] : Session(d[s][k].conn) = s /\ d[s][k] \in T
  <2>1. CASE d[s] = <<>>
    BY <2>1, NothingInFront
  <2>2. ASSUME d[s] = b[s],
               \A k \in DOMAIN RowsIn(m), l \in DOMAIN b[s] : LessThan(RowsIn(m)[k], b[s][l])
        PROVE  /\ Rising(d[s]) /\ InFrontOf(r, d[s])
               /\ \A k \in DOMAIN d[s] : Session(d[s][k].conn) = s /\ d[s][k] \in T
    <3>1. InFrontOf(r, b[s])
      BY <1>3, <2>2 DEF BatchAt
    <3> QED
      BY <2>2, <3>1 DEF BatchAt
  <2> QED
    BY <2>1, <2>2
<1> QED
  BY <1>4, <1>5 DEF BatchAt, r

\* What may become of the rows of a session.
Fitting(rows, s, q, stored) ==
    /\ rows \in Seq(Rows) /\ Rising(rows) /\ InFrontOf(q, rows)
    /\ \A k \in DOMAIN rows : Session(rows[k].conn) = s /\ rows[k] \in stored

LEMMA RowAdded ==
    ASSUME NEW q \in Seq(Messages), NEW S, NEW T, NEW rows, NEW s, Fitting(rows, s, q, S),
           FlowAt(q, S), S \subseteq T, NEW x \in Rows, Session(x.conn) = s, x \in T,
           \A y \in S : LessThan(y, x)
    PROVE  Fitting(Append(rows, x), s, q, T)
<1> DEFINE more == Append(rows, x)
<1>1. rows \in Seq(Rows)
  BY DEF Fitting
<1>2. /\ more \in Seq(Rows) /\ Len(rows) \in Nat /\ DOMAIN rows = 1..Len(rows)
      /\ DOMAIN more = 1..(Len(rows) + 1) /\ more[Len(rows) + 1] = x
      /\ \A i \in DOMAIN rows : more[i] = rows[i]
  BY <1>1
<1> HIDE DEF more
<1>3. \A i \in DOMAIN more : (i \in DOMAIN rows /\ more[i] = rows[i]) \/ (i = Len(rows) + 1 /\ more[i] = x)
  BY <1>2
<1>4. Rising(more)
  <2> SUFFICES ASSUME NEW k \in DOMAIN more, NEW l \in DOMAIN more, k < l
               PROVE  LessThan(more[k], more[l])
    BY DEF Rising
  <2>1. k \in DOMAIN rows /\ more[k] = rows[k]
    BY <1>2
  <2>2. CASE l \in DOMAIN rows /\ more[l] = rows[l]
    BY <2>1, <2>2 DEF Fitting, Rising
  <2>3. CASE l = Len(rows) + 1 /\ more[l] = x
    BY <2>1, <2>3 DEF Fitting
  <2> QED
    BY <1>3, <2>2, <2>3
<1>5. InFrontOf(q, more)
  <2> SUFFICES ASSUME NEW i \in DOMAIN q, NEW k \in DOMAIN RowsIn(q[i]), NEW l \in DOMAIN more
               PROVE  LessThan(RowsIn(q[i])[k], more[l])
    BY DEF InFrontOf
  <2>1. CASE l \in DOMAIN rows /\ more[l] = rows[l]
    BY <2>1 DEF Fitting, InFrontOf
  <2>2. CASE l = Len(rows) + 1 /\ more[l] = x
    <3>1. q[i] \in Messages
      OBVIOUS
    <3>2. Marks(q[i]) = RowsIn(q[i])
      <4>1. RowsIn(q[i]) # <<>>
        OBVIOUS
      <4> QED
        BY <3>1, <4>1, MarkFacts
    <3>3. RowsIn(q[i])[k] \in S
      BY <3>2 DEF FlowAt
    <3> QED
      BY <2>2, <3>3
  <2> QED
    BY <1>3, <2>1, <2>2
<1>6. \A k \in DOMAIN more : Session(more[k].conn) = s /\ more[k] \in T
  BY <1>3 DEF Fitting
<1> QED
  BY <1>2, <1>4, <1>5, <1>6 DEF Fitting, more

\* launchBatcher.add without a flush.
LEMMA Batch ==
    ASSUME NEW q \in Seq(Messages), NEW b \in [Sessions -> Seq(Rows)], NEW S, NEW T, FlowAt(q, S),
           BatchAt(q, b, S), S \subseteq T, NEW s \in Sessions, NEW rows, Fitting(rows, s, q, T),
           NEW d, d = [b EXCEPT ![s] = rows]
    PROVE  d \in [Sessions -> Seq(Rows)] /\ FlowAt(q, T) /\ BatchAt(q, d, T)
<1>1. /\ d \in [Sessions -> Seq(Rows)] /\ d[s] = rows
      /\ \A r \in Sessions : r # s => d[r] = b[r]
  BY DEF Fitting
<1>2. FlowAt(q, T)
  BY DEF FlowAt
<1>3. BatchAt(q, d, T)
  <2> SUFFICES ASSUME NEW r \in Sessions
               PROVE  /\ Rising(d[r]) /\ InFrontOf(q, d[r])
                      /\ \A k \in DOMAIN d[r] : Session(d[r][k].conn) = r /\ d[r][k] \in T
    BY DEF BatchAt
  <2>1. CASE r = s
    BY <1>1, <2>1 DEF Fitting
  <2>2. CASE r # s
    BY <1>1, <2>2 DEF BatchAt
  <2> QED
    BY <2>1, <2>2
<1> QED
  BY <1>1, <1>2, <1>3

LEMMA LaunchesMessage ==
    ASSUME NEW s \in Sessions, NEW rows \in Seq(Rows),
           NEW m, m = [type |-> "launches", session |-> s, rows |-> rows]
    PROVE  m \in Messages /\ RowsIn(m) = rows /\ Marks(m) = rows
BY DEF Messages, RowsIn, Marks

\* flushLocked: the rows go to the end of the channel, or are lost.
LEMMA Flush ==
    ASSUME OrderShape, NEW S, NEW T, FlowAt(Flow, S),
           BatchAt(Flow, batches, S), S \subseteq T, NEW s \in Sessions, NEW rows,
           Fitting(rows, s, Flow, T), arrived' = arrived,
           sendCh' = FlushTo(sendCh, s, rows), batches' = [batches EXCEPT ![s] = <<>>]
    PROVE  /\ batches' \in [Sessions -> Seq(Rows)] /\ sendCh' \in Seq(Messages)
           /\ FlowAt(Flow', T) /\ BatchAt(Flow', batches', T)
<1> DEFINE m == [type |-> "launches", session |-> s, rows |-> rows]
<1>1. /\ m \in Messages /\ RowsIn(m) = rows /\ Marks(m) = rows
  BY LaunchesMessage DEF Fitting
<1>2. /\ batches \in [Sessions -> Seq(Rows)] /\ sendCh \in Seq(Messages) /\ arrived \in Seq(Messages)
      /\ Flow \in Seq(Messages)
  BY FlowType DEF OrderShape
<1>3. /\ batches' \in [Sessions -> Seq(Rows)] /\ batches'[s] = <<>>
      /\ \A r \in Sessions : r # s => batches'[r] = batches[r]
  BY <1>2
<1>4. sendCh' = sendCh \/ sendCh' = Append(sendCh, m)
  BY DEF FlushTo, Sent
<1> HIDE DEF m
<1>5. CASE sendCh' = sendCh
  <2>1. Flow' = Flow /\ Thinned(Flow, Flow)
    BY <1>2, <1>5, FlowSame DEF Flow
  <2>2. \A r \in Sessions : batches'[r] = batches[r] \/ batches'[r] = <<>>
    BY <1>3
  <2>3. FlowAt(Flow, T) /\ BatchAt(Flow, batches', T)
    BY <2>1, <2>2, OrderKept
  <2> QED
    BY <1>2, <1>3, <1>5, <2>1, <2>3
<1>6. CASE sendCh' = Append(sendCh, m)
  <2>1. Flow' = Append(Flow, m)
    BY <1>1, <1>6, FlowAppended
  <2>2. ASSUME NEW r \in Sessions
        PROVE  \/ batches'[r] = <<>>
               \/ /\ batches'[r] = batches[r]
                  /\ \A k \in DOMAIN RowsIn(m), l \in DOMAIN batches[r] : LessThan(RowsIn(m)[k], batches[r][l])
    <3>1. CASE r = s
      BY <1>3, <3>1
    <3>2. CASE r # s
      <4>1. ASSUME NEW k \in DOMAIN rows, NEW l \in DOMAIN batches[r]
            PROVE  LessThan(rows[k], batches[r][l])
        <5>1. Session(rows[k].conn) = s /\ Session(batches[r][l].conn) = r
          BY DEF Fitting, BatchAt
        <5> QED
          BY <3>2, <5>1 DEF LessThan
      <4> QED
        BY <1>1, <1>3, <3>2, <4>1
    <3> QED
      BY <3>1, <3>2
  <2>3. /\ Rising(RowsIn(m)) /\ InFrontOf(Flow, Marks(m))
        /\ \A k \in DOMAIN Marks(m) : Marks(m)[k] \in T
    BY <1>1 DEF Fitting
  <2>4. FlowAt(Append(Flow, m), T) /\ BatchAt(Append(Flow, m), batches', T)
    BY <1>1, <1>2, <2>2, <2>3, OrderGrows
  <2> QED
    BY <1>1, <1>2, <1>3, <1>6, <2>1, <2>4
<1> QED
  BY <1>4, <1>5, <1>6

-----------------------------------------------------------------------------
(* The order along the whole way is inductive. *)

LEMMA Rebuilt ==
    ASSUME OrderShape', Holding', ClientAt(events', wire', frame'), NEW T,
           T = StoredAt(events', wire', frame'), FlowAt(Flow', T), BatchAt(Flow', batches', T)
    PROVE  OrderInv'
<1>1. OrderAt(events', wire', frame', batches', Flow')
  BY DEF OrderAt
<1>2. OrderAt(events, wire, frame, batches, Flow)'
  BY <1>1 DEF OrderAt, ClientAt, StoredAt, FlowAt, BatchAt, Increasing, Numbered, InHand, Rest,
              Ordered, Rising, InFrontOf, Marks, RowsIn, LessThan, Session, Conns, Rows
<1> QED
  BY <1>2 DEF OrderInv

LEMMA OrderInit == Init => OrderInv
<1> SUFFICES ASSUME Init PROVE OrderInv
  OBVIOUS
<1>1. OrderShape
  <2>1. <<>> \in Seq(Rows) /\ <<>> \in Seq(Messages) /\ <<>> \in Seq(Envelopes)
    OBVIOUS
  <2> QED
    BY <2>1, CollectorAssumption DEF Init, OrderShape
<1>2. Holding
  BY DEF Init, Holding
<1>3. Flow = <<>>
  BY DEF Init, Flow
<1>4. ClientAt(events, wire, frame)
  <2>1. ASSUME NEW c \in Conns PROVE wire[c] = <<>> /\ InHand(frame[c]) = {}
    BY Unnumbered DEF Init, InHand
  <2> QED
    BY <2>1, NoWire DEF ClientAt
<1>5. FlowAt(Flow, StoredAt(events, wire, frame)) /\ BatchAt(Flow, batches, StoredAt(events, wire, frame))
  <2>1. \A s \in Sessions : batches[s] = <<>>
    BY DEF Init
  <2>2. FlowAt(Flow, StoredAt(events, wire, frame))
    BY <1>3 DEF FlowAt, Ordered
  <2> QED
    BY <2>1, <2>2, NothingInFront DEF BatchAt
<1> QED
  BY <1>1, <1>2, <1>4, <1>5 DEF OrderInv, OrderAt

\* Only the hook connections change: nothing is sent, the collector holds less.
LEMMA EnvelopesMove ==
    ASSUME OrderInv, Holding', UNCHANGED <<events, batches, arrived, sendCh>>,
           cur' \in [Sessions -> 0..MaxConns], wire' \in [Conns -> Seq(Envelopes)],
           frame' \in [Conns -> Envelopes \cup {<<>>}],
           \A c \in Conns :
              /\ Increasing(wire'[c])
              /\ \A a \in InHand(frame'[c]), b \in Rest(wire'[c]) : a < b
              /\ InHand(frame'[c]) \cup Rest(wire'[c]) \subseteq InHand(frame[c]) \cup Rest(wire[c])
    PROVE  OrderInv'
<1> DEFINE S == StoredAt(events, wire, frame)
           T == StoredAt(events', wire', frame')
<1>1. OrderShape'
  BY DEF OrderInv, OrderShape
<1>2. ClientAt(events', wire', frame') /\ S \subseteq T
  <2>1. /\ events \in [Sessions -> 0..MaxSent] /\ wire \in [Conns -> Seq(Envelopes)]
        /\ ClientAt(events, wire, frame) /\ events' = events
    BY DEF OrderInv, OrderShape, OrderAt
  <2> QED
    BY <2>1, LessRead
<1>3. FlowAt(Flow', T) /\ BatchAt(Flow', batches', T)
  <2>1. Flow' = Flow /\ batches' = batches
    BY DEF Flow
  <2>2. FlowAt(Flow, S) /\ BatchAt(Flow, batches, S)
    BY DEF OrderInv, OrderAt
  <2> HIDE DEF S, T
  <2> QED
    BY <1>2, <2>1, <2>2 DEF FlowAt, BatchAt
<1> QED
  BY <1>1, <1>2, <1>3, Rebuilt

\* Only the way from the batches on changes.
LEMMA MessagesMove ==
    ASSUME OrderInv, UNCHANGED <<cur, events, wire, frame>>, handler \in [Conns -> Places],
           handler' = handler \/ \E c \in Conns, p \in {"endSession", "unregister"} : handler' = [handler EXCEPT ![c] = p],
           batches' \in [Sessions -> Seq(Rows)], arrived' \in Seq(Messages), sendCh' \in Seq(Messages),
           FlowAt(Flow', StoredAt(events, wire, frame)),
           BatchAt(Flow', batches', StoredAt(events, wire, frame))
    PROVE  OrderInv'
<1>1. OrderShape'
  BY DEF OrderInv, OrderShape
<1>2. Holding'
  <2>1. ASSUME NEW c \in Conns, handler'[c] = "store" PROVE handler[c] = "store"
    BY <2>1
  <2> QED
    BY <2>1 DEF OrderInv, Holding
<1>3. ClientAt(events', wire', frame')
  BY DEF OrderInv, OrderAt
<1> QED
  BY <1>1, <1>2, <1>3, Rebuilt

LEMMA ClientOrder ==
    ASSUME CollectorInv, OrderInv, NEW s \in Sessions,
           ClientStep(s) \/ \E lost \in BOOLEAN : ConnectionBreaks(s, lost)
    PROVE  OrderInv'
<1>1. /\ cur \in [Sessions -> 0..MaxConns] /\ cur[s] \in 0..MaxConns /\ MaxConns \in Nat
      /\ events \in [Sessions -> 0..MaxSent]
      /\ wire \in [Conns -> Seq(Envelopes)] /\ frame \in [Conns -> Envelopes \cup {<<>>}]
      /\ handler \in [Conns -> Places]
  BY CollectorAssumption DEF OrderInv, OrderShape, CollectorInv, Shape
<1>2. \A c \in Conns :
         /\ Increasing(wire[c])
         /\ \A a \in InHand(frame[c]), b \in Rest(wire[c]) : a < b
  BY DEF OrderInv, OrderAt, ClientAt
<1>3. Connected(s) => Current(s) \in Conns /\ Session(Current(s)) = s
  <2> SUFFICES ASSUME Connected(s) PROVE Current(s) \in Conns /\ Session(Current(s)) = s
    OBVIOUS
  <2>1. cur[s] \in 1..MaxConns
    BY <1>1 DEF Connected
  <2> QED
    BY <2>1, ConnFacts DEF Current, Session
<1>4. ASSUME NEW c \in Conns, NEW w \in Seq(Envelopes), Increasing(w), Rest(w) = {},
             wire' = [wire EXCEPT ![c] = w], frame' = frame, Holding',
             UNCHANGED <<events, batches, arrived, sendCh>>, cur' \in [Sessions -> 0..MaxConns]
      PROVE  OrderInv'
  <2>1. /\ wire' \in [Conns -> Seq(Envelopes)] /\ wire'[c] = w
        /\ \A x \in Conns : x # c => wire'[x] = wire[x]
    BY <1>1, <1>4
  <2>2. ASSUME NEW x \in Conns
        PROVE  /\ Increasing(wire'[x])
               /\ \A a \in InHand(frame'[x]), b \in Rest(wire'[x]) : a < b
               /\ InHand(frame'[x]) \cup Rest(wire'[x]) \subseteq InHand(frame[x]) \cup Rest(wire[x])
    <3>1. CASE x = c
      BY <1>4, <2>1, <3>1
    <3>2. CASE x # c
      BY <1>2, <1>4, <2>1, <3>2
    <3> QED
      BY <3>1, <3>2
  <2> QED
    BY <1>1, <1>4, <2>1, <2>2, EnvelopesMove
<1>5. CASE ClientConnect(s)
  <2> DEFINE c == <<s, cur[s] + 1>>
  <2>1. /\ cur[s] < MaxConns /\ cur' = [cur EXCEPT ![s] = @ + 1] /\ frame' = frame
        /\ handler' = [handler EXCEPT ![c] = "accept"]
        /\ UNCHANGED <<events, batches, arrived, sendCh>>
    BY <1>5 DEF ClientConnect, batching, proc
  <2>2. c \in Conns
    <3>1. cur[s] + 1 \in 1..MaxConns
      BY <1>1, <2>1
    <3> QED
      BY <3>1, ConnFacts
  <2>3. PICK k \in {"info", "hello", "stats"} : wire' = [wire EXCEPT ![c] = <<[kind |-> k]>>]
    BY <1>5 DEF ClientConnect
  <2> HIDE DEF c
  <2>4. cur' \in [Sessions -> 0..MaxConns]
    BY <1>1, <2>1
  <2>5. Holding'
    <3>1. \A x \in Conns : handler'[x] = "store" => handler[x] = "store"
      BY <1>1, <2>1, <2>2
    <3> QED
      BY <2>1, <3>1 DEF OrderInv, Holding
  <2>6. PICK w : w = <<[kind |-> k]>> /\ w \in Seq(Envelopes) /\ Rest(w) = {} /\ Increasing(w)
    BY ShortWire
  <2> QED
    BY <1>4, <2>1, <2>2, <2>3, <2>4, <2>5, <2>6
<1>6. CASE ClientStats(s)
  <2>1. /\ Connected(s) /\ UNCHANGED <<cur, events, batches, arrived, sendCh, handler, frame>>
    BY <1>6 DEF ClientStats, batching, proc, hook
  <2>2. wire' = [wire EXCEPT ![Current(s)] = <<[kind |-> "stats"]>>]
    BY <1>6 DEF ClientStats
  <2>3. Holding'
    BY <2>1 DEF OrderInv, Holding
  <2>4. PICK w : w = <<[kind |-> "stats"]>> /\ w \in Seq(Envelopes) /\ Rest(w) = {} /\ Increasing(w)
    BY ShortWire
  <2> QED
    BY <1>1, <1>3, <1>4, <2>1, <2>2, <2>3, <2>4
<1>7. ASSUME NEW kind \in {"code", "launch"}, ClientSend(s, kind) PROVE OrderInv'
  <2> DEFINE c == Current(s)
             S == StoredAt(events, wire, frame)
             T == StoredAt(events', wire', frame')
  <2>1. /\ Connected(s) /\ events[s] < MaxSent /\ events' = [events EXCEPT ![s] = @ + 1]
        /\ wire' = [wire EXCEPT ![c] = Append(@, [kind |-> kind, n |-> events[s] + 1])]
        /\ UNCHANGED <<cur, batches, arrived, sendCh, handler, frame>>
    BY <1>7 DEF ClientSend, batching, proc
  <2>2. c \in Conns /\ Session(c) = s
    BY <1>3, <2>1
  <2> HIDE DEF c
  <2>3. /\ events' \in [Sessions -> 0..MaxSent] /\ wire' \in [Conns -> Seq(Envelopes)]
        /\ ClientAt(events', wire', frame) /\ S \subseteq StoredAt(events', wire', frame)
    <3> DEFINE x == [kind |-> kind, n |-> events[s] + 1]
    <3>1. x \in Envelopes /\ Numbered(x) /\ x.n = events[s] + 1
      <4>1. events[s] + 1 \in 1..MaxSent
        BY <1>1, <2>1, CollectorAssumption
      <4> QED
        BY <4>1, <1>7 DEF Envelopes, Numbered
    <3> HIDE DEF x
    <3>2. /\ events' \in [Sessions -> 0..MaxSent] /\ events'[s] = events[s] + 1
          /\ \A r \in Sessions : r # s => events'[r] = events[r]
      BY <1>1, <2>1, CollectorAssumption
    <3>3. wire' = [wire EXCEPT ![c] = Append(wire[c], x)]
      BY <2>1 DEF x
    <3>4. /\ wire' \in [Conns -> Seq(Envelopes)] /\ wire'[c] = Append(wire[c], x)
          /\ \A y \in Conns : y # c => wire'[y] = wire[y]
      BY <1>1, <2>2, <3>1, <3>3
    <3>5. ClientAt(events, wire, frame)
      BY DEF OrderInv, OrderAt
    <3>6. /\ x.n = events[Session(c)] + 1 /\ events'[Session(c)] = events[Session(c)] + 1
          /\ \A r \in Sessions : r # Session(c) => events'[r] = events[r]
      BY <2>2, <3>1, <3>2
    <3>7. events \in [Sessions -> 0..MaxSent] /\ wire \in [Conns -> Seq(Envelopes)]
      BY <1>1
    <3>8. c \in Conns
      BY <2>2
    <3> HIDE DEF T
    <3>9. ClientAt(events', wire', frame) /\ StoredAt(events, wire, frame) \subseteq StoredAt(events', wire', frame)
      BY <3>1, <3>2, <3>4, <3>5, <3>6, <3>7, <3>8, OneMoreSent, ZenonT(30)
    <3> QED
      BY <3>2, <3>4, <3>9
  <2>4. OrderShape' /\ Holding'
    BY <2>1, <2>3 DEF OrderInv, OrderShape, Holding
  <2>5. FlowAt(Flow', T) /\ BatchAt(Flow', batches', T)
    <3>1. Flow' = Flow /\ batches' = batches /\ S \subseteq T
      BY <2>1, <2>3 DEF Flow
    <3>2. FlowAt(Flow, S) /\ BatchAt(Flow, batches, S)
      BY DEF OrderInv, OrderAt
    <3> HIDE DEF S, T
    <3> QED
      BY <3>1, <3>2 DEF FlowAt, BatchAt
  <2> QED
    BY <2>1, <2>3, <2>4, <2>5, Rebuilt
<1>8. ASSUME NEW lost \in BOOLEAN, ConnectionBreaks(s, lost) PROVE OrderInv'
  <2>1. /\ Connected(s) /\ UNCHANGED <<cur, events, batches, arrived, sendCh, handler, frame>>
        /\ wire' = wire \/ wire' = [wire EXCEPT ![Current(s)] = <<>>]
    BY <1>8 DEF ConnectionBreaks, batching, proc, hook
  <2>2. Holding'
    BY <2>1 DEF OrderInv, Holding
  <2>3. CASE wire' = wire
    BY <1>1, <1>2, <2>1, <2>2, <2>3, EnvelopesMove
  <2>4. CASE wire' = [wire EXCEPT ![Current(s)] = <<>>]
    BY <1>1, <1>3, <1>4, <2>1, <2>2, <2>4, NoWire
  <2> QED
    BY <2>1, <2>3, <2>4
<1> QED
  BY <1>5, <1>6, <1>7, <1>8 DEF ClientStep

LEMMA ReadOrder ==
    ASSUME CollectorInv, OrderInv, NEW c \in Conns, ReadAndRegister(c)
    PROVE  OrderInv'
<1>1. /\ wire[c] # <<>> /\ frame' = [frame EXCEPT ![c] = Head(wire[c])]
      /\ wire' = [wire EXCEPT ![c] = Tail(wire[c])] /\ handler' = [handler EXCEPT ![c] = "store"]
      /\ UNCHANGED <<cur, events, batches, arrived, sendCh>>
  BY DEF ReadAndRegister, hook, proc, batching
<1>2. /\ wire \in [Conns -> Seq(Envelopes)] /\ frame \in [Conns -> Envelopes \cup {<<>>}]
      /\ handler \in [Conns -> Places] /\ cur \in [Sessions -> 0..MaxConns]
      /\ ClientAt(events, wire, frame)
  BY DEF OrderInv, OrderShape, OrderAt, CollectorInv, Shape
<1>3. wire[c] \in Seq(Envelopes) /\ Increasing(wire[c])
  BY <1>2 DEF ClientAt
<1>4. /\ Head(wire[c]) \in Envelopes /\ Tail(wire[c]) \in Seq(Envelopes) /\ Increasing(Tail(wire[c]))
      /\ InHand(Head(wire[c])) \cup Rest(Tail(wire[c])) \subseteq Rest(wire[c])
      /\ \A a \in InHand(Head(wire[c])), b \in Rest(Tail(wire[c])) : a < b
  BY <1>1, <1>3, ShorterWire
<1>5. /\ wire' \in [Conns -> Seq(Envelopes)] /\ frame' \in [Conns -> Envelopes \cup {<<>>}]
      /\ wire'[c] = Tail(wire[c]) /\ frame'[c] = Head(wire[c])
      /\ \A x \in Conns : x # c => wire'[x] = wire[x] /\ frame'[x] = frame[x] /\ handler'[x] = handler[x]
  BY <1>1, <1>2, <1>4
<1>6. Holding'
  <2>1. ASSUME NEW x \in Conns, handler'[x] = "store" PROVE frame'[x] \in Envelopes
    <3>1. CASE x = c
      BY <1>4, <1>5, <3>1
    <3>2. CASE x # c
      BY <1>5, <2>1, <3>2 DEF OrderInv, Holding
    <3> QED
      BY <3>1, <3>2
  <2> QED
    BY <2>1 DEF Holding
<1>7. ASSUME NEW x \in Conns
      PROVE  /\ Increasing(wire'[x])
             /\ \A a \in InHand(frame'[x]), b \in Rest(wire'[x]) : a < b
             /\ InHand(frame'[x]) \cup Rest(wire'[x]) \subseteq InHand(frame[x]) \cup Rest(wire[x])
  <2>1. CASE x = c
    BY <1>4, <1>5, <2>1
  <2>2. CASE x # c
    BY <1>2, <1>5, <2>2 DEF ClientAt
  <2> QED
    BY <2>1, <2>2
<1> QED
  BY <1>1, <1>2, <1>5, <1>6, <1>7, EnvelopesMove

\* The handler lets go of its envelope and of what it has not read.
LEMMA ReturnOrder ==
    ASSUME CollectorInv, OrderInv, NEW c \in Conns, HandlerReturns(c) \/ Unregister(c)
    PROVE  OrderInv'
<1>1. /\ frame' = [frame EXCEPT ![c] = <<>>] \/ frame' = frame
      /\ wire' = wire \/ wire' = [wire EXCEPT ![c] = <<>>]
      /\ \E p \in {"closed", "endBatch"} : handler' = [handler EXCEPT ![c] = p]
      /\ UNCHANGED <<cur, events, batches, arrived, sendCh>>
  BY DEF HandlerReturns, Unregister, hook, proc, batching
<1>2. /\ wire \in [Conns -> Seq(Envelopes)] /\ frame \in [Conns -> Envelopes \cup {<<>>}]
      /\ handler \in [Conns -> Places] /\ cur \in [Sessions -> 0..MaxConns]
      /\ ClientAt(events, wire, frame)
  BY DEF OrderInv, OrderShape, OrderAt, CollectorInv, Shape
<1>3. /\ wire' \in [Conns -> Seq(Envelopes)] /\ frame' \in [Conns -> Envelopes \cup {<<>>}]
      /\ \A x \in Conns : /\ wire'[x] = wire[x] \/ wire'[x] = <<>>
                          /\ frame'[x] = frame[x] \/ frame'[x] = <<>>
  <2>1. <<>> \in Seq(Envelopes)
    OBVIOUS
  <2> QED
    BY <1>1, <1>2, <2>1
<1>4. handler'[c] # "store" /\ \A x \in Conns : x # c => handler'[x] = handler[x] /\ frame'[x] = frame[x]
  BY <1>1, <1>2
<1>5. Holding'
  BY <1>4 DEF OrderInv, Holding
<1>6. ASSUME NEW x \in Conns
      PROVE  /\ Increasing(wire'[x])
             /\ \A a \in InHand(frame'[x]), b \in Rest(wire'[x]) : a < b
             /\ InHand(frame'[x]) \cup Rest(wire'[x]) \subseteq InHand(frame[x]) \cup Rest(wire[x])
  <2>1. Increasing(wire'[x]) /\ Rest(wire'[x]) \subseteq Rest(wire[x])
    BY <1>2, <1>3, NoWire DEF ClientAt
  <2>2. InHand(frame'[x]) \subseteq InHand(frame[x])
    <3>1. InHand(<<>>) = {}
      BY Unnumbered DEF InHand
    <3> QED
      BY <1>3, <3>1
  <2>3. \A a \in InHand(frame[x]), b \in Rest(wire[x]) : a < b
    BY <1>2 DEF ClientAt
  <2> QED
    BY <2>1, <2>2, <2>3
<1> QED
  BY <1>1, <1>2, <1>3, <1>5, <1>6, EnvelopesMove

\* A message without numbers, or a code object that was just passed, is put in the channel or lost.
LEMMA SentOrder ==
    ASSUME OrderShape, NEW S, NEW T, FlowAt(Flow, S), BatchAt(Flow, batches, S), S \subseteq T,
           NEW m \in Messages, RowsIn(m) = <<>>, InFrontOf(Flow, Marks(m)),
           \A k \in DOMAIN Marks(m) : Marks(m)[k] \in T,
           arrived' = arrived, sendCh' = Sent(sendCh, m), batches' = batches
    PROVE  sendCh' \in Seq(Messages) /\ FlowAt(Flow', T) /\ BatchAt(Flow', batches', T)
<1>1. Flow \in Seq(Messages) /\ sendCh \in Seq(Messages) /\ arrived \in Seq(Messages)
  BY FlowType DEF OrderShape
<1>2. Rising(RowsIn(m))
  BY NothingInFront
<1>3. CASE sendCh' = sendCh
  <2>1. Flow' = Flow
    BY <1>3 DEF Flow
  <2>2. Thinned(Flow, Flow)
    BY <1>1, FlowSame
  <2>3. FlowAt(Flow, T) /\ BatchAt(Flow, batches, T)
    BY <2>2, OrderKept
  <2> QED
    BY <1>1, <1>3, <2>1, <2>3
<1>4. CASE sendCh' = Append(sendCh, m)
  <2>1. Flow' = Append(Flow, m)
    BY <1>4, FlowAppended
  <2>2. \A s \in Sessions : \A k \in DOMAIN RowsIn(m), l \in DOMAIN batches[s] :
            LessThan(RowsIn(m)[k], batches[s][l])
    OBVIOUS
  <2>3. FlowAt(Append(Flow, m), T) /\ BatchAt(Append(Flow, m), batches, T)
    BY <1>1, <1>2, <2>2, OrderGrows
  <2> QED
    BY <1>1, <1>4, <2>1, <2>3
<1> QED
  BY <1>3, <1>4 DEF Sent

LEMMA FittingBatch ==
    ASSUME OrderInv, NEW s \in Sessions
    PROVE  Fitting(batches[s], s, Flow, StoredAt(events, wire, frame))
BY DEF OrderInv, OrderShape, OrderAt, BatchAt, Fitting

LEMMA StoreOrder ==
    ASSUME CollectorInv, OrderInv, NEW c \in Conns, NEW after \in {"read", "endBatch"},
           Store(c, after)
    PROVE  OrderInv'
<1> DEFINE S == StoredAt(events, wire, frame)
           T == StoredAt(events, wire, frame')
           s == Session(c)
           x == [conn |-> c, n |-> frame[c].n]
<1>1. /\ handler[c] = "store" /\ frame' = [frame EXCEPT ![c] = <<>>]
      /\ handler' = [handler EXCEPT ![c] = after] /\ UNCHANGED <<cur, events, wire, arrived>>
  BY DEF Store, hook, proc
<1>2. /\ events \in [Sessions -> 0..MaxSent]
      /\ wire \in [Conns -> Seq(Envelopes)] /\ frame \in [Conns -> Envelopes \cup {<<>>}]
      /\ handler \in [Conns -> Places] /\ cur \in [Sessions -> 0..MaxConns]
      /\ batches \in [Sessions -> Seq(Rows)]
      /\ arrived \in Seq(Messages) /\ sendCh \in Seq(Messages) /\ OrderShape
      /\ frame[c] \in Envelopes /\ s \in Sessions
  BY <1>1, ConnFacts DEF OrderInv, OrderShape, CollectorInv, Shape, Holding
<1>3. /\ frame' \in [Conns -> Envelopes \cup {<<>>}] /\ handler'[c] = after
      /\ \A y \in Conns : frame'[y] = frame[y] \/ frame'[y] = <<>>
      /\ \A y \in Conns : y # c => handler'[y] = handler[y] /\ frame'[y] = frame[y]
  BY <1>1, <1>2
<1>4. Holding'
  <2>1. after # "store"
    OBVIOUS
  <2> QED
    BY <1>3, <2>1 DEF OrderInv, Holding
<1>5. ClientAt(events, wire, frame) /\ FlowAt(Flow, S) /\ BatchAt(Flow, batches, S)
  BY DEF OrderInv, OrderAt
<1>6. ClientAt(events, wire, frame') /\ S \subseteq T
  <2>1. ASSUME NEW y \in Conns
        PROVE  /\ Increasing(wire[y])
               /\ \A a \in InHand(frame'[y]), b \in Rest(wire[y]) : a < b
               /\ InHand(frame'[y]) \cup Rest(wire[y]) \subseteq InHand(frame[y]) \cup Rest(wire[y])
    <3>1. InHand(frame'[y]) \subseteq InHand(frame[y])
      <4>1. InHand(<<>>) = {}
        BY Unnumbered DEF InHand
      <4> QED
        BY <1>3, <4>1
    <3>2. Increasing(wire[y]) /\ \A a \in InHand(frame[y]), b \in Rest(wire[y]) : a < b
      BY <1>5 DEF ClientAt
    <3> QED
      BY <3>1, <3>2
  <2> QED
    BY <1>2, <1>3, <1>5, <2>1, LessRead
<1>7. frame[c].kind \in {"code", "launch"} =>
        /\ frame[c].n \in 1..MaxSent /\ x \in Rows /\ x \in T /\ \A y \in S : LessThan(y, x)
  <2> SUFFICES ASSUME frame[c].kind \in {"code", "launch"}
               PROVE  frame[c].n \in 1..MaxSent /\ x \in Rows /\ x \in T /\ \A y \in S : LessThan(y, x)
    OBVIOUS
  <2>1. Numbered(frame[c]) /\ frame[c].n \in 1..MaxSent
    BY <1>2 DEF Envelopes, Numbered
  <2>2. x \in Rows /\ x.conn = c /\ x.n = frame[c].n
    BY <2>1 DEF Rows
  <2>3. frame'[c] = <<>>
    BY <1>1, <1>2
  <2> HIDE DEF x, S, T
  <2> QED
    BY <1>2, <1>5, <2>1, <2>2, <2>3, OneMoreStored DEF S, T
<1>8. Flow \in Seq(Messages)
  BY <1>2, FlowType
<1> HIDE DEF S, T
<1>9. CASE frame[c].kind = "launch"
  <2> DEFINE rows == Append(batches[s], x)
  <2>1. Fitting(batches[s], s, Flow, S)
    BY <1>2, FittingBatch DEF S
  <2>2. Fitting(rows, s, Flow, T)
    <3>1. x.conn = c
      OBVIOUS
    <3> HIDE DEF x, s
    <3>2. Session(x.conn) = s
      BY <3>1 DEF s
    <3> QED
      BY <1>5, <1>6, <1>7, <1>8, <1>9, <2>1, <3>2, RowAdded
  <2>3. BatcherAdd(c, frame[c].n)
    BY <1>9 DEF Store
  <2> HIDE DEF rows
  <2>4. \/ UNCHANGED <<batches, sendCh>>
        \/ batches' = [batches EXCEPT ![s] = <<>>] /\ sendCh' = FlushTo(sendCh, s, rows)
        \/ batches' = [batches EXCEPT ![s] = rows] /\ sendCh' = sendCh
    BY <2>3 DEF BatcherAdd, WithLaunch, rows
  <2>5. /\ batches' \in [Sessions -> Seq(Rows)] /\ sendCh' \in Seq(Messages)
        /\ FlowAt(Flow', T) /\ BatchAt(Flow', batches', T)
    <3>1. CASE UNCHANGED <<batches, sendCh>>
      <4>1. Flow' = Flow /\ Thinned(Flow, Flow)
        BY <1>1, <1>8, <3>1, FlowSame DEF Flow
      <4> QED
        BY <1>2, <1>5, <1>6, <3>1, <4>1, OrderKept
    <3>2. CASE batches' = [batches EXCEPT ![s] = <<>>] /\ sendCh' = FlushTo(sendCh, s, rows)
      <4> HIDE DEF s
      <4> QED
        BY <1>1, <1>2, <1>5, <1>6, <2>2, <3>2, Flush
    <3>3. CASE batches' = [batches EXCEPT ![s] = rows] /\ sendCh' = sendCh
      <4>1. Flow' = Flow
        BY <1>1, <3>3 DEF Flow
      <4> HIDE DEF s
      <4> QED
        BY <1>2, <1>5, <1>6, <1>8, <2>2, <3>3, <4>1, Batch
    <3> QED
      BY <2>4, <3>1, <3>2, <3>3
  <2>6. OrderShape'
    BY <1>1, <1>2, <1>3, <2>5 DEF OrderShape
  <2> QED
    BY <1>1, <1>4, <1>6, <2>5, <2>6, Rebuilt DEF T
<1>10. CASE frame[c].kind # "launch"
  <2>1. PICK m \in Messages :
          /\ RowsIn(m) = <<>> /\ InFrontOf(Flow, Marks(m))
          /\ \A k \in DOMAIN Marks(m) : Marks(m)[k] \in T
          /\ sendCh' = sendCh \/ sendCh' = Sent(sendCh, m)
          /\ batches' = batches
    <3>1. CASE frame[c].kind = "code"
      <4> DEFINE m == [type |-> "code", session |-> s, conn |-> c, n |-> frame[c].n]
      <4>1. m \in Messages /\ RowsIn(m) = <<>> /\ Marks(m) = <<x>>
        BY <1>2, <1>7, <3>1 DEF Messages, RowsIn, Marks
      <4>2. sendCh' = Sent(sendCh, m) /\ batches' = batches
        BY <3>1 DEF Store
      <4> HIDE DEF m, x
      <4>3. DOMAIN Marks(m) = {1} /\ Marks(m)[1] = x
        BY <4>1
      <4>4. InFrontOf(Flow, Marks(m))
        <5> SUFFICES ASSUME NEW i \in DOMAIN Flow, NEW k \in DOMAIN RowsIn(Flow[i]),
                            NEW l \in DOMAIN Marks(m)
                     PROVE  LessThan(RowsIn(Flow[i])[k], Marks(m)[l])
          BY DEF InFrontOf
        <5>1. Flow[i] \in Messages
          BY <1>8
        <5>2. Marks(Flow[i]) = RowsIn(Flow[i])
          <6>1. RowsIn(Flow[i]) # <<>>
            OBVIOUS
          <6> QED
            BY <5>1, <6>1, MarkFacts
        <5>3. RowsIn(Flow[i])[k] \in S
          BY <1>5, <5>2 DEF FlowAt
        <5> QED
          BY <1>7, <3>1, <4>3, <5>3
      <4> QED
        BY <1>7, <3>1, <4>1, <4>2, <4>3, <4>4
    <3>2. CASE frame[c].kind # "code"
      <4>1. frame[c].kind \in {"info", "hello", "stats"}
        BY <1>2, <1>10, <3>2 DEF Envelopes
      <4> DEFINE k == IF frame[c].kind = "hello" THEN "info" ELSE frame[c].kind
                 m == [type |-> k, session |-> s]
      <4>2. m \in Messages /\ RowsIn(m) = <<>> /\ Marks(m) = <<>>
        BY <1>2, <4>1 DEF Messages, RowsIn, Marks
      <4>3. (sendCh' = sendCh \/ sendCh' = Sent(sendCh, m)) /\ batches' = batches
        BY <3>2, <4>1 DEF Store
      <4> HIDE DEF m
      <4>4. InFrontOf(Flow, Marks(m)) /\ DOMAIN Marks(m) = {}
        BY <4>2, NothingInFront
      <4> QED
        BY <4>2, <4>3, <4>4
    <3> QED
      BY <3>1, <3>2
  <2>2. /\ batches' \in [Sessions -> Seq(Rows)] /\ sendCh' \in Seq(Messages)
        /\ FlowAt(Flow', T) /\ BatchAt(Flow', batches', T)
    <3>1. CASE sendCh' = sendCh
      <4>1. Flow' = Flow /\ Thinned(Flow, Flow)
        BY <1>1, <1>8, <3>1, FlowSame DEF Flow
      <4> QED
        BY <1>2, <1>5, <1>6, <2>1, <3>1, <4>1, OrderKept
    <3>2. CASE sendCh' = Sent(sendCh, m)
      BY <1>1, <1>2, <1>5, <1>6, <2>1, <3>2, SentOrder
    <3> QED
      BY <2>1, <3>1, <3>2
  <2>3. OrderShape'
    BY <1>1, <1>2, <1>3, <2>2 DEF OrderShape
  <2> QED
    BY <1>1, <1>4, <1>6, <2>2, <2>3, Rebuilt DEF T
<1> QED
  BY <1>9, <1>10

LEMMA EndOrder ==
    ASSUME CollectorInv, OrderInv, NEW c \in Conns, EndBatch(c) \/ EndSession(c)
    PROVE  OrderInv'
<1> DEFINE S == StoredAt(events, wire, frame)
<1>1. /\ UNCHANGED <<cur, events, wire, frame, arrived>>
      /\ \E d \in Conns, p \in {"endSession", "unregister"} : handler' = [handler EXCEPT ![d] = p]
  BY DEF EndBatch, EndSession, hook, proc
<1>2. /\ batches \in [Sessions -> Seq(Rows)] /\ handler \in [Conns -> Places]
      /\ arrived \in Seq(Messages) /\ sendCh \in Seq(Messages) /\ OrderShape
      /\ Flow \in Seq(Messages) /\ Session(c) \in Sessions
      /\ FlowAt(Flow, S) /\ BatchAt(Flow, batches, S)
  BY FlowType, ConnFacts DEF OrderInv, OrderShape, OrderAt, CollectorInv, Shape
<1> HIDE DEF S
<1>3. /\ batches' \in [Sessions -> Seq(Rows)] /\ sendCh' \in Seq(Messages)
      /\ FlowAt(Flow', S) /\ BatchAt(Flow', batches', S)
  <2>1. CASE EndBatch(c)
    <3>1. sendCh' = sendCh /\ batches' = [batches EXCEPT ![Session(c)] = <<>>]
      BY <2>1 DEF EndBatch
    <3>2. /\ batches' \in [Sessions -> Seq(Rows)]
          /\ \A s \in Sessions : batches'[s] = batches[s] \/ batches'[s] = <<>>
      BY <1>2, <3>1
    <3>3. Flow' = Flow /\ Thinned(Flow, Flow)
      BY <1>1, <1>2, <3>1, FlowSame DEF Flow
    <3>4. FlowAt(Flow, S) /\ BatchAt(Flow, batches', S)
      BY <1>2, <3>2, <3>3, OrderKept
    <3> QED
      BY <1>2, <3>1, <3>2, <3>3, <3>4
  <2>2. CASE EndSession(c)
    <3> DEFINE m == [type |-> "session_end", session |-> Session(c)]
    <3>1. sendCh' = Sent(sendCh, m) /\ batches' = batches
      BY <2>2 DEF EndSession, batching
    <3>2. m \in Messages /\ RowsIn(m) = <<>> /\ Marks(m) = <<>>
      BY <1>2 DEF Messages, RowsIn, Marks
    <3> HIDE DEF m
    <3>3. InFrontOf(Flow, Marks(m)) /\ DOMAIN Marks(m) = {}
      BY <3>2, NothingInFront
    <3> QED
      BY <1>1, <1>2, <3>1, <3>2, <3>3, SentOrder
  <2> QED
    BY <2>1, <2>2
<1>4. arrived' \in Seq(Messages)
  BY <1>1, <1>2
<1> QED
  BY <1>1, <1>2, <1>3, <1>4, MessagesMove DEF S

LEMMA FlushOrder ==
    ASSUME CollectorInv, OrderInv, flushing \subseteq Sessions, FlushAll
    PROVE  OrderInv'
<1> DEFINE S == StoredAt(events, wire, frame)
<1>1. /\ UNCHANGED <<cur, events, wire, frame, arrived, handler>>
  BY DEF FlushAll, hook, proc, conns
<1>2. PICK s \in ToFlush : /\ sendCh' = FlushTo(sendCh, s, batches[s])
                           /\ batches' = [batches EXCEPT ![s] = <<>>]
  BY DEF FlushAll
<1>3. /\ handler \in [Conns -> Places] /\ arrived \in Seq(Messages) /\ sendCh \in Seq(Messages)
      /\ OrderShape /\ FlowAt(Flow, S) /\ BatchAt(Flow, batches, S)
      /\ batches \in [Sessions -> Seq(Rows)]
  BY DEF OrderInv, OrderShape, OrderAt, CollectorInv, Shape
<1>4. /\ batches' \in [Sessions -> Seq(Rows)] /\ sendCh' \in Seq(Messages)
      /\ FlowAt(Flow', S) /\ BatchAt(Flow', batches', S)
  <2>1. s \in Sessions
    BY DEF ToFlush
  <2>2. Fitting(batches[s], s, Flow, S)
    BY <2>1, FittingBatch
  <2> HIDE DEF S
  <2> QED
    BY <1>1, <1>2, <1>3, <2>1, <2>2, Flush
<1>5. arrived' \in Seq(Messages)
  BY <1>1, <1>3
<1> QED
  BY <1>1, <1>3, <1>4, <1>5, MessagesMove

LEMMA LinkOrder ==
    ASSUME CollectorInv, OrderInv, WriteMessage \/ \E lose \in BOOLEAN : LinkDown(lose)
    PROVE  OrderInv'
<1> DEFINE S == StoredAt(events, wire, frame)
<1>1. UNCHANGED <<cur, events, wire, frame, handler, batches>>
  BY DEF WriteMessage, LinkDown, hook, conns, batching
<1>2. \/ UNCHANGED <<arrived, sendCh>>
      \/ sendCh # <<>> /\ arrived' = arrived /\ sendCh' = Tail(sendCh)
      \/ sendCh # <<>> /\ arrived' = Append(arrived, Head(sendCh)) /\ sendCh' = Tail(sendCh)
  BY DEF WriteMessage, LinkDown, proc
<1>3. /\ handler \in [Conns -> Places] /\ arrived \in Seq(Messages) /\ sendCh \in Seq(Messages)
      /\ OrderShape /\ FlowAt(Flow, S) /\ BatchAt(Flow, batches, S)
      /\ batches \in [Sessions -> Seq(Rows)] /\ Flow \in Seq(Messages)
  BY FlowType DEF OrderInv, OrderShape, OrderAt, CollectorInv, Shape
<1>4. Thinned(Flow, Flow)
  BY <1>3, FlowSame
<1>5. Thinned(Flow', Flow)
  <2>1. CASE UNCHANGED <<arrived, sendCh>>
    <3>1. Flow' = Flow
      BY <2>1 DEF Flow
    <3> QED
      BY <1>4, <3>1
  <2>2. CASE sendCh # <<>> /\ arrived' = arrived /\ sendCh' = Tail(sendCh)
    BY <1>3, <2>2, FlowDropped
  <2>3. CASE sendCh # <<>> /\ arrived' = Append(arrived, Head(sendCh)) /\ sendCh' = Tail(sendCh)
    <3>1. Flow' = Flow
      BY <1>3, <2>3, FlowMoved
    <3> QED
      BY <1>4, <3>1
  <2> QED
    BY <1>2, <2>1, <2>2, <2>3
<1>6. arrived' \in Seq(Messages) /\ sendCh' \in Seq(Messages)
  <2>1. CASE UNCHANGED <<arrived, sendCh>>
    BY <1>3, <2>1
  <2>2. ASSUME sendCh # <<>> PROVE Tail(sendCh) \in Seq(Messages) /\ Head(sendCh) \in Messages
    BY <1>3, <2>2
  <2>3. \A m \in Messages : Append(arrived, m) \in Seq(Messages)
    BY <1>3
  <2> QED
    BY <1>2, <1>3, <2>1, <2>2, <2>3
<1> HIDE DEF S
<1>7. FlowAt(Flow', S) /\ BatchAt(Flow', batches', S)
  BY <1>1, <1>3, <1>5, OrderKept
<1> QED
  BY <1>1, <1>3, <1>6, <1>7, MessagesMove DEF S

LEMMA FlushingInvariant == Spec => [](flushing \subseteq Sessions)
<1>1. Init => flushing \subseteq Sessions
  BY DEF Init
<1>2. flushing \subseteq Sessions /\ [Next]_vars => (flushing \subseteq Sessions)'
  BY DEF Next, vars, hook, conns, proc, batching, ClientStep, ClientConnect, ClientSend, ClientStats,
     ConnectionBreaks, HandlerStep, ReadAndRegister, Store, HandlerReturns, EndBatch, EndSession,
     Unregister, FlushAll, ToFlush, LinkUp, WriteMessage, LinkDown, VerdictArrives, LookUpSession,
     SendControl
<1> QED
  BY <1>1, <1>2, PTL DEF Spec

LEMMA OrderNext == CollectorInv /\ flushing \subseteq Sessions /\ OrderInv /\ [Next]_vars => OrderInv'
<1> SUFFICES ASSUME CollectorInv, flushing \subseteq Sessions, OrderInv, [Next]_vars PROVE OrderInv'
  OBVIOUS
<1>1. ASSUME \/ LinkUp \/ LookUpSession \/ SendControl \/ UNCHANGED vars
             \/ \E s \in Sessions, action \in {"log", "terminate"} : VerdictArrives(s, action)
      PROVE  OrderInv'
  <2>1. UNCHANGED <<cur, events, wire, frame, handler, batches, arrived, sendCh>>
    BY <1>1 DEF LinkUp, VerdictArrives, LookUpSession, SendControl, vars, hook, conns, proc, batching
  <2>2. /\ cur \in [Sessions -> 0..MaxConns] /\ wire \in [Conns -> Seq(Envelopes)]
        /\ frame \in [Conns -> Envelopes \cup {<<>>}]
        /\ ClientAt(events, wire, frame)
    BY DEF OrderInv, OrderShape, OrderAt
  <2>3. Holding'
    BY <2>1 DEF OrderInv, Holding
  <2>4. \A c \in Conns : Increasing(wire[c]) /\ \A a \in InHand(frame[c]), b \in Rest(wire[c]) : a < b
    BY <2>2 DEF ClientAt
  <2> QED
    BY <2>1, <2>2, <2>3, <2>4, EnvelopesMove
<1>2. ASSUME NEW c \in Conns, HandlerStep(c) PROVE OrderInv'
  BY <1>2, ReadOrder, ReturnOrder, StoreOrder, EndOrder DEF HandlerStep
<1> QED
  BY <1>1, <1>2, ClientOrder, FlushOrder, LinkOrder DEF Next

LEMMA OrderInvariant == Spec => []OrderInv
BY OrderInit, OrderNext, Invariant, FlushingInvariant, PTL DEF Spec


-----------------------------------------------------------------------------
(* Theorems. *)

\* Nothing of a session is left when its last handler is gone, in whatever order the
\* clean-up steps of several handlers run.
THEOREM SessionCleanedUpHolds == Spec => []SessionCleanedUp
<1>1. CollectorInv => SessionCleanedUp
  <2> SUFFICES ASSUME CollectorInv, NEW s \in Sessions,
                      \A c \in Conns : Session(c) = s => handler[c] \in {"none", "closed"}
               PROVE  registry[s] = NoConn /\ batches[s] = <<>>
    BY DEF SessionCleanedUp
  <2>1. registry[s] = NoConn
    BY DEF CollectorInv, Shape, Registered, Attached
  <2>2. batches[s] = <<>>
    BY DEF CollectorInv, Batched, Batching
  <2> QED
    BY <2>1, <2>2
<1> QED
  BY <1>1, Invariant, PTL

\* A process is stopped only after the processor's verdict on its own session, however
\* late the command is written and whatever connection the session has by then.
THEOREM OnlyDecidedTerminatedHolds == Spec => []OnlyDecidedTerminated
<1>1. CollectorInv => OnlyDecidedTerminated
  BY DEF CollectorInv, Decided
<1> QED
  BY <1>1, Invariant, PTL

\* A registration is removed by the handler it names and by no other.
THEOREM RegistrationOwnedHolds == Spec => RegistrationOwned
<1> DEFINE Kept == \A s \in Sessions : registry[s] # NoConn /\ registry'[s] = NoConn
                      => handler[registry[s]] = "unregister"
<1>1. ASSUME CollectorInv, [Next]_vars PROVE Kept
  <2> SUFFICES ASSUME NEW s \in Sessions, registry[s] # NoConn, registry'[s] = NoConn
               PROVE  handler[registry[s]] = "unregister"
    OBVIOUS
  <2>1. registry' # registry /\ registry \in [Sessions -> Conns \cup {NoConn}]
    BY <1>1 DEF CollectorInv, Shape
  <2>2. PICK c \in Conns : ReadAndRegister(c) \/ Unregister(c)
    BY <1>1, <2>1 DEF Next, vars, hook, conns, proc, batching, ClientStep, ClientConnect, ClientSend, ClientStats,
       ConnectionBreaks, HandlerStep, Store, HandlerReturns, EndBatch, EndSession, FlushAll, LinkUp,
       WriteMessage, LinkDown, VerdictArrives, LookUpSession, SendControl
  <2>3. ~ReadAndRegister(c)
    BY <2>1, ConnFacts DEF ReadAndRegister
  <2>4. handler[c] = "unregister" /\ registry' = Unregistered(c)
    BY <2>2, <2>3 DEF Unregister
  <2> QED
    BY <2>1, <2>4, ConnFacts DEF Unregistered
<1>2. CollectorInv /\ [Next]_vars => [Kept]_vars
  BY <1>1
<1> QED
  BY <1>2, Invariant, PTL DEF Spec, RegistrationOwned

\* On each connection the launches are written to the processor in the order the process made
\* them, and none twice, through every batch, flush, drop and loss of the link.
THEOREM LaunchOrderHolds == Spec => []LaunchOrder
<1>1. OrderInv => LaunchOrder
  <2> SUFFICES ASSUME OrderInv, NEW s \in Sessions PROVE
        LET pending == Append(Flow, [type |-> "launches", session |-> s, rows |-> batches[s]])
        IN  \A i, j \in DOMAIN pending :
              \A k \in DOMAIN RowsIn(pending[i]), l \in DOMAIN RowsIn(pending[j]) :
                (i < j \/ (i = j /\ k < l)) /\ RowsIn(pending[i])[k].conn = RowsIn(pending[j])[l].conn
                  => RowsIn(pending[i])[k].n < RowsIn(pending[j])[l].n
    BY DEF LaunchOrder
  <2> DEFINE m == [type |-> "launches", session |-> s, rows |-> batches[s]]
             p == Append(Flow, m)
  <2>1. /\ Flow \in Seq(Messages) /\ batches[s] \in Seq(Rows) /\ Ordered(Flow)
        /\ Rising(batches[s]) /\ InFrontOf(Flow, batches[s])
    BY FlowType DEF OrderInv, OrderShape, OrderAt, FlowAt, BatchAt
  <2>2. m \in Messages /\ RowsIn(m) = batches[s] /\ Marks(m) = batches[s]
    BY <2>1, LaunchesMessage
  <2> HIDE DEF m
  <2>3. p \in Seq(Messages) /\ Ordered(p)
    BY <2>1, <2>2, AppendOrdered
  <2> HIDE DEF p
  <2>4. ASSUME NEW i \in DOMAIN p, NEW j \in DOMAIN p,
               NEW k \in DOMAIN RowsIn(p[i]), NEW l \in DOMAIN RowsIn(p[j]),
               i < j \/ (i = j /\ k < l), RowsIn(p[i])[k].conn = RowsIn(p[j])[l].conn
        PROVE  RowsIn(p[i])[k].n < RowsIn(p[j])[l].n
    <3>1. CASE i = j /\ k < l
      BY <2>3, <2>4, <3>1 DEF Ordered, Rising, LessThan
    <3>2. CASE i < j
      <4>1. Marks(p[j]) = RowsIn(p[j])
        <5>1. p[j] \in Messages /\ RowsIn(p[j]) # <<>>
          BY <2>3
        <5> QED
          BY <5>1, MarkFacts
      <4>2. LessThan(RowsIn(p[i])[k], RowsIn(p[j])[l])
        BY <2>3, <3>2, <4>1 DEF Ordered
      <4> QED
        BY <2>4, <4>2 DEF LessThan
    <3> QED
      BY <2>4, <3>1, <3>2
  <2> QED
    BY <2>4 DEF p, m
<1> QED
  BY <1>1, OrderInvariant, PTL

\* The code of a connection is written to the processor before the launches that follow it.
THEOREM CodeNotBehindLaunchHolds == Spec => []CodeNotBehindLaunch
<1>1. OrderInv => CodeNotBehindLaunch
  <2> SUFFICES ASSUME OrderInv, NEW i \in DOMAIN Flow, NEW j \in DOMAIN Flow, i < j,
                      Flow[j].type = "code", NEW k \in DOMAIN RowsIn(Flow[i]),
                      RowsIn(Flow[i])[k].conn = Flow[j].conn
               PROVE  RowsIn(Flow[i])[k].n < Flow[j].n
    BY DEF CodeNotBehindLaunch
  <2> DEFINE x == [conn |-> Flow[j].conn, n |-> Flow[j].n]
  <2>1. Marks(Flow[j]) = <<x>>
    BY DEF Marks
  <2>2. 1 \in DOMAIN Marks(Flow[j]) /\ Marks(Flow[j])[1] = x
    BY <2>1
  <2>3. LessThan(RowsIn(Flow[i])[k], x)
    BY <2>2 DEF OrderInv, OrderAt, FlowAt, Ordered
  <2> QED
    BY <2>3 DEF LessThan
<1> QED
  BY <1>1, OrderInvariant, PTL
================================================================================
