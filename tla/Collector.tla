------------------------------- MODULE Collector -------------------------------
(***************************************************************************)
(* The collector between the hooked processes and the online processor:    *)
(* one handler goroutine per hook connection, the session registry, the    *)
(* launch batcher with its ticker, the bounded channels to and from the    *)
(* processor (native/go/cmd/gpu-sentry-collector/main.go and online.go),   *)
(* with the connection side of the hook client (native/go/client/main.go). *)
(*                                                                         *)
(* A process keeps one session id over all its connections, so the handler *)
(* of a broken connection and the handler of the next one act on the same  *)
(* session.  Events are numbered per session in the order the client sends *)
(* them; <<s, k>> is the k-th connection of session s.  The processor is   *)
(* reduced to what the collector sees of it: it takes messages, forgets a  *)
(* session for good at session_end, and sends verdicts on the windows of   *)
(* the others: log, and at the end of a session terminate.                 *)
(***************************************************************************)
EXTENDS Integers, Sequences, FiniteSets

CONSTANTS
    Sessions,
    MaxConns,          \* bound: connections one process makes
    MaxSent,           \* bound: code and launch events one process sends
    LaunchBatchSize, MaxQueuedLaunches,
    SendCap,           \* capacity of sendCh (4096)
    VerdictCap,        \* capacity of verdictCh (128)
    NoConn

ASSUME CollectorAssumption ==
    /\ MaxConns \in Nat /\ MaxSent \in Nat
    /\ {LaunchBatchSize, MaxQueuedLaunches, SendCap, VerdictCap} \subseteq Nat \ {0}
    /\ NoConn \notin Sessions \X Nat

VARIABLES
    alive, cur, events,  \* client: process runs, its open connection, events sent
    wire, open,          \* each connection: bytes not read yet, client end open
    handler,             \* each connection: where its handler goroutine is
    frame,               \* the envelope it holds between register and store
    registry,            \* collector.sessions
    batches,             \* launchBatcher.batches
    flushing,            \* sessions that flushAll, holding batcher.mu, has not visited
    sendCh, verdictCh,   \* the channels of onlineClient
    link,                \* the processor connection is up
    control,             \* handleVerdicts: connection it is about to write TERMINATE to
    psession, decided,   \* processor: session state, sessions with a terminate verdict
    arrived              \* history: messages written to the processor

hook  == <<alive, cur, events>>
conns == <<wire, open, handler, frame>>
proc  == <<psession, decided, arrived>>
batching == <<batches, flushing>>
vars == <<hook, conns, registry, batching, sendCh, verdictCh, link, control, proc>>

Conns == Sessions \X (1..MaxConns)
Session(c) == c[1]

\* Envelopes: handshakes and statistics, and the numbered code and launch events.
Envelopes == [kind : {"info", "hello", "stats"}] \cup [kind : {"code", "launch"}, n : 1..MaxSent]
Rows == [conn : Conns, n : 1..MaxSent]
Messages ==
    [type : {"info", "stats", "session_end"}, session : Sessions]
    \cup [type : {"code"}, session : Sessions, conn : Conns, n : 1..MaxSent]
    \cup [type : {"launches"}, session : Sessions, rows : Seq(Rows)]
Verdicts == [session : Sessions, action : {"log", "terminate"}]

TypeOK ==
    /\ alive \in [Sessions -> BOOLEAN]
    /\ cur \in [Sessions -> 0..MaxConns] /\ events \in [Sessions -> 0..MaxSent]
    /\ wire \in [Conns -> Seq(Envelopes)] /\ open \in [Conns -> BOOLEAN]
    /\ handler \in [Conns -> {"none", "accept", "read", "store", "endBatch", "endSession", "unregister", "closed"}]
    /\ \A c \in Conns : frame[c] # <<>> => frame[c] \in Envelopes
    /\ registry \in [Sessions -> Conns \cup {NoConn}]
    /\ batches \in [Sessions -> Seq(Rows)] /\ flushing \subseteq Sessions
    /\ Len(sendCh) =< SendCap /\ Len(verdictCh) =< VerdictCap
    /\ sendCh \in Seq(Messages) /\ verdictCh \in Seq(Verdicts) /\ arrived \in Seq(Messages)
    /\ link \in BOOLEAN /\ control \in Conns \cup {NoConn}
    /\ psession \in [Sessions -> {"none", "active", "ended"}] /\ decided \subseteq Sessions

Init ==
    /\ alive = [s \in Sessions |-> TRUE] /\ cur = [s \in Sessions |-> 0]
    /\ events = [s \in Sessions |-> 0]
    /\ wire = [c \in Conns |-> <<>>] /\ open = [c \in Conns |-> FALSE]
    /\ handler = [c \in Conns |-> "none"] /\ frame = [c \in Conns |-> <<>>]
    /\ registry = [s \in Sessions |-> NoConn] /\ batches = [s \in Sessions |-> <<>>]
    /\ flushing = {} /\ sendCh = <<>> /\ verdictCh = <<>> /\ link = FALSE /\ control = NoConn
    /\ psession = [s \in Sessions |-> "none"] /\ decided = {} /\ arrived = <<>>

-----------------------------------------------------------------------------
(* The hook client of a process. *)

Current(s) == <<s, cur[s]>>
Connected(s) == cur[s] > 0 /\ open[Current(s)]

\* runClient: dial and sendHandshake (process_info the first time, client_hello
\* afterwards); the collector accepts and starts a handler.  A handshake that cannot
\* be written is a dial that failed.
ClientConnect(s) ==
    /\ alive[s] /\ ~Connected(s) /\ cur[s] < MaxConns
    /\ LET c == <<s, cur[s] + 1>>
       IN  /\ open' = [open EXCEPT ![c] = TRUE]
           /\ wire' = [wire EXCEPT ![c] = <<[kind |-> IF cur[s] = 0 THEN "info" ELSE "hello"]>>]
           /\ handler' = [handler EXCEPT ![c] = "accept"]
    /\ cur' = [cur EXCEPT ![s] = @ + 1]
    /\ UNCHANGED <<alive, events, frame, registry, batching, sendCh, verdictCh, link, control, proc>>

\* drainLoop writes one event.
ClientSend(s, kind) ==
    /\ alive[s] /\ Connected(s) /\ events[s] < MaxSent
    /\ events' = [events EXCEPT ![s] = @ + 1]
    /\ wire' = [wire EXCEPT ![Current(s)] = Append(@, [kind |-> kind, n |-> events[s] + 1])]
    /\ UNCHANGED <<alive, cur, open, handler, frame, registry, batching, sendCh, verdictCh, link,
                   control, proc>>

\* Bound: a process reports statistics only when no earlier report is on its way.
StatsUnderWay(s) ==
    \/ wire[Current(s)] # <<>>
    \/ frame[Current(s)] = [kind |-> "stats"]
    \/ \E i \in DOMAIN sendCh : sendCh[i] = [type |-> "stats", session |-> s]

\* drainLoop writes a stats envelope; it registers the connection like any other.
ClientStats(s) ==
    /\ alive[s] /\ Connected(s) /\ ~StatsUnderWay(s)
    /\ wire' = [wire EXCEPT ![Current(s)] = <<[kind |-> "stats"]>>]
    /\ UNCHANGED <<hook, open, handler, frame, registry, batching, sendCh, verdictCh, link,
                   control, proc>>

\* The connection breaks; what the collector has not read may be lost with it.
ConnectionBreaks(s, lost) ==
    /\ Connected(s)
    /\ open' = [open EXCEPT ![Current(s)] = FALSE]
    /\ wire' = IF lost THEN [wire EXCEPT ![Current(s)] = <<>>] ELSE wire
    /\ UNCHANGED <<hook, handler, frame, registry, batching, sendCh, verdictCh, link, control, proc>>

-----------------------------------------------------------------------------
(* onlineClient: the channel to the processor. *)

\* Mutant: the newest message is sent first.
SentNewestFirst(ch, message) == IF Len(ch) < SendCap THEN <<message>> \o ch ELSE ch

\* send and endSession of onlineClient: a full channel drops the message.
Sent(ch, message) == IF Len(ch) < SendCap THEN Append(ch, message) ELSE ch

-----------------------------------------------------------------------------
(* handleConn. *)

\* readFrame returned an envelope; registerSessionConn, under collector.mu.
ReadAndRegister(c) ==
    /\ handler[c] \in {"accept", "read"} /\ wire[c] # <<>>
    /\ frame' = [frame EXCEPT ![c] = Head(wire[c])]
    /\ wire' = [wire EXCEPT ![c] = Tail(@)]
    /\ registry' = [registry EXCEPT ![Session(c)] = c]
    /\ handler' = [handler EXCEPT ![c] = "store"]
    /\ UNCHANGED <<hook, open, batching, sendCh, verdictCh, link, control, proc>>

\* flushLocked: the rows leave the batcher whether or not the channel takes them.
FlushTo(ch, s, rows) ==
    IF rows = <<>> THEN ch ELSE Sent(ch, [type |-> "launches", session |-> s, rows |-> rows])

Complete(rows) == Len(rows) >= LaunchBatchSize

\* Mutant: a new launch is put in front of the batch.
WithLaunchInFront(rows, row) == <<row>> \o rows

WithLaunch(rows, row) == Append(rows, row)

\* launchBatcher.add: drop when full, append, flush a complete batch.
BatcherAdd(c, n) ==
    LET s    == Session(c)
        rows == WithLaunch(batches[s], [conn |-> c, n |-> n])
    IN  IF Len(batches[s]) >= MaxQueuedLaunches THEN UNCHANGED <<batches, sendCh>>
        ELSE IF Complete(rows)
             THEN /\ batches' = [batches EXCEPT ![s] = <<>>]
                  /\ sendCh' = FlushTo(sendCh, s, rows)
             ELSE /\ batches' = [batches EXCEPT ![s] = rows]
                  /\ UNCHANGED sendCh

\* store, under collector.mu: code, process_info and stats go to the channel at once,
\* launches to the batcher; client_hello is only written to disk.  The row appended to
\* the capture comes last: if that fails the handler returns with the event forwarded.
Store(c, after) ==
    /\ handler[c] = "store"
    /\ LET f == frame[c]
           message == IF f.kind = "code"
                      THEN [type |-> "code", session |-> Session(c), conn |-> c, n |-> f.n]
                      ELSE [type |-> f.kind, session |-> Session(c)]
       IN  \/ f.kind = "launch" /\ flushing = {} /\ BatcherAdd(c, f.n)
           \/ f.kind \in {"code", "info", "stats"} /\ sendCh' = Sent(sendCh, message) /\ UNCHANGED batches
           \/ f.kind = "hello" /\ UNCHANGED <<sendCh, batches>>
    /\ frame' = [frame EXCEPT ![c] = <<>>]
    /\ handler' = [handler EXCEPT ![c] = after]
    /\ UNCHANGED <<hook, wire, open, registry, flushing, verdictCh, link, control, proc>>

\* The handler returns: end of stream, or an error before the event was forwarded.
\* Nothing is cleaned up for a connection that never named its session.
HandlerReturns(c) ==
    /\ \/ handler[c] \in {"accept", "read"} /\ wire[c] = <<>> /\ ~open[c]
       \/ handler[c] = "store"
    /\ frame' = [frame EXCEPT ![c] = <<>>]
    /\ handler' = [handler EXCEPT ![c] = IF @ = "accept" THEN "closed" ELSE "endBatch"]
    /\ UNCHANGED <<hook, wire, open, registry, batching, sendCh, verdictCh, link, control, proc>>

\* Deferred, first: launchBatcher.endSession drops the session's open batch ...
EndBatch(c) ==
    /\ handler[c] = "endBatch" /\ flushing = {}
    /\ batches' = [batches EXCEPT ![Session(c)] = <<>>]
    /\ handler' = [handler EXCEPT ![c] = "endSession"]
    /\ UNCHANGED <<hook, wire, open, frame, registry, flushing, sendCh, verdictCh, link, control, proc>>

\* ... then onlineClient.endSession queues session_end ...
EndSession(c) ==
    /\ handler[c] = "endSession"
    /\ sendCh' = Sent(sendCh, [type |-> "session_end", session |-> Session(c)])
    /\ handler' = [handler EXCEPT ![c] = "unregister"]
    /\ UNCHANGED <<hook, wire, open, frame, registry, batching, verdictCh, link, control, proc>>

\* Mutant: the entry stays.
UnregisteredNever(c) == registry

\* unregisterSessionConn removes the entry only if it is this connection's.
Unregistered(c) ==
    IF registry[Session(c)] = c THEN [registry EXCEPT ![Session(c)] = NoConn] ELSE registry

\* ... then unregisterSessionConn runs and the connection is closed.
Unregister(c) ==
    /\ handler[c] = "unregister"
    /\ registry' = Unregistered(c)
    /\ open' = [open EXCEPT ![c] = FALSE]
    /\ wire' = [wire EXCEPT ![c] = <<>>]
    /\ handler' = [handler EXCEPT ![c] = "closed"]
    /\ UNCHANGED <<hook, frame, batching, sendCh, verdictCh, link, control, proc>>

\* The keys of the map when flushAll starts, and those it has not visited.
ToFlush == IF flushing = {} THEN {s \in Sessions : batches[s] # <<>>} ELSE flushing

\* launchBatcher.flushAll on a tick takes batcher.mu and flushes the open batches in map order,
\* which is random; messages of other handlers go to the channel in between.
FlushAll ==
    /\ \E s \in ToFlush :
         /\ flushing' = ToFlush \ {s}
         /\ sendCh' = FlushTo(sendCh, s, batches[s])
         /\ batches' = [batches EXCEPT ![s] = <<>>]
    /\ UNCHANGED <<hook, conns, registry, verdictCh, link, control, proc>>

-----------------------------------------------------------------------------
(* onlineClient.run, runConn and readLoop, and the processor behind them. *)

LinkUp ==
    /\ ~link /\ link' = TRUE
    /\ UNCHANGED <<hook, conns, registry, batching, sendCh, verdictCh, control, proc>>

\* A read error, or a write error that loses the message just taken off the channel.
LinkDown(lose) ==
    /\ link /\ link' = FALSE
    /\ IF lose THEN sendCh # <<>> /\ sendCh' = Tail(sendCh) ELSE UNCHANGED sendCh
    /\ UNCHANGED <<hook, conns, registry, batching, verdictCh, control, proc>>

\* The processor's view of a message: any message opens a session it does not know,
\* session_end closes a known one for good.
SessionAfter(m) ==
    CASE m.type = "session_end" /\ psession[m.session] = "active" -> "ended"
      [] m.type # "session_end" /\ psession[m.session] = "none"   -> "active"
      [] OTHER -> psession[m.session]

\* runConn writes the oldest message and the processor receives it.  (After a reconnect the
\* processor may still read the rest of the old connection in another thread: _handle_conn.
\* The order in arrived is the order of the writes.)
WriteMessage ==
    /\ link /\ sendCh # <<>>
    /\ LET m == Head(sendCh)
       IN  /\ psession' = [psession EXCEPT ![m.session] = SessionAfter(m)]
           /\ arrived' = IF m.type \in {"code", "launches"} THEN Append(arrived, m) ELSE arrived
    /\ sendCh' = Tail(sendCh)
    /\ UNCHANGED <<hook, conns, registry, batching, verdictCh, link, control, decided>>

\* The processor sends a verdict for a window of a session, the last one being to terminate it;
\* readLoop puts it in verdictCh, or drops it when the channel is full.
\* Bound: one log verdict under way.
VerdictArrives(s, action) ==
    /\ link /\ psession[s] = "active" /\ s \notin decided
    /\ \E i \in DOMAIN arrived : arrived[i].type = "launches" /\ arrived[i].session = s
    /\ action = "log" => \A i \in DOMAIN verdictCh : verdictCh[i].action # "log"
    /\ decided' = IF action = "terminate" THEN decided \cup {s} ELSE decided
    /\ verdictCh' = IF Len(verdictCh) < VerdictCap
                    THEN Append(verdictCh, [session |-> s, action |-> action]) ELSE verdictCh
    /\ UNCHANGED <<hook, conns, registry, batching, sendCh, link, control, psession, arrived>>

\* Mutant: every verdict becomes a command to terminate.
AddresseeOfAny(v) == registry[v.session]

\* A verdict that is not suspicious is passed over; c.sessions[verdict.SessionID]
Addressee(v) == IF v.action = "terminate" THEN registry[v.session] ELSE NoConn

\* handleVerdicts / sendControl: look the session up; without an entry the verdict
\* is only logged.
LookUpSession ==
    /\ control = NoConn /\ verdictCh # <<>>
    /\ control' = Addressee(Head(verdictCh))
    /\ verdictCh' = Tail(verdictCh)
    /\ UNCHANGED <<hook, conns, registry, batching, sendCh, link, proc>>

\* sendControl writes TERMINATE: the client's controlLoop exits the process with 101
\* if its end of that connection is still open; otherwise the command is lost.
SendControl ==
    /\ control # NoConn
    /\ IF open[control]
       THEN /\ alive' = [alive EXCEPT ![Session(control)] = FALSE]
            /\ open' = [open EXCEPT ![control] = FALSE]
       ELSE UNCHANGED <<alive, open>>
    /\ control' = NoConn
    /\ UNCHANGED <<cur, events, wire, handler, frame, registry, batching, sendCh, verdictCh, link, proc>>

-----------------------------------------------------------------------------

ClientStep(s) ==
    \/ ClientConnect(s) \/ ClientStats(s)
    \/ \E kind \in {"code", "launch"} : ClientSend(s, kind)

HandlerStep(c) ==
    \/ ReadAndRegister(c) \/ HandlerReturns(c)
    \/ \E after \in {"read", "endBatch"} : Store(c, after)
    \/ EndBatch(c) \/ EndSession(c) \/ Unregister(c)

Next ==
    \/ \E s \in Sessions : ClientStep(s) \/ \E lost \in BOOLEAN : ConnectionBreaks(s, lost)
    \/ \E c \in Conns : HandlerStep(c)
    \/ FlushAll
    \/ LinkUp \/ WriteMessage \/ \E lose \in BOOLEAN : LinkDown(lose)
    \/ \E s \in Sessions, action \in {"log", "terminate"} : VerdictArrives(s, action)
    \/ LookUpSession \/ SendControl

Spec == Init /\ [][Next]_vars

\* Goroutines run, the processor link is reestablished, and a process that lost its
\* connection dials again.  Nothing forces events, breaks or verdicts.
Fairness ==
    /\ \A s \in Sessions : WF_vars(ClientConnect(s)) /\ WF_vars(ClientStats(s))
    /\ \A c \in Conns : WF_vars(HandlerStep(c))
    /\ WF_vars(FlushAll) /\ WF_vars(LinkUp) /\ SF_vars(WriteMessage)
    /\ WF_vars(LookUpSession) /\ WF_vars(SendControl)

FairSpec == Spec /\ Fairness

-----------------------------------------------------------------------------
(* Properties. *)

\* What was written to the processor and what is on its way to it, oldest message first.
Flow == arrived \o sendCh
RowsIn(m) == IF m.type = "launches" THEN m.rows ELSE <<>>

\* The launches of one hook connection are written to the processor in the order the
\* process made them and none twice, through batches cut by size, by the ticker, and by drops
\* at a full channel; the open batch of the session comes last.
LaunchOrder ==
    \A s \in Sessions :
        LET pending == Append(Flow, [type |-> "launches", session |-> s, rows |-> batches[s]])
        IN  \A i, j \in DOMAIN pending :
              \A k \in DOMAIN RowsIn(pending[i]), l \in DOMAIN RowsIn(pending[j]) :
                (i < j \/ (i = j /\ k < l)) /\ RowsIn(pending[i])[k].conn = RowsIn(pending[j])[l].conn
                  => RowsIn(pending[i])[k].n < RowsIn(pending[j])[l].n

\* A code object overtakes the batcher, never the reverse: on one connection the code
\* the process loaded before a launch is not behind that launch, so a processor that
\* reads one connection can analyse a kernel before it sees it run.
CodeNotBehindLaunch ==
    \A i, j \in DOMAIN Flow :
        i < j /\ Flow[j].type = "code" =>
            \A k \in DOMAIN RowsIn(Flow[i]) :
                RowsIn(Flow[i])[k].conn = Flow[j].conn => RowsIn(Flow[i])[k].n < Flow[j].n

\* When the last handler of a session is gone nothing of the session is left in the
\* registry or the batcher, in whatever order the handlers of a broken and of a new
\* connection of the same process ran.
SessionCleanedUp ==
    \A s \in Sessions :
        (\A c \in Conns : Session(c) = s => handler[c] \in {"none", "closed"})
            => registry[s] = NoConn /\ batches[s] = <<>>

\* The handler of an old connection never removes the registration of a newer one.
RegistrationOwned ==
    [][\A s \in Sessions : registry[s] # NoConn /\ registry'[s] = NoConn
            => handler[registry[s]] = "unregister"]_vars

\* Only a process the processor decided against is stopped, whatever connections came
\* and went between the decision, the lookup and the write of the command.
OnlyDecidedTerminated == \A s \in Sessions : ~alive[s] => s \in decided

\* README.md: "The default policy reports cryptomining and terminates the process with
\* exit code 101."  A process that keeps (or regains) its connection to the collector
\* is stopped once the processor has decided so.
VerdictTerminates ==
    \A s \in Sessions : (s \in decided /\ <>[]Connected(s)) ~> ~alive[s]
================================================================================
