---------------------------------- MODULE Link ----------------------------------
(***************************************************************************)
(* The processor and the collector as two processes: the framed stream     *)
(* between them (online/framing.py, OnlineProcessor._handle_conn, and      *)
(* readJSONFrame, writeJSONFrame, run, runConn and readLoop of online.go), *)
(* and scripts/deploy.py, which starts both and ends both.                 *)
(*                                                                         *)
(* A frame is two header units and then its body, one unit per size; a     *)
(* unit names its frame, its place and the frame's size.  Frames are       *)
(* numbered per connection and direction.  Units in a stream are written,  *)
(* but a reader may have to wait for them.  A header that is not one       *)
(* frame's is read as some size; if it begins inside a body, which is      *)
(* text, that size is always too large.  A body that is not one frame's is *)
(* never a message.                                                        *)
(***************************************************************************)
EXTENDS Naturals, Sequences, SequencesExt

CONSTANTS
    Sizes,        \* sizes of frame bodies
    MaxBytes,     \* frame_max_bytes
    MaxConns,     \* bound: connections
    MaxFrames     \* bound: MaxFrames[c], frames per direction of connection c

ASSUME LinkAssumption ==
    /\ Sizes \subseteq Nat \ {0} /\ {MaxBytes, MaxConns} \subseteq Nat \ {0}
    /\ MaxFrames \in [1..MaxConns -> Nat]

VARIABLES
    child,       \* the two processes, as the operating system sees them
    supervisor,  \* deploy.py: start, watch, terminate, wait, done; or killed
    waiting,     \* the child its last loop waits for
    listening,   \* the processor has bound its socket
    run,         \* the collector's onlineClient.run: dial, connected, backoff
    conn,        \* the connection the collector made last
    closed,      \* closed[c]: the ends of connection c that are closed
    stream,      \* stream[c][d]: units written and not read
    sent,        \* sent[c][d]: frames written
    reader,      \* reader[c][d]: what the reading end is doing
    delivered,   \* delivered[c][d]: history, messages it handed on
    torn         \* torn[c][d]: history, a timeout took away part of a frame

processes == <<child, supervisor, waiting, listening>>
vars == <<processes, run, conn, closed, stream, sent, reader, delivered, torn>>

Children == {"processor", "collector"}
Conns == 1..MaxConns
Dirs == {"in", "out"}                  \* to the processor, to the collector
ReadingEnd(d) == IF d = "in" THEN "processor" ELSE "collector"
WritingEnd(d) == IF d = "in" THEN "collector" ELSE "processor"

Units(n, size) == [i \in 1..(2 + size) |-> [frame |-> n, place |-> i, size |-> size]]
AtHeader == [got |-> <<>>, need |-> 2, phase |-> "header"]

Runs(p) == child[p] \in {"running", "ending"}

Init ==
    /\ child = [p \in Children |-> "none"] /\ supervisor = "start" /\ waiting = "processor"
    /\ listening = FALSE /\ run = "dial" /\ conn = 0
    /\ closed = [c \in Conns |-> Children]
    /\ stream = [c \in Conns |-> [d \in Dirs |-> <<>>]]
    /\ sent = [c \in Conns |-> [d \in Dirs |-> 0]]
    /\ reader = [c \in Conns |-> [d \in Dirs |-> AtHeader]]
    /\ delivered = [c \in Conns |-> [d \in Dirs |-> <<>>]]
    /\ torn = [c \in Conns |-> [d \in Dirs |-> FALSE]]
-----------------------------------------------------------------------------
(* Frames. *)

\* send_frame and writeJSONFrame: neither looks at the largest size the peer accepts.
Write(c, d, size) ==
    /\ Runs(WritingEnd(d)) /\ WritingEnd(d) \notin closed[c] /\ ReadingEnd(d) \notin closed[c]
    /\ sent[c][d] < MaxFrames[c]
    /\ sent' = [sent EXCEPT ![c][d] = @ + 1]
    /\ stream' = [stream EXCEPT ![c][d] = @ \o Units(sent[c][d] + 1, size)]
    /\ UNCHANGED <<processes, run, conn, closed, reader, delivered, torn>>

\* A read of some of the bytes that are missing.
Read(c, d) ==
    LET r == reader[c][d]
    IN  /\ Runs(ReadingEnd(d)) /\ ReadingEnd(d) \notin closed[c]
        /\ r.phase \in {"header", "body"} /\ stream[c][d] # <<>> /\ Len(r.got) < r.need
        /\ reader' = [reader EXCEPT ![c][d].got = Append(@, Head(stream[c][d]))]
        /\ stream' = [stream EXCEPT ![c][d] = Tail(@)]
        /\ UNCHANGED <<processes, run, conn, closed, sent, delivered, torn>>

Whole(units, first) ==
    \A i \in DOMAIN units : units[i].place = first + i - 1 /\ units[i].frame = units[1].frame

\* The sizes a header can be read as; MaxBytes + 1 stands for all that are too large.
HeaderSizes(units) ==
    CASE Whole(units, 1)                               -> {units[1].size}
      [] ~Whole(units, 1) /\ units[1].place > 2        -> {MaxBytes + 1}
      [] OTHER                                         -> 1..(MaxBytes + 1)

\* Mutant: a frame that is too large is left, and the next header read.
TooLargeContinues(d) == AtHeader

\* A frame that is too large: FrameError in the processor, an error in readLoop.
TooLarge(d) == [AtHeader EXCEPT !.phase = "failed"]

HeaderComplete(c, d) ==
    LET r == reader[c][d]
    IN  /\ Runs(ReadingEnd(d)) /\ ReadingEnd(d) \notin closed[c]
        /\ r.phase = "header" /\ Len(r.got) = r.need
        /\ \E size \in HeaderSizes(r.got) :
              reader' = [reader EXCEPT ![c][d] =
                            IF size > MaxBytes THEN TooLarge(d)
                            ELSE [got |-> <<>>, need |-> size, phase |-> "body"]]
        /\ UNCHANGED <<processes, run, conn, closed, stream, sent, delivered, torn>>

\* json.loads raises: the processor reports it and goes on; the collector gives up.
AfterBadBody(d) == IF d = "in" THEN AtHeader ELSE [AtHeader EXCEPT !.phase = "failed"]

BodyComplete(c, d) ==
    LET r == reader[c][d]
        message == Whole(r.got, 3) /\ r.got[1].size = r.need
    IN  /\ Runs(ReadingEnd(d)) /\ ReadingEnd(d) \notin closed[c]
        /\ r.phase = "body" /\ Len(r.got) = r.need
        /\ delivered' = IF message THEN [delivered EXCEPT ![c][d] = Append(@, r.got[1].frame)]
                        ELSE delivered
        /\ reader' = [reader EXCEPT ![c][d] = IF message THEN AtHeader ELSE AfterBadBody(d)]
        /\ UNCHANGED <<processes, run, conn, closed, stream, sent, torn>>

\* A read times out.  The bytes read so far are forgotten, by the processor anywhere and
\* by the collector in a header; in a body the collector gives up.
Timeout(c, d) ==
    LET r == reader[c][d]
        goesOn == d = "in" \/ r.phase = "header"
    IN  /\ Runs(ReadingEnd(d)) /\ ReadingEnd(d) \notin closed[c]
        /\ r.phase \in {"header", "body"} /\ Len(r.got) < r.need
        /\ r # AtHeader
        /\ reader' = [reader EXCEPT ![c][d] = IF goesOn THEN AtHeader
                                              ELSE [AtHeader EXCEPT !.phase = "failed"]]
        /\ torn' = [torn EXCEPT ![c][d] = goesOn \/ @]
        /\ UNCHANGED <<processes, run, conn, closed, stream, sent, delivered>>

\* The writing end is closed: what it wrote may be read before the end, or be lost.
EndOfStream(c, d) ==
    /\ Runs(ReadingEnd(d)) /\ ReadingEnd(d) \notin closed[c]
    /\ reader[c][d].phase # "failed" /\ WritingEnd(d) \in closed[c]
    /\ reader' = [reader EXCEPT ![c][d] = [AtHeader EXCEPT !.phase = "failed"]]
    /\ stream' = [stream EXCEPT ![c][d] = <<>>]
    /\ UNCHANGED <<processes, run, conn, closed, sent, delivered, torn>>
-----------------------------------------------------------------------------
(* Connections. *)

\* End p of the connections cs is closed: what it did not read is gone, and the
\* history of what it read is not needed any more.
Close(p, cs) ==
    LET gone(c, d) == c \in cs /\ ReadingEnd(d) = p
    IN  /\ closed' = [c \in Conns |-> closed[c] \cup (IF c \in cs THEN {p} ELSE {})]
        /\ stream' = [c \in Conns |-> [d \in Dirs |-> IF gone(c, d) THEN <<>> ELSE stream[c][d]]]
        /\ reader' = [c \in Conns |-> [d \in Dirs |-> IF gone(c, d) THEN AtHeader ELSE reader[c][d]]]
        /\ delivered' = [c \in Conns |-> [d \in Dirs |-> IF gone(c, d) THEN <<>> ELSE delivered[c][d]]]
        /\ torn' = [c \in Conns |-> [d \in Dirs |-> torn[c][d] /\ ~gone(c, d)]]
        /\ sent' = [c \in Conns |-> [d \in Dirs |-> IF gone(c, d) THEN 0 ELSE sent[c][d]]]

\* serve_forever: the old socket is unlinked and the new one bound.
Listen ==
    /\ child["processor"] = "running" /\ ~listening
    /\ listening' = TRUE
    /\ UNCHANGED <<child, supervisor, waiting, run, conn, closed, stream, sent, reader,
                   delivered, torn>>

\* The greetings of both ends are frames like any other.
Dial ==
    /\ child["collector"] = "running" /\ run = "dial" /\ listening /\ conn < MaxConns
    /\ run' = "connected"
    /\ conn' = conn + 1
    /\ closed' = [closed EXCEPT ![conn + 1] = {}]
    /\ UNCHANGED <<processes, stream, sent, reader, delivered, torn>>

DialFails ==
    /\ child["collector"] = "running" /\ run = "dial" /\ ~listening
    /\ run' = "backoff"
    /\ UNCHANGED <<processes, conn, closed, stream, sent, reader, delivered, torn>>

BackoffOver ==
    /\ child["collector"] = "running" /\ run = "backoff"
    /\ run' = "dial"
    /\ UNCHANGED <<processes, conn, closed, stream, sent, reader, delivered, torn>>

Failed(c, d) == c \in Conns /\ reader[c][d].phase = "failed"

\* Mutant: the reader's error is not looked at.
ErrorUnseen == FALSE

\* readLoop put its error into errCh.
ErrorSeen == Failed(conn, "out")

RunConnReturns ==
    /\ child["collector"] = "running" /\ run = "connected"
    /\ run' = "backoff"
    /\ Close("collector", {conn})
    /\ UNCHANGED <<processes, conn>>

ReadError  == ErrorSeen /\ RunConnReturns

\* Its peer is gone, or did not take the message in time; what is written stays written.
WriteError == RunConnReturns

\* _handle_conn returns: its reader failed, or a write did.
HandlerReturns(c) ==
    /\ Runs("processor") /\ "processor" \notin closed[c]
    /\ Close("processor", {c})
    /\ UNCHANGED <<processes, run, conn>>
-----------------------------------------------------------------------------
(* deploy.py and the operating system. *)

ProcessStep(p, state, next) == child[p] \in state /\ child' = [child EXCEPT ![p] = next]

Connections == <<run, conn, stream, sent, reader, delivered, torn>>

\* A process ends by itself, by a signal or by an error, and its sockets with it.
Exits(p) ==
    /\ ProcessStep(p, {"running", "ending", "killed"}, "dead")
    /\ listening' = (listening /\ p # "processor")
    /\ Close(p, Conns)
    /\ UNCHANGED <<supervisor, waiting, run, conn>>

Start ==
    /\ supervisor = "start"
    /\ IF child["processor"] = "none" THEN ProcessStep("processor", {"none"}, "running") /\ UNCHANGED supervisor
       ELSE ProcessStep("collector", {"none"}, "running") /\ supervisor' = "watch"
    /\ UNCHANGED <<waiting, listening, closed, Connections>>

Finally ==
    /\ supervisor' = "terminate"
    /\ UNCHANGED <<child, waiting, listening, closed, Connections>>

\* poll() of a child that has ended.
Poll == supervisor = "watch" /\ (\E p \in Children : child[p] = "dead") /\ Finally

\* KeyboardInterrupt, or a child that cannot be started.
Interrupt == supervisor \in {"start", "watch"} /\ Finally

\* terminate() of every child that has not ended.
Terminate ==
    /\ supervisor = "terminate"
    /\ supervisor' = "wait"
    /\ child' = [p \in Children |-> IF child[p] = "running" THEN "ending" ELSE child[p]]
    /\ UNCHANGED <<waiting, listening, closed, Connections>>

Ended(p) == child[p] \in {"none", "dead"}

\* wait(timeout=10) of one child after the other returns ...
Waited ==
    /\ supervisor = "wait" /\ Ended(waiting)
    /\ IF waiting = "processor" THEN waiting' = "collector" /\ UNCHANGED supervisor
       ELSE supervisor' = "done" /\ UNCHANGED waiting
    /\ UNCHANGED <<child, listening, closed, Connections>>

\* Mutant: nothing is done about a child that does not end.
StillEnding(p) == FALSE

SlowToEnd(p) == child[p] = "ending"

\* ... or expires: the child is killed and waited for again, without a limit.
Kill ==
    /\ supervisor = "wait" /\ SlowToEnd(waiting)
    /\ child' = [child EXCEPT ![waiting] = "killed"]
    /\ UNCHANGED <<supervisor, waiting, listening, closed, Connections>>

\* deploy.py itself is killed, or interrupted again in its finally block.
SupervisorDies ==
    /\ supervisor \notin {"done", "killed"}
    /\ supervisor' = "killed"
    /\ UNCHANGED <<child, waiting, listening, closed, Connections>>
-----------------------------------------------------------------------------
Reader(c, d) == Read(c, d) \/ HeaderComplete(c, d) \/ BodyComplete(c, d) \/ EndOfStream(c, d)

HandlerFails(c) == Failed(c, "in") /\ HandlerReturns(c)

Supervise == Start \/ Poll \/ Terminate \/ Waited \/ Kill

Next ==
    \/ \E c \in Conns, d \in Dirs :
          Reader(c, d) \/ Timeout(c, d) \/ \E size \in Sizes : Write(c, d, size)
    \/ Listen \/ Dial \/ DialFails \/ BackoffOver \/ ReadError \/ WriteError
    \/ \E c \in Conns : HandlerReturns(c)
    \/ \E p \in Children : Exits(p)
    \/ Supervise \/ Interrupt \/ SupervisorDies

\* The supervisor and the threads of both processes run, and a killed process ends;
\* one that was only asked to end need not.
Spec ==
    /\ Init /\ [][Next]_vars
    /\ WF_vars(Supervise) /\ WF_vars(Listen) /\ WF_vars(Dial \/ DialFails \/ BackoffOver)
    /\ WF_vars(ReadError) /\ (\A c \in Conns : WF_vars(HandlerFails(c)))
    /\ (\A c \in Conns, d \in Dirs : WF_vars(Reader(c, d)))
    /\ \A p \in Children : WF_vars(child[p] = "killed" /\ Exits(p))
-----------------------------------------------------------------------------
(* Properties. *)

\* Messages leave a connection in the order they were written, none twice; none is
\* passed over unless a timeout took away the beginning of a frame (recv_frame
\* and readJSONFrame, the peer's writes, and whatever the peer does at the end).
FramesDelivered ==
    \A c \in Conns, d \in Dirs :
        LET got == delivered[c][d]
        IN  /\ \A i, j \in DOMAIN got : i < j => got[i] < got[j]
            /\ torn[c][d] \/ got = [i \in DOMAIN got |-> i]

\* A component that ends takes the other one with it, also if that one ignores the
\* request to end; only the death of deploy.py leaves one running (the finally
\* block of main).
ComponentsEndTogether ==
    (supervisor # "start" /\ \E p \in Children : child[p] = "dead")
        ~> ((\A p \in Children : Ended(p)) \/ supervisor = "killed")

\* While both components run, the collector does not stay without a connection, also
\* after the processor dropped one for a frame that was too large or that it could
\* not find the beginning of (run, runConn and _handle_conn).
LinkRecovers ==
    <>[](conn < MaxConns /\ \A p \in Children : child[p] = "running")
        => []<>(run = "connected" /\ "processor" \notin closed[conn] /\ ~Failed(conn, "out"))
================================================================================
