------------------------------ MODULE CodeAnalysis ------------------------------
(***************************************************************************)
(* How one session of the online processor turns code events into kernel   *)
(* artifacts, and launches into work for the window scheduler              *)
(* (online/processor.py, with the parts of sass/ it calls).                *)
(*                                                                         *)
(* Threads: a reader per collector connection, the single thread of        *)
(* event_executor, the workers of executor, and the inference workers,     *)
(* which read the kernel directories without the analysis lock.  A section *)
(* under OnlineProcessor.lock is one action.  The processor may be killed  *)
(* at any point and started again on the same work directory.              *)
(*                                                                         *)
(* A kernel is a pair <<code, function>>; it stands for its text.          *)
(***************************************************************************)
EXTENDS Naturals, Sequences, SequencesExt, FiniteSetsExt

CONSTANTS
    Workers, Codes,
    Functions,     \* Functions[c]: what the disassembly of code c lists, in order
    Launches,      \* launch events: [code, name]; the code may be Nil
    SafeName,      \* SafeName[n]: the directory name made from a function name
    Canonical,     \* Canonical[n]: the name with its line ends made uniform
    Overlap,       \* pairs of names of which one contains the other, without blanks
    MaxMessages,   \* bound: messages of the session
    MaxCrashes,    \* bound: restarts
    Nil, Torn      \* no value; the content of a file that is open for writing

Kernels == {<<c, n>> : c \in Codes, n \in UNION {ToSet(Functions[x]) : x \in Codes}}

ASSUME AnalysisAssumption ==
    /\ Nil \notin Codes \cup Workers /\ Torn # Nil
    /\ MaxMessages \in Nat /\ MaxCrashes \in Nat
    /\ Nil \notin Kernels /\ Torn \notin Kernels
    /\ \A l \in Launches : l.code \in Codes \cup {Nil}
    /\ \A c \in Codes : Functions[c] \in Seq(ToSet(Functions[c])) /\ IsInjective(Functions[c])

VARIABLES
    received,   \* messages so far, and the codes among them
    events,     \* event_executor's queue
    held,       \* the batch event_executor handles, between its two locked sections
    session,    \* the SessionState: none yet, active or not
    future,     \* what became of the analysis of each code
    pool,       \* executor's queue
    pc, work,   \* a worker's place in _analyze_code_object, and its variables
    locked,     \* analysis_lock
    disk,       \* the kernel directories: a file's content, or Nil, or Torn
    artifacts,  \* artifacts_by_code, whose entries also make up artifacts
    scheduled,  \* the artifact last used for each launch in this life
    dropped,    \* launches counted by dropped_unready_launches
    skipped,    \* a window was given up because its text could not be rendered
    crashes     \* bound: restarts so far

memory == <<events, held, session, future, pool, pc, work, locked, artifacts, scheduled, dropped>>
vars   == <<memory, received, disk, skipped, crashes>>

Message == [type : {"code"}, code : Codes] \cup [type : {"launches"}, launch : Launches]
           \cup {[type |-> "end"]}
NoDir  == [sass |-> Nil, metadata |-> Nil, loop |-> Nil]
NoWork == [code |-> Nil, done |-> <<>>, used |-> {}, dir |-> Nil, failed |-> "no"]

\* Analysed code: the artifacts of its functions, each with the text rendered for it.
Artifact == [kernel : Kernels, text : Kernels]

Dirs == {<<SafeName[k[2]], c, i>> : k \in Kernels, c \in Codes \cup {Nil}, i \in 0..2}

Init ==
    /\ events = <<>> /\ held = Nil /\ session = "none"
    /\ future = [c \in Codes |-> "none"] /\ pool = <<>>
    /\ pc = [w \in Workers |-> "idle"] /\ work = [w \in Workers |-> NoWork] /\ locked = Nil
    /\ artifacts = [c \in Codes |-> <<>>]
    /\ scheduled = [l \in Launches |-> Nil] /\ dropped = {}
    /\ received = [count |-> 0, codes |-> {}]
    /\ disk = [d \in Dirs |-> NoDir]
    /\ skipped = FALSE /\ crashes = 0
-----------------------------------------------------------------------------
(* The session's state. *)

\* cancel() succeeds for the futures no worker has taken.
EndedFutures == [c \in Codes |-> IF future[c] = "pending" THEN "cancelled" ELSE future[c]]

MarkSessionEnded ==
    IF session = "active"
    THEN session' = "ended" /\ future' = EndedFutures /\ pool' = <<>>
    ELSE UNCHANGED <<session, future, pool>>

\* A connection's reader marks a session end at once, ahead of the queue it then
\* puts the message into.  Code is sent once; the rest may repeat.
Receive(m) ==
    /\ received.count < MaxMessages
    /\ m.type = "code" => m.code \notin received.codes
    /\ received' = [count |-> received.count + 1,
                    codes |-> received.codes \cup (IF m.type = "code" THEN {m.code} ELSE {})]
    /\ events' = Append(events, m)
    /\ IF m.type = "end" THEN MarkSessionEnded ELSE UNCHANGED <<session, future, pool>>
    /\ UNCHANGED <<held, pc, work, locked, disk, artifacts, scheduled, dropped, skipped, crashes>>

Handling(type) == held = Nil /\ events # <<>> /\ Head(events).type = type

HandleEnd ==
    /\ Handling("end")
    /\ events' = Tail(events)
    /\ MarkSessionEnded
    /\ UNCHANGED <<received, held, pc, work, locked, disk, artifacts, scheduled, dropped,
                   skipped, crashes>>

\* The first message of a session creates it.
Opened == IF session = "none" THEN "active" ELSE session

HandleCode ==
    LET c == Head(events).code
    IN  /\ Handling("code")
        /\ events' = Tail(events)
        /\ session' = Opened
        /\ IF Opened = "active"
           THEN future' = [future EXCEPT ![c] = "pending"] /\ pool' = Append(pool, c)
           ELSE UNCHANGED <<future, pool>>
        /\ UNCHANGED <<received, held, pc, work, locked, disk, artifacts, scheduled, dropped,
                       skipped, crashes>>

HandleBatch ==
    /\ Handling("launches")
    /\ events' = Tail(events)
    /\ session' = Opened
    /\ held' = IF Opened = "active" THEN Head(events).launch ELSE Nil
    /\ UNCHANGED <<received, future, pool, pc, work, locked, disk, artifacts, scheduled, dropped,
                   skipped, crashes>>
-----------------------------------------------------------------------------
(* The artifact for a launch. *)

\* select_fallback_function, given the names of one code in order.  It is called with
\* empty instruction lists, so that the largest of its matches is the first.
Fallback(name, names) ==
    LET canonical == {i \in DOMAIN names : Canonical[names[i]] = Canonical[name]}
        contained == {i \in DOMAIN names : {names[i], name} \in Overlap}
    IN  names[IF canonical # {} THEN Min(canonical) ELSE IF contained # {} THEN Min(contained) ELSE 1]

\* Mutant: the fallback looks at the functions of all codes.
CandidatesOfAll(c) == FlattenSeq(SetToSeq({artifacts[x] : x \in Codes}))

Candidates(c) == artifacts[c]

ArtifactForLaunch(l) ==
    LET names == [i \in DOMAIN Candidates(l.code) |-> Candidates(l.code)[i].kernel[2]]
        name  == IF \E a \in ToSet(artifacts[l.code]) : a.kernel[2] = l.name
                 THEN l.name ELSE Fallback(l.name, names)
    IN  IF l.code = Nil \/ names = <<>> THEN Nil
        ELSE CHOOSE a \in ToSet(Candidates(l.code)) : a.kernel[2] = name

HandleLaunches ==
    LET a == ArtifactForLaunch(held)
    IN  /\ held # Nil
        /\ held' = Nil
        /\ scheduled' = IF session = "active" /\ a # Nil THEN [scheduled EXCEPT ![held] = a]
                        ELSE scheduled
        /\ dropped' = IF session = "active" /\ a = Nil THEN dropped \cup {held} ELSE dropped
        /\ UNCHANGED <<received, events, session, future, pool, pc, work, locked, disk, artifacts,
                       skipped, crashes>>
-----------------------------------------------------------------------------
(* A worker: _analyze_code_object and _finish_code_analysis. *)

Go(w, place) == pc' = [pc EXCEPT ![w] = place]
WorkerKeeps == UNCHANGED <<received, events, held, session, pool, scheduled, dropped, skipped,
                           crashes>>

\* The first look at the session, before the worker asks for the lock.
TakeCode(w) ==
    /\ pc[w] = "idle" /\ pool # <<>>
    /\ pool' = Tail(pool)
    /\ future' = [future EXCEPT ![Head(pool)] = "running"]
    /\ work' = [work EXCEPT ![w] = [NoWork EXCEPT !.code = Head(pool)]]
    /\ Go(w, IF session = "active" THEN "waiting" ELSE "return")
    /\ UNCHANGED <<received, events, held, session, locked, disk, artifacts, scheduled, dropped,
                   skipped, crashes>>

\* Mutant: the analyses of a session do not exclude one another.
LockAlwaysFree(w) == w \in Workers

LockFree(w) == locked = Nil

\* The second look, with the lock.
StartAnalysis(w) ==
    /\ pc[w] = "waiting" /\ LockFree(w)
    /\ IF session = "active" THEN locked' = w /\ Go(w, "disassemble")
       ELSE locked' = locked /\ Go(w, "return")
    /\ UNCHANGED <<work, future, disk, artifacts>> /\ WorkerKeeps

\* Mutant: an error leaves the lock taken.
ReleasedOnSuccess(w) == IF work[w].failed = "no" THEN Nil ELSE locked

\* The with statement releases the lock however its block ends.
Released(w) == Nil

Fail(w, reason) ==
    /\ work' = [work EXCEPT ![w].failed = reason]
    /\ Go(w, "unlock")

\* The tools run, or fail; a code without functions is an error too.
Disassemble(w) ==
    /\ pc[w] = "disassemble"
    /\ \/ Functions[work[w].code] # <<>> /\ Go(w, "write") /\ UNCHANGED work
       \/ Fail(w, "tool")
    /\ UNCHANGED <<future, locked, disk, artifacts>> /\ WorkerKeeps

ThisKernel(w) == <<work[w].code, Functions[work[w].code][Len(work[w].done) + 1]>>

\* unique_safe_kernel_dir; dir_counts only starts the search for a free number.
UniqueDir(k, used) ==
    LET base   == <<SafeName[k[2]], Nil, 0>>
        free == {i \in 0..2 : <<SafeName[k[2]], k[1], i>> \notin used}
    IN  IF base \notin used THEN base ELSE <<SafeName[k[2]], k[1], Min(free)>>

WriteKernel(w) ==
    LET d == UniqueDir(ThisKernel(w), work[w].used)
    IN  /\ pc[w] = "write"
        /\ disk' = [disk EXCEPT ![d].sass = ThisKernel(w)]
        /\ work' = [work EXCEPT ![w].used = @ \cup {d}, ![w].dir = d]
        /\ Go(w, "open")
        /\ UNCHANGED <<future, locked, artifacts>> /\ WorkerKeeps

\* write_json opens the file, which empties it, and writes it when it is closed.
OpenMetadata(w) ==
    /\ pc[w] = "open"
    /\ disk' = [disk EXCEPT ![work[w].dir].metadata = Torn]
    /\ Go(w, "close")
    /\ UNCHANGED <<work, future, locked, artifacts>> /\ WorkerKeeps

CloseMetadata(w) ==
    /\ pc[w] = "close"
    /\ disk' = [disk EXCEPT ![work[w].dir].metadata = ThisKernel(w)]
    /\ Go(w, "extract")
    /\ UNCHANGED <<work, future, locked, artifacts>> /\ WorkerKeeps

\* The control flow graph, the main loop and the normalised files.
ExtractLoop(w) ==
    /\ pc[w] = "extract"
    /\ disk' = [disk EXCEPT ![work[w].dir].loop = disk[work[w].dir].sass]
    /\ Go(w, "render")
    /\ UNCHANGED <<work, future, locked, artifacts>> /\ WorkerKeeps

\* load_kernel_metadata reads every directory of the session and fails on a torn file.
Unreadable == \E d \in DOMAIN disk : disk[d].metadata = Torn

\* render_l0_launch_segments: the directory whose metadata names the kernel.  One
\* kernel whose loop is empty or does not fit the budget fails the whole analysis.
Resolved(k) == {d \in DOMAIN disk : disk[d].metadata = k}

RenderSegments(w) ==
    LET k == ThisKernel(w)
        d == CHOOSE x \in Resolved(k) : TRUE
        a == [kernel |-> k, text |-> disk[d].loop]
    IN  /\ pc[w] = "render"
        /\ \/ Unreadable /\ Fail(w, "torn")
           \/ ~Unreadable /\ Fail(w, "loop")
           \/ /\ ~Unreadable /\ Resolved(k) # {}
              /\ work' = [work EXCEPT ![w].done = Append(@, a)]
              /\ Go(w, IF Len(work[w].done) + 1 < Len(Functions[work[w].code])
                       THEN "write" ELSE "unlock")
        /\ UNCHANGED <<future, locked, disk, artifacts>> /\ WorkerKeeps

Unlock(w) ==
    /\ pc[w] = "unlock"
    /\ locked' = Released(w)
    /\ Go(w, "return")
    /\ UNCHANGED <<work, future, disk, artifacts>> /\ WorkerKeeps

Accepted(w) == work[w].failed = "no" /\ session = "active"

FinishCodeAnalysis(w) ==
    LET c == work[w].code
    IN  /\ pc[w] = "return"
        /\ future' = [future EXCEPT ![c] = "done"]
        /\ artifacts' = IF Accepted(w) THEN [artifacts EXCEPT ![c] = @ \o work[w].done]
                        ELSE artifacts
        /\ work' = [work EXCEPT ![w] = NoWork]
        /\ Go(w, "idle")
        /\ UNCHANGED <<locked, disk>> /\ WorkerKeeps
-----------------------------------------------------------------------------
(* An inference worker renders the text of a window: the lines come with the launches, *)
(* but the metadata is read first, and an error there gives the window up.             *)

RenderWindow ==
    /\ session = "active" /\ \E l \in Launches : scheduled[l] # Nil
    /\ skipped' = (skipped \/ Unreadable)
    /\ UNCHANGED <<memory, received, disk, crashes>>

\* The processor is killed and started again; the work directory stays.
Crash ==
    /\ crashes < MaxCrashes
    /\ crashes' = crashes + 1
    /\ events' = <<>> /\ held' = Nil /\ session' = "none"
    /\ future' = [c \in Codes |-> "none"] /\ pool' = <<>>
    /\ pc' = [w \in Workers |-> "idle"] /\ work' = [w \in Workers |-> NoWork] /\ locked' = Nil
    /\ artifacts' = [c \in Codes |-> <<>>]
    /\ scheduled' = [l \in Launches |-> Nil] /\ dropped' = {}
    /\ UNCHANGED <<received, disk, skipped>>
-----------------------------------------------------------------------------
EventThread == HandleEnd \/ HandleCode \/ HandleBatch \/ HandleLaunches

Worker(w) ==
    \/ TakeCode(w) \/ StartAnalysis(w) \/ Disassemble(w)
    \/ WriteKernel(w) \/ OpenMetadata(w) \/ CloseMetadata(w) \/ ExtractLoop(w)
    \/ RenderSegments(w) \/ Unlock(w) \/ FinishCodeAnalysis(w)

Next ==
    \/ \E m \in Message : Receive(m)
    \/ EventThread \/ RenderWindow \/ Crash
    \/ \E w \in Workers : Worker(w)

\* The threads run; the disassembler ends, which subprocess.run waits for without
\* a timeout.
Spec == Init /\ [][Next]_vars /\ WF_vars(EventThread) /\ \A w \in Workers : WF_vars(Worker(w))
-----------------------------------------------------------------------------
(* Properties. *)

TypeOK ==
    /\ events \in Seq(Message) /\ held \in Launches \cup {Nil}
    /\ session \in {"none", "active", "ended"}
    /\ future \in [Codes -> {"none", "pending", "running", "cancelled", "done"}]
    /\ pool \in Seq(Codes) /\ locked \in Workers \cup {Nil}
    /\ pc \in [Workers -> {"idle", "waiting", "disassemble", "write", "open", "close", "extract",
                           "render", "unlock", "return"}]
    /\ artifacts \in [Codes -> Seq(Artifact)]
    /\ scheduled \in [Launches -> Artifact \cup {Nil}] /\ dropped \subseteq Launches

\* Analyses of a session share its directories, where equal function names of two
\* codes meet: the artifacts of a code are still all of its functions, in order, each
\* rendered from that code's own text (_analyze_code_object_files under
\* analysis_lock).
ArtifactOfOwnCode ==
    \A c \in Codes :
        /\ artifacts[c] # <<>> =>
              [i \in DOMAIN artifacts[c] |-> artifacts[c][i].kernel]
                = [i \in DOMAIN Functions[c] |-> <<c, Functions[c][i]>>]
        /\ \A a \in ToSet(artifacts[c]) : a.text = a.kernel

\* A launch runs on an artifact of the code it names, the very function if the code
\* has it, and equal launches use the same artifact until the processor restarts;
\* none of them is dropped once one was scheduled (_artifact_for_launch against
\* the hand-over in _finish_code_analysis).
LaunchResolution ==
    [][/\ \A l \in Launches :
            scheduled'[l] # Nil =>
                /\ scheduled'[l].kernel[1] = l.code
                /\ l.name \in ToSet(Functions[l.code]) => scheduled'[l].kernel[2] = l.name
                /\ scheduled[l] # Nil => scheduled'[l] = scheduled[l]
       /\ \A l \in dropped' \ dropped : scheduled[l] = Nil]_vars

\* Readers of the metadata do not ask who writes it: no analysis fails for a half-written
\* file, and a window is only given up while an analysis of its session is
\* running, unless the processor was killed between the two steps of write_json.
FailureExplained ==
    [][/\ \A w \in Workers : work'[w].failed = "torn" => crashes > 0
       /\ skipped' # skipped => crashes > 0 \/ locked # Nil]_vars

\* Whatever was running when the session ended leaves no trace in it (the checks of
\* active in _handle_launches and _finish_code_analysis).
EndedSessionUntouched ==
    [][session = "ended" /\ session' = "ended" =>
          UNCHANGED <<artifacts, scheduled, dropped>>]_vars

\* No analysis waits for the lock forever: each one ends, is cancelled or is lost in a
\* restart (the with statement of _analyze_code_object).
AnalysesEnd ==
    \A c \in Codes : future[c] \in {"pending", "running"} ~> future[c] \notin {"pending", "running"}
================================================================================
