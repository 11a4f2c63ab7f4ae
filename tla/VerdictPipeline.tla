---------------------------- MODULE VerdictPipeline ----------------------------
(***************************************************************************)
(* One session of the online processor,                                    *)
(* src/gpu_sentry/online/processor.py, from the L0 windows a launch batch  *)
(* produces to the verdict frames written to the collector.                *)
(*                                                                         *)
(* Threads: the single worker of event_executor (EventThread), the workers *)
(* of inference_executor (Workers), the connection threads that drain the  *)
(* outbox (Conns), and the reader that ends the session.  All of them      *)
(* serialise on OnlineProcessor.lock.  A locked section that only assigns  *)
(* is one action; the release loop, which several callers run inside their *)
(* section, is one action per iteration with the lock held by its caller.  *)
(* A done-callback always runs in the worker: the submitter still holds    *)
(* the lock when it registers the callback, and the job takes that lock    *)
(* before it can finish.                                                   *)
(*                                                                         *)
(* Every window the scheduler emits has an index and a non-empty           *)
(* signature, so the branches for missing ones are unreachable.            *)
(***************************************************************************)
EXTENDS RollingPolicy, SequencesExt

CONSTANTS
    Workers, EventThread, Conns,
    Signatures,      \* cache keys: stream group and composition signature
    MaxWindows,      \* bound: windows emitted in the session
    MaxBatch,        \* bound: windows one launch batch can emit
    NoThread, NoWindow, NoScore, NoVerdict

ASSUME PipelineAssumption ==
    /\ MaxWindows \in Nat
    /\ MaxBatch \in Nat \ {0}
    /\ EventThread \notin Workers
    /\ NoThread \notin Workers \cup {EventThread}
    /\ NoWindow \notin Nat
    /\ NoScore \notin Scores

VARIABLES
    sig,        \* signature of each window, computed by the scheduler
    created,    \* windows emitted so far (next_window_index of the scheduler)
    submitted,  \* windows already passed to _submit_l1_window
    active, terminal, next, pending, skipped, cache, waiting,  \* SessionState
    scores,     \* the policy's deque
    jobs,       \* queue of inference_executor: windows
    lock,       \* holder of OnlineProcessor.lock inside a release loop
    pc, cont,   \* where each thread is, and where it goes after its responses
    win, result,\* each worker's window and what its inference returned
    resp,       \* ready_responses of each thread
    outbox,     \* this session's rows of OnlineProcessor.outbox
    conn,       \* the row each connection thread is sending
    sent,       \* verdicts written to a collector connection at least once
    observed,   \* history: verdicts the policy decided, in order
    inferred    \* history: what inference returned for a window (NoScore: failed)

session == <<active, terminal, next, pending, skipped, cache, waiting, scores>>
threads == <<pc, cont, win, result, resp>>
drain   == <<outbox, conn, sent>>
history == <<observed, inferred>>
vars == <<sig, created, submitted, session, jobs, lock, threads, drain, history>>

Windows  == 0..(MaxWindows - 1)
Threads  == Workers \cup {EventThread}
Verdicts == [win : Windows, score : Scores, cached : BOOLEAN, suspicious : BOOLEAN]
Entries  == [score : Scores, cached : BOOLEAN]

Labels == {"idle", "start", "run", "finish", "release", "enqueue", "skipWaiting", "submit"}

WindowsTypeOK ==
    /\ sig \in [Windows -> Signatures]
    /\ created \in 0..MaxWindows /\ submitted \in 0..created
    /\ jobs \in Seq(Windows)

FlagsTypeOK == active \in BOOLEAN /\ terminal \in BOOLEAN

SessionTypeOK ==
    /\ next \in 0..submitted
    /\ DOMAIN pending \subseteq Windows /\ pending \in [DOMAIN pending -> Entries]
    /\ skipped \subseteq Windows
    /\ DOMAIN cache \subseteq Signatures /\ cache \in [DOMAIN cache -> Scores]
    /\ DOMAIN waiting \subseteq Signatures /\ waiting \in [DOMAIN waiting -> Seq(Windows)]
    /\ scores \in Seq(Scores) /\ Len(scores) =< History

ThreadsTypeOK ==
    /\ lock \in Threads \cup {NoThread}
    /\ pc \in [Threads -> Labels] /\ cont \in [Threads -> {"idle", "skipWaiting", "submit"}]
    /\ win \in [Workers -> Windows \cup {NoWindow}]
    /\ result \in [Workers -> Scores \cup {NoScore}]
    /\ resp \in [Threads -> Seq(Verdicts)]

DrainTypeOK ==
    /\ outbox \in Seq(Verdicts)
    /\ conn \in [Conns -> [state : {"down", "open", "sending", "sent"}, row : Verdicts \cup {NoVerdict}]]
    /\ sent \subseteq Verdicts

HistoryTypeOK ==
    /\ observed \in Seq(Verdicts)
    /\ DOMAIN inferred \subseteq Windows /\ inferred \in [DOMAIN inferred -> Scores \cup {NoScore}]

TypeOK ==
    WindowsTypeOK /\ FlagsTypeOK /\ SessionTypeOK /\ ThreadsTypeOK /\ DrainTypeOK /\ HistoryTypeOK

Empty == [x \in {} |-> x]

\* A dict with one key set; a dict with one key popped.
Put(f, k, v) == [x \in DOMAIN f \cup {k} |-> IF x = k THEN v ELSE f[x]]
Drop(f, k)   == [x \in DOMAIN f \ {k} |-> f[x]]

\* _session: the state a new session starts from.
Init ==
    /\ sig \in [Windows -> Signatures]
    /\ created = 0 /\ submitted = 0
    /\ active = TRUE /\ terminal = FALSE
    /\ next = 0 /\ pending = Empty /\ skipped = {}
    /\ cache = Empty /\ waiting = Empty
    /\ scores = <<>>
    /\ jobs = <<>> /\ lock = NoThread
    /\ pc = [t \in Threads |-> "idle"] /\ cont = [t \in Threads |-> "idle"]
    /\ win = [w \in Workers |-> NoWindow] /\ result = [w \in Workers |-> NoScore]
    /\ resp = [t \in Threads |-> <<>>]
    /\ outbox = <<>> /\ sent = {}
    /\ conn = [c \in Conns |-> [state |-> "down", row |-> NoVerdict]]
    /\ observed = <<>> /\ inferred = Empty

-----------------------------------------------------------------------------
(* The event thread. *)

\* handle_message / _handle_launches: the locked part creates the windows of one
\* batch; they are submitted one by one afterwards, each under its own lock.
HandleLaunches(n) ==
    /\ lock = NoThread /\ pc[EventThread] = "idle"
    /\ active
    /\ created + n =< MaxWindows
    /\ created' = created + n
    /\ pc' = [pc EXCEPT ![EventThread] = "submit"]
    /\ UNCHANGED <<sig, submitted, session, jobs, lock, cont, win, result, resp, drain, history>>

\* Enter the release loop in the locked section of thread t; continue at next label c.
StartRelease(t, c) ==
    /\ lock' = t
    /\ pc' = [pc EXCEPT ![t] = "release"]
    /\ cont' = [cont EXCEPT ![t] = c]

\* _submit_l1_window, first branch: the session is over or already decided.
SubmitIgnored ==
    /\ lock = NoThread /\ pc[EventThread] = "submit" /\ submitted < created
    /\ ~active \/ terminal
    /\ submitted' = submitted + 1
    /\ UNCHANGED <<sig, created, session, jobs, lock, threads, drain, history>>

\* _submit_l1_window, the signature has a cached prediction.
SubmitCached ==
    /\ lock = NoThread /\ pc[EventThread] = "submit" /\ submitted < created
    /\ active /\ ~terminal
    /\ sig[submitted] \in DOMAIN cache
    /\ pending' = Put(pending, submitted, [score |-> cache[sig[submitted]], cached |-> TRUE])
    /\ submitted' = submitted + 1
    /\ StartRelease(EventThread, "submit")
    /\ UNCHANGED <<sig, created, active, terminal, next, skipped, cache, waiting, scores,
                   jobs, win, result, resp, drain, history>>

\* _submit_l1_window, another window of the signature is being inferred.
SubmitWaiting ==
    /\ lock = NoThread /\ pc[EventThread] = "submit" /\ submitted < created
    /\ active /\ ~terminal
    /\ sig[submitted] \notin DOMAIN cache
    /\ sig[submitted] \in DOMAIN waiting
    /\ waiting' = [waiting EXCEPT ![sig[submitted]] = Append(@, submitted)]
    /\ submitted' = submitted + 1
    /\ UNCHANGED <<sig, created, active, terminal, next, pending, skipped, cache, scores,
                   jobs, lock, threads, drain, history>>

\* Mutant: the window is not registered as the leader of its signature.
LeadUnregistered(w) == waiting

\* pending_signature_windows once window w leads its signature.
Lead(w) == Put(waiting, sig[w], <<>>)

\* _submit_l1_window, the window leads its signature: an inference job is queued.
SubmitJob ==
    /\ lock = NoThread /\ pc[EventThread] = "submit" /\ submitted < created
    /\ active /\ ~terminal
    /\ sig[submitted] \notin DOMAIN cache
    /\ sig[submitted] \notin DOMAIN waiting
    /\ waiting' = Lead(submitted)
    /\ jobs' = Append(jobs, submitted)
    /\ submitted' = submitted + 1
    /\ UNCHANGED <<sig, created, active, terminal, next, pending, skipped, cache, scores,
                   lock, threads, drain, history>>

\* The loop over the windows of the batch ends.
BatchDone ==
    /\ pc[EventThread] = "submit" /\ submitted = created
    /\ pc' = [pc EXCEPT ![EventThread] = "idle"]
    /\ UNCHANGED <<sig, created, submitted, session, jobs, lock, cont, win, result, resp, drain, history>>

-----------------------------------------------------------------------------
(* _release_ordered_policy_verdicts_locked, one action per iteration. *)

Releasing(t) == lock = t /\ pc[t] = "release"

\* Mutant: the lowest verdict that has arrived is released, complete or not.
ReleaseIndexArrived ==
    IF pending = Empty THEN next ELSE CHOOSE w \in DOMAIN pending : \A u \in DOMAIN pending : w =< u

\* The index whose verdict the loop pops.
ReleaseIndex == next

\* Leave the locked section: with responses to enqueue, or straight on.
Unlock(t, responses) ==
    /\ lock' = NoThread
    /\ pc' = [pc EXCEPT ![t] = IF responses = <<>> THEN cont[t] ELSE "enqueue"]

\* The inner loop drops a skipped index.
ReleaseSkip(t) ==
    /\ Releasing(t)
    /\ next \in skipped
    /\ skipped' = skipped \ {next}
    /\ next' = next + 1
    /\ UNCHANGED <<sig, created, submitted, active, terminal, pending, cache, waiting, scores,
                   jobs, lock, threads, drain, history>>

\* A verdict that arrives after the terminal one is discarded.
ReleaseDiscard(t) ==
    /\ Releasing(t)
    /\ next \notin skipped /\ ReleaseIndex \in DOMAIN pending
    /\ terminal
    /\ pending' = Drop(pending, ReleaseIndex)
    /\ next' = next + 1
    /\ UNCHANGED <<sig, created, submitted, active, terminal, skipped, cache, waiting, scores,
                   jobs, lock, threads, drain, history>>

\* _apply_online_verdict_policy: the policy's decision on the verdict of window w.
Decide(w, entry) ==
    [win |-> w, score |-> entry.score, cached |-> entry.cached,
     suspicious |-> Suspicious(Remember(scores, entry.score))]

\* The policy decides the next verdict; a suspicious one ends the loop.
ReleaseApply(t) ==
    /\ Releasing(t)
    /\ next \notin skipped /\ ReleaseIndex \in DOMAIN pending
    /\ ~terminal
    /\ LET v == Decide(ReleaseIndex, pending[ReleaseIndex])
       IN  /\ scores' = Remember(scores, v.score)
           /\ observed' = Append(observed, v)
           /\ resp' = [resp EXCEPT ![t] = Append(@, v)]
           /\ terminal' = v.suspicious
           /\ pending' = IF v.suspicious THEN Empty ELSE Drop(pending, ReleaseIndex)
           /\ skipped' = IF v.suspicious THEN {} ELSE skipped
           /\ next' = next + 1
           /\ IF v.suspicious THEN Unlock(t, resp'[t]) ELSE UNCHANGED <<lock, pc>>
    /\ UNCHANGED <<sig, created, submitted, active, cache, waiting, jobs, cont, win, result,
                   drain, inferred>>

\* Nothing more to release.
ReleaseDone(t) ==
    /\ Releasing(t)
    /\ next \notin skipped /\ ReleaseIndex \notin DOMAIN pending
    /\ Unlock(t, resp[t])
    /\ UNCHANGED <<sig, created, submitted, session, jobs, cont, win, result, resp, drain, history>>

\* _enqueue_responses: a locked section of its own, after the release loop unlocked.
EnqueueResponses(t) ==
    /\ lock = NoThread /\ pc[t] = "enqueue"
    /\ outbox' = outbox \o resp[t]
    /\ resp' = [resp EXCEPT ![t] = <<>>]
    /\ pc' = [pc EXCEPT ![t] = cont[t]]
    /\ UNCHANGED <<sig, created, submitted, session, jobs, lock, cont, win, result, conn, sent, history>>

-----------------------------------------------------------------------------
(* The inference workers. *)

\* The executor hands the oldest job to a worker; from here cancel() fails.
TakeJob(w) ==
    /\ pc[w] = "idle" /\ jobs # <<>>
    /\ win' = [win EXCEPT ![w] = Head(jobs)]
    /\ jobs' = Tail(jobs)
    /\ pc' = [pc EXCEPT ![w] = "start"]
    /\ UNCHANGED <<sig, created, submitted, session, lock, cont, result, resp, drain, history>>

\* _run_l1_for_session: an ended session is not inferred, the job returns None.
CheckActive(w) ==
    /\ lock = NoThread /\ pc[w] = "start"
    /\ pc' = [pc EXCEPT ![w] = IF active THEN "run" ELSE "finish"]
    /\ result' = [result EXCEPT ![w] = NoScore]
    /\ UNCHANGED <<sig, created, submitted, session, jobs, lock, cont, win, resp, drain, history>>

\* _run_l1: rendering and classification, without the lock; None on any failure.
RunL1(w, r) ==
    /\ pc[w] = "run"
    /\ result' = [result EXCEPT ![w] = r]
    /\ inferred' = Put(inferred, win[w], r)
    /\ pc' = [pc EXCEPT ![w] = "finish"]
    /\ UNCHANGED <<sig, created, submitted, session, jobs, lock, cont, win, resp, drain, observed>>

\* Mutant: the windows that wait for the signature are popped and forgotten.
WaitingForNobody(s) == {}

\* pending_signature_windows.pop(s, []), as a set.
WaitingFor(s) == IF s \in DOMAIN waiting THEN ToSet(waiting[s]) ELSE {}

\* Mutant: a locked section of _finish_l1 does not look whether the session is over.
SessionLiveAssumed == TRUE

\* The test at the start of every locked section of _finish_l1.
SessionLive == active

\* The pending verdicts after window w and the windows waiting for it got a score.
Resolved(w, score, followers) ==
    [x \in DOMAIN pending \cup {w} \cup followers |->
        CASE x = w         -> [score |-> score, cached |-> FALSE]
          [] x \in followers -> [score |-> score, cached |-> TRUE]
          [] OTHER         -> pending[x]]

\* _finish_l1 with a verdict: cache the prediction, resolve the waiting windows.
FinishVerdict(w) ==
    /\ lock = NoThread /\ pc[w] = "finish" /\ result[w] # NoScore
    /\ SessionLive
    /\ LET s == sig[win[w]]
           followers == IF terminal THEN {} ELSE WaitingFor(s)
       IN  /\ cache' = Put(cache, s, result[w])
           /\ waiting' = Drop(waiting, s)
           /\ pending' = Resolved(win[w], result[w], followers)
    /\ StartRelease(w, "idle")
    /\ UNCHANGED <<sig, created, submitted, active, terminal, next, skipped, scores,
                   jobs, win, result, resp, drain, history>>

\* _finish_l1 without a verdict, first locked section: _skip_policy_window.
SkipPolicyWindow(w) ==
    /\ lock = NoThread /\ pc[w] = "finish" /\ result[w] = NoScore
    /\ SessionLive
    /\ skipped' = skipped \cup {win[w]}
    /\ StartRelease(w, "skipWaiting")
    /\ UNCHANGED <<sig, created, submitted, active, terminal, next, pending, cache, waiting,
                   scores, jobs, win, result, resp, drain, history>>

\* Second locked section: _skip_pending_signature_windows.
SkipPendingSignatureWindows(w) ==
    /\ lock = NoThread /\ pc[w] = "skipWaiting"
    /\ SessionLive
    /\ LET s == sig[win[w]]
       IN  /\ skipped' = skipped \cup WaitingFor(s)
           /\ waiting' = Drop(waiting, s)
    /\ StartRelease(w, "idle")
    /\ UNCHANGED <<sig, created, submitted, active, terminal, next, pending, cache,
                   scores, jobs, win, result, resp, drain, history>>

\* Every locked section of _finish_l1 returns at once when the session is over.
FinishInactive(w) ==
    /\ lock = NoThread /\ pc[w] \in {"finish", "skipWaiting"}
    /\ ~SessionLive
    /\ pc' = [pc EXCEPT ![w] = "idle"]
    /\ UNCHANGED <<sig, created, submitted, session, jobs, lock, cont, win, result, resp, drain, history>>

-----------------------------------------------------------------------------
(* The connection threads. *)

\* _mark_session_ended: cancels the queued jobs and purges the session's rows.
\* The done-callbacks of the cancelled jobs find the session inactive.
SessionEnd ==
    /\ lock = NoThread
    /\ active
    /\ active' = FALSE
    /\ jobs' = <<>>
    /\ outbox' = <<>>
    /\ UNCHANGED <<sig, created, submitted, terminal, next, pending, skipped, cache, waiting,
                   scores, lock, threads, conn, sent, history>>

\* serve_forever accepts the collector's (re)connection.
Connect(c) ==
    /\ conn[c].state = "down"
    /\ conn' = [conn EXCEPT ![c].state = "open"]
    /\ UNCHANGED <<sig, created, submitted, session, jobs, lock, threads, outbox, sent, history>>

\* The reader of the connection returns: closed stream or error.
Disconnect(c) ==
    /\ conn[c].state = "open"
    /\ conn' = [conn EXCEPT ![c].state = "down"]
    /\ UNCHANGED <<sig, created, submitted, session, jobs, lock, threads, outbox, sent, history>>

\* _drain_outbox: look at the first row under the lock ...
Peek(c) ==
    /\ lock = NoThread /\ conn[c].state = "open" /\ outbox # <<>>
    /\ conn' = [conn EXCEPT ![c] = [state |-> "sending", row |-> Head(outbox)]]
    /\ UNCHANGED <<sig, created, submitted, session, jobs, lock, threads, outbox, sent, history>>

\* ... write it without the lock ...
SendRow(c) ==
    /\ conn[c].state = "sending"
    /\ sent' = sent \cup {conn[c].row}
    /\ conn' = [conn EXCEPT ![c].state = "sent"]
    /\ UNCHANGED <<sig, created, submitted, session, jobs, lock, threads, outbox, history>>

\* Mutant: the row is given up with the connection.
SendFailedDropsRow(c) ==
    /\ conn[c].state = "sending"
    /\ outbox' = RemoveFirst(outbox, conn[c].row)
    /\ conn' = [conn EXCEPT ![c] = [state |-> "down", row |-> NoVerdict]]
    /\ UNCHANGED <<sig, created, submitted, session, jobs, lock, threads, sent, history>>

\* ... or fail to: the thread returns and the row stays in the outbox ...
SendFailed(c) ==
    /\ conn[c].state = "sending"
    /\ conn' = [conn EXCEPT ![c] = [state |-> "down", row |-> NoVerdict]]
    /\ UNCHANGED <<sig, created, submitted, session, jobs, lock, threads, outbox, sent, history>>

\* Mutant: whatever row is first by now is popped.
WithoutFirst(rows, row) == IF rows = <<>> THEN rows ELSE Tail(rows)

\* pop(0) if the row is still first, remove(row) otherwise, nothing if it is gone.
Without(rows, row) == RemoveFirst(rows, row)

\* ... then remove that row, wherever it is by now, if it is still there.
RemoveRow(c) ==
    /\ lock = NoThread /\ conn[c].state = "sent"
    /\ outbox' = Without(outbox, conn[c].row)
    /\ conn' = [conn EXCEPT ![c] = [state |-> "open", row |-> NoVerdict]]
    /\ UNCHANGED <<sig, created, submitted, session, jobs, lock, threads, sent, history>>

-----------------------------------------------------------------------------

EventStep ==
    \/ \E n \in 1..MaxBatch : HandleLaunches(n)
    \/ SubmitIgnored \/ SubmitCached \/ SubmitWaiting \/ SubmitJob \/ BatchDone

ReleaseStep(t) ==
    ReleaseSkip(t) \/ ReleaseDiscard(t) \/ ReleaseApply(t) \/ ReleaseDone(t)

InferenceStep(w) ==
    \/ TakeJob(w) \/ CheckActive(w)
    \/ \E r \in Scores \cup {NoScore} : RunL1(w, r)
    \/ FinishVerdict(w) \/ SkipPolicyWindow(w)
    \/ SkipPendingSignatureWindows(w) \/ FinishInactive(w)

DrainStep(c) ==
    Connect(c) \/ Disconnect(c) \/ Peek(c) \/ SendRow(c) \/ SendFailed(c) \/ RemoveRow(c)

\* No thread has work left: the processor waits for the next message.
Quiescent == jobs = <<>> /\ \A t \in Threads : pc[t] = "idle"
AwaitMessage == Quiescent /\ UNCHANGED vars

Next ==
    \/ EventStep
    \/ \E t \in Threads : ReleaseStep(t) \/ EnqueueResponses(t)
    \/ \E w \in Workers : InferenceStep(w)
    \/ \E c \in Conns : DrainStep(c)
    \/ SessionEnd
    \/ AwaitMessage

Spec == Init /\ [][Next]_vars

\* The executors run what they hold, the lock is granted to a thread that wants it,
\* and the collector reconnects forever: some connection lives long enough to be
\* used.  Nothing forces a session to launch more kernels or to end.
Fairness ==
    /\ WF_vars(SubmitIgnored \/ SubmitCached \/ SubmitWaiting \/ SubmitJob \/ BatchDone)
    /\ \A t \in Threads : WF_vars(ReleaseStep(t)) /\ WF_vars(EnqueueResponses(t))
    /\ \A w \in Workers : WF_vars(InferenceStep(w))
    /\ \A c \in Conns :
          /\ WF_vars(Connect(c)) /\ SF_vars(Peek(c)) /\ SF_vars(SendRow(c))
          /\ WF_vars(RemoveRow(c))

FairSpec == Spec /\ Fairness

-----------------------------------------------------------------------------
(* Properties. *)

\* The policy sees windows in the order the scheduler numbered them although the
\* inference workers finish in any order, and sees none after the verdict that ends
\* the session (README: "delivers observations in window order").
PolicyOrder ==
    \A i, j \in DOMAIN observed :
        i < j => observed[i].win < observed[j].win /\ ~observed[i].suspicious

\* A submitted window of a live session is in exactly one place until its index is
\* released: the job queue, a worker, a waiting list, the pending verdicts or the
\* skipped indices.  A window in none of them would stall every later verdict; a
\* window in two could be decided twice.
InWorker(w) == \E k \in Workers : win[k] = w /\ pc[k] \in {"start", "run", "finish"}
InWaiting(w) == \E s \in DOMAIN waiting : w \in ToSet(waiting[s])
Places(w) == << w \in ToSet(jobs), InWorker(w), InWaiting(w), w \in DOMAIN pending, w \in skipped >>
WindowAccounted ==
    active /\ ~terminal =>
        \A w \in next..(submitted - 1) :
            \E i \in 1..5 : Places(w)[i] /\ \A j \in 1..5 \ {i} : ~Places(w)[j]

\* The signature cache: a decided score is what inference returned for a window of the
\* same signature (the window itself unless the verdict is marked cached), and no
\* signature is classified successfully twice.
CacheCoherent ==
    /\ \A i \in DOMAIN observed : \E u \in DOMAIN inferred :
          /\ sig[u] = sig[observed[i].win] /\ inferred[u] = observed[i].score
          /\ observed[i].cached = (u # observed[i].win)
    /\ \A u, v \in DOMAIN inferred :
          sig[u] = sig[v] /\ NoScore \notin {inferred[u], inferred[v]} => u = v

\* The scores of the last History verdicts of vs up to the k-th.
Recent(vs, k) ==
    LET n == IF k < History THEN k ELSE History
    IN  [i \in 1..n |-> vs[k - n + i].score]

\* Every decision is the threshold test on the last History decided windows, read off
\* the decision history instead of the deque.
DecisionOnRecentWindows ==
    \A k \in DOMAIN observed : observed[k].suspicious = Suspicious(Recent(observed, k))

\* While the session lives, a decided verdict is held by the thread that released it,
\* in the outbox, or was written to a connection: neither two connections draining
\* the outbox at once nor a failed write loses one.
VerdictsKept ==
    active => \A i \in DOMAIN observed :
        \/ observed[i] \in sent \cup ToSet(outbox)
        \/ \E t \in Threads : observed[i] \in ToSet(resp[t])

\* Once the session has ended no inference result reaches its policy, whatever was
\* queued, running or waiting when the collector reported the end.
EndedSessionFrozen ==
    [][~active => UNCHANGED <<active, scores, observed, next, terminal>>]_vars

\* No window waits forever: it is released, or the session is decided or over.
WindowsResolved ==
    \A w \in Windows : created > w ~> next > w \/ terminal \/ ~active

\* A terminate verdict of a session that stays alive reaches a collector connection.
TerminationSent ==
    terminal ~> (~active \/ \E v \in sent : v.suspicious)
================================================================================
