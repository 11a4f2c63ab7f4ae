# Formal models of GPU-Sentry

GPU-Sentry watches CUDA programs from a preloaded hook, sends what they launch
to a collector, and lets an online processor decide whether a process mines
cryptocurrency. These modules model the path an event takes from the hooked
call to the command that stops the process, the text the classifier sees, the
data it is trained on, how it is scored off line, and the behavioural baseline it
is compared with. TLC checks them on small instances; TLAPS proves theorems about
all but two of them for every value of the constants.

Paths are relative to the repository root.

## The system

| Part | Code | State | Operations |
|---|---|---|---|
| Interposition | `native/src/hook.cc`, `cupti_capture.cc` | none of its own | load, lookup and launch hooks, CUPTI module callback |
| Code registry | `native/src/code_registry.cc` | maps from handles and names to captured code | capture, register, look up, launch |
| Telemetry ring | `native/src/telemetry.cc`, `telemetry_bridge.cc` | bounded ring, mutex, sequence and drop counters | push, pop a batch, release, shut down |
| Telemetry client | `native/go/client/main.go` | connection, popped batch, stop channel | dial, drain, report statistics, obey terminate |
| Collector | `native/go/cmd/gpu-sentry-collector/` | session registry, launch batches, two bounded channels | accept, store, batch, forward, relay commands |
| Framing | `src/gpu_sentry/online/framing.py`, `online.go` | partly read frame | read and write length-prefixed JSON |
| Processor | `src/gpu_sentry/online/processor.py` | sessions, caches, pending verdicts, outbox, two executors | analyse code, form windows, infer, decide, deliver |
| Launch windows | `src/gpu_sentry/sass/l0_windows.py` | deque and counters per stream | add a launch, evict, emit, flush |
| Policy | `src/gpu_sentry/online/policy.py` | last scores of a session | decide |
| Offline pipeline | `src/gpu_sentry/sass/` | workload directories | disassemble, extract loops, render, build a dataset, split it |
| Deployment | `scripts/deploy.py` | two child processes | start, watch, end |
| Offline scoring | `src/gpu_sentry/model/` | chunks, predictions by name, open group | read, cut into chunks, weigh, score, decide per group, report |
| Baseline | `src/gpu_sentry/baseline/`, `experiments/runner.py` | run directories, manifest, points, threshold | record a workload, build features, train, tune, score |
| Other experiments and scripts | `src/gpu_sentry/experiments/`, `scripts/` | files | run programs one after another |

How they interact: application threads inside a hooked call register code and
push events into the ring under a trylock; one client goroutine drains it over
TCP; the collector runs one goroutine per hook connection, writes each event to
disk and puts messages for the processor on a channel; one goroutine owns the
processor connection and dials again when it breaks. In the processor a reader
per connection hands messages to a single event thread. A code event starts an
analysis in a worker pool, whose workers share the session's directories; a
launch is resolved to the artifact of its code, enters the window scheduler,
and full windows go to a pool of inference workers. Their results are
reordered, shown to the policy, and put in an outbox the connection threads
drain; the collector looks the session up and writes a terminate command to its
current hook connection. `deploy.py` starts the processor and the collector and
ends both. Offline, the same SASS functions render captures into workload
directories, in a pool of processes, and a split divides them for training. The
evaluation reads a split and decides each workload group with its own copy of the
deployment's policy. The baseline recorder shares nothing with all this but the
workloads it runs.

What is hard here: driver handles are reused and the registry is never cleared;
several threads load the same code at once; results come back in any order
while the policy is stateful; an inference and an analysis span several lock
sections and the session may end between them; several connection threads drain
one outbox without holding the lock while they send; a process keeps its
session id over reconnections, so the handler of the old connection cleans up
while the new one works; three channels and the ring drop on overflow; a heap
copy is freed on four different paths; a receive timeout may fall inside a
frame; a process or a build may be killed between any two of its steps, and in
the middle of a file.

What makes each part correct:

* registry: a launch names the code its kernel was loaded from, and each code
  object is offered to the ring exactly once;
* ring: it is a FIFO queue, every event and heap copy is accounted for, and
  shutdown returns;
* collector: per-connection order, cleanup by the last handler, and commands
  only for the process they are about;
* framing and deployment: messages keep their order whatever a timeout does,
  the link comes back, and the components end together;
* code analysis: artifacts hold the text of their own code although directory
  names collide, equal launches run on equal artifacts, every analysis ends;
* launch windows: the incremental counters match the deque, and every launch is
  in some window;
* pipeline and policy: windows reach the policy once each, in order, none after
  a terminal verdict or the end of the session; no window is stranded; a
  decision depends on exactly the last `History` scores; no verdict is lost;
* SASS text: control flow as the instructions say, one main loop, text cut
  without loss;
* dataset: the report is true of the disk, finished workloads are kept until
  their replacement is whole, training and test data share nothing;
* offline scoring: chunks lose no token, a report has one true row per record, and
  its decisions are those the deployed policy would take;
* baseline: the manifest is true of the recorded runs whatever is killed, recording
  ends, and the tuned threshold is the best of all thresholds.

`PROJECT.json` lists the hazards line by line with the properties that cover
each of them.

## Modules

| Module | Models | MC module | Proofs |
|---|---|---|---|
| `CodeRegistry` | `code_registry.cc`, the hooks and the CUPTI callback, with the driver as environment | `MCCodeRegistry` | `CodeRegistryProofs` |
| `TelemetryRing` | the ring, its client, the library constructor and destructor | `MCTelemetryRing` | `TelemetryRingProofs` |
| `EventQueue` | abstract bounded FIFO queue | refined by `TelemetryRing` | |
| `Collector` | the collector between hook connections and the processor | `MCCollector` | `CollectorProofs` |
| `Link` | the framed stream between collector and processor, and `deploy.py` | `MCLink` | `LinkProofs` |
| `CodeAnalysis` | code events, analyses, directories and launches of one session | `MCCodeAnalysis` | `CodeAnalysisProofs` |
| `L0Scheduler` | `l0_windows.py` | `MCL0Scheduler` | `L0SchedulerProofs` |
| `VerdictPipeline` | one session of the processor, from emitted windows to frames written | `MCVerdictPipeline` | `VerdictPipelineProofs` |
| `RollingPolicy` | `policy.py`: the score deque and the two thresholds, as operators | through `VerdictPipeline`, `Evaluation` | |
| `DecisionPolicy` | `policy.py` as a machine: what a policy object promises session after session | refined by `Evaluation` | |
| `SassText` | from a disassembled kernel to the text the model sees | `MCSassText` | `CodeAnalysisProofs` |
| `Dataset` | the parallel build of workload directories and their split | `MCDataset` | `OfflineProofs` |
| `Evaluation` | `model/data.py`, `metrics.py`, `evaluate.py` and the reports of `train_classifier.py` | `MCExperiments` | `OfflineProofs` |
| `BaselineRecorder` | `baseline/collector.py`, `features.py`, `model.py`, and the loops of `experiments/runner.py` | `MCExperiments` | `OfflineProofs` |

### CodeRegistry

The variables are the registry's five maps and sets under their names in the
code, what each thread is doing inside a hooked call (`pc`, `work`), and what
the driver's handles stand for. A hooked load is the steps the code makes
outside one mutex section: `ReadCode`, `Capture` (insertion in
`captured_code_ids`), `Enqueue` (the ring keeps or drops the event),
`RegisterCodeHandle`, and for the callback `IndexSymbols`. Two threads can thus
meet between insertion and offer. The driver hands freed handles out again and
its unload is not hooked, as in the code. An image is one of four containers
and stands for its hash.

### TelemetryRing

`Produce` is the allocation and the sequence number, `TryLock`/`TryLockFails`
and `PushStored`/`PushRejected` are `push_event`. The constructor is `InitRing`
and `CreateClient`, which may fail and leave the library without a client. The
client's loop is `ClientDials`, `Dialled`, `Handshake`, then `Poll`, statistics,
`ClientLock`, `PopBatch` or `PopNothing`, one `WriteEvent` per event, and
`ReleaseBatch`; a dial, the handshake and each write may fail, and the client
then pauses and dials again, as often as that takes. The destructor is `GoStop`,
`ClientDone`, `ShutdownLock`, `ShutdownRing`. Lock and body are separate steps
so that a producer can find the mutex taken. `EventQueue` is what the ring
promises: events leave in the order they entered, at most `Capacity` of them
are held, and closing discards the rest. `ImplementsQueue` maps the queue to the
`count` slots that start at `head`.

### Collector

Connections are pairs of a session and a number, each with its own handler
goroutine (`ReadAndRegister`, `Store`, then the deferred `EndBatch`,
`EndSession`, `Unregister`). The batcher's size limit and its ticker
(`FlushAll`) both cut batches. `sendCh` and `verdictCh` drop when full. The
processor is reduced to what the collector sees of it: it takes messages,
forgets a session for good at `session_end` (`_mark_session_ended`), and sends
at most one terminate verdict per session.

### Link

A frame is two header units and one unit per body size, each unit naming its
frame and place. A reader takes units one at a time, so a `Timeout` may fall
anywhere; the processor then starts over at the next unit, the collector only if
it was in a header. A header read from the middle of a frame is read as any size
it could be, or as too large where it begins in a body (text is far above the
limit as a big-endian number). `HeaderComplete` applies the size limit, which
only readers do. `run` and `conn` are the collector's `onlineClient.run`:
`Dial`, `DialFails`, `BackoffOver`, `ReadError`, `WriteError`. The children of
`deploy.py` run, are asked to end, are killed or are dead; `Exits` closes their
sockets. `Start`, `Poll`, `Interrupt`, `Terminate`, `Waited` and `Kill` are
`main` with its `finally` block, and `SupervisorDies` is a kill of `deploy.py`.

### CodeAnalysis

A session's readers queue messages (`Receive`), the event thread handles one at
a time (`HandleCode`, and `HandleBatch`/`HandleLaunches` for the two lock
sections of a launch batch), and a worker carries an analysis through `TakeCode`,
`StartAnalysis` (the lock), `Disassemble`, and for each kernel `WriteKernel`,
`OpenMetadata`, `CloseMetadata`, `ExtractLoop`, `RenderSegments`; then `Unlock`
and `FinishCodeAnalysis`. Every external step may fail. The
directories are files with the kernel whose text they hold, so that a directory
name shared by two functions shows. `write_json` is two steps, since a reader or
a kill may come between them. `Crash` is a restart of the processor on the same
work directory. `RenderWindow` is an inference worker that reads the directories
without the lock.

### L0Scheduler

A launch is a kernel, a token cost and a ratio. `AddLaunch` is
`_add_launch_unassigned` with everything it calls: emit when the launch would
overflow, enter, evict until the budget holds. `AddUnready` covers the two
early returns. `Flush` is the offline end. The two loops, over evictions and over
the streams to flush, are recursive functions of the iteration: their values are
the states of the loop, which is what the proofs speak about.

### VerdictPipeline

State is `SessionState` (`active`, `terminal`, `next`, `pending`, `skipped`,
`cache`, `waiting`, and the policy's `scores`), the queue of the inference
executor, the position of each thread, the outbox and the connections.
`observed` and `inferred` are history variables: what the policy decided and
what inference returned.

A section under `OnlineProcessor.lock` that only assigns is one action. The
release loop `_release_ordered_policy_verdicts_locked` is one action per
iteration (`ReleaseSkip`, `ReleaseDiscard`, `ReleaseApply`, `ReleaseDone`) with
`lock` held by the caller, because callers run it between other steps of their
own. `_run_l1_for_session` is `TakeJob`, `CheckActive`, `RunL1`, and one of
`FinishVerdict`, `SkipPolicyWindow`, `FinishInactive`: the session check and the
finish are separate lock sections, as in the code. `_submit_l1_window` is one
action per early return. `_drain_outbox` is `Peek`, `SendRow`/`SendFailed`,
`RemoveRow`. `SessionEnd` is the reader's `_mark_session_ended`, which purges
the session's outbox rows.

The classifier is a choice from `Scores` (integer percentages) or a failure.
The window's signature is chosen at the start. Only one session is modelled:
sessions share the lock, the executors and the outbox, and no step reads the
state of another session.

### SassText

One kernel goes through `BuildCfg`, `ExtractMainLoop`, `NormalizeFiles`, and
`RenderL0Segments` or `RenderFragment`. An instruction is its opcode, predicate,
label and branch target; a block, loop or region is a range of instructions, and an
edge is a pair of blocks. The algorithms are those of the code, with their scores
doubled so that halves stay whole, and each loop over lines is a recursive function
of the number of turns; the properties compare them with definitions that read the
instructions one by one.
A label is a number here and equals a branch target of the same value. How
`render_kernel_sass` decides which lines get a label, by comparing the texts of
addresses with those of targets, leading zeros included (`split_kernels.py:276`), lies
before what is modelled.

### Dataset

The processes of the pool take captures from a queue. `process_capture` is
`SkipCapture`, `KnownEmpty`, `SkipExisting`, `OpenTemp`, `WriteManifest`, `OpenRows`,
`WriteRow`, `Validate`, `Tear` (the removal of an old version, which is not atomic),
`Removed` and `Publish` (the rename); `BuildFails` and `Cleanup` are its
`except` branch. `Kill` ends the build anywhere, with its workers, and leaves its
directories, each with the file that is being written whole or cut off (`TornBy`).
`MakeSplit` reads whatever directories there are: `Refused` is what either kind of
split gives up on (a file that does not parse, a directory without rows, one name
twice), `Mixed` only the grouped one. That one is stratified, with the code's
rounding and donations.

### Evaluation

One action per turn of each loop: `LoadRow`, `CutChunk` (`chunk_token_ids`),
`ExpandRecord`, `FillRecord`, `DecideWindow`. `predicted` is keyed by workload name,
as in the code, so that two records of one name share their last prediction.
`purpose` tells the two programs apart: `evaluate.py` scores each text once,
`train_classifier.py` each record of the held-out split, and weighs the classes of
the training split first. A classification is a choice from `Scores`.
`DecisionPolicy` is the policy object; the report slices a list of all scores of the
group instead of keeping a deque, and `DecidesLikeDeployment` maps the slice to the
object's deque.

### BaselineRecorder

`runs` is the list of run directories with the process each one records. `CreateRun`
writes the first metadata, then `Spawn` or `SpawnFails`, `Tick`, `SampleDevice`,
`SampleProcesses`, one of the `Poll` actions, `Terminate`, `Reap`, `Finish` (the final
metadata) and `AppendManifest`. `WritingMetadata` is the moment in `write_json`
in which the file is torn. `Interrupt` ends the recorder at any step, also inside a
sample, the metadata or the manifest's line, and `StartAgain` starts it in the same
directory. `LineAdded` is what `append_jsonl` makes of a manifest whose last line has
no end (`newline`): the new line is glued to it, and neither can be read any more. `BuildFeatures` reads all directories.
`TryCandidate` is one turn of the loop in `tune_threshold`.

## Runs

| Run | Instance | What it shows |
|---|---|---|
| `code_registry` | 2 threads, 2 owner and 2 kernel handles, 4 images, 4 calls | a launch names the right code until a stale handle is involved; a launch precedes its code only in a race or after a drop |
| `ring` | 2 application threads, 2 slots, 3 events, batches of 2 | ownership of copies, exact drop count, per-thread order, refinement of the queue; the destructor returns unless a write hangs, and a collector that answers gets the queued events |
| `collector` | 1 process, 2 overlapping connections, 2 events, channel of 2, both kinds of verdict | launch order, code before the launches that follow it, cleanup by the last handler, and only a terminate verdict stops a process |
| `collector_terminate` | 1 process, 2 connections | TLC finds `VerdictTerminates` violated |
| `link` | 2 connections, 2 frames per direction on the first, sizes 1 and 2, limit 1 | order through timeouts and refused frames; reconnection; components end together |
| `code_analysis` | 2 workers, 2 codes with three kernels whose directory names are all equal, 4 messages, 1 restart | artifacts of their own code, stable resolution of launches, explained failures, every analysis ends |
| `scheduler` | 2 streams, 5 launches of 8 forms, budget 4 | windows describe their launches and name the source of their signature; coverage, full and contiguous windows |
| `pipeline_core` | 2 workers, 4 windows, 2 signatures, 3 scores, history 2 | order, accounting, cache coherence, exact decisions and nothing after the end, whatever order inferences finish or fail in |
| `pipeline_delivery` | 2 workers, 2 windows, 2 connections that break | no window waits forever, no verdict of a live session is lost, and a terminate verdict reaches the collector |
| `sass_text` | all kernels of up to 3 instructions over 6 opcodes, and of 5 over 4 with backward branches | the control flow graph, the main loop, the segments |
| `dataset` | 5 manifests of 2 or 3 captures, 2 workers, 2 builds, with and without older workloads, of which one has the name that two captures share | a true report, kept workloads, a sound split |
| `experiments` | 4 sets of records, texts of 0, 2 and 5 tokens, window 3, strides 1 to 3, history 2; a plan of 2 workloads, 2 runs of 2 samples and a third after a lost manifest line, 3 probabilities | exact chunks and reports, decisions like the deployment's, a true manifest, the best threshold; recording ends |

Why the bounds suffice.

* `code_registry`: two handles of each kind let one be stale while another is
  fresh; the images are a wrapper around a fatbin, that fatbin, its cubin, and a
  cubin with the same kernel name whose symbol table does not fit. Four calls
  allow load, lookup, a reload into a freed handle, and a second lookup.
* `ring`: three events in two slots fill the ring, wrap it and drop one; a batch
  of two crosses the wrap. No symmetry, because liveness is checked.
* `collector`: two connections are the least that let an old handler overlap a
  new one, and a channel of two shows messages of both kinds in either order and
  a full channel. One process suffices for `OnlyDecidedTerminated`, since commands
  are addressed by session and the theorem about it covers any number of them.
* `link`: with two frames a timeout in the first shows in the second; of two
  sizes one is refused. The second connection carries no frames: its purpose is
  the recovery.
* `code_analysis`: the functions `f` and `g` of one code map to one directory
  name, and `g` occurs in both codes; a third name is in neither but overlaps
  with `g`, which is the fallback's case, and one launch names no code. Four
  messages are two codes, one launch and the end or a second launch.
* `scheduler`: a budget of four with costs from one to four gives evictions of
  one and of several launches, four kernels exceed the three that a signature
  ranks, and one kernel occurs with two costs.
* `pipeline_core`: four windows of two signatures give two windows that wait
  behind a running inference of each other's signature, a failure ahead of
  waiting windows, and a decision after the history of two has rolled over;
  three scores allow a decision that the mean, the maximum, or neither refuses.
  `pipeline_delivery` needs a terminal verdict, one before it, and two
  connections that hold the same row.
* `sass_text`: three instructions hold every pair of control instructions around
  a third; five give nested loops and loops that share their end. Budgets are
  small enough that lines reach and exceed them.
* `dataset`: the manifests have a repeated name, a name that collides with a
  suffixed one, and captures of every kind (no kernel, no launch, counted empty,
  failing). Of the two captures that share a name both are good, with different
  labels, or the later one gives nothing, so that with `--replace` both are reported
  as created with one directory, or the one directory is removed. Shares are the default 70, 15 and 15. The code's ratios are floats;
  for the few groups here every rounded count agrees with the exact one.
* `experiments`: the two programs share no state and run one per behaviour. The
  records have a group out of order, one text in two records, one name in two
  records, an empty window and a row that is refused; the texts are empty, shorter
  than the window, and long enough for every stride to end on or off a boundary; the
  stride equal to the window is refused. Besides recording from nothing, the tuning
  starts from three recorded runs, of which one was interrupted. A third run is
  recorded only after a first that was complete and cut off in the manifest, for the
  new experiment glues its first line to that one and lists its second
  (`RunsBound`); such runs have one device sample, and their training fails.

Symmetry is used for workers, signatures, threads, handles, streams and
sessions, which the modules only compare, and in runs without liveness
properties. Each bound on a count (`MaxWindows`, `MaxEvents`, `MaxSent`,
`MaxLaunches`, `MaxConns`, `MaxFrames`, `MaxCalls`, `MaxMessages`, `MaxCrashes`,
`MaxBuilds`, `MaxRuns`, `MaxTicks`, `StatsUnderWay`) is a guard of the action that counts. Where a model stops at its
bound, an explicit stuttering step (`AwaitMessage`, `Exited`, `Returned`,
`NoCall`) says that the program waits there, so deadlock stays checked. `link`,
`code_analysis`, `sass_text`, `dataset` and `experiments` really end: the processes
are dead, the session is over, or the files are written.

### The violated property

`README.md:171` says that the default policy "terminates the process with exit
code `101`". `sendControl` (`native/go/cmd/gpu-sentry-collector/main.go:311-316`)
drops a verdict that arrives while no connection of the session is registered.
When a connection breaks, its handler reports `session_end`, and the processor
never reopens an ended session, so no second verdict comes. A process that
reconnects after such a break runs on. `collector_terminate` finds this under
fair scheduling, with the process connected for good in the end.

### What the properties leave open because the code does

* `OfferedOnce`, which is proved, includes that code the ring dropped is never
  offered again; launches of it stay unready.
* `AttributionExact` speaks of the time before the driver reuses a handle, and
  after it only of kernels registered from a fresh owner.
* `SplitSound` allows an unfinished workload in a split after a killed build:
  the directory that build left matches the pattern the split reads.
* Captures that end up with the same workload name overwrite each other, also without
  `--replace`: both may be reported as created with one directory on disk, which
  `OutcomeOnDisk` then finds to be whole and from one of them, and `KeptUntilReady`
  allows a workload of the same build to be replaced. With `--replace` a capture that
  gives nothing removes what another of its name created.
* `ManifestTrue` is about the lines of the manifest that can be read. After an
  interruption in the middle of a line the next experiment's first line is glued to
  it, and both runs are lost to the manifest; their samples are still trained on.
* `FailureExplained` allows a torn metadata file after a restart.
* `FramesDelivered` allows a gap after a timeout inside a frame.
* `ReportExact` gives a row its own text's probability only where no other reported
  record has its name.

### Fairness

* Pipeline: `ThreadPoolExecutor` runs what it holds, so the worker steps and the
  event thread are weakly fair. A connection thread's `Peek` and `SendRow` are strongly
  fair: the collector reconnects forever, so a connection that keeps opening is
  eventually used. Nothing forces launches or the end of a session.
* Ring: threads inside the library go on. The mutex is held for a few
  instructions and is granted to a thread that keeps asking: strong fairness of
  `ClientLock` and `ShutdownLock`. A dial ends within a second, with a
  connection or without one; that one ever succeeds is not assumed, and neither
  is that a write returns, because the client sets no deadline. `RingDrains`
  names what it needs of the other side instead: for the return of the
  destructor `WritesReturn`, no write hangs for ever; for the events to be taken
  `CollectorAnswers` as well, a client that keeps trying is connected at last
  and its handshake and its reports arrive. With a collector that stops reading
  and keeps its connection open the client stays in its write, and the
  destructor, which waits for it, does not return.
* Collector: goroutines run, the processor link is reestablished, and a process
  without a connection dials again. Breaks, events and verdicts are never forced.
* Code analysis: the event thread and each worker go on. This assumes that the
  external disassembler ends, which the code does not bound in time. The lock
  needs no strong fairness for each analysis to end, since there are finitely
  many of them.
* Experiments: the recorder and the evaluation go on and time passes, so a deadline
  is reached. The workload itself need not end.
* Link: the supervisor, the readers, the run loop and the listener go on, and a
  killed process ends. A process that was only asked to end need not.

## Proofs

TLC checks each proved property too, on the instances above. All theorems hold
for every value of the constants that meets the named assumption of the module.

`VerdictPipelineProofs`, from `PolicyAssumption` and `PipelineAssumption`:

* `PipelineTypeOK`: `TypeOK` alone is not inductive: the release loop reads the
  entry of the window `next`, and a worker's step uses the window it holds.
  `IndexInv` adds that every pending, skipped, waiting, queued or running window
  was submitted, and that a connection that sends has a row.
* `PolicyOrderHolds`: `OrderInv` adds that every observed window is below `next`
  and that a suspicious verdict is the last one and implies `terminal`. Only
  `ReleaseApply` changes the history (`OnlyReleaseDecides`), it appends the
  window `next`, and it requires `~terminal`.
* `EndedSessionFrozenHolds`: `LockInv` says that a thread inside a release loop
  works on a live session, because `SessionEnd` needs the lock and every loop
  begins after a check of `active` in the same section.
* `DecisionOnRecentWindowsHolds`: `DequeInv` says that the deque holds the scores
  of the last `History` decisions; `RememberIsRecent` shows that one more verdict
  keeps it so.

The rest of the module follows the windows and the verdicts:

* `LeadInv` says what a leader is: a queued job, or a worker until it has dealt
  with the windows that wait for its signature. A signature has one leader
  (`OneLeader`), which keeps its entry in the waiting table (`Registered`); a
  waiting window has the signature it waits for, was not inferred and leads none
  (`Followers`); a worker holds what inference returned (`Results`); and a
  signature that was classified is cached or still has the same leader
  (`ScoredOnce`). None of these is inductive without the others.
* `CacheCoherentHolds`: `Predictions` adds that every cached, pending and decided
  score comes from an inference of the window's signature. The second half of
  `CacheCoherent` is part of `ScoredOnce`.
* `WindowAccountedHolds`: each action moves a window from one place to another.
  That it leaves the old place altogether is `OneLeader` for the queue and the
  workers and `Followers` for the waiting lists.
* `VerdictsKeptHolds`: a connection removes only a row that it has written, and
  removing the first copy of a row keeps all others (`WithoutKeeps`).

`CodeRegistryProofs`, from `RegistryAssumption`: `Shape` is the type invariant
with what a thread between two steps holds (`RegistryTypeOK`). `IInv` adds
`OfferedOnce` itself and `Named`: every id a map or a thread's work can hand to a
launch is in `captured`. A launch then finds either an id that was sent, or one
that was dropped or is being offered (`OfferedOnceHolds`, `LaunchFollowsCodeHolds`).
`AttributionExactHolds` also needs `NilAssumption`: `Nil` is no code, record or kernel.
Its invariant `AttrInv` says what the maps hold for a live owner (`RegisteredInv`,
`LinkedInv`) and for a handle that was never freed (`PresentInv`), which parts of it a
thread inside a load or a callback has still to establish (`Place`), that no two
threads load into one owner (`Alone`), and that a kernel name leads to a cubin that
contains it (`MapsInv`). The property is one conjunct, because a launch reads the
maps and leaves a record of what it read.

`TelemetryRingProofs`, from `RingAssumption`. `RingInv` (`RingTypeOK`) relates
`head`, `tail` and `count` modulo the capacity, says which slots are occupied,
and ties a thread's place to what it holds: a producer to its event, the client
to its batch, the loader to the ring being open. On it rest, each by an
induction of its own:

* `RingImplementsQueue`: a push appends to `Queued` and a pop removes a prefix;
  every other step leaves it alone. The statement is about `ImplementsQueue`,
  which has no fairness.
* `CopiesOwnedHolds`: `SeqInv` says that sequence numbers tell the events in the
  program apart; `HeapInv` that the heap holds the copies of exactly the events
  with producers, ring and client. Every step adds or removes both.
* `EventsConservedHolds`: `CountInv` counts them.
* `ThreadOrderHolds`: `OrderInv` says that for each thread the events written,
  still in the batch, queued and in its hands ascend.

`CodeAnalysisProofs`, from `AnalysisAssumption`. `AnalysisInv` has five parts:
types; `Stage`, which says that a code is in one place (not seen, in the event
queue, in the pool's queue, with one worker, finished); `FreshCodes`: before its
analysis a code has no artifacts and no directory's metadata names it;
`Progress`: a worker past the lock holds it, what it has done is in order and
from its own text, and the directory it works on still holds what it wrote; and
`ArtifactOfOwnCode`. The lock makes `Progress` inductive, `Stage` lets each code
be analysed at most once, and `FreshCodes` lets the lookup by metadata find only
the directory just written. `EndedSessionUntouchedHolds` needs no invariant.

* `FailureExplainedHolds` rests on `TornInv`: without a restart, a half-written file
  is the one that the holder of the lock has open; so whoever reads it is a window's
  inference, never another analysis.
* `LaunchResolutionHolds` rests on `ChosenInv`: what was scheduled for a launch is what
  the lookup would choose now. Analyses only add artifacts of codes that had none.

The second half of `CodeAnalysisProofs` is about `SassText`, from `TextAssumption` (a
kernel is a sequence of instructions whose label operands name labelled instructions
of the kernel). The steps follow one another, so `TextInv` only says of each stage what
the step before it made; the work is in the lemmas about the algorithms, for kernels of
any length:

* `CfgFaithfulHolds` (`CfgSound`): the last leader up to a line begins its block. Every
  line that a branch, call or return leaves is the last of its block because the next is
  a leader, and every target is a leader because it has a label.
* `MainLoopSoundHolds` (`MainLoopIs`): the loops around a nested loop end at different
  lines, so the last of them to end is longer by at least one line for each. It
  contains whatever the nested loop contains, and a line weighs as much as a level
  of nesting: its score is no less, and ties go to the longer. The best loop is
  therefore outermost (`OuterIsBetter`). Without loops, the keys of `select_best_region`
  are bounded, so a region exists that no other beats (`BestOf`).
* `SegmentsExactHolds` (`CutSound`): a loop invariant of `split_lines_to_token_budget`.
  After `n` lines the pieces are those lines in order, each within the budget, and each
  next piece begins with a line the one before it had no room for. Costs and
  concatenations are sums over prefixes (`Sums`, `Joined`).

A recursive function over the turns of a loop exists by an induction over a set of
numbers (`RecursionExists`), and two that take the same steps are equal
(`SameRecursion`); no RECURSIVE operator is involved.

`CollectorProofs`, from `CollectorAssumption`. `CollectorInv` adds to the types:
a connection that was not made yet has no handler; a registration names a
handler of its session that has not unregistered; an open batch has a handler
that has not ended it; queued verdicts and the command under way are of
decided sessions. `SessionCleanedUpHolds`, `RegistrationOwnedHolds` and
`OnlyDecidedTerminatedHolds` follow.

`LaunchOrderHolds` and `CodeNotBehindLaunchHolds` rest on `OrderInv`, one statement
about the whole way: the numbers still with the process and on the wire of a
connection rise (`ClientAt`), what its handler holds comes before them (`StoredAt`),
an open batch is behind the flow towards the processor (`BatchAt`), and the flow,
sent or queued, is ordered (`FlowAt`, `Ordered`). An action moves rows from one of
these stations to the next or drops some. Dropping keeps the order since it only
thins a sequence (`Thinned`).

`LinkProofs`, from `LinkAssumption`. Per direction of a connection, `Sound` says
that what the reader holds and what is in the stream are together an unbroken
piece of the written units that ends with the last of them, beginning behind
what was delivered; `Placed` says, where no timeout took units away, that this
piece begins where the reader's phase says. A message consumes the rest of one
frame, so what follows begins with the next (`MessageChannel`). Hence
`FramesDeliveredHolds`.

`L0SchedulerProofs`, from `SchedulerAssumption`: `SchedulerInv` relates what the
scheduler keeps incrementally to what it would have to recompute.

* `DequeOf`: the cost, counts and ratios of a stream are those of the launches in its
  deque. A launch that enters adds to them; for an eviction one needs that removing
  the first launch takes its kernel's count down by one, and that the latest ratio
  of a kernel that remains is still that of its last launch. `EvictedTo` is the loop
  invariant of `_evict_to_budget`: after `n` iterations the deque ends the
  stream's launches, is not empty, and either the budget holds or `n` launches went.
* `TablesOf`: the signature tables of a stream say which of the emitted windows was
  the first with a signature and how many have it.
* `RunOf`, `Placed`: the deque, and each window, is a run of the stream's accepted
  launches that ends where it says, and the launch behind an online window did not
  fit.
* `CoveredInv`: what is no longer in the deque is in a window. An eviction happens
  only in a step that emitted the deque before (`Overflows`), which is why the two
  belong to one action.
* `FlushedTo`: the loop invariant of `flush`, over the streams in dict order.

Hence `SchedulerTypeOK`, `WindowDescribesLaunchesHolds` and `NoLaunchUnseenHolds`.
The loops are recursive functions of the iteration. That such a function exists, and
that an invariant of the loop holds at each iteration, is induction over a
natural number; the library's induction theorem has an operator as a parameter, which
no installed prover instantiates, so the module proves induction for sets of
numbers once, from the least element of a set (`NatSetInduction`), and names the set
in each use.

`OfflineProofs`, from `PolicyAssumption`, `EvaluationAssumption`, `RecorderAssumption`
and `DatasetAssumption`:

* `ChunksExactHolds`: `CutInv` says of the record that is being cut that its chunks
  cover the text up to where the next one starts plus the overlap (`Started`), and of
  those before that they are whole (`Whole`).
* `ReportExactHolds`: `ScoreInv` follows the predictions through the two loops that
  fill them in, by name (`Predicts`); `Served` says that a record whose text is scored
  through an earlier one finds it; `RowsInv` and `GroupsInv` follow the rows and alarms
  through the groups.
* `DecidesLikeDeploymentHolds`: every step maps to a step of `DecisionPolicy` or to a
  stutter; the slice of one more score is the deque that remembers one more.
* `RecordTypeOKHolds`, `ManifestTrueHolds`: `CurrentInv` says which run is being
  recorded, that it is not listed yet, and that the counters follow its files; the
  listed ones do not change any more. Interruption leaves a run that is never
  continued, since a new start makes a new directory. `PassInv` says that the runs of
  the experiment so far are listed, but for the first where a line cut off earlier
  took it in.
* `ThresholdBestHolds`: `TuneInv` says that `best` is no worse than any threshold up to
  the largest candidate tried, candidate or not: between two means nothing is flagged
  that is not flagged at the next mean.

* `OutcomeOnDiskHolds`, `KeptUntilReadyHolds`: `DatasetInv` has six parts, of which
  one is the types. `PlaceInv`: a capture is in the queue, with one worker, or done.
  `TempInv`: a temporary directory is that of one worker at work, who built what is in
  it, or was left by a killed build; its name contains the worker, so no other worker
  touches it; and where a worker builds, a workload of its name is of this build or
  `--replace` is given. `FinalInv`: a workload is whole unless its removal is under way
  or a build was killed, and one of this build names the capture that created it.
  `ResultInv`: a result is true of the disk, a worker is about to publish a version of
  the name (`Coming`), or a capture of the name gave nothing and overwrites
  (`GivenUp`); this is what makes the report true also where captures share a name.
  `BuiltInv`: a finished build has no result missing. `WorkStep` is what all steps of
  a worker have in common (they change its capture and two directories), and `Honest`
  what its step does to the workload of its name; `ActionKeeps` proves the invariant
  from the two once, and each action has only to show them.
* `SplitSoundHolds`: `SplitInv` says that a split is one that `MakeSplit` makes of the
  directories as they still are. Records of a directory have one group, so parts that
  differ in groups differ in files; every directory has a record since its first
  window is the source of its own text (`RowsBegin`, part of the shape of a directory).
  The sizes are arithmetic: the largest fractions are the order of the ranks 0, 1
  and 2, so rounding hands out every group (`RoundedSound`); with three groups a
  donor has two whenever a split has none (`DonateSound`); and who donates twice had
  all groups (`GroupCountsSound`). Percentages are whole numbers here; the code
  multiplies floating-point ratios.

Only model-checked are the liveness properties (`TerminationSent`, `WindowsResolved`,
`RingDrains`, `AnalysesEnd`, `ComponentsEndTogether`, `LinkRecovers`, `RecordingEnds`):
liveness under fairness and `ENABLED` are beyond the prover. Every safety property of a
passing run has a theorem.

One hazard has no property: a restarted processor has forgotten the artifacts and the
ended sessions while the collector goes on (`processor.py:352`).

## Not modelled

* How the hook gets into a process (`loader.c`, the trampolines, lookup of driver
  entry points), the hook's plain forwarding functions, and generated code.
* Of the offline pipeline the capture manifest tool, the L0 configuration file
  and the static feature counts: each reads one file and writes another.
* The classifier's network, optimisation and tokenizer, and the random forest: numeric
  code, whose results are choices of scores and probabilities. The rewriting of
  commands and the parsing of `nvidia-smi`'s text. Of the experiments
  `window_budget`, `throttle_gpu_sentry` and the calibration of miners, which run
  other programs one after another. The scripts other than `deploy.py`: they parse
  arguments and call one function.
* `configuration.py`: it runs once, and its values are the modules' constants.
* Files the collector writes beside the events, the client's reading of the
  command that ends its process, and custom policies loaded from a file.
* A worker process of a dataset build that outlives its killed parent: `Kill` ends all
  of them, as a loss of power or a kill of their process group does.
* Rounding of scores: they are integers, and the mean is compared without division.
* The order in which the processor reads two connections: `Collector` has a message
  arrive when it is written. After a reconnect the thread of the old connection may
  still read what was written to it while a new one reads the new connection
  (`processor.py:245`), so `LaunchOrder` and `CodeNotBehindLaunch` are statements
  about the order of the writes, which the processor's event queue keeps only while
  one thread reads.
* Several sessions in one processor: they share locks, executors and the outbox,
  and no step reads the state of another session.

The modules are composed at their interfaces, not in one state space: what the
ring may do with a code event is a choice in `CodeRegistry`, what the processor
may do with messages is a choice in `Collector`, and the messages of `Link` have
no content.

## Plan

Done: every component with a protocol of its own, and theorems that state every
safety property of the runs. What would add most next: an abstract session
(decisions followed by at most one termination) that `VerdictPipeline` implements; a
composition of `CodeRegistry` with the ring in place of the choice; and the restart of
the processor seen from the collector.
