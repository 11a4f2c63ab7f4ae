---------------------------- MODULE BaselineRecorder ----------------------------
(***************************************************************************)
(* The behavioural baseline: experiments/runner.py records the workloads   *)
(* of a plan one after another (baseline/collector.py), builds the points  *)
(* of all recorded runs (features.py), trains a model on them and tunes    *)
(* its threshold, or scores them with a saved one (model.py).              *)
(*                                                                         *)
(* A workload is a process that leads a group of its own.  The recorder    *)
(* may be interrupted at any step and started again in the same directory. *)
(* The random forest is a choice of a mean probability, an integer         *)
(* percentage, for every run it is shown.                                  *)
(***************************************************************************)
EXTENDS Integers, Sequences, FiniteSets, Functions

CONSTANTS
    Mining,      \* for each row of the plan, in order: is it labelled mining
    Means,       \* the mean probabilities that a run can have
    MaxFpr,      \* max_run_fpr, in percent
    MaxRuns,     \* bound on the run directories
    MaxTicks     \* bound on the samples of a run

Rows     == DOMAIN Mining
Final    == {"ok", "failed", "timed_out"}
Exited   == {"ok", "failed"}
NoSample == [device |-> 0, process |-> 0]
NoBest   == [recall |-> -1, threshold |-> -1]

ASSUME RecorderAssumption ==
    /\ Mining \in Seq(BOOLEAN) /\ Means \subseteq 0..100
    /\ MaxFpr \in Nat /\ MaxRuns \in Nat /\ MaxTicks \in Nat

VARIABLES
    mode,        \* "train" (baseline_train) or "score" (throttle_baseline, mixed_baseline)
    phase,       \* where the program is
    item,        \* the row of the plan
    runs,        \* the run directories, with the process that each one records
    counts,      \* device_count and process_count
    ticks,       \* samples taken of this run
    expired,     \* timeout_s has passed
    late,        \* what the loop has seen of it
    timedOut,    \* timed_out
    manifest,    \* raw/manifest.jsonl, with what each line can be read as
    newline,     \* it is empty or ends with a newline
    points,      \* features/points.csv: a run and a sample of it
    means,       \* mean_mining_probability of each run that has points
    validation,  \* the runs of the validation split
    left,        \* candidates still to try
    best,        \* best
    threshold    \* the threshold of the model

recording == <<runs, counts, ticks, expired, late, timedOut>>
learning  == <<means, validation, left, best, threshold>>
listing   == <<manifest, newline>>
recVars   == <<mode, phase, item, recording, listing, points, learning>>

Current == Len(runs)

RecordInit ==
    /\ mode \in {"train", "score"} /\ phase = "select" /\ item = 1
    /\ runs = <<>> /\ counts = NoSample /\ ticks = 0
    /\ expired = FALSE /\ late = FALSE /\ timedOut = FALSE
    /\ manifest = <<>> /\ newline = TRUE /\ points = {}
    /\ means = <<>> /\ validation = {} /\ left = {} /\ best = NoBest /\ threshold = 100
-----------------------------------------------------------------------------
(* collector.py: one run *)

\* select_gpu raises when the GPU is not there or nvidia-smi fails.
SelectGpu ==
    /\ phase = "select" /\ item \in Rows
    /\ phase' \in {"create", "aborted"}
    /\ UNCHANGED <<mode, item, recording, listing, points, learning>>

CreateRun ==
    /\ phase = "create" /\ Current < MaxRuns
    /\ runs' = Append(runs, [row |-> item, meta |-> "running", rows |-> NoSample,
                             counts |-> NoSample, torn |-> FALSE, leader |-> "none"])
    /\ phase' = "spawn"
    /\ UNCHANGED <<mode, item, counts, ticks, expired, late, timedOut, listing, points, learning>>

\* Popen raises when the command cannot be started.
SpawnFails ==
    /\ phase = "spawn"
    /\ phase' = "aborted"
    /\ UNCHANGED <<mode, item, recording, listing, points, learning>>

Spawn ==
    /\ phase = "spawn"
    /\ runs' = [runs EXCEPT ![Current].leader = "running"]
    /\ counts' = NoSample /\ ticks' = 0
    /\ expired' = FALSE /\ late' = FALSE /\ timedOut' = FALSE
    /\ phase' = "tick"
    /\ UNCHANGED <<mode, item, listing, points, learning>>

\* now is read once, before the samples; the first turn always samples.
Tick ==
    /\ phase = "tick"
    /\ late' = expired
    /\ \/ phase' = "device" /\ ticks < MaxTicks /\ ticks' = ticks + 1
       \/ phase' = "poll" /\ ticks > 0 /\ UNCHANGED ticks
    /\ UNCHANGED <<mode, item, runs, counts, expired, timedOut, listing, points, learning>>

\* Mutant: a query that failed is counted.
CountedAlways(n) == 1

Counted(n) == n

\* sample_device: no row when the query fails or does not name the GPU.
SampleDevice ==
    /\ phase = "device"
    /\ \E n \in 0..1 :
         /\ runs' = [runs EXCEPT ![Current].rows.device = @ + n]
         /\ counts' = [counts EXCEPT !.device = @ + Counted(n)]
    /\ phase' = "process"
    /\ UNCHANGED <<mode, item, ticks, expired, late, timedOut, listing, points, learning>>

\* sample_processes: a row for each process that one of the two queries names.
SampleProcesses ==
    /\ phase = "process"
    /\ \E n \in 0..1 :
         /\ runs' = [runs EXCEPT ![Current].rows.process = @ + n]
         /\ counts' = [counts EXCEPT !.process = @ + n]
    /\ phase' = "poll"
    /\ UNCHANGED <<mode, item, ticks, expired, late, timedOut, listing, points, learning>>

PollExited ==
    /\ phase = "poll" /\ runs[Current].leader \in Exited
    /\ phase' = "finish"
    /\ UNCHANGED <<mode, item, recording, listing, points, learning>>

\* Mutant: the loop looks at the clock in its first turn only.
TimeoutSeenOnce == late /\ ticks = 1

TimeoutSeen == late

PollTimeout ==
    /\ phase = "poll" /\ runs[Current].leader = "running" /\ TimeoutSeen
    /\ timedOut' = TRUE
    /\ phase' = "terminate"
    /\ UNCHANGED <<mode, item, runs, counts, ticks, expired, late, listing, points, learning>>

PollAgain ==
    /\ phase = "poll" /\ runs[Current].leader = "running" /\ ~TimeoutSeen
    /\ phase' = "tick"
    /\ UNCHANGED <<mode, item, recording, listing, points, learning>>

\* terminate_process_group: SIGTERM and five seconds, then SIGKILL; the wait of ten seconds
\* after it raises when the process has not died.
Terminate ==
    /\ phase = "terminate"
    /\ phase' = IF runs[Current].leader \in Exited THEN "finish" ELSE "kill"
    /\ UNCHANGED <<mode, item, recording, listing, points, learning>>

Reap ==
    /\ phase = "kill"
    /\ phase' = IF runs[Current].leader \in Exited THEN "finish" ELSE "aborted"
    /\ UNCHANGED <<mode, item, recording, listing, points, learning>>

Status == IF timedOut THEN "timed_out" ELSE runs[Current].leader

Finish ==
    /\ phase = "finish"
    /\ runs' = [runs EXCEPT ![Current].meta = Status, ![Current].counts = counts]
    /\ phase' = "append"
    /\ UNCHANGED <<mode, item, counts, ticks, expired, late, timedOut, listing, points, learning>>

\* append_jsonl: what follows a line without its newline is glued to it, and the two cannot be read.
LineAdded(whole) ==
    IF newline
    THEN Append(manifest, [run |-> Current, status |-> Status, counts |-> counts, whole |-> whole])
    ELSE [manifest EXCEPT ![Len(manifest)].whole = FALSE]

AppendManifest ==
    /\ phase = "append"
    /\ manifest' = LineAdded(TRUE) /\ newline' = TRUE
    /\ item' = item + 1
    /\ phase' = "select"
    /\ UNCHANGED <<mode, recording, points, learning>>
-----------------------------------------------------------------------------
(* features.py, model.py *)

\* A directory without samples is passed over before its metadata is read.
Readable(r) == ~runs[r].torn /\ (runs[r].meta = "torn" => runs[r].rows.device = 0)

\* build_point_features: the samples of every run directory; a line that is not JSON raises.
BuildFeatures ==
    /\ phase = "select" /\ item \notin Rows
    /\ IF \A r \in DOMAIN runs : Readable(r)
       THEN /\ points' = UNION {{r} \X (1..runs[r].rows.device) : r \in DOMAIN runs}
            /\ phase' = mode
       ELSE phase' = "aborted" /\ UNCHANGED points
    /\ UNCHANGED <<mode, item, recording, listing, learning>>

Measured == {p[1] : p \in points}
IsMining(r) == Mining[runs[r].row]

\* mining_probabilities and aggregate_runs; points without all features are left out.
Probabilities == UNION {[seen -> Means] : seen \in SUBSET Measured}

\* grouped_split: a workload is on one side with all of its runs.
Sides(seen) == {{r \in seen : runs[r].row \in rows} : rows \in SUBSET Rows}

\* Without samples of both classes, without a validation side, or when the training side has one
\* class only, the training raises.
TrainFails ==
    /\ phase = "train"
    /\ phase' = "aborted"
    /\ UNCHANGED <<mode, item, recording, listing, points, learning>>

Train ==
    /\ phase = "train"
    /\ means' \in Probabilities /\ {IsMining(r) : r \in DOMAIN means'} = BOOLEAN
    /\ validation' \in Sides(DOMAIN means') \ {{}}
    /\ left' = {0, 100} \cup {means'[r] : r \in validation'}
    /\ best' = NoBest
    /\ phase' = "tune"
    /\ UNCHANGED <<mode, item, recording, listing, points, threshold>>

Flagged(class, t) == {r \in validation : IsMining(r) = class /\ means[r] >= t}
Recall(t) == Cardinality(Flagged(TRUE, t))

\* fpr <= max_fpr, over max(1, len(benign))
Allowed(t) ==
    LET benign == Cardinality({r \in validation : ~IsMining(r)}) IN
    Cardinality(Flagged(FALSE, t)) * 100 =< MaxFpr * (IF benign = 0 THEN 1 ELSE benign)

\* Mutant: the first candidate that is allowed stays.
BetterFirst(t) == best = NoBest

\* (recall, threshold) > best, the candidates in order
Better(t) ==
    \/ Recall(t) > best.recall
    \/ Recall(t) = best.recall /\ t > best.threshold

\* tune_threshold: one turn of its loop.
TryCandidate ==
    /\ phase = "tune"
    /\ \E t \in left :
         /\ \A u \in left : t =< u
         /\ best' = IF Allowed(t) /\ (best = NoBest \/ Better(t))
                    THEN [recall |-> Recall(t), threshold |-> t] ELSE best
         /\ left' = left \ {t}
    /\ UNCHANGED <<mode, phase, item, recording, listing, points, means, validation, threshold>>

Tuned ==
    /\ phase = "tune" /\ left = {}
    /\ threshold' = IF best = NoBest THEN 100 ELSE best.threshold
    /\ phase' = "done"
    /\ UNCHANGED <<mode, item, recording, listing, points, means, validation, left, best>>

\* score_points compares the means of the runs with the threshold of a saved model; without a
\* sample it raises.
ScorePoints ==
    /\ phase = "score"
    /\ means' \in Probabilities
    /\ phase' = IF means' = <<>> THEN "aborted" ELSE "done"
    /\ UNCHANGED <<mode, item, recording, listing, points, validation, left, best, threshold>>
-----------------------------------------------------------------------------
(* What happens around the recorder. *)

LeaderExits ==
    /\ \E r \in DOMAIN runs, how \in Exited :
         /\ runs[r].leader = "running"
         /\ runs' = [runs EXCEPT ![r].leader = how]
    /\ UNCHANGED <<mode, phase, item, counts, ticks, expired, late, timedOut, listing, points, learning>>

Expire ==
    /\ phase \in {"tick", "device", "process", "poll"} /\ ~expired
    /\ expired' = TRUE
    /\ UNCHANGED <<mode, phase, item, runs, counts, ticks, late, timedOut, listing, points, learning>>

WritingMetadata == phase \in {"spawn", "finish"} \/ (phase = "tick" /\ ticks = 0)

\* The recorder is killed: the workload goes on, and the line of samples, the metadata or the
\* line of the manifest that is being written may be cut off, the last also just before its newline.
Interrupt ==
    /\ phase \notin {"done", "aborted"}
    /\ phase' = "aborted"
    /\ \/ UNCHANGED <<runs, listing>>
       \/ /\ phase = "device" /\ runs' = [runs EXCEPT ![Current].torn = TRUE]
          /\ UNCHANGED listing
       \/ /\ WritingMetadata /\ runs' = [runs EXCEPT ![Current].meta = "torn"]
          /\ UNCHANGED listing
       \/ /\ phase = "append" /\ \E whole \in BOOLEAN : manifest' = LineAdded(whole)
          /\ newline' = FALSE /\ UNCHANGED runs
    /\ UNCHANGED <<mode, item, counts, ticks, expired, late, timedOut, points, learning>>

\* The experiment is started again with the same output directory.
StartAgain ==
    /\ phase \in {"done", "aborted"} /\ Current < MaxRuns
    /\ phase' = "select" /\ item' = 1
    /\ UNCHANGED <<mode, recording, listing, points, learning>>
-----------------------------------------------------------------------------
Recorder ==
    \/ SelectGpu \/ CreateRun \/ SpawnFails \/ Spawn \/ Tick \/ SampleDevice \/ SampleProcesses
    \/ PollExited \/ PollTimeout \/ PollAgain \/ Terminate \/ Reap \/ Finish \/ AppendManifest
    \/ BuildFeatures \/ TrainFails \/ Train \/ TryCandidate \/ Tuned \/ ScorePoints

RecordNext == Recorder \/ LeaderExits \/ Expire \/ Interrupt \/ StartAgain

RecordSpec == RecordInit /\ [][RecordNext]_recVars
-----------------------------------------------------------------------------
(* Properties. *)

RecordTypeOK ==
    /\ mode \in {"train", "score"} /\ item \in Nat \ {0}
    /\ phase \in {"select", "create", "spawn", "tick", "device", "process", "poll", "terminate",
                  "kill", "finish", "append", "train", "score", "tune", "done", "aborted"}
    /\ runs \in Seq([row : Rows, meta : Final \cup {"running", "torn"}, torn : BOOLEAN,
                     rows : [device : Nat, process : Nat], counts : [device : Nat, process : Nat],
                     leader : Exited \cup {"none", "running"}])
    /\ manifest \in Seq([run : DOMAIN runs, status : Final, counts : [device : Nat, process : Nat],
                         whole : BOOLEAN])
    /\ newline \in BOOLEAN

\* The manifest has the run, or the run is the first of its experiment and was lost to a line
\* that an earlier one left without its end.
Recorded(r, first) ==
    \/ \E k \in DOMAIN manifest : manifest[k].whole /\ manifest[k].run = r
    \/ r = first /\ \E k \in DOMAIN manifest : ~manifest[k].whole /\ manifest[k].run < r

\* What a line of the manifest that can be read says of a run is true and stays true
\* (record_command, baseline_train): the process has ended, the metadata on disk is final and says
\* the same, "ok" is a run that ended by itself with success, and the counts are those of the
\* samples on disk, although queries fail, timeouts strike and the recorder is killed, also over
\* the manifest, and started again.  No run is listed twice.  When an experiment comes to its
\* points, every sample of a listed run is among them, and each run of the experiment is listed,
\* but for the first if the last line was cut off when the experiment began.
ManifestTrue ==
    /\ \A k \in DOMAIN manifest :
         LET run == runs[manifest[k].run] IN
         manifest[k].whole =>
         /\ run.leader \in Exited
         /\ run.meta = manifest[k].status
         /\ run.meta = "ok" => run.leader = "ok"
         /\ run.counts = manifest[k].counts
         /\ run.counts = run.rows
         /\ ~run.torn
    /\ \A k, l \in DOMAIN manifest : k < l => manifest[k].run < manifest[l].run
    /\ phase \in {"train", "score", "tune"} =>
         LET before == Current - Len(Mining) IN
         /\ \A k \in DOMAIN manifest : \A n \in 1..runs[manifest[k].run].rows.device :
              <<manifest[k].run, n>> \in points
         /\ \A r \in (before + 1)..Current : Recorded(r, before + 1)

\* tune_threshold returns the best of all thresholds, although it tries only the means of the
\* validation runs, 0 and 1: if any threshold keeps the false positive rate, the one it returns
\* keeps it too, no other that keeps it has a higher recall, and no higher one has the same.
ThresholdBest ==
    mode = "train" /\ phase = "done" =>
        \A t \in 0..100 : Allowed(t) =>
            /\ Allowed(threshold)
            /\ Recall(t) =< Recall(threshold)
            /\ Recall(t) = Recall(threshold) => t =< threshold
================================================================================
