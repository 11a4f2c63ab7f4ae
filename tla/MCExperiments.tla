------------------------------ MODULE MCExperiments ------------------------------
EXTENDS Evaluation, BaselineRecorder

VARIABLE program   \* the command that was started: one experiment per process

\* A recorded run with a sample; the first one was interrupted and its workload recorded again.
RunOf(row, meta) ==
    [row |-> row, meta |-> meta, rows |-> [device |-> 1, process |-> 0], torn |-> FALSE,
     counts |-> [device |-> IF meta = "ok" THEN 1 ELSE 0, process |-> 0], leader |-> "ok"]
RecordedRuns == <<RunOf(1, "running"), RunOf(1, "ok"), RunOf(2, "ok")>>

ExperimentsInit ==
    /\ program \in {"evaluation", "baseline"}
    /\ EvalInit
    /\ \/ RecordInit
       \/ /\ mode = "train" /\ phase = "select" /\ item = 3
          /\ runs = RecordedRuns /\ counts = RecordedRuns[3].counts /\ ticks = 1
          /\ expired = FALSE /\ late = FALSE /\ timedOut = FALSE
          /\ manifest = [k \in 1..2 |-> [run |-> k + 1, status |-> "ok", counts |-> counts, whole |-> TRUE]]
          /\ newline = TRUE
          /\ points = {} /\ means = <<>> /\ validation = {} /\ left = {} /\ best = NoBest
          /\ threshold = 100
    \* The state of the program that was not started stays as it is.
    /\ program = "baseline" => /\ corpus = CHOOSE rows \in Corpora : TRUE
                               /\ purpose = "evaluate" /\ stride = CHOOSE s \in Strides : TRUE
    /\ program = "evaluation" => mode = "train" /\ runs = <<>>

\* After two runs nothing is started again.  A third is made only after a first that was recorded
\* to its end and cut off in the manifest; those after such a one have a single device sample, and
\* their training fails.
LineLost == runs[1] = RunOf(1, "ok") /\ (~newline \/ \E k \in DOMAIN manifest : ~manifest[k].whole)
RunsBound ==
    IF Current' =< 1 THEN TRUE
    ELSE /\ ~(phase \in {"done", "aborted"} /\ phase' = "select")
         /\ IF LineLost THEN ticks' \in {0, 1, ticks} /\ counts'.process = 0 /\ means' = <<>>
            ELSE Current' \in {2, Current}

ExperimentsNext ==
    \/ program = "evaluation" /\ EvalNext /\ UNCHANGED <<program, recVars>>
    \/ program = "baseline" /\ RecordNext /\ RunsBound /\ UNCHANGED <<program, evalVars>>

\* The program goes on and time passes; a workload need not end.
ExperimentsSpec ==
    /\ ExperimentsInit /\ [][ExperimentsNext]_<<program, evalVars, recVars>>
    /\ WF_<<program, evalVars, recVars>>(program = "evaluation" /\ EvalNext /\ UNCHANGED <<program, recVars>>)
    /\ WF_<<program, evalVars, recVars>>(program = "baseline" /\ Recorder /\ RunsBound /\ UNCHANGED <<program, evalVars>>)
    /\ WF_<<program, evalVars, recVars>>(program = "baseline" /\ Expire /\ UNCHANGED <<program, evalVars>>)

\* Every workload that is started is recorded to the end or given up, whether it ends or not
\* (record_command: the timeout, the signals and the last wait).
RecordingEnds == (phase = "tick") ~> (phase \in {"append", "aborted"})

Window(name, path, grp, index, split) ==
    [name |-> name, path |-> path, group |-> grp, index |-> index, split |-> split,
     label |-> grp % 2, empty |-> FALSE, sound |-> TRUE]
Empty(row) == [row EXCEPT !.empty = TRUE]

MCCorpora == {
    \* a group of three windows out of order, two with the same text, and one without a window
    <<Window(3, 1, 1, 2, "test"), Window(1, 2, 1, 0, "test"), Window(2, 1, 1, 1, "test"),
      Empty(Window(4, 4, 2, 0, "test"))>>,
    \* splits
    <<Window(1, 1, 1, 0, "train"), Window(2, 2, 2, 0, "train"), Window(4, 3, 4, 0, "test"),
      Window(3, 2, 4, 1, "test")>>,
    \* a name twice, once without text; conflicting labels
    <<Window(1, 1, 1, 0, "test"), Window(1, 3, 1, 1, "test"), Empty(Window(1, 4, 1, 2, "test")),
      [Window(2, 2, 1, 0, "train") EXCEPT !.label = 0], Window(3, 2, 1, 3, "train")>>,
    <<Window(1, 1, 1, 0, "test"), [Window(2, 2, 2, 0, "test") EXCEPT !.sound = FALSE]>> }
MCLength == <<5, 2, 0, 0>>
MCMining == <<TRUE, FALSE>>
=================================================================================
