------------------------------- MODULE Evaluation -------------------------------
(***************************************************************************)
(* Scoring a set of workload windows off line (src/gpu_sentry/model): the  *)
(* records are read (data.py), their text is cut into overlapping chunks   *)
(* for the model, the scores of the chunks become one probability per      *)
(* window, and the windows of a workload are shown in order to the         *)
(* decision policy of the deployment (metrics.py).  evaluate.py scores     *)
(* each text once; train_classifier.py weighs the classes of the training  *)
(* split and scores the records of the held-out ones.                      *)
(*                                                                         *)
(* A record names its workload, text, group and window by numbers.  The    *)
(* classifier is a choice from Scores for every unit of text, the mean     *)
(* over its chunks; texts are as long as Length says.                      *)
(***************************************************************************)
EXTENDS RollingPolicy

CONSTANTS
    Corpora,         \* sequences of records to choose from
    Length,          \* tokens of each text
    ContentWindow,   \* max_seq_length - 2
    Strides          \* values of the configured stride

Labels == 0..1       \* label2id: benign and mining
NoWindowScore == 0   \* the probability that stands for "no window was formed"

RowType == [name : Nat, path : DOMAIN Length, group : Nat, index : Nat, label : Labels,
            split : {"train", "val", "test"}, empty : BOOLEAN, sound : BOOLEAN]

ASSUME EvaluationAssumption ==
    /\ ContentWindow \in Nat \ {0} /\ Strides \subseteq Nat
    /\ \A p \in DOMAIN Length : Length[p] \in Nat
    /\ Corpora \subseteq Seq(RowType)

VARIABLES
    corpus,       \* the rows of the manifests, in the order they are read
    purpose,      \* "evaluate" or "train"
    stride,       \* config.stride
    stage,        \* where the program is
    at,           \* the record a loop has reached
    start,        \* chunk_token_ids: where the next chunk starts
    chunks,       \* the chunks cut so far: their record and the range of tokens
    scoreOf,      \* the classifier's probability for each unit of text
    predicted,    \* predictions: probability by workload name
    groups,       \* the groups not yet reported
    group, todo,  \* the open group and its windows not yet seen
    scores,       \* the probabilities of the open group, in order
    triggered,    \* a window of the open group was suspicious
    windowRows,   \* report["window_predictions"]
    report        \* report["predictions"]: is the group suspicious

loading  == <<corpus, purpose, stride>>
cutting  == <<start, chunks>>
deciding == <<groups, group, todo, scores, triggered, windowRows, report>>
evalVars == <<loading, stage, at, cutting, scoreOf, predicted, deciding>>

Put(f, k, v) == [n \in DOMAIN f \cup {k} |-> IF n = k THEN v ELSE f[n]]

Records == DOMAIN corpus
Row(i)  == corpus[i]
Name(i) == Row(i).name
Text(i) == Row(i).path

\* unique_sources names a text by its path; train_classifier.py scores each record.
Unit(i) == IF purpose = "evaluate" THEN Text(i) ELSE Name(i)

Reported == {i \in Records : purpose = "train" => Row(i).split = "test"}
Training == {i \in Records : Row(i).split = "train" /\ ~Row(i).empty}

EvalInit ==
    /\ corpus \in Corpora /\ purpose \in {"evaluate", "train"} /\ stride \in Strides
    /\ stage = "load" /\ at = 1 /\ start = 0 /\ chunks = <<>>
    /\ scoreOf = <<>> /\ predicted = <<>>
    /\ groups = {} /\ group = 0 /\ todo = {} /\ scores = <<>> /\ triggered = FALSE
    /\ windowRows = <<>> /\ report = <<>>
-----------------------------------------------------------------------------
(* data.py *)

\* records_from_rows: a field, a known label and the text must be there.
LoadRow ==
    /\ stage = "load" /\ at \in Records
    /\ IF Row(at).sound THEN at' = at + 1 /\ UNCHANGED stage
                        ELSE stage' = "failed" /\ UNCHANGED at
    /\ UNCHANGED <<loading, cutting, scoreOf, predicted, deciding>>

Loaded ==
    /\ stage = "load" /\ at \notin Records
    /\ stage' = "chunk" /\ at' = 1
    /\ UNCHANGED <<loading, cutting, scoreOf, predicted, deciding>>

\* The records whose text goes to the classifier.
Wanted(i) ==
    /\ ~Row(i).empty
    /\ purpose = "evaluate" => \A j \in 1..(i - 1) : Row(j).empty \/ Text(j) # Text(i)

SkipRecord ==
    /\ stage = "chunk" /\ at \in Records /\ ~Wanted(at)
    /\ at' = at + 1
    /\ UNCHANGED <<loading, stage, cutting, scoreOf, predicted, deciding>>

\* make_chunks_for_record: the stride must leave room to move.
StrideRefused ==
    /\ stage = "chunk" /\ at \in Records /\ Wanted(at) /\ stride >= ContentWindow
    /\ stage' = "failed"
    /\ UNCHANGED <<loading, at, cutting, scoreOf, predicted, deciding>>

\* Mutant: the chunks do not overlap.
StepWithoutOverlap == ContentWindow

Step == ContentWindow - stride

\* Mutant: the loop goes on while there are tokens left to start at.
ReachesLate(n) == start + Step >= n

\* The chunk holds the last token.
ReachesEnd(n) == start + ContentWindow >= n

\* chunk_token_ids: one turn of its loop.  An empty text is one empty chunk.
CutChunk ==
    /\ stage = "chunk" /\ at \in Records /\ Wanted(at) /\ stride < ContentWindow
    /\ LET n == Length[Text(at)] IN
       /\ chunks' = Append(chunks, [rec |-> at, from |-> start,
                                    to |-> IF start + ContentWindow >= n THEN n
                                           ELSE start + ContentWindow])
       /\ IF ReachesEnd(n) THEN at' = at + 1 /\ start' = 0
                           ELSE start' = start + Step /\ UNCHANGED at
    /\ UNCHANGED <<loading, stage, scoreOf, predicted, deciding>>

Chunked ==
    /\ stage = "chunk" /\ at \notin Records
    /\ stage' = IF purpose = "train" THEN "weigh" ELSE "predict"
    /\ UNCHANGED <<loading, at, cutting, scoreOf, predicted, deciding>>

\* class_weights: a group with two labels, or a label without a group, is an error.
Weighable ==
    /\ \A i, j \in Training : Row(i).group = Row(j).group => Row(i).label = Row(j).label
    /\ \A l \in Labels : \E i \in Training : Row(i).label = l

Weigh ==
    /\ stage = "weigh"
    /\ stage' = IF Weighable THEN "predict" ELSE "failed"
    /\ UNCHANGED <<loading, at, cutting, scoreOf, predicted, deciding>>
-----------------------------------------------------------------------------
(* metrics.py and evaluate.py *)

\* The classifier runs on the chunks; aggregate_chunk_probabilities: one mean per unit.
Predict ==
    /\ stage = "predict"
    /\ scoreOf' \in [{Unit(chunks[k].rec) : k \in {l \in DOMAIN chunks : chunks[l].rec \in Reported}}
                       -> Scores]
    /\ stage' = "expand" /\ at' = 1
    /\ UNCHANGED <<loading, cutting, predicted, deciding>>

\* expand_predictions: the last record of a name wins.
ExpandRecord ==
    /\ stage = "expand" /\ at \in Records
    /\ predicted' = IF at \in Reported /\ ~Row(at).empty
                    THEN Put(predicted, Name(at), scoreOf[Unit(at)]) ELSE predicted
    /\ at' = at + 1
    /\ UNCHANGED <<loading, stage, cutting, scoreOf, deciding>>

Expanded ==
    /\ stage = "expand" /\ at \notin Records
    /\ stage' = "fill" /\ at' = 1
    /\ UNCHANGED <<loading, cutting, scoreOf, predicted, deciding>>

\* no_l0_window and record.workload not in predictions
LacksPrediction(i) == i \in Reported /\ Row(i).empty /\ Name(i) \notin DOMAIN predicted

\* add_no_window_predictions
FillRecord ==
    /\ stage = "fill" /\ at \in Records
    /\ predicted' = IF LacksPrediction(at) THEN Put(predicted, Name(at), NoWindowScore) ELSE predicted
    /\ at' = at + 1
    /\ UNCHANGED <<loading, stage, cutting, scoreOf, deciding>>

Filled ==
    /\ stage = "fill" /\ at \notin Records
    /\ groups' = {Row(i).group : i \in Reported}
    /\ stage' = "group"
    /\ UNCHANGED <<loading, at, cutting, scoreOf, predicted, group, todo, scores, triggered,
                   windowRows, report>>

\* grouped_workload_metrics: the groups in order.
BeginGroup ==
    /\ stage = "group"
    /\ \E g \in groups :
         /\ \A h \in groups : g =< h
         /\ group' = g
         /\ todo' = {i \in Reported : Row(i).group = g}
    /\ scores' = <<>> /\ triggered' = FALSE
    /\ stage' = "windows"
    /\ UNCHANGED <<loading, at, cutting, scoreOf, predicted, groups, windowRows, report>>

\* Mutant: names are compared before window numbers.
NameBefore(i, j) ==
    \/ Name(i) < Name(j)
    \/ Name(i) = Name(j) /\ (Row(i).index < Row(j).index \/ (Row(i).index = Row(j).index /\ i < j))

\* The stable sort by window number and name.
Before(i, j) ==
    \/ Row(i).index < Row(j).index
    \/ Row(i).index = Row(j).index /\ (Name(i) < Name(j) \/ (Name(i) = Name(j) /\ i < j))

\* Mutant: the slice holds one score more.
LatestOneMore(all) == IF Len(all) =< History + 1 THEN all
                      ELSE SubSeq(all, Len(all) - History, Len(all))

\* scores[max(0, index + 1 - history_windows) : index + 1]
Latest(all) == IF Len(all) =< History THEN all ELSE SubSeq(all, Len(all) - History + 1, Len(all))

DecideWindow ==
    /\ stage = "windows"
    /\ \E i \in todo :
         /\ \A j \in todo \ {i} : Before(i, j)
         /\ scores' = Append(scores, predicted[Name(i)])
         /\ LET suspicious == Suspicious(Latest(scores')) IN
            /\ triggered' = (triggered \/ suspicious)
            /\ windowRows' = Append(windowRows, [rec |-> i, score |-> predicted[Name(i)],
                                                 suspicious |-> suspicious])
         /\ todo' = todo \ {i}
    /\ UNCHANGED <<loading, stage, at, cutting, scoreOf, predicted, groups, group, report>>

EndGroup ==
    /\ stage = "windows" /\ todo = {}
    /\ report' = Put(report, group, triggered)
    /\ groups' = groups \ {group}
    /\ stage' = "group"
    /\ UNCHANGED <<loading, at, cutting, scoreOf, predicted, group, todo, scores, triggered, windowRows>>

WriteReport ==
    /\ stage = "group" /\ groups = {}
    /\ stage' = "done"
    /\ UNCHANGED <<loading, at, cutting, scoreOf, predicted, deciding>>
-----------------------------------------------------------------------------
EvalNext ==
    \/ LoadRow \/ Loaded \/ SkipRecord \/ StrideRefused \/ CutChunk \/ Chunked \/ Weigh
    \/ Predict \/ ExpandRecord \/ Expanded \/ FillRecord \/ Filled
    \/ BeginGroup \/ DecideWindow \/ EndGroup \/ WriteReport

EvalSpec == EvalInit /\ [][EvalNext]_evalVars
-----------------------------------------------------------------------------
(* Properties. *)

EvalTypeOK ==
    /\ stage \in {"load", "chunk", "weigh", "predict", "expand", "fill", "group", "windows", "done", "failed"}
    /\ at \in Nat \ {0} /\ start \in Nat
    /\ todo \subseteq Reported /\ triggered \in BOOLEAN
    /\ chunks \in Seq([rec : Nat, from : Nat, to : Nat])
    /\ \A k \in DOMAIN chunks : chunks[k].rec \in Records

Cuts(i) == {k \in DOMAIN chunks : chunks[k].rec = i}
CutOff(i) == stage \notin {"load", "failed"} /\ (stage = "chunk" => i < at)

\* The chunks of a text lose nothing and repeat no more than they must (chunk_token_ids): every
\* token is in one, an empty text has one, none is longer than the model reads, neighbours share
\* exactly stride tokens, and no chunk follows the one that reaches the end of the text.
ChunksExact ==
    \A i \in Records : Wanted(i) /\ CutOff(i) =>
        LET n == Length[Text(i)] IN
        /\ Cuts(i) # {}
        /\ \A t \in 0..(n - 1) : \E k \in Cuts(i) : chunks[k].from <= t /\ t < chunks[k].to
        /\ \A k \in Cuts(i) :
             /\ chunks[k].to - chunks[k].from <= ContentWindow
             /\ (k + 1 \in Cuts(i)) <=> (chunks[k].to < n)
             /\ k + 1 \in Cuts(i) => chunks[k + 1].from = chunks[k].to - stride

OwnScore(i) == IF Row(i).empty THEN NoWindowScore ELSE scoreOf[Unit(i)]

\* The report speaks of every record once (grouped_workload_metrics): each is a window row, the
\* rows of a group are in window order, a row carries the probability of its record's own text
\* unless two records share a name, and a group is suspicious if one of its rows is.
ReportExact ==
    /\ stage = "expand" => \A i \in Reported : Row(i).empty \/ Unit(i) \in DOMAIN scoreOf
    /\ stage = "done" =>
         /\ {windowRows[k].rec : k \in DOMAIN windowRows} = Reported
         /\ \A k, l \in DOMAIN windowRows : k < l =>
              LET i == windowRows[k].rec  j == windowRows[l].rec IN
              /\ i # j
              /\ Row(i).group = Row(j).group => Row(i).index <= Row(j).index
         /\ \A k \in DOMAIN windowRows :
              (\A j \in Reported : Name(j) = Name(windowRows[k].rec) => j = windowRows[k].rec)
                => windowRows[k].score = OwnScore(windowRows[k].rec)
         /\ DOMAIN report = {Row(i).group : i \in Reported}
         /\ \A g \in DOMAIN report : report[g] <=>
              \E k \in DOMAIN windowRows : Row(windowRows[k].rec).group = g /\ windowRows[k].suspicious

Policy == INSTANCE DecisionPolicy WITH recent <- Latest(scores), alarmed <- triggered

\* "Evaluate the GPU-Sentry classifier with the deployment decision policy" (evaluate.py:1): what
\* the report decides for the windows of a group is what the policy object of the deployment
\* decides when it is shown the same windows.
DecidesLikeDeployment == Policy!PolicySpec
================================================================================
