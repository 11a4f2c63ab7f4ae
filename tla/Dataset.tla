--------------------------------- MODULE Dataset ---------------------------------
(***************************************************************************)
(* Building the training data (sass/dataset.py) and dividing it            *)
(* (sass/splits.py, sass/split_dataset.py).                                *)
(*                                                                         *)
(* A pool of worker processes turns the captures of a manifest into        *)
(* workload directories.  A workload is written into a hidden directory    *)
(* named after the worker's process, and that directory is renamed to the  *)
(* workload's name when it is complete.  A build may be killed anywhere    *)
(* and started again.  A split then reads whatever directories there are.  *)
(*                                                                         *)
(* A workload's name is the sequence of the parts that "_" joins.  What a  *)
(* capture holds is its kind and the signatures of its windows.            *)
(***************************************************************************)
EXTENDS Integers, Sequences, SequencesExt, FiniteSetsExt, Functions

CONSTANTS
    Manifests,     \* capture manifests: sequences of rows [workload, id, label, kind, windows]
    Old,           \* sets of names: the workloads of earlier builds
    OldLabel,      \* their label
    Workers,       \* the processes of the pool
    MaxBuilds,     \* bound on the number of builds
    Share,         \* the split ratios in percent
    Nil, Error

SplitNames == <<"train", "val", "test">>
Splits     == {"train", "val", "test"}
Pos(s)     == CHOOSE x \in 1..3 : SplitNames[x] = s

\* What a capture of a manifest says, and how its workload may come out.
CaptureType ==
    [workload : Seq(STRING), id : STRING, label : STRING, windows : Seq(STRING),
     kind : {"ok", "counted empty", "unlaunched", "unmapped", "bad"}]
Results == {"created", "skipped", "skipped_empty", "skipped_unmapped", "failed"}

ASSUME DatasetAssumption ==
    /\ MaxBuilds \in Nat /\ Manifests \subseteq Seq(CaptureType)
    /\ \A names \in Old : IsFiniteSet(names)
    /\ Nil \notin Results \cup {"publish"}
    /\ \A s \in Splits : Share[s] \in 1..100
    /\ Share["train"] + Share["val"] + Share["test"] = 100

VARIABLES
    captures,      \* the rows of the manifest being built
    replace,       \* --replace
    training,      \* --purpose training
    status,        \* "idle", "building", "built" or "killed"
    builds,        \* builds started so far
    queue,         \* specs not yet handed to a worker
    worker,        \* what each process of the pool is doing
    dirs,          \* the directories under workloads/
    outcome,       \* the result of each spec of this build
    everKilled,    \* some build was killed
    split          \* Nil, Error or the records of each split

buildVars == <<captures, replace, training, status, builds, everKilled>>
vars == <<buildVars, queue, worker, dirs, outcome, split>>

Specs == DOMAIN captures
NoPid == <<0, 0>>
Idle  == [pc |-> "idle", spec |-> 0, then |-> Nil]

\* load_capture_manifest_specs: the second row of a workload gets its capture's id as a suffix.
SpecName(i) ==
    IF \E j \in 1..(i - 1) : captures[j].workload = captures[i].workload
    THEN Append(captures[i].workload, captures[i].id) ELSE captures[i].workload

Named(n) == [name |-> n, pid |-> NoPid]
FinalDir(i) == Named(SpecName(i))
Temp(w)  == [name |-> SpecName(worker[w].spec), pid |-> <<builds, w>>]
Exists(d) == d \in DOMAIN dirs
Without(d) == Restrict(dirs, DOMAIN dirs \ {d})
With(d, content) == [e \in DOMAIN dirs \cup {d} |-> IF e = d THEN content ELSE dirs[e]]

\* Windows that get a row of the manifest, and the window whose text a row names.
FirstSeen(ws, k) == \A j \in 1..(k - 1) : ws[j] # ws[k]
Source(ws, k) == Min({j \in DOMAIN ws : ws[j] = ws[k]})
WindowRows(ws) ==
    LET kept   == {k \in DOMAIN ws : training => FirstSeen(ws, k)}
        nth(x) == CHOOSE k \in kept : Cardinality({j \in kept : j < k}) = x - 1
    IN  IF kept = {} THEN <<[window |-> 0, source |-> 0, first |-> TRUE]>>
        ELSE [x \in 1..Cardinality(kept) |->
                [window |-> nth(x), source |-> Source(ws, nth(x)), first |-> FirstSeen(ws, nth(x))]]

\* A directory: who built it, whether it has a manifest.json, the rows of its
\* windows/manifests.jsonl (or Nil), and whether one of these files is cut off inside.
NewContent(i) ==
    [by |-> <<builds, i>>, label |-> captures[i].label, manifest |-> FALSE, rows |-> Nil,
     torn |-> FALSE, whole |-> FALSE]
OldContent == [by |-> <<0, 0>>, label |-> OldLabel, manifest |-> TRUE, torn |-> FALSE, whole |-> TRUE,
               rows |-> <<[window |-> 1, source |-> 1, first |-> TRUE]>>]

Init ==
    /\ captures \in Manifests /\ replace = FALSE /\ training \in BOOLEAN
    /\ status = "idle" /\ builds = 0 /\ everKilled = FALSE
    /\ queue = <<>>
    /\ worker = [w \in Workers |-> Idle]
    /\ \E names \in Old : dirs = [d \in {Named(n) : n \in names} |-> OldContent]
    /\ outcome = [i \in Specs |-> Nil]
    /\ split = Nil
-----------------------------------------------------------------------------
(* dataset.py: main and the pool *)

StartBuild ==
    /\ status \in {"idle", "built", "killed"} /\ builds < MaxBuilds
    /\ status' = "building" /\ builds' = builds + 1
    /\ replace' \in BOOLEAN
    /\ queue' = [i \in Specs |-> i]
    /\ outcome' = [i \in Specs |-> Nil]
    /\ split' = Nil
    /\ UNCHANGED <<captures, training, everKilled, worker, dirs>>

\* The last result is in: the report is written.
FinishBuild ==
    /\ status = "building" /\ \A i \in Specs : outcome[i] # Nil
    /\ status' = "built"
    /\ UNCHANGED <<captures, replace, training, builds, everKilled, queue, worker, dirs, outcome, split>>

\* The directories of these workers, with the file that is being written cut off.
TornBy(cut) ==
    [d \in DOMAIN dirs |->
        IF \E w \in cut : d = Temp(w) THEN [dirs[d] EXCEPT !.manifest = TRUE, !.torn = TRUE] ELSE dirs[d]]

\* The build is killed with its workers, or one worker is and the broken pool ends the others.
Kill ==
    /\ status = "building"
    /\ status' = "killed" /\ everKilled' = TRUE
    /\ queue' = <<>>
    /\ worker' = [w \in Workers |-> Idle]
    /\ \E cut \in SUBSET {w \in Workers : worker[w].pc \in {"manifest", "rows"}} : dirs' = TornBy(cut)
    /\ UNCHANGED <<captures, replace, training, builds, outcome, split>>

Go(w, pc)  == worker' = [worker EXCEPT ![w].pc = pc]
Ends(w, result) ==
    /\ outcome' = [outcome EXCEPT ![worker[w].spec] = result]
    /\ worker' = [worker EXCEPT ![w] = Idle]

Take(w) ==
    /\ status = "building" /\ worker[w].pc = "idle" /\ queue # <<>>
    /\ worker' = [worker EXCEPT ![w] = [pc |-> "look", spec |-> Head(queue), then |-> Nil]]
    /\ queue' = Tail(queue)
    /\ UNCHANGED <<buildVars, dirs, outcome, split>>

At(w, pc) == status = "building" /\ worker[w].pc = pc
MyFinal(w) == FinalDir(worker[w].spec)
Capture(w) == captures[worker[w].spec]

\* Mutant: a capture without launches removes the workload in any case.
OverwritingAlways == TRUE

\* remove_existing_workload_if_overwriting acts only with --replace.
Overwriting == replace

\* Nothing to build from this capture: an old version goes, if there is one to overwrite.
SkipCapture(w, result) ==
    IF Overwriting /\ Exists(MyFinal(w))
    THEN worker' = [worker EXCEPT ![w].pc = "remove", ![w].then = result] /\ UNCHANGED outcome
    ELSE Ends(w, result)

KnownEmpty(w) ==
    /\ At(w, "look") /\ Capture(w).kind = "counted empty"
    /\ SkipCapture(w, "skipped_empty")
    /\ UNCHANGED <<buildVars, queue, dirs, split>>

SkipExisting(w) ==
    /\ At(w, "look") /\ Capture(w).kind # "counted empty" /\ Exists(MyFinal(w)) /\ ~replace
    /\ Ends(w, "skipped")
    /\ UNCHANGED <<buildVars, queue, dirs, split>>

\* The temporary directory ...
OpenTemp(w) ==
    /\ At(w, "look") /\ Capture(w).kind # "counted empty" /\ (Exists(MyFinal(w)) => replace)
    /\ dirs' = With(Temp(w), NewContent(worker[w].spec))
    /\ Go(w, "manifest")
    /\ UNCHANGED <<buildVars, queue, outcome, split>>

\* ... and its manifest.json, which is written first.
WriteManifest(w) ==
    /\ At(w, "manifest")
    /\ dirs' = [dirs EXCEPT ![Temp(w)].manifest = TRUE]
    /\ Go(w, "build")
    /\ UNCHANGED <<buildVars, queue, outcome, split>>

\* Mutant: an error leaves the temporary directory.
CleanupForgotten(w) == UNCHANGED dirs

\* Every error removes the temporary directory.
Cleanup(w) == dirs' = Without(Temp(w))

\* Reading the events, disassembly or rendering ends with an error.
BuildFails(w) ==
    /\ At(w, "build")
    /\ Cleanup(w)
    /\ CASE Capture(w).kind = "unlaunched" -> SkipCapture(w, "skipped_empty")
         [] Capture(w).kind = "unmapped"   -> SkipCapture(w, "skipped_unmapped")
         [] OTHER                      -> Capture(w).kind = "bad" /\ Ends(w, "failed")
    /\ UNCHANGED <<buildVars, queue, split>>

\* windows/manifests.jsonl is opened and filled; no window gives one default row.
OpenRows(w) ==
    /\ At(w, "build") /\ Capture(w).kind = "ok"
    /\ dirs' = [dirs EXCEPT ![Temp(w)].rows = <<>>]
    /\ Go(w, "rows")
    /\ UNCHANGED <<buildVars, queue, outcome, split>>

WriteRow(w) ==
    LET done == dirs[Temp(w)].rows  all == WindowRows(Capture(w).windows) IN
    /\ At(w, "rows") /\ Len(done) < Len(all)
    /\ dirs' = [dirs EXCEPT ![Temp(w)].rows = SubSeq(all, 1, Len(done) + 1)]
    /\ UNCHANGED <<buildVars, queue, worker, outcome, split>>

\* validate_l0_workload passes.
Validate(w) ==
    /\ At(w, "rows") /\ dirs[Temp(w)].rows = WindowRows(Capture(w).windows)
    /\ dirs' = [dirs EXCEPT ![Temp(w)].whole = TRUE]
    /\ worker' = [worker EXCEPT ![w].pc = IF Exists(MyFinal(w)) THEN "remove" ELSE "publish",
                                ![w].then = "publish"]
    /\ UNCHANGED <<buildVars, queue, outcome, split>>

\* rmtree is not atomic: first some of the files go ...
Tear(w) ==
    /\ At(w, "remove") /\ Exists(MyFinal(w)) /\ dirs[MyFinal(w)].whole
    /\ \E m \in BOOLEAN, r \in {Nil, dirs[MyFinal(w)].rows} :
          dirs' = [dirs EXCEPT ![MyFinal(w)] = [@ EXCEPT !.manifest = m, !.rows = r, !.whole = FALSE]]
    /\ UNCHANGED <<buildVars, queue, worker, outcome, split>>

\* ... then the directory.  A directory another worker removed first is an error to publish.
Removed(w) ==
    /\ At(w, "remove")
    /\ IF worker[w].then # "publish"
       THEN dirs' = Without(MyFinal(w)) /\ Ends(w, worker[w].then)
       ELSE IF Exists(MyFinal(w))
            THEN dirs' = Without(MyFinal(w)) /\ Go(w, "publish") /\ UNCHANGED outcome
            ELSE Cleanup(w) /\ Ends(w, "failed")
    /\ UNCHANGED <<buildVars, queue, split>>

\* The rename, which fails on a directory that is there again.
Publish(w) ==
    /\ At(w, "publish")
    /\ IF Exists(MyFinal(w))
       THEN Cleanup(w) /\ Ends(w, "failed")
       ELSE /\ dirs' = [d \in (DOMAIN dirs \ {Temp(w)}) \cup {MyFinal(w)} |->
                          IF d = MyFinal(w) THEN dirs[Temp(w)] ELSE dirs[d]]
            /\ Ends(w, "created")
    /\ UNCHANGED <<buildVars, queue, split>>
-----------------------------------------------------------------------------
(* splits.py *)

\* load_workload_records: every directory with a manifest.json, the hidden ones too.
Read == {d \in DOMAIN dirs : dirs[d].manifest}

\* Mutant: each window is a group of its own.
GroupByWindow(d, row) == <<d.name, row.window>>

GroupId(d, row) == d.name

RecordsOf(unique) ==
    UNION {{[workload |-> <<d.name, row.window>>, path |-> <<d, row.source>>,
             label |-> dirs[d].label, group |-> GroupId(d, row), dir |-> d] :
              row \in {r \in Range(dirs[d].rows) : unique => r.first}} : d \in Read}

\* A file that cannot be parsed, a directory without rows, no directory, or one name twice.
Refused(unique) ==
    \/ \E d \in Read : dirs[d].torn \/ dirs[d].rows \in {Nil, <<>>}
    \/ Read = {}
    \/ \E r, s \in RecordsOf(unique) : r # s /\ r.workload = s.workload

\* group_records: a group of two labels.
Mixed(records) == \E r, s \in records : r.group = s.group /\ r.label # s.label

\* split_group_counts: whole shares, the rest by largest fraction, then no split empty.
Rounded(n) ==
    LET whole(s) == (n * Share[s]) \div 100
        part(s)  == (n * Share[s]) % 100
        before(s, t) == \/ part(s) > part(t)
                        \/ part(s) = part(t) /\ Share[s] > Share[t]
                        \/ part(s) = part(t) /\ Share[s] = Share[t] /\ Pos(s) < Pos(t)
        rank(s) == Cardinality({t \in Splits : before(t, s)})
        rest    == n - (whole("train") + whole("val") + whole("test"))
    IN  [s \in Splits |-> whole(s) + (IF rank(s) < rest THEN 1 ELSE 0)]

\* The first of the largest splits.
Donor(counts) ==
    CHOOSE d \in Splits : \A t \in Splits :
        counts[d] > counts[t] \/ (counts[d] = counts[t] /\ Pos(d) <= Pos(t))

Donate(counts, s) ==
    LET donor == Donor(counts)
    IN  IF counts[s] = 0 /\ counts[donor] > 1 THEN [counts EXCEPT ![donor] = @ - 1, ![s] = 1]
        ELSE counts

GroupCounts(n) ==
    IF n >= 3 THEN Donate(Donate(Donate(Rounded(n), "train"), "val"), "test") ELSE Rounded(n)

GroupsOf(records, label) == {r.group : r \in {x \in records : x.label = label}}
LabelsOf(records) == {r.label : r \in records}

\* The shuffles that put GroupCounts groups of every label into each split.
Assignments(records) ==
    {a \in [{r.group : r \in records} -> Splits] :
        \A l \in LabelsOf(records) : \A s \in Splits :
            Cardinality({g \in GroupsOf(records, l) : a[g] = s})
              = GroupCounts(Cardinality(GroupsOf(records, l)))[s]}

MakeSplit ==
    /\ status \in {"built", "killed"} /\ split = Nil
    /\ \E unique \in BOOLEAN :
         IF Refused(unique) THEN split' = Error
         ELSE LET records == RecordsOf(unique) IN
              \/ Mixed(records) /\ split' = Error
              \/ /\ ~Mixed(records)
                 /\ \E a \in Assignments(records) :
                       split' = [s \in Splits |-> {r \in records : a[r.group] = s}]
              \/ split' = [s \in Splits |-> IF s = "test" THEN records ELSE {}]
    /\ UNCHANGED <<buildVars, queue, worker, dirs, outcome>>
-----------------------------------------------------------------------------
Next ==
    \/ StartBuild \/ FinishBuild \/ Kill \/ MakeSplit
    \/ \E w \in Workers :
          \/ Take(w) \/ KnownEmpty(w) \/ SkipExisting(w) \/ OpenTemp(w) \/ WriteManifest(w)
          \/ BuildFails(w) \/ OpenRows(w) \/ WriteRow(w) \/ Validate(w) \/ Tear(w) \/ Removed(w) \/ Publish(w)

Spec == Init /\ [][Next]_vars
-----------------------------------------------------------------------------
TypeOK ==
    /\ status \in {"idle", "building", "built", "killed"} /\ builds \in 0..MaxBuilds
    /\ \A w \in Workers : worker[w].spec \in {0} \cup Specs
    /\ \A i \in Specs : outcome[i] \in {Nil} \cup Results
    /\ split \notin {Nil, Error} => DOMAIN split = Splits

BuiltNow(d) == Exists(d) /\ dirs[d].by[1] = builds

\* A capture of this name turned out to give nothing, which removes the workload when overwriting.
GivenUp(d) == \E i \in Specs : FinalDir(i) = d /\ outcome[i] \in {"skipped_empty", "skipped_unmapped"}

\* The report of a finished build is true of the disk (process_capture), also where captures share
\* a name: every directory this build left is a workload, whole and reported as created by the
\* capture it is from, and no temporary one; a name reported as created has such a workload of one
\* of its captures, unless another of them gave nothing and removed it with --replace; a skipped
\* name is there; and where a capture without launches overwrites, no earlier version survives.
OutcomeOnDisk ==
    status = "built" =>
        /\ \A d \in DOMAIN dirs : d.pid[1] # builds
        /\ \A d \in DOMAIN dirs : dirs[d].by[1] = builds =>
             LET i == dirs[d].by[2] IN dirs[d].whole /\ d = FinalDir(i) /\ outcome[i] = "created"
        /\ \A i \in Specs :
             /\ outcome[i] = "created" => BuiltNow(FinalDir(i)) \/ (replace /\ GivenUp(FinalDir(i)))
             /\ outcome[i] = "skipped" => Exists(FinalDir(i))
             /\ outcome[i] \in {"skipped_empty", "skipped_unmapped"} /\ replace /\ Exists(FinalDir(i)) =>
                  BuiltNow(FinalDir(i))

\* A finished workload loses a file only to a capture of its name: with --replace to one that gives
\* nothing, and with --replace, or when this very build made the workload, to a new version that is
\* complete beside it (process_capture, lines 250 to 257).
KeptUntilReady ==
    [][\A d \in DOMAIN dirs : d.pid = NoPid /\ dirs[d].whole =>
         \/ d \in DOMAIN dirs' /\ dirs'[d] = dirs[d]
         \/ \E w \in Workers : worker[w].spec # 0 /\ MyFinal(w) = d
              /\ \/ replace /\ Capture(w).kind \in {"counted empty", "unlaunched", "unmapped"}
                 \/ (replace \/ BuiltNow(d)) /\ Exists(Temp(w)) /\ dirs[Temp(w)].whole]_vars

Placed(s) == split[s]

\* A split keeps training and test data apart and complete (make_grouped_stratified_split): no
\* text file and no capture is in two splits, no record is lost, every split has groups of each
\* label that has three and none is two groups away from its share; and only a killed build can
\* have put an unfinished workload into it.
SplitSound ==
    split \notin {Nil, Error} =>
        LET all  == UNION {Placed(s) : s \in Splits}
            each == {d.name : d \in Read}
        IN  /\ \A s, t \in Splits : s # t => \A r \in Placed(s), q \in Placed(t) :
                    r.path # q.path /\ r.dir.name # q.dir.name
            /\ {r.dir : r \in all} = Read
            /\ ~everKilled => \A r \in all : r.dir.pid = NoPid /\ dirs[r.dir].whole
            /\ Placed("train") # {} =>
                 \A l \in LabelsOf(all) :
                    LET n == Cardinality(GroupsOf(all, l)) IN
                    \A s \in Splits :
                        LET k == Cardinality(GroupsOf(Placed(s), l)) IN
                        /\ n >= 3 => k > 0
                        /\ 100 * k - n * Share[s] \in -199..199
================================================================================
