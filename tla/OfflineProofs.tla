------------------------------ MODULE OfflineProofs ------------------------------
(***************************************************************************)
(* Theorems about the off-line programs: Evaluation for every set of       *)
(* records, texts, strides and thresholds, BaselineRecorder for every plan *)
(* and any number of runs and samples, and Dataset for every manifest,     *)
(* number of workers, builds and split ratios.                             *)
(***************************************************************************)
EXTENDS Evaluation, BaselineRecorder, Dataset, WellFoundedInduction, FiniteSetTheorems,
        SequenceTheorems, TLAPS

Chunk == [rec : Nat, from : Nat, to : Nat]

-----------------------------------------------------------------------------
(* chunk_token_ids.  c is the chunks so far, i a record with n tokens, d the stride. *)

CutsOf(c, i) == {k \in DOMAIN c : c[k].rec = i}

\* All of the text has been cut.
Whole(c, i, n, d) ==
    /\ CutsOf(c, i) # {}
    /\ \A t \in 0..(n - 1) : \E k \in CutsOf(c, i) : c[k].from <= t /\ t < c[k].to
    /\ \A k \in CutsOf(c, i) :
         /\ c[k].to - c[k].from <= ContentWindow
         /\ (k + 1 \in CutsOf(c, i)) <=> (c[k].to < n)
         /\ k + 1 \in CutsOf(c, i) => c[k + 1].from = c[k].to - d

\* The next chunk starts at s.
Started(c, i, n, d, s) ==
    \/ s = 0 /\ CutsOf(c, i) = {}
    \/ /\ s > 0
       /\ Len(c) \in CutsOf(c, i) /\ c[Len(c)].to = s + d
       /\ \A t \in 0..(s + d - 1) : \E k \in CutsOf(c, i) : c[k].from <= t /\ t < c[k].to
       /\ \A k \in CutsOf(c, i) :
            /\ c[k].to - c[k].from <= ContentWindow /\ c[k].to < n
            /\ (k + 1 \in CutsOf(c, i)) <=> k # Len(c)
            /\ k + 1 \in CutsOf(c, i) => c[k + 1].from = c[k].to - d

LEMMA CutsAppend ==
    ASSUME NEW c \in Seq(Chunk), NEW ch \in Chunk
    PROVE  LET e == Append(c, ch) IN
           /\ e \in Seq(Chunk) /\ Len(e) = Len(c) + 1 /\ Len(c) \in Nat
           /\ \A k \in DOMAIN c : k \in 1..Len(c) /\ e[k] = c[k] /\ c[k] \in Chunk
           /\ e[Len(c) + 1] = ch
           /\ DOMAIN e = DOMAIN c \cup {Len(c) + 1} /\ Len(c) + 1 \notin DOMAIN c
           /\ DOMAIN c = 1..Len(c)
           /\ CutsOf(e, ch.rec) = CutsOf(c, ch.rec) \cup {Len(c) + 1}
           /\ \A i : i # ch.rec => CutsOf(e, i) = CutsOf(c, i)
<1> DEFINE e == Append(c, ch)
<1>1. e \in Seq(Chunk) /\ Len(e) = Len(c) + 1 /\ Len(c) \in Nat /\ e[Len(c) + 1] = ch
      /\ DOMAIN c = 1..Len(c) /\ DOMAIN e = 1..(Len(c) + 1)
  BY AppendProperties, LenProperties
<1>2. \A k \in DOMAIN c : k \in 1..Len(c) /\ e[k] = c[k] /\ c[k] \in Chunk
  BY <1>1, AppendProperties, ElementOfSeq
<1> HIDE DEF e
<1>3. DOMAIN e = DOMAIN c \cup {Len(c) + 1} /\ Len(c) + 1 \notin DOMAIN c
  BY <1>1
<1>4. CutsOf(e, ch.rec) = CutsOf(c, ch.rec) \cup {Len(c) + 1}
  BY <1>1, <1>2, <1>3 DEF CutsOf
<1>5. \A i : i # ch.rec => CutsOf(e, i) = CutsOf(c, i)
  BY <1>1, <1>2, <1>3 DEF CutsOf
<1> QED
  BY <1>1, <1>2, <1>3, <1>4, <1>5 DEF e

\* A chunk of another record changes nothing.
LEMMA WholeKept ==
    ASSUME NEW c \in Seq(Chunk), NEW ch \in Chunk, NEW i \in Nat, i # ch.rec,
           NEW n \in Nat, NEW d \in Nat, Whole(c, i, n, d)
    PROVE  Whole(Append(c, ch), i, n, d)
<1> DEFINE e == Append(c, ch)
<1>1. CutsOf(e, i) = CutsOf(c, i)
  BY CutsAppend
<1>2. \A k \in CutsOf(c, i) : e[k] = c[k]
  BY CutsAppend DEF CutsOf
<1> HIDE DEF e
<1> QED
  <2>1. \A k \in CutsOf(c, i) : k + 1 \in CutsOf(c, i) => e[k + 1] = c[k + 1]
    BY <1>2
  <2>2. Whole(e, i, n, d)
    BY <1>1, <1>2, <2>1 DEF Whole
  <2> QED
    BY <2>2 DEF e

\* The chunk that reaches the end.
LEMMA WholeAtLast ==
    ASSUME NEW c \in Seq(Chunk), NEW i \in Nat, NEW n \in Nat, NEW d \in Nat, NEW s \in Nat,
           Started(c, i, n, d, s), s + ContentWindow >= n
    PROVE  Whole(Append(c, [rec |-> i, from |-> s, to |-> n]), i, n, d)
<1> DEFINE ch == [rec |-> i, from |-> s, to |-> n]
           e == Append(c, ch)
           m == Len(c) + 1
<1>1. ch \in Chunk /\ ch.rec = i /\ ch.from = s /\ ch.to = n
  BY DEF Chunk
<1>2. /\ m \in Nat /\ Len(c) \in Nat /\ e[m] = ch /\ DOMAIN c = 1..Len(c)
      /\ CutsOf(e, i) = CutsOf(c, i) \cup {m}
      /\ \A k \in CutsOf(c, i) : e[k] = c[k] /\ c[k] \in Chunk /\ k \in 1..Len(c)
  BY <1>1, CutsAppend DEF CutsOf
<1> HIDE DEF e, ch
<1>3. m \in CutsOf(e, i) /\ m + 1 \notin CutsOf(e, i)
  BY <1>2
<1>4. \A t \in 0..(n - 1) : \E k \in CutsOf(e, i) : e[k].from <= t /\ t < e[k].to
  <2> SUFFICES ASSUME NEW t \in 0..(n - 1)
               PROVE  \E k \in CutsOf(e, i) : e[k].from <= t /\ t < e[k].to
    OBVIOUS
  <2>1. CASE s <= t
    BY <2>1, <1>1, <1>2, <1>3
  <2>2. CASE t < s
    <3>1. s > 0 /\ t \in 0..(s + d - 1)
      BY <2>2
    <3>2. \E k \in CutsOf(c, i) : c[k].from <= t /\ t < c[k].to
      BY <3>1 DEF Started
    <3> QED
      BY <3>2, <1>2
  <2> QED
    BY <2>1, <2>2
<1>5. ASSUME NEW k \in CutsOf(c, i)
      PROVE  /\ e[k].to - e[k].from <= ContentWindow
             /\ k + 1 \in CutsOf(e, i) /\ e[k].to < n
             /\ e[k + 1].from = e[k].to - d
  <2>1. s > 0 /\ c[k].to - c[k].from <= ContentWindow /\ c[k].to < n /\ c[Len(c)].to = s + d
    BY <1>5 DEF Started
  <2>2. CASE k = Len(c)
    BY <2>1, <2>2, <1>1, <1>2
  <2>3. CASE k # Len(c)
    <3>1. k + 1 \in CutsOf(c, i) /\ c[k + 1].from = c[k].to - d
      BY <2>1, <2>3 DEF Started
    <3> QED
      BY <3>1, <2>1, <1>2
  <2> QED
    BY <2>2, <2>3
<1>6. e[m].to - e[m].from <= ContentWindow /\ ~(e[m].to < n)
  BY <1>1, <1>2, EvaluationAssumption
<1>7. Whole(e, i, n, d)
  BY <1>2, <1>3, <1>4, <1>5, <1>6 DEF Whole
<1> QED
  BY <1>7 DEF e, ch

\* A chunk before the end.
LEMMA StartedNext ==
    ASSUME NEW c \in Seq(Chunk), NEW i \in Nat, NEW n \in Nat, NEW d \in Nat, NEW s \in Nat,
           Started(c, i, n, d, s), s + ContentWindow < n, d < ContentWindow
    PROVE  Started(Append(c, [rec |-> i, from |-> s, to |-> s + ContentWindow]), i, n, d,
                   s + (ContentWindow - d))
<1> DEFINE ch == [rec |-> i, from |-> s, to |-> s + ContentWindow]
           e == Append(c, ch)
           m == Len(c) + 1
           z == s + (ContentWindow - d)
<1>0. ContentWindow \in Nat
  BY EvaluationAssumption
<1>1. ch \in Chunk /\ ch.rec = i /\ ch.from = s /\ ch.to = s + ContentWindow
  BY <1>0 DEF Chunk
<1>2. /\ m \in Nat /\ Len(c) \in Nat /\ e[m] = ch /\ Len(e) = m
      /\ CutsOf(e, i) = CutsOf(c, i) \cup {m}
      /\ \A k \in CutsOf(c, i) : e[k] = c[k] /\ c[k] \in Chunk /\ k \in 1..Len(c)
  BY <1>1, CutsAppend DEF CutsOf
<1> HIDE DEF e, ch
<1>3. m \in CutsOf(e, i) /\ m + 1 \notin CutsOf(e, i) /\ z > 0 /\ z + d = s + ContentWindow /\ z \in Nat
  BY <1>2, <1>0
<1>a. z + d - 1 = s + ContentWindow - 1
  BY <1>0
<1> HIDE DEF z
<1>4. \A t \in 0..(z + d - 1) : \E k \in CutsOf(e, i) : e[k].from <= t /\ t < e[k].to
  <2> SUFFICES ASSUME NEW t \in 0..(s + ContentWindow - 1)
               PROVE  \E k \in CutsOf(e, i) : e[k].from <= t /\ t < e[k].to
    BY <1>a
  <2>1. CASE s <= t
    BY <2>1, <1>0, <1>1, <1>2, <1>3
  <2>2. CASE t < s
    <3>1. s > 0 /\ t \in 0..(s + d - 1)
      BY <2>2, <1>0
    <3>2. \E k \in CutsOf(c, i) : c[k].from <= t /\ t < c[k].to
      BY <3>1 DEF Started
    <3> QED
      BY <3>2, <1>2
  <2> QED
    BY <2>1, <2>2, <1>0
<1>5. ASSUME NEW k \in CutsOf(c, i)
      PROVE  /\ e[k].to - e[k].from <= ContentWindow
             /\ k + 1 \in CutsOf(e, i) /\ e[k].to < n /\ k # m
             /\ e[k + 1].from = e[k].to - d
  <2>1. s > 0 /\ c[k].to - c[k].from <= ContentWindow /\ c[k].to < n /\ c[Len(c)].to = s + d
    BY <1>5 DEF Started
  <2>2. CASE k = Len(c)
    BY <2>1, <2>2, <1>1, <1>2
  <2>3. CASE k # Len(c)
    <3>1. k + 1 \in CutsOf(c, i) /\ c[k + 1].from = c[k].to - d
      BY <2>1, <2>3 DEF Started
    <3> QED
      BY <3>1, <2>1, <1>2
  <2> QED
    BY <2>2, <2>3
<1>6. e[m].to - e[m].from <= ContentWindow /\ e[m].to < n /\ e[m].to = z + d
  BY <1>0, <1>1, <1>2, <1>3
<1> HIDE DEF m
<1>7. Started(e, i, n, d, z)
  BY <1>2, <1>3, <1>4, <1>5, <1>6 DEF Started
<1> QED
  BY <1>7 DEF e, ch, z

-----------------------------------------------------------------------------
(* Evaluation: the shape of its state, and the chunks. *)

Stages == {"load", "chunk", "weigh", "predict", "expand", "fill", "group", "windows", "done", "failed"}

EvalShape ==
    /\ corpus \in Seq(RowType) /\ purpose \in {"evaluate", "train"} /\ stride \in Nat
    /\ stage \in Stages /\ at \in Nat \ {0} /\ start \in Nat
    /\ chunks \in Seq(Chunk) /\ \A k \in DOMAIN chunks : chunks[k].rec \in Records
    /\ todo \subseteq Reported /\ triggered \in BOOLEAN

Tokens(i) == Length[Text(i)]

\* Before at every record is cut; behind it there is nothing yet.
CutInv ==
    /\ \A k \in DOMAIN chunks : Wanted(chunks[k].rec)
    /\ stage = "load" => chunks = <<>> /\ start = 0
    /\ stage = "chunk" =>
         /\ \A k \in DOMAIN chunks : chunks[k].rec <= at
         /\ \A i \in Records : i < at /\ Wanted(i) => Whole(chunks, i, Tokens(i), stride)
         /\ at \in Records => Started(chunks, at, Tokens(at), stride, start)
         /\ at \notin Records => start = 0
    /\ stage \notin {"load", "chunk", "failed"} =>
         \A i \in Records : Wanted(i) => Whole(chunks, i, Tokens(i), stride)

LEMMA RecordFacts ==
    ASSUME EvalShape
    PROVE  /\ Records \subseteq Nat \ {0}
           /\ \A i \in Records : \A j \in 1..i : j \in Records
           /\ at \notin Records => \A i \in Records : i < at
           /\ \A i \in Records : /\ Row(i) \in RowType /\ Tokens(i) \in Nat
                                 /\ Row(i).empty \in BOOLEAN /\ Row(i).sound \in BOOLEAN
           /\ \A k \in DOMAIN chunks : chunks[k].rec \in Records
           /\ chunks \in Seq(Chunk)
<1>1. Len(corpus) \in Nat /\ Records = 1..Len(corpus)
  BY LenProperties DEF EvalShape, Records
<1>2. \A i \in Records : Row(i) \in RowType
  BY ElementOfSeq, <1>1 DEF EvalShape, Row
<1>3. \A i \in Records : Tokens(i) \in Nat /\ Row(i).empty \in BOOLEAN /\ Row(i).sound \in BOOLEAN
  BY <1>2, EvaluationAssumption DEF Tokens, Text, Row, RowType
<1>6. Records \subseteq Nat \ {0} /\ \A i \in Records : \A j \in 1..i : j \in Records
  BY <1>1
<1>7. at \notin Records => \A i \in Records : i < at
  BY <1>1 DEF EvalShape
<1> QED
  BY <1>2, <1>3, <1>6, <1>7 DEF EvalShape

LEMMA EvalInitShape == EvalInit => EvalShape /\ CutInv
<1> SUFFICES ASSUME EvalInit PROVE EvalShape /\ CutInv
  OBVIOUS
<1>1. EvalShape
  <2>1. corpus \in Seq(RowType) /\ stride \in Nat
    BY EvaluationAssumption DEF EvalInit
  <2>2. chunks = <<>> /\ chunks \in Seq(Chunk) /\ DOMAIN chunks = {}
    BY DEF EvalInit
  <2>3. stage \in Stages /\ at \in Nat \ {0} /\ start \in Nat /\ todo \subseteq Reported
    BY DEF EvalInit, Stages
  <2>5. triggered \in BOOLEAN /\ purpose \in {"evaluate", "train"}
    BY DEF EvalInit
  <2>4. \A k \in DOMAIN chunks : chunks[k].rec \in Records
    BY <2>2
  <2> QED
    BY <2>1, <2>2, <2>3, <2>4, <2>5 DEF EvalShape
<1>2. CutInv
  BY DEF EvalInit, CutInv
<1> QED
  BY <1>1, <1>2

\* What the definitions read of the records does not change.
LEMMA RecordsKept ==
    ASSUME UNCHANGED loading
    PROVE  /\ Records' = Records /\ Reported' = Reported /\ stride' = stride
           /\ \A i : Wanted(i)' = Wanted(i) /\ Tokens(i)' = Tokens(i)
           /\ \A i : Row(i)' = Row(i) /\ Name(i)' = Name(i) /\ Unit(i)' = Unit(i)
BY DEF loading, Records, Reported, Wanted, Tokens, Row, Name, Text, Unit

LEMMA ShapeStep ==
    ASSUME EvalShape, [EvalNext]_evalVars
    PROVE  EvalShape'
<1>1. CASE UNCHANGED evalVars
  BY <1>1 DEF evalVars, loading, cutting, deciding, EvalShape, Records, Reported, Row
<1>2. ASSUME UNCHANGED loading, stage' \in Stages, at' \in Nat \ {0}, start' \in Nat,
             chunks' \in Seq(Chunk), \A k \in DOMAIN chunks' : chunks'[k].rec \in Records,
             todo' \subseteq Reported, triggered' \in BOOLEAN
      PROVE  EvalShape'
  BY <1>2, RecordsKept DEF EvalShape, loading
<1>3. at + 1 \in Nat \ {0} /\ 1 \in Nat \ {0}
  BY DEF EvalShape
<1>4. CASE LoadRow \/ Loaded \/ SkipRecord \/ StrideRefused \/ Chunked \/ Weigh
  <2>1. stage' \in Stages /\ at' \in Nat \ {0}
    BY <1>3, <1>4 DEF LoadRow, Loaded, SkipRecord, StrideRefused, Chunked, Weigh, EvalShape, Stages
  <2>2. UNCHANGED <<loading, cutting, deciding>>
    BY <1>4 DEF LoadRow, Loaded, SkipRecord, StrideRefused, Chunked, Weigh
  <2> QED
    BY <1>2, <2>1, <2>2 DEF EvalShape, cutting, deciding
<1>5. CASE CutChunk
  <2>1. /\ UNCHANGED <<loading, deciding, stage>> /\ at \in Records
        /\ (at' = at + 1 \/ at' = at)
        /\ (start' = 0 \/ start' = start + Step) /\ stride < ContentWindow
    BY <1>5 DEF CutChunk
  <2>2. start' \in Nat
    BY <2>1, EvaluationAssumption DEF EvalShape, Step
  <2>3. PICK ch \in Chunk : chunks' = Append(chunks, ch) /\ ch.rec = at
    <3>1. Tokens(at) \in Nat /\ at \in Nat /\ start + ContentWindow \in Nat
      BY <2>1, RecordFacts, EvaluationAssumption DEF EvalShape
    <3> DEFINE ch == [rec |-> at, from |-> start,
                      to |-> IF start + ContentWindow >= Tokens(at) THEN Tokens(at)
                             ELSE start + ContentWindow]
    <3>2. ch \in Chunk /\ ch.rec = at
      BY <3>1 DEF Chunk, EvalShape
    <3>3. chunks' = Append(chunks, ch)
      BY <1>5 DEF CutChunk, Tokens
    <3> QED
      BY <3>2, <3>3
  <2>4. chunks' \in Seq(Chunk) /\ \A k \in DOMAIN chunks' : chunks'[k].rec \in Records
    BY <2>1, <2>3, CutsAppend DEF EvalShape
  <2> QED
    BY <1>2, <1>3, <2>1, <2>2, <2>4 DEF EvalShape, deciding
<1>6. CASE Predict \/ ExpandRecord \/ Expanded \/ FillRecord \/ Filled \/ BeginGroup
           \/ DecideWindow \/ EndGroup \/ WriteReport
  <2>1. stage' \in Stages /\ at' \in Nat \ {0}
    BY <1>3, <1>6 DEF Predict, ExpandRecord, Expanded, FillRecord, Filled, BeginGroup,
              DecideWindow, EndGroup, WriteReport, EvalShape, Stages
  <2>2. UNCHANGED <<loading, cutting>>
    BY <1>6 DEF Predict, ExpandRecord, Expanded, FillRecord, Filled, BeginGroup, DecideWindow,
              EndGroup, WriteReport
  <2>3. todo' \subseteq Reported /\ triggered' \in BOOLEAN
    <3>1. CASE BeginGroup
      BY <3>1 DEF BeginGroup
    <3>2. CASE DecideWindow
      <4>1. todo' \subseteq todo
        BY <3>2 DEF DecideWindow
      <4>2. triggered' \in BOOLEAN
        BY <3>2 DEF DecideWindow, EvalShape, Suspicious
      <4> QED
        BY <4>1, <4>2 DEF EvalShape
    <3>3. CASE ~BeginGroup /\ ~DecideWindow
      BY <3>3, <1>6 DEF Predict, ExpandRecord, Expanded, FillRecord, Filled, EndGroup,
              WriteReport, EvalShape, deciding
    <3> QED
      BY <3>1, <3>2, <3>3
  <2> QED
    BY <1>2, <2>1, <2>2, <2>3 DEF EvalShape, cutting
<1> QED
  BY <1>1, <1>4, <1>5, <1>6 DEF EvalNext

\* Only the loop over the records cuts.
LEMMA CutStep ==
    ASSUME EvalShape, CutInv, [EvalNext]_evalVars
    PROVE  CutInv'
<1> DEFINE Same == UNCHANGED <<loading, stage, at, start, chunks>>
           Past == {"weigh", "predict", "expand", "fill", "group", "windows", "done"}
<1>1. CASE Same
  <2>1. UNCHANGED loading
    BY <1>1 DEF loading
  <2> QED
    BY <1>1, <2>1, RecordsKept DEF CutInv
<1>2. CASE UNCHANGED <<loading, start, chunks>> /\ stage \in Past /\ stage' \in Past \cup {"failed"}
  BY <1>2, RecordsKept DEF CutInv
<1>3. CASE UNCHANGED <<loading, start, chunks>> /\ stage = "load" /\ stage' = stage
  BY <1>3, RecordsKept DEF CutInv
<1>4. CASE stage' = "failed" /\ UNCHANGED <<loading, chunks>>
  BY <1>4, RecordsKept DEF CutInv
<1>5. CASE Loaded
  <2>1. UNCHANGED <<loading, start, chunks>> /\ chunks = <<>> /\ start = 0 /\ at' = 1 /\ stage' = "chunk"
    BY <1>5 DEF Loaded, cutting, CutInv
  <2>2. \A i \in Records : ~(i < 1)
    BY RecordFacts
  <2>3. DOMAIN chunks = {} /\ \A i, n, d : Started(chunks, i, n, d, 0)
    BY <2>1 DEF Started, CutsOf
  <2> QED
    BY <2>1, <2>2, <2>3, RecordsKept DEF CutInv
<1>6. CASE SkipRecord
  <2>1. /\ UNCHANGED <<loading, start, chunks, stage>> /\ at' = at + 1 /\ stage = "chunk"
        /\ at \in Records /\ ~Wanted(at)
    BY <1>6 DEF SkipRecord, cutting
  <2>2. CutsOf(chunks, at) = {} /\ CutsOf(chunks, at + 1) = {}
    BY <2>1, RecordFacts DEF CutInv, CutsOf, EvalShape
  <2>3. start = 0 /\ \A n, d : Started(chunks, at + 1, n, d, 0)
    BY <2>1, <2>2 DEF CutInv, Started
  <2>4. \A k \in DOMAIN chunks : chunks[k].rec <= at + 1
    <3>1. \A k \in DOMAIN chunks : chunks[k].rec \in Nat /\ chunks[k].rec <= at
      BY <2>1, RecordFacts DEF CutInv
    <3>2. at \in Nat
      BY DEF EvalShape
    <3> QED
      BY <3>1, <3>2
  <2>5. \A i \in Records : i < at + 1 => i < at \/ i = at
    BY RecordFacts DEF EvalShape
  <2> QED
    BY <2>1, <2>3, <2>4, <2>5, RecordsKept DEF CutInv
<1>7. CASE CutChunk
  <2> DEFINE n == Tokens(at)
             ch == [rec |-> at, from |-> start,
                    to |-> IF start + ContentWindow >= n THEN n ELSE start + ContentWindow]
  <2>1. /\ UNCHANGED <<loading, stage>> /\ stage = "chunk" /\ at \in Records /\ Wanted(at)
        /\ stride < ContentWindow /\ chunks' = Append(chunks, ch)
    BY <1>7 DEF CutChunk, Tokens
  <2>2. /\ at \in Nat \ {0} /\ start \in Nat /\ stride \in Nat /\ n \in Nat /\ ContentWindow \in Nat
        /\ chunks \in Seq(Chunk)
    BY <2>1, RecordFacts, EvaluationAssumption DEF EvalShape
  <2>3. Started(chunks, at, n, stride, start)
    BY <2>1 DEF CutInv
  <2>4. ch \in Chunk /\ ch.rec = at
    BY <2>2 DEF Chunk
  <2>5. /\ \A k \in DOMAIN chunks' : Wanted(chunks'[k].rec) /\ chunks'[k].rec <= at
        /\ \A i : i # at => CutsOf(chunks', i) = CutsOf(chunks, i)
    <3>1. \A k \in DOMAIN chunks : Wanted(chunks[k].rec) /\ chunks[k].rec <= at
      BY <2>1 DEF CutInv
    <3> QED
      BY <3>1, <2>1, <2>2, <2>4, CutsAppend
  <2>6. \A i \in Records : i < at /\ Wanted(i) => Whole(chunks', i, Tokens(i), stride)
    <3> SUFFICES ASSUME NEW i \in Records, i < at, Wanted(i)
                 PROVE  Whole(chunks', i, Tokens(i), stride)
      OBVIOUS
    <3>1. Whole(chunks, i, Tokens(i), stride) /\ i \in Nat /\ Tokens(i) \in Nat /\ i # at
      BY <2>1, <2>2, RecordFacts DEF CutInv
    <3> QED
      BY <3>1, <2>1, <2>2, <2>4, WholeKept
  <2> HIDE DEF n
  <2>7. CASE start + ContentWindow >= n
    <3>1. ch = [rec |-> at, from |-> start, to |-> n] /\ at' = at + 1 /\ start' = 0
      BY <2>7, <1>7 DEF CutChunk, ReachesEnd, Tokens, n
    <3>2. Whole(chunks', at, n, stride)
      BY <3>1, <2>1, <2>2, <2>3, <2>7, WholeAtLast
    <3>3. CutsOf(chunks', at + 1) = {}
      BY <2>1, <2>2, <2>5, RecordFacts DEF CutInv, CutsOf, EvalShape
    <3>4. \A m, d : Started(chunks', at + 1, m, d, 0)
      BY <3>3 DEF Started
    <3>5. \A i \in Records : i < at + 1 => i < at \/ i = at
      BY <2>2, RecordFacts
    <3>6. \A i \in Records : i < at + 1 /\ Wanted(i) => Whole(chunks', i, Tokens(i), stride)
      BY <3>2, <3>5, <2>6 DEF n
    <3>7. \A k \in DOMAIN chunks' : chunks'[k].rec <= at + 1
      <4>1. \A k \in DOMAIN chunks' : chunks'[k] \in Chunk
        BY <2>1, <2>2, <2>4, CutsAppend
      <4> QED
        BY <4>1, <2>2, <2>5 DEF Chunk
    <3> QED
      BY <2>1, <2>5, <3>1, <3>4, <3>6, <3>7, RecordsKept DEF CutInv
  <2>8. CASE ~(start + ContentWindow >= n)
    <3>1. /\ ch = [rec |-> at, from |-> start, to |-> start + ContentWindow] /\ at' = at
          /\ start' = start + (ContentWindow - stride)
      BY <2>8, <1>7 DEF CutChunk, ReachesEnd, Step, Tokens, n
    <3>2. Started(chunks', at, n, stride, start')
      <4>1. start + ContentWindow < n
        BY <2>8, <2>2
      <4> QED
        BY <3>1, <4>1, <2>1, <2>2, <2>3, StartedNext
    <3> QED
      BY <2>1, <2>5, <2>6, <3>1, <3>2, RecordsKept DEF CutInv, n
  <2> QED
    BY <2>7, <2>8
<1>8. CASE Chunked
  <2>1. /\ UNCHANGED <<loading, start, chunks>> /\ stage = "chunk" /\ at \notin Records
        /\ stage' \in {"weigh", "predict"}
    BY <1>8 DEF Chunked, cutting
  <2>2. \A i \in Records : i < at
    BY <2>1, RecordFacts
  <2> QED
    BY <2>1, <2>2, RecordsKept DEF CutInv
<1>9. CASE LoadRow \/ StrideRefused
  <2>1. \/ UNCHANGED <<loading, start, chunks>> /\ stage = "load" /\ stage' = stage
        \/ stage' = "failed" /\ UNCHANGED <<loading, chunks>>
    BY <1>9 DEF LoadRow, StrideRefused, cutting
  <2> QED
    BY <2>1, <1>3, <1>4
<1>10. CASE Weigh \/ Predict \/ ExpandRecord \/ Expanded \/ FillRecord \/ Filled \/ BeginGroup
           \/ DecideWindow \/ EndGroup \/ WriteReport
  <2>1. UNCHANGED <<loading, start, chunks>> /\ stage \in Past /\ stage' \in Past \cup {"failed"}
    BY <1>10 DEF Weigh, Predict, ExpandRecord, Expanded, FillRecord, Filled, BeginGroup,
              DecideWindow, EndGroup, WriteReport, cutting
  <2> QED
    BY <2>1, <1>2
<1>11. CASE UNCHANGED evalVars
  BY <1>11, <1>1 DEF evalVars, cutting
<1> QED
  BY <1>5, <1>6, <1>7, <1>8, <1>9, <1>10, <1>11 DEF EvalNext

LEMMA EvalInvariant == EvalSpec => [](EvalShape /\ CutInv)
<1>1. EvalShape /\ CutInv /\ [EvalNext]_evalVars => (EvalShape /\ CutInv)'
  BY ShapeStep, CutStep
<1> QED
  BY <1>1, EvalInitShape, PTL DEF EvalSpec

\* The state of an evaluation has its type.
THEOREM EvaluationTypeOK == EvalSpec => []EvalTypeOK
<1>1. EvalShape => EvalTypeOK
  BY DEF EvalShape, EvalTypeOK, Stages, Chunk
<1> QED
  BY <1>1, EvalInvariant, PTL

\* For texts, window and stride of any size, the chunks of a text cover it, overlap by exactly the
\* stride and end with the text (chunk_token_ids).
THEOREM ChunksExactHolds == EvalSpec => []ChunksExact
<1>1. CutInv => ChunksExact
  <2> SUFFICES ASSUME CutInv, NEW i \in Records, Wanted(i), CutOff(i)
               PROVE  Whole(chunks, i, Tokens(i), stride)
    BY DEF ChunksExact, Whole, Cuts, CutsOf, Tokens
  <2> QED
    BY DEF CutInv, CutOff
<1> QED
  BY <1>1, EvalInvariant, PTL

-----------------------------------------------------------------------------
(* The rolling window of the report is the deque of the policy. *)

LEMMA LatestRemembers ==
    ASSUME NEW Values, NEW all \in Seq(Values), NEW s \in Values
    PROVE  Latest(Append(all, s)) = Remember(Latest(all), s)
<1> DEFINE new == Append(all, s)
           n == Len(all)
<1>0. History \in Nat \ {0} /\ n \in Nat
  BY PolicyAssumption, LenProperties
<1>1. /\ new \in Seq(Values) /\ Len(new) = n + 1 /\ new[n + 1] = s
      /\ \A k \in 1..n : new[k] = all[k] /\ all[k] \in Values
  BY AppendProperties, ElementOfSeq
<1>2. CASE n < History
  <2>1. Latest(new) = new /\ Latest(all) = all
    BY <1>0, <1>1, <1>2 DEF Latest
  <2> QED
    BY <2>1, <1>2 DEF Remember
<1>3. CASE n = History
  <2>1. Latest(all) = all /\ Latest(new) = SubSeq(new, 2, n + 1)
    BY <1>0, <1>1, <1>3 DEF Latest
  <2>2. Remember(all, s) = Append(Tail(all), s)
    BY <1>0, <1>3 DEF Remember
  <2>3. SubSeq(new, 2, n + 1) = Append(Tail(all), s)
    <3>1. all # <<>>
      BY <1>0, <1>3
    <3> QED
      BY <1>0, <1>1, <1>3, <3>1
  <2> QED
    BY <2>1, <2>2, <2>3
<1>4. CASE n > History
  <2> HIDE DEF new
  <2>1. /\ Latest(all) = SubSeq(all, n - History + 1, n)
        /\ Latest(new) = SubSeq(new, n + 1 - History + 1, n + 1)
    BY <1>0, <1>1, <1>4 DEF Latest
  <2> DEFINE old == SubSeq(all, n - History + 1, n)
             now == SubSeq(new, n + 1 - History + 1, n + 1)
  <2>2. /\ old \in Seq(Values) /\ Len(old) = History
        /\ \A k \in 1..History : old[k] = all[n - History + k]
    BY <1>0, <1>1, <1>4, SubSeqProperties
  <2>3. /\ now \in Seq(Values) /\ Len(now) = History
        /\ \A k \in 1..History : now[k] = new[n + 1 - History + k]
    <3>1. \A k \in (n + 1 - History + 1)..(n + 1) : k \in 1..n \/ k = n + 1
      BY <1>0, <1>4
    <3>2. \A k \in (n + 1 - History + 1)..(n + 1) : new[k] \in Values
      BY <1>1, <3>1
    <3> QED
      BY <1>0, <1>4, <3>2, SubSeqProperties
  <2> HIDE DEF old, now
  <2>4. /\ Tail(old) \in Seq(Values) /\ Len(Tail(old)) = History - 1
        /\ \A k \in 1..(History - 1) : Tail(old)[k] = old[k + 1]
    BY <1>0, <2>2, HeadTailProperties
  <2> DEFINE kept == Append(Tail(old), s)
  <2>5. /\ kept \in Seq(Values) /\ Len(kept) = History /\ kept[History] = s
        /\ \A k \in 1..(History - 1) : kept[k] = old[k + 1]
    BY <1>0, <2>4, AppendProperties
  <2> HIDE DEF kept
  <2>6. \A k \in 1..History : now[k] = kept[k]
    <3> SUFFICES ASSUME NEW k \in 1..History PROVE now[k] = kept[k]
      OBVIOUS
    <3>1. CASE k = History
      BY <3>1, <1>0, <1>1, <2>3, <2>5
    <3>2. CASE k \in 1..(History - 1)
      <4>1. now[k] = new[n + 1 - History + k] /\ n + 1 - History + k \in 1..n
        BY <3>2, <1>0, <1>4, <2>3
      <4>2. kept[k] = all[n - History + (k + 1)] /\ k + 1 \in 1..History
        BY <3>2, <1>0, <2>2, <2>5
      <4>3. n - History + (k + 1) = n + 1 - History + k
        BY <1>0
      <4> QED
        BY <4>1, <4>2, <4>3, <1>1
    <3> QED
      BY <1>0, <3>1, <3>2
  <2>7. now = kept
    BY <2>3, <2>5, <2>6, SeqEqual
  <2>8. Remember(old, s) = kept
    BY <1>0, <2>2 DEF Remember, kept
  <2> QED
    BY <2>1, <2>7, <2>8 DEF old, now, new
<1> QED
  BY <1>0, <1>2, <1>3, <1>4

-----------------------------------------------------------------------------
(* Scores and predictions. *)

Shown  == {"group", "windows", "done"}
Scored == Scores \cup {NoWindowScore}

\* No other record of the report has the name of this one.
Unshared(i) == \A j \in Reported : Name(j) = Name(i) => j = i

\* The text of this record was cut, as its own or as that of an earlier record.
Served(i) ==
    Row(i).empty \/ \E k \in DOMAIN chunks : /\ Unit(chunks[k].rec) = Unit(i)
                                             /\ i \in Reported => chunks[k].rec \in Reported

\* p holds the predictions of these records and of no other.
Predicts(p, those) ==
    /\ DOMAIN p = {Name(j) : j \in those}
    /\ \A i \in those : p[Name(i)] \in Scored /\ (Unshared(i) => p[Name(i)] = OwnScore(i))

Expanding(n) == {i \in Reported : ~Row(i).empty /\ i < n}
Filling(n)   == {i \in Reported : ~Row(i).empty \/ i < n}

ScoreInv ==
    /\ stage = "chunk" => \A i \in Records : i < at => Served(i)
    /\ stage \notin {"load", "chunk", "failed"} => \A i \in Records : Served(i)
    /\ stage \in {"expand", "fill"} \cup Shown =>
         \A i \in Reported : Row(i).empty \/ (Unit(i) \in DOMAIN scoreOf /\ scoreOf[Unit(i)] \in Scores)
    /\ stage \in {"load", "chunk", "weigh", "predict"} => predicted = <<>>
    /\ stage = "expand" => Predicts(predicted, Expanding(at))
    /\ stage = "fill" => Predicts(predicted, Filling(at))
    /\ stage \in Shown => Predicts(predicted, Reported)

LEMMA ScoresKept ==
    ASSUME UNCHANGED <<loading, scoreOf>>
    PROVE  /\ \A i : Unshared(i)' = Unshared(i) /\ OwnScore(i)' = OwnScore(i)
           /\ \A p, those : Predicts(p, those) => Predicts(p, those)'
           /\ \A n : Expanding(n)' = Expanding(n) /\ Filling(n)' = Filling(n)
<1>0. UNCHANGED loading
  OBVIOUS
<1>1. \A i : Unshared(i)' = Unshared(i)
  BY <1>0, RecordsKept DEF Unshared
<1>2. \A i : OwnScore(i)' = OwnScore(i)
  BY <1>0, RecordsKept DEF OwnScore
<1>3. \A n : Expanding(n)' = Expanding(n) /\ Filling(n)' = Filling(n)
  BY <1>0, RecordsKept DEF Expanding, Filling
<1>4. \A p, those : Predicts(p, those) => Predicts(p, those)'
  BY <1>0, <1>1, <1>2, RecordsKept DEF Predicts
<1> QED
  BY <1>1, <1>2, <1>3, <1>4

LEMMA ServedKept ==
    ASSUME UNCHANGED loading, chunks' = chunks
    PROVE  \A i : Served(i)' = Served(i)
BY RecordsKept DEF Served

\* A new prediction: it stands for its record, and for one of the others only if they share a name.
LEMMA PredictsOneMore ==
    ASSUME NEW p, NEW those, those \subseteq Reported, NEW i \in Reported, NEW v \in Scored,
           Predicts(p, those), Unshared(i) => v = OwnScore(i)
    PROVE  Predicts(Put(p, Name(i), v), those \cup {i})
<1> DEFINE q == Put(p, Name(i), v)
<1>1. /\ DOMAIN q = DOMAIN p \cup {Name(i)} /\ q[Name(i)] = v
      /\ \A n \in DOMAIN p : n # Name(i) => q[n] = p[n]
  BY DEF Put
<1> HIDE DEF q
<1>2. DOMAIN q = {Name(j) : j \in those \cup {i}}
  BY <1>1 DEF Predicts
<1>3. ASSUME NEW j \in those \cup {i}
      PROVE  q[Name(j)] \in Scored /\ (Unshared(j) => q[Name(j)] = OwnScore(j))
  <2>1. CASE Name(j) = Name(i)
    <3>1. q[Name(j)] = v
      BY <2>1, <1>1
    <3>2. Unshared(j) => i = j
      BY <2>1 DEF Unshared
    <3> QED
      BY <3>1, <3>2
  <2>2. CASE Name(j) # Name(i)
    <3>1. j \in those /\ Name(j) \in DOMAIN p
      BY <1>3, <2>2 DEF Predicts
    <3>2. q[Name(j)] = p[Name(j)]
      BY <1>1, <2>2, <3>1
    <3> QED
      BY <3>1, <3>2 DEF Predicts
  <2> QED
    BY <2>1, <2>2
<1> QED
  BY <1>2, <1>3 DEF Predicts, q

LEMMA ScoreInit == EvalInit => ScoreInv
BY DEF EvalInit, ScoreInv, Shown

LEMMA ScoreStep ==
    ASSUME EvalShape, EvalShape', CutInv, ScoreInv, [EvalNext]_evalVars
    PROVE  ScoreInv'
<1> DEFINE Early == {"load", "chunk", "weigh", "predict"}
<1>0. UNCHANGED loading
  BY DEF EvalNext, evalVars, LoadRow, Loaded, SkipRecord, StrideRefused, CutChunk, Chunked, Weigh,
         Predict, ExpandRecord, Expanded, FillRecord, Filled, BeginGroup, DecideWindow, EndGroup,
         WriteReport
<1>1. CASE UNCHANGED <<stage, at, chunks, scoreOf, predicted>>
  <2>1. UNCHANGED <<loading, scoreOf>>
    BY <1>0, <1>1
  <2> QED
    BY <1>0, <1>1, <2>1, RecordsKept, ServedKept, ScoresKept DEF ScoreInv
<1>2. CASE LoadRow
  <2>1. stage' \in {"load", "failed"} /\ predicted' = predicted /\ predicted = <<>>
    BY <1>2 DEF LoadRow, ScoreInv
  <2> QED
    BY <2>1 DEF ScoreInv, Shown
<1>3. CASE Loaded
  <2>1. stage' = "chunk" /\ predicted' = <<>> /\ at' = 1
    BY <1>3 DEF Loaded, ScoreInv
  <2>2. \A i \in Records' : ~(i < 1)
    BY <1>0, RecordFacts, RecordsKept
  <2> QED
    BY <2>1, <2>2 DEF ScoreInv, Shown
<1>4. CASE SkipRecord
  <2>1. /\ stage = "chunk" /\ stage' = stage /\ at' = at + 1 /\ chunks' = chunks
        /\ at \in Records /\ ~Wanted(at) /\ predicted' = predicted
    BY <1>4 DEF SkipRecord, cutting
  <2>2. Served(at)
    <3>1. CASE Row(at).empty
      BY <3>1 DEF Served
    <3>2. CASE ~Row(at).empty
      <4>1. /\ purpose = "evaluate"
            /\ \E j \in 1..(at - 1) : ~Row(j).empty /\ Text(j) = Text(at)
        BY <2>1, <3>2 DEF Wanted
      <4>2. PICK j \in 1..(at - 1) : ~Row(j).empty /\ Text(j) = Text(at)
        BY <4>1
      <4>3. j \in Records /\ j < at
        BY <2>1, <4>2, RecordFacts
      <4>4. Served(j)
        BY <2>1, <4>3 DEF ScoreInv
      <4>5. Unit(j) = Unit(at) /\ Reported = Records
        BY <4>1, <4>2 DEF Unit, Reported
      <4> QED
        BY <2>1, <4>2, <4>3, <4>4, <4>5 DEF Served
    <3> QED
      BY <3>1, <3>2
  <2>3. \A i \in Records : i < at + 1 => Served(i)
    <3>1. \A i \in Records : i < at + 1 => i < at \/ i = at
      BY <2>1, RecordFacts
    <3> QED
      BY <2>1, <2>2, <3>1 DEF ScoreInv
  <2> QED
    BY <1>0, <2>1, <2>3, ServedKept, RecordsKept DEF ScoreInv, Shown
<1>5. CASE CutChunk
  <2>1. /\ stage = "chunk" /\ stage' = stage /\ at' \in {at, at + 1} /\ at \in Records
        /\ Wanted(at) /\ predicted' = predicted
    BY <1>5 DEF CutChunk
  <2>2. PICK ch : chunks' = Append(chunks, ch) /\ ch.rec = at
    BY <1>5 DEF CutChunk
  <2>3. /\ \A k \in DOMAIN chunks : k \in DOMAIN chunks' /\ chunks'[k] = chunks[k]
        /\ Len(chunks) + 1 \in DOMAIN chunks' /\ chunks'[Len(chunks) + 1].rec = at
    BY <2>2 DEF EvalShape
  <2>4. \A i \in Records : i < at' => Served(i)'
    <3> SUFFICES ASSUME NEW i \in Records, i < at' PROVE Served(i)'
      OBVIOUS
    <3>1. i < at \/ i = at
      BY <2>1, RecordFacts
    <3>2. CASE i = at
      BY <3>2, <2>3, <1>0, RecordsKept DEF Served
    <3>3. CASE i < at
      <4>1. Served(i)
        BY <2>1, <3>3 DEF ScoreInv
      <4>2. CASE Row(i).empty
        BY <4>2, <1>0, RecordsKept DEF Served
      <4>3. CASE ~Row(i).empty
        <5>1. PICK k \in DOMAIN chunks : /\ Unit(chunks[k].rec) = Unit(i)
                                         /\ i \in Reported => chunks[k].rec \in Reported
          BY <4>1, <4>3 DEF Served
        <5>2. k \in DOMAIN chunks' /\ chunks'[k].rec = chunks[k].rec
          BY <5>1, <2>3
        <5> QED
          BY <5>1, <5>2, <1>0, RecordsKept DEF Served
      <4> QED
        BY <4>2, <4>3
    <3> QED
      BY <3>1, <3>2, <3>3
  <2> QED
    BY <1>0, <2>1, <2>4, RecordsKept DEF ScoreInv, Shown
<1>6. CASE StrideRefused
  BY <1>6 DEF StrideRefused, ScoreInv, Shown
<1>7. CASE Chunked
  <2>1. /\ stage = "chunk" /\ stage' \in {"weigh", "predict"} /\ at \notin Records
        /\ chunks' = chunks /\ predicted' = predicted
    BY <1>7 DEF Chunked, cutting
  <2>2. \A i \in Records : Served(i)
    BY <2>1, RecordFacts DEF ScoreInv
  <2> QED
    BY <1>0, <2>1, <2>2, ServedKept, RecordsKept DEF ScoreInv, Shown
<1>8. CASE Weigh
  <2>1. stage = "weigh" /\ stage' \in {"predict", "failed"} /\ chunks' = chunks /\ predicted' = predicted
    BY <1>8 DEF Weigh, cutting
  <2> QED
    BY <1>0, <2>1, ServedKept, RecordsKept DEF ScoreInv, Shown
<1>9. CASE Predict
  <2> DEFINE Units == {Unit(chunks[k].rec) : k \in {l \in DOMAIN chunks : chunks[l].rec \in Reported}}
  <2>1. /\ stage = "predict" /\ stage' = "expand" /\ at' = 1 /\ chunks' = chunks
        /\ predicted' = predicted /\ scoreOf' \in [Units -> Scores]
    BY <1>9 DEF Predict, cutting
  <2>2. \A i \in Reported : Row(i).empty \/ (Unit(i) \in DOMAIN scoreOf' /\ scoreOf'[Unit(i)] \in Scores)
    <3> SUFFICES ASSUME NEW i \in Reported, ~Row(i).empty
                 PROVE  Unit(i) \in DOMAIN scoreOf' /\ scoreOf'[Unit(i)] \in Scores
      OBVIOUS
    <3>1. i \in Records /\ Served(i)
      BY <2>1 DEF ScoreInv, Reported
    <3>2. Unit(i) \in Units
      BY <3>1 DEF Served
    <3> QED
      BY <2>1, <3>2
  <2>3. predicted' = <<>> /\ Expanding(1) = {}
    <3>1. \A i \in Reported : ~(i < 1)
      BY RecordFacts DEF Reported
    <3> QED
      BY <2>1, <3>1 DEF ScoreInv, Expanding
  <2>4. Predicts(predicted, Expanding(at))'
    <3>1. Expanding(at)' = {}
      BY <1>0, <2>1, <2>3, RecordsKept DEF Expanding
    <3> QED
      BY <2>3, <3>1 DEF Predicts
  <2> QED
    BY <1>0, <2>1, <2>2, <2>4, ServedKept, RecordsKept DEF ScoreInv, Shown
<1>10. CASE ExpandRecord
  <2>1. /\ stage = "expand" /\ stage' = stage /\ at' = at + 1 /\ chunks' = chunks /\ at \in Records
        /\ UNCHANGED <<loading, scoreOf>> /\ Predicts(predicted, Expanding(at))
    BY <1>10 DEF ExpandRecord, cutting, ScoreInv
  <2>2. Predicts(predicted', Expanding(at + 1))
    <3>1. \A i \in Reported : i \in Nat
      BY RecordFacts DEF Reported
    <3>2. CASE at \in Reported /\ ~Row(at).empty
      <4>1. Expanding(at + 1) = Expanding(at) \cup {at}
        BY <2>1, <3>1, <3>2, RecordFacts DEF Expanding
      <4>2. /\ predicted' = Put(predicted, Name(at), scoreOf[Unit(at)])
            /\ scoreOf[Unit(at)] \in Scored /\ scoreOf[Unit(at)] = OwnScore(at)
        BY <1>10, <2>1, <3>2, PolicyAssumption DEF ExpandRecord, ScoreInv, OwnScore, Scored
      <4>3. Expanding(at) \subseteq Reported
        BY DEF Expanding
      <4> QED
        BY <2>1, <3>2, <4>1, <4>2, <4>3, PredictsOneMore
    <3>3. CASE ~(at \in Reported /\ ~Row(at).empty)
      <4>1. Expanding(at + 1) = Expanding(at)
        BY <2>1, <3>1, <3>3, RecordFacts DEF Expanding
      <4> QED
        BY <1>10, <2>1, <3>3, <4>1 DEF ExpandRecord
    <3> QED
      BY <3>2, <3>3
  <2>3. Predicts(predicted, Expanding(at))'
    BY <2>1, <2>2, ScoresKept
  <2> QED
    BY <1>0, <2>1, <2>3, ServedKept, RecordsKept DEF ScoreInv, Shown
<1>11. CASE Expanded
  <2>1. /\ stage = "expand" /\ stage' = "fill" /\ at' = 1 /\ chunks' = chunks /\ at \notin Records
        /\ UNCHANGED <<loading, scoreOf, predicted>> /\ Predicts(predicted, Expanding(at))
    BY <1>11 DEF Expanded, cutting, ScoreInv
  <2>2. Expanding(at) = Filling(1)
    <3>1. \A i \in Reported : i < at /\ ~(i < 1)
      BY <2>1, RecordFacts DEF Reported
    <3> QED
      BY <3>1 DEF Expanding, Filling
  <2>3. Predicts(predicted, Filling(at))'
    BY <2>1, <2>2, ScoresKept
  <2> QED
    BY <1>0, <2>1, <2>3, ServedKept, RecordsKept DEF ScoreInv, Shown
<1>12. CASE FillRecord
  <2>1. /\ stage = "fill" /\ stage' = stage /\ at' = at + 1 /\ chunks' = chunks /\ at \in Records
        /\ UNCHANGED <<loading, scoreOf>> /\ Predicts(predicted, Filling(at))
    BY <1>12 DEF FillRecord, cutting, ScoreInv
  <2>2. Predicts(predicted', Filling(at + 1))
    <3>1. \A i \in Reported : i \in Nat
      BY RecordFacts DEF Reported
    <3>2. CASE LacksPrediction(at)
      <4>1. Filling(at + 1) = Filling(at) \cup {at} /\ at \in Reported
        BY <2>1, <3>1, <3>2, RecordFacts DEF Filling, LacksPrediction
      <4>2. /\ predicted' = Put(predicted, Name(at), NoWindowScore)
            /\ NoWindowScore \in Scored /\ NoWindowScore = OwnScore(at)
        BY <1>12, <3>2 DEF FillRecord, OwnScore, Scored, LacksPrediction, NoWindowScore
      <4>3. Filling(at) \subseteq Reported
        BY DEF Filling
      <4> QED
        BY <2>1, <4>1, <4>2, <4>3, PredictsOneMore
    <3>3. CASE ~LacksPrediction(at)
      <4>1. predicted' = predicted
        BY <1>12, <3>3 DEF FillRecord
      <4>2. CASE at \notin Reported \/ ~Row(at).empty
        <5>1. Filling(at + 1) = Filling(at)
          BY <2>1, <3>1, <4>2, RecordFacts DEF Filling
        <5> QED
          BY <2>1, <4>1, <5>1
      <4>3. CASE at \in Reported /\ Row(at).empty
        <5>1. Filling(at + 1) = Filling(at) \cup {at}
          BY <2>1, <3>1, <4>3, RecordFacts DEF Filling
        <5>2. Name(at) \in DOMAIN predicted
          BY <3>3, <4>3 DEF LacksPrediction
        <5>3. PICK j \in Filling(at) : Name(j) = Name(at)
          BY <2>1, <5>2 DEF Predicts
        <5>4. j \in Reported /\ j # at
          BY <4>3, <5>3, <3>1 DEF Filling
        <5>5. ~Unshared(at) /\ predicted[Name(at)] \in Scored
          BY <2>1, <5>3, <5>4 DEF Unshared, Predicts
        <5>6. {Name(i) : i \in Filling(at) \cup {at}} = {Name(i) : i \in Filling(at)}
          BY <5>3
        <5> QED
          BY <2>1, <4>1, <5>1, <5>5, <5>6 DEF Predicts
      <4> QED
        BY <4>2, <4>3
    <3> QED
      BY <3>2, <3>3
  <2>3. Predicts(predicted, Filling(at))'
    BY <2>1, <2>2, ScoresKept
  <2> QED
    BY <1>0, <2>1, <2>3, ServedKept, RecordsKept DEF ScoreInv, Shown
<1>13. CASE Filled
  <2>1. /\ stage = "fill" /\ stage' = "group" /\ chunks' = chunks /\ at \notin Records
        /\ UNCHANGED <<loading, scoreOf, predicted>> /\ Predicts(predicted, Filling(at))
    BY <1>13 DEF Filled, cutting, ScoreInv
  <2>2. Filling(at) = Reported
    <3>1. \A i \in Reported : i < at
      BY <2>1, RecordFacts DEF Reported
    <3> QED
      BY <3>1 DEF Filling
  <2>3. Predicts(predicted, Reported)'
    BY <2>1, <2>2, ScoresKept, RecordsKept
  <2> QED
    BY <1>0, <2>1, <2>3, ServedKept, RecordsKept DEF ScoreInv, Shown
<1>14. CASE BeginGroup \/ DecideWindow \/ EndGroup \/ WriteReport
  <2>1. /\ stage \in Shown /\ stage' \in Shown /\ chunks' = chunks
        /\ UNCHANGED <<loading, scoreOf, predicted>> /\ Predicts(predicted, Reported)
    BY <1>14 DEF BeginGroup, DecideWindow, EndGroup, WriteReport, Shown, cutting, ScoreInv
  <2>2. Predicts(predicted, Reported)'
    BY <2>1, ScoresKept, RecordsKept
  <2> QED
    BY <1>0, <2>1, <2>2, ServedKept, RecordsKept DEF ScoreInv, Shown
<1>15. CASE UNCHANGED evalVars
  BY <1>15, <1>1 DEF evalVars, cutting
<1> QED
  BY <1>2, <1>3, <1>4, <1>5, <1>6, <1>7, <1>8, <1>9, <1>10, <1>11, <1>12, <1>13, <1>14, <1>15 DEF EvalNext

LEMMA ScoreInvariant == EvalSpec => [](EvalShape /\ CutInv /\ ScoreInv)
<1>1. EvalShape /\ EvalShape' /\ CutInv /\ ScoreInv /\ [EvalNext]_evalVars => ScoreInv'
  BY ScoreStep
<1> QED
  BY <1>1, ScoreInit, EvalInvariant, PTL DEF EvalSpec

-----------------------------------------------------------------------------
(* The report. *)

WindowRow == [rec : Nat, score : Scored, suspicious : BOOLEAN]
Groups == {Row(i).group : i \in Reported}

\* The records that have their row.
Decided(i) ==
    \/ Row(i).group \in DOMAIN report
    \/ stage = "windows" /\ Row(i).group = group /\ i \notin todo

\* rows, the row of each record once and in order, are those of the decided records.
RowsInv ==
    /\ windowRows \in Seq(WindowRow)
    /\ \A k \in DOMAIN windowRows : windowRows[k].rec \in Reported
    /\ \A k \in DOMAIN windowRows, i \in Reported : windowRows[k].rec = i =>
         Decided(i) /\ windowRows[k].score = predicted[Name(i)]
    /\ \A i \in Reported : Decided(i) => \E k \in DOMAIN windowRows : windowRows[k].rec = i
    /\ \A k, l \in DOMAIN windowRows, i, j \in Reported :
         k < l /\ windowRows[k].rec = i /\ windowRows[l].rec = j =>
           i # j /\ (Row(i).group = Row(j).group => Row(i).index <= Row(j).index)
    /\ stage = "windows" => \A k \in DOMAIN windowRows, i \in Reported, j \in todo :
         windowRows[k].rec = i /\ Row(i).group = group => Row(i).index <= Row(j).index

Alarm(g) == \E k \in DOMAIN windowRows : Row(windowRows[k].rec).group = g /\ windowRows[k].suspicious

GroupsInv ==
    /\ groups \cap DOMAIN report = {} /\ groups \cup DOMAIN report = Groups
    /\ stage = "windows" => group \in groups /\ \A i \in todo : Row(i).group = group
    /\ stage = "windows" => (triggered <=> Alarm(group))
    /\ \A g \in DOMAIN report : report[g] <=> Alarm(g)
    /\ stage = "done" => groups = {}

ReportInv ==
    /\ scores \in Seq(Scored)
    /\ stage \notin Shown => windowRows = <<>> /\ report = <<>>
    /\ stage \in Shown => RowsInv /\ GroupsInv

LEMMA ReportInit == EvalInit => ReportInv
<1> SUFFICES ASSUME EvalInit PROVE ReportInv
  OBVIOUS
<1>1. scores = <<>> /\ scores \in Seq(Scored) /\ windowRows = <<>> /\ report = <<>> /\ stage \notin Shown
  BY DEF EvalInit, Shown
<1> QED
  BY <1>1 DEF ReportInv

\* A row more: its record has none yet, and comes after those of its group.
LEMMA RowsAppend ==
    ASSUME NEW r \in WindowRow, windowRows \in Seq(WindowRow), windowRows' = Append(windowRows, r)
    PROVE  LET m == Len(windowRows) + 1 IN
           /\ windowRows' \in Seq(WindowRow) /\ DOMAIN windowRows = 1..Len(windowRows)
           /\ DOMAIN windowRows' = DOMAIN windowRows \cup {m} /\ m \notin DOMAIN windowRows
           /\ windowRows'[m] = r
           /\ \A k \in DOMAIN windowRows : /\ k \in Nat /\ k < m /\ windowRows'[k] = windowRows[k]
                                           /\ windowRows[k] \in WindowRow
<1>1. /\ windowRows' \in Seq(WindowRow) /\ Len(windowRows') = Len(windowRows) + 1
      /\ \A k \in 1..Len(windowRows) : windowRows'[k] = windowRows[k]
      /\ windowRows'[Len(windowRows) + 1] = r
  BY AppendProperties
<1>2. /\ Len(windowRows) \in Nat /\ DOMAIN windowRows = 1..Len(windowRows)
      /\ DOMAIN windowRows' = 1..Len(windowRows')
  BY <1>1, LenProperties
<1>3. \A k \in DOMAIN windowRows : windowRows[k] \in WindowRow
  BY <1>2, ElementOfSeq
<1> QED
  BY <1>1, <1>2, <1>3

LEMMA ReportStep ==
    ASSUME EvalShape, EvalShape', ScoreInv, ReportInv, [EvalNext]_evalVars
    PROVE  ReportInv'
<1>0. UNCHANGED loading
  BY DEF EvalNext, evalVars, LoadRow, Loaded, SkipRecord, StrideRefused, CutChunk, Chunked, Weigh,
         Predict, ExpandRecord, Expanded, FillRecord, Filled, BeginGroup, DecideWindow, EndGroup,
         WriteReport
<1>a. /\ Reported' = Reported /\ Groups' = Groups
      /\ \A i : Row(i)' = Row(i) /\ Name(i)' = Name(i)
  BY <1>0, RecordsKept DEF Groups
<1>b. \A i \in Reported : Row(i).index \in Nat /\ Row(i).group \in Nat /\ i \in Nat
  BY RecordFacts DEF Reported, RowType
<1>c. ASSUME UNCHANGED windowRows PROVE \A g : Alarm(g)' = Alarm(g)
  BY <1>c, <1>a DEF Alarm
<1>1. CASE UNCHANGED <<deciding, predicted, stage>>
  <2>1. \A i : Decided(i)' = Decided(i)
    BY <1>1, <1>a DEF Decided, deciding
  <2>2. RowsInv => RowsInv'
    BY <1>1, <1>a, <2>1 DEF RowsInv, deciding
  <2>3. GroupsInv => GroupsInv'
    BY <1>1, <1>a, <1>c DEF GroupsInv, deciding
  <2> QED
    BY <1>1, <2>2, <2>3 DEF ReportInv, deciding
<1>2. CASE stage \notin Shown /\ stage' \notin Shown /\ UNCHANGED deciding
  BY <1>2 DEF ReportInv, deciding
<1>3. CASE Filled
  <2>1. /\ stage = "fill" /\ stage' = "group" /\ UNCHANGED <<scores, windowRows, report>>
        /\ groups' = Groups /\ windowRows = <<>> /\ report = <<>> /\ scores \in Seq(Scored)
    BY <1>3 DEF Filled, Groups, ReportInv, Shown
  <2>2. DOMAIN windowRows' = {} /\ DOMAIN report' = {} /\ windowRows' \in Seq(WindowRow)
    BY <2>1
  <2>3. \A i : ~Decided(i)'
    BY <2>1, <2>2 DEF Decided
  <2>4. RowsInv'
    BY <2>1, <2>2, <2>3 DEF RowsInv
  <2>5. GroupsInv'
    BY <2>1, <2>2, <1>a DEF GroupsInv
  <2> QED
    BY <2>1, <2>4, <2>5 DEF ReportInv, Shown
<1>4. CASE BeginGroup
  <2>1. /\ stage = "group" /\ stage' = "windows" /\ UNCHANGED <<windowRows, report, groups, predicted>>
        /\ RowsInv /\ GroupsInv /\ scores' = <<>> /\ triggered' = FALSE
        /\ group' \in groups /\ todo' = {i \in Reported : Row(i).group = group'}
    BY <1>4 DEF BeginGroup, ReportInv, Shown
  <2>2. \A i \in Reported : Decided(i)' <=> Decided(i)
    BY <2>1, <1>a DEF Decided
  <2>3. \A k \in DOMAIN windowRows : Row(windowRows[k].rec).group # group'
    BY <2>1 DEF RowsInv, GroupsInv, Decided
  <2>4. RowsInv'
    BY <2>1, <2>2, <2>3, <1>a DEF RowsInv
  <2>5. GroupsInv'
    <3>1. ~Alarm(group)'
      BY <2>1, <2>3, <1>a DEF Alarm
    <3> QED
      BY <2>1, <3>1, <1>a, <1>c DEF GroupsInv
  <2>6. scores' \in Seq(Scored)
    BY <2>1
  <2> QED
    BY <2>1, <2>4, <2>5, <2>6 DEF ReportInv, Shown
<1>5. CASE DecideWindow
  <2>0. PICK i \in todo :
          /\ \A j \in todo \ {i} : Before(i, j)
          /\ scores' = Append(scores, predicted[Name(i)])
          /\ triggered' = (triggered \/ Suspicious(Latest(scores')))
          /\ windowRows' = Append(windowRows, [rec |-> i, score |-> predicted[Name(i)],
                                               suspicious |-> Suspicious(Latest(scores'))])
          /\ todo' = todo \ {i}
    BY <1>5 DEF DecideWindow
  <2> DEFINE r == [rec |-> i, score |-> predicted[Name(i)], suspicious |-> Suspicious(Latest(scores'))]
             m == Len(windowRows) + 1
  <2>1. /\ stage = "windows" /\ stage' = stage /\ UNCHANGED <<report, groups, group, predicted>>
        /\ RowsInv /\ GroupsInv /\ scores \in Seq(Scored)
    BY <1>5 DEF DecideWindow, ReportInv, Shown
  <2>2. /\ i \in Reported /\ i \in Nat /\ Row(i).group = group /\ ~Decided(i)
        /\ group \notin DOMAIN report /\ predicted[Name(i)] \in Scored
    <3>1. i \in Reported /\ Row(i).group = group /\ group \notin DOMAIN report
      BY <2>0, <2>1 DEF EvalShape, GroupsInv
    <3>2. predicted[Name(i)] \in Scored
      BY <2>1, <3>1 DEF ScoreInv, Shown, Predicts
    <3> QED
      BY <2>0, <2>1, <3>1, <3>2, <1>b DEF Decided
  <2>3. r \in WindowRow /\ r.rec = i /\ r.score = predicted[Name(i)]
        /\ r.suspicious = Suspicious(Latest(scores'))
    BY <2>2 DEF WindowRow, Suspicious
  <2>4. windowRows' = Append(windowRows, r) /\ windowRows \in Seq(WindowRow)
    BY <2>0, <2>1 DEF RowsInv
  <2> HIDE DEF r
  <2>5. /\ windowRows' \in Seq(WindowRow) /\ m \notin DOMAIN windowRows
        /\ DOMAIN windowRows' = DOMAIN windowRows \cup {m} /\ windowRows'[m] = r
        /\ \A k \in DOMAIN windowRows : k \in Nat /\ k < m /\ windowRows'[k] = windowRows[k]
    BY <2>3, <2>4, RowsAppend
  <2> HIDE DEF m
  <2>6. \A j \in Reported : Decided(j)' <=> (Decided(j) \/ j = i)
    BY <2>0, <2>1, <2>2, <1>a DEF Decided
  <2>7. \A k \in DOMAIN windowRows, h \in Reported : windowRows[k].rec = h =>
          h # i /\ (Row(h).group = group => Row(h).index <= Row(i).index)
    BY <2>0, <2>1, <2>2 DEF RowsInv
  <2>8. \A j \in todo' : j \in Reported /\ Row(i).index <= Row(j).index
    <3>1. \A j \in todo' : j \in Reported /\ Before(i, j)
      BY <2>0 DEF EvalShape
    <3>2. \A j \in todo' : Row(i).index < Row(j).index \/ Row(i).index = Row(j).index
      BY <3>1 DEF Before
    <3>3. Row(i).index \in Nat /\ \A j \in todo' : Row(j).index \in Nat
      BY <3>1, <2>2, <1>b
    <3> QED
      BY <3>1, <3>2, <3>3
  <2>9. RowsInv'
    <3>0. \A k \in DOMAIN windowRows' : \/ k = m /\ windowRows'[k].rec = i
                                        \/ k \in DOMAIN windowRows /\ windowRows'[k] = windowRows[k]
      BY <2>3, <2>5
    <3>1. \A k \in DOMAIN windowRows' : windowRows'[k].rec \in Reported
      BY <2>1, <2>2, <3>0 DEF RowsInv
    <3>2. ASSUME NEW k \in DOMAIN windowRows', NEW h \in Reported, windowRows'[k].rec = h
          PROVE  Decided(h)' /\ windowRows'[k].score = predicted'[Name(h)]
      <4>1. CASE k = m
        BY <2>1, <2>3, <2>5, <2>6, <3>2, <4>1
      <4>2. CASE k \in DOMAIN windowRows /\ windowRows'[k] = windowRows[k]
        BY <2>1, <2>6, <3>2, <4>2 DEF RowsInv
      <4> QED
        BY <3>0, <4>1, <4>2
    <3>3. \A j \in Reported : Decided(j)' => \E k \in DOMAIN windowRows' : windowRows'[k].rec = j
      BY <2>1, <2>3, <2>5, <2>6 DEF RowsInv
    <3>4. ASSUME NEW k \in DOMAIN windowRows', NEW l \in DOMAIN windowRows', k < l,
                 NEW h \in Reported, NEW j \in Reported,
                 windowRows'[k].rec = h, windowRows'[l].rec = j
          PROVE  h # j /\ (Row(h).group = Row(j).group => Row(h).index <= Row(j).index)
      <4>1. CASE l = m
        <5>1. k \in DOMAIN windowRows /\ windowRows'[k] = windowRows[k] /\ j = i
          BY <2>3, <2>5, <3>4, <4>1 DEF m
        <5> QED
          BY <5>1, <2>2, <2>7, <3>4
      <4>2. CASE l # m
        <5>1. l \in DOMAIN windowRows /\ l < m
          BY <2>5, <4>2
        <5>2. m \in Nat /\ l \in Nat /\ k # m
          <6>1. windowRows \in Seq(WindowRow)
            BY <2>1 DEF RowsInv
          <6>2. Len(windowRows) \in Nat /\ DOMAIN windowRows = 1..Len(windowRows)
            BY <6>1, LenProperties
          <6>3. m \in Nat /\ l \in Nat
            BY <5>1, <6>2 DEF m
          <6> QED
            BY <6>3, <5>1, <3>4
        <5>3. k \in DOMAIN windowRows
          BY <5>2, <2>5, <3>4
        <5> QED
          BY <5>1, <5>3, <2>1, <2>5, <3>4 DEF RowsInv
      <4> QED
        BY <4>1, <4>2
    <3>5. ASSUME NEW k \in DOMAIN windowRows', NEW h \in Reported, NEW j \in todo',
                 windowRows'[k].rec = h, Row(h).group = group
          PROVE  Row(h).index <= Row(j).index
      <4>1. CASE k = m
        BY <2>3, <2>5, <2>8, <3>5, <4>1
      <4>2. CASE k # m
        <5>1. k \in DOMAIN windowRows /\ windowRows'[k] = windowRows[k] /\ j \in todo
          BY <2>0, <2>5, <4>2
        <5> QED
          BY <5>1, <2>1, <3>5 DEF RowsInv
      <4> QED
        BY <4>1, <4>2
    <3>6. group' = group
      BY <2>1
    <3> QED
      BY <2>5, <3>1, <3>2, <3>3, <3>4, <3>5, <3>6, <1>a DEF RowsInv
  <2>10. \A g : Alarm(g)' <=> (Alarm(g) \/ (g = group /\ r.suspicious))
    BY <2>2, <2>3, <2>5, <1>a DEF Alarm
  <2>11. GroupsInv'
    <3>1. \A g \in DOMAIN report : Alarm(g)' <=> Alarm(g)
      BY <2>2, <2>10
    <3>2. triggered' <=> Alarm(group)'
      BY <2>0, <2>1, <2>3, <2>10 DEF GroupsInv
    <3> QED
      BY <2>0, <2>1, <3>1, <3>2, <1>a DEF GroupsInv
  <2>12. scores' \in Seq(Scored)
    BY <2>0, <2>1, <2>2, AppendProperties
  <2> QED
    BY <2>1, <2>9, <2>11, <2>12 DEF ReportInv, Shown
<1>6. CASE EndGroup
  <2>1. /\ stage = "windows" /\ stage' = "group" /\ todo = {}
        /\ UNCHANGED <<windowRows, predicted, scores>>
        /\ RowsInv /\ GroupsInv /\ scores \in Seq(Scored)
        /\ report' = Put(report, group, triggered) /\ groups' = groups \ {group}
    BY <1>6 DEF EndGroup, ReportInv, Shown
  <2>2. /\ DOMAIN report' = DOMAIN report \cup {group} /\ report'[group] = triggered
        /\ group \notin DOMAIN report /\ group \in groups
        /\ \A g \in DOMAIN report : report'[g] = report[g]
    BY <2>1 DEF Put, GroupsInv
  <2>3. \A i : Decided(i)' <=> Decided(i)
    BY <2>1, <2>2, <1>a DEF Decided
  <2>4. RowsInv'
    BY <2>1, <2>3, <1>a DEF RowsInv
  <2>5. GroupsInv'
    <3>1. \A g \in DOMAIN report' : report'[g] <=> Alarm(g)
      BY <2>1, <2>2 DEF GroupsInv
    <3> QED
      BY <2>1, <2>2, <3>1, <1>a, <1>c DEF GroupsInv
  <2> QED
    BY <2>1, <2>4, <2>5 DEF ReportInv, Shown
<1>7. CASE WriteReport
  <2>1. /\ stage = "group" /\ stage' = "done" /\ groups = {}
        /\ UNCHANGED <<windowRows, report, groups, group, todo, scores, triggered, predicted>>
        /\ RowsInv /\ GroupsInv /\ scores \in Seq(Scored)
    BY <1>7 DEF WriteReport, ReportInv, Shown, deciding
  <2>2. \A i : Decided(i)' <=> Decided(i)
    BY <2>1, <1>a DEF Decided
  <2>3. RowsInv'
    BY <2>1, <2>2, <1>a DEF RowsInv
  <2>4. GroupsInv'
    BY <2>1, <1>a, <1>c DEF GroupsInv
  <2> QED
    BY <2>1, <2>3, <2>4 DEF ReportInv, Shown
<1>8. CASE LoadRow \/ Loaded \/ SkipRecord \/ StrideRefused \/ CutChunk \/ Chunked \/ Weigh
           \/ Predict \/ ExpandRecord \/ Expanded \/ FillRecord
  <2>1. stage \notin Shown /\ stage' \notin Shown /\ UNCHANGED deciding
    BY <1>8 DEF LoadRow, Loaded, SkipRecord, StrideRefused, CutChunk, Chunked, Weigh, Predict,
           ExpandRecord, Expanded, FillRecord, Shown
  <2> QED
    BY <2>1, <1>2
<1>9. CASE UNCHANGED evalVars
  BY <1>9, <1>1 DEF evalVars
<1> QED
  BY <1>3, <1>4, <1>5, <1>6, <1>7, <1>8, <1>9 DEF EvalNext

LEMMA ReportInvariant == EvalSpec => [](EvalShape /\ CutInv /\ ScoreInv /\ ReportInv)
<1>1. EvalShape /\ EvalShape' /\ ScoreInv /\ ReportInv /\ [EvalNext]_evalVars => ReportInv'
  BY ReportStep
<1> QED
  BY <1>1, ReportInit, ScoreInvariant, PTL DEF EvalSpec

\* For every set of records, the report has one row for each record, in window order within a
\* group and with the probability of its own text, and marks the groups that have a suspicious
\* row (grouped_workload_metrics); no record lacks a score when it is needed.
THEOREM ReportExactHolds == EvalSpec => []ReportExact
<1>1. EvalShape /\ ScoreInv /\ ReportInv => ReportExact
  <2> SUFFICES ASSUME EvalShape, ScoreInv, ReportInv PROVE ReportExact
    OBVIOUS
  <2>1. stage = "expand" => \A i \in Reported : Row(i).empty \/ Unit(i) \in DOMAIN scoreOf
    BY DEF ScoreInv
  <2>2. ASSUME stage = "done"
        PROVE  /\ {windowRows[k].rec : k \in DOMAIN windowRows} = Reported
               /\ \A k, l \in DOMAIN windowRows : k < l =>
                    LET i == windowRows[k].rec  j == windowRows[l].rec IN
                    i # j /\ (Row(i).group = Row(j).group => Row(i).index <= Row(j).index)
               /\ \A k \in DOMAIN windowRows :
                    (\A j \in Reported : Name(j) = Name(windowRows[k].rec) => j = windowRows[k].rec)
                      => windowRows[k].score = OwnScore(windowRows[k].rec)
               /\ DOMAIN report = {Row(i).group : i \in Reported}
               /\ \A g \in DOMAIN report : report[g] <=> Alarm(g)
    <3>1. RowsInv /\ GroupsInv /\ Predicts(predicted, Reported)
      BY <2>2 DEF ReportInv, ScoreInv, Shown
    <3>2. DOMAIN report = Groups
      BY <2>2, <3>1 DEF GroupsInv
    <3>3. \A i \in Reported : Decided(i)
      BY <3>2 DEF Decided, Groups
    <3>4. {windowRows[k].rec : k \in DOMAIN windowRows} = Reported
      BY <3>1, <3>3 DEF RowsInv
    <3>5. ASSUME NEW k \in DOMAIN windowRows, Unshared(windowRows[k].rec)
          PROVE  windowRows[k].score = OwnScore(windowRows[k].rec)
      BY <3>1, <3>5 DEF RowsInv, Predicts
    <3>6. ASSUME NEW k \in DOMAIN windowRows, NEW l \in DOMAIN windowRows, k < l
          PROVE  LET i == windowRows[k].rec  j == windowRows[l].rec IN
                 i # j /\ (Row(i).group = Row(j).group => Row(i).index <= Row(j).index)
      BY <3>1, <3>6 DEF RowsInv
    <3> QED
      BY <3>1, <3>2, <3>4, <3>5, <3>6 DEF GroupsInv, Groups, Unshared
  <2> QED
    BY <2>1, <2>2 DEF ReportExact, Alarm
<1> QED
  BY <1>1, ReportInvariant, PTL

\* For every history, thresholds and order of windows, the report decides each group like the
\* policy object of the deployment does (grouped_workload_metrics, RollingMeanMaxPolicy).
THEOREM DecidesLikeDeploymentHolds == EvalSpec => DecidesLikeDeployment
<1>1. EvalInit => Policy!PolicyInit
  <2> SUFFICES ASSUME EvalInit PROVE Policy!PolicyInit
    OBVIOUS
  <2>1. scores = <<>> /\ triggered = FALSE
    BY DEF EvalInit
  <2>2. Latest(<<>>) = <<>>
    BY PolicyAssumption DEF Latest
  <2> QED
    BY <2>1, <2>2 DEF Policy!PolicyInit
<1>2. ASSUME EvalShape, ScoreInv, ReportInv, [EvalNext]_evalVars
      PROVE  [Policy!PolicyNext]_<<Latest(scores), triggered>>
  <2>1. CASE BeginGroup
    <3>1. Latest(<<>>) = <<>> /\ scores' = <<>> /\ triggered' = FALSE
      BY <2>1, PolicyAssumption DEF Latest, BeginGroup
    <3> QED
      BY <3>1 DEF Policy!PolicyNext, Policy!NewSession
  <2>2. CASE DecideWindow
    <3>1. PICK i \in todo : /\ scores' = Append(scores, predicted[Name(i)])
                            /\ triggered' = (triggered \/ Suspicious(Latest(scores')))
      BY <2>2 DEF DecideWindow
    <3>2. scores \in Seq(Scored) /\ predicted[Name(i)] \in Scored
      <4>1. i \in Reported /\ stage \in Shown
        BY <1>2, <2>2, <3>1 DEF EvalShape, DecideWindow, Shown
      <4> QED
        BY <1>2, <4>1 DEF ReportInv, ScoreInv, Predicts
    <3>3. Latest(scores') = Remember(Latest(scores), predicted[Name(i)])
      BY <3>1, <3>2, LatestRemembers
    <3>4. Latest(scores') = Policy!Remember(Latest(scores), predicted[Name(i)])
      BY <3>3 DEF Remember, Policy!Remember
    <3>5. triggered' = (triggered \/ Policy!Suspicious(Latest(scores')))
      <4>1. \A all : Suspicious(all) = Policy!Suspicious(all)
        BY DEF Suspicious, SumFunction, SumFunctionOnSet, FoldFunctionOnSet, MapThenFoldSet,
               Policy!Suspicious, Policy!SumFunction, Policy!SumFunctionOnSet,
               Policy!FoldFunctionOnSet, Policy!MapThenFoldSet
      <4> QED
        BY <3>1, <4>1, Zenon
    <3>6. predicted[Name(i)] \in Scores \cup {0}
      BY <3>2 DEF Scored, NoWindowScore
    <3> QED
      BY <3>4, <3>5, <3>6 DEF Policy!PolicyNext, Policy!Observe
  <2>3. CASE ~BeginGroup /\ ~DecideWindow
    <3>1. UNCHANGED <<scores, triggered>>
      BY <1>2, <2>3 DEF EvalNext, evalVars, LoadRow, Loaded, SkipRecord, StrideRefused, CutChunk,
         Chunked, Weigh, Predict, ExpandRecord, Expanded, FillRecord, Filled, EndGroup,
         WriteReport, deciding
    <3> QED
      BY <3>1
  <2> QED
    BY <2>1, <2>2, <2>3
<1> QED
  BY <1>1, <1>2, ReportInvariant, PTL DEF EvalSpec, DecidesLikeDeployment, Policy!PolicySpec
-----------------------------------------------------------------------------
(* collector.py.  What a run directory and the manifest are at every step of the recorder. *)

Samples == [device : Nat, process : Nat]
RunType == [row : Rows, meta : Final \cup {"running", "torn"}, torn : BOOLEAN,
            rows : Samples, counts : Samples, leader : Exited \cup {"none", "running"}]
Entry(n) == [run : 1..n, status : Final, counts : Samples, whole : BOOLEAN]

Sampling  == {"tick", "device", "process", "poll", "terminate", "kill", "finish", "append"}
Recording == Sampling \cup {"spawn"}
Learning  == {"train", "score", "tune"}
Active    == {"select", "create"} \cup Recording \cup Learning
Phases    == {"done", "aborted"} \cup Active

RecShape ==
    /\ mode \in {"train", "score"} /\ item \in Nat \ {0} /\ phase \in Phases
    /\ runs \in Seq(RunType) /\ counts \in Samples
    /\ manifest \in Seq(Entry(Len(runs))) /\ newline \in BOOLEAN

\* The run that is being recorded is the last one and not listed yet; the counters follow its
\* files, and its metadata is final before it is listed.
CurrentInv ==
    /\ phase \in {"create"} \cup Recording => item \in Rows
    /\ phase \in Recording =>
         /\ Current \in DOMAIN runs /\ ~runs[Current].torn
         /\ \A k \in DOMAIN manifest : manifest[k].run < Current
    /\ phase = "spawn" => runs[Current].rows = NoSample
    /\ phase \in Sampling => counts = runs[Current].rows
    /\ phase \in {"finish", "append"} => runs[Current].leader \in Exited
    /\ phase = "append" => runs[Current].meta = Status /\ runs[Current].counts = counts

\* What the manifest says of a run.
TrueOf(run, e) ==
    /\ run.leader \in Exited /\ run.meta = e.status /\ (run.meta = "ok" => run.leader = "ok")
    /\ run.counts = e.counts /\ run.counts = run.rows /\ ~run.torn

ListedInv == \A k \in DOMAIN manifest : TrueOf(runs[manifest[k].run], manifest[k])
OrderInv  == \A k, l \in DOMAIN manifest : k < l => manifest[k].run < manifest[l].run
PointsInv ==
    phase \in Learning =>
        \A k \in DOMAIN manifest : \A n \in 1..runs[manifest[k].run].rows.device :
            <<manifest[k].run, n>> \in points

\* The run directories that are older than the experiment.
Earlier == Current - (IF phase \in Recording THEN item ELSE item - 1)

\* The rows that are done have their lines, but for the first if the last line was cut off when
\* the experiment began.
PassInv ==
    /\ newline \/ Len(manifest) > 0
    /\ item \in 1..(Len(Mining) + 1)
    /\ phase \in Learning => item = Len(Mining) + 1
    /\ phase \in Active =>
         /\ Earlier \in Nat
         /\ item > 1 => newline
         /\ item = 1 => \A k \in DOMAIN manifest : manifest[k].run =< Earlier
         /\ \A r \in (Earlier + 1)..(Earlier + item - 1) : Recorded(r, Earlier + 1)

RecordInv == RecShape /\ CurrentInv /\ ListedInv /\ OrderInv /\ PointsInv /\ PassInv

LEMMA RecordInitInv == RecordInit => RecordInv
<1> SUFFICES ASSUME RecordInit PROVE RecordInv
  OBVIOUS
<1>1. phase = "select" /\ runs = <<>> /\ manifest = <<>> /\ counts = NoSample /\ item = 1
      /\ mode \in {"train", "score"} /\ DOMAIN manifest = {}
  BY DEF RecordInit
<1>2. RecShape
  BY <1>1 DEF RecShape, Phases, Active, NoSample, Samples, RecordInit
<1>3. CurrentInv
  BY <1>1 DEF CurrentInv, Recording, Sampling
<1>4. ListedInv /\ OrderInv /\ PointsInv
  BY <1>1 DEF ListedInv, OrderInv, PointsInv
<1>5. PassInv
  <2>1. Current = 0 /\ Earlier = 0 /\ newline
    BY <1>1 DEF Current, Earlier, Recording, Sampling, RecordInit
  <2>2. Len(Mining) \in Nat
    BY RecorderAssumption, LenProperties
  <2> QED
    BY <1>1, <2>1, <2>2 DEF PassInv, Learning
<1> QED
  BY <1>2, <1>3, <1>4, <1>5 DEF RecordInv

LEMMA RunFacts ==
    ASSUME RecShape
    PROVE  /\ Current \in Nat /\ Len(runs) \in Nat /\ DOMAIN runs = 1..Current
           /\ \A r \in DOMAIN runs : runs[r] \in RunType
           /\ Len(manifest) \in Nat /\ DOMAIN manifest = 1..Len(manifest)
           /\ \A k \in DOMAIN manifest : /\ manifest[k] \in Entry(Current)
                                         /\ manifest[k].run \in DOMAIN runs
<1>1. Current \in Nat /\ Len(runs) \in Nat /\ DOMAIN runs = 1..Current
  BY LenProperties DEF RecShape, Current
<1>2. \A r \in DOMAIN runs : runs[r] \in RunType
  BY <1>1, ElementOfSeq DEF RecShape, Current
<1>3. Len(manifest) \in Nat /\ DOMAIN manifest = 1..Len(manifest)
  BY LenProperties DEF RecShape
<1>4. \A k \in DOMAIN manifest : manifest[k] \in Entry(Current)
  BY <1>3, ElementOfSeq DEF RecShape, Current
<1>5. \A k \in DOMAIN manifest : manifest[k].run \in DOMAIN runs
  BY <1>1, <1>4 DEF Entry
<1> QED
  BY <1>1, <1>2, <1>3, <1>4, <1>5

\* A step that changes no listed run and does not begin to learn keeps what the manifest says.
LEMMA ManifestKept ==
    ASSUME RecordInv, manifest' = manifest,
           \A k \in DOMAIN manifest : runs'[manifest[k].run] = runs[manifest[k].run],
           phase' \in Learning => phase \in Learning /\ points' = points
    PROVE  ListedInv' /\ OrderInv' /\ PointsInv'
<1>1. ListedInv'
  BY DEF ListedInv, RecordInv
<1>2. OrderInv'
  BY DEF OrderInv, RecordInv
<1>3. PointsInv'
  BY DEF PointsInv, RecordInv
<1> QED
  BY <1>1, <1>2, <1>3

\* A step inside an experiment that writes no line keeps the lines of its rows.
LEMMA PassKept ==
    ASSUME RecordInv, manifest' = manifest, newline' = newline, item' = item,
           phase' \in Active => phase \in Active /\ Earlier' = Earlier,
           phase' \in Learning => phase \in Learning \/ item = Len(Mining) + 1
    PROVE  PassInv'
BY DEF PassInv, RecordInv, Recorded

\* One run is replaced.
LEMMA RunReplaced ==
    ASSUME RecShape, NEW c \in DOMAIN runs, NEW v \in RunType, runs' = [runs EXCEPT ![c] = v]
    PROVE  /\ runs' \in Seq(RunType) /\ Len(runs') = Len(runs) /\ Current' = Current
           /\ DOMAIN runs' = DOMAIN runs /\ runs'[c] = v
           /\ \A r \in DOMAIN runs : r # c => runs'[r] = runs[r]
<1>1. c \in 1..Len(runs) /\ DOMAIN runs = 1..Len(runs)
  BY RunFacts DEF Current
<1>2. runs' \in Seq(RunType) /\ Len(runs') = Len(runs)
  BY <1>1, ExceptSeq DEF RecShape
<1> QED
  BY <1>1, <1>2 DEF Current, RecShape

\* The current run is replaced while it is recorded.
LEMMA CurrentReplaced ==
    ASSUME RecordInv, phase \in Recording, NEW v \in RunType,
           runs' = [runs EXCEPT ![Current] = v], manifest' = manifest,
           newline' = newline, item' = item, phase' \in {"aborted"} \cup Recording
    PROVE  /\ runs' \in Seq(RunType) /\ Len(runs') = Len(runs) /\ Current' = Current
           /\ DOMAIN runs' = DOMAIN runs /\ runs'[Current] = v
           /\ manifest' \in Seq(Entry(Len(runs')))
           /\ \A k \in DOMAIN manifest : manifest[k].run < Current
           /\ Current \in DOMAIN runs
           /\ ListedInv' /\ OrderInv' /\ PointsInv' /\ PassInv'
<1>1. Current \in DOMAIN runs /\ RecShape /\ \A k \in DOMAIN manifest : manifest[k].run < Current
  BY DEF RecordInv, CurrentInv
<1>2. /\ runs' \in Seq(RunType) /\ Len(runs') = Len(runs) /\ Current' = Current
      /\ DOMAIN runs' = DOMAIN runs /\ runs'[Current] = v
      /\ \A r \in DOMAIN runs : r # Current => runs'[r] = runs[r]
  BY <1>1, RunReplaced
<1>3. \A k \in DOMAIN manifest : runs'[manifest[k].run] = runs[manifest[k].run]
  <2> SUFFICES ASSUME NEW k \in DOMAIN manifest PROVE runs'[manifest[k].run] = runs[manifest[k].run]
    OBVIOUS
  <2>1. manifest[k].run \in DOMAIN runs /\ manifest[k].run \in Nat /\ Current \in Nat
    BY <1>1, RunFacts
  <2>2. manifest[k].run # Current
    BY <2>1, <1>1
  <2> QED
    BY <2>1, <2>2, <1>2
<1>4. ListedInv' /\ OrderInv' /\ PointsInv'
  <2>1. phase' \notin Learning
    BY DEF Recording, Sampling, Learning
  <2> QED
    BY <1>3, <2>1, ManifestKept
<1>5. PassInv'
  <2>1. phase' \in Active => phase' \in Recording
    BY DEF Active, Recording, Sampling, Learning
  <2>2. phase' \in Active => Earlier' = Earlier
    BY <1>2, <2>1 DEF Earlier
  <2> QED
    BY <2>2, PassKept DEF Active, Recording, Sampling, Learning
<1> QED
  BY <1>1, <1>2, <1>4, <1>5 DEF RecShape

\* The steps that leave the runs and the manifest as they are.
LEMMA QuietStep ==
    ASSUME RecordInv,
           \/ SelectGpu \/ SpawnFails \/ Tick \/ PollExited \/ PollTimeout \/ PollAgain
           \/ Terminate \/ Reap \/ TrainFails \/ Train \/ TryCandidate \/ Tuned \/ ScorePoints
           \/ Expire \/ StartAgain \/ UNCHANGED recVars
    PROVE  RecordInv'
<1>1. UNCHANGED <<runs, manifest, newline>> /\ counts' = counts /\ mode' = mode /\ points' = points
      /\ (item' = item \/ (phase' = "select" /\ item' = 1))
  BY DEF SelectGpu, SpawnFails, Tick, PollExited, PollTimeout, PollAgain, Terminate, Reap,
     TrainFails, Train, TryCandidate, Tuned, ScorePoints, Expire, StartAgain, recVars, recording,
     listing, learning
<1>2. /\ phase' \in Phases /\ (phase' \in Learning => phase \in Learning)
      /\ (phase' \in Recording => phase \in Recording)
      /\ (phase' \in Sampling => phase \in Sampling) /\ (phase' = "spawn" => phase = "spawn")
      /\ (phase' = "append" => phase = "append" /\ timedOut' = timedOut)
      /\ (phase' = "create" => item' = item /\ (item \in Rows \/ phase = "create"))
      /\ (phase' \in Active => phase \in Active \/ (item' = 1 /\ phase' = "select"))
      /\ (phase' = "finish" => phase = "finish" \/ runs[Current].leader \in Exited)
  BY DEF RecordInv, RecShape, Phases, Active, Recording, Sampling, Learning, SelectGpu, SpawnFails, Tick,
     PollExited, PollTimeout, PollAgain, Terminate, Reap,
     TrainFails, Train, TryCandidate, Tuned, ScorePoints, Expire, StartAgain, recVars, recording,
     listing, learning
<1>3. RecShape'
  BY <1>1, <1>2 DEF RecordInv, RecShape
<1>4. CurrentInv'
  <2>1. Current' = Current
    BY <1>1 DEF Current
  <2>2. phase' = "append" => Status' = Status
    BY <1>1, <1>2, <2>1 DEF Status
  <2>3. phase' \in {"finish", "append"} => runs'[Current'].leader \in Exited
    BY <1>1, <1>2, <2>1 DEF RecordInv, CurrentInv
  <2>4. phase' \in {"create"} \cup Recording => item' \in Rows
    BY <1>1, <1>2 DEF RecordInv, CurrentInv, Recording, Sampling
  <2>5. phase' = "append" => runs'[Current'].meta = Status' /\ runs'[Current'].counts = counts'
    BY <1>1, <1>2, <2>1, <2>2 DEF RecordInv, CurrentInv
  <2> QED
    BY <1>1, <1>2, <2>1, <2>3, <2>4, <2>5 DEF RecordInv, CurrentInv
<1>5. ListedInv' /\ OrderInv' /\ PointsInv'
  BY <1>1, <1>2, ManifestKept
<1>6. PassInv'
  <2>1. Current' = Current /\ Current \in Nat
    BY <1>1, RunFacts DEF Current, RecordInv
  <2>2. CASE item' = item /\ (phase' \in Active => phase \in Active)
    <3>1. phase' \in Active => (phase' \in Recording <=> phase \in Recording)
      BY <2>2 DEF RecordInv, RecShape, Phases, Active, Recording, Sampling, Learning, SelectGpu,
         SpawnFails, Tick, PollExited, PollTimeout, PollAgain, Terminate, Reap, TrainFails, Train,
         TryCandidate, Tuned, ScorePoints, Expire, StartAgain, recVars
    <3>2. phase' \in Active => Earlier' = Earlier
      BY <2>1, <2>2, <3>1 DEF Earlier
    <3> QED
      BY <1>1, <1>2, <2>2, <3>2, PassKept
  <2>3. CASE item' = 1 /\ phase' = "select"
    <3>1. Earlier' = Current
      BY <2>1, <2>3 DEF Earlier, Recording, Sampling
    <3>2. \A k \in DOMAIN manifest : manifest[k].run \in Nat /\ manifest[k].run =< Current
      BY <2>1, RunFacts DEF RecordInv
    <3>3. Len(Mining) \in Nat
      BY RecorderAssumption, LenProperties
    <3> QED
      BY <1>1, <2>1, <2>3, <3>1, <3>2, <3>3 DEF PassInv, RecordInv, Learning
  <2> QED
    BY <1>1, <1>2, <2>2, <2>3
<1> QED
  BY <1>3, <1>4, <1>5, <1>6 DEF RecordInv

LEMMA CreateRunStep ==
    ASSUME RecordInv, CreateRun PROVE RecordInv'
<1> DEFINE v == [row |-> item, meta |-> "running", rows |-> NoSample,
                 counts |-> NoSample, torn |-> FALSE, leader |-> "none"]
<1>1. runs' = Append(runs, v) /\ phase = "create" /\ phase' = "spawn"
      /\ UNCHANGED <<mode, item, counts, manifest, newline>>
  BY DEF CreateRun, listing
<1>2. v \in RunType /\ v.rows = NoSample /\ ~v.torn
  BY <1>1 DEF RunType, RecordInv, CurrentInv, NoSample, Samples
<1> HIDE DEF v
<1>3. RecShape /\ runs \in Seq(RunType) /\ Current = Len(runs)
  BY DEF RecordInv, RecShape, Current
<1>4. /\ runs' \in Seq(RunType) /\ Len(runs') = Len(runs) + 1 /\ Current' = Len(runs) + 1
      /\ \A r \in DOMAIN runs : runs'[r] = runs[r]
      /\ runs'[Current'] = v /\ DOMAIN runs' = 1..(Len(runs) + 1) /\ Len(runs) \in Nat
  <2>1. runs' \in Seq(RunType) /\ Len(runs') = Len(runs) + 1 /\ runs'[Len(runs) + 1] = v
        /\ \A r \in 1..Len(runs) : runs'[r] = runs[r]
    BY <1>1, <1>2, <1>3, AppendProperties
  <2>2. Len(runs) \in Nat /\ DOMAIN runs = 1..Len(runs) /\ DOMAIN runs' = 1..Len(runs')
    BY <2>1, <1>3, LenProperties
  <2> QED
    BY <2>1, <2>2 DEF Current
<1>5. \A k \in DOMAIN manifest : /\ manifest[k].run \in DOMAIN runs /\ manifest[k].run \in Nat
                                 /\ manifest[k].run < Current'
  BY <1>3, <1>4, RunFacts
<1>6. manifest' \in Seq(Entry(Len(runs')))
  <2>1. Entry(Len(runs)) \subseteq Entry(Len(runs'))
    BY <1>4 DEF Entry
  <2>2. manifest \in Seq(Entry(Len(runs)))
    BY <1>3 DEF RecShape
  <2> QED
    BY <2>1, <2>2, <1>1, SeqMonotonic
<1>7. RecShape'
  BY <1>1, <1>4, <1>6, <1>3 DEF RecShape, Phases, Active, Recording
<1>8. CurrentInv'
  <2>1. phase' \in Recording /\ phase' \notin Sampling /\ phase' # "create"
        /\ phase' \notin {"finish", "append"}
    BY <1>1 DEF Recording, Sampling
  <2>2. Current' \in DOMAIN runs'
    BY <1>4
  <2> QED
    BY <1>1, <1>2, <1>4, <1>5, <2>1, <2>2 DEF CurrentInv, RecordInv
<1>9. ListedInv' /\ OrderInv' /\ PointsInv'
  BY <1>1, <1>4, <1>5, ManifestKept DEF Learning
<1>10. PassInv'
  <2>1. item \in Nat
    BY <1>3 DEF RecShape
  <2>2. Earlier' = Earlier
    BY <1>1, <1>3, <1>4, <2>1 DEF Earlier, Recording, Sampling
  <2> QED
    BY <1>1, <2>2, PassKept DEF Active, Recording, Learning
<1> QED
  BY <1>7, <1>8, <1>9, <1>10 DEF RecordInv

LEMMA SpawnStep ==
    ASSUME RecordInv, Spawn PROVE RecordInv'
<1> DEFINE v == [runs[Current] EXCEPT !.leader = "running"]
<1>1. runs' = [runs EXCEPT ![Current] = v] /\ phase = "spawn" /\ phase' = "tick"
      /\ UNCHANGED <<mode, item, manifest, newline>> /\ counts' = NoSample
  BY DEF Spawn, listing
<1>2. runs[Current] \in RunType /\ runs[Current].rows = NoSample /\ ~runs[Current].torn
  BY <1>1, RunFacts DEF RecordInv, CurrentInv, Recording
<1>3. v \in RunType /\ v.rows = NoSample /\ ~v.torn
  BY <1>2 DEF RunType
<1> HIDE DEF v
<1>4. phase \in Recording /\ phase' \notin Learning /\ phase' \in Phases /\ phase' \in Recording
  BY <1>1 DEF Recording, Sampling, Learning, Phases, Active
<1>5. /\ runs' \in Seq(RunType) /\ Len(runs') = Len(runs) /\ Current' = Current
      /\ DOMAIN runs' = DOMAIN runs /\ runs'[Current] = v
      /\ manifest' \in Seq(Entry(Len(runs')))
      /\ \A k \in DOMAIN manifest : manifest[k].run < Current
      /\ Current \in DOMAIN runs
      /\ ListedInv' /\ OrderInv' /\ PointsInv' /\ PassInv'
  BY <1>1, <1>3, <1>4, CurrentReplaced
<1>6. RecShape'
  BY <1>1, <1>4, <1>5 DEF RecShape, RecordInv, NoSample, Samples
<1>7. CurrentInv'
  BY <1>1, <1>3, <1>4, <1>5 DEF CurrentInv, RecordInv
<1> QED
  BY <1>5, <1>6, <1>7 DEF RecordInv

\* A query adds n rows to one of the two files and n to its counter.
LEMMA SampleStep ==
    ASSUME RecordInv, SampleDevice \/ SampleProcesses PROVE RecordInv'
<1>1. /\ phase \in Recording /\ phase \in Sampling /\ phase' \notin Learning /\ phase' \in Phases
      /\ phase' \in Recording /\ phase' \notin {"spawn", "create", "finish", "append"}
      /\ UNCHANGED <<mode, item, manifest, newline>>
  BY DEF SampleDevice, SampleProcesses, listing, Recording, Sampling, Learning, Phases, Active
<1>2. /\ runs[Current] \in RunType /\ counts = runs[Current].rows /\ ~runs[Current].torn
      /\ counts \in Samples
  BY <1>1, RunFacts DEF RecordInv, RecShape, CurrentInv
<1>3. PICK v \in RunType : runs' = [runs EXCEPT ![Current] = v] /\ v.rows = counts' /\ ~v.torn
  <2>1. CASE SampleDevice
    <3>1. PICK n \in 0..1 : /\ runs' = [runs EXCEPT ![Current].rows.device = @ + n]
                            /\ counts' = [counts EXCEPT !.device = @ + n]
      BY <2>1 DEF SampleDevice, Counted
    <3> DEFINE w == [runs[Current] EXCEPT !.rows.device = @ + n]
    <3>2. runs' = [runs EXCEPT ![Current] = w]
      BY <3>1
    <3>3. w \in RunType /\ w.rows = counts' /\ ~w.torn
      BY <1>2, <3>1 DEF RunType, Samples
    <3> QED
      BY <3>2, <3>3
  <2>2. CASE SampleProcesses
    <3>1. PICK n \in 0..1 : /\ runs' = [runs EXCEPT ![Current].rows.process = @ + n]
                            /\ counts' = [counts EXCEPT !.process = @ + n]
      BY <2>2 DEF SampleProcesses
    <3> DEFINE w == [runs[Current] EXCEPT !.rows.process = @ + n]
    <3>2. runs' = [runs EXCEPT ![Current] = w]
      BY <3>1
    <3>3. w \in RunType /\ w.rows = counts' /\ ~w.torn
      BY <1>2, <3>1 DEF RunType, Samples
    <3> QED
      BY <3>2, <3>3
  <2> QED
    BY <2>1, <2>2
<1>4. /\ runs' \in Seq(RunType) /\ Len(runs') = Len(runs) /\ Current' = Current
      /\ DOMAIN runs' = DOMAIN runs /\ runs'[Current] = v
      /\ manifest' \in Seq(Entry(Len(runs')))
      /\ \A k \in DOMAIN manifest : manifest[k].run < Current
      /\ Current \in DOMAIN runs
      /\ ListedInv' /\ OrderInv' /\ PointsInv' /\ PassInv'
  BY <1>1, <1>3, CurrentReplaced
<1>5. RecShape'
  BY <1>1, <1>3, <1>4 DEF RecShape, RecordInv, RunType
<1>6. CurrentInv'
  BY <1>1, <1>3, <1>4 DEF CurrentInv, RecordInv
<1> QED
  BY <1>4, <1>5, <1>6 DEF RecordInv

LEMMA FinishStep ==
    ASSUME RecordInv, Finish PROVE RecordInv'
<1> DEFINE v == [runs[Current] EXCEPT !.meta = Status, !.counts = counts]
<1>1. runs' = [runs EXCEPT ![Current] = v] /\ phase = "finish" /\ phase' = "append"
      /\ UNCHANGED <<mode, item, manifest, newline, counts, timedOut>>
  BY DEF Finish, listing
<1>2. /\ runs[Current] \in RunType /\ counts = runs[Current].rows /\ ~runs[Current].torn
      /\ counts \in Samples /\ runs[Current].leader \in Exited
  BY <1>1, RunFacts DEF RecordInv, RecShape, CurrentInv, Recording, Sampling
<1>3. Status \in Final
  BY <1>2 DEF Status, Final, Exited
<1>4. /\ v \in RunType /\ v.rows = counts /\ ~v.torn /\ v.meta = Status /\ v.counts = counts
      /\ v.leader = runs[Current].leader
  BY <1>2, <1>3 DEF RunType
<1> HIDE DEF v
<1>5. phase \in Recording /\ phase' \notin Learning /\ phase' \in Phases /\ phase' \in Recording
  BY <1>1 DEF Recording, Sampling, Learning, Phases, Active
<1>6. /\ runs' \in Seq(RunType) /\ Len(runs') = Len(runs) /\ Current' = Current
      /\ DOMAIN runs' = DOMAIN runs /\ runs'[Current] = v
      /\ manifest' \in Seq(Entry(Len(runs')))
      /\ \A k \in DOMAIN manifest : manifest[k].run < Current
      /\ Current \in DOMAIN runs
      /\ ListedInv' /\ OrderInv' /\ PointsInv' /\ PassInv'
  BY <1>1, <1>4, <1>5, CurrentReplaced
<1>7. RecShape'
  BY <1>1, <1>5, <1>6 DEF RecShape, RecordInv
<1>8. Status' = Status
  BY <1>1, <1>4, <1>6 DEF Status
<1>9. CurrentInv'
  BY <1>1, <1>2, <1>4, <1>5, <1>6, <1>8 DEF CurrentInv, RecordInv
<1> QED
  BY <1>6, <1>7, <1>9 DEF RecordInv

\* A line, cut off or not, that is written to the manifest: it is the last one, true, and leaves
\* the others alone, or it is glued to the one before.
LEMMA LineAddedKeeps ==
    ASSUME RecordInv, phase = "append", NEW w \in BOOLEAN, manifest' = LineAdded(w), runs' = runs
    PROVE  /\ manifest' \in Seq(Entry(Len(runs))) /\ Len(manifest') > 0
           /\ ListedInv' /\ OrderInv'
           /\ newline => /\ \A k \in DOMAIN manifest : k \in DOMAIN manifest' /\ manifest'[k] = manifest[k]
                         /\ \E k \in DOMAIN manifest' : manifest'[k].run = Current /\ manifest'[k].whole = w
           /\ ~newline => \E k \in DOMAIN manifest' : ~manifest'[k].whole /\ manifest'[k].run < Current
<1> DEFINE e == [run |-> Current, status |-> Status, counts |-> counts, whole |-> w]
           m == Len(manifest) + 1
<1>2. /\ RecShape /\ runs[Current] \in RunType /\ Current \in DOMAIN runs /\ counts \in Samples
      /\ counts = runs[Current].rows /\ ~runs[Current].torn /\ runs[Current].leader \in Exited
      /\ runs[Current].meta = Status /\ runs[Current].counts = counts
      /\ \A k \in DOMAIN manifest : manifest[k].run < Current
  BY RunFacts DEF RecordInv, RecShape, CurrentInv, Recording, Sampling
<1>3. Status \in Final /\ (Status = "ok" => runs[Current].leader = "ok")
  BY <1>2 DEF Status, Final, Exited
<1>1. CASE newline
  <2>1. manifest' = Append(manifest, e)
    BY <1>1 DEF LineAdded
  <2>2. TrueOf(runs[Current], e)
    BY <1>2, <1>3 DEF TrueOf
  <2>3. e \in Entry(Len(runs)) /\ e.run = Current /\ e.whole = w
    BY <1>2, <1>3, RunFacts DEF Entry, Current
  <2> HIDE DEF e
  <2>4. /\ manifest' \in Seq(Entry(Len(runs))) /\ DOMAIN manifest' = DOMAIN manifest \cup {m}
        /\ manifest'[m] = e /\ m \in Nat /\ m \notin DOMAIN manifest /\ Len(manifest') > 0
        /\ \A k \in DOMAIN manifest : manifest'[k] = manifest[k] /\ k \in Nat /\ k < m
    <3>1. /\ manifest' \in Seq(Entry(Len(runs))) /\ Len(manifest') = Len(manifest) + 1
          /\ manifest'[Len(manifest) + 1] = e
          /\ \A k \in 1..Len(manifest) : manifest'[k] = manifest[k]
      BY <2>1, <1>2, <2>3, AppendProperties DEF RecShape
    <3>2. DOMAIN manifest = 1..Len(manifest) /\ Len(manifest) \in Nat /\ DOMAIN manifest' = 1..Len(manifest')
      BY <3>1, <1>2, LenProperties DEF RecShape
    <3> QED
      BY <3>1, <3>2
  <2> HIDE DEF m
  <2>5. ListedInv'
    BY <2>2, <2>3, <2>4 DEF ListedInv, RecordInv
  <2>6. OrderInv'
    <3> SUFFICES ASSUME NEW k \in DOMAIN manifest', NEW l \in DOMAIN manifest', k < l
                 PROVE  manifest'[k].run < manifest'[l].run
      BY DEF OrderInv
    <3>1. CASE l = m
      <4>1. k # m
        BY <3>1, <2>4
      <4> QED
        BY <3>1, <4>1, <1>2, <2>3, <2>4
    <3>2. CASE l # m
      <4>1. l \in DOMAIN manifest /\ k # m
        BY <3>2, <2>4
      <4> QED
        BY <4>1, <2>4 DEF OrderInv, RecordInv
    <3> QED
      BY <3>1, <3>2
  <2> QED
    BY <1>1, <2>3, <2>4, <2>5, <2>6
<1>4. CASE ~newline
  <2> DEFINE n == Len(manifest)
             v == [manifest[n] EXCEPT !.whole = FALSE]
  <2>1. manifest' = [manifest EXCEPT ![n] = v]
    BY <1>4 DEF LineAdded
  <2>2. n \in DOMAIN manifest /\ n \in 1..Len(manifest) /\ DOMAIN manifest = 1..Len(manifest) /\ n > 0
    BY <1>2, <1>4, RunFacts DEF RecordInv, PassInv
  <2>3. v \in Entry(Len(runs)) /\ v.run = manifest[n].run /\ v.status = manifest[n].status
        /\ v.counts = manifest[n].counts /\ ~v.whole
    BY <1>2, <2>2, RunFacts DEF Entry, Current
  <2> HIDE DEF v
  <2>4. manifest' \in Seq(Entry(Len(runs))) /\ Len(manifest') = n
    BY <1>2, <2>1, <2>2, <2>3, ExceptSeq DEF RecShape
  <2>5. DOMAIN manifest' = DOMAIN manifest
        /\ \A k \in DOMAIN manifest : manifest'[k] = IF k = n THEN v ELSE manifest[k]
    BY <2>1, <2>2
  <2> HIDE DEF n
  <2>6. ListedInv'
    BY <2>2, <2>3, <2>5 DEF ListedInv, RecordInv, TrueOf
  <2>7. \A k \in DOMAIN manifest : manifest'[k].run = manifest[k].run
    BY <2>2, <2>3, <2>5
  <2>8. OrderInv'
    BY <2>5, <2>7 DEF OrderInv, RecordInv
  <2> QED
    BY <1>2, <1>4, <2>2, <2>3, <2>4, <2>5, <2>6, <2>8
<1> QED
  BY <1>1, <1>4

LEMMA AppendManifestStep ==
    ASSUME RecordInv, AppendManifest PROVE RecordInv'
<1>1. /\ manifest' = LineAdded(TRUE) /\ newline' = TRUE /\ phase = "append" /\ phase' = "select"
      /\ item' = item + 1 /\ UNCHANGED <<mode, runs, counts>>
  BY DEF AppendManifest, recording
<1>2. /\ manifest' \in Seq(Entry(Len(runs))) /\ Len(manifest') > 0
      /\ ListedInv' /\ OrderInv'
      /\ newline => /\ \A k \in DOMAIN manifest : k \in DOMAIN manifest' /\ manifest'[k] = manifest[k]
                    /\ \E k \in DOMAIN manifest' : manifest'[k].run = Current /\ manifest'[k].whole
      /\ ~newline => \E k \in DOMAIN manifest' : ~manifest'[k].whole /\ manifest'[k].run < Current
  BY <1>1, LineAddedKeeps
<1>3. RecShape'
  <2>1. manifest' \in Seq(Entry(Len(runs'))) /\ newline' \in BOOLEAN
    BY <1>1, <1>2
  <2>2. phase' \in Phases
    BY <1>1 DEF Phases, Active
  <2>3. mode' \in {"train", "score"} /\ item' \in Nat \ {0} /\ runs' \in Seq(RunType) /\ counts' \in Samples
    BY <1>1 DEF RecShape, RecordInv
  <2> QED
    BY <2>1, <2>2, <2>3 DEF RecShape
<1>4. CurrentInv'
  BY <1>1 DEF CurrentInv, Recording, Sampling
<1>5. PointsInv'
  BY <1>1 DEF PointsInv, Learning
<1>6. PassInv'
  <2>1. phase \in Recording /\ phase \in Active /\ phase' \notin Recording /\ phase' \notin Learning
    BY <1>1 DEF Recording, Sampling, Learning, Active
  <2>2. /\ Current' = Current /\ Current \in Nat /\ item \in Nat /\ item \in Rows /\ Earlier \in Nat
        /\ Earlier = Current - item
        /\ item > 1 => newline
        /\ \A r \in (Earlier + 1)..(Earlier + item - 1) : Recorded(r, Earlier + 1)
    BY <1>1, <2>1, RunFacts DEF Current, RecordInv, RecShape, CurrentInv, PassInv, Earlier
  <2>3. Len(Mining) \in Nat /\ Rows = 1..Len(Mining)
    BY RecorderAssumption, LenProperties DEF Rows
  <2>4. Earlier' = Earlier /\ item' > 1 /\ item' \in 1..(Len(Mining) + 1)
    BY <1>1, <2>1, <2>2, <2>3 DEF Earlier
  <2>5. ASSUME NEW r \in (Earlier + 1)..(Earlier + item) PROVE Recorded(r, Earlier + 1)'
    <3>1. CASE r = Current
      <4>1. ~newline => r = Earlier + 1
        BY <2>2, <3>1 DEF RecordInv, RecShape
      <4> QED
        BY <1>2, <2>4, <3>1, <4>1 DEF Recorded
    <3>2. CASE r # Current
      <4>1. r \in (Earlier + 1)..(Earlier + item - 1) /\ item > 1
        BY <2>2, <3>2
      <4> QED
        BY <1>2, <2>2, <2>4, <4>1 DEF Recorded
    <3> QED
      BY <3>1, <3>2
  <2>6. \A r \in (Earlier' + 1)..(Earlier' + item' - 1) : Recorded(r, Earlier + 1)'
    <3>1. Earlier' = Earlier /\ Earlier' + item' - 1 = Earlier + item
      BY <1>1, <2>2, <2>4
    <3> QED
      BY <2>5, <3>1
  <2>7. ~(item' = 1) /\ newline'
    BY <1>1, <2>2, <2>4
  <2> QED
    BY <1>2, <2>1, <2>2, <2>4, <2>6, <2>7 DEF PassInv
<1> QED
  BY <1>2, <1>3, <1>4, <1>5, <1>6 DEF RecordInv

LEMMA BuildFeaturesStep ==
    ASSUME RecordInv, BuildFeatures PROVE RecordInv'
<1>1. /\ UNCHANGED <<runs, manifest, newline, counts, mode, item>>
      /\ phase' \in {"train", "score", "aborted"} /\ phase = "select" /\ item \notin Rows
      /\ \/ phase' = "aborted"
         \/ points' = UNION {{r} \X (1..runs[r].rows.device) : r \in DOMAIN runs}
  BY DEF BuildFeatures, recording, listing, RecordInv, RecShape
<1>2. RecShape'
  BY <1>1 DEF RecShape, RecordInv, Phases, Active, Learning
<1>3. CurrentInv'
  BY <1>1 DEF CurrentInv, Recording, Sampling
<1>4. ListedInv' /\ OrderInv'
  BY <1>1 DEF ListedInv, OrderInv, RecordInv
<1>5. PointsInv'
  <2>1. \A k \in DOMAIN manifest : manifest[k].run \in DOMAIN runs
    BY RunFacts DEF RecordInv
  <2>2. ASSUME phase' \in Learning
        PROVE  \A r \in DOMAIN runs : \A n \in 1..runs[r].rows.device : <<r, n>> \in points'
    BY <1>1, <2>2 DEF Learning
  <2> QED
    BY <1>1, <2>1, <2>2 DEF PointsInv
<1>6. PassInv'
  <2>1. Len(Mining) \in Nat /\ Rows = 1..Len(Mining)
    BY RecorderAssumption, LenProperties DEF Rows
  <2>2. item = Len(Mining) + 1
    BY <1>1, <2>1 DEF PassInv, RecordInv
  <2>3. Earlier' = Earlier
    BY <1>1 DEF Earlier, Current, Recording, Sampling
  <2> QED
    BY <1>1, <2>2, <2>3, PassKept DEF Active
<1> QED
  BY <1>2, <1>3, <1>4, <1>5, <1>6 DEF RecordInv

LEMMA LeaderExitsStep ==
    ASSUME RecordInv, LeaderExits PROVE RecordInv'
<1>1. PICK r \in DOMAIN runs, how \in Exited :
        /\ runs[r].leader = "running"
        /\ runs' = [runs EXCEPT ![r] = [runs[r] EXCEPT !.leader = how]]
  BY DEF LeaderExits
<1> DEFINE v == [runs[r] EXCEPT !.leader = how]
<1>2. UNCHANGED <<mode, phase, item, counts, timedOut, manifest, newline, points>> /\ RecShape
  BY DEF LeaderExits, listing, RecordInv
<1>3. /\ v \in RunType /\ v.rows = runs[r].rows /\ v.torn = runs[r].torn /\ v.meta = runs[r].meta
      /\ v.counts = runs[r].counts
  BY <1>2, RunFacts DEF RunType, Exited
<1>4. runs' = [runs EXCEPT ![r] = v]
  BY <1>1
<1> HIDE DEF v
<1>5. /\ runs' \in Seq(RunType) /\ Len(runs') = Len(runs) /\ Current' = Current
      /\ DOMAIN runs' = DOMAIN runs /\ runs'[r] = v
      /\ \A q \in DOMAIN runs : q # r => runs'[q] = runs[q]
  BY <1>2, <1>3, <1>4, RunReplaced
<1>6. RecShape'
  BY <1>2, <1>5 DEF RecShape
<1>7. \A q \in DOMAIN runs : /\ runs'[q].rows = runs[q].rows /\ runs'[q].torn = runs[q].torn
                             /\ runs'[q].meta = runs[q].meta /\ runs'[q].counts = runs[q].counts
                             /\ runs[q].leader \in Exited => runs'[q].leader = runs[q].leader
  BY <1>1, <1>3, <1>5 DEF Exited
<1>8. CurrentInv'
  <2>1. phase \in Recording => Current \in DOMAIN runs
    BY DEF RecordInv, CurrentInv
  <2>2. phase = "append" => Status' = Status
    BY <1>2, <1>5, <1>7, <2>1 DEF Status, RecordInv, CurrentInv, Recording, Sampling
  <2> QED
    BY <1>2, <1>5, <1>7, <2>1, <2>2 DEF RecordInv, CurrentInv, Recording, Sampling
<1>9. \A k \in DOMAIN manifest : runs'[manifest[k].run] = runs[manifest[k].run]
  <2>1. \A k \in DOMAIN manifest : manifest[k].run \in DOMAIN runs
    BY <1>2, RunFacts
  <2>2. \A k \in DOMAIN manifest : manifest[k].run # r
    BY <1>1 DEF RecordInv, ListedInv, TrueOf, Exited
  <2> QED
    BY <1>5, <2>1, <2>2
<1>10. ListedInv' /\ OrderInv' /\ PointsInv'
  BY <1>2, <1>9, ManifestKept
<1>11. PassInv'
  BY <1>2, <1>5, PassKept DEF Earlier
<1> QED
  BY <1>6, <1>8, <1>10, <1>11 DEF RecordInv

LEMMA InterruptStep ==
    ASSUME RecordInv, Interrupt PROVE RecordInv'
<1>1. /\ phase' = "aborted" /\ UNCHANGED <<mode, item, counts, points>>
      /\ phase' \notin Learning /\ phase' \notin Recording /\ phase' \in Phases /\ RecShape
      /\ phase' \notin Active
  BY DEF Interrupt, Learning, Recording, Sampling, Phases, Active, RecordInv
<1>2. CurrentInv'
  BY <1>1 DEF CurrentInv, Recording, Sampling
<1>3. CASE UNCHANGED <<runs, listing>>
  <2>1. RecShape'
    BY <1>1, <1>3 DEF RecShape, listing
  <2>2. ListedInv' /\ OrderInv' /\ PointsInv' /\ PassInv'
    BY <1>1, <1>3, ManifestKept, PassKept DEF listing
  <2> QED
    BY <1>2, <2>1, <2>2 DEF RecordInv
<1>4. CASE UNCHANGED listing /\ phase \in Recording
           /\ (runs' = [runs EXCEPT ![Current].torn = TRUE] \/ runs' = [runs EXCEPT ![Current].meta = "torn"])
  <2>1. runs[Current] \in RunType
    BY <1>1, <1>4, RunFacts DEF RecordInv, CurrentInv
  <2>2. \E v \in RunType : runs' = [runs EXCEPT ![Current] = v]
    <3>1. CASE runs' = [runs EXCEPT ![Current].torn = TRUE]
      <4>1. [runs[Current] EXCEPT !.torn = TRUE] \in RunType
        BY <2>1 DEF RunType
      <4> QED
        BY <3>1, <4>1
    <3>2. CASE runs' = [runs EXCEPT ![Current].meta = "torn"]
      <4>1. [runs[Current] EXCEPT !.meta = "torn"] \in RunType
        BY <2>1 DEF RunType
      <4> QED
        BY <3>2, <4>1
    <3> QED
      BY <3>1, <3>2, <1>4
  <2>3. /\ runs' \in Seq(RunType) /\ manifest' \in Seq(Entry(Len(runs')))
        /\ ListedInv' /\ OrderInv' /\ PointsInv' /\ PassInv'
    BY <1>1, <1>4, <2>2, CurrentReplaced DEF listing
  <2>4. RecShape'
    BY <1>1, <1>4, <2>3 DEF RecShape, listing
  <2> QED
    BY <1>2, <2>3, <2>4 DEF RecordInv
<1>5. ASSUME phase = "append", NEW w \in BOOLEAN, manifest' = LineAdded(w), newline' = FALSE, runs' = runs
      PROVE  RecordInv'
  <2>1. /\ manifest' \in Seq(Entry(Len(runs))) /\ Len(manifest') > 0
        /\ ListedInv' /\ OrderInv'
    BY <1>5, LineAddedKeeps
  <2>2. RecShape'
    BY <1>1, <1>5, <2>1 DEF RecShape
  <2>3. PointsInv' /\ PassInv'
    BY <1>1, <2>1 DEF PointsInv, PassInv, RecordInv
  <2> QED
    BY <1>2, <2>1, <2>2, <2>3 DEF RecordInv
<1> QED
  BY <1>3, <1>4, <1>5 DEF Interrupt, WritingMetadata, Recording, Sampling

THEOREM RecordInvariant == RecordSpec => []RecordInv
<1>1. RecordInv /\ [RecordNext]_recVars => RecordInv'
  <2> SUFFICES ASSUME RecordInv, [RecordNext]_recVars PROVE RecordInv'
    OBVIOUS
  <2> QED
    BY QuietStep, CreateRunStep, SpawnStep, SampleStep, FinishStep, AppendManifestStep,
       BuildFeaturesStep, LeaderExitsStep, InterruptStep DEF RecordNext, Recorder
<1> QED
  BY <1>1, RecordInitInv, PTL DEF RecordSpec

\* For every plan and any number of runs, samples, interruptions and new starts, the variables of
\* the recorder have their types.
THEOREM RecordTypeOKHolds == RecordSpec => []RecordTypeOK
<1>1. RecordInv => RecordTypeOK
  <2> SUFFICES ASSUME RecordInv PROVE RecordTypeOK
    OBVIOUS
  <2>1. Entry(Len(runs)) \subseteq [run : DOMAIN runs, status : Final, counts : Samples, whole : BOOLEAN]
    BY RunFacts DEF Entry, RecordInv, Current
  <2>2. manifest \in Seq([run : DOMAIN runs, status : Final, counts : Samples, whole : BOOLEAN])
    BY <2>1, SeqMonotonic DEF RecordInv, RecShape
  <2> QED
    BY <2>2 DEF RecordTypeOK, RecordInv, RecShape, RunType, Samples, Phases, Active, Recording,
       Sampling, Learning
<1> QED
  BY <1>1, RecordInvariant, PTL

\* For every plan and any number of runs, samples, interruptions (also over the manifest itself)
\* and new starts, what the manifest lists is true and is trained on, and an experiment that comes
\* to its points has listed its runs, but for the first after a line that was cut off
\* (record_command, baseline_train).
THEOREM ManifestTrueHolds == RecordSpec => []ManifestTrue
<1>1. RecordInv => ManifestTrue
  <2> SUFFICES ASSUME RecordInv PROVE ManifestTrue
    OBVIOUS
  <2>1. ASSUME phase \in Learning
        PROVE  \A r \in (Current - Len(Mining) + 1)..Current :
                 Recorded(r, Current - Len(Mining) + 1)
    <3>1. Len(Mining) \in Nat /\ Current \in Nat
      BY RecorderAssumption, LenProperties, RunFacts DEF RecordInv
    <3>2. item = Len(Mining) + 1 /\ phase \notin Recording /\ phase \in Active
      BY <2>1 DEF RecordInv, PassInv, Learning, Recording, Sampling, Active
    <3>3. Earlier = Current - Len(Mining) /\ Earlier + item - 1 = Current
      BY <3>1, <3>2 DEF Earlier
    <3> QED
      BY <3>2, <3>3 DEF RecordInv, PassInv
  <2> QED
    BY <2>1 DEF ManifestTrue, RecordInv, ListedInv, OrderInv, PointsInv, TrueOf, Learning
<1> QED
  BY <1>1, RecordInvariant, PTL

-----------------------------------------------------------------------------
(* tune_threshold *)

Candidates == {0, 100} \cup {means[r] : r \in validation}
Tried      == Candidates \ left

Benign == {r \in validation : ~IsMining(r)}

\* best is no worse than t.
Covered(t) ==
    Allowed(t) => /\ best # NoBest /\ Recall(t) <= best.recall
                  /\ Recall(t) = best.recall => t <= best.threshold

BestInv ==
    \/ best = NoBest
    \/ /\ best.threshold \in 0..100 /\ Allowed(best.threshold)
       /\ best.recall = Recall(best.threshold)

\* Every threshold that is not above a candidate that was tried is covered, whether it is a
\* candidate or not.
TuneInv ==
    /\ left \subseteq Candidates /\ BestInv
    /\ \A t \in 0..100, c \in Tried : t <= c => Covered(t)

ModelInv ==
    /\ validation \subseteq DOMAIN runs /\ \A r \in validation : means[r] \in 0..100

LearnInv ==
    /\ phase \in {"train", "tune"} => mode = "train"
    /\ phase = "score" => mode = "score"
    /\ phase = "train" => \A p \in points : p[1] \in DOMAIN runs
    /\ phase = "tune" => ModelInv /\ TuneInv
    /\ mode = "train" /\ phase = "done" => ModelInv /\ ThresholdBest

\* The decisions read the labels of the validation runs and their means only.
LEMMA LearningKept ==
    ASSUME validation' = validation, means' = means,
           \A r \in validation : runs'[r].row = runs[r].row
    PROVE  /\ \A t : Recall(t)' = Recall(t)
           /\ \A t : Allowed(t)' = Allowed(t)
<1>1. \A r \in validation : IsMining(r)' = IsMining(r)
  BY DEF IsMining
<1>2. \A class, t : Flagged(class, t)' = Flagged(class, t)
  BY <1>1 DEF Flagged
<1>3. Benign' = Benign
  BY <1>1 DEF Benign
<1>4. \A t : Recall(t)' = Recall(t)
  BY <1>2 DEF Recall
<1>5. \A t : Allowed(t)' = Allowed(t)
  BY <1>2, <1>3 DEF Allowed, Benign
<1> QED
  BY <1>4, <1>5

\* Thresholds with the same runs above them are decided alike.
LEMMA SameFlags ==
    ASSUME NEW t, NEW c, \A class : Flagged(class, t) = Flagged(class, c)
    PROVE  Recall(t) = Recall(c) /\ Allowed(t) = Allowed(c)
BY DEF Recall, Allowed

LEMMA RecallIsNat ==
    ASSUME RecShape, ModelInv
    PROVE  \A t : Recall(t) \in Nat
<1>1. IsFiniteSet(validation)
  <2>1. DOMAIN runs = 1..Current /\ Current \in Nat
    BY RunFacts
  <2>2. IsFiniteSet(1..Current)
    BY <2>1, FS_Interval
  <2> QED
    BY <2>1, <2>2, FS_Subset DEF ModelInv
<1>2. \A t : Flagged(TRUE, t) \subseteq validation
  BY DEF Flagged
<1>3. \A t : IsFiniteSet(Flagged(TRUE, t))
  BY <1>1, <1>2, FS_Subset
<1> QED
  BY <1>3, FS_CardinalityType DEF Recall

LEMMA TryCandidateStep ==
    ASSUME RecShape, ModelInv, TuneInv, TryCandidate
    PROVE  TuneInv' /\ ModelInv'
<1>1. PICK c \in left :
        /\ \A u \in left : c <= u
        /\ best' = IF Allowed(c) /\ (best = NoBest \/ Better(c))
                   THEN [recall |-> Recall(c), threshold |-> c] ELSE best
        /\ left' = left \ {c}
  BY DEF TryCandidate
<1>2. validation' = validation /\ means' = means /\ runs' = runs
  BY DEF TryCandidate, recording
<1>3. /\ \A t : Recall(t)' = Recall(t)
      /\ \A t : Allowed(t)' = Allowed(t)
  BY <1>2, LearningKept
<1>4. ModelInv'
  BY <1>2 DEF ModelInv
<1>5. Candidates' = Candidates
  BY <1>2 DEF Candidates
<1>6. Candidates \subseteq 0..100 /\ c \in Candidates /\ c \in 0..100
  BY DEF ModelInv, TuneInv, Candidates
<1>7. Tried' = Tried \cup {c} /\ left' \subseteq Candidates'
  BY <1>1, <1>5, <1>6 DEF Tried, TuneInv
<1>8. \A t : Recall(t) \in Nat
  BY RecallIsNat
<1>9. best = NoBest \/ (best.threshold \in 0..100 /\ best.recall \in Nat)
  BY <1>8 DEF TuneInv, BestInv
<1>10. BestInv'
  <2>1. CASE Allowed(c) /\ (best = NoBest \/ Better(c))
    <3>1. best'.recall = Recall(c) /\ best'.threshold = c
      BY <1>1, <2>1
    <3> QED
      BY <3>1, <2>1, <1>3, <1>6 DEF BestInv
  <2>2. CASE ~(Allowed(c) /\ (best = NoBest \/ Better(c)))
    <3>1. best' = best
      BY <1>1, <2>2
    <3> QED
      BY <3>1, <1>3 DEF BestInv, TuneInv
  <2> QED
    BY <2>1, <2>2
\* What was covered stays covered, and so is c.
<1>11. \A t \in 0..100 : Covered(t) \/ t = c => Covered(t)'
  <2> SUFFICES ASSUME NEW t \in 0..100, Covered(t) \/ t = c, Allowed(t)
               PROVE  /\ best' # NoBest /\ Recall(t) <= best'.recall
                      /\ Recall(t) = best'.recall => t <= best'.threshold
    BY <1>3 DEF Covered
  <2>1. Recall(t) \in Nat /\ Recall(c) \in Nat
    BY <1>8
  <2>2. CASE Allowed(c) /\ (best = NoBest \/ Better(c))
    <3>1. best'.recall = Recall(c) /\ best'.threshold = c /\ best' # NoBest
      BY <1>1, <2>2, <2>1 DEF NoBest
    <3>2. CASE t = c
      BY <3>1, <3>2, <2>1, <1>6
    <3>3. CASE t # c
      <4>1. best # NoBest /\ Recall(t) <= best.recall
            /\ (Recall(t) = best.recall => t <= best.threshold)
        BY <3>3 DEF Covered
      <4>2. Recall(c) > best.recall \/ (Recall(c) = best.recall /\ c > best.threshold)
        BY <2>2, <4>1 DEF Better
      <4> QED
        BY <4>1, <4>2, <3>1, <2>1, <1>6, <1>9
    <3> QED
      BY <3>2, <3>3
  <2>3. CASE ~(Allowed(c) /\ (best = NoBest \/ Better(c)))
    <3>1. best' = best
      BY <1>1, <2>3
    <3>2. CASE t = c
      <4>1. best # NoBest /\ ~Better(c)
        BY <2>3, <3>2
      <4> QED
        BY <4>1, <3>1, <3>2, <2>1, <1>6, <1>9 DEF Better
    <3>3. CASE t # c
      BY <3>1, <3>3 DEF Covered
    <3> QED
      BY <3>2, <3>3
  <2> QED
    BY <2>2, <2>3
\* A threshold between the last candidate and c has the same runs above it as c.
<1>12. ASSUME NEW t \in 0..100, t < c, \A u \in Tried : ~(t <= u)
       PROVE  Covered(t)'
  <2>1. \A r \in validation : means[r] >= t <=> means[r] >= c
    <3> SUFFICES ASSUME NEW r \in validation PROVE means[r] >= t <=> means[r] >= c
      OBVIOUS
    <3>1. means[r] \in 0..100 /\ means[r] \in Candidates
      BY DEF ModelInv, Candidates
    <3>2. means[r] \in left \/ means[r] \in Tried
      BY <3>1 DEF Tried
    <3>3. means[r] \in left => c <= means[r]
      BY <1>1
    <3>4. means[r] \in Tried => ~(t <= means[r])
      BY <1>12
    <3> QED
      BY <3>1, <3>2, <3>3, <3>4, <1>6, <1>12
  <2>2. Recall(t) = Recall(c) /\ Allowed(t) = Allowed(c)
    <3>1. \A class : Flagged(class, t) = Flagged(class, c)
      BY <2>1 DEF Flagged
    <3> QED
      BY <3>1, SameFlags
  <2>3. Covered(c)'
    BY <1>6, <1>11
  <2>4. best' = NoBest \/ (best'.threshold \in 0..100)
    BY <1>10 DEF BestInv
  <2> QED
    BY <2>2, <2>3, <2>4, <1>3, <1>6, <1>12 DEF Covered
<1>13. \A t \in 0..100, u \in Tried' : t <= u => Covered(t)'
  <2> SUFFICES ASSUME NEW t \in 0..100, NEW u \in Tried', t <= u PROVE Covered(t)'
    OBVIOUS
  <2>1. CASE \E w \in Tried : t <= w
    BY <2>1, <1>11 DEF TuneInv
  <2>2. CASE ~\E w \in Tried : t <= w
    <3>1. t <= c
      BY <2>2, <1>7
    <3> QED
      BY <2>2, <3>1, <1>6, <1>11, <1>12
  <2> QED
    BY <2>1, <2>2
<1> QED
  BY <1>4, <1>7, <1>10, <1>13 DEF TuneInv

LEMMA TrainStep ==
    ASSUME RecShape, LearnInv, Train
    PROVE  ModelInv' /\ TuneInv'
<1>1. /\ means' \in Probabilities /\ validation' \in Sides(DOMAIN means')
      /\ left' = {0, 100} \cup {means'[r] : r \in validation'} /\ best' = NoBest
      /\ UNCHANGED runs /\ \A p \in points : p[1] \in DOMAIN runs
  BY DEF Train, LearnInv, recording
<1>2. PICK seen \in SUBSET Measured : means' \in [seen -> Means]
  BY <1>1 DEF Probabilities
<1>3. validation' \subseteq seen
  BY <1>1, <1>2 DEF Sides
<1>4. Measured \subseteq DOMAIN runs
  BY <1>1 DEF Measured
<1>5. ModelInv'
  BY <1>1, <1>2, <1>3, <1>4, RecorderAssumption DEF ModelInv
<1>6. left' = Candidates' /\ Tried' = {}
  BY <1>1 DEF Candidates, Tried
<1> QED
  BY <1>1, <1>5, <1>6 DEF TuneInv, BestInv

LEMMA TunedStep ==
    ASSUME RecShape, ModelInv, TuneInv, Tuned
    PROVE  ModelInv' /\ ThresholdBest'
<1>1. /\ left = {} /\ threshold' = IF best = NoBest THEN 100 ELSE best.threshold
      /\ validation' = validation /\ means' = means /\ runs' = runs
  BY DEF Tuned, recording
<1>2. /\ \A t : Recall(t)' = Recall(t)
      /\ \A t : Allowed(t)' = Allowed(t)
  BY <1>1, LearningKept
<1>3. 100 \in Tried
  BY <1>1 DEF Tried, Candidates
<1>4. \A t \in 0..100 : Covered(t)
  BY <1>3 DEF TuneInv
<1>5. ASSUME NEW t \in 0..100, Allowed(t)
      PROVE  /\ Allowed(threshold') /\ Recall(t) <= Recall(threshold')
             /\ Recall(t) = Recall(threshold') => t <= threshold'
  <2>1. best # NoBest /\ Recall(t) <= best.recall
        /\ (Recall(t) = best.recall => t <= best.threshold)
    BY <1>4, <1>5 DEF Covered
  <2>2. threshold' = best.threshold /\ Allowed(best.threshold)
        /\ best.recall = Recall(best.threshold)
    BY <1>1, <2>1 DEF TuneInv, BestInv
  <2> QED
    BY <2>1, <2>2
<1>6. ThresholdBest'
  <2>1. \A t : (Recall(t)' = Recall(t)) /\ (Allowed(t)' = Allowed(t))
    BY <1>2
  <2> DEFINE th == threshold'
  <2> QED
    BY <1>5, <2>1 DEF ThresholdBest
<1>7. ModelInv'
  BY <1>1 DEF ModelInv
<1> QED
  BY <1>6, <1>7

\* The exit of a workload and a stuttering step change nothing that the threshold depends on.
LEMMA LearnKept ==
    ASSUME RecShape, LearnInv, LeaderExits \/ UNCHANGED recVars
    PROVE  LearnInv'
<1>1. UNCHANGED <<mode, phase, points, means, validation, left, best, threshold>>
  BY DEF LeaderExits, recVars, learning
<1>2. DOMAIN runs' = DOMAIN runs /\ \A r \in DOMAIN runs : runs'[r].row = runs[r].row
  <2>1. CASE LeaderExits
    <3>1. PICK q \in DOMAIN runs, how \in Exited :
            runs' = [runs EXCEPT ![q] = [runs[q] EXCEPT !.leader = how]]
      BY <2>1 DEF LeaderExits
    <3>2. \A r \in DOMAIN runs : runs[r] \in RunType
      BY RunFacts
    <3>3. DOMAIN runs' = DOMAIN runs
          /\ \A r \in DOMAIN runs : runs'[r] = IF r = q THEN [runs[q] EXCEPT !.leader = how] ELSE runs[r]
      BY <3>1 DEF RecShape
    <3>4. [runs[q] EXCEPT !.leader = how].row = runs[q].row
      BY <3>2 DEF RunType
    <3> QED
      BY <3>3, <3>4
  <2>2. CASE UNCHANGED recVars
    BY <2>2 DEF recVars, recording
  <2> QED
    BY <2>1, <2>2
<1>3. ASSUME ModelInv
      PROVE  /\ ModelInv'
             /\ \A t : Recall(t)' = Recall(t)
             /\ \A t : Allowed(t)' = Allowed(t)
  <2>1. \A r \in validation : runs'[r].row = runs[r].row
    BY <1>2, <1>3 DEF ModelInv
  <2>2. ModelInv'
    BY <1>1, <1>2, <1>3 DEF ModelInv
  <2> QED
    BY <1>1, <2>1, <2>2, LearningKept
<1>4. ASSUME ModelInv, TuneInv
      PROVE  TuneInv'
  <2>1. \A t : (Recall(t)' = Recall(t)) /\ (Allowed(t)' = Allowed(t))
    BY <1>3, <1>4
  <2>2. Candidates' = Candidates /\ Tried' = Tried
    BY <1>1 DEF Candidates, Tried
  <2>3. BestInv'
    BY <1>1, <1>4, <2>1 DEF BestInv, TuneInv
  <2>4. \A t : Covered(t) => Covered(t)'
    BY <1>1, <2>1 DEF Covered
  <2> QED
    BY <1>1, <1>4, <2>2, <2>3, <2>4 DEF TuneInv
<1>5. ASSUME ModelInv, ThresholdBest
      PROVE  ThresholdBest'
  <2>1. \A t : (Recall(t)' = Recall(t)) /\ (Allowed(t)' = Allowed(t))
    BY <1>3, <1>5
  <2> QED
    BY <1>1, <1>5, <2>1 DEF ThresholdBest
<1> QED
  BY <1>1, <1>2, <1>3, <1>4, <1>5 DEF LearnInv

LEMMA LearnStep ==
    ASSUME RecShape, LearnInv, [RecordNext]_recVars
    PROVE  LearnInv'
<1>1. CASE LeaderExits \/ UNCHANGED recVars
  BY <1>1, LearnKept
<1>2. CASE BuildFeatures
  <2>1. /\ phase' = "aborted" \/ phase' = mode
        /\ mode' = mode /\ runs' = runs /\ mode \in {"train", "score"}
        /\ phase' = "aborted" \/ points' = UNION {{r} \X (1..runs[r].rows.device) : r \in DOMAIN runs}
    BY <1>2 DEF BuildFeatures, recording, RecShape
  <2>2. phase' = "aborted" \/ \A p \in points' : p[1] \in DOMAIN runs'
    BY <2>1
  <2> QED
    BY <2>1, <2>2 DEF LearnInv
<1>3. CASE Train
  <2>1. phase' = "tune" /\ mode' = mode /\ phase = "train"
    BY <1>3 DEF Train
  <2>2. ModelInv' /\ TuneInv'
    BY <1>3, TrainStep
  <2> QED
    BY <2>1, <2>2 DEF LearnInv
<1>4. CASE TryCandidate
  <2>1. phase' = "tune" /\ mode' = mode /\ phase = "tune"
    BY <1>4 DEF TryCandidate
  <2>2. ModelInv' /\ TuneInv'
    BY <1>4, <2>1, TryCandidateStep DEF LearnInv
  <2> QED
    BY <2>1, <2>2 DEF LearnInv
<1>5. CASE Tuned
  <2>1. phase' = "done" /\ mode' = mode /\ phase = "tune"
    BY <1>5 DEF Tuned
  <2>2. ModelInv' /\ ThresholdBest'
    BY <1>5, <2>1, TunedStep DEF LearnInv
  <2> QED
    BY <2>1, <2>2 DEF LearnInv
<1>6. CASE ScorePoints
  BY <1>6 DEF ScorePoints, LearnInv
<1>7. CASE \/ SelectGpu \/ CreateRun \/ SpawnFails \/ Spawn \/ Tick \/ SampleDevice
           \/ SampleProcesses \/ PollExited \/ PollTimeout \/ PollAgain \/ Terminate \/ Reap
           \/ Finish \/ AppendManifest \/ TrainFails \/ Expire \/ Interrupt \/ StartAgain
  <2>1. phase' \notin {"train", "tune", "score", "done"}
    BY <1>7 DEF SelectGpu, CreateRun, SpawnFails, Spawn, Tick, SampleDevice, SampleProcesses,
       PollExited, PollTimeout, PollAgain, Terminate, Reap, Finish, AppendManifest, TrainFails,
       Expire, Interrupt, StartAgain
  <2> QED
    BY <2>1 DEF LearnInv
<1> QED
  BY <1>1, <1>2, <1>3, <1>4, <1>5, <1>6, <1>7 DEF RecordNext, Recorder

\* For every plan, runs, probabilities and bound on the false positive rate, the tuned threshold is
\* the best of all (tune_threshold).
THEOREM ThresholdBestHolds == RecordSpec => []ThresholdBest
<1>1. RecordInit => LearnInv
  BY DEF RecordInit, LearnInv
<1>2. RecordInv /\ LearnInv /\ [RecordNext]_recVars => LearnInv'
  BY LearnStep DEF RecordInv
<1>3. LearnInv => ThresholdBest
  BY DEF LearnInv, ThresholdBest
<1> QED
  BY <1>1, <1>2, <1>3, RecordInvariant, PTL DEF RecordSpec

-----------------------------------------------------------------------------
(* Dataset: the directories, the workers and the split, as they are between steps. *)

\* The ends of a removal, the places of a worker, and the captures that yield nothing.
Ending == {"publish", "skipped_empty", "skipped_unmapped"}
Pcs    == {"idle", "look", "manifest", "build", "rows", "remove", "publish"}
Barren == {"counted empty", "unlaunched", "unmapped"}

WorkType == [pc : Pcs, spec : {0} \cup Specs, then : {Nil} \cup Ending]

\* No rows, none yet, or a first one that stands for its own window.
RowsBegin(rows) == rows \in {Nil, <<>>} \/ (1 \in DOMAIN rows /\ rows[1].first)

Built(c) ==
    /\ c = [by |-> c.by, label |-> c.label, manifest |-> c.manifest, rows |-> c.rows, torn |-> c.torn,
            whole |-> c.whole]
    /\ c.by \in Nat \X Nat /\ c.by[1] <= builds
    /\ {c.manifest, c.torn, c.whole} \subseteq BOOLEAN /\ RowsBegin(c.rows)

Directory(d) ==
    /\ d = [name |-> d.name, pid |-> d.pid]
    /\ d.pid \in {NoPid} \cup ((1..builds) \X Workers)

\* The types, and that only a killed build ends in "killed".
DatasetShape ==
    /\ captures \in Seq(CaptureType) /\ {replace, training, everKilled} \subseteq BOOLEAN
    /\ status \in {"idle", "building", "built", "killed"} /\ builds \in 0..MaxBuilds
    /\ queue \in Seq(Specs) /\ worker \in [Workers -> WorkType]
    /\ outcome \in [Specs -> {Nil} \cup Results]
    /\ IsFiniteSet(DOMAIN dirs) /\ dirs = [d \in DOMAIN dirs |-> dirs[d]]
    /\ \A d \in DOMAIN dirs : Directory(d) /\ Built(dirs[d])
    /\ (status = "idle") <=> (builds = 0)
    /\ status = "killed" => everKilled

Busy(w) == worker[w].pc # "idle"

\* Each capture is at one place: in the queue, with one worker, or done.
PlaceInv ==
    /\ \A w \in Workers : Busy(w) =>
         /\ status = "building" /\ worker[w].spec \in Specs
         /\ outcome[worker[w].spec] = Nil /\ worker[w].spec \notin Range(queue)
    /\ \A v, w \in Workers : Busy(v) /\ Busy(w) /\ worker[v].spec = worker[w].spec => v = w
    /\ \A x, y \in DOMAIN queue : queue[x] = queue[y] => x = y
    /\ \A x \in DOMAIN queue : outcome[queue[x]] = Nil
    /\ \A w \in Workers : worker[w].pc = "remove" =>
         /\ worker[w].then \in Ending
         /\ worker[w].then # "publish" => replace /\ Capture(w).kind \in Barren

\* A worker that has a temporary directory.
Building(w) ==
    \/ worker[w].pc \in {"manifest", "build", "rows", "publish"}
    \/ worker[w].pc = "remove" /\ worker[w].then = "publish"

WrittenRows(w) ==
    LET all == WindowRows(Capture(w).windows)
    IN  \E m \in 0..Len(all) : dirs[Temp(w)].rows = SubSeq(all, 1, m)

\* A temporary directory belongs to the worker that builds it or to a killed build.  A workload that
\* is in its way is of this build, or there is still time to remove it.
TempInv ==
    /\ \A w \in Workers : Building(w) =>
         /\ Exists(Temp(w)) /\ dirs[Temp(w)].by = <<builds, worker[w].spec>>
         /\ worker[w].pc \in {"remove", "publish"} => dirs[Temp(w)].whole
         /\ worker[w].pc = "rows" => WrittenRows(w)
         /\ Exists(MyFinal(w)) => BuiltNow(MyFinal(w)) \/ (replace /\ worker[w].pc # "publish")
    /\ \A d \in DOMAIN dirs : d.pid # NoPid =>
         /\ dirs[d].by[1] = d.pid[1]
         /\ \/ \E w \in Workers : Building(w) /\ d = Temp(w)
            \/ everKilled /\ (status = "killed" \/ d.pid[1] < builds)

\* A workload is whole unless it is being removed or a build was killed, and those of this build
\* are what their captures came out as.
FinalInv ==
    \A d \in DOMAIN dirs : d.pid = NoPid =>
       /\ \/ dirs[d].whole
          \/ \E w \in Workers : worker[w].pc = "remove" /\ d = MyFinal(w)
          \/ everKilled /\ (status = "killed" \/ dirs[d].by[1] < builds)
       /\ builds > 0 /\ dirs[d].by[1] = builds =>
            /\ dirs[d].by[2] \in Specs /\ d = FinalDir(dirs[d].by[2])
            /\ outcome[dirs[d].by[2]] = "created"

\* A worker is about to publish d.
Coming(d) == \E w \in Workers : worker[w].pc = "publish" /\ MyFinal(w) = d

\* A result is true of the disk, but for a version that another capture of the name replaces.
GaveNothing == {"skipped_empty", "skipped_unmapped"}
ResultTrue(i) ==
    LET d == FinalDir(i) IN
    /\ outcome[i] = "created" => BuiltNow(d) \/ Coming(d) \/ (replace /\ GivenUp(d))
    /\ outcome[i] = "skipped" => ~replace /\ (Exists(d) \/ Coming(d))
    /\ outcome[i] \in GaveNothing /\ replace /\ Exists(d) => BuiltNow(d)

ResultInv == status # "killed" => \A i \in Specs : ResultTrue(i)

\* A split is one that MakeSplit can make of the directories as they are.
Divided(records) ==
    \/ \E a \in Assignments(records) :
          split = [s \in Splits |-> {r \in records : a[r.group] = s}]
    \/ split = [s \in Splits |-> IF s = "test" THEN records ELSE {}]

SplitInv ==
    /\ split # Nil => status \in {"built", "killed"}
    /\ split \notin {Nil, Error} =>
         \E unique \in BOOLEAN : ~Refused(unique) /\ Divided(RecordsOf(unique))

BuiltInv == status = "built" => \A i \in Specs : outcome[i] # Nil

-----------------------------------------------------------------------------
(* Directories and workers. *)

\* The functions dirs and worker, and what a change of one entry leaves.
LEMMA DirsWith ==
    ASSUME NEW d, NEW c
    PROVE  /\ DOMAIN With(d, c) = DOMAIN dirs \cup {d} /\ With(d, c)[d] = c
           /\ \A e \in DOMAIN dirs : e # d => With(d, c)[e] = dirs[e]
           /\ With(d, c) = [e \in DOMAIN With(d, c) |-> With(d, c)[e]]
BY DEF With

LEMMA DirsWithout ==
    ASSUME NEW d
    PROVE  /\ DOMAIN Without(d) = DOMAIN dirs \ {d}
           /\ \A e \in DOMAIN dirs : e # d => Without(d)[e] = dirs[e]
           /\ Without(d) = [e \in DOMAIN Without(d) |-> Without(d)[e]]
BY DEF Without, Restrict

\* A temporary directory is nobody's workload and nobody else's.
LEMMA TempApart ==
    ASSUME builds \in Nat \ {0}, NEW w \in Workers
    PROVE  /\ Temp(w).pid # NoPid /\ Temp(w).pid = <<builds, w>> /\ Temp(w).pid[1] = builds
           /\ \A v \in Workers : Temp(v) = Temp(w) => v = w
           /\ \A i : FinalDir(i) # Temp(w)
           /\ Temp(w) = [name |-> Temp(w).name, pid |-> Temp(w).pid]
<1>1. \A v : Temp(v) = [name |-> SpecName(worker[v].spec), pid |-> <<builds, v>>]
  BY DEF Temp
<1>2. \A i : FinalDir(i).pid = <<0, 0>>
  BY DEF FinalDir, Named, NoPid
<1>3. \A v : Temp(v).pid = <<builds, v>>
  BY <1>1
<1>4. <<builds, w>>[1] = builds /\ <<0, 0>>[1] = 0 /\ \A v : <<builds, v>>[2] = v
  OBVIOUS
<1>5. <<builds, w>> # <<0, 0>>
  BY <1>4
<1> QED
  BY <1>1, <1>2, <1>3, <1>4, <1>5, Zenon DEF NoPid

LEMMA FinalNamed ==
    /\ \A i : FinalDir(i).pid = NoPid /\ FinalDir(i).name = SpecName(i)
    /\ \A i : FinalDir(i) = [name |-> FinalDir(i).name, pid |-> FinalDir(i).pid]
    /\ \A i, j : FinalDir(i) = FinalDir(j) <=> SpecName(i) = SpecName(j)
BY DEF FinalDir, Named

\* The names do not change while the captures do not.
LEMMA NamesStay ==
    ASSUME captures' = captures
    PROVE  /\ Specs' = Specs
           /\ \A i : SpecName(i)' = SpecName(i) /\ FinalDir(i)' = FinalDir(i)
<1>1. \A i : SpecName(i)' = SpecName(i)
  BY DEF SpecName
<1>2. Specs' = Specs
  BY DEF Specs
<1> QED
  BY <1>1, <1>2, Zenon DEF FinalDir, Named

LEMMA TempStays ==
    ASSUME captures' = captures, builds' = builds, NEW v, worker'[v].spec = worker[v].spec
    PROVE  Temp(v)' = Temp(v) /\ MyFinal(v)' = MyFinal(v) /\ Capture(v)' = Capture(v)
BY DEF Temp, MyFinal, Capture, SpecName, FinalDir, Named

\* What the workers do, apart from what they do to directories.
LEMMA WorkerGoes ==
    ASSUME worker \in [Workers -> WorkType], NEW w \in Workers, NEW pc \in Pcs, Go(w, pc)
    PROVE  /\ worker' \in [Workers -> WorkType]
           /\ worker'[w] = [pc |-> pc, spec |-> worker[w].spec, then |-> worker[w].then]
           /\ \A v \in Workers : v # w => worker'[v] = worker[v]
<1>1. worker[w] \in WorkType
  OBVIOUS
<1>2. worker[w] = [pc |-> worker[w].pc, spec |-> worker[w].spec, then |-> worker[w].then]
  BY <1>1 DEF WorkType
<1>3. [worker[w] EXCEPT !.pc = pc] = [pc |-> pc, spec |-> worker[w].spec, then |-> worker[w].then]
  BY <1>2
<1>4. [worker[w] EXCEPT !.pc = pc] \in WorkType
  BY <1>1, <1>3 DEF WorkType
<1>5. worker' = [worker EXCEPT ![w] = [worker[w] EXCEPT !.pc = pc]]
  BY DEF Go
<1> HIDE DEF WorkType
<1> QED
  BY <1>3, <1>4, <1>5

LEMMA WorkerEnds ==
    ASSUME worker \in [Workers -> WorkType], outcome \in [Specs -> {Nil} \cup Results],
           NEW w \in Workers, worker[w].spec \in Specs, NEW r \in Results, Ends(w, r)
    PROVE  /\ worker' \in [Workers -> WorkType] /\ worker'[w] = Idle
           /\ \A v \in Workers : v # w => worker'[v] = worker[v]
           /\ outcome' \in [Specs -> {Nil} \cup Results] /\ outcome'[worker[w].spec] = r
           /\ \A i \in Specs : i # worker[w].spec => outcome'[i] = outcome[i]
<1>1. Idle \in WorkType
  BY DEF Idle, WorkType, Pcs
<1> HIDE DEF WorkType
<1> QED
  BY <1>1 DEF Ends

-----------------------------------------------------------------------------
(* The rows of a workload's manifest. *)

LEMMA LeastOf ==
    ASSUME NEW S \in SUBSET Nat, S # {}
    PROVE  \E x \in S : \A y \in S : x =< y
<1> DEFINE R == OpToRel(<, Nat)
<1>1. IsWellFoundedOn(R, Nat)
  BY NatLessThanWellFounded
<1>2. \A x, y \in Nat : (<<y, x>> \in R) <=> y < x
  BY DEF OpToRel
<1> HIDE DEF R
<1>3. PICK x \in S : \A y \in S : ~ (<<y, x>> \in R)
  BY <1>1, WFMin
<1>4. ASSUME NEW y \in S
      PROVE  x =< y
  <2>1. x \in Nat /\ y \in Nat
    OBVIOUS
  <2>2. ~ (y < x)
    BY <1>2, <1>3, <2>1, Zenon
  <2> QED
    BY <2>1, <2>2
<1> QED
  BY <1>4

\* There is a row, and the first one stands for its own window (the loop over windows in
\* write_l0_windows).
LEMMA WindowRowsBegin ==
    ASSUME NEW ws \in Seq(STRING), training \in BOOLEAN
    PROVE  LET all == WindowRows(ws) IN
           /\ Len(all) \in Nat \ {0} /\ DOMAIN all = 1..Len(all) /\ all[1].first
           /\ all \in Seq({all[x] : x \in DOMAIN all})
<1> DEFINE kept   == {k \in DOMAIN ws : training => FirstSeen(ws, k)}
           nth(x) == CHOOSE k \in kept : Cardinality({j \in kept : j < k}) = x - 1
           row(k) == [window |-> k, source |-> Source(ws, k), first |-> FirstSeen(ws, k)]
           all    == WindowRows(ws)
<1>1. CASE kept = {}
  <2>1. all = <<[window |-> 0, source |-> 0, first |-> TRUE]>>
    BY <1>1 DEF WindowRows
  <2> DEFINE e == [window |-> 0, source |-> 0, first |-> TRUE]
  <2> HIDE DEF all, kept, e
  <2>2. all = <<e>> /\ e.first
    BY <2>1 DEF e
  <2>3. Len(all) = 1 /\ DOMAIN all = 1..1 /\ all[1] = e
    BY <2>2
  <2>4. {all[x] : x \in DOMAIN all} = {e}
    BY <2>3
  <2>5. all \in Seq({e})
    BY <2>2
  <2> QED
    BY <2>2, <2>3, <2>4, <2>5 DEF all
<1>2. CASE kept # {}
  <2> DEFINE n == Cardinality(kept)
  <2>1. DOMAIN ws = 1..Len(ws) /\ Len(ws) \in Nat
    OBVIOUS
  <2>2. kept \subseteq Nat /\ kept \subseteq 1..Len(ws)
    BY <2>1
  <2>3. IsFiniteSet(kept) /\ n \in Nat \ {0}
    <3> HIDE DEF kept
    <3>1. IsFiniteSet(1..Len(ws))
      BY <2>1, FS_Interval
    <3> QED
      BY <1>2, <2>2, <3>1, FS_Subset, FS_CardinalityType, FS_EmptySet
  <2>4. all = [x \in 1..n |-> row(nth(x))]
    BY <1>2 DEF WindowRows
  <2>5. nth(1) \in kept /\ Cardinality({j \in kept : j < nth(1)}) = 0
    <3> DEFINE below(k) == Cardinality({j \in kept : j < k})
    <3>0. nth(1) = CHOOSE k \in kept : below(k) = 1 - 1
      OBVIOUS
    <3> HIDE DEF kept, nth, row, all, n, below
    <3>1. PICK k \in kept : \A j \in kept : k =< j
      BY <1>2, <2>2, LeastOf
    <3>2. {j \in kept : j < k} = {}
      <4>1. \A j \in kept : ~ (j < k)
        BY <2>2, <3>1
      <4> QED
        BY <4>1, Zenon
    <3>3. below(k) = 0 /\ 1 - 1 = 0
      BY <3>2, FS_EmptySet DEF below
    <3> HIDE DEF below
    <3>4. nth(1) \in kept /\ below(nth(1)) = 0
      BY <3>0, <3>3, Zenon
    <3> QED
      BY <3>4 DEF below
  <2>6. {j \in kept : j < nth(1)} = {}
    <3> HIDE DEF kept, nth
    <3>1. IsFiniteSet({j \in kept : j < nth(1)})
      BY <2>3, FS_Subset
    <3> QED
      BY <2>5, <3>1, FS_EmptySet
  <2>7. FirstSeen(ws, nth(1))
    <3>1. CASE training
      BY <2>5, <3>1
    <3>2. CASE ~training
      <4>1. kept = 1..Len(ws)
        BY <2>1, <3>2
      <4> HIDE DEF kept, nth, n, all, row
      <4>0. 1 \in kept /\ nth(1) \in Nat \ {0}
        BY <2>1, <2>5, <4>1
      <4>2. nth(1) = 1
        <5>1. ~ (1 < nth(1))
          BY <2>6, <4>0, Zenon
        <5> QED
          BY ONLY <4>0, <5>1
      <4> QED
        BY <4>2 DEF FirstSeen
    <3> QED
      BY <3>1, <3>2
  <2> DEFINE S == {all[x] : x \in DOMAIN all}
  <2> HIDE DEF kept, nth, row, all, n
  <2>8. DOMAIN all = 1..n /\ all[1] = row(nth(1))
    BY <2>3, <2>4
  <2>9. all \in [1..n -> S]
    BY <2>4, <2>8
  <2>10. all \in Seq(S) /\ Len(all) = n
    BY <2>3, <2>9
  <2>11. all[1].first
    BY <2>7, <2>8 DEF row
  <2> QED
    BY <2>3, <2>8, <2>10, <2>11 DEF all
<1> QED
  BY <1>1, <1>2

\* One row more of a prefix.
LEMMA OneRowMore ==
    ASSUME NEW ws \in Seq(STRING), training \in BOOLEAN, NEW m \in 0..Len(WindowRows(ws)),
           NEW done, done = SubSeq(WindowRows(ws), 1, m)
    PROVE  /\ RowsBegin(done) /\ Len(done) = m
           /\ m < Len(WindowRows(ws)) =>
                LET more == SubSeq(WindowRows(ws), 1, Len(done) + 1)
                IN  RowsBegin(more) /\ m + 1 \in 0..Len(WindowRows(ws))
<1> DEFINE all == WindowRows(ws)
           S   == {all[x] : x \in DOMAIN all}
<1>1. Len(all) \in Nat \ {0} /\ DOMAIN all = 1..Len(all) /\ all[1].first /\ all \in Seq(S)
  BY WindowRowsBegin
<1> HIDE DEF all
<1>2. ASSUME NEW k \in 0..Len(all)
      PROVE  /\ RowsBegin(SubSeq(all, 1, k)) /\ Len(SubSeq(all, 1, k)) = k
  <2>1. \A i \in 1..k : all[i] \in S
    BY <1>1
  <2>2. /\ SubSeq(all, 1, k) \in Seq(S) /\ Len(SubSeq(all, 1, k)) = IF 1 <= k THEN k - 1 + 1 ELSE 0
        /\ \A i \in 1..k - 1 + 1 : SubSeq(all, 1, k)[i] = all[1 + i - 1]
    BY <1>1, <2>1, SubSeqProperties
  <2> DEFINE q == SubSeq(all, 1, k)
  <2> HIDE DEF q, S
  <2>3. CASE k = 0
    <3>1. Len(q) = 0 /\ q \in Seq(S)
      BY <2>2, <2>3 DEF q
    <3>2. q = <<>>
      BY <3>1
    <3> QED
      BY <2>3, <3>1, <3>2 DEF q, RowsBegin
  <2>4. CASE k > 0
    <3>1. q[1] = all[1] /\ Len(q) = k /\ 1 \in DOMAIN q
      BY <1>1, <2>2, <2>4 DEF q
    <3> QED
      BY <1>1, <3>1 DEF q, RowsBegin
  <2> QED
    BY <2>3, <2>4, <1>1
<1>3. RowsBegin(done) /\ Len(done) = m
  BY <1>2 DEF all
<1>4. ASSUME m < Len(all)
      PROVE  RowsBegin(SubSeq(all, 1, Len(done) + 1)) /\ m + 1 \in 0..Len(all)
  <2>1. m + 1 \in 0..Len(all) /\ m \in Nat
    BY <1>1, <1>4 DEF all
  <2> QED
    BY <1>2, <1>3, <2>1
<1> QED
  BY <1>3, <1>4 DEF all

-----------------------------------------------------------------------------
(* Invariance, where no worker is at work. *)

DatasetInv == DatasetShape /\ PlaceInv /\ TempInv /\ FinalInv /\ ResultInv /\ BuiltInv

LEMMA DatasetInit == Init => DatasetInv
<1> SUFFICES ASSUME Init PROVE DatasetInv
  OBVIOUS
<1> USE DatasetAssumption
<1>0. PICK names \in Old : dirs = [d \in {Named(n) : n \in names} |-> OldContent]
  BY Zenon DEF Init
<1>1. captures \in Seq(CaptureType) /\ {replace, training, everKilled} \subseteq BOOLEAN
  BY DEF Init
<1>2. \A d \in DOMAIN dirs : dirs[d] = OldContent /\ d.pid = NoPid /\ d = [name |-> d.name, pid |-> d.pid]
  BY <1>0 DEF Named
<1>3. IsFiniteSet(DOMAIN dirs)
  <2> DEFINE f == [n \in names |-> Named(n)]
             T == {Named(n) : n \in names}
  <2>1. f \in Surjection(names, T)
    BY DEF Surjection
  <2>2. IsFiniteSet(names)
    OBVIOUS
  <2>3. IsFiniteSet(T)
    <3> HIDE DEF f, T
    <3> QED
      BY <2>1, <2>2, FS_Surjection
  <2> QED
    BY <1>0, <2>3
<1>4. Built(OldContent)
  BY DEF Built, OldContent, RowsBegin, Init
<1>5. \A d \in DOMAIN dirs : Directory(d) /\ Built(dirs[d])
  BY <1>2, <1>4 DEF Directory
<1>6. dirs = [d \in DOMAIN dirs |-> dirs[d]]
  BY <1>0
<1>7. \A w \in Workers : worker[w].pc = "idle"
  BY DEF Init, Idle
<1>8. DatasetShape
  <2>1. worker \in [Workers -> WorkType]
    BY DEF Init, Idle, WorkType, Pcs
  <2>2. queue \in Seq(Specs) /\ outcome \in [Specs -> {Nil} \cup Results]
    BY DEF Init
  <2>3. status = "idle" /\ builds = 0 /\ builds \in 0..MaxBuilds
    BY DEF Init
  <2> QED
    BY <1>1, <1>3, <1>5, <1>6, <2>1, <2>2, <2>3 DEF DatasetShape
<1>9. PlaceInv
  <2>1. queue = <<>> /\ DOMAIN queue = {}
    BY DEF Init
  <2> QED
    BY <1>7, <2>1, Zenon DEF PlaceInv, Busy
<1>10. TempInv
  BY <1>2, <1>7 DEF TempInv, Building
<1>11. FinalInv
  <2>1. \A d \in DOMAIN dirs : dirs[d].whole /\ builds = 0
    BY <1>2 DEF OldContent, Init
  <2> QED
    BY <2>1 DEF FinalInv
<1>12. ResultInv
  <2>1. \A i \in Specs : outcome[i] \notin Results
    BY DEF Init
  <2> QED
    BY <2>1 DEF ResultInv, ResultTrue, Results, GaveNothing
<1>13. BuiltInv
  BY DEF BuiltInv, Init
<1> QED
  BY <1>8, <1>9, <1>10, <1>11, <1>12, <1>13 DEF DatasetInv

LEMMA StartBuildKeeps ==
    ASSUME DatasetInv, StartBuild
    PROVE  DatasetInv'
<1> USE DatasetAssumption
<1>1. /\ captures' = captures /\ training' = training /\ everKilled' = everKilled
      /\ worker' = worker /\ dirs' = dirs /\ status' = "building" /\ builds' = builds + 1
      /\ replace' \in BOOLEAN /\ builds \in 0..MaxBuilds /\ builds' \in 0..MaxBuilds /\ builds' > 0
      /\ queue' = [i \in Specs |-> i] /\ outcome' = [i \in Specs |-> Nil]
  BY DEF StartBuild, DatasetInv, DatasetShape
<1>2. Specs' = Specs /\ DOMAIN captures = 1..Len(captures) /\ Len(captures) \in Nat
  BY <1>1 DEF Specs, DatasetInv, DatasetShape
<1>3. \A w \in Workers : worker[w].pc = "idle"
  BY DEF DatasetInv, PlaceInv, Busy, StartBuild
<1>4. DatasetShape'
  <2>1. \A d \in DOMAIN dirs : Directory(d)' /\ Built(dirs[d])'
    <3> SUFFICES ASSUME NEW d \in DOMAIN dirs PROVE Directory(d)' /\ Built(dirs[d])'
      OBVIOUS
    <3>1. Directory(d) /\ Built(dirs[d])
      BY DEF DatasetInv, DatasetShape
    <3>2. (1..builds) \X Workers \subseteq (1..builds') \X Workers
      BY <1>1
    <3> QED
      BY <1>1, <3>1, <3>2 DEF Directory, Built
  <2>2. queue' \in Seq(Specs)
    BY <1>1, <1>2 DEF Specs
  <2>3. worker' \in [Workers -> WorkType]'
    BY <1>1, <1>2 DEF WorkType, DatasetInv, DatasetShape
  <2> QED
    BY <1>1, <1>2, <2>1, <2>2, <2>3 DEF DatasetInv, DatasetShape
<1>5. PlaceInv'
  <2>1. \A w \in Workers : worker'[w].pc = "idle"
    BY <1>1, <1>3
  <2>2. \A x \in DOMAIN queue' : queue'[x] = x /\ outcome'[queue'[x]] = Nil
    BY <1>1
  <2> QED
    BY <2>1, <2>2 DEF PlaceInv, Busy
<1>6. TempInv'
  <2>1. \A d \in DOMAIN dirs : d.pid # NoPid => dirs[d].by[1] = d.pid[1] /\ everKilled /\ d.pid[1] < builds'
    <3> SUFFICES ASSUME NEW d \in DOMAIN dirs, d.pid # NoPid
                 PROVE  dirs[d].by[1] = d.pid[1] /\ everKilled /\ d.pid[1] < builds'
      OBVIOUS
    <3>1. dirs[d].by[1] = d.pid[1] /\ everKilled
      BY <1>3 DEF DatasetInv, TempInv, Building
    <3>2. d.pid \in (1..builds) \X Workers
      BY DEF DatasetInv, DatasetShape, Directory
    <3> QED
      BY <1>1, <3>1, <3>2
  <2> QED
    BY <1>1, <1>3, <2>1 DEF TempInv, Building
<1>7. FinalInv'
  <2>1. \A d \in DOMAIN dirs : dirs[d].by[1] < builds'
    BY <1>1 DEF DatasetInv, DatasetShape, Built
  <2>2. \A d \in DOMAIN dirs : d.pid = NoPid => dirs[d].whole \/ everKilled
    BY <1>3 DEF DatasetInv, FinalInv
  <2>3. \A d \in DOMAIN dirs : dirs[d].by[1] # builds'
    BY <1>1, <2>1 DEF DatasetInv, DatasetShape, Built
  <2> QED
    BY <1>1, <2>1, <2>2, <2>3 DEF FinalInv
<1>8. ResultInv'
  <2>1. \A i \in Specs' : outcome'[i] \notin Results
    BY <1>1, <1>2
  <2> QED
    BY <2>1 DEF ResultInv, ResultTrue, Results, GaveNothing
<1>9. BuiltInv'
  BY <1>1 DEF BuiltInv
<1> QED
  BY <1>4, <1>5, <1>6, <1>7, <1>8, <1>9 DEF DatasetInv

\* Steps that leave workers, directories and results alone.
LEMMA QuietKeeps ==
    ASSUME DatasetInv, UNCHANGED <<captures, replace, training, builds, everKilled, queue, worker, dirs, outcome>>,
           status' = status \/ FinishBuild
    PROVE  DatasetInv'
<1>1. /\ captures' = captures /\ replace' = replace /\ training' = training /\ builds' = builds
      /\ everKilled' = everKilled /\ queue' = queue /\ worker' = worker /\ dirs' = dirs /\ outcome' = outcome
  OBVIOUS
<1>2. FinishBuild => status = "building" /\ status' = "built" /\ \A i \in Specs : outcome[i] # Nil
  BY DEF FinishBuild
<1>3. Specs' = Specs /\ \A i : SpecName(i)' = SpecName(i) /\ FinalDir(i)' = FinalDir(i)
  BY <1>1, NamesStay
<1>4. \A v : Temp(v)' = Temp(v) /\ MyFinal(v)' = MyFinal(v) /\ Capture(v)' = Capture(v)
  BY <1>1, TempStays
<1>5. DatasetShape'
  BY <1>1, <1>2, <1>3 DEF DatasetInv, DatasetShape, Directory, Built, WorkType
<1>6. PlaceInv'
  <2>1. status' = status \/ \A w \in Workers : ~Busy(w)
    BY <1>2 DEF DatasetInv, PlaceInv
  <2> QED
    BY <1>1, <1>3, <1>4, <2>1 DEF DatasetInv, PlaceInv, Busy
<1>7. \A w \in Workers : Building(w)' = Building(w)
  BY <1>1 DEF Building
<1>8. \A w \in Workers : WrittenRows(w)' = WrittenRows(w)
  BY <1>1 DEF WrittenRows, WindowRows, Temp, Capture, SpecName, FirstSeen, Source
<1>9. TempInv'
  BY <1>1, <1>2, <1>3, <1>4, <1>7, <1>8 DEF DatasetInv, TempInv, Exists, BuiltNow
<1>10. FinalInv'
  BY <1>1, <1>2, <1>3, <1>4 DEF DatasetInv, FinalInv
<1>11. ResultInv'
  <2>1. status # "killed" \/ status' = "killed"
    BY <1>2
  <2>2. ASSUME NEW i \in Specs, ResultTrue(i) PROVE ResultTrue(i)'
    <3>1. PICK d : d = FinalDir(i) /\ FinalDir(i)' = d
      BY <1>3
    <3>2. BuiltNow(d)' = BuiltNow(d) /\ Exists(d)' = Exists(d)
      BY <1>1 DEF BuiltNow, Exists
    <3>3. Coming(d)' = Coming(d)
      BY <1>1, <1>4 DEF Coming
    <3>4. GivenUp(d)' = GivenUp(d)
      BY <1>1, <1>3 DEF GivenUp
    <3> QED
      BY <1>1, <2>2, <3>1, <3>2, <3>3, <3>4 DEF ResultTrue
  <2> QED
    BY <1>3, <2>1, <2>2 DEF DatasetInv, ResultInv
<1>12. BuiltInv'
  BY <1>1, <1>2, <1>3 DEF DatasetInv, BuiltInv
<1> QED
  BY <1>5, <1>6, <1>9, <1>10, <1>11, <1>12 DEF DatasetInv

\* A directory with a cut-off file is still what it was.
LEMMA CutStill ==
    ASSUME NEW c, Built(c)
    PROVE  LET cut == [c EXCEPT !.manifest = TRUE, !.torn = TRUE]
           IN  Built(cut) /\ cut.by = c.by /\ cut.whole = c.whole
<1>1. c = [by |-> c.by, label |-> c.label, manifest |-> c.manifest, rows |-> c.rows, torn |-> c.torn,
           whole |-> c.whole]
  BY DEF Built
<1>2. \A x, y : [[c EXCEPT !.manifest = x] EXCEPT !.torn = y]
        = [by |-> c.by, label |-> c.label, manifest |-> x, rows |-> c.rows, torn |-> y, whole |-> c.whole]
  <2> TAKE x, y
  <2>1. [c EXCEPT !.manifest = x]
          = [by |-> c.by, label |-> c.label, manifest |-> x, rows |-> c.rows, torn |-> c.torn, whole |-> c.whole]
    BY <1>1
  <2>2. [[by |-> c.by, label |-> c.label, manifest |-> x, rows |-> c.rows, torn |-> c.torn, whole |-> c.whole] EXCEPT !.torn = y]
          = [by |-> c.by, label |-> c.label, manifest |-> x, rows |-> c.rows, torn |-> y, whole |-> c.whole]
    OBVIOUS
  <2> QED
    BY <2>1, <2>2, Zenon
<1>3. PICK b : b = TRUE
  OBVIOUS
<1>4. [[c EXCEPT !.manifest = b] EXCEPT !.torn = b]
        = [by |-> c.by, label |-> c.label, manifest |-> b, rows |-> c.rows, torn |-> b, whole |-> c.whole]
  BY <1>2
<1>5. c.by \in Nat \X Nat /\ c.by[1] <= builds /\ c.whole \in BOOLEAN /\ RowsBegin(c.rows)
  BY DEF Built
<1> HIDE DEF RowsBegin
<1>6. /\ Built([[c EXCEPT !.manifest = b] EXCEPT !.torn = b])
      /\ [[c EXCEPT !.manifest = b] EXCEPT !.torn = b].by = c.by
      /\ [[c EXCEPT !.manifest = b] EXCEPT !.torn = b].whole = c.whole
  <2>1. Built([by |-> c.by, label |-> c.label, manifest |-> b, rows |-> c.rows, torn |-> b, whole |-> c.whole])
    BY <1>3, <1>5 DEF Built
  <2> QED
    BY <1>4, <2>1
<1> QED
  BY <1>3, <1>6, Zenon

\* A kill cuts off files in temporary directories only.
LEMMA KillCuts ==
    ASSUME DatasetInv, Kill
    PROVE  /\ DOMAIN dirs' = DOMAIN dirs /\ dirs' = [d \in DOMAIN dirs' |-> dirs'[d]]
           /\ \A d \in DOMAIN dirs : Built(dirs'[d]) /\ dirs'[d].by = dirs[d].by
           /\ \A d \in DOMAIN dirs : d.pid = NoPid => dirs'[d] = dirs[d]
<1>1. PICK cut \in SUBSET Workers : dirs' = TornBy(cut)
  BY Zenon DEF Kill
<1>2. builds \in Nat \ {0}
  BY DatasetAssumption DEF DatasetInv, DatasetShape, Kill
<1>3. \A w \in cut : Temp(w).pid # NoPid
  BY <1>2, TempApart
<1>4. /\ DOMAIN dirs' = DOMAIN dirs /\ dirs' = [d \in DOMAIN dirs' |-> dirs'[d]]
      /\ \A d \in DOMAIN dirs :
           dirs'[d] = IF \E w \in cut : d = Temp(w)
                      THEN [dirs[d] EXCEPT !.manifest = TRUE, !.torn = TRUE] ELSE dirs[d]
  BY <1>1 DEF TornBy
<1>5. ASSUME NEW d \in DOMAIN dirs
      PROVE  Built(dirs'[d]) /\ dirs'[d].by = dirs[d].by
  <2> DEFINE c == dirs[d]
  <2>1. Built(c)
    BY DEF DatasetInv, DatasetShape
  <2>2. dirs'[d] = c \/ dirs'[d] = [c EXCEPT !.manifest = TRUE, !.torn = TRUE]
    BY <1>4
  <2> HIDE DEF c
  <2>3. Built(dirs'[d]) /\ dirs'[d].by = c.by
    BY <2>1, <2>2, CutStill
  <2> QED
    BY <2>3 DEF c
<1>6. \A d \in DOMAIN dirs : d.pid = NoPid => dirs'[d] = dirs[d]
  BY <1>3, <1>4
<1> QED
  BY <1>4, <1>5, <1>6

LEMMA KillKeeps ==
    ASSUME DatasetInv, Kill
    PROVE  DatasetInv'
<1>1. /\ captures' = captures /\ replace' = replace /\ training' = training /\ builds' = builds
      /\ everKilled' = TRUE /\ status' = "killed" /\ status = "building" /\ queue' = <<>>
      /\ worker' = [w \in Workers |-> Idle] /\ outcome' = outcome
  BY DEF Kill
<1>2. /\ DOMAIN dirs' = DOMAIN dirs /\ dirs' = [d \in DOMAIN dirs' |-> dirs'[d]]
      /\ \A d \in DOMAIN dirs : Built(dirs'[d]) /\ dirs'[d].by = dirs[d].by
      /\ \A d \in DOMAIN dirs : d.pid = NoPid => dirs'[d] = dirs[d]
  BY KillCuts
<1>3. \A w \in Workers : worker'[w] = Idle /\ worker'[w].pc = "idle"
  BY <1>1 DEF Idle
<1>4. Specs' = Specs /\ \A i : SpecName(i)' = SpecName(i) /\ FinalDir(i)' = FinalDir(i)
  BY <1>1, NamesStay
<1>5. DatasetShape'
  <2>1. worker' \in [Workers -> WorkType]'
    BY <1>1 DEF Idle, WorkType, Pcs
  <2>2. \A d \in DOMAIN dirs' : Directory(d)' /\ Built(dirs[d])'
    BY <1>1, <1>2 DEF DatasetInv, DatasetShape, Directory, Built
  <2>3. status' \in {"idle", "building", "built", "killed"} /\ (status' = "idle" <=> builds' = 0)
    BY <1>1 DEF DatasetInv, DatasetShape
  <2> QED
    BY <1>1, <1>2, <1>4, <2>1, <2>2, <2>3 DEF DatasetInv, DatasetShape
<1>6. PlaceInv'
  <2>1. DOMAIN queue' = {}
    BY <1>1
  <2> QED
    BY <1>3, <2>1 DEF PlaceInv, Busy
<1>7. TempInv'
  BY <1>1, <1>2, <1>3 DEF DatasetInv, TempInv, Building
<1>8. FinalInv'
  <2> SUFFICES ASSUME NEW d \in DOMAIN dirs', d.pid = NoPid
               PROVE  builds > 0 /\ dirs'[d].by[1] = builds =>
                        /\ dirs'[d].by[2] \in Specs' /\ d = (FinalDir(dirs[d].by[2]))'
                        /\ outcome'[dirs'[d].by[2]] = "created"
    BY <1>1 DEF FinalInv
  <2>1. (FinalDir(dirs[d].by[2]))' = FinalDir(dirs'[d].by[2])
    BY <1>1 DEF FinalDir, Named, SpecName
  <2> QED
    BY <1>1, <1>2, <1>4, <2>1 DEF DatasetInv, FinalInv
<1>9. ResultInv' /\ BuiltInv'
  BY <1>1 DEF ResultInv, BuiltInv
<1> QED
  BY <1>5, <1>6, <1>7, <1>8, <1>9 DEF DatasetInv

-----------------------------------------------------------------------------
(* Invariance, where a worker takes a step. *)

\* Worker w goes on with its capture or ends it.
Continues(w) == worker'[w].pc # "idle" /\ worker'[w].spec = worker[w].spec /\ outcome' = outcome
EndsIts(w)   == worker'[w] = Idle /\ outcome'[worker[w].spec] \in Results

\* It does so without touching other workers' captures or directories.
WorkStep(w) ==
    /\ status = "building" /\ Busy(w)
    /\ UNCHANGED <<captures, replace, training, status, builds, everKilled, queue>>
    /\ worker' \in [Workers -> WorkType] /\ outcome' \in [Specs -> {Nil} \cup Results]
    /\ \A v \in Workers : v # w => worker'[v] = worker[v]
    /\ \A i \in Specs : i # worker[w].spec => outcome'[i] = outcome[i]
    /\ Continues(w) \/ EndsIts(w)
    /\ IsFiniteSet(DOMAIN dirs') /\ dirs' = [d \in DOMAIN dirs' |-> dirs'[d]]
    /\ \A d \in DOMAIN dirs' : d \notin {Temp(w), MyFinal(w)} => d \in DOMAIN dirs /\ dirs'[d] = dirs[d]
    /\ \A d \in DOMAIN dirs : d \notin {Temp(w), MyFinal(w)} => d \in DOMAIN dirs'
    /\ \A d \in DOMAIN dirs' : d \in {Temp(w), MyFinal(w)} => Built(dirs'[d])

LEMMA InWork ==
    ASSUME DatasetInv, NEW w \in Workers, status = "building", Busy(w)
    PROVE  /\ builds \in Nat \ {0} /\ worker[w] \in WorkType /\ worker[w].spec \in Specs
           /\ outcome[worker[w].spec] = Nil /\ Nil \notin Results /\ Capture(w) \in CaptureType
           /\ \A v \in Workers : Busy(v) /\ v # w => worker[v].spec # worker[w].spec
<1>1. /\ worker[w].spec \in Specs /\ outcome[worker[w].spec] = Nil
      /\ \A v \in Workers : Busy(v) /\ v # w => worker[v].spec # worker[w].spec
  BY DEF DatasetInv, PlaceInv
<1>2. builds \in Nat \ {0} /\ worker[w] \in WorkType
  BY DatasetAssumption DEF DatasetInv, DatasetShape
<1>3. Capture(w) \in CaptureType
  <2>1. captures \in Seq(CaptureType)
    BY DEF DatasetInv, DatasetShape
  <2> HIDE DEF CaptureType
  <2> QED
    BY <1>1, <2>1 DEF Capture, Specs
<1> QED
  BY <1>1, <1>2, <1>3, DatasetAssumption

LEMMA DirsStay ==
    ASSUME DatasetInv, NEW w \in Workers, WorkStep(w)
    PROVE  DatasetShape' /\ BuiltInv'
<1>1. builds \in Nat \ {0}
  BY InWork DEF WorkStep
<1>2. Specs' = Specs /\ captures' = captures /\ builds' = builds
  BY DEF WorkStep, Specs
<1>3. ASSUME NEW d \in DOMAIN dirs'
      PROVE  Directory(d)' /\ Built(dirs[d])'
  <2>1. (Directory(d) <=> Directory(d)') /\ (Built(dirs'[d]) <=> Built(dirs[d])')
    BY <1>2 DEF Directory, Built
  <2>2. CASE d = Temp(w)
    <3>1. Built(dirs'[d])
      BY <2>2 DEF WorkStep
    <3>2. Temp(w) = [name |-> Temp(w).name, pid |-> Temp(w).pid] /\ Temp(w).pid = <<builds, w>>
      BY <1>1, TempApart
    <3>3. <<builds, w>> \in (1..builds) \X Workers
      BY <1>1
    <3> QED
      BY <2>1, <2>2, <3>1, <3>2, <3>3 DEF Directory
  <2>3. CASE d = MyFinal(w)
    <3>1. Built(dirs'[d])
      BY <2>3 DEF WorkStep
    <3>2. d = [name |-> d.name, pid |-> d.pid] /\ d.pid = NoPid
      BY <2>3, FinalNamed DEF MyFinal
    <3> QED
      BY <2>1, <3>1, <3>2 DEF Directory
  <2>4. CASE d \notin {Temp(w), MyFinal(w)}
    <3>1. d \in DOMAIN dirs /\ dirs'[d] = dirs[d]
      BY <2>4, Zenon DEF WorkStep
    <3>2. Directory(d) /\ Built(dirs[d])
      BY <3>1 DEF DatasetInv, DatasetShape
    <3> QED
      BY <2>1, <3>1, <3>2
  <2> QED
    BY <2>2, <2>3, <2>4
<1>4. DatasetShape'
  BY <1>2, <1>3 DEF DatasetInv, DatasetShape, WorkStep, WorkType
<1>5. BuiltInv'
  BY DEF BuiltInv, WorkStep
<1> QED
  BY <1>4, <1>5

LEMMA PlaceStep ==
    ASSUME DatasetInv, NEW w \in Workers, WorkStep(w),
           worker'[w].pc = "remove" =>
             /\ worker'[w].then \in Ending
             /\ worker'[w].then # "publish" => replace /\ Capture(w).kind \in Barren
    PROVE  PlaceInv'
<1>1. /\ captures' = captures /\ queue' = queue /\ status' = status /\ replace' = replace
      /\ status = "building" /\ Busy(w)
      /\ \A v \in Workers : v # w => worker'[v] = worker[v]
      /\ \A i \in Specs : i # worker[w].spec => outcome'[i] = outcome[i]
  BY DEF WorkStep
<1>2. Specs' = Specs
  BY <1>1 DEF Specs
<1>3. /\ worker[w].spec \in Specs /\ outcome[worker[w].spec] = Nil
      /\ \A v \in Workers : Busy(v) /\ v # w => worker[v].spec # worker[w].spec
  BY <1>1, InWork
<1>4. worker[w].spec \notin Range(queue)
  BY <1>1 DEF DatasetInv, PlaceInv
<1>5. \A v \in Workers : Busy(v)' => Busy(v) /\ worker'[v].spec = worker[v].spec
  BY <1>1 DEF WorkStep, Continues, EndsIts, Busy, Idle
<1>6. Busy(w)' => outcome' = outcome
  BY DEF WorkStep, Continues, EndsIts, Busy, Idle
<1>7. \A x \in DOMAIN queue : queue[x] \in Specs /\ queue[x] # worker[w].spec
  BY <1>4 DEF Range, DatasetInv, DatasetShape
<1>8. \A v \in Workers : Busy(v)' =>
         /\ status' = "building" /\ worker'[v].spec \in Specs'
         /\ outcome'[worker'[v].spec] = Nil /\ worker'[v].spec \notin Range(queue')
  <2> SUFFICES ASSUME NEW v \in Workers, Busy(v)'
               PROVE  /\ status' = "building" /\ worker'[v].spec \in Specs'
                      /\ outcome'[worker'[v].spec] = Nil /\ worker'[v].spec \notin Range(queue')
    OBVIOUS
  <2>1. Busy(v) /\ worker'[v].spec = worker[v].spec
    BY <1>5
  <2>2. worker[v].spec \in Specs /\ outcome[worker[v].spec] = Nil /\ worker[v].spec \notin Range(queue)
    BY <2>1 DEF DatasetInv, PlaceInv
  <2>3. outcome'[worker[v].spec] = outcome[worker[v].spec]
    BY <1>1, <1>3, <1>6, <2>1, <2>2
  <2> QED
    BY <1>1, <1>2, <2>1, <2>2, <2>3
<1>9. \A v, u \in Workers : Busy(v)' /\ Busy(u)' /\ worker'[v].spec = worker'[u].spec => v = u
  BY <1>5 DEF DatasetInv, PlaceInv
<1>10. \A x, y \in DOMAIN queue' : queue'[x] = queue'[y] => x = y
  BY <1>1 DEF DatasetInv, PlaceInv
<1>11. \A x \in DOMAIN queue' : outcome'[queue'[x]] = Nil
  BY <1>1, <1>7 DEF DatasetInv, PlaceInv
<1>12. \A v \in Workers : worker'[v].pc = "remove" =>
         /\ worker'[v].then \in Ending
         /\ worker'[v].then # "publish" => replace' /\ Capture(v)'.kind \in Barren
  <2> SUFFICES ASSUME NEW v \in Workers, worker'[v].pc = "remove"
               PROVE  /\ worker'[v].then \in Ending
                      /\ worker'[v].then # "publish" => replace' /\ Capture(v)'.kind \in Barren
    OBVIOUS
  <2>1. Busy(v)'
    BY DEF Busy
  <2>2. Capture(v)' = Capture(v)
    BY <1>1, <1>5, <2>1 DEF Capture
  <2>3. CASE v = w
    BY <1>1, <2>2, <2>3
  <2>4. CASE v # w
    BY <1>1, <2>2, <2>4 DEF DatasetInv, PlaceInv
  <2> QED
    BY <2>3, <2>4
<1> QED
  BY <1>8, <1>9, <1>10, <1>11, <1>12 DEF PlaceInv

\* TempInv is up to the worker's own temporary directory.
LEMMA TempStep ==
    ASSUME DatasetInv, NEW w \in Workers, WorkStep(w),
           Building(w)' =>
             /\ Temp(w) \in DOMAIN dirs' /\ dirs'[Temp(w)].by = <<builds, worker[w].spec>>
             /\ worker'[w].pc \in {"remove", "publish"} => dirs'[Temp(w)].whole
             /\ worker'[w].pc = "rows" =>
                  \E m \in 0..Len(WindowRows(Capture(w).windows)) :
                     dirs'[Temp(w)].rows = SubSeq(WindowRows(Capture(w).windows), 1, m)
             /\ MyFinal(w) \in DOMAIN dirs' =>
                  dirs'[MyFinal(w)].by[1] = builds \/ (replace /\ worker'[w].pc # "publish"),
           MyFinal(w) \in DOMAIN dirs' =>
             \/ MyFinal(w) \in DOMAIN dirs /\ dirs'[MyFinal(w)].by = dirs[MyFinal(w)].by
             \/ dirs'[MyFinal(w)].by[1] = builds,
           Temp(w) \in DOMAIN dirs' => Building(w)'
    PROVE  TempInv'
<1>1. /\ captures' = captures /\ status' = status /\ replace' = replace /\ builds' = builds
      /\ everKilled' = everKilled /\ training' = training /\ status = "building" /\ Busy(w)
      /\ \A v \in Workers : v # w => worker'[v] = worker[v]
      /\ \A d \in DOMAIN dirs' : d \notin {Temp(w), MyFinal(w)} => d \in DOMAIN dirs /\ dirs'[d] = dirs[d]
      /\ \A d \in DOMAIN dirs : d \notin {Temp(w), MyFinal(w)} => d \in DOMAIN dirs'
  BY DEF WorkStep
<1>2. /\ builds \in Nat \ {0} /\ worker[w].spec \in Specs
      /\ \A v \in Workers : Busy(v) /\ v # w => worker[v].spec # worker[w].spec
  BY <1>1, InWork
<1>4. \A i : SpecName(i)' = SpecName(i)
  BY <1>1, NamesStay
<1>5. ASSUME NEW v \in Workers, worker'[v].spec = worker[v].spec
      PROVE  Temp(v)' = Temp(v) /\ MyFinal(v)' = MyFinal(v) /\ Capture(v)' = Capture(v)
  BY <1>1, <1>5, TempStays
<1>6. \A ws : WindowRows(ws)' = WindowRows(ws)
  BY <1>1 DEF WindowRows, FirstSeen, Source
<1>7. Building(w)' => worker'[w].spec = worker[w].spec
  BY DEF WorkStep, Continues, EndsIts, Building, Idle
<1>8. \A v \in Workers : v # w => Temp(v) # Temp(w) /\ Temp(v) # MyFinal(w) /\ Temp(v).pid # NoPid
  BY <1>2, TempApart DEF MyFinal
<1>9. ASSUME NEW v \in Workers, Building(v)'
      PROVE  /\ Exists(Temp(v))' /\ dirs'[Temp(v)'].by = <<builds', worker'[v].spec>>
             /\ worker'[v].pc \in {"remove", "publish"} => dirs'[Temp(v)'].whole
             /\ worker'[v].pc = "rows" => WrittenRows(v)'
             /\ Exists(MyFinal(v))' => BuiltNow(MyFinal(v))' \/ (replace' /\ worker'[v].pc # "publish")
  <2>1. CASE v = w
    <3>1. worker'[w].spec = worker[w].spec
      BY <1>7, <1>9, <2>1
    <3>2. Temp(w)' = Temp(w) /\ MyFinal(w)' = MyFinal(w) /\ Capture(w)' = Capture(w)
      BY <1>5, <3>1
    <3>3. WindowRows(Capture(w).windows)' = WindowRows(Capture(w).windows)
      <4>1. WindowRows(Capture(w).windows)' = WindowRows(Capture(w)'.windows)
        BY <1>1 DEF WindowRows, FirstSeen, Source
      <4> QED
        BY <3>2, <4>1
    <3>4. worker'[w].pc = "rows" => WrittenRows(w)'
      BY <1>9, <2>1, <3>2, <3>3, Zenon DEF WrittenRows
    <3> QED
      BY <1>1, <1>9, <2>1, <3>1, <3>2, <3>4 DEF Exists, BuiltNow
  <2>2. CASE v # w
    <3>1. worker'[v] = worker[v] /\ Building(v) /\ Busy(v)
      BY <1>1, <1>9, <2>2 DEF Building, Busy
    <3>2. Temp(v)' = Temp(v) /\ MyFinal(v)' = MyFinal(v) /\ Capture(v)' = Capture(v)
      BY <1>5, <3>1
    <3>3. Temp(v) \in DOMAIN dirs /\ Temp(v) \in DOMAIN dirs' /\ dirs'[Temp(v)] = dirs[Temp(v)]
      <4>1. Temp(v) \in DOMAIN dirs
        BY <3>1 DEF DatasetInv, TempInv, Exists
      <4>2. Temp(v) \notin {Temp(w), MyFinal(w)}
        BY <1>8, <2>2
      <4> QED
        BY <1>1, <4>1, <4>2, Zenon
    <3>4. WrittenRows(v) => WrittenRows(v)'
      <4>1. WindowRows(Capture(v).windows)' = WindowRows(Capture(v)'.windows)
        BY <1>1 DEF WindowRows, FirstSeen, Source
      <4>2. WindowRows(Capture(v).windows)' = WindowRows(Capture(v).windows)
        BY <3>2, <4>1
      <4> QED
        BY <3>2, <3>3, <4>2, Zenon DEF WrittenRows
    <3>5. ASSUME MyFinal(v) \in DOMAIN dirs'
          PROVE  dirs'[MyFinal(v)].by[1] = builds \/ (replace /\ worker[v].pc # "publish")
      <4>1. MyFinal(v) \in DOMAIN dirs =>
              dirs[MyFinal(v)].by[1] = builds \/ (replace /\ worker[v].pc # "publish")
        BY <3>1 DEF DatasetInv, TempInv, Exists, BuiltNow
      <4>2. CASE MyFinal(v) = MyFinal(w)
        BY <3>5, <4>1, <4>2
      <4>3. CASE MyFinal(v) # MyFinal(w)
        <5>1. MyFinal(v) # Temp(w)
          BY <1>2, TempApart DEF MyFinal
        <5> QED
          BY <1>1, <3>5, <4>1, <4>3, <5>1
      <4> QED
        BY <4>2, <4>3
    <3> QED
      <4>1. /\ dirs[Temp(v)].by = <<builds, worker[v].spec>>
            /\ worker[v].pc \in {"remove", "publish"} => dirs[Temp(v)].whole
            /\ worker[v].pc = "rows" => WrittenRows(v)
        BY <3>1 DEF DatasetInv, TempInv
      <4> QED
        BY <1>1, <3>1, <3>2, <3>3, <3>4, <3>5, <4>1 DEF Exists, BuiltNow
  <2> QED
    BY <2>1, <2>2
<1>10. ASSUME NEW d \in DOMAIN dirs', d.pid # NoPid
       PROVE  /\ dirs'[d].by[1] = d.pid[1]
              /\ \/ \E v \in Workers : Building(v)' /\ d = Temp(v)'
                 \/ everKilled' /\ (status' = "killed" \/ d.pid[1] < builds')
  <2>1. CASE d = Temp(w)
    <3>1. Building(w)' /\ worker'[w].spec = worker[w].spec
      BY <1>7, <1>10, <2>1
    <3>2. Temp(w)' = Temp(w) /\ Temp(w).pid[1] = builds
      BY <1>2, <1>5, <3>1, TempApart
    <3>3. dirs'[Temp(w)].by = <<builds, worker[w].spec>>
      BY <3>1
    <3> QED
      BY <2>1, <3>1, <3>2, <3>3
  <2>2. CASE d # Temp(w)
    <3>1. d # MyFinal(w)
      BY <1>10, FinalNamed DEF MyFinal
    <3>2. d \in DOMAIN dirs /\ dirs'[d] = dirs[d]
      BY <1>1, <1>10, <2>2, <3>1
    <3>3. /\ dirs[d].by[1] = d.pid[1]
          /\ \/ \E v \in Workers : Building(v) /\ d = Temp(v)
             \/ everKilled /\ (status = "killed" \/ d.pid[1] < builds)
      BY <1>10, <3>2 DEF DatasetInv, TempInv
    <3>4. ASSUME NEW v \in Workers, Building(v), d = Temp(v)
          PROVE  Building(v)' /\ d = Temp(v)'
      <4>1. v # w
        BY <2>2, <3>4
      <4>2. worker'[v] = worker[v]
        BY <1>1, <4>1
      <4> QED
        BY <1>5, <3>4, <4>2 DEF Building
    <3> QED
      BY <1>1, <3>2, <3>3, <3>4
  <2> QED
    BY <2>1, <2>2
<1> QED
  BY <1>9, <1>10 DEF TempInv

\* FinalInv is up to the workload the worker builds.
LEMMA FinalStep ==
    ASSUME DatasetInv, NEW w \in Workers, WorkStep(w),
           MyFinal(w) \in DOMAIN dirs' =>
             /\ \/ dirs'[MyFinal(w)].whole
                \/ worker'[w].pc = "remove"
                \/ /\ MyFinal(w) \in DOMAIN dirs /\ dirs'[MyFinal(w)] = dirs[MyFinal(w)]
                   /\ worker[w].pc # "remove"
             /\ \/ MyFinal(w) \in DOMAIN dirs /\ dirs'[MyFinal(w)].by = dirs[MyFinal(w)].by
                \/ /\ dirs'[MyFinal(w)].by = <<builds, worker[w].spec>>
                   /\ outcome'[worker[w].spec] = "created"
    PROVE  FinalInv'
<1> DEFINE own == worker[w].spec
<1>1. /\ captures' = captures /\ status' = status /\ replace' = replace /\ builds' = builds
      /\ everKilled' = everKilled /\ status = "building" /\ Busy(w)
      /\ \A v \in Workers : v # w => worker'[v] = worker[v]
      /\ \A i \in Specs : i # own => outcome'[i] = outcome[i]
      /\ \A d \in DOMAIN dirs' : d \notin {Temp(w), MyFinal(w)} => d \in DOMAIN dirs /\ dirs'[d] = dirs[d]
      /\ \A d \in DOMAIN dirs : d \notin {Temp(w), MyFinal(w)} => d \in DOMAIN dirs'
  BY DEF WorkStep
<1>2. builds \in Nat \ {0} /\ own \in Specs /\ outcome[own] = Nil /\ Nil \notin Results
  BY <1>1, InWork
<1>3. Specs' = Specs /\ \A i : SpecName(i)' = SpecName(i) /\ FinalDir(i)' = FinalDir(i)
  BY <1>1, NamesStay
<1>4. Temp(w).pid # NoPid /\ MyFinal(w) = FinalDir(own) /\ \A i : FinalDir(i) # Temp(w)
  BY <1>2, TempApart DEF MyFinal
<1>5. ASSUME NEW v \in Workers, v # w
      PROVE  worker'[v] = worker[v] /\ MyFinal(v)' = MyFinal(v)
  <2>1. worker'[v] = worker[v]
    BY <1>1, <1>5
  <2> QED
    BY <1>1, <2>1, TempStays
<1>6. worker'[w].pc = "remove" => MyFinal(w)' = MyFinal(w)
  <2>1. worker'[w].pc = "remove" => worker'[w].spec = worker[w].spec
    BY DEF WorkStep, Continues, EndsIts, Idle
  <2> QED
    BY <1>1, <2>1, TempStays
<1>7. \A i \in Specs : outcome[i] = "created" => i # own /\ outcome'[i] = "created"
  BY <1>1, <1>2 DEF Results
<1>8. ASSUME NEW d \in DOMAIN dirs', d.pid = NoPid
      PROVE  /\ \/ dirs'[d].whole
                \/ \E v \in Workers : worker'[v].pc = "remove" /\ d = MyFinal(v)'
                \/ everKilled' /\ (status' = "killed" \/ dirs'[d].by[1] < builds')
             /\ builds' > 0 /\ dirs'[d].by[1] = builds' =>
                  /\ dirs'[d].by[2] \in Specs' /\ d = FinalDir(dirs'[d].by[2])
                  /\ outcome'[dirs'[d].by[2]] = "created"
  <2>1. d # Temp(w)
    BY <1>4, <1>8
  <2>2. d \in DOMAIN dirs =>
           /\ \/ dirs[d].whole
              \/ \E v \in Workers : worker[v].pc = "remove" /\ d = MyFinal(v)
              \/ everKilled /\ (status = "killed" \/ dirs[d].by[1] < builds)
           /\ builds > 0 /\ dirs[d].by[1] = builds =>
                /\ dirs[d].by[2] \in Specs /\ d = FinalDir(dirs[d].by[2])
                /\ outcome[dirs[d].by[2]] = "created"
    BY <1>8 DEF DatasetInv, FinalInv
  <2>3. ASSUME d \in DOMAIN dirs, dirs'[d] = dirs[d], d # MyFinal(w) \/ worker[w].pc # "remove"
        PROVE  \/ dirs'[d].whole
               \/ \E v \in Workers : worker'[v].pc = "remove" /\ d = MyFinal(v)'
               \/ everKilled' /\ (status' = "killed" \/ dirs'[d].by[1] < builds')
    <3>1. ASSUME NEW v \in Workers, worker[v].pc = "remove", d = MyFinal(v)
          PROVE  worker'[v].pc = "remove" /\ d = MyFinal(v)'
      <4>1. v # w
        BY <2>3, <3>1
      <4> QED
        BY <1>5, <3>1, <4>1
    <3> QED
      BY <1>1, <2>2, <2>3, <3>1
  <2>4. ASSUME d \in DOMAIN dirs, dirs'[d].by = dirs[d].by, dirs'[d].by[1] = builds'
        PROVE  /\ dirs'[d].by[2] \in Specs' /\ d = FinalDir(dirs'[d].by[2])
               /\ outcome'[dirs'[d].by[2]] = "created"
    <3>1. /\ dirs[d].by[2] \in Specs /\ d = FinalDir(dirs[d].by[2])
          /\ outcome[dirs[d].by[2]] = "created"
      BY <1>1, <1>2, <2>2, <2>4
    <3> QED
      BY <1>3, <1>7, <2>4, <3>1
  <2>5. CASE d # MyFinal(w)
    <3>1. d \in DOMAIN dirs /\ dirs'[d] = dirs[d]
      BY <1>1, <1>8, <2>1, <2>5
    <3> QED
      BY <2>3, <2>4, <2>5, <3>1
  <2>6. CASE d = MyFinal(w)
    <3>1. \/ dirs'[d].whole
          \/ \E v \in Workers : worker'[v].pc = "remove" /\ d = MyFinal(v)'
          \/ everKilled' /\ (status' = "killed" \/ dirs'[d].by[1] < builds')
      <4>1. CASE dirs'[d].whole
        BY <4>1
      <4>2. CASE worker'[w].pc = "remove"
        BY <1>6, <2>6, <4>2
      <4>3. CASE d \in DOMAIN dirs /\ dirs'[d] = dirs[d] /\ worker[w].pc # "remove"
        BY <2>3, <4>3
      <4> QED
        BY <1>8, <2>6, <4>1, <4>2, <4>3
    <3>2. ASSUME dirs'[d].by[1] = builds'
          PROVE  /\ dirs'[d].by[2] \in Specs' /\ d = FinalDir(dirs'[d].by[2])
                 /\ outcome'[dirs'[d].by[2]] = "created"
      <4>1. CASE d \in DOMAIN dirs /\ dirs'[d].by = dirs[d].by
        BY <2>4, <3>2, <4>1
      <4>2. CASE dirs'[d].by = <<builds, own>> /\ outcome'[own] = "created"
        <5>1. dirs'[d].by[2] = own
          BY <4>2
        <5> QED
          BY <1>2, <1>3, <1>4, <2>6, <4>2, <5>1
      <4> QED
        BY <1>8, <2>6, <4>1, <4>2
    <3> QED
      BY <3>1, <3>2
  <2> QED
    BY <2>5, <2>6
<1>9. \A d \in DOMAIN dirs' : d.pid = NoPid =>
         /\ \/ dirs'[d].whole
            \/ \E v \in Workers : worker'[v].pc = "remove" /\ d = MyFinal(v)'
            \/ everKilled' /\ (status' = "killed" \/ dirs'[d].by[1] < builds')
         /\ builds' > 0 /\ dirs'[d].by[1] = builds' =>
              /\ dirs'[d].by[2] \in Specs' /\ d = (FinalDir(dirs[d].by[2]))'
              /\ outcome'[dirs'[d].by[2]] = "created"
  <2>1. \A d : (FinalDir(dirs[d].by[2]))' = FinalDir(dirs'[d].by[2])
    BY <1>1 DEF FinalDir, Named, SpecName
  <2> QED
    BY <1>8, <2>1, Zenon
<1> QED
  BY <1>9 DEF FinalInv

\* What a worker's step does to the workload of its name: it is removed only to be replaced or
\* because the capture gave nothing, it is there once a version is published, and the worker's own
\* result is true.
Honest(w) ==
    LET d == MyFinal(w)  result == outcome'[worker[w].spec] IN
    /\ d \in DOMAIN dirs' => \/ d \in DOMAIN dirs /\ dirs'[d].by = dirs[d].by
                            \/ dirs'[d].by[1] = builds
    /\ d \in DOMAIN dirs /\ d \notin DOMAIN dirs' =>
         worker'[w].pc = "publish" \/ (replace /\ result \in GaveNothing)
    /\ worker[w].pc = "publish" \/ result = "created" => d \in DOMAIN dirs' /\ dirs'[d].by[1] = builds
    /\ result = "skipped" => ~replace /\ d \in DOMAIN dirs'
    /\ result \in GaveNothing /\ replace => d \notin DOMAIN dirs'

\* ResultInv is up to the worker's own workload and result.
LEMMA ResultStep ==
    ASSUME DatasetInv, NEW w \in Workers, WorkStep(w), Honest(w)
    PROVE  ResultInv'
<1> DEFINE own     == worker[w].spec
           Here(d) == d \in DOMAIN dirs'
           New(d)  == d \in DOMAIN dirs' /\ dirs'[d].by[1] = builds
           Gone(d) == \E i \in Specs : FinalDir(i) = d /\ outcome'[i] \in GaveNothing
           Near(d) == \E v \in Workers : worker'[v].pc = "publish" /\ MyFinal(v)' = d
<1>1. /\ captures' = captures /\ status' = status /\ replace' = replace /\ builds' = builds
      /\ status = "building" /\ Busy(w)
      /\ \A v \in Workers : v # w => worker'[v] = worker[v]
      /\ \A i \in Specs : i # own => outcome'[i] = outcome[i]
      /\ \A d \in DOMAIN dirs' : d \notin {Temp(w), MyFinal(w)} => d \in DOMAIN dirs /\ dirs'[d] = dirs[d]
      /\ \A d \in DOMAIN dirs : d \notin {Temp(w), MyFinal(w)} => d \in DOMAIN dirs'
  BY DEF WorkStep
<1>2. builds \in Nat \ {0} /\ own \in Specs /\ outcome[own] = Nil /\ Nil \notin Results
  BY <1>1, InWork
<1>3. Specs' = Specs /\ \A i : FinalDir(i)' = FinalDir(i)
  BY <1>1, NamesStay
<1>4. PICK F : F = MyFinal(w)
  OBVIOUS
<1>5. F = FinalDir(own) /\ \A i : FinalDir(i) # Temp(w)
  BY <1>2, <1>4, TempApart DEF MyFinal
<1>6. \A v \in Workers : v # w => worker'[v] = worker[v] /\ MyFinal(v)' = MyFinal(v)
  BY <1>1, TempStays
<1>7. worker'[w].pc = "publish" => MyFinal(w)' = F
  <2>1. worker'[w].pc = "publish" => worker'[w].spec = worker[w].spec
    BY DEF WorkStep, Continues, EndsIts, Idle
  <2> QED
    BY <1>1, <1>4, <2>1, TempStays
<1>8. /\ F \in DOMAIN dirs' => \/ F \in DOMAIN dirs /\ dirs'[F].by = dirs[F].by
                               \/ dirs'[F].by[1] = builds
      /\ F \in DOMAIN dirs /\ F \notin DOMAIN dirs' =>
           worker'[w].pc = "publish" \/ (replace /\ outcome'[own] \in GaveNothing)
      /\ worker[w].pc = "publish" \/ outcome'[own] = "created" => New(F)
      /\ outcome'[own] = "skipped" => ~replace /\ Here(F)
      /\ outcome'[own] \in GaveNothing /\ replace => ~Here(F)
  BY <1>4 DEF Honest
\* A result that is true in these terms is true of the next state.
<1>9. ASSUME NEW i \in Specs, NEW d, d = FinalDir(i),
             outcome'[i] = "created" => New(d) \/ Near(d) \/ (replace /\ Gone(d)),
             outcome'[i] = "skipped" => ~replace /\ (Here(d) \/ Near(d)),
             outcome'[i] \in GaveNothing /\ replace /\ Here(d) => New(d)
      PROVE  ResultTrue(i)'
  <2>1. FinalDir(i)' = d
    BY <1>3, <1>9
  <2>2. BuiltNow(d)' <=> New(d)
    BY <1>1 DEF BuiltNow, Exists
  <2>3. Exists(d)' <=> Here(d)
    BY DEF Exists
  <2>4. GivenUp(d)' <=> Gone(d)
    BY <1>3 DEF GivenUp, GaveNothing
  <2>5. Coming(d)' <=> Near(d)
    BY DEF Coming
  <2> HIDE DEF Here, New, Gone, Near
  <2> QED
    BY <1>1, <1>9, <2>1, <2>2, <2>3, <2>4, <2>5 DEF ResultTrue, GaveNothing
<1>10. ASSUME NEW d, GivenUp(d) PROVE Gone(d)
  <2>1. PICK i \in Specs : FinalDir(i) = d /\ outcome[i] \in GaveNothing
    BY <1>10 DEF GivenUp, GaveNothing
  <2>2. i # own
    BY <1>2, <2>1 DEF GaveNothing, Results
  <2> QED
    BY <1>1, <2>1, <2>2
<1>11. ASSUME NEW d, Coming(d), d # F PROVE Near(d)
  <2>1. PICK v \in Workers : worker[v].pc = "publish" /\ MyFinal(v) = d
    BY <1>11 DEF Coming
  <2> QED
    BY <1>4, <1>6, <1>11, <2>1
<1>12. /\ worker'[w].pc = "publish" => Near(F)
       /\ outcome'[own] \in GaveNothing => Gone(F)
  BY <1>2, <1>5, <1>7
<1>13. BuiltNow(F) \/ Coming(F) => New(F) \/ Near(F) \/ (replace /\ Gone(F))
  <2>1. CASE BuiltNow(F)
    <3>1. F \in DOMAIN dirs /\ dirs[F].by[1] = builds
      BY <2>1 DEF BuiltNow, Exists
    <3>2. F \in DOMAIN dirs' => New(F)
      BY <1>8, <3>1
    <3>3. F \notin DOMAIN dirs' => worker'[w].pc = "publish" \/ (replace /\ outcome'[own] \in GaveNothing)
      BY <1>8, <3>1
    <3> HIDE DEF New, Gone, Near
    <3> QED
      BY <1>12, <3>2, <3>3
  <2>2. CASE Coming(F)
    <3>1. PICK v \in Workers : worker[v].pc = "publish" /\ MyFinal(v) = F
      BY <2>2 DEF Coming
    <3>2. CASE v = w
      BY <1>8, <3>1, <3>2
    <3>3. CASE v # w
      BY <1>6, <3>1, <3>3
    <3> QED
      BY <3>2, <3>3
  <2> QED
    BY <2>1, <2>2
<1>14. ~replace /\ (Exists(F) \/ Coming(F)) => Here(F) \/ Near(F)
  <2>1. New(F) => Here(F)
    OBVIOUS
  <2>2. Exists(F) /\ ~replace => Here(F) \/ worker'[w].pc = "publish"
    BY <1>8 DEF Exists
  <2> HIDE DEF Here, New, Gone, Near
  <2> QED
    BY <1>12, <1>13, <2>1, <2>2
<1>15. (Exists(F) => BuiltNow(F)) /\ Here(F) => New(F)
  BY <1>8 DEF Exists, BuiltNow
<1>16. \A i \in Specs : ResultTrue(i)
  BY <1>1 DEF DatasetInv, ResultInv
<1>17. ASSUME NEW i \in Specs PROVE ResultTrue(i)'
  <2>1. PICK d : d = FinalDir(i)
    OBVIOUS
  <2>2. /\ outcome[i] = "created" => BuiltNow(d) \/ Coming(d) \/ (replace /\ GivenUp(d))
        /\ outcome[i] = "skipped" => ~replace /\ (Exists(d) \/ Coming(d))
        /\ outcome[i] \in GaveNothing /\ replace /\ Exists(d) => BuiltNow(d)
    BY <1>16, <2>1 DEF ResultTrue
  <2>3. CASE d # F
    <3>1. outcome'[i] = outcome[i] /\ d \notin {Temp(w), MyFinal(w)}
      BY <1>1, <1>4, <1>5, <2>1, <2>3
    <3>2. (d \in DOMAIN dirs' <=> d \in DOMAIN dirs) /\ (d \in DOMAIN dirs' => dirs'[d] = dirs[d])
      BY <1>1, <3>1
    <3>3. (BuiltNow(d) <=> New(d)) /\ (Exists(d) <=> Here(d))
      BY <3>2 DEF BuiltNow, Exists
    <3>4. (GivenUp(d) => Gone(d)) /\ (Coming(d) => Near(d))
      BY <1>10, <1>11, <2>3
    <3> HIDE DEF Here, New, Gone, Near
    <3> QED
      BY <1>9, <2>1, <2>2, <3>1, <3>3, <3>4
  <2>4. CASE d = F /\ i = own
    <3>1. /\ outcome'[i] = "created" => New(d)
          /\ outcome'[i] = "skipped" => ~replace /\ Here(d)
          /\ outcome'[i] \in GaveNothing /\ replace => ~Here(d)
      BY <1>8, <2>4
    <3> HIDE DEF Here, New, Gone, Near
    <3> QED
      BY <1>9, <2>1, <3>1
  <2>5. CASE d = F /\ i # own
    <3>1. outcome'[i] = outcome[i]
      BY <1>1, <2>5
    <3>2. GivenUp(F) => Gone(F)
      BY <1>10
    <3> HIDE DEF Here, New, Gone, Near
    <3> QED
      BY <1>9, <1>13, <1>14, <1>15, <2>1, <2>2, <2>5, <3>1, <3>2
  <2>6. d # F => i # own
    BY <1>5, <2>1
  <2> QED
    BY <2>3, <2>4, <2>5, <2>6
<1> QED
  BY <1>3, <1>17 DEF ResultInv

\* The four together, as one obligation of an action.
LEMMA StepKeeps ==
    ASSUME DatasetInv, NEW w \in Workers, WorkStep(w), PlaceInv', TempInv', FinalInv', ResultInv'
    PROVE  DatasetInv'
BY DirsStay DEF DatasetInv

-----------------------------------------------------------------------------
(* The steps of a worker, one by one. *)

\* What holds of a worker at work.
LEMMA AtWork ==
    ASSUME DatasetInv, NEW w \in Workers, status = "building", Busy(w)
    PROVE  /\ worker[w].spec \in Specs /\ outcome[worker[w].spec] = Nil /\ Nil \notin Results
           /\ Capture(w) \in CaptureType /\ builds \in Nat \ {0}
           /\ worker \in [Workers -> WorkType] /\ outcome \in [Specs -> {Nil} \cup Results]
           /\ IsFiniteSet(DOMAIN dirs) /\ dirs = [d \in DOMAIN dirs |-> dirs[d]]
           /\ \A d \in DOMAIN dirs : Built(dirs[d])
           /\ Temp(w) # MyFinal(w) /\ (Temp(w) \in DOMAIN dirs <=> Building(w))
           /\ Building(w) => dirs[Temp(w)].by = <<builds, worker[w].spec>>
           /\ Building(w) /\ worker[w].pc \in {"remove", "publish"} => dirs[Temp(w)].whole
           /\ Building(w) /\ worker[w].pc = "rows" => WrittenRows(w)
           /\ Building(w) /\ MyFinal(w) \in DOMAIN dirs =>
                dirs[MyFinal(w)].by[1] = builds \/ (replace /\ worker[w].pc # "publish")
<1>1. builds \in Nat \ {0}
  BY InWork
<1>2. Temp(w) # MyFinal(w) /\ Temp(w).pid # NoPid /\ Temp(w).pid[1] = builds
      /\ \A v \in Workers : Temp(v) = Temp(w) => v = w
  BY <1>1, TempApart DEF MyFinal
<1>3. Temp(w) \in DOMAIN dirs => Building(w)
  <2> SUFFICES ASSUME Temp(w) \in DOMAIN dirs PROVE Building(w)
    OBVIOUS
  <2>1. (\E v \in Workers : Building(v) /\ Temp(w) = Temp(v)) \/ status = "killed" \/ Temp(w).pid[1] < builds
    BY <1>2 DEF DatasetInv, TempInv
  <2> QED
    BY <1>1, <1>2, <2>1
<1>4. Building(w) =>
        /\ Temp(w) \in DOMAIN dirs /\ dirs[Temp(w)].by = <<builds, worker[w].spec>>
        /\ worker[w].pc \in {"remove", "publish"} => dirs[Temp(w)].whole
        /\ worker[w].pc = "rows" => WrittenRows(w)
        /\ MyFinal(w) \in DOMAIN dirs =>
             dirs[MyFinal(w)].by[1] = builds \/ (replace /\ worker[w].pc # "publish")
  BY DEF DatasetInv, TempInv, Exists, BuiltNow
<1>5. /\ worker \in [Workers -> WorkType] /\ outcome \in [Specs -> {Nil} \cup Results]
      /\ IsFiniteSet(DOMAIN dirs) /\ dirs = [d \in DOMAIN dirs |-> dirs[d]]
      /\ \A d \in DOMAIN dirs : Built(dirs[d])
  BY DEF DatasetInv, DatasetShape
<1> QED
  BY <1>1, <1>2, <1>3, <1>4, <1>5, InWork, Zenon

\* What an action has to show.
LEMMA ActionKeeps ==
    ASSUME DatasetInv, NEW w \in Workers, WorkStep(w),
           worker'[w].pc = "remove" =>
             /\ worker'[w].then \in Ending
             /\ worker'[w].then # "publish" => replace /\ Capture(w).kind \in Barren,
           Building(w)' =>
             /\ Temp(w) \in DOMAIN dirs' /\ dirs'[Temp(w)].by = <<builds, worker[w].spec>>
             /\ worker'[w].pc \in {"remove", "publish"} => dirs'[Temp(w)].whole
             /\ worker'[w].pc = "rows" =>
                  \E m \in 0..Len(WindowRows(Capture(w).windows)) :
                     dirs'[Temp(w)].rows = SubSeq(WindowRows(Capture(w).windows), 1, m)
             /\ MyFinal(w) \in DOMAIN dirs' =>
                  dirs'[MyFinal(w)].by[1] = builds \/ (replace /\ worker'[w].pc # "publish"),
           Temp(w) \in DOMAIN dirs' => Building(w)',
           MyFinal(w) \in DOMAIN dirs' =>
             /\ \/ dirs'[MyFinal(w)].whole
                \/ worker'[w].pc = "remove"
                \/ /\ MyFinal(w) \in DOMAIN dirs /\ dirs'[MyFinal(w)] = dirs[MyFinal(w)]
                   /\ worker[w].pc # "remove"
             /\ \/ MyFinal(w) \in DOMAIN dirs /\ dirs'[MyFinal(w)].by = dirs[MyFinal(w)].by
                \/ /\ dirs'[MyFinal(w)].by = <<builds, worker[w].spec>>
                   /\ outcome'[worker[w].spec] = "created",
           Honest(w)
    PROVE  DatasetInv'
<1>1. PlaceInv'
  BY PlaceStep
<1>2. TempInv'
  <2>1. MyFinal(w) \in DOMAIN dirs' =>
          \/ MyFinal(w) \in DOMAIN dirs /\ dirs'[MyFinal(w)].by = dirs[MyFinal(w)].by
          \/ dirs'[MyFinal(w)].by[1] = builds
    BY DEF Honest
  <2> QED
    BY <2>1, TempStep
<1>3. FinalInv'
  BY FinalStep
<1>4. ResultInv'
  BY ResultStep
<1> QED
  BY <1>1, <1>2, <1>3, <1>4, StepKeeps

\* Ending a capture: nothing is removed or built any more.
LEMMA EndKeeps ==
    ASSUME DatasetInv, NEW w \in Workers, status = "building", Busy(w), NEW r \in Results, Ends(w, r),
           UNCHANGED <<buildVars, queue>>,
           \/ dirs' = dirs /\ Temp(w) \notin DOMAIN dirs
           \/ dirs' = Without(Temp(w)),
           r # "created", r = "skipped" => ~replace /\ MyFinal(w) \in DOMAIN dirs,
           r \in {"skipped_empty", "skipped_unmapped"} /\ replace => MyFinal(w) \notin DOMAIN dirs,
           worker[w].pc # "remove" \/ MyFinal(w) \notin DOMAIN dirs,
           worker[w].pc = "publish" => MyFinal(w) \in DOMAIN dirs
    PROVE  DatasetInv'
<1>1. /\ worker[w].spec \in Specs /\ outcome[worker[w].spec] = Nil /\ Nil \notin Results
      /\ worker \in [Workers -> WorkType] /\ outcome \in [Specs -> {Nil} \cup Results]
      /\ IsFiniteSet(DOMAIN dirs) /\ dirs = [d \in DOMAIN dirs |-> dirs[d]]
      /\ \A d \in DOMAIN dirs : Built(dirs[d])
      /\ Temp(w) # MyFinal(w)
      /\ Building(w) /\ MyFinal(w) \in DOMAIN dirs =>
           dirs[MyFinal(w)].by[1] = builds \/ (replace /\ worker[w].pc # "publish")
  BY AtWork
<1>2. /\ worker' \in [Workers -> WorkType] /\ worker'[w] = Idle
      /\ \A v \in Workers : v # w => worker'[v] = worker[v]
      /\ outcome' \in [Specs -> {Nil} \cup Results] /\ outcome'[worker[w].spec] = r
      /\ \A i \in Specs : i # worker[w].spec => outcome'[i] = outcome[i]
  BY <1>1, WorkerEnds
<1>3. /\ captures' = captures /\ replace' = replace /\ training' = training /\ status' = status
      /\ builds' = builds /\ everKilled' = everKilled /\ queue' = queue
  BY DEF buildVars
<1>4. /\ Temp(w) \notin DOMAIN dirs' /\ DOMAIN dirs' = DOMAIN dirs \ {Temp(w)}
      /\ \A d \in DOMAIN dirs' : dirs'[d] = dirs[d]
      /\ dirs' = [d \in DOMAIN dirs' |-> dirs'[d]]
  <2>1. CASE dirs' = dirs /\ Temp(w) \notin DOMAIN dirs
    BY <1>1, <2>1
  <2>2. CASE dirs' = Without(Temp(w))
    <3>1. /\ DOMAIN dirs' = DOMAIN dirs \ {Temp(w)}
          /\ \A e \in DOMAIN dirs : e # Temp(w) => dirs'[e] = dirs[e]
          /\ dirs' = [e \in DOMAIN dirs' |-> dirs'[e]]
      BY <2>2, DirsWithout, Zenon
    <3> QED
      BY <3>1
  <2> QED
    BY <2>1, <2>2
<1>5. IsFiniteSet(DOMAIN dirs')
  BY <1>1, <1>4, FS_Subset
<1>6. worker'[w].pc = "idle"
  BY <1>2 DEF Idle
<1>7. WorkStep(w)
  <2>1. EndsIts(w)
    BY <1>2 DEF EndsIts
  <2>2. \A d \in DOMAIN dirs' : d \in {Temp(w), MyFinal(w)} => Built(dirs'[d])
    BY <1>1, <1>4
  <2> QED
    BY <1>2, <1>3, <1>4, <1>5, <2>1, <2>2 DEF WorkStep
<1>8. ~Building(w)'
  BY <1>6 DEF Building
<1>9. MyFinal(w) \in DOMAIN dirs' =>
        /\ MyFinal(w) \in DOMAIN dirs /\ dirs'[MyFinal(w)] = dirs[MyFinal(w)] /\ worker[w].pc # "remove"
        /\ dirs'[MyFinal(w)].by = dirs[MyFinal(w)].by
  BY <1>4
<1>10. worker[w].pc = "publish" => MyFinal(w) \in DOMAIN dirs' /\ dirs'[MyFinal(w)].by[1] = builds
  <2>1. worker[w].pc = "publish" => Building(w)
    BY DEF Building
  <2> QED
    BY <1>1, <1>4, <2>1
<1>11. Honest(w)
  BY <1>1, <1>2, <1>4, <1>9, <1>10 DEF Honest, GaveNothing
<1> QED
  BY <1>4, <1>6, <1>7, <1>8, <1>9, <1>11, ActionKeeps

\* Going to overwrite with nothing.
LEMMA RemoveKeeps ==
    ASSUME DatasetInv, NEW w \in Workers, status = "building", Busy(w),
           NEW r \in {"skipped_empty", "skipped_unmapped"},
           worker' = [worker EXCEPT ![w].pc = "remove", ![w].then = r], outcome' = outcome,
           replace, Capture(w).kind \in Barren, worker[w].pc # "publish",
           UNCHANGED <<buildVars, queue>>,
           \/ dirs' = dirs /\ Temp(w) \notin DOMAIN dirs
           \/ dirs' = Without(Temp(w))
    PROVE  DatasetInv'
<1>1. /\ worker[w].spec \in Specs /\ outcome[worker[w].spec] = Nil /\ Nil \notin Results
      /\ worker \in [Workers -> WorkType] /\ outcome \in [Specs -> {Nil} \cup Results]
      /\ IsFiniteSet(DOMAIN dirs) /\ dirs = [d \in DOMAIN dirs |-> dirs[d]]
      /\ \A d \in DOMAIN dirs : Built(dirs[d])
      /\ Temp(w) # MyFinal(w)
  BY AtWork
<1>2. /\ worker' \in [Workers -> WorkType]
      /\ worker'[w] = [pc |-> "remove", spec |-> worker[w].spec, then |-> r]
      /\ \A v \in Workers : v # w => worker'[v] = worker[v]
  <2>1. worker[w] \in WorkType /\ worker[w].spec \in {0} \cup Specs
    BY <1>1 DEF WorkType
  <2>2. [[worker[w] EXCEPT !.pc = "remove"] EXCEPT !.then = r]
          = [pc |-> "remove", spec |-> worker[w].spec, then |-> r]
    <3>1. worker[w] = [pc |-> worker[w].pc, spec |-> worker[w].spec, then |-> worker[w].then]
      BY <2>1 DEF WorkType
    <3>2. [worker[w] EXCEPT !.pc = "remove"]
            = [pc |-> "remove", spec |-> worker[w].spec, then |-> worker[w].then]
      BY <3>1
    <3>3. [[pc |-> "remove", spec |-> worker[w].spec, then |-> worker[w].then] EXCEPT !.then = r]
            = [pc |-> "remove", spec |-> worker[w].spec, then |-> r]
      OBVIOUS
    <3> QED
      BY <3>2, <3>3
  <2>3. [pc |-> "remove", spec |-> worker[w].spec, then |-> r] \in WorkType
    BY <2>1 DEF WorkType, Pcs, Ending
  <2>4. worker' = [worker EXCEPT ![w] = [[worker[w] EXCEPT !.pc = "remove"] EXCEPT !.then = r]]
    BY <1>1
  <2> HIDE DEF WorkType
  <2> QED
    BY <1>1, <2>2, <2>3, <2>4
<1>3. /\ captures' = captures /\ replace' = replace /\ training' = training /\ status' = status
      /\ builds' = builds /\ everKilled' = everKilled /\ queue' = queue
  BY DEF buildVars
<1>4. /\ Temp(w) \notin DOMAIN dirs' /\ DOMAIN dirs' = DOMAIN dirs \ {Temp(w)}
      /\ \A d \in DOMAIN dirs' : dirs'[d] = dirs[d]
      /\ dirs' = [d \in DOMAIN dirs' |-> dirs'[d]]
  <2>1. CASE dirs' = dirs /\ Temp(w) \notin DOMAIN dirs
    BY <1>1, <2>1
  <2>2. CASE dirs' = Without(Temp(w))
    <3>1. /\ DOMAIN dirs' = DOMAIN dirs \ {Temp(w)}
          /\ \A e \in DOMAIN dirs : e # Temp(w) => dirs'[e] = dirs[e]
          /\ dirs' = [e \in DOMAIN dirs' |-> dirs'[e]]
      BY <2>2, DirsWithout, Zenon
    <3> QED
      BY <3>1
  <2> QED
    BY <2>1, <2>2
<1>5. IsFiniteSet(DOMAIN dirs')
  BY <1>1, <1>4, FS_Subset
<1>6. worker'[w].pc = "remove" /\ worker'[w].spec = worker[w].spec /\ worker'[w].then = r
  BY <1>2
<1>7. WorkStep(w)
  <2>1. Continues(w)
    BY <1>6 DEF Continues
  <2>2. \A d \in DOMAIN dirs' : d \in {Temp(w), MyFinal(w)} => Built(dirs'[d])
    BY <1>1, <1>4
  <2> QED
    BY <1>1, <1>2, <1>3, <1>4, <1>5, <2>1, <2>2 DEF WorkStep
<1>8. ~Building(w)'
  BY <1>6 DEF Building
<1>9. MyFinal(w) \in DOMAIN dirs' =>
        MyFinal(w) \in DOMAIN dirs /\ dirs'[MyFinal(w)].by = dirs[MyFinal(w)].by
  BY <1>4
<1>10. outcome'[worker[w].spec] \notin Results /\ worker'[w].then \in Ending /\ worker'[w].then # "publish"
  BY <1>1, <1>6 DEF Ending
<1>11. Honest(w)
  BY <1>1, <1>4, <1>9, <1>10 DEF Honest, GaveNothing, Results
<1> QED
  BY <1>4, <1>6, <1>7, <1>8, <1>9, <1>10, <1>11, ActionKeeps

LEMMA TakeKeeps ==
    ASSUME DatasetInv, NEW w \in Workers, Take(w)
    PROVE  DatasetInv'
<1> USE DatasetAssumption
<1>1. /\ captures' = captures /\ replace' = replace /\ training' = training /\ status' = status
      /\ builds' = builds /\ everKilled' = everKilled /\ dirs' = dirs /\ outcome' = outcome
      /\ status = "building" /\ worker[w].pc = "idle" /\ queue # <<>> /\ queue' = Tail(queue)
      /\ worker' = [worker EXCEPT ![w] = [pc |-> "look", spec |-> Head(queue), then |-> Nil]]
  BY DEF Take, buildVars
<1>2. /\ worker \in [Workers -> WorkType] /\ queue \in Seq(Specs)
      /\ \A x, y \in DOMAIN queue : queue[x] = queue[y] => x = y
      /\ \A x \in DOMAIN queue : outcome[queue[x]] = Nil
  BY DEF DatasetInv, DatasetShape, PlaceInv
<1>3. /\ Head(queue) = queue[1] /\ 1 \in DOMAIN queue /\ Head(queue) \in Specs /\ Tail(queue) \in Seq(Specs)
      /\ \A x \in DOMAIN Tail(queue) : x + 1 \in DOMAIN queue /\ x \in Nat \ {0} /\ Tail(queue)[x] = queue[x + 1]
  BY <1>1, <1>2
<1>4. /\ \A x \in DOMAIN queue' : x + 1 \in DOMAIN queue /\ x \in Nat \ {0} /\ queue'[x] = queue[x + 1]
      /\ queue' \in Seq(Specs)
  BY <1>1, <1>3
<1>5. \A e \in Range(queue') : e \in Range(queue) /\ e # Head(queue)
  <2> SUFFICES ASSUME NEW x \in DOMAIN queue' PROVE queue'[x] \in Range(queue) /\ queue'[x] # Head(queue)
    BY DEF Range
  <2>1. x + 1 \in DOMAIN queue /\ queue'[x] = queue[x + 1] /\ x + 1 # 1
    BY <1>4
  <2>2. queue[x + 1] # queue[1]
    BY <1>2, <1>3, <2>1
  <2> QED
    BY <1>3, <2>1, <2>2 DEF Range
<1>6. Specs' = Specs /\ \A i : SpecName(i)' = SpecName(i) /\ FinalDir(i)' = FinalDir(i)
  BY <1>1, NamesStay
<1>7. /\ worker' \in [Workers -> WorkType] /\ worker'[w].pc = "look" /\ worker'[w].spec = Head(queue)
      /\ \A v \in Workers : v # w => worker'[v] = worker[v]
  <2>1. [pc |-> "look", spec |-> Head(queue), then |-> Nil] \in WorkType
    BY <1>3 DEF WorkType, Pcs
  <2> HIDE DEF WorkType
  <2>2. worker'[w] = [pc |-> "look", spec |-> Head(queue), then |-> Nil]
    BY <1>1, <1>2
  <2> QED
    BY <1>1, <1>2, <2>1, <2>2
<1>8. DatasetShape'
  BY <1>1, <1>4, <1>6, <1>7 DEF DatasetInv, DatasetShape, Directory, Built, WorkType
<1>9. PlaceInv'
  <2>1. \A v \in Workers : Busy(v)' => v = w \/ (Busy(v) /\ worker'[v] = worker[v])
    BY <1>7 DEF Busy
  <2>2. Head(queue) \in Range(queue) /\ outcome[Head(queue)] = Nil
    BY <1>2, <1>3 DEF Range
  <2>3. ASSUME NEW v \in Workers, Busy(v)'
        PROVE  /\ status' = "building" /\ worker'[v].spec \in Specs'
               /\ outcome'[worker'[v].spec] = Nil /\ worker'[v].spec \notin Range(queue')
    <3>1. CASE v = w
      BY <1>1, <1>3, <1>5, <1>6, <1>7, <2>2, <3>1
    <3>2. CASE v # w
      <4>1. Busy(v) /\ worker'[v] = worker[v]
        BY <2>1, <2>3, <3>2
      <4>2. /\ status = "building" /\ worker[v].spec \in Specs
            /\ outcome[worker[v].spec] = Nil /\ worker[v].spec \notin Range(queue)
        BY <4>1 DEF DatasetInv, PlaceInv
      <4> QED
        BY <1>1, <1>5, <1>6, <4>1, <4>2
    <3> QED
      BY <3>1, <3>2
  <2>4. ASSUME NEW v \in Workers, NEW u \in Workers, Busy(v)', Busy(u)', worker'[v].spec = worker'[u].spec
        PROVE  v = u
    <3>1. \A x \in Workers : Busy(x) => worker[x].spec # Head(queue)
      BY <2>2 DEF DatasetInv, PlaceInv
    <3>2. v # w => Busy(v) /\ worker'[v] = worker[v]
      BY <2>1, <2>4
    <3>3. u # w => Busy(u) /\ worker'[u] = worker[u]
      BY <2>1, <2>4
    <3>4. v # w /\ u # w => v = u
      BY <2>4, <3>2, <3>3 DEF DatasetInv, PlaceInv
    <3>5. v = w /\ u # w => FALSE
      BY <1>7, <2>4, <3>1, <3>3
    <3>6. v # w /\ u = w => FALSE
      BY <1>7, <2>4, <3>1, <3>2
    <3> QED
      BY <3>4, <3>5, <3>6
  <2>5. \A x, y \in DOMAIN queue' : queue'[x] = queue'[y] => x = y
    <3> SUFFICES ASSUME NEW x \in DOMAIN queue', NEW y \in DOMAIN queue', queue'[x] = queue'[y] PROVE x = y
      OBVIOUS
    <3>1. x + 1 = y + 1 /\ x \in Nat /\ y \in Nat
      BY <1>2, <1>4
    <3> QED
      BY <3>1
  <2>6. \A x \in DOMAIN queue' : outcome'[queue'[x]] = Nil
    BY <1>1, <1>2, <1>4
  <2>7. ASSUME NEW v \in Workers, worker'[v].pc = "remove"
        PROVE  /\ worker'[v].then \in Ending
               /\ worker'[v].then # "publish" => replace' /\ Capture(v)'.kind \in Barren
    <3>1. v # w /\ worker'[v] = worker[v]
      BY <1>7, <2>7
    <3>2. Capture(v)' = Capture(v)
      BY <1>1, <3>1, TempStays
    <3> QED
      BY <1>1, <2>7, <3>1, <3>2 DEF DatasetInv, PlaceInv
  <2> QED
    BY <2>3, <2>4, <2>5, <2>6, <2>7 DEF PlaceInv
<1>10. \A v \in Workers : Building(v)' <=> Building(v)
  BY <1>1, <1>7 DEF Building
<1>11. ~Building(w)
  BY <1>1 DEF Building
<1>12. ASSUME NEW v \in Workers, v # w
       PROVE  worker'[v] = worker[v] /\ Temp(v)' = Temp(v) /\ MyFinal(v)' = MyFinal(v) /\ Capture(v)' = Capture(v)
  <2>1. worker'[v] = worker[v]
    BY <1>7, <1>12
  <2> QED
    BY <1>1, <2>1, TempStays
<1>13. TempInv'
  <2>1. ASSUME NEW v \in Workers, Building(v)'
        PROVE  /\ Exists(Temp(v))' /\ dirs'[Temp(v)'].by = <<builds', worker'[v].spec>>
               /\ worker'[v].pc \in {"remove", "publish"} => dirs'[Temp(v)'].whole
               /\ worker'[v].pc = "rows" => WrittenRows(v)'
               /\ Exists(MyFinal(v))' => BuiltNow(MyFinal(v))' \/ (replace' /\ worker'[v].pc # "publish")
    <3>1. v # w /\ Building(v)
      BY <1>10, <1>11, <2>1
    <3>2. worker'[v] = worker[v] /\ Temp(v)' = Temp(v) /\ MyFinal(v)' = MyFinal(v) /\ Capture(v)' = Capture(v)
      BY <1>12, <3>1
    <3>3. /\ Exists(Temp(v)) /\ dirs[Temp(v)].by = <<builds, worker[v].spec>>
          /\ worker[v].pc \in {"remove", "publish"} => dirs[Temp(v)].whole
          /\ worker[v].pc = "rows" => WrittenRows(v)
          /\ Exists(MyFinal(v)) => BuiltNow(MyFinal(v)) \/ (replace /\ worker[v].pc # "publish")
      BY <3>1 DEF DatasetInv, TempInv
    <3>4. WrittenRows(v) => WrittenRows(v)'
      <4>1. WindowRows(Capture(v).windows)' = WindowRows(Capture(v)'.windows)
        BY <1>1 DEF WindowRows, FirstSeen, Source
      <4>2. WindowRows(Capture(v).windows)' = WindowRows(Capture(v).windows)
        BY <1>1, <3>2, <4>1 DEF WindowRows, FirstSeen, Source
      <4> QED
        BY <1>1, <3>2, <4>2, Zenon DEF WrittenRows
    <3> QED
      BY <1>1, <3>2, <3>3, <3>4 DEF Exists, BuiltNow
  <2>2. ASSUME NEW d \in DOMAIN dirs', d.pid # NoPid
        PROVE  /\ dirs'[d].by[1] = d.pid[1]
               /\ \/ \E v \in Workers : Building(v)' /\ d = Temp(v)'
                  \/ everKilled' /\ (status' = "killed" \/ d.pid[1] < builds')
    <3>1. /\ dirs[d].by[1] = d.pid[1]
          /\ \/ \E v \in Workers : Building(v) /\ d = Temp(v)
             \/ everKilled /\ (status = "killed" \/ d.pid[1] < builds)
      BY <1>1, <2>2 DEF DatasetInv, TempInv
    <3>2. \A v \in Workers : Building(v) /\ d = Temp(v) => Building(v)' /\ d = Temp(v)'
      BY <1>10, <1>11, <1>12
    <3> QED
      BY <1>1, <3>1, <3>2
  <2> QED
    BY <2>1, <2>2 DEF TempInv
<1>14. FinalInv'
  <2>1. \A v \in Workers : worker[v].pc = "remove" => worker'[v].pc = "remove" /\ MyFinal(v)' = MyFinal(v)
    BY <1>1, <1>12
  <2>2. \A d : (FinalDir(dirs[d].by[2]))' = FinalDir(dirs[d].by[2])
    BY <1>1 DEF FinalDir, Named, SpecName
  <2>3. \A d \in DOMAIN dirs : d.pid = NoPid =>
          /\ \/ dirs[d].whole
             \/ \E v \in Workers : worker[v].pc = "remove" /\ d = MyFinal(v)
             \/ everKilled /\ (status = "killed" \/ dirs[d].by[1] < builds)
          /\ builds > 0 /\ dirs[d].by[1] = builds =>
               /\ dirs[d].by[2] \in Specs /\ d = FinalDir(dirs[d].by[2])
               /\ outcome[dirs[d].by[2]] = "created"
    BY DEF DatasetInv, FinalInv
  <2>4. \A d \in DOMAIN dirs' : d.pid = NoPid =>
          /\ \/ dirs'[d].whole
             \/ \E v \in Workers : worker'[v].pc = "remove" /\ d = MyFinal(v)'
             \/ everKilled' /\ (status' = "killed" \/ dirs'[d].by[1] < builds')
          /\ builds' > 0 /\ dirs'[d].by[1] = builds' =>
               /\ dirs'[d].by[2] \in Specs' /\ d = (FinalDir(dirs[d].by[2]))'
               /\ outcome'[dirs'[d].by[2]] = "created"
    BY <1>1, <1>6, <2>1, <2>2, <2>3
  <2> QED
    BY <2>4 DEF FinalInv
<1>15. ResultInv'
  <2>1. \A d : Coming(d) => Coming(d)'
    BY <1>1, <1>12 DEF Coming
  <2>2. \A d : (Exists(d)' <=> Exists(d)) /\ (BuiltNow(d)' <=> BuiltNow(d)) /\ (GivenUp(d)' <=> GivenUp(d))
    BY <1>1, <1>6 DEF Exists, BuiltNow, GivenUp
  <2>3. \A i \in Specs : ResultTrue(i)
    BY <1>1 DEF DatasetInv, ResultInv
  <2> QED
    BY <1>1, <1>6, <2>1, <2>2, <2>3 DEF ResultInv, ResultTrue
<1>16. BuiltInv'
  BY <1>1 DEF BuiltInv
<1> QED
  BY <1>8, <1>9, <1>13, <1>14, <1>15, <1>16 DEF DatasetInv

\* Nothing to build: the old workload is overwritten or the capture ends.
LEMMA SkipKeeps ==
    ASSUME DatasetInv, NEW w \in Workers, status = "building", Busy(w),
           worker[w].pc \notin {"remove", "publish"},
           NEW r \in {"skipped_empty", "skipped_unmapped"}, SkipCapture(w, r),
           Capture(w).kind \in Barren, UNCHANGED <<buildVars, queue>>,
           \/ dirs' = dirs /\ Temp(w) \notin DOMAIN dirs
           \/ dirs' = Without(Temp(w))
    PROVE  DatasetInv'
<1>1. CASE Overwriting /\ Exists(MyFinal(w))
  <2>1. worker' = [worker EXCEPT ![w].pc = "remove", ![w].then = r] /\ outcome' = outcome
    BY <1>1 DEF SkipCapture
  <2> QED
    BY <1>1, <2>1, RemoveKeeps DEF Overwriting
<1>2. CASE ~(Overwriting /\ Exists(MyFinal(w)))
  <2>1. Ends(w, r) /\ r \in Results /\ r # "created" /\ r # "skipped"
    BY <1>2 DEF SkipCapture, Results
  <2>2. replace => MyFinal(w) \notin DOMAIN dirs
    BY <1>2 DEF Overwriting, Exists
  <2> QED
    BY <2>1, <2>2, EndKeeps
<1> QED
  BY <1>1, <1>2

LEMMA KnownEmptyKeeps ==
    ASSUME DatasetInv, NEW w \in Workers, KnownEmpty(w)
    PROVE  DatasetInv'
<1>1. /\ status = "building" /\ worker[w].pc = "look" /\ Capture(w).kind = "counted empty"
      /\ SkipCapture(w, "skipped_empty") /\ UNCHANGED <<buildVars, queue>> /\ dirs' = dirs
  BY DEF KnownEmpty, At
<1>2. Busy(w) /\ ~Building(w) /\ Capture(w).kind \in Barren
  BY <1>1 DEF Busy, Building, Barren
<1>3. Temp(w) \notin DOMAIN dirs
  BY <1>1, <1>2, AtWork
<1> QED
  BY <1>1, <1>2, <1>3, SkipKeeps

LEMMA SkipExistingKeeps ==
    ASSUME DatasetInv, NEW w \in Workers, SkipExisting(w)
    PROVE  DatasetInv'
<1>1. /\ status = "building" /\ worker[w].pc = "look" /\ MyFinal(w) \in DOMAIN dirs /\ ~replace
      /\ Ends(w, "skipped") /\ UNCHANGED <<buildVars, queue>> /\ dirs' = dirs
  BY DEF SkipExisting, At, Exists
<1>2. Busy(w) /\ ~Building(w) /\ "skipped" \in Results
  BY <1>1 DEF Busy, Building, Results
<1>3. Temp(w) \notin DOMAIN dirs
  BY <1>1, <1>2, AtWork
<1> QED
  BY <1>1, <1>2, <1>3, EndKeeps

LEMMA BuildFailsKeeps ==
    ASSUME DatasetInv, NEW w \in Workers, BuildFails(w)
    PROVE  DatasetInv'
<1>1. /\ status = "building" /\ worker[w].pc = "build" /\ dirs' = Without(Temp(w))
      /\ UNCHANGED <<buildVars, queue>>
  BY DEF BuildFails, At, Cleanup
<1>2. Busy(w) /\ worker[w].pc \notin {"remove", "publish"}
      /\ {"failed", "skipped_empty", "skipped_unmapped"} \subseteq Results
  BY <1>1 DEF Busy, Results
<1>3. \/ Capture(w).kind = "unlaunched" /\ SkipCapture(w, "skipped_empty")
      \/ Capture(w).kind = "unmapped" /\ SkipCapture(w, "skipped_unmapped")
      \/ Ends(w, "failed")
  BY DEF BuildFails
<1>4. CASE Capture(w).kind = "unlaunched" /\ SkipCapture(w, "skipped_empty")
  BY <1>1, <1>2, <1>4, SkipKeeps DEF Barren
<1>5. CASE Capture(w).kind = "unmapped" /\ SkipCapture(w, "skipped_unmapped")
  BY <1>1, <1>2, <1>5, SkipKeeps DEF Barren
<1>6. CASE Ends(w, "failed")
  BY <1>1, <1>2, <1>6, EndKeeps
<1> QED
  BY <1>3, <1>4, <1>5, <1>6

\* The steps of building: the capture's temporary directory changes.
LEMMA BuildKeeps ==
    ASSUME DatasetInv, NEW w \in Workers, status = "building", Busy(w),
           worker[w].pc \notin {"remove", "publish"},
           UNCHANGED <<buildVars, queue, outcome>>,
           DOMAIN dirs' = DOMAIN dirs \cup {Temp(w)},
           \A d \in DOMAIN dirs : d # Temp(w) => dirs'[d] = dirs[d],
           dirs' = [d \in DOMAIN dirs' |-> dirs'[d]],
           Built(dirs'[Temp(w)]), dirs'[Temp(w)].by = <<builds, worker[w].spec>>,
           worker' \in [Workers -> WorkType], worker'[w].spec = worker[w].spec,
           \A v \in Workers : v # w => worker'[v] = worker[v],
           Building(w)', worker'[w].pc = "remove" => worker'[w].then = "publish",
           worker'[w].pc \in {"remove", "publish"} => dirs'[Temp(w)].whole,
           worker'[w].pc = "rows" =>
                  \E m \in 0..Len(WindowRows(Capture(w).windows)) :
                     dirs'[Temp(w)].rows = SubSeq(WindowRows(Capture(w).windows), 1, m),
           MyFinal(w) \in DOMAIN dirs =>
             dirs[MyFinal(w)].by[1] = builds \/ (replace /\ worker'[w].pc # "publish")
    PROVE  DatasetInv'
<1>1. /\ worker[w].spec \in Specs /\ outcome[worker[w].spec] = Nil /\ Nil \notin Results
      /\ worker \in [Workers -> WorkType] /\ outcome \in [Specs -> {Nil} \cup Results]
      /\ IsFiniteSet(DOMAIN dirs) /\ dirs = [d \in DOMAIN dirs |-> dirs[d]]
      /\ \A d \in DOMAIN dirs : Built(dirs[d])
      /\ Temp(w) # MyFinal(w)
  BY AtWork
<1>2. /\ captures' = captures /\ replace' = replace /\ training' = training /\ status' = status
      /\ builds' = builds /\ everKilled' = everKilled /\ queue' = queue /\ outcome' = outcome
  BY DEF buildVars
<1>3. IsFiniteSet(DOMAIN dirs')
  BY <1>1, FS_AddElement
<1>4. worker'[w].pc # "idle"
  BY DEF Building
<1>5. WorkStep(w)
  <2>1. Continues(w)
    BY <1>2, <1>4 DEF Continues
  <2>2. \A d \in DOMAIN dirs' : d \in {Temp(w), MyFinal(w)} => Built(dirs'[d])
    BY <1>1
  <2> QED
    BY <1>1, <1>2, <1>3, <2>1, <2>2 DEF WorkStep
<1>6. MyFinal(w) \in DOMAIN dirs' => MyFinal(w) \in DOMAIN dirs /\ dirs'[MyFinal(w)] = dirs[MyFinal(w)]
  BY <1>1
<1>7. outcome'[worker[w].spec] \notin Results
  BY <1>1, <1>2
<1>8. worker'[w].pc = "remove" => worker'[w].then \in Ending
  BY DEF Ending
<1>9. /\ Temp(w) \in DOMAIN dirs'
      /\ MyFinal(w) \in DOMAIN dirs' =>
           /\ dirs'[MyFinal(w)] = dirs[MyFinal(w)] /\ worker[w].pc # "remove"
           /\ dirs'[MyFinal(w)].by = dirs[MyFinal(w)].by
      /\ outcome'[worker[w].spec] \notin {"created", "skipped", "skipped_empty", "skipped_unmapped"}
  BY <1>6, <1>7 DEF Results
<1>10. Honest(w)
  BY <1>9 DEF Honest, GaveNothing
<1> QED
  BY <1>5, <1>6, <1>8, <1>9, <1>10, ActionKeeps

LEMMA OpenTempKeeps ==
    ASSUME DatasetInv, NEW w \in Workers, OpenTemp(w)
    PROVE  DatasetInv'
<1>1. /\ status = "building" /\ worker[w].pc = "look" /\ (MyFinal(w) \in DOMAIN dirs => replace)
      /\ dirs' = With(Temp(w), NewContent(worker[w].spec)) /\ Go(w, "manifest")
      /\ UNCHANGED <<buildVars, queue, outcome>>
  BY DEF OpenTemp, At, Exists
<1>2. Busy(w) /\ worker[w].pc \notin {"remove", "publish"}
  BY <1>1 DEF Busy
<1>3. /\ worker[w].spec \in Specs /\ builds \in Nat \ {0} /\ worker \in [Workers -> WorkType]
  BY <1>1, <1>2, AtWork
<1>4. /\ DOMAIN dirs' = DOMAIN dirs \cup {Temp(w)} /\ dirs'[Temp(w)] = NewContent(worker[w].spec)
      /\ \A e \in DOMAIN dirs : e # Temp(w) => dirs'[e] = dirs[e]
      /\ dirs' = [e \in DOMAIN dirs' |-> dirs'[e]]
  <2> DEFINE d == Temp(w)  c == NewContent(worker[w].spec)
  <2>1. dirs' = With(d, c)
    BY <1>1
  <2>2. /\ DOMAIN With(d, c) = DOMAIN dirs \cup {d} /\ With(d, c)[d] = c
        /\ \A e \in DOMAIN dirs : e # d => With(d, c)[e] = dirs[e]
        /\ With(d, c) = [e \in DOMAIN With(d, c) |-> With(d, c)[e]]
    <3> HIDE DEF d, c
    <3> QED
      BY DirsWith
  <2> QED
    BY <2>1, <2>2
<1>5. "manifest" \in Pcs
  BY DEF Pcs
<1>6. /\ worker' \in [Workers -> WorkType]
      /\ worker'[w] = [pc |-> "manifest", spec |-> worker[w].spec, then |-> worker[w].then]
      /\ \A v \in Workers : v # w => worker'[v] = worker[v]
  BY <1>1, <1>3, <1>5, WorkerGoes
<1>7. worker'[w].pc = "manifest" /\ worker'[w].spec = worker[w].spec /\ Building(w)'
  BY <1>6 DEF Building
<1>8. Built(dirs'[Temp(w)]) /\ dirs'[Temp(w)].by = <<builds, worker[w].spec>>
  <2>1. worker[w].spec \in Nat
    BY <1>3 DEF Specs, DatasetInv, DatasetShape
  <2> QED
    BY <1>3, <1>4, <2>1 DEF NewContent, Built, RowsBegin
<1> QED
  BY <1>1, <1>2, <1>4, <1>6, <1>7, <1>8, BuildKeeps

\* Writing into a directory that is there.
LEMMA Written ==
    ASSUME NEW d, NEW c, dirs' = [dirs EXCEPT ![d] = c], d \in DOMAIN dirs
    PROVE  /\ DOMAIN dirs' = DOMAIN dirs /\ dirs'[d] = c
           /\ \A e \in DOMAIN dirs : e # d => dirs'[e] = dirs[e]
           /\ dirs' = [e \in DOMAIN dirs' |-> dirs'[e]]
OBVIOUS

LEMMA RowsWritten ==
    ASSUME NEW c, Built(c), NEW rows, RowsBegin(rows)
    PROVE  Built([c EXCEPT !.rows = rows]) /\ [c EXCEPT !.rows = rows].by = c.by
           /\ [c EXCEPT !.rows = rows].rows = rows
<1>1. c = [by |-> c.by, label |-> c.label, manifest |-> c.manifest, rows |-> c.rows, torn |-> c.torn,
           whole |-> c.whole]
  BY DEF Built
<1>2. [c EXCEPT !.rows = rows]
        = [by |-> c.by, label |-> c.label, manifest |-> c.manifest, rows |-> rows, torn |-> c.torn,
           whole |-> c.whole]
  BY <1>1
<1>3. c.by \in Nat \X Nat /\ c.by[1] <= builds /\ {c.manifest, c.torn, c.whole} \subseteq BOOLEAN
  BY DEF Built
<1> HIDE DEF RowsBegin
<1> QED
  BY <1>2, <1>3 DEF Built

LEMMA MadeWhole ==
    ASSUME NEW c, Built(c)
    PROVE  Built([c EXCEPT !.whole = TRUE]) /\ [c EXCEPT !.whole = TRUE].by = c.by
           /\ [c EXCEPT !.whole = TRUE].whole
<1>1. c = [by |-> c.by, label |-> c.label, manifest |-> c.manifest, rows |-> c.rows, torn |-> c.torn,
           whole |-> c.whole]
  BY DEF Built
<1>2. \A x : [c EXCEPT !.whole = x]
        = [by |-> c.by, label |-> c.label, manifest |-> c.manifest, rows |-> c.rows, torn |-> c.torn,
           whole |-> x]
  <2> TAKE x
  <2> QED
    BY <1>1
<1>3. c.by \in Nat \X Nat /\ c.by[1] <= builds /\ {c.manifest, c.torn} \subseteq BOOLEAN /\ RowsBegin(c.rows)
  BY DEF Built
<1>4. PICK b : b = TRUE
  OBVIOUS
<1>5. [c EXCEPT !.whole = b]
        = [by |-> c.by, label |-> c.label, manifest |-> c.manifest, rows |-> c.rows, torn |-> c.torn,
           whole |-> b]
  BY <1>2
<1> HIDE DEF RowsBegin
<1>6. Built([c EXCEPT !.whole = b]) /\ [c EXCEPT !.whole = b].by = c.by /\ [c EXCEPT !.whole = b].whole = b
  BY <1>3, <1>4, <1>5 DEF Built
<1> QED
  BY <1>4, <1>6, Zenon

LEMMA ManifestWritten ==
    ASSUME NEW c, Built(c)
    PROVE  Built([c EXCEPT !.manifest = TRUE]) /\ [c EXCEPT !.manifest = TRUE].by = c.by
<1>1. c = [by |-> c.by, label |-> c.label, manifest |-> c.manifest, rows |-> c.rows, torn |-> c.torn,
           whole |-> c.whole]
  BY DEF Built
<1>2. \A x : [c EXCEPT !.manifest = x]
        = [by |-> c.by, label |-> c.label, manifest |-> x, rows |-> c.rows, torn |-> c.torn, whole |-> c.whole]
  <2> TAKE x
  <2> QED
    BY <1>1
<1>3. c.by \in Nat \X Nat /\ c.by[1] <= builds /\ {c.torn, c.whole} \subseteq BOOLEAN /\ RowsBegin(c.rows)
  BY DEF Built
<1>4. PICK b : b = TRUE
  OBVIOUS
<1>5. [c EXCEPT !.manifest = b]
        = [by |-> c.by, label |-> c.label, manifest |-> b, rows |-> c.rows, torn |-> c.torn, whole |-> c.whole]
  BY <1>2
<1> HIDE DEF RowsBegin
<1>6. Built([c EXCEPT !.manifest = b]) /\ [c EXCEPT !.manifest = b].by = c.by
  BY <1>3, <1>4, <1>5 DEF Built
<1> QED
  BY <1>4, <1>6, Zenon

LEMMA WriteManifestKeeps ==
    ASSUME DatasetInv, NEW w \in Workers, WriteManifest(w)
    PROVE  DatasetInv'
<1>1. /\ status = "building" /\ worker[w].pc = "manifest" /\ Go(w, "build")
      /\ dirs' = [dirs EXCEPT ![Temp(w)] = [dirs[Temp(w)] EXCEPT !.manifest = TRUE]]
      /\ UNCHANGED <<buildVars, queue, outcome>>
  BY DEF WriteManifest, At
<1>2. Busy(w) /\ worker[w].pc \notin {"remove", "publish"} /\ Building(w)
  BY <1>1 DEF Busy, Building
<1>3. /\ worker[w].spec \in Specs /\ worker \in [Workers -> WorkType]
      /\ Temp(w) \in DOMAIN dirs /\ Built(dirs[Temp(w)])
      /\ dirs[Temp(w)].by = <<builds, worker[w].spec>>
      /\ MyFinal(w) \in DOMAIN dirs => dirs[MyFinal(w)].by[1] = builds \/ replace
  BY <1>1, <1>2, AtWork
<1>4. /\ DOMAIN dirs' = DOMAIN dirs /\ dirs'[Temp(w)] = [dirs[Temp(w)] EXCEPT !.manifest = TRUE]
      /\ \A e \in DOMAIN dirs : e # Temp(w) => dirs'[e] = dirs[e]
      /\ dirs' = [e \in DOMAIN dirs' |-> dirs'[e]]
  BY <1>1, <1>3, Written
<1>5. "build" \in Pcs
  BY DEF Pcs
<1>6. /\ worker' \in [Workers -> WorkType]
      /\ worker'[w] = [pc |-> "build", spec |-> worker[w].spec, then |-> worker[w].then]
      /\ \A v \in Workers : v # w => worker'[v] = worker[v]
  BY <1>1, <1>3, <1>5, WorkerGoes
<1>7. worker'[w].pc = "build" /\ worker'[w].spec = worker[w].spec /\ Building(w)'
  BY <1>6 DEF Building
<1>8. Built(dirs'[Temp(w)]) /\ dirs'[Temp(w)].by = <<builds, worker[w].spec>>
  BY <1>3, <1>4, ManifestWritten
<1>9. DOMAIN dirs' = DOMAIN dirs \cup {Temp(w)}
  BY <1>3, <1>4
<1> QED
  BY <1>1, <1>2, <1>3, <1>4, <1>6, <1>7, <1>8, <1>9, BuildKeeps

LEMMA OpenRowsKeeps ==
    ASSUME DatasetInv, NEW w \in Workers, OpenRows(w)
    PROVE  DatasetInv'
<1>1. /\ status = "building" /\ worker[w].pc = "build" /\ Go(w, "rows")
      /\ dirs' = [dirs EXCEPT ![Temp(w)] = [dirs[Temp(w)] EXCEPT !.rows = <<>>]]
      /\ UNCHANGED <<buildVars, queue, outcome>>
  BY DEF OpenRows, At
<1>2. Busy(w) /\ worker[w].pc \notin {"remove", "publish"} /\ Building(w)
  BY <1>1 DEF Busy, Building
<1>3. /\ worker[w].spec \in Specs /\ worker \in [Workers -> WorkType] /\ Capture(w) \in CaptureType
      /\ Temp(w) \in DOMAIN dirs /\ Built(dirs[Temp(w)])
      /\ dirs[Temp(w)].by = <<builds, worker[w].spec>>
      /\ MyFinal(w) \in DOMAIN dirs => dirs[MyFinal(w)].by[1] = builds \/ replace
  BY <1>1, <1>2, AtWork
<1>4. /\ DOMAIN dirs' = DOMAIN dirs /\ dirs'[Temp(w)] = [dirs[Temp(w)] EXCEPT !.rows = <<>>]
      /\ \A e \in DOMAIN dirs : e # Temp(w) => dirs'[e] = dirs[e]
      /\ dirs' = [e \in DOMAIN dirs' |-> dirs'[e]]
  BY <1>1, <1>3, Written
<1>5. "rows" \in Pcs
  BY DEF Pcs
<1>6. /\ worker' \in [Workers -> WorkType]
      /\ worker'[w] = [pc |-> "rows", spec |-> worker[w].spec, then |-> worker[w].then]
      /\ \A v \in Workers : v # w => worker'[v] = worker[v]
  BY <1>1, <1>3, <1>5, WorkerGoes
<1>7. worker'[w].pc = "rows" /\ worker'[w].spec = worker[w].spec /\ Building(w)'
  BY <1>6 DEF Building
<1>8. Built(dirs'[Temp(w)]) /\ dirs'[Temp(w)].by = <<builds, worker[w].spec>> /\ dirs'[Temp(w)].rows = <<>>
  <2>1. RowsBegin(<<>>)
    BY DEF RowsBegin
  <2> QED
    BY <1>3, <1>4, <2>1, RowsWritten
<1>9. \E m \in 0..Len(WindowRows(Capture(w).windows)) :
         dirs'[Temp(w)].rows = SubSeq(WindowRows(Capture(w).windows), 1, m)
  <2> DEFINE all == WindowRows(Capture(w).windows)
  <2>1. Capture(w).windows \in Seq(STRING) /\ training \in BOOLEAN
    BY <1>3 DEF CaptureType, DatasetInv, DatasetShape
  <2>2. Len(all) \in Nat \ {0}
    BY <2>1, WindowRowsBegin
  <2> HIDE DEF all
  <2>3. SubSeq(all, 1, 0) = <<>> /\ 0 \in 0..Len(all)
    BY <2>2
  <2> QED
    BY <1>8, <2>3 DEF all
<1>10. DOMAIN dirs' = DOMAIN dirs \cup {Temp(w)}
  BY <1>3, <1>4
<1> QED
  BY <1>1, <1>2, <1>3, <1>4, <1>6, <1>7, <1>8, <1>9, <1>10, BuildKeeps

LEMMA WriteRowKeeps ==
    ASSUME DatasetInv, NEW w \in Workers, WriteRow(w)
    PROVE  DatasetInv'
<1> DEFINE all  == WindowRows(Capture(w).windows)
           done == dirs[Temp(w)].rows
<1>1. /\ status = "building" /\ worker[w].pc = "rows" /\ worker' = worker /\ Len(done) < Len(all)
      /\ dirs' = [dirs EXCEPT ![Temp(w)] = [dirs[Temp(w)] EXCEPT !.rows = SubSeq(all, 1, Len(done) + 1)]]
      /\ UNCHANGED <<buildVars, queue, outcome>>
  BY DEF WriteRow, At
<1>2. Busy(w) /\ worker[w].pc \notin {"remove", "publish"} /\ Building(w) /\ Building(w)'
  BY <1>1 DEF Busy, Building
<1>3. /\ worker[w].spec \in Specs /\ worker \in [Workers -> WorkType] /\ Capture(w) \in CaptureType
      /\ Temp(w) \in DOMAIN dirs /\ Built(dirs[Temp(w)])
      /\ dirs[Temp(w)].by = <<builds, worker[w].spec>>
      /\ MyFinal(w) \in DOMAIN dirs => dirs[MyFinal(w)].by[1] = builds \/ replace
      /\ WrittenRows(w)
  BY <1>1, <1>2, AtWork
<1>4. PICK m \in 0..Len(all) : done = SubSeq(all, 1, m)
  BY <1>3 DEF WrittenRows
<1>5. Capture(w).windows \in Seq(STRING) /\ training \in BOOLEAN
  BY <1>3 DEF CaptureType, DatasetInv, DatasetShape
<1>6. /\ Len(done) = m
      /\ m < Len(all) => RowsBegin(SubSeq(all, 1, Len(done) + 1)) /\ m + 1 \in 0..Len(all)
  <2> HIDE DEF done
  <2> QED
    BY <1>4, <1>5, OneRowMore
<1> HIDE DEF all, done
<1>7. RowsBegin(SubSeq(all, 1, m + 1)) /\ m + 1 \in 0..Len(all)
  BY <1>1, <1>6
<1>8. /\ DOMAIN dirs' = DOMAIN dirs
      /\ dirs'[Temp(w)] = [dirs[Temp(w)] EXCEPT !.rows = SubSeq(all, 1, m + 1)]
      /\ \A e \in DOMAIN dirs : e # Temp(w) => dirs'[e] = dirs[e]
      /\ dirs' = [e \in DOMAIN dirs' |-> dirs'[e]]
  BY <1>1, <1>3, <1>6, Written
<1>9. /\ Built(dirs'[Temp(w)]) /\ dirs'[Temp(w)].by = <<builds, worker[w].spec>>
      /\ dirs'[Temp(w)].rows = SubSeq(all, 1, m + 1)
  <2> DEFINE c == dirs[Temp(w)]  more == SubSeq(all, 1, m + 1)
  <2>1. Built(c) /\ RowsBegin(more) /\ c.by = <<builds, worker[w].spec>>
    BY <1>3, <1>7
  <2>2. dirs'[Temp(w)] = [c EXCEPT !.rows = more]
    BY <1>8
  <2>3. Built([c EXCEPT !.rows = more]) /\ [c EXCEPT !.rows = more].by = c.by
        /\ [c EXCEPT !.rows = more].rows = more
    <3> HIDE DEF c, more
    <3> QED
      BY <2>1, RowsWritten
  <2> QED
    BY <2>1, <2>2, <2>3
<1>10. \E k \in 0..Len(WindowRows(Capture(w).windows)) :
          dirs'[Temp(w)].rows = SubSeq(WindowRows(Capture(w).windows), 1, k)
  BY <1>7, <1>9 DEF all
<1>11. DOMAIN dirs' = DOMAIN dirs \cup {Temp(w)}
  BY <1>3, <1>8
<1>12. /\ worker' \in [Workers -> WorkType] /\ worker'[w].spec = worker[w].spec
       /\ \A v \in Workers : v # w => worker'[v] = worker[v]
       /\ worker'[w].pc \notin {"remove", "publish"}
  BY <1>1, <1>3
<1> QED
  BY <1>1, <1>2, <1>3, <1>8, <1>9, <1>10, <1>11, <1>12, BuildKeeps

LEMMA ValidateKeeps ==
    ASSUME DatasetInv, NEW w \in Workers, Validate(w)
    PROVE  DatasetInv'
<1> DEFINE pc == IF Exists(MyFinal(w)) THEN "remove" ELSE "publish"
<1>1. /\ status = "building" /\ worker[w].pc = "rows"
      /\ dirs' = [dirs EXCEPT ![Temp(w)] = [dirs[Temp(w)] EXCEPT !.whole = TRUE]]
      /\ worker' = [worker EXCEPT ![w].pc = pc, ![w].then = "publish"]
      /\ UNCHANGED <<buildVars, queue, outcome>>
  BY DEF Validate, At
<1>2. pc \in {"remove", "publish"} /\ (MyFinal(w) \in DOMAIN dirs => pc # "publish")
  BY DEF Exists
<1> HIDE DEF pc
<1>3. Busy(w) /\ worker[w].pc \notin {"remove", "publish"} /\ Building(w)
  BY <1>1 DEF Busy, Building
<1>4. /\ worker[w].spec \in Specs /\ worker \in [Workers -> WorkType]
      /\ Temp(w) \in DOMAIN dirs /\ Built(dirs[Temp(w)])
      /\ dirs[Temp(w)].by = <<builds, worker[w].spec>>
      /\ MyFinal(w) \in DOMAIN dirs => dirs[MyFinal(w)].by[1] = builds \/ replace
  BY <1>1, <1>3, AtWork
<1>5. /\ DOMAIN dirs' = DOMAIN dirs /\ dirs'[Temp(w)] = [dirs[Temp(w)] EXCEPT !.whole = TRUE]
      /\ \A e \in DOMAIN dirs : e # Temp(w) => dirs'[e] = dirs[e]
      /\ dirs' = [e \in DOMAIN dirs' |-> dirs'[e]]
  BY <1>1, <1>4, Written
<1>6. Built(dirs'[Temp(w)]) /\ dirs'[Temp(w)].by = <<builds, worker[w].spec>> /\ dirs'[Temp(w)].whole
  BY <1>4, <1>5, MadeWhole
<1>7. /\ worker' \in [Workers -> WorkType]
      /\ worker'[w] = [pc |-> pc, spec |-> worker[w].spec, then |-> "publish"]
      /\ \A v \in Workers : v # w => worker'[v] = worker[v]
  <2>1. worker[w] \in WorkType /\ worker[w].spec \in {0} \cup Specs
    BY <1>4 DEF WorkType
  <2>2. [[worker[w] EXCEPT !.pc = pc] EXCEPT !.then = "publish"]
          = [pc |-> pc, spec |-> worker[w].spec, then |-> "publish"]
    <3>1. worker[w] = [pc |-> worker[w].pc, spec |-> worker[w].spec, then |-> worker[w].then]
      BY <2>1 DEF WorkType
    <3>2. [worker[w] EXCEPT !.pc = pc] = [pc |-> pc, spec |-> worker[w].spec, then |-> worker[w].then]
      BY <3>1
    <3>3. [[pc |-> pc, spec |-> worker[w].spec, then |-> worker[w].then] EXCEPT !.then = "publish"]
            = [pc |-> pc, spec |-> worker[w].spec, then |-> "publish"]
      OBVIOUS
    <3> QED
      BY <3>2, <3>3
  <2>3. [pc |-> pc, spec |-> worker[w].spec, then |-> "publish"] \in WorkType
    BY <1>2, <2>1 DEF WorkType, Pcs, Ending
  <2>4. worker' = [worker EXCEPT ![w] = [[worker[w] EXCEPT !.pc = pc] EXCEPT !.then = "publish"]]
    BY <1>1
  <2> HIDE DEF WorkType
  <2> QED
    BY <1>4, <2>2, <2>3, <2>4
<1>8. /\ worker'[w].pc \in {"remove", "publish"} /\ worker'[w].spec = worker[w].spec
      /\ worker'[w].then = "publish" /\ Building(w)'
  BY <1>2, <1>7 DEF Building
<1>9. DOMAIN dirs' = DOMAIN dirs \cup {Temp(w)} /\ worker'[w].pc # "rows"
  BY <1>4, <1>5, <1>8
<1>10. MyFinal(w) \in DOMAIN dirs =>
         dirs[MyFinal(w)].by[1] = builds \/ (replace /\ worker'[w].pc # "publish")
  BY <1>2, <1>4, <1>7
<1> QED
  BY <1>1, <1>3, <1>5, <1>6, <1>7, <1>8, <1>9, <1>10, BuildKeeps

LEMMA TornStill ==
    ASSUME NEW c, Built(c), NEW m \in BOOLEAN, NEW r \in {Nil, c.rows}
    PROVE  LET torn == [c EXCEPT !.manifest = m, !.rows = r, !.whole = FALSE]
           IN  Built(torn) /\ torn.by = c.by
<1>1. c = [by |-> c.by, label |-> c.label, manifest |-> c.manifest, rows |-> c.rows, torn |-> c.torn,
           whole |-> c.whole]
  BY DEF Built
<1>2. [c EXCEPT !.manifest = m]
        = [by |-> c.by, label |-> c.label, manifest |-> m, rows |-> c.rows, torn |-> c.torn, whole |-> c.whole]
  BY <1>1
<1>3. \A x : [[[c EXCEPT !.manifest = m] EXCEPT !.rows = r] EXCEPT !.whole = x]
        = [by |-> c.by, label |-> c.label, manifest |-> m, rows |-> r, torn |-> c.torn, whole |-> x]
  <2> TAKE x
  <2>1. [[by |-> c.by, label |-> c.label, manifest |-> m, rows |-> c.rows, torn |-> c.torn, whole |-> c.whole] EXCEPT !.rows = r]
          = [by |-> c.by, label |-> c.label, manifest |-> m, rows |-> r, torn |-> c.torn, whole |-> c.whole]
    OBVIOUS
  <2>2. [[by |-> c.by, label |-> c.label, manifest |-> m, rows |-> r, torn |-> c.torn, whole |-> c.whole] EXCEPT !.whole = x]
          = [by |-> c.by, label |-> c.label, manifest |-> m, rows |-> r, torn |-> c.torn, whole |-> x]
    OBVIOUS
  <2> QED
    BY <1>2, <2>1, <2>2, Zenon
<1>4. c.by \in Nat \X Nat /\ c.by[1] <= builds /\ c.torn \in BOOLEAN /\ RowsBegin(r)
  BY DEF Built, RowsBegin
<1>5. PICK b : b = FALSE
  OBVIOUS
<1>6. [[[c EXCEPT !.manifest = m] EXCEPT !.rows = r] EXCEPT !.whole = b]
        = [by |-> c.by, label |-> c.label, manifest |-> m, rows |-> r, torn |-> c.torn, whole |-> b]
  BY <1>3
<1> HIDE DEF RowsBegin
<1>7. /\ Built([[[c EXCEPT !.manifest = m] EXCEPT !.rows = r] EXCEPT !.whole = b])
      /\ [[[c EXCEPT !.manifest = m] EXCEPT !.rows = r] EXCEPT !.whole = b].by = c.by
  <2>1. Built([by |-> c.by, label |-> c.label, manifest |-> m, rows |-> r, torn |-> c.torn, whole |-> b])
    BY <1>4, <1>5 DEF Built
  <2> QED
    BY <1>6, <2>1
<1> QED
  BY <1>5, <1>7, Zenon

LEMMA TearKeeps ==
    ASSUME DatasetInv, NEW w \in Workers, Tear(w)
    PROVE  DatasetInv'
<1>1. PICK m \in BOOLEAN, r \in {Nil, dirs[MyFinal(w)].rows} :
         dirs' = [dirs EXCEPT ![MyFinal(w)] = [@ EXCEPT !.manifest = m, !.rows = r, !.whole = FALSE]]
  BY Zenon DEF Tear
<1>2. /\ status = "building" /\ worker[w].pc = "remove" /\ MyFinal(w) \in DOMAIN dirs
      /\ worker' = worker /\ outcome' = outcome /\ UNCHANGED <<buildVars, queue>>
  BY DEF Tear, At, Exists
<1>3. Busy(w)
  BY <1>2 DEF Busy
<1>4. /\ worker[w].spec \in Specs /\ outcome[worker[w].spec] = Nil /\ Nil \notin Results
      /\ worker \in [Workers -> WorkType] /\ outcome \in [Specs -> {Nil} \cup Results]
      /\ IsFiniteSet(DOMAIN dirs) /\ \A d \in DOMAIN dirs : Built(dirs[d])
      /\ Temp(w) # MyFinal(w) /\ (Temp(w) \in DOMAIN dirs <=> Building(w))
      /\ Building(w) => dirs[Temp(w)].by = <<builds, worker[w].spec>>
      /\ Building(w) => dirs[Temp(w)].whole
      /\ Building(w) /\ MyFinal(w) \in DOMAIN dirs => dirs[MyFinal(w)].by[1] = builds \/ replace
  BY <1>2, <1>3, AtWork
<1> DEFINE c    == dirs[MyFinal(w)]
           torn == [c EXCEPT !.manifest = m, !.rows = r, !.whole = FALSE]
<1>5. Built(torn) /\ torn.by = c.by
  <2>1. Built(c) /\ r \in {Nil, c.rows}
    BY <1>2, <1>4
  <2> HIDE DEF c
  <2> QED
    BY <2>1, TornStill
<1>6. dirs' = [dirs EXCEPT ![MyFinal(w)] = torn]
  BY <1>1, Zenon
<1> HIDE DEF torn
<1>7. /\ DOMAIN dirs' = DOMAIN dirs /\ dirs'[MyFinal(w)] = torn
      /\ \A e \in DOMAIN dirs : e # MyFinal(w) => dirs'[e] = dirs[e]
      /\ dirs' = [e \in DOMAIN dirs' |-> dirs'[e]]
  BY <1>2, <1>6, Written
<1>8. /\ captures' = captures /\ replace' = replace /\ training' = training /\ status' = status
      /\ builds' = builds /\ everKilled' = everKilled /\ queue' = queue
  BY <1>2 DEF buildVars
<1>9. WorkStep(w)
  <2>1. Continues(w)
    BY <1>2 DEF Continues
  <2>2. \A d \in DOMAIN dirs' : d \in {Temp(w), MyFinal(w)} => Built(dirs'[d])
    BY <1>4, <1>5, <1>7
  <2>3. /\ worker' \in [Workers -> WorkType] /\ outcome' \in [Specs -> {Nil} \cup Results]
        /\ \A v \in Workers : v # w => worker'[v] = worker[v]
        /\ \A i \in Specs : i # worker[w].spec => outcome'[i] = outcome[i]
        /\ IsFiniteSet(DOMAIN dirs')
    BY <1>2, <1>4, <1>7
  <2> QED
    BY <1>2, <1>3, <1>7, <1>8, <2>1, <2>2, <2>3 DEF WorkStep
<1>10. Building(w)' <=> Building(w)
  BY <1>2 DEF Building
<1>11. /\ worker'[w].then \in Ending
       /\ worker'[w].then # "publish" => replace /\ Capture(w).kind \in Barren
  BY <1>2 DEF DatasetInv, PlaceInv
<1>12. Building(w)' =>
         /\ Temp(w) \in DOMAIN dirs' /\ dirs'[Temp(w)].by = <<builds, worker[w].spec>>
         /\ dirs'[Temp(w)].whole
         /\ MyFinal(w) \in DOMAIN dirs' => dirs'[MyFinal(w)].by[1] = builds \/ replace
  BY <1>2, <1>4, <1>5, <1>7, <1>10
<1>13. worker'[w].pc = "remove" /\ worker'[w].pc # "rows" /\ (Temp(w) \in DOMAIN dirs' => Building(w)')
  BY <1>2, <1>4, <1>7, <1>10
<1>14. dirs'[MyFinal(w)].by = dirs[MyFinal(w)].by
  BY <1>5, <1>7
<1>15. outcome'[worker[w].spec] \notin {"created", "skipped", "skipped_empty", "skipped_unmapped"}
  BY <1>2, <1>4 DEF Results
<1>16. Honest(w)
  BY <1>2, <1>7, <1>14, <1>15 DEF Honest, GaveNothing
<1> QED
  BY <1>2, <1>9, <1>11, <1>12, <1>13, <1>14, <1>16, ActionKeeps

LEMMA RemovedKeeps ==
    ASSUME DatasetInv, NEW w \in Workers, Removed(w)
    PROVE  DatasetInv'
<1>1. /\ status = "building" /\ worker[w].pc = "remove" /\ UNCHANGED <<buildVars, queue>>
  BY DEF Removed, At
<1>2. Busy(w)
  BY <1>1 DEF Busy
<1>3. /\ worker[w].spec \in Specs /\ outcome[worker[w].spec] = Nil /\ Nil \notin Results
      /\ worker \in [Workers -> WorkType] /\ outcome \in [Specs -> {Nil} \cup Results]
      /\ IsFiniteSet(DOMAIN dirs) /\ \A d \in DOMAIN dirs : Built(dirs[d])
      /\ Temp(w) # MyFinal(w) /\ (Temp(w) \in DOMAIN dirs <=> Building(w))
      /\ Building(w) => dirs[Temp(w)].by = <<builds, worker[w].spec>>
      /\ Building(w) => dirs[Temp(w)].whole
  BY <1>1, <1>2, AtWork
<1>4. worker[w].then \in Ending
  BY <1>1 DEF DatasetInv, PlaceInv
<1>5. /\ captures' = captures /\ replace' = replace /\ training' = training /\ status' = status
      /\ builds' = builds /\ everKilled' = everKilled /\ queue' = queue
  BY <1>1 DEF buildVars
<1>6. ASSUME dirs' = Without(MyFinal(w))
      PROVE  /\ MyFinal(w) \notin DOMAIN dirs' /\ DOMAIN dirs' = DOMAIN dirs \ {MyFinal(w)}
             /\ \A d \in DOMAIN dirs' : dirs'[d] = dirs[d]
             /\ dirs' = [d \in DOMAIN dirs' |-> dirs'[d]] /\ IsFiniteSet(DOMAIN dirs')
             /\ \A d \in DOMAIN dirs' : d \in {Temp(w), MyFinal(w)} => Built(dirs'[d])
  <2>1. /\ DOMAIN dirs' = DOMAIN dirs \ {MyFinal(w)}
        /\ \A e \in DOMAIN dirs : e # MyFinal(w) => dirs'[e] = dirs[e]
        /\ dirs' = [e \in DOMAIN dirs' |-> dirs'[e]]
    BY <1>6, DirsWithout, Zenon
  <2>2. IsFiniteSet(DOMAIN dirs')
    BY <1>3, <2>1, FS_Subset
  <2> QED
    BY <1>3, <2>1, <2>2
<1>7. CASE worker[w].then # "publish"
  <2>1. dirs' = Without(MyFinal(w)) /\ Ends(w, worker[w].then)
    BY <1>7 DEF Removed
  <2>2. worker[w].then \in {"skipped_empty", "skipped_unmapped"} /\ worker[w].then \in Results
    BY <1>4, <1>7 DEF Ending, Results
  <2>3. /\ worker' \in [Workers -> WorkType] /\ worker'[w] = Idle
        /\ \A v \in Workers : v # w => worker'[v] = worker[v]
        /\ outcome' \in [Specs -> {Nil} \cup Results] /\ outcome'[worker[w].spec] = worker[w].then
        /\ \A i \in Specs : i # worker[w].spec => outcome'[i] = outcome[i]
    BY <1>3, <2>1, <2>2, WorkerEnds
  <2>4. worker'[w].pc = "idle" /\ ~Building(w)
    BY <1>1, <1>7, <2>3 DEF Idle, Building
  <2>5. /\ MyFinal(w) \notin DOMAIN dirs' /\ DOMAIN dirs' = DOMAIN dirs \ {MyFinal(w)}
        /\ \A d \in DOMAIN dirs' : dirs'[d] = dirs[d]
        /\ dirs' = [d \in DOMAIN dirs' |-> dirs'[d]] /\ IsFiniteSet(DOMAIN dirs')
        /\ \A d \in DOMAIN dirs' : d \in {Temp(w), MyFinal(w)} => Built(dirs'[d])
    BY <1>6, <2>1
  <2>6. WorkStep(w)
    <3>1. EndsIts(w)
      BY <2>2, <2>3 DEF EndsIts
    <3> QED
      BY <1>1, <1>2, <1>5, <2>3, <2>5, <3>1 DEF WorkStep
  <2>7. ~Building(w)' /\ Temp(w) \notin DOMAIN dirs' /\ worker'[w].pc # "remove"
        /\ outcome'[worker[w].spec] \notin {"created", "skipped"}
    BY <1>3, <2>2, <2>3, <2>4, <2>5 DEF Building
  <2>8. Honest(w)
    <3>1. replace
      BY <1>1, <1>7 DEF DatasetInv, PlaceInv
    <3> QED
      BY <1>1, <2>2, <2>3, <2>5, <2>7, <3>1 DEF Honest, GaveNothing
  <2> QED
    BY <2>5, <2>6, <2>7, <2>8, ActionKeeps
<1>8. CASE worker[w].then = "publish" /\ Exists(MyFinal(w))
  <2>1. dirs' = Without(MyFinal(w)) /\ Go(w, "publish") /\ outcome' = outcome /\ "publish" \in Pcs
    BY <1>8 DEF Removed, Pcs
  <2>2. /\ worker' \in [Workers -> WorkType]
        /\ worker'[w] = [pc |-> "publish", spec |-> worker[w].spec, then |-> worker[w].then]
        /\ \A v \in Workers : v # w => worker'[v] = worker[v]
    BY <1>3, <2>1, WorkerGoes
  <2>3. worker'[w].pc = "publish" /\ worker'[w].spec = worker[w].spec /\ Building(w)
    BY <1>1, <1>8, <2>2 DEF Building
  <2>4. /\ MyFinal(w) \notin DOMAIN dirs' /\ DOMAIN dirs' = DOMAIN dirs \ {MyFinal(w)}
        /\ \A d \in DOMAIN dirs' : dirs'[d] = dirs[d]
        /\ dirs' = [d \in DOMAIN dirs' |-> dirs'[d]] /\ IsFiniteSet(DOMAIN dirs')
        /\ \A d \in DOMAIN dirs' : d \in {Temp(w), MyFinal(w)} => Built(dirs'[d])
    BY <1>6, <2>1
  <2>5. WorkStep(w)
    <3>1. Continues(w)
      BY <2>1, <2>3 DEF Continues
    <3> QED
      BY <1>1, <1>2, <1>3, <1>5, <2>1, <2>2, <2>4, <3>1 DEF WorkStep
  <2>6. /\ Temp(w) \in DOMAIN dirs' /\ dirs'[Temp(w)].by = <<builds, worker[w].spec>>
        /\ dirs'[Temp(w)].whole /\ worker'[w].pc \notin {"remove", "rows"}
        /\ outcome'[worker[w].spec] \notin {"created", "skipped", "skipped_empty", "skipped_unmapped"}
    BY <1>3, <2>1, <2>3, <2>4 DEF Results
  <2>7. Building(w)'
    BY <2>3 DEF Building
  <2>8. Honest(w)
    BY <1>1, <2>3, <2>4, <2>6 DEF Honest, GaveNothing
  <2> QED
    BY <2>4, <2>5, <2>6, <2>7, <2>8, ActionKeeps
<1>9. CASE worker[w].then = "publish" /\ ~Exists(MyFinal(w))
  <2>1. dirs' = Without(Temp(w)) /\ Ends(w, "failed") /\ "failed" \in Results
    BY <1>9 DEF Removed, Cleanup, Results
  <2> QED
    BY <1>1, <1>2, <1>9, <2>1, EndKeeps DEF Exists
<1> QED
  BY <1>7, <1>8, <1>9

LEMMA PublishKeeps ==
    ASSUME DatasetInv, NEW w \in Workers, Publish(w)
    PROVE  DatasetInv'
<1>1. /\ status = "building" /\ worker[w].pc = "publish" /\ UNCHANGED <<buildVars, queue>>
  BY DEF Publish, At
<1>2. Busy(w) /\ Building(w)
  BY <1>1 DEF Busy, Building
<1>3. /\ worker[w].spec \in Specs /\ outcome[worker[w].spec] = Nil /\ Nil \notin Results
      /\ worker \in [Workers -> WorkType] /\ outcome \in [Specs -> {Nil} \cup Results]
      /\ IsFiniteSet(DOMAIN dirs) /\ \A d \in DOMAIN dirs : Built(dirs[d])
      /\ Temp(w) # MyFinal(w) /\ Temp(w) \in DOMAIN dirs
      /\ dirs[Temp(w)].by = <<builds, worker[w].spec>> /\ dirs[Temp(w)].whole
  BY <1>1, <1>2, AtWork
<1>4. CASE Exists(MyFinal(w))
  <2>1. dirs' = Without(Temp(w)) /\ Ends(w, "failed") /\ "failed" \in Results
    BY <1>4 DEF Publish, Cleanup, Results
  <2> QED
    BY <1>1, <1>2, <1>4, <2>1, EndKeeps DEF Exists
<1>5. CASE ~Exists(MyFinal(w))
  <2>1. /\ dirs' = [d \in (DOMAIN dirs \ {Temp(w)}) \cup {MyFinal(w)} |->
                      IF d = MyFinal(w) THEN dirs[Temp(w)] ELSE dirs[d]]
        /\ Ends(w, "created") /\ "created" \in Results
    BY <1>5 DEF Publish, Results
  <2>2. /\ DOMAIN dirs' = (DOMAIN dirs \ {Temp(w)}) \cup {MyFinal(w)} /\ dirs'[MyFinal(w)] = dirs[Temp(w)]
        /\ \A d \in DOMAIN dirs' : d # MyFinal(w) => d \in DOMAIN dirs /\ dirs'[d] = dirs[d]
        /\ dirs' = [d \in DOMAIN dirs' |-> dirs'[d]]
    BY <2>1
  <2>3. IsFiniteSet(DOMAIN dirs')
    <3>1. IsFiniteSet(DOMAIN dirs \ {Temp(w)})
      BY <1>3, FS_Subset
    <3> QED
      BY <2>2, <3>1, FS_AddElement
  <2>4. /\ worker' \in [Workers -> WorkType] /\ worker'[w] = Idle
        /\ \A v \in Workers : v # w => worker'[v] = worker[v]
        /\ outcome' \in [Specs -> {Nil} \cup Results] /\ outcome'[worker[w].spec] = "created"
        /\ \A i \in Specs : i # worker[w].spec => outcome'[i] = outcome[i]
    BY <1>3, <2>1, WorkerEnds
  <2>5. /\ captures' = captures /\ replace' = replace /\ training' = training /\ status' = status
        /\ builds' = builds /\ everKilled' = everKilled /\ queue' = queue
    BY <1>1 DEF buildVars
  <2>6. WorkStep(w)
    <3>1. EndsIts(w)
      BY <2>1, <2>4 DEF EndsIts
    <3>2. \A d \in DOMAIN dirs' : d \in {Temp(w), MyFinal(w)} => Built(dirs'[d])
      BY <1>3, <2>2
    <3>3. \A d \in DOMAIN dirs : d \notin {Temp(w), MyFinal(w)} => d \in DOMAIN dirs'
      BY <2>2
    <3> QED
      BY <1>1, <1>2, <2>2, <2>3, <2>4, <2>5, <3>1, <3>2, <3>3 DEF WorkStep
  <2>7. worker'[w].pc = "idle"
    BY <2>4 DEF Idle
  <2>8. /\ ~Building(w)' /\ Temp(w) \notin DOMAIN dirs' /\ MyFinal(w) \in DOMAIN dirs'
        /\ dirs'[MyFinal(w)].whole /\ dirs'[MyFinal(w)].by = <<builds, worker[w].spec>>
    BY <1>3, <2>2, <2>7 DEF Building
  <2>9. Honest(w)
    BY <2>4, <2>8 DEF Honest, GaveNothing
  <2> QED
    BY <2>4, <2>6, <2>7, <2>8, <2>9, ActionKeeps
<1> QED
  BY <1>4, <1>5

-----------------------------------------------------------------------------
(* What the builds do. *)

\* A step between splits keeps the invariant.
LEMMA DatasetStep == DatasetInv /\ [Next]_vars => DatasetInv'
<1> SUFFICES ASSUME DatasetInv, [Next]_vars PROVE DatasetInv'
  OBVIOUS
<1>1. CASE StartBuild
  BY <1>1, StartBuildKeeps
<1>2. CASE FinishBuild
  <2>1. UNCHANGED <<captures, replace, training, builds, everKilled, queue, worker, dirs, outcome>>
    BY <1>2 DEF FinishBuild
  <2> QED
    BY <1>2, <2>1, QuietKeeps
<1>3. CASE Kill
  BY <1>3, KillKeeps
<1>4. CASE MakeSplit
  <2>1. UNCHANGED <<captures, replace, training, builds, everKilled, queue, worker, dirs, outcome>>
        /\ status' = status
    BY <1>4 DEF MakeSplit, buildVars
  <2> QED
    BY <2>1, QuietKeeps
<1>5. ASSUME NEW w \in Workers,
             \/ Take(w) \/ KnownEmpty(w) \/ SkipExisting(w) \/ OpenTemp(w) \/ WriteManifest(w)
             \/ BuildFails(w) \/ OpenRows(w) \/ WriteRow(w) \/ Validate(w) \/ Tear(w) \/ Removed(w)
             \/ Publish(w)
      PROVE  DatasetInv'
  BY <1>5, TakeKeeps, KnownEmptyKeeps, SkipExistingKeeps, OpenTempKeeps, WriteManifestKeeps,
     BuildFailsKeeps, OpenRowsKeeps, WriteRowKeeps, ValidateKeeps, TearKeeps, RemovedKeeps, PublishKeeps
<1>6. CASE UNCHANGED vars
  <2>1. UNCHANGED <<captures, replace, training, builds, everKilled, queue, worker, dirs, outcome>>
        /\ status' = status
    BY <1>6 DEF vars, buildVars
  <2> QED
    BY <2>1, QuietKeeps
<1> QED
  BY <1>1, <1>2, <1>3, <1>4, <1>5, <1>6, Zenon DEF Next

\* Every build: each capture is in one place, a temporary directory belongs to one worker at work
\* or to a killed build, and what is published is what its capture came out as.
THEOREM DatasetHolds == Spec => []DatasetInv
BY DatasetInit, DatasetStep, PTL DEF Spec

\* The report of a finished build is true of the disk (process_capture), whatever the manifest,
\* captures of one name included, the number of workers and the builds that were killed before.
THEOREM OutcomeOnDiskHolds == Spec => []OutcomeOnDisk
<1>1. DatasetInv => OutcomeOnDisk
  <2> SUFFICES ASSUME DatasetInv, status = "built" PROVE OutcomeOnDisk
    BY DEF OutcomeOnDisk
  <2>1. \A w \in Workers : worker[w].pc = "idle"
    BY DEF DatasetInv, PlaceInv, Busy
  <2>2. builds \in Nat /\ builds # 0
    BY DatasetAssumption DEF DatasetInv, DatasetShape
  <2>3. \A w \in Workers : ~Building(w)
    BY <2>1 DEF Building
  <2>4. ASSUME NEW d \in DOMAIN dirs
        PROVE  /\ d.pid[1] # builds
               /\ dirs[d].by[1] = builds =>
                    /\ dirs[d].whole /\ d = FinalDir(dirs[d].by[2])
                    /\ outcome[dirs[d].by[2]] = "created"
    <3>1. CASE d.pid = NoPid
      <4>1. d.pid[1] = 0
        BY <3>1 DEF NoPid
      <4>2. /\ dirs[d].whole \/ dirs[d].by[1] < builds
            /\ builds > 0 /\ dirs[d].by[1] = builds =>
                 d = FinalDir(dirs[d].by[2]) /\ outcome[dirs[d].by[2]] = "created"
        BY <2>1, <3>1 DEF DatasetInv, FinalInv
      <4>3. dirs[d].by[1] \in Nat
        BY DEF DatasetInv, DatasetShape, Built
      <4> QED
        BY <2>2, <4>1, <4>2, <4>3
    <3>2. CASE d.pid # NoPid
      <4>1. dirs[d].by[1] = d.pid[1] /\ d.pid[1] < builds
        BY <2>3, <3>2 DEF DatasetInv, TempInv
      <4>2. dirs[d].by[1] \in Nat
        BY DEF DatasetInv, DatasetShape, Built
      <4> QED
        BY <2>2, <4>1, <4>2
    <3> QED
      BY <3>1, <3>2
  <2>5. ASSUME NEW i \in Specs
        PROVE  /\ outcome[i] = "created" => BuiltNow(FinalDir(i)) \/ (replace /\ GivenUp(FinalDir(i)))
               /\ outcome[i] = "skipped" => Exists(FinalDir(i))
               /\ outcome[i] \in {"skipped_empty", "skipped_unmapped"} /\ replace /\ Exists(FinalDir(i)) =>
                    BuiltNow(FinalDir(i))
    <3>1. ~Coming(FinalDir(i))
      BY <2>1 DEF Coming
    <3>2. ResultTrue(i)
      BY DEF DatasetInv, ResultInv
    <3> QED
      BY <3>1, <3>2 DEF ResultTrue, GaveNothing
  <2> QED
    BY <2>4, <2>5 DEF OutcomeOnDisk
<1> QED
  BY <1>1, DatasetHolds, PTL

\* A worker removes a finished workload only with --replace because its capture gives nothing, or
\* because the new version is complete.
LEMMA RemovesRightly ==
    ASSUME DatasetInv, NEW w \in Workers, At(w, "remove"), NEW d \in DOMAIN dirs, d = MyFinal(w)
    PROVE  /\ worker[w].spec # 0
           /\ \/ replace /\ Capture(w).kind \in Barren
              \/ (replace \/ BuiltNow(d)) /\ Exists(Temp(w)) /\ dirs[Temp(w)].whole
<1>1. status = "building" /\ worker[w].pc = "remove" /\ Busy(w)
  BY DEF At, Busy
<1>2. /\ worker[w].spec \in Specs
      /\ (Temp(w) \in DOMAIN dirs <=> Building(w)) /\ (Building(w) => dirs[Temp(w)].whole)
      /\ Building(w) /\ MyFinal(w) \in DOMAIN dirs => dirs[MyFinal(w)].by[1] = builds \/ replace
  BY <1>1, AtWork
<1>3. worker[w].spec # 0
  BY <1>2 DEF Specs, DatasetInv, DatasetShape
<1>4. worker[w].then = "publish" => Building(w)
  BY <1>1 DEF Building
<1>5. worker[w].then # "publish" => replace /\ Capture(w).kind \in Barren
  BY <1>1 DEF DatasetInv, PlaceInv
<1> QED
  BY <1>2, <1>3, <1>4, <1>5 DEF Exists, BuiltNow

\* A finished workload is there, unchanged, until its successor is complete or --replace is given
\* for a capture that yields nothing (process_capture).
THEOREM KeptUntilReadyHolds == Spec => KeptUntilReady
<1> DEFINE Kept(d) ==
      \/ d \in DOMAIN dirs' /\ dirs'[d] = dirs[d]
      \/ \E w \in Workers : worker[w].spec # 0 /\ MyFinal(w) = d
           /\ \/ replace /\ Capture(w).kind \in {"counted empty", "unlaunched", "unmapped"}
              \/ (replace \/ BuiltNow(d)) /\ Exists(Temp(w)) /\ dirs[Temp(w)].whole
<1>1. ASSUME DatasetInv, [Next]_vars, NEW d \in DOMAIN dirs, d.pid = NoPid
      PROVE  Kept(d)
  <2>1. ASSUME NEW w \in Workers, At(w, "remove"), d = MyFinal(w) PROVE Kept(d)
    <3>1. /\ worker[w].spec # 0
          /\ \/ replace /\ Capture(w).kind \in Barren
             \/ (replace \/ BuiltNow(d)) /\ Exists(Temp(w)) /\ dirs[Temp(w)].whole
      BY <1>1, <2>1, RemovesRightly
    <3> QED
      BY <2>1, <3>1 DEF Barren
  <2>2. ASSUME NEW w \in Workers, status = "building" PROVE d # Temp(w)
    <3>1. builds \in Nat \ {0}
      BY <1>1, <2>2, DatasetAssumption DEF DatasetInv, DatasetShape
    <3> QED
      BY <1>1, <3>1, TempApart
  <2>3. CASE dirs' = dirs
    BY <2>3
  <2>4. ASSUME NEW w \in Workers, status = "building", dirs' = Without(Temp(w)) PROVE Kept(d)
    <3>1. d # Temp(w)
      BY <2>2, <2>4
    <3>2. DOMAIN Without(Temp(w)) = DOMAIN dirs \ {Temp(w)} /\ Without(Temp(w))[d] = dirs[d]
      BY <3>1, DirsWithout, Zenon
    <3> QED
      BY <2>4, <3>1, <3>2
  <2>5. ASSUME NEW w \in Workers, OpenTemp(w) PROVE Kept(d)
    <3> DEFINE c == NewContent(worker[w].spec)
               t == Temp(w)
    <3>1. status = "building" /\ dirs' = With(t, c)
      BY <2>5 DEF OpenTemp, At
    <3>2. d # t
      BY <2>2, <3>1
    <3> HIDE DEF c, t
    <3>3. DOMAIN With(t, c) = DOMAIN dirs \cup {t} /\ With(t, c)[d] = dirs[d]
      <4>1. DOMAIN With(t, c) = DOMAIN dirs \cup {t} /\ \A e \in DOMAIN dirs : e # t => With(t, c)[e] = dirs[e]
        BY DirsWith
      <4> QED
        BY <3>2, <4>1
    <3> QED
      BY <3>1, <3>3
  <2>6. ASSUME NEW w \in Workers, WriteManifest(w) \/ OpenRows(w) \/ WriteRow(w) \/ Validate(w)
        PROVE  Kept(d)
    <3>1. status = "building" /\ \E c : dirs' = [dirs EXCEPT ![Temp(w)] = c]
      BY <2>6, Zenon DEF WriteManifest, OpenRows, WriteRow, Validate, At
    <3>2. d # Temp(w)
      BY <2>2, <3>1
    <3> QED
      BY <3>1, <3>2
  <2>7. ASSUME NEW w \in Workers, Tear(w) PROVE Kept(d)
    <3>1. At(w, "remove") /\ \E c : dirs' = [dirs EXCEPT ![MyFinal(w)] = c]
      BY <2>7, Zenon DEF Tear
    <3>2. CASE d = MyFinal(w)
      BY <2>1, <3>1, <3>2
    <3>3. CASE d # MyFinal(w)
      BY <3>1, <3>3
    <3> QED
      BY <3>2, <3>3
  <2>8. ASSUME NEW w \in Workers, Removed(w) PROVE Kept(d)
    <3>1. At(w, "remove") /\ status = "building" /\ (dirs' = Without(MyFinal(w)) \/ dirs' = Without(Temp(w)))
      BY <2>8 DEF Removed, At, Cleanup
    <3>2. CASE dirs' = Without(Temp(w))
      BY <2>4, <3>1, <3>2
    <3>3. CASE d = MyFinal(w)
      BY <2>1, <3>1, <3>3
    <3>4. CASE d # MyFinal(w) /\ dirs' = Without(MyFinal(w))
      <4>1. DOMAIN Without(MyFinal(w)) = DOMAIN dirs \ {MyFinal(w)} /\ Without(MyFinal(w))[d] = dirs[d]
        BY <3>4, DirsWithout, Zenon
      <4> QED
        BY <3>4, <4>1
    <3> QED
      BY <3>1, <3>2, <3>3, <3>4
  <2>9. ASSUME NEW w \in Workers, Publish(w) PROVE Kept(d)
    <3>1. status = "building"
      BY <2>9 DEF Publish, At
    <3>2. CASE Exists(MyFinal(w))
      <4>1. dirs' = Without(Temp(w))
        BY <2>9, <3>2 DEF Publish, Cleanup
      <4> QED
        BY <2>4, <3>1, <4>1
    <3>3. CASE ~Exists(MyFinal(w))
      <4>1. dirs' = [e \in (DOMAIN dirs \ {Temp(w)}) \cup {MyFinal(w)} |->
                       IF e = MyFinal(w) THEN dirs[Temp(w)] ELSE dirs[e]]
        BY <2>9, <3>3 DEF Publish
      <4>2. d # Temp(w) /\ d # MyFinal(w)
        BY <2>2, <3>1, <3>3 DEF Exists
      <4> QED
        BY <4>1, <4>2
    <3> QED
      BY <3>2, <3>3
  <2>10. ASSUME NEW w \in Workers, BuildFails(w) PROVE Kept(d)
    BY <2>4, <2>10 DEF BuildFails, At, Cleanup
  <2>11. StartBuild \/ FinishBuild \/ MakeSplit \/ UNCHANGED vars => dirs' = dirs
    BY DEF StartBuild, FinishBuild, MakeSplit, vars
  <2>13. CASE Kill
    BY <1>1, <2>13, KillCuts
  <2>12. \A w \in Workers : Take(w) \/ KnownEmpty(w) \/ SkipExisting(w) => dirs' = dirs
    BY DEF Take, KnownEmpty, SkipExisting
  <2> HIDE DEF Kept
  <2> QED
    BY <1>1, <2>3, <2>5, <2>6, <2>7, <2>8, <2>9, <2>10, <2>11, <2>12, <2>13, Zenon DEF Next
<1>2. DatasetInv /\ [Next]_vars =>
        [\A d \in DOMAIN dirs : d.pid = NoPid /\ dirs[d].whole => Kept(d)]_vars
  <2> HIDE DEF Kept
  <2> QED
    BY <1>1
<1> QED
  BY <1>2, DatasetHolds, PTL DEF Spec, KeptUntilReady

-----------------------------------------------------------------------------
(* The sizes of a split. *)

LEMMA SplitNamesPos == Pos("train") = 1 /\ Pos("val") = 2 /\ Pos("test") = 3
<1>1. SplitNames[1] = "train" /\ SplitNames[2] = "val" /\ SplitNames[3] = "test"
  BY DEF SplitNames
<1>2. \A x \in 1..3 : x = 1 \/ x = 2 \/ x = 3
  OBVIOUS
<1>3. /\ \A x \in 1..3 : SplitNames[x] = "train" => x = 1
      /\ \A x \in 1..3 : SplitNames[x] = "val" => x = 2
      /\ \A x \in 1..3 : SplitNames[x] = "test" => x = 3
  BY <1>1, <1>2
<1>4. /\ Pos("train") \in 1..3 /\ SplitNames[Pos("train")] = "train"
      /\ Pos("val") \in 1..3 /\ SplitNames[Pos("val")] = "val"
      /\ Pos("test") \in 1..3 /\ SplitNames[Pos("test")] = "test"
  <2>1. 1 \in 1..3 /\ 2 \in 1..3 /\ 3 \in 1..3
    OBVIOUS
  <2> QED
    BY <1>1, <2>1 DEF Pos
<1> QED
  BY <1>3, <1>4

\* The size of a set of at most two.
LEMMA TwoAtMost ==
    ASSUME NEW u, NEW v, u # v, NEW S \in SUBSET {u, v}
    PROVE  Cardinality(S) = (IF u \in S THEN 1 ELSE 0) + (IF v \in S THEN 1 ELSE 0)
<1>1. S = {} \/ S = {u} \/ S = {v} \/ S = {u, v}
  OBVIOUS
<1>2. Cardinality({}) = 0 /\ IsFiniteSet({})
  BY FS_EmptySet
<1>3. Cardinality({u}) = 1 /\ Cardinality({v}) = 1 /\ IsFiniteSet({u})
  BY FS_Singleton
<1>4. Cardinality({u} \cup {v}) = 2
  BY <1>3, FS_AddElement
<1>5. {u, v} = {u} \cup {v}
  OBVIOUS
<1> QED
  BY <1>1, <1>2, <1>3, <1>4, <1>5

LEMMA ShareRange ==
    /\ \A s \in Splits : Share[s] \in Nat /\ Share[s] > 0
    /\ Share["train"] + Share["val"] + Share["test"] = 100
<1>1. /\ \A s \in Splits : Share[s] \in 1..100
      /\ Share["train"] + Share["val"] + Share["test"] = 100
  BY DatasetAssumption, Zenon
<1> QED
  BY <1>1

\* Whole shares and what is left of them.
LEMMA SharesOf ==
    ASSUME NEW n \in Nat, NEW s \in Splits
    PROVE  /\ n * Share[s] \in Nat /\ (n * Share[s]) \div 100 \in Nat /\ (n * Share[s]) % 100 \in 0..99
           /\ n * Share[s] = 100 * ((n * Share[s]) \div 100) + ((n * Share[s]) % 100)
           /\ n > 0 => n * Share[s] > 0
<1>1. Share[s] \in Nat /\ Share[s] > 0
  BY ShareRange
<1>2. n * Share[s] \in Nat /\ (n > 0 => n * Share[s] > 0)
  BY <1>1
<1>3. \A a \in Nat : a \div 100 \in Nat /\ a % 100 \in 0..99 /\ a = 100 * (a \div 100) + (a % 100)
  OBVIOUS
<1> QED
  BY <1>2, <1>3

LEMMA SharesAddUp ==
    ASSUME NEW n \in Nat
    PROVE  n * Share["train"] + n * Share["val"] + n * Share["test"] = 100 * n
<1>1. Share["train"] \in Nat /\ Share["val"] \in Nat /\ Share["test"] \in Nat
      /\ Share["train"] + Share["val"] + Share["test"] = 100
  BY ShareRange DEF Splits
<1>2. \A a, b, c \in Nat : n * a + n * b + n * c = n * (a + b + c)
  OBVIOUS
<1>3. n * Share["train"] + n * Share["val"] + n * Share["test"] = n * 100
  <2>1. n * Share["train"] + n * Share["val"] + n * Share["test"]
          = n * (Share["train"] + Share["val"] + Share["test"])
    BY <1>1, <1>2
  <2> QED
    BY <1>1, <2>1
<1> QED
  BY <1>3

\* Rounding shares out every group, and to no split a whole group too many or too few.
LEMMA RoundedSound ==
    ASSUME NEW n \in Nat
    PROVE  /\ Rounded(n) \in [Splits -> Nat]
           /\ Rounded(n)["train"] + Rounded(n)["val"] + Rounded(n)["test"] = n
           /\ \A s \in Splits : 100 * Rounded(n)[s] - n * Share[s] \in -99..100
<1> DEFINE whole(s) == (n * Share[s]) \div 100
           part(s)  == (n * Share[s]) % 100
           before(s, t) == \/ part(s) > part(t)
                           \/ part(s) = part(t) /\ Share[s] > Share[t]
                           \/ part(s) = part(t) /\ Share[s] = Share[t] /\ Pos(s) < Pos(t)
           first(s) == {t \in Splits : before(t, s)}
           rank(s) == Cardinality(first(s))
           rest    == n - (whole("train") + whole("val") + whole("test"))
           more(s) == IF rank(s) < rest THEN 1 ELSE 0
<1>1. Rounded(n) = [s \in Splits |-> whole(s) + more(s)]
  BY DEF Rounded
<1>2. \A s \in Splits : s = "train" \/ s = "val" \/ s = "test"
  BY DEF Splits
<1>3. "train" \in Splits /\ "val" \in Splits /\ "test" \in Splits
  BY DEF Splits
<1>4. \A s \in Splits : /\ whole(s) \in Nat /\ part(s) \in 0..99
                        /\ n * Share[s] = 100 * whole(s) + part(s) /\ n * Share[s] \in Nat
  BY SharesOf
<1>5. n * Share["train"] + n * Share["val"] + n * Share["test"] = 100 * n
  BY SharesAddUp
<1>6. \A s \in Splits : Share[s] \in Nat /\ Pos(s) \in Nat
  BY <1>2, ShareRange, SplitNamesPos
<1>7. \A s, t \in Splits : s # t => Pos(s) # Pos(t)
  BY <1>2, SplitNamesPos
<1>8. \A s, t \in Splits : s # t => (before(s, t) <=> ~before(t, s))
  <2> SUFFICES ASSUME NEW s \in Splits, NEW t \in Splits, s # t PROVE before(s, t) <=> ~before(t, s)
    OBVIOUS
  <2>1. part(s) \in Nat /\ part(t) \in Nat /\ Share[s] \in Nat /\ Share[t] \in Nat
        /\ Pos(s) \in Nat /\ Pos(t) \in Nat /\ Pos(s) # Pos(t)
    BY <1>4, <1>6, <1>7
  <2> HIDE DEF part
  <2> QED
    BY <2>1
<1>9. \A s \in Splits : ~before(s, s)
  <2> SUFFICES ASSUME NEW s \in Splits PROVE ~before(s, s)
    OBVIOUS
  <2>1. part(s) \in Nat /\ Share[s] \in Nat /\ Pos(s) \in Nat
    BY <1>4, <1>6
  <2> HIDE DEF part
  <2> QED
    BY <2>1
<1>10. \A s, t, u \in Splits : before(s, t) /\ before(t, u) => before(s, u)
  <2> SUFFICES ASSUME NEW s \in Splits, NEW t \in Splits, NEW u \in Splits, before(s, t), before(t, u)
               PROVE  before(s, u)
    OBVIOUS
  <2>1. part(s) \in Nat /\ part(t) \in Nat /\ part(u) \in Nat
        /\ Share[s] \in Nat /\ Share[t] \in Nat /\ Share[u] \in Nat
        /\ Pos(s) \in Nat /\ Pos(t) \in Nat /\ Pos(u) \in Nat
    BY <1>4, <1>6
  <2> HIDE DEF part
  <2> QED
    BY <2>1
<1> HIDE DEF before
<1>11. ASSUME NEW s \in Splits, NEW u \in Splits, NEW v \in Splits, s # u, u # v, s # v
       PROVE  rank(s) = (IF before(u, s) THEN 1 ELSE 0) + (IF before(v, s) THEN 1 ELSE 0)
  <2>1. Splits = {s, u, v}
    BY <1>11 DEF Splits
  <2>2. first(s) \in SUBSET {u, v} /\ (u \in first(s) <=> before(u, s)) /\ (v \in first(s) <=> before(v, s))
    BY <1>9, <2>1
  <2> HIDE DEF first
  <2>3. Cardinality(first(s)) = (IF u \in first(s) THEN 1 ELSE 0) + (IF v \in first(s) THEN 1 ELSE 0)
    BY <1>11, <2>2, TwoAtMost
  <2> QED
    BY <2>2, <2>3
<1>12. /\ rank("train") = (IF before("val", "train") THEN 1 ELSE 0) + (IF before("test", "train") THEN 1 ELSE 0)
       /\ rank("val") = (IF before("train", "val") THEN 1 ELSE 0) + (IF before("test", "val") THEN 1 ELSE 0)
       /\ rank("test") = (IF before("train", "test") THEN 1 ELSE 0) + (IF before("val", "test") THEN 1 ELSE 0)
  <2> HIDE DEF rank
  <2>1. "train" # "val" /\ "train" # "test" /\ "val" # "test"
    OBVIOUS
  <2> QED
    BY <1>3, <1>11, <2>1
<1>13. rest \in 0..2 /\ rest = n - (whole("train") + whole("val") + whole("test"))
  <2> DEFINE a == n * Share["train"]  b == n * Share["val"]  c == n * Share["test"]
  <2>1. /\ whole("train") \in Nat /\ part("train") \in 0..99 /\ a = 100 * whole("train") + part("train")
        /\ whole("val") \in Nat /\ part("val") \in 0..99 /\ b = 100 * whole("val") + part("val")
        /\ whole("test") \in Nat /\ part("test") \in 0..99 /\ c = 100 * whole("test") + part("test")
    BY <1>3, <1>4
  <2>2. a + b + c = 100 * n
    BY <1>5
  <2> HIDE DEF whole, part, a, b, c
  <2> QED
    BY <2>1, <2>2
<1> HIDE DEF whole, part, rank, rest
<1>14. more("train") + more("val") + more("test") = rest
  <2>1. /\ before("train", "val") <=> ~before("val", "train")
        /\ before("train", "test") <=> ~before("test", "train")
        /\ before("val", "test") <=> ~before("test", "val")
    BY <1>3, <1>8
  <2>2. /\ before("train", "val") /\ before("val", "test") => before("train", "test")
        /\ before("test", "val") /\ before("val", "train") => before("test", "train")
    BY <1>3, <1>10
  <2> QED
    BY <1>12, <1>13, <2>1, <2>2
<1>15. \A s \in Splits : more(s) \in 0..1
  OBVIOUS
<1> HIDE DEF more
<1>16. \A s \in Splits : Rounded(n)[s] = whole(s) + more(s) /\ Rounded(n)[s] \in Nat
  BY <1>1, <1>4, <1>15
<1>17. Rounded(n) \in [Splits -> Nat]
  BY <1>1, <1>4, <1>15
<1>18. Rounded(n)["train"] + Rounded(n)["val"] + Rounded(n)["test"] = n
  BY <1>3, <1>4, <1>13, <1>14, <1>15, <1>16
<1>19. \A s \in Splits : 100 * Rounded(n)[s] - n * Share[s] \in -99..100
  <2> SUFFICES ASSUME NEW s \in Splits PROVE 100 * Rounded(n)[s] - n * Share[s] \in -99..100
    OBVIOUS
  <2> DEFINE a == n * Share[s]
  <2>1. a \in Nat /\ a = 100 * whole(s) + part(s) /\ whole(s) \in Nat /\ part(s) \in 0..99
        /\ more(s) \in 0..1 /\ Rounded(n)[s] = whole(s) + more(s)
    BY <1>4, <1>15, <1>16
  <2> HIDE DEF a
  <2>2. 100 * Rounded(n)[s] - a \in -99..100
    BY <2>1
  <2> QED
    BY <2>2 DEF a
<1> QED
  BY <1>17, <1>18, <1>19

\* The donor has the most.
LEMMA DonorHasMost ==
    ASSUME NEW c \in [Splits -> Nat]
    PROVE  Donor(c) \in Splits /\ \A t \in Splits : c[Donor(c)] >= c[t]
<1>1. \A s \in Splits : s = "train" \/ s = "val" \/ s = "test"
  BY DEF Splits
<1>2. "train" \in Splits /\ "val" \in Splits /\ "test" \in Splits
  BY DEF Splits
<1>3. \E d \in Splits : \A t \in Splits : c[d] > c[t] \/ (c[d] = c[t] /\ Pos(d) <= Pos(t))
  <2>1. c["train"] \in Nat /\ c["val"] \in Nat /\ c["test"] \in Nat
    BY <1>2
  <2>2. CASE c["train"] >= c["val"] /\ c["train"] >= c["test"]
    <3>1. \A t \in Splits : c["train"] > c[t] \/ (c["train"] = c[t] /\ Pos("train") <= Pos(t))
      BY <1>1, <2>1, <2>2, SplitNamesPos
    <3> QED
      BY <1>2, <3>1
  <2>3. CASE c["val"] > c["train"] /\ c["val"] >= c["test"]
    <3>1. \A t \in Splits : c["val"] > c[t] \/ (c["val"] = c[t] /\ Pos("val") <= Pos(t))
      BY <1>1, <2>1, <2>3, SplitNamesPos
    <3> QED
      BY <1>2, <3>1
  <2>4. CASE c["test"] > c["train"] /\ c["test"] > c["val"]
    <3>1. \A t \in Splits : c["test"] > c[t] \/ (c["test"] = c[t] /\ Pos("test") <= Pos(t))
      BY <1>1, <2>1, <2>4, SplitNamesPos
    <3> QED
      BY <1>2, <3>1
  <2> QED
    BY <2>1, <2>2, <2>3, <2>4
<1>4. /\ Donor(c) \in Splits
      /\ \A t \in Splits : c[Donor(c)] > c[t] \/ (c[Donor(c)] = c[t] /\ Pos(Donor(c)) <= Pos(t))
  BY <1>3 DEF Donor
<1> HIDE DEF Donor
<1>5. \A t \in Splits : c[t] \in Nat /\ c[Donor(c)] \in Nat
  BY <1>4
<1> QED
  BY <1>4, <1>5

\* A donation fills one empty split out of the largest and changes nothing else.
LEMMA DonateSound ==
    ASSUME NEW c \in [Splits -> Nat], c["train"] + c["val"] + c["test"] >= 3, NEW s \in Splits
    PROVE  /\ Donate(c, s) \in [Splits -> Nat]
           /\ Donate(c, s)["train"] + Donate(c, s)["val"] + Donate(c, s)["test"]
                = c["train"] + c["val"] + c["test"]
           /\ \/ c[s] > 0 /\ \A t \in Splits : Donate(c, s)[t] = c[t]
              \/ /\ c[s] = 0 /\ Donate(c, s)[s] = 1
                 /\ \E d \in Splits : /\ d # s /\ c[d] > 1 /\ Donate(c, s)[d] = c[d] - 1
                                      /\ \A t \in Splits : t \notin {d, s} => Donate(c, s)[t] = c[t]
<1> DEFINE d == Donor(c)
<1>1. d \in Splits /\ \A t \in Splits : c[d] >= c[t]
  BY DonorHasMost
<1>2. Donate(c, s) = IF c[s] = 0 /\ c[d] > 1 THEN [c EXCEPT ![d] = c[d] - 1, ![s] = 1] ELSE c
  BY DEF Donate
<1> HIDE DEF d
<1>3. "train" \in Splits /\ "val" \in Splits /\ "test" \in Splits
      /\ \A t \in Splits : t = "train" \/ t = "val" \/ t = "test"
  BY DEF Splits
<1>4. \A t \in Splits : c[t] \in Nat
  OBVIOUS
<1>5. CASE c[s] > 0
  <2>1. Donate(c, s) = c
    BY <1>2, <1>4, <1>5
  <2> QED
    BY <1>5, <2>1
<1>6. CASE c[s] = 0
  <2>1. c[d] > 1
    <3>1. c["train"] + c["val"] + c["test"] >= 3 /\ c["train"] \in Nat /\ c["val"] \in Nat /\ c["test"] \in Nat
          /\ c["train"] <= c[d] /\ c["val"] <= c[d] /\ c["test"] <= c[d] /\ c[d] \in Nat
      BY <1>1, <1>3, <1>4
    <3>2. s = "train" \/ s = "val" \/ s = "test"
      BY <1>3
    <3> QED
      BY <1>6, <3>1, <3>2
  <2>2. Donate(c, s) = [c EXCEPT ![d] = c[d] - 1, ![s] = 1] /\ d # s
    BY <1>2, <1>6, <2>1
  <2> DEFINE e == [c EXCEPT ![d] = c[d] - 1, ![s] = 1]
  <2>3. /\ e[s] = 1 /\ e[d] = c[d] - 1 /\ \A t \in Splits : t \notin {d, s} => e[t] = c[t]
        /\ e \in [Splits -> Nat]
    BY <1>1, <1>4, <2>1, <2>2
  <2> HIDE DEF e
  <2>4. e["train"] + e["val"] + e["test"] = c["train"] + c["val"] + c["test"]
    <3>1. \A t \in Splits : c[t] \in Nat /\ e[t] \in Nat
      BY <1>4, <2>3
    <3>2. (s = "train" \/ s = "val" \/ s = "test") /\ (d = "train" \/ d = "val" \/ d = "test")
      BY <1>1, <1>3
    <3> QED
      BY <1>3, <1>6, <2>2, <2>3, <3>1, <3>2
  <2> QED
    BY <1>1, <1>6, <2>1, <2>2, <2>3, <2>4 DEF e
<1> QED
  BY <1>4, <1>5, <1>6

\* Three or more groups: no split is left empty, and none is two groups away from its share.
LEMMA GroupCountsSound ==
    ASSUME NEW n \in Nat, NEW s \in Splits
    PROVE  /\ GroupCounts(n)[s] \in Nat /\ (n >= 3 => GroupCounts(n)[s] > 0)
           /\ 100 * GroupCounts(n)[s] - n * Share[s] \in -199..199
<1> DEFINE c0 == Rounded(n)
           c1 == Donate(c0, "train")
           c2 == Donate(c1, "val")
           c3 == Donate(c2, "test")
           a  == n * Share["train"]
           b  == n * Share["val"]
           e  == n * Share["test"]
<1>1. "train" \in Splits /\ "val" \in Splits /\ "test" \in Splits
      /\ \A t \in Splits : t = "train" \/ t = "val" \/ t = "test"
  BY DEF Splits
<1>2. /\ c0 \in [Splits -> Nat] /\ c0["train"] + c0["val"] + c0["test"] = n
      /\ \A t \in Splits : 100 * c0[t] - n * Share[t] \in -99..100
  BY RoundedSound
<1>3. CASE n < 3
  <2>1. GroupCounts(n) = c0
    BY <1>3 DEF GroupCounts
  <2>2. 100 * c0[s] - n * Share[s] \in -99..100 /\ c0[s] \in Nat
    BY <1>2
  <2> DEFINE x == 100 * c0[s] - n * Share[s]
  <2>3. x \in -199..199
    <3>1. x \in -99..100
      BY <2>2
    <3> HIDE DEF x
    <3> QED
      BY <3>1
  <2> QED
    BY <1>3, <2>1, <2>2, <2>3
<1>4. CASE n >= 3
  <2>1. GroupCounts(n) = c3
    BY <1>4 DEF GroupCounts
  <2>2. /\ c1 \in [Splits -> Nat] /\ c1["train"] + c1["val"] + c1["test"] = n
        /\ \/ c0["train"] > 0 /\ \A t \in Splits : c1[t] = c0[t]
           \/ /\ c0["train"] = 0 /\ c1["train"] = 1
              /\ \E d \in Splits : /\ d # "train" /\ c0[d] > 1 /\ c1[d] = c0[d] - 1
                                   /\ \A t \in Splits : t \notin {d, "train"} => c1[t] = c0[t]
    <3> HIDE DEF c0
    <3> QED
      BY <1>1, <1>2, <1>4, DonateSound
  <2>3. /\ c2 \in [Splits -> Nat] /\ c2["train"] + c2["val"] + c2["test"] = n
        /\ \/ c1["val"] > 0 /\ \A t \in Splits : c2[t] = c1[t]
           \/ /\ c1["val"] = 0 /\ c2["val"] = 1
              /\ \E d \in Splits : /\ d # "val" /\ c1[d] > 1 /\ c2[d] = c1[d] - 1
                                   /\ \A t \in Splits : t \notin {d, "val"} => c2[t] = c1[t]
    <3> HIDE DEF c1
    <3> QED
      BY <1>1, <1>4, <2>2, DonateSound
  <2>4. /\ c3 \in [Splits -> Nat] /\ c3["train"] + c3["val"] + c3["test"] = n
        /\ \/ c2["test"] > 0 /\ \A t \in Splits : c3[t] = c2[t]
           \/ /\ c2["test"] = 0 /\ c3["test"] = 1
              /\ \E d \in Splits : /\ d # "test" /\ c2[d] > 1 /\ c3[d] = c2[d] - 1
                                   /\ \A t \in Splits : t \notin {d, "test"} => c3[t] = c2[t]
    <3> HIDE DEF c2
    <3> QED
      BY <1>1, <1>4, <2>3, DonateSound
  <2>5. /\ a \in Nat /\ b \in Nat /\ e \in Nat /\ a > 0 /\ b > 0 /\ e > 0 /\ a + b + e = 100 * n
    <3>1. \A t \in Splits : n * Share[t] \in Nat /\ (n > 0 => n * Share[t] > 0)
      BY SharesOf
    <3>2. n > 0
      BY <1>4
    <3>3. n * Share["train"] + n * Share["val"] + n * Share["test"] = 100 * n
      BY SharesAddUp
    <3> QED
      BY <1>1, <3>1, <3>2, <3>3
  <2>6. /\ 100 * c0["train"] - a \in -99..100 /\ 100 * c0["val"] - b \in -99..100
        /\ 100 * c0["test"] - e \in -99..100
    BY <1>1, <1>2
  <2>7. /\ c0["train"] \in Nat /\ c0["val"] \in Nat /\ c0["test"] \in Nat
        /\ c0["train"] + c0["val"] + c0["test"] = n
    BY <1>1, <1>2
  <2> HIDE DEF c0, c1, c2, c3, a, b, e
  <2> DEFINE x == c0["train"]   y == c0["val"]   z == c0["test"]
             x1 == c1["train"]  y1 == c1["val"]  z1 == c1["test"]
             x2 == c2["train"]  y2 == c2["val"]  z2 == c2["test"]
             x3 == c3["train"]  y3 == c3["val"]  z3 == c3["test"]
  <2>8. /\ n \in Nat /\ a \in Nat /\ b \in Nat /\ e \in Nat /\ a > 0 /\ b > 0 /\ e > 0 /\ a + b + e = 100 * n
         /\ x \in Nat /\ y \in Nat /\ z \in Nat /\ x + y + z = n
         /\ 100 * x - a \in -99..100 /\ 100 * y - b \in -99..100 /\ 100 * z - e \in -99..100
    BY <2>5, <2>6, <2>7
  <2>9. /\ x1 \in Nat /\ y1 \in Nat /\ z1 \in Nat
        /\ \/ /\ x > 0
              /\ x1 = x /\ y1 = y /\ z1 = z
           \/ /\ x = 0 /\ x1 = 1 /\ y > 1
              /\ y1 = y - 1 /\ z1 = z
           \/ /\ x = 0 /\ x1 = 1 /\ z > 1
              /\ z1 = z - 1 /\ y1 = y
    BY <1>1, <2>2
  <2>10. /\ x2 \in Nat /\ y2 \in Nat /\ z2 \in Nat
        /\ \/ /\ y1 > 0
              /\ x2 = x1 /\ y2 = y1 /\ z2 = z1
           \/ /\ y1 = 0 /\ y2 = 1 /\ x1 > 1
              /\ x2 = x1 - 1 /\ z2 = z1
           \/ /\ y1 = 0 /\ y2 = 1 /\ z1 > 1
              /\ z2 = z1 - 1 /\ x2 = x1
    BY <1>1, <2>3
  <2>11. /\ x3 \in Nat /\ y3 \in Nat /\ z3 \in Nat
         /\ \/ /\ z2 > 0
               /\ x3 = x2 /\ y3 = y2 /\ z3 = z2
            \/ /\ z2 = 0 /\ z3 = 1 /\ x2 > 1
               /\ x3 = x2 - 1 /\ y3 = y2
            \/ /\ z2 = 0 /\ z3 = 1 /\ y2 > 1
               /\ y3 = y2 - 1 /\ x3 = x2
    BY <1>1, <2>4
  <2> HIDE DEF x, y, z, x1, y1, z1, x2, y2, z2, x3, y3, z3
  <2>12. x3 > 0 /\ y3 > 0 /\ z3 > 0
    BY <2>8, <2>9, <2>10, <2>11
  <2>13. x3 >= x - 1 \/ (y = 0 /\ z = 0 /\ x3 >= x - 2)
    BY <2>8, <2>9, <2>10, <2>11
  <2>14. y3 >= y - 1 \/ (x = 0 /\ z = 0 /\ y3 >= y - 2)
    BY <2>8, <2>9, <2>10, <2>11
  <2>15. z3 >= z - 1 \/ (x = 0 /\ y = 0 /\ z3 >= z - 2)
    BY <2>8, <2>9, <2>10, <2>11
  <2>16. (x3 <= x \/ (x = 0 /\ x3 = 1)) /\ (y3 <= y \/ (y = 0 /\ y3 = 1)) /\ (z3 <= z \/ (z = 0 /\ z3 = 1))
    BY <2>8, <2>9, <2>10, <2>11
  <2>17. /\ -99 <= 100 * x - a /\ 100 * x - a <= 100
        /\ -99 <= 100 * y - b /\ 100 * y - b <= 100
        /\ -99 <= 100 * z - e /\ 100 * z - e <= 100
    BY <2>8, <2>9, <2>10, <2>11
  <2>18. 100 * x3 - a \in -199..199
    BY ONLY <2>13, <2>16, <2>17, <2>8, <2>11
  <2>19. 100 * y3 - b \in -199..199
    BY ONLY <2>14, <2>16, <2>17, <2>8, <2>11
  <2>20. 100 * z3 - e \in -199..199
    BY ONLY <2>15, <2>16, <2>17, <2>8, <2>11
  <2>21. s = "train" \/ s = "val" \/ s = "test"
    BY <1>1
  <2>22. \/ s = "train" /\ n * Share[s] = a
         \/ s = "val" /\ n * Share[s] = b
         \/ s = "test" /\ n * Share[s] = e
    BY <2>21 DEF a, b, e
  <2> QED
    BY <2>1, <2>11, <2>12, <2>18, <2>19, <2>20, <2>22 DEF x3, y3, z3
<1> QED
  BY <1>3, <1>4

-----------------------------------------------------------------------------
(* The split. *)

LEMMA ReadStays ==
    ASSUME dirs' = dirs
    PROVE  /\ Read' = Read /\ (\A u : RecordsOf(u)' = RecordsOf(u)) /\ \A u : Refused(u)' <=> Refused(u)
<1>1. Read' = Read
  BY DEF Read
<1>2. ASSUME NEW u PROVE RecordsOf(u)' = RecordsOf(u)
  BY DEF RecordsOf, Read, GroupId, Range
<1> QED
  BY <1>1, <1>2, Zenon DEF Refused

LEMMA SplitStep == DatasetInv /\ SplitInv /\ [Next]_vars => SplitInv'
<1> SUFFICES ASSUME DatasetInv, SplitInv, [Next]_vars PROVE SplitInv'
  OBVIOUS
<1>1. CASE split' = Nil
  BY <1>1 DEF SplitInv
<1>2. status = "building" => split = Nil
  BY DEF SplitInv
<1>3. CASE StartBuild
  BY <1>1, <1>3 DEF StartBuild
<1>4. CASE FinishBuild \/ Kill
  BY <1>1, <1>2, <1>4 DEF FinishBuild, Kill
<1>5. ASSUME NEW w \in Workers,
             \/ Take(w) \/ KnownEmpty(w) \/ SkipExisting(w) \/ OpenTemp(w) \/ WriteManifest(w)
             \/ BuildFails(w) \/ OpenRows(w) \/ WriteRow(w) \/ Validate(w) \/ Tear(w) \/ Removed(w)
             \/ Publish(w)
      PROVE  status = "building" /\ split' = split
  BY <1>5 DEF Take, KnownEmpty, SkipExisting, OpenTemp, WriteManifest, BuildFails, OpenRows, WriteRow,
              Validate, Tear, Removed, Publish, At
<1>6. CASE MakeSplit
  <2>1. status \in {"built", "killed"} /\ status' = status /\ dirs' = dirs
    BY <1>6 DEF MakeSplit, buildVars
  <2>2. \A u : RecordsOf(u)' = RecordsOf(u) /\ (Refused(u)' <=> Refused(u))
    BY <2>1, ReadStays
  <2>3. PICK unique \in BOOLEAN :
           IF Refused(unique) THEN split' = Error
           ELSE \/ split' = Error
                \/ \E a \in Assignments(RecordsOf(unique)) :
                      split' = [s \in Splits |-> {r \in RecordsOf(unique) : a[r.group] = s}]
                \/ split' = [s \in Splits |-> IF s = "test" THEN RecordsOf(unique) ELSE {}]
    BY <1>6, Zenon DEF MakeSplit
  <2>4. split' \notin {Nil, Error} => ~Refused(unique)' /\ Divided(RecordsOf(unique))'
    <3> SUFFICES ASSUME split' \notin {Nil, Error} PROVE ~Refused(unique)' /\ Divided(RecordsOf(unique))'
      OBVIOUS
    <3>1. ~Refused(unique)
      BY <2>3
    <3>2. \A records : Assignments(records)' = Assignments(records)
      BY DEF Assignments, LabelsOf, GroupsOf
    <3> DEFINE records == RecordsOf(unique)
    <3>3. \/ \E a \in Assignments(records) : split' = [s \in Splits |-> {r \in records : a[r.group] = s}]
          \/ split' = [s \in Splits |-> IF s = "test" THEN records ELSE {}]
      BY <2>3, <3>1
    <3>4. records' = records
      BY <2>2
    <3> HIDE DEF records
    <3>5. Divided(records)'
      BY <3>3, <3>4, Zenon DEF Divided
    <3> QED
      BY <2>2, <3>1, <3>5 DEF records
  <2>5. \E u \in BOOLEAN : split' \notin {Nil, Error} => ~Refused(u)' /\ Divided(RecordsOf(u))'
    BY <2>4
  <2> QED
    BY <2>1, <2>5, Zenon DEF SplitInv
<1>7. CASE UNCHANGED vars
  <2>1. dirs' = dirs /\ status' = status /\ split' = split
    BY <1>7 DEF vars, buildVars
  <2>2. \A u : RecordsOf(u)' = RecordsOf(u) /\ (Refused(u)' <=> Refused(u))
    BY <2>1, ReadStays
  <2>3. \A u : Divided(RecordsOf(u)) => Divided(RecordsOf(u))'
    <3> TAKE u
    <3> DEFINE records == RecordsOf(u)
    <3>1. records' = records
      BY <2>2
    <3> HIDE DEF records
    <3>2. ASSUME Divided(records) PROVE Divided(records)'
      <4>1. \/ \E a \in Assignments(records) : split' = [s \in Splits |-> {r \in records : a[r.group] = s}]
            \/ split' = [s \in Splits |-> IF s = "test" THEN records ELSE {}]
        BY <2>1, <3>2 DEF Divided
      <4> QED
        BY <3>1, <4>1, Zenon DEF Divided
    <3> QED
      BY <3>2 DEF records
  <2> QED
    BY <2>1, <2>2, <2>3 DEF SplitInv
<1> QED
  BY <1>1, <1>2, <1>3, <1>4, <1>5, <1>6, <1>7, Zenon DEF Next

LEMMA SplitHolds == Spec => []SplitInv
<1>1. Init => SplitInv
  BY DEF Init, SplitInv
<1> QED
  BY <1>1, SplitStep, DatasetHolds, PTL DEF Spec

\* A record names its directory, and the group is the directory's name.
LEMMA SplitRecordOf ==
    ASSUME NEW u, NEW r \in RecordsOf(u)
    PROVE  /\ r.dir \in Read /\ r.group = r.dir.name /\ r.path[1] = r.dir
BY DEF RecordsOf, GroupId

\* Every directory that is read has a record, for each has a first window.
LEMMA EveryDirRead ==
    ASSUME DatasetInv, NEW u \in BOOLEAN, ~Refused(u)
    PROVE  {r.dir : r \in RecordsOf(u)} = Read
<1>1. \A r \in RecordsOf(u) : r.dir \in Read
  BY SplitRecordOf
<1>2. ASSUME NEW d \in Read
      PROVE  \E r \in RecordsOf(u) : r.dir = d
  <2>1. d \in DOMAIN dirs /\ dirs[d].rows \notin {Nil, <<>>}
    BY DEF Refused, Read
  <2>2. RowsBegin(dirs[d].rows)
    BY <2>1 DEF DatasetInv, DatasetShape, Built
  <2>3. 1 \in DOMAIN dirs[d].rows /\ dirs[d].rows[1].first
    BY <2>1, <2>2 DEF RowsBegin
  <2> DEFINE row == dirs[d].rows[1]
             rec == [workload |-> <<d.name, row.window>>, path |-> <<d, row.source>>,
                     label |-> dirs[d].label, group |-> GroupId(d, row), dir |-> d]
  <2>4. row \in {r \in Range(dirs[d].rows) : u => r.first}
    BY <2>3 DEF Range
  <2>5. rec \in RecordsOf(u)
    <3> DEFINE recs(e) == {[workload |-> <<e.name, w.window>>, path |-> <<e, w.source>>,
                            label |-> dirs[e].label, group |-> GroupId(e, w), dir |-> e] :
                              w \in {r \in Range(dirs[e].rows) : u => r.first}}
    <3>1. rec \in recs(d)
      BY <2>4
    <3>2. RecordsOf(u) = UNION {recs(e) : e \in Read}
      BY Zenon DEF RecordsOf
    <3> HIDE DEF recs, rec
    <3> QED
      BY <3>1, <3>2
  <2> QED
    BY <2>5
<1> QED
  BY <1>1, <1>2

\* There are finitely many groups.
LEMMA GroupsFinite ==
    ASSUME DatasetInv, NEW u, NEW l
    PROVE  IsFiniteSet(GroupsOf(RecordsOf(u), l))
<1> DEFINE D == DOMAIN dirs
           f == [d \in D |-> d.name]
           T == {d.name : d \in D}
<1>1. IsFiniteSet(D)
  BY DEF DatasetInv, DatasetShape
<1>2. f \in Surjection(D, T)
  BY DEF Surjection
<1>3. IsFiniteSet(T)
  <2> HIDE DEF f, T, D
  <2> QED
    BY <1>1, <1>2, FS_Surjection
<1>4. GroupsOf(RecordsOf(u), l) \subseteq T
  <2> SUFFICES ASSUME NEW r \in RecordsOf(u) PROVE r.group \in T
    BY DEF GroupsOf
  <2> QED
    BY SplitRecordOf DEF Read
<1> HIDE DEF T
<1> QED
  BY <1>3, <1>4, FS_Subset

\* The four parts of SplitSound, for the records of a split that was not refused.
LEMMA SplitApart ==
    ASSUME NEW u \in BOOLEAN, Divided(RecordsOf(u))
    PROVE  /\ \A s, t \in Splits : s # t => \A r \in Placed(s), q \in Placed(t) :
                 r.path # q.path /\ r.dir.name # q.dir.name
           /\ UNION {Placed(s) : s \in Splits} = RecordsOf(u)
<1> DEFINE records == RecordsOf(u)
<1>1. \A r \in records : r.group = r.dir.name /\ r.path[1] = r.dir
  BY SplitRecordOf
<1>2. \A s \in Splits : Placed(s) = split[s]
  BY DEF Placed
<1>3. "test" \in Splits
  BY DEF Splits
<1> HIDE DEF records
<1>4. CASE \E a \in Assignments(records) : split = [s \in Splits |-> {r \in records : a[r.group] = s}]
  <2>1. PICK a \in Assignments(records) : split = [s \in Splits |-> {r \in records : a[r.group] = s}]
    BY <1>4
  <2>2. \A r \in records : a[r.group] \in Splits
    <3>1. a \in [{r.group : r \in records} -> Splits]
      BY DEF Assignments
    <3> QED
      BY <3>1
  <2>3. \A s \in Splits : Placed(s) = {r \in records : a[r.group] = s}
    BY <1>2, <2>1
  <2>4. UNION {Placed(s) : s \in Splits} = records
    <3>1. \A s \in Splits : Placed(s) \subseteq records
      BY <2>3
    <3>2. \A r \in records : \E s \in Splits : r \in Placed(s)
      BY <2>2, <2>3
    <3> HIDE DEF Placed
    <3> QED
      BY <3>1, <3>2
  <2>5. ASSUME NEW s \in Splits, NEW t \in Splits, s # t, NEW r \in Placed(s), NEW q \in Placed(t)
        PROVE  r.path # q.path /\ r.dir.name # q.dir.name
    <3>1. r \in records /\ q \in records /\ a[r.group] # a[q.group]
      BY <2>3, <2>5
    <3>2. r.dir.name # q.dir.name
      BY <1>1, <3>1
    <3>3. r.path[1] = r.dir /\ q.path[1] = q.dir
      BY <1>1, <3>1
    <3> QED
      BY <3>2, <3>3
  <2> QED
    BY <2>4, <2>5 DEF records
<1>5. CASE split = [s \in Splits |-> IF s = "test" THEN records ELSE {}]
  <2>1. \A s \in Splits : Placed(s) = IF s = "test" THEN records ELSE {}
    BY <1>2, <1>5
  <2>2. UNION {Placed(s) : s \in Splits} = records
    <3> HIDE DEF Placed
    <3> QED
      BY <1>3, <2>1
  <2>3. \A s, t \in Splits : s # t => Placed(s) = {} \/ Placed(t) = {}
    BY <2>1
  <2> HIDE DEF Placed
  <2> QED
    BY <2>2, <2>3 DEF records
<1> QED
  BY <1>4, <1>5 DEF Divided, records

LEMMA SplitFinished ==
    ASSUME DatasetInv, status # "building", ~everKilled, NEW d \in Read
    PROVE  d.pid = NoPid /\ dirs[d].whole
<1>1. d \in DOMAIN dirs
  BY DEF Read
<1>2. \A w \in Workers : worker[w].pc = "idle"
  BY DEF DatasetInv, PlaceInv, Busy
<1>3. d.pid = NoPid
  BY <1>1, <1>2 DEF DatasetInv, TempInv, Building
<1>4. dirs[d].whole
  BY <1>1, <1>2, <1>3 DEF DatasetInv, FinalInv
<1> QED
  BY <1>3, <1>4

LEMMA SplitBalanced ==
    ASSUME DatasetInv, NEW u \in BOOLEAN, Divided(RecordsOf(u)), Placed("train") # {},
           NEW l \in LabelsOf(RecordsOf(u)), NEW s \in Splits
    PROVE  LET n == Cardinality(GroupsOf(RecordsOf(u), l))
               k == Cardinality(GroupsOf(Placed(s), l))
           IN  (n >= 3 => k > 0) /\ 100 * k - n * Share[s] \in -199..199
<1> DEFINE records == RecordsOf(u)
           G == GroupsOf(records, l)
           n == Cardinality(G)
<1>1. IsFiniteSet(G)
  BY GroupsFinite
<1>2. n \in Nat
  <2> HIDE DEF G
  <2> QED
    BY <1>1, FS_CardinalityType
<1>3. "train" \in Splits /\ "train" # "test"
  BY DEF Splits
<1>4. split # [t \in Splits |-> IF t = "test" THEN records ELSE {}]
  BY <1>3 DEF Placed
<1> HIDE DEF records
<1>5. PICK a \in Assignments(records) : split = [t \in Splits |-> {r \in records : a[r.group] = t}]
  BY <1>4 DEF Divided, records
<1>6. Placed(s) = {r \in records : a[r.group] = s}
  BY <1>5 DEF Placed
<1>7. GroupsOf(Placed(s), l) = {g \in G : a[g] = s}
  BY <1>6 DEF GroupsOf
<1>8. Cardinality({g \in G : a[g] = s}) = GroupCounts(n)[s]
  <2>1. l \in LabelsOf(records)
    BY DEF records
  <2>2. \A m \in LabelsOf(records) : \A t \in Splits :
            Cardinality({g \in GroupsOf(records, m) : a[g] = t})
              = GroupCounts(Cardinality(GroupsOf(records, m)))[t]
    BY Zenon DEF Assignments
  <2> QED
    BY <2>1, <2>2, Zenon
<1> HIDE DEF n, G
<1>9. /\ n >= 3 => GroupCounts(n)[s] > 0
      /\ 100 * GroupCounts(n)[s] - n * Share[s] \in -199..199
  BY <1>2, GroupCountsSound
<1>10. Cardinality(GroupsOf(Placed(s), l)) = GroupCounts(n)[s]
  BY <1>7, <1>8
<1> QED
  BY <1>9, <1>10 DEF n, G, records

\* Whatever the ratios and the workloads: training and test data share no workload and no text,
\* nothing is lost, every split gets groups of a label with three and close to its share
\* (make_grouped_stratified_split, split_group_counts), and an unfinished workload can only be
\* there after a killed build.
THEOREM SplitSoundHolds == Spec => []SplitSound
<1>1. DatasetInv /\ SplitInv => SplitSound
  <2> SUFFICES ASSUME DatasetInv, SplitInv, split \notin {Nil, Error} PROVE SplitSound
    BY DEF SplitSound
  <2>1. PICK u \in BOOLEAN : ~Refused(u) /\ Divided(RecordsOf(u))
    BY DEF SplitInv
  <2>2. status # "building"
    BY DEF SplitInv
  <2> DEFINE all == UNION {Placed(s) : s \in Splits}
  <2>3. all = RecordsOf(u)
    BY <2>1, SplitApart
  <2>4. \A s, t \in Splits : s # t => \A r \in Placed(s), q \in Placed(t) :
           r.path # q.path /\ r.dir.name # q.dir.name
    BY <2>1, SplitApart
  <2>5. {r.dir : r \in all} = Read
    BY <2>1, <2>3, EveryDirRead
  <2>6. ~everKilled => \A r \in all : r.dir.pid = NoPid /\ dirs[r.dir].whole
    <3> HIDE DEF all
    <3> QED
      BY <2>2, <2>5, SplitFinished
  <2>7. ASSUME Placed("train") # {}, NEW l \in LabelsOf(all), NEW s \in Splits
        PROVE  LET n == Cardinality(GroupsOf(all, l))
                   k == Cardinality(GroupsOf(Placed(s), l))
               IN  (n >= 3 => k > 0) /\ 100 * k - n * Share[s] \in -199..199
    <3> HIDE DEF all
    <3> QED
      BY <2>1, <2>3, <2>7, SplitBalanced
  <2> HIDE DEF all
  <2>8. SplitSound
    <3> USE DEF all
    <3> QED
      BY <2>4, <2>5, <2>6, <2>7, Zenon DEF SplitSound
  <2> QED
    BY <2>8
<1> QED
  BY <1>1, DatasetHolds, SplitHolds, PTL

\* The types of Dataset.
THEOREM DatasetTypeOK == Spec => []TypeOK
<1>1. DatasetInv /\ SplitInv => TypeOK
  <2> SUFFICES ASSUME DatasetInv, SplitInv PROVE TypeOK
    OBVIOUS
  <2>1. /\ status \in {"idle", "building", "built", "killed"} /\ builds \in 0..MaxBuilds
        /\ \A w \in Workers : worker[w].spec \in {0} \cup Specs
        /\ \A i \in Specs : outcome[i] \in {Nil} \cup Results
    BY DEF DatasetInv, DatasetShape, WorkType
  <2>2. split \notin {Nil, Error} => DOMAIN split = Splits
    BY DEF SplitInv, Divided
  <2> QED
    BY <2>1, <2>2 DEF TypeOK
<1> QED
  BY <1>1, DatasetHolds, SplitHolds, PTL
================================================================================
