-------------------------------- MODULE SassText --------------------------------
(***************************************************************************)
(* From the disassembly of one kernel to the text the model sees           *)
(* (sass/cfg.py, sass/loop_extract.py, sass/normalize.py,                  *)
(* sass/sass_tokens.py and the segments of sass/workload_sass.py).         *)
(*                                                                         *)
(* An instruction is its opcode, whether a label stands before it, whether *)
(* it has a predicate, the instruction its label operand names (0 for      *)
(* none) and the tokens of its normalised form.  A line of text is the     *)
(* number of the instruction it came from; a run of lines, such as a       *)
(* block, is a range <<first, last>>.  Scores are doubled, so that the     *)
(* code's halves stay whole.                                               *)
(***************************************************************************)
EXTENDS Integers, Sequences, SequencesExt, FiniteSetsExt

CONSTANTS
    KernelTexts,          \* the kernels to choose from
    SmallKernel,          \* SMALL_KERNEL_THRESHOLD
    MinRegion, TargetRegion, MaxRegion,
    BodyBudget,           \* KERNEL_BODY_TOKEN_BUDGET
    ContentBudget,        \* the configured content_token_budget
    ShortKernel           \* short_kernel_threshold

\* A label operand names an instruction of the kernel, which has that label before it.
Instruction == [op : STRING, labelled : BOOLEAN, predicated : BOOLEAN, target : Nat, cost : Nat \ {0}]

ASSUME TextAssumption ==
    /\ \A k \in KernelTexts :
         /\ k \in Seq(Instruction)
         /\ \A i \in 1..Len(k) : k[i].target # 0 => k[i].target <= Len(k) /\ k[k[i].target].labelled
    /\ {SmallKernel, MinRegion, TargetRegion, MaxRegion, ShortKernel} \subseteq Nat \ {0}
    /\ TargetRegion <= MaxRegion /\ BodyBudget \in Nat /\ ContentBudget \in Nat

VARIABLES kernel, stage, blocks, edges, mainLoop, normalized, segments

textVars == <<kernel, stage, blocks, edges, mainLoop, normalized, segments>>

Lines == 1..Len(kernel)
Op(i) == kernel[i].op
Target(i) == kernel[i].target

BranchOps   == {"BRA", "BRX", "JMP", "JMX"}
TerminalOps == {"RET", "EXIT"}
CallOps     == {"CALL"}
NoiseOps    == {"NOP", "BRA", "JMP", "EXIT", "RET", "CALL"}
ControlOps  == NoiseOps \ {"NOP"}
TrivialOps  == NoiseOps \ {"JMP"}

\* One opcode or two for each tuple of prefixes; LOP3 begins with LOP and LOP3.
IntegerOps   == {"IADD", "LOP3"}
BitwiseOps   == {"LOP3"}
ShiftOps     == {"SHF"}
PredicateOps == {"ISETP"}
MemoryOps    == {"LDG"}
UsefulOps    == IntegerOps \cup BitwiseOps \cup ShiftOps \cup PredicateOps \cup MemoryOps

Range2(r) == r[1]..r[2]
Size(r)   == r[2] - r[1] + 1
-----------------------------------------------------------------------------
(* cfg.py *)

\* Mutant: the instruction after a branch does not start a block.
LeadersOfTargets == {1} \cup {i \in Lines : kernel[i].labelled}

Leaders == {1} \cup {i \in Lines : kernel[i].labelled}
               \cup {i + 1 : i \in {x \in Lines : x < Len(kernel) /\ Op(x) \in
                                                   BranchOps \cup TerminalOps \cup CallOps}}

\* A block starts at a leader and ends before the next one.
Blocks ==
    {b \in Lines \X Lines :
       /\ b[1] <= b[2] /\ Range2(b) \cap Leaders = {b[1]}
       /\ b[2] = Len(kernel) \/ b[2] + 1 \in Leaders}

\* The blocks that block b is joined to.
Successors(b) ==
    LET i       == b[2]
        jump    == {c \in Blocks : Target(i) \in Range2(c)}
        through == {c \in Blocks : c[1] = i + 1}
    IN  CASE Op(i) \in BranchOps   -> jump \cup (IF kernel[i].predicated THEN through ELSE {})
          [] Op(i) \in TerminalOps -> {}
          [] Op(i) \in CallOps     -> jump \cup through
          [] OTHER                 -> through

BuildCfg ==
    /\ stage = "disassembled"
    /\ stage' = "cfg"
    /\ blocks' = Blocks
    /\ edges' = {e \in Blocks \X Blocks : e[2] \in Successors(e[1])}
    /\ UNCHANGED <<kernel, mainLoop, normalized, segments>>
-----------------------------------------------------------------------------
(* loop_extract.py *)

Count(r, ops) == Cardinality({i \in Range2(r) : Op(i) \in ops})

\* score_loop: instructions, their weights, back edges and nesting depth.
ScoreLoop(r, backedges, depth) ==
    2 * Size(r) + 4 * Count(r, IntegerOps) + 4 * Count(r, BitwiseOps) + 3 * Count(r, ShiftOps)
    + 3 * Count(r, PredicateOps) + 2 * Count(r, MemoryOps) + 4 * backedges + 2 * depth

\* A loop is what lies between a label and a later instruction that names it.
Loops == {<<Target(i), i>> : i \in {x \in Lines : Target(x) \in 1..(x - 1)}}

Inside(r, s) == s[1] <= r[1] /\ r[2] <= s[2]
Depth(l) == Cardinality({m \in Loops : m # l /\ Inside(l, m)})
LoopScore(l) == ScoreLoop(l, 1, Depth(l))

\* Mutant: a nested loop is preferred whatever it holds.
DeepestLoop == CHOOSE l \in Loops : \A m \in Loops : Depth(l) >= Depth(m)

\* The best by score and then by size; of several, the one that ends first.
BestLoop ==
    LET best == {l \in Loops : \A m \in Loops :
                   \/ LoopScore(l) > LoopScore(m)
                   \/ LoopScore(l) = LoopScore(m) /\ Size(l) >= Size(m)}
    IN  CHOOSE l \in best : \A m \in best : l[2] <= m[2]

\* split_oversized_block
Pieces(b) ==
    IF Size(b) <= MaxRegion THEN {b}
    ELSE {<<i, Min({i + TargetRegion - 1, b[2]})>> : i \in {x \in Range2(b) : (x - b[1]) % TargetRegion = 0}}

SourceBlocks == UNION {Pieces(b) : b \in blocks}

TrivialBlock(b) == \A i \in Range2(b) : Op(i) \notin UsefulOps /\ Op(i) \in NoiseOps

\* trim_trailing_noise; nothing is left of a run of noise.
Trimmed(r) == <<r[1], Max({r[1] - 1} \cup {i \in Range2(r) : Op(i) \notin NoiseOps})>>

NontrivialRegion(r) ==
    LET useful == Count(r, UsefulOps)
    IN  useful >= 2 /\ 5 * useful >= Size(r)

\* compute_region_candidates: spans of neighbouring blocks, none of them trivial, that
\* stay within the largest size once they are more than one block.
Spans ==
    {s \in SourceBlocks \X SourceBlocks :
       /\ s[1][1] <= s[2][1]
       /\ \A b \in SourceBlocks : b[1] \in s[1][1]..s[2][1] => ~TrivialBlock(b)
       /\ s[1] = s[2] \/ Size(<<s[1][1], s[2][2]>>) <= Min({MaxRegion, Len(kernel)})}

Regions == {r \in {Trimmed(<<s[1][1], s[2][2]>>) : s \in Spans} : NontrivialRegion(r)}

ScoreRegion(r) ==
    ScoreLoop(r, 0, 0) - 3 * Count(r, NoiseOps) - 4 * Count(r, ControlOps) - 8 * Count(r, TrivialOps)

\* The densities of two regions compare like the score of each times the size of the other.
Density(r, s) == ScoreRegion(r) * Size(s)
Distance(r) == LET d == Size(r) - Min({TargetRegion, Len(kernel)}) IN IF d < 0 THEN -d ELSE d

\* select_best_region: score, density, distance from the target size, size, start.
Better(r, s) ==
    \/ ScoreRegion(r) > ScoreRegion(s)
    \/ /\ ScoreRegion(r) = ScoreRegion(s)
       /\ \/ Density(r, s) > Density(s, r)
          \/ /\ Density(r, s) = Density(s, r)
             /\ \/ Distance(r) < Distance(s)
                \/ /\ Distance(r) = Distance(s)
                   /\ Size(r) > Size(s) \/ (Size(r) = Size(s) /\ r[1] <= s[1])

BestRegion ==
    LET eligible == {r \in Regions : Size(r) >= Min({MinRegion, Len(kernel)})}
        pool     == IF eligible # {} THEN eligible ELSE Regions
    IN  CHOOSE r \in pool : \A s \in pool : Better(r, s)

MainLoop ==
    CASE Loops # {}                                              -> BestLoop
      [] Loops = {} /\ Len(kernel) > SmallKernel /\ Regions # {} -> BestRegion
      [] OTHER                                                   -> <<1, Len(kernel)>>

ExtractMainLoop ==
    /\ stage = "cfg"
    /\ stage' = "extracted"
    /\ mainLoop' = MainLoop
    /\ UNCHANGED <<kernel, blocks, edges, normalized, segments>>
-----------------------------------------------------------------------------
(* normalize.py and sass_tokens.py *)

Cost(lines) ==
    LET upTo[n \in 0..Len(lines)] == IF n = 0 THEN 0 ELSE upTo[n - 1] + kernel[lines[n]].cost
    IN  upTo[Len(lines)]

\* truncate_lines_to_token_budget: whole lines from the front.
TruncateTo(lines, budget) ==
    SubSeq(lines, 1, Max({n \in 0..Len(lines) : n = 0 \/ Cost(SubSeq(lines, 1, n)) <= budget}))

\* normalize_sass drops what is not an instruction, and NOP.
NormalizedLines(r) ==
    LET kept[n \in 0..Size(r)] ==
            IF n = 0 THEN <<>>
            ELSE IF Op(r[1] + n - 1) = "NOP" THEN kept[n - 1] ELSE Append(kept[n - 1], r[1] + n - 1)
    IN  kept[Size(r)]

NormalizeFiles ==
    /\ stage = "extracted"
    /\ stage' = "normalized"
    /\ normalized' = [kernel   |-> NormalizedLines(<<1, Len(kernel)>>),
                      mainLoop |-> TruncateTo(NormalizedLines(mainLoop), BodyBudget)]
    /\ UNCHANGED <<kernel, blocks, edges, mainLoop, segments>>
-----------------------------------------------------------------------------
(* workload_sass.py *)

\* A KERNEL_BOUNDARY line of one token ends every piece.
PieceBudget == ContentBudget - 1

\* Mutant: a line opens a segment when it would just fill the old one.
TooMuchAtLimit(cost) == cost >= PieceBudget

TooMuch(cost) == cost > PieceBudget

AddLine(acc, i) ==
    IF Last(acc) # <<>> /\ TooMuch(Cost(Last(acc)) + kernel[i].cost) THEN Append(acc, <<i>>)
    ELSE Append(Front(acc), Append(Last(acc), i))

\* split_lines_to_token_budget; no segment at all stands for its three errors.
SplitLines(lines) ==
    LET cut[n \in 0..Len(lines)] ==
            IF n = 0 THEN << <<>> >> ELSE AddLine(cut[n - 1], lines[n])
    IN  IF PieceBudget <= 0 \/ lines = <<>> \/ \E n \in DOMAIN lines : kernel[lines[n]].cost > PieceBudget
        THEN <<>> ELSE cut[Len(lines)]

\* render_launch_fragment, for launches without prepared segments.
Fragment ==
    IF Len(normalized.kernel) <= ShortKernel /\ Cost(normalized.kernel) <= PieceBudget
    THEN normalized.kernel
    ELSE TruncateTo(IF normalized.mainLoop # <<>> THEN normalized.mainLoop ELSE normalized.kernel,
                    PieceBudget)

RenderL0Segments ==
    /\ stage = "normalized"
    /\ stage' = "rendered"
    /\ segments' = SplitLines(normalized.mainLoop)
    /\ UNCHANGED <<kernel, blocks, edges, mainLoop, normalized>>

\* build_workload_sass, for one launch; nothing is written where it raises an error.
RenderFragment ==
    /\ stage = "normalized"
    /\ stage' = "fragment"
    /\ segments' = IF Fragment = <<>> THEN <<>> ELSE <<Fragment>>
    /\ UNCHANGED <<kernel, blocks, edges, mainLoop, normalized>>
-----------------------------------------------------------------------------
TextInit ==
    /\ kernel \in KernelTexts /\ stage = "disassembled"
    /\ blocks = {} /\ edges = {} /\ mainLoop = <<1, 0>>
    /\ normalized = [kernel |-> <<>>, mainLoop |-> <<>>] /\ segments = <<>>

TextNext == BuildCfg \/ ExtractMainLoop \/ NormalizeFiles \/ RenderL0Segments \/ RenderFragment

TextSpec == TextInit /\ [][TextNext]_textVars
-----------------------------------------------------------------------------
(* Properties. *)

\* Where control may go after instruction i, read off the instruction.
NextOf(i) ==
    LET fall == {i + 1} \cap Lines
        jump == {Target(i)} \cap Lines
    IN  CASE Op(i) \in BranchOps   -> jump \cup (IF kernel[i].predicated THEN fall ELSE {})
          [] Op(i) \in TerminalOps -> IF kernel[i].predicated THEN fall ELSE {}
          [] Op(i) \in CallOps     -> jump \cup fall
          [] OTHER                 -> fall

\* The blocks of build_cfg cut the kernel into runs that control enters at the top and
\* leaves at the bottom, and the edges are the steps between them; only the
\* step past a predicated EXIT or RET has no edge.
CfgFaithful ==
    stage = "cfg" =>
        /\ \A i \in Lines : \E b \in blocks : {c \in blocks : i \in Range2(c)} = {b}
        /\ \A b \in blocks : \A i \in b[1]..(b[2] - 1) : NextOf(i) = {i + 1}
        /\ \A i, j \in Lines : j \in NextOf(i) =>
              \/ \E b \in blocks : {i, j} \subseteq Range2(b) /\ j = i + 1
              \/ \E e \in edges : e[1][2] = i /\ e[2][1] = j
              \/ Op(i) \in TerminalOps
        /\ \A e \in edges : e \in blocks \X blocks /\ e[2][1] \in NextOf(e[1][2])

\* extract_main_loop: of nested loops the outermost is taken, since the bonus for depth
\* never outweighs the instructions around it; without a loop a large kernel is cut to a
\* region of at most MAX_REGION_INSTRUCTIONS with some computation, or kept.
MainLoopSound ==
    stage = "extracted" =>
        IF Loops # {} THEN mainLoop \in Loops /\ Depth(mainLoop) = 0
        ELSE \/ mainLoop = <<1, Len(kernel)>>
             \/ /\ Len(kernel) > SmallKernel /\ Size(mainLoop) <= MaxRegion
                /\ Op(mainLoop[2]) \notin NoiseOps /\ NontrivialRegion(mainLoop)

\* The segments of a kernel are its normalised main loop up to the body budget, cut into
\* the fewest pieces that fit a window with their boundary line; with the canonical
\* budget there is never more than one (split_lines_to_token_budget after
\* normalize_kernel_files).  A whole-launch fragment fits too, and is a start of the
\* kernel or of its main loop (render_launch_fragment).
SegmentsExact ==
    segments # <<>> =>
        /\ \A s \in ToSet(segments) : s # <<>> /\ Cost(s) <= PieceBudget
        /\ stage = "rendered" =>
              /\ FlattenSeq(segments) = normalized.mainLoop
              /\ \A k \in 1..(Len(segments) - 1) :
                    Cost(segments[k]) + kernel[segments[k + 1][1]].cost > PieceBudget
              /\ BodyBudget <= PieceBudget => Len(segments) = 1
        /\ stage = "fragment" => \E whole \in {normalized.kernel, normalized.mainLoop} :
              IsPrefix(segments[1], whole)
================================================================================
