------------------------------- MODULE MCSassText -------------------------------
(* All kernels of up to three instructions, and kernels of five with few opcodes. *)
EXTENDS SassText

Instr(ops, preds, n) ==
    {[op |-> o, predicated |-> p, target |-> t, cost |-> IF o = "EXIT" THEN 1 ELSE 2] :
        o \in ops, p \in preds, t \in 0..n}

\* Branches name an instruction; a call and a convergence barrier may.
Plausible(i) ==
    /\ i.target # 0 => i.op \in {"BRA", "CALL", "BSSY"}
    /\ i.predicated => i.op \in {"BRA", "EXIT"}

\* The labels of a kernel: one before every target, and before the instructions of extra.
Labelled(k, extra) ==
    [i \in DOMAIN k |-> [op |-> k[i].op, predicated |-> k[i].predicated, target |-> k[i].target,
                         cost |-> k[i].cost,
                         labelled |-> i \in extra \/ \E j \in DOMAIN k : k[j].target = i]]

Small(n) == [1..n -> {i \in Instr({"IADD", "NOP", "EXIT", "BRA", "CALL", "BSSY"}, BOOLEAN, n) :
                        Plausible(i)}]

KernelTextsDef ==
    {Labelled(k, extra) : k \in UNION {Small(n) : n \in 0..3}, extra \in {{}, {2}}}
    \cup {Labelled(k, {}) :
            k \in {x \in [1..5 -> {i \in Instr({"IADD", "LDG", "NOP", "BRA"}, {FALSE}, 4) : Plausible(i)}] :
                    \A i \in 1..5 : x[i].op = "BRA" => x[i].target < i}}
================================================================================
