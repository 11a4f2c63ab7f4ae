----------------------------- MODULE MCL0Scheduler -----------------------------
(* Small instances of L0Scheduler for TLC.  The launches: two forms of kernel 1 *)
(* (its name occurs in two code objects), four kernels, one launch that is not  *)
(* ready and one larger than the budget of 4.                                   *)
EXTENDS L0Scheduler

MCLaunches == {
    [kernel |-> 1, cost |-> 1, ratio |-> 30], [kernel |-> 1, cost |-> 2, ratio |-> 120],
    [kernel |-> 2, cost |-> 1, ratio |-> -5], [kernel |-> 3, cost |-> 1, ratio |-> 50],
    [kernel |-> 4, cost |-> 4, ratio |-> 10], [kernel |-> 4, cost |-> 1, ratio |-> 70],
    [kernel |-> 1, cost |-> 0, ratio |-> 30], [kernel |-> 2, cost |-> 5, ratio |-> 30] }

StreamSymmetry == Permutations(Streams)
================================================================================
