---------------------------- MODULE MCCodeRegistry ----------------------------
(* A small instance of CodeRegistry: a wrapped fatbin that the driver runs as  *)
(* cubin c1, a cubin c2 with a kernel of the same name, and one symbol table  *)
(* that does not fit.                                                         *)
EXTENDS CodeRegistry, TLC

CONSTANTS w, f, c1, c2, n1

MCFormat   == w :> "wrapper" @@ f :> "fatbin" @@ c1 :> "cubin" @@ c2 :> "cubin"
MCInner    == w :> f @@ f :> Nil @@ c1 :> Nil @@ c2 :> Nil
MCCompiled == w :> c1 @@ f :> c1 @@ c1 :> c1 @@ c2 :> c2
MCSections == w :> {} @@ f :> {}
              @@ c1 :> {[fits |-> TRUE, names |-> {n1}]}
              @@ c2 :> {[fits |-> FALSE, names |-> {n1}]}

Alike == Permutations(Threads) \cup Permutations(Owners) \cup Permutations(Kernels)
===============================================================================
