----------------------------- MODULE MCCodeAnalysis -----------------------------
(* Two code objects with a function g each; both functions of c1 have the same       *)
(* directory name, and launches may name a function x that no code has.             *)
EXTENDS CodeAnalysis, TLC

CONSTANTS c1, c2, f, g, x

FunctionsDef == c1 :> <<f, g>> @@ c2 :> <<g>>
LaunchesDef  == {[code |-> c1, name |-> g], [code |-> c1, name |-> x], [code |-> Nil, name |-> f]}
SafeNameDef  == f :> "f" @@ g :> "f"
CanonicalDef == [n \in {f, g, x} |-> n]
OverlapDef   == {{x, g}}
================================================================================
