--------------------------- MODULE MCVerdictPipeline ---------------------------
(* Small instances of VerdictPipeline for TLC: the workers are interchangeable, *)
(* and so are the signatures, which are only compared.                          *)
EXTENDS VerdictPipeline

PipelineSymmetry == Permutations(Workers) \cup Permutations(Signatures)
================================================================================
