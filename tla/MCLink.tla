--------------------------------- MODULE MCLink ---------------------------------
(* Two frames each way on the first connection; the second one shows the recovery. *)
EXTENDS Link

MaxFramesDef == <<2, 0>>
================================================================================
