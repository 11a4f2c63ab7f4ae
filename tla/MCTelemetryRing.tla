---------------------------- MODULE MCTelemetryRing ----------------------------
(* The instance of TelemetryRing that TLC checks: liveness is among its properties, *)
(* so the two application threads are kept apart.                                   *)
EXTENDS TelemetryRing
================================================================================
