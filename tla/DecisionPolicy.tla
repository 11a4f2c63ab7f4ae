----------------------------- MODULE DecisionPolicy -----------------------------
(***************************************************************************)
(* What a decision policy with the rolling mean and maximum promises for   *)
(* one session after another: it sees the scores of a session's windows in *)
(* turn, remembers the last History of them, and is alarmed from the first *)
(* time that they are suspicious (src/gpu_sentry/online/policy.py).        *)
(***************************************************************************)
EXTENDS RollingPolicy

VARIABLES recent, alarmed

PolicyInit == recent = <<>> /\ alarmed = FALSE

Observe(s) ==
    /\ recent' = Remember(recent, s)
    /\ alarmed' = (alarmed \/ Suspicious(recent'))

NewSession == recent' = <<>> /\ alarmed' = FALSE

\* A session without windows is shown as one window of probability 0.
PolicyNext == NewSession \/ \E s \in Scores \cup {0} : Observe(s)

PolicySpec == PolicyInit /\ [][PolicyNext]_<<recent, alarmed>>
================================================================================
