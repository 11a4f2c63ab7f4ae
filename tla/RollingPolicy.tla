----------------------------- MODULE RollingPolicy -----------------------------
(***************************************************************************)
(* The default decision policy, src/gpu_sentry/online/policy.py: one       *)
(* instance per session keeps the mining probabilities of the last         *)
(* History windows and asks for termination when both their mean and their *)
(* maximum reach a threshold.  A probability is an integer percentage; the *)
(* mean is compared without the division, so no rounding is modelled.      *)
(***************************************************************************)
EXTENDS Integers, Sequences, Functions

CONSTANTS
    Scores,          \* the probabilities the classifier can return
    History,         \* decision.history_windows
    MeanThreshold,   \* decision.mean_mining_probability
    MaxThreshold     \* decision.max_mining_probability

ASSUME PolicyAssumption ==
    /\ Scores \subseteq 0..100
    /\ History \in Nat \ {0}
    /\ MeanThreshold \in 0..100
    /\ MaxThreshold \in 0..100

\* Mutant: the deque is one element too long.
RememberTooMany(scores, s) ==
    IF Len(scores) =< History THEN Append(scores, s) ELSE Append(Tail(scores), s)

\* deque(maxlen = History).append
Remember(scores, s) ==
    IF Len(scores) < History THEN Append(scores, s) ELSE Append(Tail(scores), s)

\* mean >= mean_threshold and maximum >= max_threshold, on the stored scores
Suspicious(scores) ==
    /\ SumFunction(scores) >= MeanThreshold * Len(scores)
    /\ \E i \in DOMAIN scores : scores[i] >= MaxThreshold
================================================================================
