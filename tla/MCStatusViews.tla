---------------------------- MODULE MCStatusViews ----------------------------
(* An instance of StatusViews for TLC.                                     *)
EXTENDS StatusViews, TLC

CONSTANTS a1, d1, d2

MCAppOf == [d \in {d1, d2} |-> a1]

MCRetryDelay(n) == n

MCSymmetry == Permutations({d1, d2})
=============================================================================
