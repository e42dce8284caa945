---------------------------- MODULE MCAppSettings ----------------------------
(* Instances of AppSettings for TLC.                                       *)
EXTENDS AppSettings, TLC

CONSTANTS p1, n1, n2, v1, r1, r2

MCSymmetry == Permutations({n1, n2}) \cup Permutations({r1, r2})
=============================================================================
