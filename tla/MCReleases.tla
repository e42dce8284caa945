----------------------------- MODULE MCReleases -----------------------------
(* Instances of Releases for TLC.                                          *)
EXTENDS Releases, TLC

CONSTANTS d1, d2, d3, b1, b2

MCSymmetry == Permutations({d1, d2, d3}) \cup Permutations({b1, b2})
=============================================================================
