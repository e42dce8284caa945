-------------------------- MODULE MCWorkerLifecycle --------------------------
(* An instance of WorkerLifecycle for TLC.                                 *)
EXTENDS WorkerLifecycle

CONSTANTS s1, s2

MCRawConcurrency == {Unset, 0, 1}

(* Unset, malformed, below, at, between and above the limits of every      *)
(* setting.                                                                *)
MCEnvironments ==
  [maxAttempts : {Unset, Malformed, -1, 0, 1, 2, 9, 10, 11},
   retryBase   : {Unset, -1, 0, 1, 2, 3, 7, 59, 60, 61},
   retryMax    : {Unset, 0, 4, 5, 6, 59, 60, 599, 600, 601},
   transients  : {Unset, Malformed, -1, 0, 1, 2, 9, 10, 11}]
=============================================================================
