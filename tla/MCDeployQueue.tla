---------------------------- MODULE MCDeployQueue ----------------------------
(* Instances of DeployQueue for TLC.                                       *)
EXTENDS DeployQueue, TLC

CONSTANTS a1, a2, d1, d2, d3

(* Two deployments compete for one app, a third belongs to another.        *)
MCAppOf == (d1 :> a1) @@ (d2 :> a1) @@ (d3 :> a2)

(* The two deployments of that app alone.                                  *)
MCPairAppOf == (d1 :> a1) @@ (d2 :> a1)

(* The smallest base and maximum the configuration allows.                 *)
Policy == INSTANCE RetryPolicy WITH Unset <- "unset", Malformed <- "malformed"
MCRetryDelay(n) == Policy!retryDelaySeconds(n, [retryBase |-> 1, retryMax |-> 5])

(* A bound for the instance with liveness: one statement fails or the      *)
(* process ends once, whichever comes first.  Neither is an action that    *)
(* fairness asks for.                                                      *)
OneFailureNext == Next /\ faults' + crashes' <= 1

OneFailureSpec == Init /\ [][OneFailureNext]_vars /\ Fairness

MCSymmetry == Permutations({d1, d2})
=============================================================================
