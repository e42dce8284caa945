----------------------------- MODULE RetryPolicy -----------------------------
(***************************************************************************)
(* The arithmetic of the deployment queue: how the environment becomes its *)
(* configuration, how long a retry waits, and the injected failures the    *)
(* tests drive retries with.                                               *)
(***************************************************************************)
EXTENDS Integers

CONSTANTS Unset, Malformed  (* an environment variable that is no number   *)

ASSUME RawAssumption == {Unset, Malformed} \cap Int = {}

(* What a variable of the environment may hold.                            *)
Raw == Int \cup {Unset, Malformed}

-----------------------------------------------------------------------------
(* deploy_queue_config.go                                                  *)

BugEnvInt(raw, default, min, max) ==
  CASE raw \in {Unset, Malformed} -> default
    [] raw \in Int -> IF raw > max THEN max ELSE raw

envInt(raw, default, min, max) ==
  CASE raw \in {Unset, Malformed} -> default
    [] raw \in Int -> IF raw < min THEN min ELSE IF raw > max THEN max ELSE raw

loadDeploymentQueueConfig(env) ==
  [maxAttempts |-> envInt(env.maxAttempts, 3, 1, 10),
   retryBase   |-> envInt(env.retryBase, 2, 1, 60),
   retryMax    |-> envInt(env.retryMax, 60, 5, 600)]

-----------------------------------------------------------------------------
(* deploy_queue_execution.go                                               *)

(* One round of the loop.  Once the delay has reached retryMax it stays    *)
(* there, which is the loop's early return.                                *)
Doubled(delay, cfg) == IF 2 * delay >= cfg.retryMax THEN cfg.retryMax ELSE 2 * delay

(* The loop's variable: delay[i] is what it holds after i - 1 rounds.      *)
LoopDelays(n, cfg) ==
  LET delay[i \in 1..n] == IF i = 1 THEN cfg.retryBase ELSE Doubled(delay[i - 1], cfg)
  IN  delay

BugRetryDelaySeconds(attempt, cfg) ==
  LET n == IF attempt <= 0 THEN 1 ELSE attempt
  IN  LoopDelays(n, cfg)[n]

retryDelaySeconds(attempt, cfg) ==
  LET n == IF attempt <= 0 THEN 1 ELSE attempt
      delay == LoopDelays(n, cfg)[n]
  IN  IF delay > cfg.retryMax THEN cfg.retryMax ELSE delay

(* LABRA_FORCE_TRANSIENT_FAILURES                                          *)
forcedTransientFailures(raw) ==
  IF raw \in {Unset, Malformed} THEN 0
  ELSE IF raw < 0 THEN 0 ELSE IF raw > 10 THEN 10 ELSE raw

BugTransient(raw, attempt) == forcedTransientFailures(raw) > attempt

Transient(raw, attempt) == forcedTransientFailures(raw) >= attempt

(* The outcome of a job whose attempts meet no failure but the injected    *)
(* ones: attempt n is the last one when it succeeds or no retry is left.   *)
Outcome(raw, cfg) ==
  LET Last(n) == ~Transient(raw, n) \/ n >= cfg.maxAttempts
      last == CHOOSE n \in 1..cfg.maxAttempts :
                Last(n) /\ \A m \in 1..(n - 1) : ~Last(m)
  IN [attempts |-> last, status |-> IF Transient(raw, last) THEN "failed" ELSE "succeeded"]

=============================================================================
