--------------------------- MODULE WorkerLifecycle ---------------------------
(***************************************************************************)
(* Starting and stopping the deployment queue worker inside one process.   *)
(* Each start makes a worker of its own: a context, a loop, a semaphore    *)
(* and the goroutines of its attempts.  queueMu protects only which worker *)
(* is the current one; cancelling it and waiting for its loop happen after *)
(* the unlock, so that a new worker can be started meanwhile, and nobody   *)
(* waits for the attempts.                                                 *)
(*                                                                         *)
(* Which jobs there are is left open: a claim finds one or does not.       *)
(* DeployQueue says what an attempt does with it.                          *)
(***************************************************************************)
EXTENDS RetryPolicy

CONSTANTS
  Stoppers,        (* the callers of StopDeploymentQueueWorker            *)
  RawConcurrency,  (* what DEPLOY_WORKER_CONCURRENCY may hold at a start  *)
  Environments,    (* what the variables of the retry policy may hold     *)
  MaxStarts        (* bound: workers started                              *)

ASSUME LifecycleAssumption ==
  /\ RawConcurrency \subseteq Raw
  /\ Environments \subseteq [maxAttempts : Raw, retryBase : Raw, retryMax : Raw, transients : Raw]
  /\ MaxStarts \in Nat

VARIABLES
  starts,      (* workers started so far: worker w is the w-th            *)
  current,     (* the worker of queueCancel and queueDone, 0 when nil     *)
  cancelled,   (* workers whose context is cancelled                      *)
  loop,        (* where each worker's loop stands                         *)
  slots,       (* capacity of each worker's semaphore                     *)
  attempts,    (* slots taken: goroutines of each worker                  *)
  stop,        (* where each call of Stop stands                          *)
  stopping     (* its local copies of queueCancel and queueDone           *)

workerVars == <<cancelled, loop, attempts>>
vars == <<starts, current, slots, stop, stopping, workerVars>>

Workers == 1..MaxStarts
Started == 1..starts

LoopStates == {"none", "check", "claim", "wait", "acquire", "ended"}

TypeOK ==
  /\ starts \in 0..MaxStarts
  /\ current \in 0..starts
  /\ cancelled \subseteq Started
  /\ loop \in [Workers -> LoopStates]
  /\ slots \in [Workers -> 0..16]
  /\ attempts \in [Workers -> Nat]
  /\ \A w \in Workers : attempts[w] <= slots[w]
  /\ stop \in [Stoppers -> {"idle", "cancel", "wait"}]
  /\ stopping \in [Stoppers -> 0..starts]

Init ==
  /\ starts = 0
  /\ current = 0
  /\ cancelled = {}
  /\ loop = [w \in Workers |-> "none"]
  /\ slots = [w \in Workers |-> 0]
  /\ attempts = [w \in Workers |-> 0]
  /\ stop = [s \in Stoppers |-> "idle"]
  /\ stopping = [s \in Stoppers |-> 0]

-----------------------------------------------------------------------------
(* StartDeploymentQueueWorker, under the mutex throughout.  Called while   *)
(* there is a current worker it changes nothing.                           *)

(* The test for a current worker is missing.                               *)
BugStart(raw) ==
  /\ starts < MaxStarts
  /\ starts' = starts + 1
  /\ current' = starts'
  /\ loop' = [loop EXCEPT ![starts'] = "check"]
  /\ slots' = [slots EXCEPT ![starts'] = envInt(raw, 2, 1, 16)]
  /\ UNCHANGED <<cancelled, attempts, stop, stopping>>

Start(raw) ==
  /\ current = 0
  /\ starts < MaxStarts
  /\ starts' = starts + 1
  /\ current' = starts'
  /\ loop' = [loop EXCEPT ![starts'] = "check"]
  /\ slots' = [slots EXCEPT ![starts'] = envInt(raw, 2, 1, 16)]
  /\ UNCHANGED <<cancelled, attempts, stop, stopping>>

-----------------------------------------------------------------------------
(* StopDeploymentQueueWorker.  Without a current worker it returns at once *)
(* and changes nothing, even while another call still waits.               *)

(* The critical section.                                                   *)
StopTakes(s) ==
  /\ stop[s] = "idle"
  /\ current # 0
  /\ stop' = [stop EXCEPT ![s] = "cancel"]
  /\ stopping' = [stopping EXCEPT ![s] = current]
  /\ current' = 0
  /\ UNCHANGED <<starts, slots, workerVars>>

(* cancel()                                                                *)
StopCancels(s) ==
  /\ stop[s] = "cancel"
  /\ stop' = [stop EXCEPT ![s] = "wait"]
  /\ cancelled' = cancelled \cup {stopping[s]}
  /\ UNCHANGED <<starts, current, slots, stopping, loop, attempts>>

(* Stop does not wait for the loop.                                        *)
BugStopReturns(s) ==
  /\ stop[s] = "wait"
  /\ stop' = [stop EXCEPT ![s] = "idle"]
  /\ stopping' = [stopping EXCEPT ![s] = 0]
  /\ UNCHANGED <<starts, current, slots, workerVars>>

(* <-done                                                                  *)
StopReturns(s) ==
  /\ stop[s] = "wait"
  /\ loop[stopping[s]] = "ended"
  /\ stop' = [stop EXCEPT ![s] = "idle"]
  /\ stopping' = [stopping EXCEPT ![s] = 0]
  /\ UNCHANGED <<starts, current, slots, workerVars>>

-----------------------------------------------------------------------------
(* runDeploymentQueueLoop of worker w                                      *)

Step(w, from, to) ==
  /\ loop[w] = from
  /\ loop' = [loop EXCEPT ![w] = to]
  /\ UNCHANGED <<starts, current, cancelled, slots, stop, stopping>>

(* The select at the top                                                   *)
CheckContext(w) ==
  /\ Step(w, "check", IF w \in cancelled THEN "ended" ELSE "claim")
  /\ UNCHANGED attempts

(* A statement under way when the context is cancelled may still take      *)
(* effect, so a cancelled worker can come by a job here.                   *)
Claim(w) ==
  /\ Step(w, "claim", "acquire") \/ Step(w, "claim", "wait")
  /\ UNCHANGED attempts

(* No job, or an error: until the next tick, or until cancelled.  When     *)
(* both are ready select takes either.                                     *)
Wait(w) ==
  /\ \/ Step(w, "wait", "check")
     \/ w \in cancelled /\ Step(w, "wait", "ended")
  /\ UNCHANGED attempts

(* The semaphore is not waited for.                                        *)
BugAcquire(w) ==
  /\ Step(w, "acquire", "check")
  /\ attempts' = [attempts EXCEPT ![w] = @ + 1]

(* sem <- struct{}{} does not look at the context.                         *)
Acquire(w) ==
  /\ attempts[w] < slots[w]
  /\ Step(w, "acquire", "check")
  /\ attempts' = [attempts EXCEPT ![w] = @ + 1]

(* The slot is not given back.                                             *)
BugAttemptEnds(w) == attempts[w] > 0 /\ UNCHANGED vars

(* A goroutine is through, <-sem; under a cancelled context all its        *)
(* statements fail and it soon is.                                         *)
AttemptEnds(w) ==
  /\ attempts[w] > 0
  /\ attempts' = [attempts EXCEPT ![w] = @ - 1]
  /\ UNCHANGED <<starts, current, cancelled, loop, slots, stop, stopping>>

LoopNext(w) == CheckContext(w) \/ Claim(w) \/ Wait(w) \/ Acquire(w)

StopNext(s) == StopCancels(s) \/ StopReturns(s)

Next ==
  \/ \E raw \in RawConcurrency : Start(raw)
  \/ \E s \in Stoppers : StopTakes(s) \/ StopNext(s)
  \/ \E w \in Workers : LoopNext(w) \/ AttemptEnds(w)

Spec == Init /\ [][Next]_vars

(* Loops, goroutines and callers are scheduled; nobody has to call Start   *)
(* or Stop.  An attempt is straight-line code.                             *)
Fairness ==
  /\ \A w \in Workers : WF_vars(LoopNext(w)) /\ WF_vars(AttemptEnds(w))
  /\ \A s \in Stoppers : WF_vars(StopNext(s))

FairSpec == Spec /\ Fairness

-----------------------------------------------------------------------------
(* Properties                                                              *)

Holders(w) == {s \in Stoppers : stopping[s] = w}

(* No worker gets out of control, however starts and stops interleave: one *)
(* whose context is not cancelled is either the current one, or exactly    *)
(* one call of Stop has it and is about to cancel it; never both, so that  *)
(* a Stop cannot hit a worker that a later Start has made current.         *)
NoWorkerIsLeaked ==
  /\ \A w \in Started \ cancelled :
       IF w = current THEN Holders(w) = {}
       ELSE \E s \in Stoppers : Holders(w) = {s} /\ stop[s] = "cancel"
  /\ current \notin cancelled

(* When there is no current worker and no call of Stop is under way, every *)
(* loop has ended, and every attempt that is still there has a cancelled   *)
(* context: no old worker issues a statement any more.  One that was under *)
(* way when the context was cancelled may still commit.  Says nothing once *)
(* a new worker has started: what is left of the older ones then is        *)
(* NoWorkerIsLeaked's.                                                     *)
StoppedMeansQuiet ==
  (current = 0 /\ \A s \in Stoppers : stop[s] = "idle") =>
    \A w \in Started : loop[w] = "ended" /\ (attempts[w] > 0 => w \in cancelled)

(* Stop returns, although the loop may be blocked on a semaphore that does *)
(* not know of the context: its attempts end, and there is at least one    *)
(* slot whatever the environment says.                                     *)
EveryStopReturns == \A s \in Stoppers : stop[s] = "cancel" ~> stop[s] = "idle"

(* A worker comes back to polling again and again until it is stopped: it  *)
(* never runs out of slots or waits for a signal that is gone.             *)
WorkerKeepsPolling ==
  \A w \in Workers : w <= starts ~> loop[w] = "claim" \/ w \in cancelled

(* The three statements below are about the configuration the next start   *)
(* will load.  The state plays no part in that, so looking at them before  *)
(* the first start is enough.                                              *)

(* Whatever the environment holds, the worker gets at least one attempt    *)
(* and never waits less than a second or more than the configured maximum  *)
(* between two: a zero or negative setting cannot make it spin or park.    *)
RetriesAreBounded ==
  starts = 0 =>
    \A env \in Environments :
      LET cfg == loadDeploymentQueueConfig(env)
      IN /\ cfg.maxAttempts \in 1..10
         /\ \A n \in 0..10 : retryDelaySeconds(n, cfg) \in 1..cfg.retryMax

(* The loop with its early return computes the capped exponential,         *)
(* base * 2^(n-1) or the maximum, even when base exceeds the maximum.      *)
DelayIsCappedExponential ==
  starts = 0 =>
    \A env \in Environments, n \in 1..10 :
      LET cfg == loadDeploymentQueueConfig(env)
          exponential == cfg.retryBase * 2 ^ (n - 1)
      IN retryDelaySeconds(n, cfg) =
           IF exponential > cfg.retryMax THEN cfg.retryMax ELSE exponential

(* k injected failures cost exactly k extra attempts when the attempts     *)
(* suffice and fail the deployment otherwise: the boundary between the     *)
(* injection's >= and the retry's < leaves no attempt over or missing.     *)
InjectionMeetsRetries ==
  starts = 0 =>
    \A env \in Environments :
      LET cfg == loadDeploymentQueueConfig(env)
          k == forcedTransientFailures(env.transients)
      IN Outcome(env.transients, cfg) =
           IF k < cfg.maxAttempts THEN [attempts |-> k + 1, status |-> "succeeded"]
           ELSE [attempts |-> cfg.maxAttempts, status |-> "failed"]
=============================================================================
