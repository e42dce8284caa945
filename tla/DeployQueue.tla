----------------------------- MODULE DeployQueue -----------------------------
(***************************************************************************)
(* The deployment queue: the HTTP handler that creates a deployment and    *)
(* enqueues its job, and the worker loop that claims jobs and processes    *)
(* each in a goroutine of its own.                                         *)
(*                                                                         *)
(* A goroutine is named by the deployment and the number of the attempt it *)
(* runs: two attempts of one job can be alive together, because an attempt *)
(* releases its job for retry before it has written everything it has to.  *)
(*                                                                         *)
(* Every statement can fail (SQLITE_BUSY, an I/O error), and the worker    *)
(* ignores the errors of all its writes.  The process can die between any  *)
(* two statements; the rows survive, the goroutines do not.                *)
(***************************************************************************)
EXTENDS DeployStore

CONSTANTS
  Concurrency,    (* DEPLOY_WORKER_CONCURRENCY: capacity of the semaphore *)
  RetryDelay(_),  (* seconds to wait after the n-th attempt               *)
  MaxTime,        (* bound: the clock runs freely up to here              *)
  MaxFaults,      (* bound: failing statements and cancelled requests     *)
  MaxCrashes      (* bound: crashes of the process                        *)

ASSUME ConcurrencyAssumption == Concurrency \in Nat \ {0}
ASSUME RetryDelayAssumption  == \A n \in 1..MaxAttempts : RetryDelay(n) \in Nat \ {0}
ASSUME BoundsAssumption      == MaxTime \in Nat /\ MaxFaults \in Nat /\ MaxCrashes \in Nat

VARIABLES
  up,        (* the process runs, and with it the worker loop            *)
  request,   (* where the handler of each deployment's request stands    *)
  pc,        (* where each attempt's goroutine stands                    *)
  retryAt,   (* processDeploymentJob's local nextAttempt                 *)
  faults,    (* statements that failed so far                            *)
  crashes    (* crashes so far                                           *)

procVars == <<up, request, pc, retryAt, faults, crashes>>
vars == <<storeVars, procVars>>

Attempts == Deployments \X (1..MaxAttempts)

RequestStates == {"idle", "created", "failing", "done", "lost"}

(* "claimed" is a job the loop holds while it waits for the semaphore.     *)
Working ==
  {"load", "orphan", "abort", "abortDep", "begin", "execute",
   "markSucceeded", "depSucceeded", "recordSucceeded",
   "markRetry", "depRetry", "markFailed", "depFailed", "recordFailed"}

PcStates == Working \cup {"none", "claimed", "done", "lost"}

Goroutines == {a \in Attempts : pc[a] \in Working}

TypeOK ==
  /\ StoreTypeOK
  /\ up \in BOOLEAN
  /\ request \in [Deployments -> RequestStates]
  /\ pc \in [Attempts -> PcStates]
  /\ retryAt \in [Attempts -> Nat]
  /\ faults \in Nat
  /\ crashes \in Nat

Init ==
  /\ StoreInit
  /\ up = TRUE
  /\ request = [d \in Deployments |-> "idle"]
  /\ pc = [a \in Attempts |-> "none"]
  /\ retryAt = [a \in Attempts |-> 0]
  /\ faults = 0
  /\ crashes = 0

-----------------------------------------------------------------------------
(* Failing statements                                                      *)

Fault == faults < MaxFaults /\ faults' = faults + 1

(* `_, _ = appStore.Statement(...)`: it may fail, and nobody notices.      *)
Ignoring(statement, table) ==
  \/ statement /\ UNCHANGED faults
  \/ Fault /\ UNCHANGED table

-----------------------------------------------------------------------------
(* CreateDeployHandler                                                     *)

RequestStep(d, from, to) ==
  /\ up
  /\ request[d] = from
  /\ request' = [request EXCEPT ![d] = to]
  /\ UNCHANGED <<now, health, up, pc, retryAt, crashes>>

(* A request whose INSERT fails leaves nothing behind: it never happened.  *)
RequestCreate(d) ==
  /\ RequestStep(d, "idle", "created")
  /\ CreateDeployment(d)
  /\ UNCHANGED <<jobs, faults>>

RequestEnqueue(d) ==
  /\ RequestStep(d, "created", "done")
  /\ CreateDeploymentJob(d)
  /\ UNCHANGED <<deployments, faults>>

RequestEnqueueFails(d) ==
  /\ RequestStep(d, "created", "failing")
  /\ Fault
  /\ UNCHANGED <<deployments, jobs>>

RequestCompensate(d) ==
  /\ RequestStep(d, "failing", "done")
  /\ Ignoring(UpdateDeploymentOutcome(d, "failed"), deployments)
  /\ UNCHANGED jobs

(* The client goes away: r.Context() is cancelled, and every statement the *)
(* handler has left, the compensating one included, fails.                 *)
RequestCancelled(d) ==
  /\ \/ RequestStep(d, "created", "lost")
     \/ RequestStep(d, "failing", "lost")
  /\ Fault
  /\ UNCHANGED <<deployments, jobs>>

RequestNext(d) ==
  \/ RequestCreate(d)
  \/ RequestEnqueue(d)
  \/ RequestEnqueueFails(d)
  \/ RequestCompensate(d)
  \/ RequestCancelled(d)

-----------------------------------------------------------------------------
(* runDeploymentQueueLoop                                                  *)

LoopIsFree == \A a \in Attempts : pc[a] # "claimed"

(* The attempt number is the attempt_count the UPDATE returns.             *)
Claim(d) ==
  /\ up
  /\ LoopIsFree
  /\ ClaimNextRunnableDeploymentJob(d)
  /\ pc' = [pc EXCEPT ![<<d, jobs[d].attempts + 1>>] = "claimed"]
  /\ UNCHANGED <<now, deployments, health, up, request, retryAt, faults, crashes>>

(* The loop does not wait for the semaphore.                               *)
BugSpawn(a) ==
  /\ up
  /\ pc[a] = "claimed"
  /\ pc' = [pc EXCEPT ![a] = "load"]
  /\ UNCHANGED <<storeVars, up, request, retryAt, faults, crashes>>

(* sem <- struct{}{}; go processDeploymentJob(...)                         *)
Spawn(a) ==
  /\ up
  /\ pc[a] = "claimed"
  /\ Cardinality(Goroutines) < Concurrency
  /\ pc' = [pc EXCEPT ![a] = "load"]
  /\ UNCHANGED <<storeVars, up, request, retryAt, faults, crashes>>

-----------------------------------------------------------------------------
(* processDeploymentJob, one action per statement of attempt a = <<d, n>>  *)

Go(a, from, to) ==
  /\ up
  /\ pc[a] = from
  /\ pc' = [pc EXCEPT ![a] = to]
  /\ UNCHANGED <<now, up, request, crashes>>

(* Both rows exist and stay, so a read misses them only when it fails.     *)
Load(a) ==
  /\ \/ Go(a, "load", "begin") /\ UNCHANGED faults
     \/ Go(a, "load", "orphan") /\ Fault
     \/ Go(a, "load", "abort") /\ Fault
  /\ UNCHANGED <<deployments, jobs, health, retryAt>>

(* "deployment not found for queued job": the deployment is left alone.    *)
DropOrphan(a) ==
  /\ Go(a, "orphan", "done")
  /\ Ignoring(MarkDeploymentJobFailed(a[1]), jobs)
  /\ UNCHANGED <<deployments, health, retryAt>>

(* "app not found for queued job"                                          *)
AbortJob(a) ==
  /\ Go(a, "abort", "abortDep")
  /\ Ignoring(MarkDeploymentJobFailed(a[1]), jobs)
  /\ UNCHANGED <<deployments, health, retryAt>>

AbortDeployment(a) ==
  /\ Go(a, "abortDep", "done")
  /\ Ignoring(UpdateDeploymentOutcome(a[1], "failed"), deployments)
  /\ UNCHANGED <<jobs, health, retryAt>>

Begin(a) ==
  /\ Go(a, "begin", "execute")
  /\ Ignoring(UpdateDeploymentOutcome(a[1], "running"), deployments)
  /\ UNCHANGED <<jobs, health, retryAt>>

(* executeDeploymentAttempt succeeds, or fails in a way                    *)
(* classifyDeploymentFailure calls retryable or not.                       *)
ExecuteSucceeds(a) ==
  /\ Go(a, "execute", "markSucceeded")
  /\ UNCHANGED <<deployments, jobs, health, retryAt, faults>>

(* One retry too many: <= instead of <.                                    *)
BugExecuteFails(a, retryable) ==
  /\ IF retryable /\ a[2] <= MaxAttempts
       THEN /\ Go(a, "execute", "markRetry")
            /\ retryAt' = [retryAt EXCEPT ![a] = now + 1]
       ELSE /\ Go(a, "execute", "markFailed")
            /\ UNCHANGED retryAt
  /\ UNCHANGED <<deployments, jobs, health, faults>>

ExecuteFails(a, retryable) ==
  /\ IF retryable /\ a[2] < MaxAttempts
       THEN /\ Go(a, "execute", "markRetry")
            /\ retryAt' = [retryAt EXCEPT ![a] = now + RetryDelay(a[2])]
       ELSE /\ Go(a, "execute", "markFailed")
            /\ UNCHANGED retryAt
  /\ UNCHANGED <<deployments, jobs, health, faults>>

MarkSucceeded(a) ==
  /\ Go(a, "markSucceeded", "depSucceeded")
  /\ Ignoring(MarkDeploymentJobSucceeded(a[1]), jobs)
  /\ UNCHANGED <<deployments, health, retryAt>>

DeploymentSucceeded(a) ==
  /\ Go(a, "depSucceeded", "recordSucceeded")
  /\ Ignoring(UpdateDeploymentOutcome(a[1], "succeeded"), deployments)
  /\ UNCHANGED <<jobs, health, retryAt>>

RecordSucceeded(a) ==
  /\ Go(a, "recordSucceeded", "done")
  /\ Ignoring(RecordAppDeploymentOutcome(a[1], "succeeded"), health)
  /\ UNCHANGED <<deployments, jobs, retryAt>>

MarkRetry(a) ==
  /\ Go(a, "markRetry", "depRetry")
  /\ Ignoring(MarkDeploymentJobRetry(a[1], retryAt[a]), jobs)
  /\ retryAt' = [retryAt EXCEPT ![a] = 0]
  /\ UNCHANGED <<deployments, health>>

(* A failed attempt is recorded even though it will be retried.            *)
BugRetryRecords(a) ==
  /\ Go(a, "depRetry", "recordFailed")
  /\ Ignoring(UpdateDeploymentOutcome(a[1], "queued"), deployments)
  /\ UNCHANGED <<jobs, health, retryAt>>

(* The deployment is shown as failed between two attempts.                 *)
BugRetryShowsFailed(a) ==
  /\ Go(a, "depRetry", "done")
  /\ Ignoring(UpdateDeploymentOutcome(a[1], "failed"), deployments)
  /\ UNCHANGED <<jobs, health, retryAt>>

(* The job is free again by now: this write may come after its next        *)
(* attempt's.                                                              *)
DeploymentRetry(a) ==
  /\ Go(a, "depRetry", "done")
  /\ Ignoring(UpdateDeploymentOutcome(a[1], "queued"), deployments)
  /\ UNCHANGED <<jobs, health, retryAt>>

MarkFailed(a) ==
  /\ Go(a, "markFailed", "depFailed")
  /\ Ignoring(MarkDeploymentJobFailed(a[1]), jobs)
  /\ UNCHANGED <<deployments, health, retryAt>>

(* Final failures are not recorded.                                        *)
BugDeploymentFailed(a) ==
  /\ Go(a, "depFailed", "done")
  /\ Ignoring(UpdateDeploymentOutcome(a[1], "failed"), deployments)
  /\ UNCHANGED <<jobs, health, retryAt>>

DeploymentFailed(a) ==
  /\ Go(a, "depFailed", "recordFailed")
  /\ Ignoring(UpdateDeploymentOutcome(a[1], "failed"), deployments)
  /\ UNCHANGED <<jobs, health, retryAt>>

RecordFailed(a) ==
  /\ Go(a, "recordFailed", "done")
  /\ Ignoring(RecordAppDeploymentOutcome(a[1], "failed"), health)
  /\ UNCHANGED <<deployments, jobs, retryAt>>

AttemptNext(a) ==
  \/ Load(a)
  \/ DropOrphan(a)
  \/ AbortJob(a)
  \/ AbortDeployment(a)
  \/ Begin(a)
  \/ ExecuteSucceeds(a)
  \/ \E retryable \in BOOLEAN : ExecuteFails(a, retryable)
  \/ MarkSucceeded(a)
  \/ DeploymentSucceeded(a)
  \/ RecordSucceeded(a)
  \/ MarkRetry(a)
  \/ DeploymentRetry(a)
  \/ MarkFailed(a)
  \/ DeploymentFailed(a)
  \/ RecordFailed(a)

-----------------------------------------------------------------------------
(* The clock and the process                                               *)

(* Past MaxTime the clock moves only while a retry waits for it.           *)
Tick ==
  /\ \/ now < MaxTime
     \/ \E d \in Deployments : jobs[d].status = "retrying" /\ jobs[d].nextAt > now
  /\ now' = now + 1
  /\ UNCHANGED <<deployments, jobs, health, procVars>>

(* The process ends.  A shutdown that runs StopDeploymentQueueWorker comes *)
(* to the same: it cancels the context every attempt runs its statements   *)
(* under, so none of them takes effect any more.                           *)
Crash ==
  /\ up
  /\ crashes < MaxCrashes
  /\ crashes' = crashes + 1
  /\ up' = FALSE
  /\ request' = [d \in Deployments |->
                   IF request[d] \in {"created", "failing"} THEN "lost" ELSE request[d]]
  /\ pc' = [a \in Attempts |->
              IF pc[a] \in Working \cup {"claimed"} THEN "lost" ELSE pc[a]]
  /\ retryAt' = [a \in Attempts |-> 0]
  /\ UNCHANGED <<storeVars, faults>>

(* main starts a fresh loop, and touches no row.                           *)
Restart ==
  /\ ~up
  /\ up' = TRUE
  /\ UNCHANGED <<storeVars, request, pc, retryAt, faults, crashes>>

Next ==
  \/ \E d \in Deployments : RequestNext(d) \/ Claim(d)
  \/ \E a \in Attempts : Spawn(a) \/ AttemptNext(a)
  \/ Tick
  \/ Crash
  \/ Restart

Spec == Init /\ [][Next]_vars

(* The loop polls, goroutines and handlers run on, time passes, and the    *)
(* process is brought up again.  Nothing obliges anybody to send a request *)
(* or to have a statement fail.                                            *)
Fairness ==
  /\ \A d \in Deployments :
       /\ WF_vars(RequestEnqueue(d))
       /\ WF_vars(RequestCompensate(d))
  /\ WF_vars(\E d \in Deployments : Claim(d))
  /\ \A a \in Attempts : WF_vars(Spawn(a)) /\ WF_vars(AttemptNext(a))
  /\ WF_vars(Tick)
  /\ WF_vars(Restart)

FairSpec == Spec /\ Fairness

-----------------------------------------------------------------------------
(* Properties                                                              *)

(* The attempts that hold their job: they have yet to mark it.             *)
Holding ==
  {"claimed", "load", "orphan", "abort", "begin", "execute",
   "markSucceeded", "markRetry", "markFailed"}

Holders(d) == {a \in Attempts : a[1] = d /\ pc[a] \in Holding}

Terminal == {"succeeded", "failed"}

(* Attempts of one app never execute side by side, whatever is retried,    *)
(* fails to be written or crashes: the job table is the lock, taken by the *)
(* claim's NOT EXISTS (a unique index on the running rows backs it) and    *)
(* held until the job row is marked.                                       *)
OneAttemptPerApp ==
  \A a, b \in Attempts :
    /\ pc[a] \in Holding /\ pc[b] \in Holding
    /\ AppOf[a[1]] = AppOf[b[1]]
    => a = b

(* A job that waits can still be claimed: the worker never parks a job in  *)
(* queued or retrying with its attempts used up, where the claim's         *)
(* attempt_count < max_attempts would skip it for ever.                    *)
WaitingJobsHaveAttempts ==
  \A d \in Deployments :
    jobs[d].status \in {"queued", "retrying"} => jobs[d].attempts < MaxAttempts

(* At most Concurrency attempts execute, and the loop claims at most one   *)
(* job more, which the database already calls running, before it waits for *)
(* the semaphore.                                                          *)
WithinConcurrency ==
  /\ Cardinality(Goroutines) <= Concurrency
  /\ Cardinality({a \in Attempts : pc[a] \in Holding}) <= Concurrency + 1

(* First attempts of an app's jobs run in the order the jobs were queued:  *)
(* neither retries nor blocked apps let a later job start before an        *)
(* earlier one has had its try.                                            *)
FirstAttemptsInOrder ==
  \A d, e \in JobRows :
    /\ AppOf[d] = AppOf[e]
    /\ jobs[d].id < jobs[e].id
    /\ jobs[e].attempts > 0
    => jobs[d].attempts > 0

(* Each deployment is counted at most once in its app's health, and only   *)
(* when an attempt of it was the last one, however often it was retried or *)
(* its writes failed.                                                      *)
HealthCountsOnce ==
  \A app \in Apps :
    health[app].success + health[app].failure
      <= Cardinality({d \in Deployments : /\ AppOf[d] = app
                                          /\ jobs[d].attempts > 0
                                          /\ jobs[d].status \notin {"queued", "retrying"}})

(* While no statement has failed, a deployment shows an outcome only when  *)
(* its job has that very outcome: a user never sees "succeeded" or         *)
(* "failed" for work that is still going to run.                           *)
OutcomeIsBacked ==
  faults = 0 =>
    \A d \in Deployments :
      deployments[d] \in Terminal => jobs[d].status = deployments[d]

(* Without failing statements and crashes, health counts exactly the jobs  *)
(* that ended, once their attempts are through.                            *)
HealthIsExact ==
  (faults = 0 /\ crashes = 0 /\ Goroutines = {}) =>
    \A app \in Apps :
      /\ health[app].success =
           Cardinality({d \in Deployments : AppOf[d] = app /\ jobs[d].status = "succeeded"})
      /\ health[app].failure =
           Cardinality({d \in Deployments : AppOf[d] = app /\ jobs[d].status = "failed"})

(* A job's outcome is final, and no attempt starts after it: a worker      *)
(* never writes a job that a later attempt has claimed or finished.        *)
OutcomeIsFinal ==
  [][\A d \in Deployments : jobs[d].status \in Terminal => jobs'[d] = jobs[d]]_vars

(* Seen from outside, the queue is the board of JobBoard.                  *)
BoardStatus(s) ==
  CASE s = "none" -> "absent"
    [] s \in {"queued", "retrying"} -> "waiting"
    [] s = "running" -> "taken"
    [] OTHER -> s

boardView ==
  [d \in Deployments |-> [status |-> BoardStatus(jobs[d].status), tries |-> jobs[d].attempts]]

Board == INSTANCE JobBoard WITH Jobs <- Deployments, GroupOf <- AppOf, board <- boardView

ImplementsBoard == Board!BoardSpec

(* Every queued job gets an outcome.                                       *)
EveryJobSettles ==
  \A d \in Deployments : d \in JobRows ~> jobs[d].status \in Terminal

(* A stranded job is running in the table, and no attempt is left that     *)
(* would ever mark it: nobody will claim it, nor another job of its app.   *)
StrandedJobs == {d \in Deployments : jobs[d].status = "running" /\ Holders(d) = {}}

Stranded(app) == \E d \in StrandedJobs : AppOf[d] = app

(* A failed statement strands at most one job, and a crash the jobs the    *)
(* worker had at that moment: one per slot and the one the loop had        *)
(* claimed.  As long as neither happens no job is stranded.                *)
StrandingIsBounded == Cardinality(StrandedJobs) <= faults + (Concurrency + 1) * crashes

(* Every queued job gets an outcome, however often it is retried and       *)
(* whatever its neighbours do, except in an app that a failed write or a   *)
(* crash has stranded: the damage stays within that app.                   *)
DamageIsContained ==
  \A d \in Deployments :
    d \in JobRows ~> \/ jobs[d].status \in Terminal
                     \/ faults + crashes > 0 /\ Stranded(AppOf[d])

(* When nothing has failed and every attempt of a job is through, all that *)
(* a late write can have done to its deployment is to show it as queued,   *)
(* and this only after a retry: it never shows the wrong outcome, nor that *)
(* the job still runs.                                                     *)
LateRetryOnlyRequeues ==
  (faults = 0 /\ crashes = 0) =>
    \A d \in Deployments :
      /\ jobs[d].status \in Terminal
      /\ \A a \in Goroutines : a[1] # d
      => \/ deployments[d] = jobs[d].status
         \/ deployments[d] = "queued" /\ jobs[d].attempts > 1

(* Once every attempt of a job is through, its deployment shows the job's  *)
(* outcome.                                                                *)
SettledDeploymentAgrees ==
  \A d \in Deployments :
    /\ jobs[d].status \in Terminal
    /\ \A a \in Goroutines : a[1] # d
    => deployments[d] = jobs[d].status
=============================================================================
