----------------------------- MODULE DeployStore -----------------------------
(***************************************************************************)
(* The tables the deployment queue lives in, and the statements of         *)
(* store.go that write them.  SQLite runs one statement at a time, so each *)
(* statement is one atomic action on one table; what happens between two   *)
(* of them is the business of the module that issues them.                 *)
(*                                                                         *)
(* A deployment has at most one job (UNIQUE (deployment_id)), so job rows  *)
(* are indexed by their deployment.  The columns nobody decides on (log    *)
(* lines, error texts, urls, who claimed) are left out.                    *)
(***************************************************************************)
EXTENDS Integers, FiniteSets

CONSTANTS
  Apps,
  Deployments,  (* the deployments that may ever be requested         *)
  AppOf,        (* app_id of each deployment                          *)
  MaxAttempts   (* max_attempts of every job, DEPLOY_MAX_ATTEMPTS     *)

ASSUME AppOfAssumption       == AppOf \in [Deployments -> Apps]
ASSUME DeploymentsAssumption == IsFiniteSet(Deployments)
ASSUME MaxAttemptsAssumption == MaxAttempts \in Nat \ {0}

VARIABLES
  now,          (* unixepoch(), in whole seconds                      *)
  deployments,  (* deployments.status, "none" before the INSERT       *)
  jobs,         (* deployment_jobs                                    *)
  health        (* the counters of app_health_metrics                 *)

storeVars == <<now, deployments, jobs, health>>

DeploymentStatus == {"none", "queued", "running", "succeeded", "failed"}
JobStatus == {"none", "queued", "running", "retrying", "succeeded", "failed"}

NoJob == [status |-> "none", attempts |-> 0, nextAt |-> 0, id |-> 0]

StoreTypeOK ==
  /\ now \in Nat
  /\ deployments \in [Deployments -> DeploymentStatus]
  /\ jobs \in [Deployments -> [status : JobStatus, attempts : 0..MaxAttempts,
                               nextAt : Nat, id : Nat]]
  /\ health \in [Apps -> [success : Nat, failure : Nat]]

StoreInit ==
  /\ now = 0
  /\ deployments = [d \in Deployments |-> "none"]
  /\ jobs = [d \in Deployments |-> NoJob]
  /\ health = [a \in Apps |-> [success |-> 0, failure |-> 0]]

-----------------------------------------------------------------------------
(* deployments and app_health_metrics                                      *)

CreateDeployment(d) ==
  deployments' = [deployments EXCEPT ![d] = "queued"]

(* The UPDATE does not look at the status it overwrites.                   *)
UpdateDeploymentOutcome(d, status) ==
  deployments' = [deployments EXCEPT ![d] = status]

RecordAppDeploymentOutcome(d, status) ==
  health' = IF status = "succeeded"
              THEN [health EXCEPT ![AppOf[d]].success = @ + 1]
              ELSE [health EXCEPT ![AppOf[d]].failure = @ + 1]

-----------------------------------------------------------------------------
(* deployment_jobs                                                         *)
(*                                                                         *)
(* The definitions named Bug... are wrong on purpose: each is a slip the   *)
(* code could plausibly contain, and the README says which property finds  *)
(* it.  No specification uses them.                                        *)

JobRows == {d \in Deployments : jobs[d].status # "none"}

(* Rows are never deleted, so the next rowid is one more than their number.*)
CreateDeploymentJob(d) ==
  /\ d \notin JobRows
  /\ jobs' = [jobs EXCEPT ![d] = [status |-> "queued", attempts |-> 0, nextAt |-> now,
                                  id |-> Cardinality(JobRows) + 1]]

(* The claim forgets its NOT EXISTS subquery.                              *)
BugAppIsFree(d) == jobs[d].status # "running"

(* The subquery looks at the running jobs of every app.                    *)
BugNobodyRuns(d) == \A e \in Deployments \ {d} : jobs[e].status # "running"

AppIsFree(d) ==
  \A e \in Deployments \ {d} : AppOf[e] = AppOf[d] => jobs[e].status # "running"

(* The claim also picks up jobs that failed with attempts left.            *)
BugRunnable(d) ==
  /\ jobs[d].status \in {"queued", "retrying", "failed"}
  /\ jobs[d].nextAt <= now
  /\ jobs[d].attempts < MaxAttempts
  /\ AppIsFree(d)

Runnable(d) ==
  /\ jobs[d].status \in {"queued", "retrying"}
  /\ jobs[d].nextAt <= now
  /\ jobs[d].attempts < MaxAttempts
  /\ AppIsFree(d)

(* The ORDER BY stops at next_attempt_at.                                  *)
BugPrecedes(d, e) == jobs[d].nextAt <= jobs[e].nextAt

(* ORDER BY next_attempt_at, id                                            *)
Precedes(d, e) ==
  \/ jobs[d].nextAt < jobs[e].nextAt
  \/ jobs[d].nextAt = jobs[e].nextAt /\ jobs[d].id <= jobs[e].id

(* The claim does not count the attempt.                                   *)
BugClaim(d) ==
  /\ Runnable(d)
  /\ \A e \in Deployments : Runnable(e) => Precedes(d, e)
  /\ jobs' = [jobs EXCEPT ![d].status = "running"]

ClaimNextRunnableDeploymentJob(d) ==
  /\ Runnable(d)
  /\ \A e \in Deployments : Runnable(e) => Precedes(d, e)
  /\ jobs' = [jobs EXCEPT ![d].status = "running", ![d].attempts = @ + 1]

(* The status literal is misspelt.                                         *)
BugMarkRetryStatus(d, nextAttemptAt) ==
  jobs' = [jobs EXCEPT ![d].status = "retry", ![d].nextAt = nextAttemptAt]

(* The retry is scheduled and the job not released.                        *)
BugMarkRetryHolds(d, nextAttemptAt) ==
  jobs' = [jobs EXCEPT ![d].nextAt = nextAttemptAt]

MarkDeploymentJobRetry(d, nextAttemptAt) ==
  jobs' = [jobs EXCEPT ![d].status = "retrying", ![d].nextAt = nextAttemptAt]

MarkDeploymentJobFailed(d) ==
  jobs' = [jobs EXCEPT ![d].status = "failed"]

MarkDeploymentJobSucceeded(d) ==
  jobs' = [jobs EXCEPT ![d].status = "succeeded"]
=============================================================================
