# Verification of the Labra backend

Labra deploys static sites. Its backend (Go, `src/labra-backend`) takes deploy requests over HTTP, from a person or
from a GitHub push, keeps everything in one SQLite database, and processes deployments from a queue in the background.
This directory holds TLA+ models of the parts where steps of several actors meet, the TLC configurations that check
them on small instances, and TLAPS proofs of what holds for every size. Paths below are relative to
`src/labra-backend/internal/api/` unless they begin with `src/`.

Every definition that models code is traced to its lines in `PROJECT.json` under `map`.

## 1. The system

### Parts and how they interact

```
 browser ──► apps.go, env_vars.go ───────► apps, app_env_vars
         ──► deploy.go ──────────────────► deployments ──► deployment_jobs
         ──► releases_rollback.go ───────► deployments, rollback payloads ──► deployment_jobs
 GitHub  ──► webhook*.go ── webhook_deliveries ──► deployments ──► deployment_jobs
                                                                  │ claim
 worker loop (deploy_queue_worker.go) ◄──────────────────────────┘
   └─ goroutine per attempt ─► release_versions, apps.current_release, deployments,
                               deployment_jobs, app_health_metrics
```

Everything is shared through the tables. No transaction spans two store calls: two calls of the same handler can have
any other actor's calls in between, and the process can die there. Handlers run under the context of their request, so
they can also stop there because a client went away.

| Part | State | Operations | What is hard | What makes it correct |
|---|---|---|---|---|
| Deployment queue worker (`handlers/deploy_queue_worker.go`, `deploy_queue_execution.go`, `deploy_queue_config.go`) | `deployment_jobs`; loop, semaphore, goroutines | enqueue, claim, process, mark succeeded / retry / failed, start, stop | concurrent attempts, ignored write errors, crash between statements, retries coming due | one attempt per app at a time; bounded tries; final outcomes; deployment, job and health agree; damage stays in its app |
| Manual deploy (`handlers/deploy.go`) | `deployments` | create, enqueue, compensate | two rows written apart; cancellation | an outcome is shown only when it is backed |
| Webhook (`handlers/webhook*.go`) | `webhook_deliveries`, `deployments` | resolve, claim all, deploy all | redelivery, concurrent duplicates, failing half way | at most one deployment per app and delivery; 202 hides nothing; eligible apps are served |
| Releases and rollback (`releases_rollback.go`, `executeStandardAttempt`, `executeRollbackAttempt`, `store.go` 459-744) | `release_versions`, `apps.current_release_version_id`, payloads, events | publish, retain, request and execute a rollback | pointer, attachment and event in three statements; stale from and target | the newest releases are the retained ones; a successful deployment has its release; a successful rollback is complete (that it also took effect is refuted, see section 3) |
| Application and environment settings (`apps.go`, `env_vars.go`) | `apps`, `app_env_vars` | create, patch, delete | read, merge, write back in three steps; the worker writes a column of the same row | edits that do not overlap survive; no edit hits another row than the one it read; none moves the release |
| App health and observability (`app_health.go`, `observability.go`, `RecordAppDeploymentOutcome`) | `app_health_metrics` | count an outcome; two summary pages | counted apart from the rows it summarises; a page is several reads with writes in between | counts once per deployment; the parts of a page agree |
| Worker lifecycle (`Start/StopDeploymentQueueWorker`) | `queueCancel`, `queueDone` under `queueMu`; one context, loop and semaphore per start | start, stop | cancelling and waiting happen after the unlock; goroutines outlive Stop; the loop blocks on the semaphore | no worker is leaked; nothing starts a statement after Stop; Stop returns; the loop keeps polling |
| OAuth login (`services/oauth.go`) | the `verifiers` map | authenticate, callback, cleanup | one entry per client address, no lock | a callback uses the verifier of its own login |
| Queue status, deployment history | none | read | none | read-only |
| Generated queries, frontend, infrastructure | — | — | — | no protocol of their own |

The hazards, with the line each one bites at and the property that covers it, are listed in `PROJECT.json` under
`hazards`; those no property covers say why.

## 2. The modules

| Module | Models | Builds on |
|---|---|---|
| `JobBoard` | what the queue promises: post, take (one per app), give back, finish | |
| `DeployStore` | the tables of the queue and the statements of `store.go` that write them | |
| `DeployQueue` | the deploy handler, the worker loop, the attempts' goroutines, clock, crash, restart | `DeployStore`; implements `JobBoard` |
| `Releases` | what deployments and rollbacks of one app do to its releases | `JobBoard`, as the app's queue |
| `RetryPolicy` | configuration limits, retry delay, injected failures, as pure operators | |
| `WorkerLifecycle` | starting and stopping workers inside one process | `RetryPolicy` |
| `Webhook` | push handling with its ledger | |
| `AppSettings` | creating, patching and deleting apps and variables, beside the worker | |
| `StatusViews` | the health and the observability page, read while the queue works | `DeployQueue` |
| `DeployQueueProofs`, `QueueOrderProofs`, `QueueOutcomeProofs`, `StatusViewsProofs` | the theorems about the queue and the pages that report on it | each on the one before; the last also on `StatusViews` |
| `ReleasesProofs`, `WebhookProofs`, `WorkerLifecycleProofs`, `AppSettingsProofs` | the other theorems | the module they name |
| `MCDeployQueue`, `MCReleases`, `MCWebhook`, `MCWorkerLifecycle`, `MCAppSettings`, `MCStatusViews` | instances for TLC | |

### DeployStore and DeployQueue

*State.* `deployments` is the status column, `jobs` the row of `deployment_jobs` of each deployment (its
`UNIQUE(deployment_id)` makes the deployment a key), `health` the two counters, `now` the clock both SQLite and Go read
in whole seconds. `request[d]` is where the handler of `d` stands; `pc[<<d, n>>]` where the goroutine of attempt `n` of
`d` stands. The attempt number is part of the name because two attempts of one job can be alive together:
`MarkDeploymentJobRetry` frees the job one statement before the goroutine is done. `up` is the process.

*Actions.* Each statement is one action, in the order of the code; the handler's and the attempt's control flow is the
`pc`. `Claim` is `ClaimNextRunnableDeploymentJob` together with the variable the loop holds the job in, `Spawn` the
semaphore and the `go`. A claimed job is already running in the table while the loop waits, as in the code.

| Code | Action |
|---|---|
| `CreateDeployHandler`: insert, enqueue, its failure, compensation | `RequestCreate`, `RequestEnqueue`, `RequestEnqueueFails`, `RequestCompensate` |
| `r.Context()` is cancelled | `RequestCancelled` |
| `runDeploymentQueueLoop` | `Claim`, `Spawn` |
| `processDeploymentJob`, reads | `Load`, then `DropOrphan`, or `AbortJob` and `AbortDeployment`, when one fails |
| set running, execute | `Begin`, `ExecuteSucceeds`, `ExecuteFails` |
| success | `MarkSucceeded`, `DeploymentSucceeded`, `RecordSucceeded` |
| retry | `MarkRetry`, `DeploymentRetry` |
| failure | `MarkFailed`, `DeploymentFailed`, `RecordFailed` |
| process ends, `main` | `Crash`, `Restart` |

*Failing statements.* The worker discards the error of every write (`_, _ = appStore...`). `Ignoring(statement, table)`
is that: the statement, or nothing at all. A statement that reports an error is taken to have had no effect.

*Stop.* When `main` returns it runs `StopDeploymentQueueWorker`, which cancels the context all attempts run their
statements under. From then on none of them changes anything, which is what `Crash` says; `WorkerLifecycle` has the
details. A statement that was under way may still commit: that is the behaviour in which it came first.

*Left out.* Log rows, texts, urls, `claimed_by`, timestamps no one decides on, and what an execution does to releases:
to the queue an execution succeeds, fails for good, or fails and may be retried, and the model lets it do any of them.
The worker's poll interval is not modelled either: the loop may claim whenever it is free.

### Releases

*State.* `releases` is the app's `release_versions` in the order of their version numbers (a new one gets the highest
plus one, no row is deleted), with the deployment that published it and its `is_retained`; `current` is
`apps.current_release_version_id`, `attached` is `deployments.release_version_id`, `payloads` and `events` are the rows
of the two rollback tables. `request[b]` and `plan[b]` are a rollback handler's position and the releases it has found
(the payload and the event copy them), `exec[d]` the position of a job's execution, `keepSet` the local of the
retention policy.

*The queue* is not modelled twice: `board` is `JobBoard`, which `DeployQueue` is proved to implement. What `Releases`
takes from it is that an app's jobs are taken one at a time, at most `MaxAttempts` times each, and that a finished job
stays finished. One app is enough because every statement here names the app in its WHERE.

| Code | Action |
|---|---|
| `resolveCurrentRelease`: pointer; else list; else adopt the latest | `ReadCurrent`, `ListReleases`, `Adopt` |
| `CreateRollbackHandler`: target, payload, enqueue; any of it fails | `ChooseTarget`, `RejectTarget`, `SavePayload`, `EnqueueRollback`; `RequestEnds` |
| other deployments are enqueued | `Enqueue` |
| claim; mark the job; the mark fails | `Take`; `Settle`; `SettleFails` |
| `executeStandardAttempt` | `BuildFails`, `Publish`, `PublishFails` |
| `ApplyReleaseRetentionPolicy`: list, then mark | `ReadRetention`, `Prune`, `RetentionFails` |
| `executeRollbackAttempt` | `LoadRollback`, `LoadFails`, `SwitchPointer`, `AttachRelease`, `RecordEvent`, `RollbackFails` |
| process ends and restarts | `Crash` |

The status column of deployments, and so the compensation of a failed rollback request, is left to `DeployQueue`.

### Webhook

*State.* `apps` holds the two settings the handler reads, `ledger` the rows of `webhook_deliveries`, `deployments` and
`queued` the rows each request writes, by app and request; then, per request, the handler's locals: `eligible`,
`claimed` (its `uniqueApps`) and `todo`, what the current loop has not reached. Redeliveries are requests with the same
`DeliveryOf`.

| Code | Action |
|---|---|
| `resolvePushEventWithStore`, `ListAutoDeployAppsByRepo` | `Resolve` |
| `dedupeEligibleAppsWithLedger`, `ClaimWebhookDelivery` | `Claim`, `ClaimsDone` |
| `enqueueWebhookDeployments` | `Create`, `Enqueue`, `EnqueueFails`, `Compensate` |
| answer 202; answer with an error | `Accept`; `StatementFails`, `Compensate` |
| the client disconnects, the process ends | `RequestLost` |
| `PatchAppHandler`, by the owners | `Edit` |

Requests rejected before they reach the store (signature, event type, missing header, no branch) change nothing and are
left out, and so is what the worker later makes of the deployments. All `Apps` belong to the pushed repository; each
may have another owner, so any two may follow the same branch.

### RetryPolicy and WorkerLifecycle

`RetryPolicy` has `envInt`, `loadDeploymentQueueConfig`, `retryDelaySeconds` (a recursive function for the loop with its
early return), `forcedTransientFailures`, and `Outcome`: how a job ends whose only failures are injected.
`WorkerLifecycle` takes the size of the semaphore from it. Three properties of `WorkerLifecycle` are about the whole
policy, for all `Environments` (a constant: any set of settings, numbers or not). There is no state in them; they are
looked at before the first start. TLC does so for 8 100 environments, the theorems for any.

*State of WorkerLifecycle.* Every start makes a worker with a loop (`loop[w]`), a context (`cancelled`), a semaphore of
`slots[w]`, of which `attempts[w]` are taken. `current` is the worker `queueCancel` and `queueDone` belong to, 0 when
they are nil. `stop[s]` and `stopping[s]` are a call of Stop and its local copies of the two.

| Code | Action |
|---|---|
| `StartDeploymentQueueWorker`, all under the mutex | `Start` |
| `StopDeploymentQueueWorker`: critical section; `cancel()`; `<-done` | `StopTakes`; `StopCancels`; `StopReturns` |
| `runDeploymentQueueLoop`: select at the top; claim; wait for the ticker; `sem <- struct{}{}` | `CheckContext`; `Claim`; `Wait`; `Acquire` |
| a goroutine is through, `<-sem` | `AttemptEnds` |

Which jobs there are is left open, so a claim may find one or not; what an attempt does with its job is in `DeployQueue`.
A claim under way when the context is cancelled may still find one: the loop then takes a slot for it before it looks at
its context again.

### AppSettings

The handlers of `apps` and of `app_env_vars` have the same shape, and no statement on one table changes the other: a
behaviour is about one of them, chosen in `Init`. Columns are grouped by how they are handled: what the row belongs to,
the one its unique index is about (branch; key), the others, a flag (auto deploy; is secret) and, in `apps`, the release
the worker sets.

*State.* `rows` by id, `created` (AUTOINCREMENT's counter), `patches`, the locals of PATCH handlers under way: the copy
they read and the one they are to write. Two ghosts: `asked` is every column as it was last asked for by name, `raced`
the rows that a PATCH has written from an outdated copy. `born` tells rows apart that might share an id.

| Code | Action |
|---|---|
| `CreateAppHandler`, `CreateAppEnvVarHandler` | `CreateApp`, `CreateAppEnvVar` |
| `DeleteAppEnvVarHandler` | `DeleteAppEnvVar` |
| `PatchAppHandler`, `PatchAppEnvVarHandler`: read and merge | `PatchAppReads`, `PatchAppEnvVarReads` |
| write all columns back (`UpdateAppForUser`, `UpdateAppEnvVarForUser`) | `UpdateAppForUser`, `UpdateAppEnvVarForUser` |
| not found, conflict, failing statement, client gone | `PatchFails` |
| the worker publishes or switches a release | `MoveRelease` |

Requests refused before a statement is issued, and those for rows of other users, change nothing and are left out.

### StatusViews

It runs `DeployQueue` unchanged (`QueueStep`), keeps the order of the ids of `deployments` beside it (`inserted`), and
adds one page being read, for either handler and any app: `ReadNext` issues the next of the handler's statements, in
the order of the code, and `shown` is what they have returned. `RecentRows` is the limit of the list of recent
deployments, 30 in the code, and `Nothing` the read that finds no row. Readers write nothing, so one of them, reading at any
speed, stands for any number.

| Code | Definition |
|---|---|
| `GetAppHealthSummaryHandler`: metrics, latest, last success | `HealthSummary` |
| `GetAppObservabilitySummaryHandler`: recent deployments, then metrics | `ObservabilitySummary` |
| the store's queries | operators of their names; `ListRecentDeploymentsByAppForUser` is the set of listed rows |
| `status_counts` of the recent deployments | `StatusCounts` |
| `computeHealthIndicator` | `HealthIndicator` |

The log queries, rollback events, releases and variables on these pages are left out: nothing in `DeployQueue` writes
them.

## 3. The runs

| Run | Question | Instance | Distinct states |
|---|---|---|---|
| `queue_failures` | does the job table stay a lock, do job, deployment and health agree, and what can a late write change, when statements fail? | 2 deployments of 1 app, 3 attempts, 2 slots, 2 faults, 1 crash | 1 279 407 |
| `queue_sharing` | what do two apps see that share one slot, and how many jobs can be stranded, and does everything else end? (safety and liveness) | 3 deployments, 2 apps, 2 attempts, 1 fault or 1 crash | 392 321 |
| `queue_crash` | does every queued job get an outcome? **No.** | 2 deployments, 1 crash | violation |
| `queue_late_retry` | does a settled deployment show its job's outcome? **No.** | 2 deployments, no fault, no crash | violation |
| `releases` | do retention, pointer, attachments and events agree, whatever rolls back, fails or crashes in between? | 3 deployments and 2 rollbacks of 1 app, 2 attempts, 1 release kept, 1 fault, 1 crash | 1 041 748 |
| `releases_pointer` | does a rollback that succeeded leave the app on its target? **No.** | 2 deployments, 2 rollbacks, no fault, no crash | violation |
| `webhook` | at most once, nothing hidden, everything served? (safety and liveness) | 2 apps, 3 requests (one a redelivery), 1 fault, 1 edit | 257 184 |
| `webhook_lost` | after a failure, does the redelivery make up for it? **No.** | the same | violation |
| `worker_lifecycle` | can starts and stops that overlap leak a worker, hang, or leave something running; are settings and delays right at every limit? (safety and liveness) | 3 starts, 2 callers of Stop, concurrency unset, 0 or 1; 8 100 environments | 153 866 |
| `app_settings` | what survives when edits, deletions, creations and the worker overlap? | 2 rows, 2 requests, 2 names, 1 release | 1 588 746 |
| `app_settings_lost` | does a variable stay secret through another edit of it? **No.** | the same | violation |
| `status_views` | do the parts of a page agree that are read at different moments? | 2 deployments of 1 app, 2 attempts, 2 slots, 1 fault, 1 crash | 1 873 796 |

### What the violations say

* `queue_crash`. `src/docs/testing.md:39` says manual deploys "are queued and processed by worker". When the process
  ends during an attempt, the row stays `running`. A new worker resets nothing, and the claim skips apps that have a
  running job: that deploy, and all later ones of the app, wait for ever. `DamageIsContained` is what holds instead:
  the other apps are not affected. And `StrandingIsBounded`: a crash strands one job per slot and the one the loop
  holds, at most.
* `queue_late_retry`. A retried attempt first marks its job `retrying` (line 147) and then sets the deployment to
  `queued` (line 148). If the retry comes due in between, the next attempt can finish first and its outcome is then
  overwritten; `handlers/phase8_queue_retries_test.go:71` expects "deployment succeeded after retry". It needs neither
  fault nor crash, only a slow write. `LateRetryOnlyRequeues` is what holds: without faults a settled deployment shows
  its job's outcome or, after a retry, `queued`; never another outcome, and never that it still runs.
* `releases_pointer`. `handlers/core_smoke_test.go:65` expects the app to be on the target "after rollback". A rollback
  request that found no current release lists the releases and makes the first one current (line 235) without looking at
  the pointer again. When it stalls in between, releases are published and another rollback moves the pointer; the stale
  write then lands after that and before its job is marked succeeded. No fault and no crash are needed.
  `RollbackIsComplete` is what holds: attachment and event name the target.
* `webhook_lost`. `src/docs/phase4-mvp-runbook.md:68` says eligible apps enqueue deployments. The handler writes all
  ledger rows before it creates the first deployment, so after a failure half way the redelivery finds every app
  claimed, answers 202 and deploys nothing.
* `app_settings_lost`. `handlers/phase6_env_health_test.go:85` says, of a PATCH of a secret's value, "expected patched
  secret value to stay masked". The handler writes every column of the copy it read (`env_vars.go:210`). When another
  PATCH made the variable secret in between, `is_secret` is set back to false and the value is shown. It does not matter
  what the stale PATCH names: TLC's shortest trace has one that names no field, which the handler accepts and writes
  back all the same. `UnracedEditsSurvive` is what holds: only overlapping edits of one row lose anything.

Two properties name an exception that one of these violations is the reason for: `DamageIsContained` the apps a crash
or a failed statement stranded, `HealthPageIsCoherent` successes overwritten by a late retry write (`Overwritten`).

### Bounds

Deployments, attempts, slots, requests and apps are the constants of the code, set small. The other bounds exist only
for TLC. Two deployments of an app are enough to violate mutual exclusion or to overtake; a third, of another app, to
see sharing. Three attempts leave one that is neither first nor last. `MaxTime` stops the clock from running freely: a
tick at leisure reorders `next_attempt_at`, and one is enough to have a job that is newer than another; past it the
clock still moves as long as some retry waits for it, so no retry is ever cut off. Each fault is one failing statement
or one cancelled request: two allow a failing write on top of a failing enqueue, or two in one attempt. One crash is
enough to strand a job; a second would strand another app in the same way.

In `queue_sharing` the crash can find one attempt in the slot and the other app's job claimed by the loop: it strands
two jobs, all that `StrandingIsBounded` allows. Its specification, `OneFailureSpec`, allows one failure of either kind
(`OneFailureNext`), a failing statement or a crash. Both in one behaviour are in `queue_failures`, for one app and
without liveness; with two apps and liveness they take TLC too long.

In `releases`, three deployments with `Keep = 1` leave a release outside the limit, one inside and one being
published; two rollbacks can stand anywhere in each other's way.

In `worker_lifecycle` three starts give an old worker that is cancelled, one whose Stop is under way and one that is
current; 0 is below the limit of the setting, and a single slot is where the loop blocks.

In `app_settings` two rows and two names give a conflict, and a key that is deleted and created again under a request;
two requests overlap in every order; more parents would only add rows that do not meet. There is one value: two
columns that are merged and written back independently are enough to lose one through the other, and the flag, with
two values, is the second beside the name (a second value alone takes the run beyond TLC's reach; `EditsSurvive` is
for any `Values`).

In `status_views` one app suffices, since every statement names its app. `RecentRows` is the number of deployments, so
the list is never cut; a cut list only has fewer outcomes to be counted, and `ObservabilityPageAgrees` is for any
limit.

Nothing in the theorems depends on these bounds.

`SYMMETRY` is used in runs without liveness only: on the two deployments of one app in `queue_failures` and
`status_views`, on the deployments and on the rollbacks in `releases`, on names and on requests in `app_settings`.
Members of each set differ in nothing.

`CHECK_DEADLOCK FALSE` in all runs: once every request has been handled and the bounds are used up, there is nothing
left to do. That it does not stop too early is what the liveness properties say.

### Fairness

`DeployQueue`: the loop polls without end, goroutines and handlers are scheduled by the Go runtime, time passes, and
the process is started again after it ended: weak fairness on the claim, each `Spawn`, each attempt, the handler's enqueue and
compensation, the clock and `Restart`. None on creating requests, faults or crashes. Weak fairness of an attempt does
not choose how its execution ends. `Spawn` needs no more than weak fairness: only one job waits for a slot at a time,
and once one is free nobody else takes it. `Webhook`: weak fairness on each request that has arrived, none on arrivals,
losses or edits. `WorkerLifecycle`: weak fairness on each loop, on each worker's attempts (straight-line code, and under
a cancelled context every statement fails at once) and on calls of Stop that are under way; none on calling Start or Stop.

### Every property can fail

For each property of a passing run there is a definition `Bug...` beside the one it alters, a slip the code could
contain; with it in place of the original TLC finds the property violated.

| Property | Slip that violates it |
|---|---|
| `DeployQueue.TypeOK` | `BugMarkRetryStatus`: misspelt status literal |
| `OneAttemptPerApp` | `BugAppIsFree`: the claim without its NOT EXISTS |
| `WaitingJobsHaveAttempts` | `BugExecuteFails`: `<=` for `<` in the retry test |
| `HealthCountsOnce` | `BugRetryRecords`: a retried attempt is recorded |
| `OutcomeIsBacked` | `BugRetryShowsFailed`: shown as failed between two attempts |
| `HealthIsExact` | `BugDeploymentFailed`: final failures not recorded |
| `LateRetryOnlyRequeues` | `BugRetryShowsFailed`: the same |
| `OutcomeIsFinal` | `BugRunnable`: the claim takes failed jobs |
| `ImplementsBoard` | `BugClaim`: the claim does not count the attempt |
| `WithinConcurrency` | `BugSpawn`: no semaphore |
| `FirstAttemptsInOrder` | `BugPrecedes`: ORDER BY without `id` |
| `StrandingIsBounded` | `BugMarkRetryHolds`: retry scheduled, job not released |
| `DamageIsContained` | `BugNobodyRuns`: the claim's NOT EXISTS looks at the jobs of every app |
| `Releases.TypeOK` | `BugNextVersion`: the pointer gets the version after the new one |
| `RetainedAreNewest` | `BugKept`: ORDER BY without DESC |
| `RollbackIsComplete` | `BugAttachRelease`: the attachment is forgotten |
| `SuccessHasRelease` | `BugCreateReleaseVersion`: the transaction leaves the deployment row alone |
| `AcceptedRollbackSucceeds` | `BugChooseTarget`: the payload is never saved |
| `RetriesAreBounded` | `BugEnvInt`: no lower limit |
| `DelayIsCappedExponential` | `BugRetryDelaySeconds`: a base above the maximum is not capped |
| `InjectionMeetsRetries` | `BugTransient`: `>` for `>=` |
| `WorkerLifecycle.TypeOK` | `BugAcquire`: the semaphore is not waited for |
| `NoWorkerIsLeaked` | `BugStart`: no test for a current worker |
| `StoppedMeansQuiet` | `BugStopReturns`: Stop does not wait for the loop |
| `EveryStopReturns` | `BugEnvInt`: no lower limit, so no slots |
| `WorkerKeepsPolling` | `BugAttemptEnds`: the slot is not given back |
| `AppSettings.TypeOK` | `BugNameIsFree`: no unique index |
| `PatchKeepsItsRow` | `BugNextId`: no AUTOINCREMENT, ids are used again |
| `UnracedEditsSurvive` | `BugMerge`: a flag that is not named becomes false |
| `ReleaseSurvivesEdits` | `BugSet`: the release is written back with the rest |
| `HealthPageIsCoherent` | `BugHealthSummary`: the last success is read first |
| `ListedOutcomesAreCounted` | `BugObservabilitySummary`: the counters are read first |
| `Webhook.TypeOK` | `BugCompensate`: unknown status literal |
| `OneDeploymentPerDelivery`, `LedgerRowsHaveOneOwner` | `BugClaimWebhookDelivery`: INSERT OR IGNORE |
| `AcceptedMeansQueued` | `BugEnqueue`: answers after the first app |
| `EligibleAppsAreServed` | `BugClaimsDone`: the list of claimed apps is dropped |

## 4. What is proved

For any numbers of apps, deployments, attempts, slots, requests, deliveries, rows, starts, faults, crashes and edits, any
retention limit and any clock.

### DeployQueueProofs

Assumed, as named in the modules: every deployment belongs to an app, there are finitely many deployments, at least one
attempt and one slot, retry delays are positive integers, the bounds are natural numbers.

`IInv` is the inductive invariant. `OneAttemptPerApp` alone is not inductive: nothing in it says that a claim cannot
succeed while an attempt runs. The strengthening is `HoldersOwnJob`: an attempt that has yet to mark its job finds the
row `running` with its own number in it. So the row is a lock that attempt holds. With `OneRunningJobPerApp` (the unique
index `idx_deployment_jobs_app_running` of the schema, here a consequence and not an assumption) two attempts of one app
would be two rows running, or one row counting two numbers. `RetriesHaveAttempts` and `AbsentJobsAreFresh` are what
`WaitingJobsHaveAttempts` needs to be inductive.

The step lemmas avoid a case per action and conjunct: `AttemptEffect` sorts the statements of an attempt by what they do
to lock and row (walk on, end the job, release it for retry), `StepEffect` adds claims, new jobs and steps that touch
neither, and `StepIInv` has one case for each of these.

| Theorem | States |
|---|---|
| `Invariant`, `TypeCorrect` | `IInv` and `TypeOK` always hold |
| `Exclusion` | `OneAttemptPerApp` |
| `NoJobIsParked` | `WaitingJobsHaveAttempts` |
| `Finality` | `OutcomeIsFinal`: no step writes a row that has an outcome |
| `Refinement` | `ImplementsBoard`: the initial state maps to an empty board, each step to a step of the board or none |

### QueueOrderProofs

Theorems about many attempts at once, on top of `IInv`.

| Theorem | States | Why |
|---|---|---|
| `FirstTriesInOrder` | `FirstAttemptsInOrder` | `FreshJobsInOrder`: jobs without a try are queued and due, and their `next_attempt_at` has the order of their ids. So the claim, which takes the first runnable job in the order of its ORDER BY, can pass over none of the same app. |
| `ConcurrencyIsBounded` | `WithinConcurrency` | `LoopHoldsOne`: the loop holds at most one claimed job; `SlotsAreKept`: the goroutines never outnumber the slots. The proof counts the sets before and after a step. |
| `DamageIsBounded` | `StrandingIsBounded` | An attempt lets go of its job only by marking it or by a statement that fails (`LettingGo`), so a step strands its own job at most, and then it is a fault. A crash strands running jobs that had a holder; by `HoldersOwnJob` these map one to one to the attempts under way, which `WithinConcurrency` counts. |

### QueueOutcomeProofs

What the queue tells of its outcomes is written after the job is marked, when the row is no lock any more. What protects
these writes is `FinishersWereLast`: the job of an attempt that has marked it has an outcome, or is stuck as running,
and still counts that attempt's number; so nobody starts another.

| Theorem | States | Why |
|---|---|---|
| `HealthCounts` | `HealthCountsOnce` | `CountsAreCovered`: the counters never exceed the number of jobs that had their last attempt and are through (`Spent`), which each record adds one to. |
| `OutcomesAreBacked` | `OutcomeIsBacked` | `Clean`: as long as no statement has failed, an attempt past its mark finds the row with the outcome it is about to show. |
| `HealthIsRight` | `HealthIsExact` | `Exact`: as long as nothing failed or crashed, the counters equal the numbers of jobs with that outcome whose last attempt is through (`Reported`). |
| `LateRetriesOnlyHide` | `LateRetryOnlyRequeues` | `OutcomesAreTold`: a job with an outcome has a last attempt that is on its way to tell the deployment, or has told it. After that only older attempts still have a write to make (by `FinishersWereLast` no other one is finishing), and theirs is `queued`. `LateWritersAreOld` gives the retry: an attempt about to write `queued` is counted, so another last attempt means there were two. |

`RowsPrecedeWork`, also here, says in which order the rows of a deployment come to exist: no job before the deployment,
no attempt before the job, and that the handler is done with the row once there is a job. It needs no absence of
failures. `DeploymentChange` lists who may write the status column at all.

### StatusViewsProofs

Assumed in addition: the page's list has a limit in `Nat`, and `Nothing` is no row.

A page's parts are of different moments, so what one part said must be put in terms that stay true while the queue goes
on, until the last part is read. Two invariants of the queue supply such terms.

| Theorem | States | Why |
|---|---|---|
| `HealthPageAgrees` | `HealthPageIsCoherent` | `SuccessesAreAchieved`: as long as no statement fails, a deployment that shows a success, or a counter above 0, has a job that succeeded and a deployment that was told (`Achieved`). That is never undone; a late retry may hide it, and what is hidden stays hidden (`AchievedStays`). So the row the first reads saw is still there for the last one, or the exception `Overwritten` applies. `StepInserted` says that ids never move, `LastSuccess` that the query returns the highest one (it exists because a bounded set of numbers has a greatest, by the library's well-founded induction). |
| `ObservabilityPageAgrees` | `ListedOutcomesAreCounted` | A ledger: `Owed` is what an app shows or is about to show without recording it (outcomes, jobs being dropped, failed enqueues being compensated), `Accounted` is its counters, the attempts about to record, the faults, and a slot for each crash. `Owed <= Accounted` always, and `Accounted` never shrinks (`Balanced`); the list is at most what is owed when it is read, hence at most what is accounted for when the counters are. |

### ReleasesProofs

Assumed: rollbacks are deployments, at least one attempt, natural numbers for retention limit and bounds.

The argument is that executions are serial (`ExecutionsAreSerial`, from the board: at most one job is taken, and an
execution under way has its job taken). What an execution reads in one statement is then still true at its next, as far
as only executions write it. The rollback handlers are not serial; of them `JobsArePlanned` says that target, payload
and job come in this order and that none changes once the next exists.

| Theorem | States | Why |
|---|---|---|
| `Invariant`, `TypeCorrect` | `IInv` and `TypeOK` always hold | |
| `RetentionIsSound` | `RetainedAreNewest` | `RetentionIsCurrent`: the release being applied is still the newest, and the keep set read is what the limit keeps of it, which is closed upwards; `LimitIsKept` for the number. |
| `RollbacksComplete` | `RollbackIsComplete` | `RollbackProgress`: an execution has attached before it records, and has recorded before it succeeds. |
| `SuccessPublishes` | `SuccessHasRelease` | `PublishingProgress`: without failures a deployment has published nothing before, and its one release after, its execution's publishing step. |
| `RollbacksSucceed` | `AcceptedRollbackSucceeds` | `RollbacksDoNotFail`, with `JobsArePlanned`: the payload is there when the job is. |

### WorkerLifecycleProofs

Assumed: what the environment may hold is a number, nothing or something malformed, and neither of the latter is a
number.

`NoWorkerIsLeaked` needs `StopsAreOrderly` (what a Stop holds, it holds alone and until it returns); `StoppedMeansQuiet`
needs, in addition, `CancelledAreAwaited` (a cancelled worker whose loop has not ended is waited for) and
`LoopsAreStarted`.

| Theorem | States |
|---|---|
| `Invariant`, `TypeCorrect` | `IInv` and `TypeOK` always hold |
| `NoLeak` | `NoWorkerIsLeaked` |
| `QuietAfterStop` | `StoppedMeansQuiet` |
| `RetriesAreSane` | `RetriesAreBounded` |
| `DelaysAreExponential` | `DelayIsCappedExponential` |
| `InjectionIsExact` | `InjectionMeetsRetries` |

The last three are about `RetryPolicy`, for any settings. Since the configuration admits ten attempts at most, the loop
of `retryDelaySeconds` needs no induction: `Recursion` shows that the ten rounds written out solve its recursive
definition and that there is no other solution, `RoundsAreCapped` compares each round with the power of two. The number
of attempts in `InjectionIsExact` is shown to be the only one that is the first last one. `RetriesAreSane` is also what
justifies two assumptions of `DeployQueue`: that there is an attempt and that every retry waits a positive number of
seconds.

### AppSettingsProofs

Assumed: the mask is no value, the placeholders for no row and no request are none, the bounds are natural numbers.

`IdsAreUsedOnce` (an id is the birth number of its row) makes the id a PATCH holds as good as the row;
`PatchIsMerged` says that what it is to write differs from what it read in the named columns only.

| Theorem | States |
|---|---|
| `Invariant`, `TypeCorrect` | `IInv` and `TypeOK` always hold |
| `SameRow` | `PatchKeepsItsRow` |
| `EditsSurvive` | `UnracedEditsSurvive` |
| `ReleaseIsSafe` | `ReleaseSurvivesEdits` |

### WebhookProofs

Assumed: app ids are numbers (the loops go by id), each request has a delivery and each delivery a branch.

`LedgerIsBacked` and `ClaimsAreDisjoint` say that the ledger and the requests' lists describe the same claims and that
no two requests of a delivery share one; the insert under the unique index preserves both. `Orderly(r)` is the
bookkeeping of one request: it deploys only what it claimed, and what is neither to do nor next has its deployment and its job. A step of a
request does not disturb that of another (`HandleIsLocal`).

| Theorem | States |
|---|---|
| `Invariant`, `TypeCorrect` | `IInv` and `TypeOK` always hold |
| `AtMostOnce` | `OneDeploymentPerDelivery` |
| `SingleOwner` | `LedgerRowsHaveOneOwner` |
| `AcceptedIsHonest` | `AcceptedMeansQueued` |

### Only model-checked

`DamageIsContained`, `EligibleAppsAreServed`, `EveryStopReturns` and `WorkerKeepsPolling` are liveness under fairness,
which the prover does not treat. What a retry delay would be beyond ten attempts is not asked: the configuration does
not admit them, and an answer for every number would need induction over an operator. The violations are TLC's
counterexamples. All invariants and all other action properties of passing runs are proved.

## 5. Not modelled

* *OAuth login.* The map of verifiers is shared by concurrent requests and a cleanup goroutine without a lock; what a
  race does to it is not defined, up to ending the process, which to the queue is its `Crash`. Whether a verifier is the
  right one is decided by GitHub. No other part of the backend uses the result of a login.
* *Queue status and deployment history.* Each answer is one row, or the rows of one statement, after a check that the
  app or deployment exists. Neither is ever deleted, so two reads have nothing to disagree about.
* *Users and sessions.* The queries are generated, and no handler calls them.
* *Frontend and infrastructure.* The one renders what the API returns, the other is Terraform.

Left out inside the parts that are modelled: log lines and the queries over them, texts, urls and paths, `claimed_by`,
timestamps nothing decides on, the poll interval, requests that are refused before they issue a statement, ownership
checks (every statement names its user, and apps do not change hands), and `runManualDeployment`, which only tests call.
Deployments and apps are never deleted, so the worker's "not found" branches stand for reads that failed.

## 6. Running

```
tlc -workers 2 -config DeployQueueFailures.cfg MCDeployQueue.tla     # likewise Sharing, Crash, LateRetry
tlc -workers 2 -config Releases.cfg MCReleases.tla                   # likewise ReleasesPointer
tlc -workers 2 -config Webhook.cfg MCWebhook.tla                     # likewise WebhookLost
tlc -workers 2 -config WorkerLifecycle.cfg MCWorkerLifecycle.tla
tlc -workers 2 -config AppSettings.cfg MCAppSettings.tla             # likewise AppSettingsLost
tlc -workers 2 -config StatusViews.cfg MCStatusViews.tla
for m in DeployQueue QueueOrder QueueOutcome StatusViews Releases Webhook WorkerLifecycle AppSettings; do
  tlapm ${m}Proofs.tla
done
```
