-------------------------- MODULE DeployQueueProofs --------------------------
(***************************************************************************)
(* Theorems about DeployQueue for every number of apps, deployments,       *)
(* attempts, goroutines, faults and crashes.                               *)
(*                                                                         *)
(* The argument rests on one fact about every attempt: as long as it has   *)
(* yet to mark its job, the job row says running and counts exactly this   *)
(* attempt.  The row is therefore a lock the attempt holds, the claim is   *)
(* the only way to get it, and marking the row the only way to release it. *)
(***************************************************************************)
EXTENDS DeployQueue, FiniteSetTheorems, TLAPS

USE AppOfAssumption, DeploymentsAssumption, MaxAttemptsAssumption

(* An attempt that holds its job is the one the row counts.                *)
HoldersOwnJob ==
  \A a \in Attempts :
    pc[a] \in Holding => jobs[a[1]].status = "running" /\ jobs[a[1]].attempts = a[2]

(* The unique index idx_deployment_jobs_app_running never has to fire.     *)
OneRunningJobPerApp ==
  \A d, e \in Deployments :
    /\ jobs[d].status = "running" /\ jobs[e].status = "running"
    /\ AppOf[d] = AppOf[e]
    => d = e

(* A retry is only under way when it leaves an attempt.                    *)
RetriesHaveAttempts ==
  \A a \in Attempts : pc[a] = "markRetry" => a[2] < MaxAttempts

(* A row that is not there yet counts nothing.                             *)
AbsentJobsAreFresh ==
  \A d \in Deployments : jobs[d].status = "none" => jobs[d].attempts = 0

IInv ==
  /\ TypeOK
  /\ HoldersOwnJob
  /\ OneRunningJobPerApp
  /\ RetriesHaveAttempts
  /\ WaitingJobsHaveAttempts
  /\ AbsentJobsAreFresh

-----------------------------------------------------------------------------
(* A pair is determined by its components.                                 *)
LEMMA AttemptPairs ==
  /\ \A a \in Attempts : a[1] \in Deployments /\ a[2] \in 1..MaxAttempts
  /\ \A a, b \in Attempts : a[1] = b[1] /\ a[2] = b[2] => a = b
  /\ \A d \in Deployments, n \in 1..MaxAttempts :
       /\ <<d, n>> \in Attempts
       /\ <<d, n>>[1] = d
       /\ <<d, n>>[2] = n
BY DEF Attempts

(* The next rowid is a number.                                             *)
LEMMA RowCount == Cardinality(JobRows) + 1 \in Nat
<1>1. IsFiniteSet(JobRows)
  BY FS_Subset, JobRows \subseteq Deployments DEF JobRows
<1> QED
  BY <1>1, FS_CardinalityType

LEMMA InitTypeOK == Init => TypeOK
BY DEF Init, TypeOK, StoreInit, StoreTypeOK, NoJob, DeploymentStatus, JobStatus,
       RequestStates, PcStates, Working

(* A step of a request keeps every type.                                   *)
LEMMA RequestTypeOK ==
  ASSUME TypeOK, NEW d \in Deployments, RequestNext(d)
  PROVE  TypeOK'
<1> USE DEF TypeOK, StoreTypeOK, DeploymentStatus, JobStatus, RequestStates, RequestStep
<1>1. CASE RequestCreate(d)
  BY <1>1 DEF RequestCreate, CreateDeployment
<1>2. CASE RequestEnqueue(d)
  BY <1>2, RowCount DEF RequestEnqueue, CreateDeploymentJob
<1>3. CASE RequestEnqueueFails(d)
  BY <1>3 DEF RequestEnqueueFails, Fault
<1>4. CASE RequestCompensate(d)
  BY <1>4 DEF RequestCompensate, Ignoring, Fault, UpdateDeploymentOutcome
<1>5. CASE RequestCancelled(d)
  BY <1>5 DEF RequestCancelled, Fault
<1> QED
  BY <1>1, <1>2, <1>3, <1>4, <1>5 DEF RequestNext

JobsType ==
  [Deployments -> [status : JobStatus, attempts : 0..MaxAttempts, nextAt : Nat, id : Nat]]

(* What a goroutine moves when it goes on keeps its type.                  *)
LEMMA GoTypeOK ==
  ASSUME TypeOK, NEW a \in Attempts, NEW from, NEW to \in PcStates, Go(a, from, to)
  PROVE  /\ pc' \in [Attempts -> PcStates]
         /\ UNCHANGED <<now, up, request, crashes>>
BY DEF TypeOK, Go

(* So does what its statements write, and the fault counter.               *)
LEMMA StatementTypeOK ==
  ASSUME TypeOK, NEW d \in Deployments
  PROVE  /\ Ignoring(MarkDeploymentJobFailed(d), jobs) => jobs' \in JobsType /\ faults' \in Nat
         /\ Ignoring(MarkDeploymentJobSucceeded(d), jobs) => jobs' \in JobsType /\ faults' \in Nat
         /\ \A t \in Nat :
              Ignoring(MarkDeploymentJobRetry(d, t), jobs) => jobs' \in JobsType /\ faults' \in Nat
         /\ \A s \in DeploymentStatus :
              /\ Ignoring(UpdateDeploymentOutcome(d, s), deployments)
                   => deployments' \in [Deployments -> DeploymentStatus] /\ faults' \in Nat
              /\ Ignoring(RecordAppDeploymentOutcome(d, s), health)
                   => health' \in [Apps -> [success : Nat, failure : Nat]] /\ faults' \in Nat
<1>j. /\ jobs \in JobsType /\ faults \in Nat /\ faults + 1 \in Nat
      /\ \A s \in {"failed", "succeeded"} : [jobs EXCEPT ![d].status = s] \in JobsType
  <2>1. jobs \in JobsType /\ faults \in Nat
    BY DEF TypeOK, StoreTypeOK, JobsType
  <2>2. \A s \in JobStatus : [jobs EXCEPT ![d].status = s] \in JobsType
    BY <2>1 DEF JobsType
  <2> QED BY <2>1, <2>2 DEF JobStatus
<1>1. Ignoring(MarkDeploymentJobFailed(d), jobs) => jobs' \in JobsType /\ faults' \in Nat
  BY <1>j, Zenon DEF Ignoring, Fault, MarkDeploymentJobFailed
<1>2. Ignoring(MarkDeploymentJobSucceeded(d), jobs) => jobs' \in JobsType /\ faults' \in Nat
  BY <1>j, Zenon DEF Ignoring, Fault, MarkDeploymentJobSucceeded
<1> USE DEF TypeOK, StoreTypeOK, Ignoring, Fault
<1>3. ASSUME NEW t \in Nat, Ignoring(MarkDeploymentJobRetry(d, t), jobs)
      PROVE  jobs' \in JobsType /\ faults' \in Nat
  BY <1>3 DEF MarkDeploymentJobRetry, JobsType, JobStatus
<1>4. ASSUME NEW s \in DeploymentStatus, Ignoring(UpdateDeploymentOutcome(d, s), deployments)
      PROVE  deployments' \in [Deployments -> DeploymentStatus] /\ faults' \in Nat
  BY <1>4 DEF UpdateDeploymentOutcome
<1>5. ASSUME NEW s \in DeploymentStatus, Ignoring(RecordAppDeploymentOutcome(d, s), health)
      PROVE  health' \in [Apps -> [success : Nat, failure : Nat]] /\ faults' \in Nat
  <2> DEFINE app == AppOf[d]
             Counters == [success : Nat, failure : Nat]
  <2>1. app \in Apps /\ health \in [Apps -> Counters]
    BY AppOfAssumption
  <2>2. /\ [health EXCEPT ![app].success = @ + 1] \in [Apps -> Counters]
        /\ [health EXCEPT ![app].failure = @ + 1] \in [Apps -> Counters]
    <3> HIDE DEF app
    <3> QED
      BY <2>1
  <2>3. health' \in [Apps -> Counters]
    <3>1. health' \in {health, [health EXCEPT ![app].success = @ + 1],
                              [health EXCEPT ![app].failure = @ + 1]}
      BY <1>5 DEF RecordAppDeploymentOutcome
    <3> QED
      BY <2>1, <2>2, <3>1
  <2> QED
    BY <1>5, <2>3
<1> QED
  BY <1>1, <1>2, <1>3, <1>4, <1>5

(* A step of an attempt keeps every type.                                  *)
LEMMA AttemptTypeOK ==
  ASSUME TypeOK, NEW a \in Attempts, AttemptNext(a)
  PROVE  TypeOK'
<1> DEFINE d == a[1]
<1>d. d \in Deployments /\ a[2] \in 1..MaxAttempts
  BY AttemptPairs
<1>s. {"queued", "running", "succeeded", "failed"} \subseteq DeploymentStatus
  BY DEF DeploymentStatus
<1>p. Working \cup {"done"} \subseteq PcStates
  BY DEF PcStates
<1>t. /\ TypeOK /\ StoreTypeOK
      /\ jobs \in JobsType
  BY DEF TypeOK, StoreTypeOK, JobsType
<1>q. ASSUME pc' \in [Attempts -> PcStates], UNCHANGED <<now, up, request, crashes>>,
             faults' \in Nat, retryAt' \in [Attempts -> Nat], jobs' \in JobsType,
             deployments' \in [Deployments -> DeploymentStatus],
             health' \in [Apps -> [success : Nat, failure : Nat]]
      PROVE  TypeOK'
  BY <1>q, <1>t DEF TypeOK, StoreTypeOK, JobsType
<1>1. CASE Load(a)
  BY <1>1, <1>d, <1>s, <1>p, <1>t, <1>q, GoTypeOK, StatementTypeOK
     DEF Load, Fault, Working, TypeOK, StoreTypeOK
<1>2. CASE DropOrphan(a)
  BY <1>2, <1>d, <1>s, <1>p, <1>t, <1>q, GoTypeOK, StatementTypeOK
     DEF DropOrphan, Fault, Working, TypeOK, StoreTypeOK
<1>3. CASE AbortJob(a)
  BY <1>3, <1>d, <1>s, <1>p, <1>t, <1>q, GoTypeOK, StatementTypeOK
     DEF AbortJob, Fault, Working, TypeOK, StoreTypeOK
<1>4. CASE AbortDeployment(a)
  BY <1>4, <1>d, <1>s, <1>p, <1>t, <1>q, GoTypeOK, StatementTypeOK
     DEF AbortDeployment, Fault, Working, TypeOK, StoreTypeOK
<1>5. CASE Begin(a)
  BY <1>5, <1>d, <1>s, <1>p, <1>t, <1>q, GoTypeOK, StatementTypeOK
     DEF Begin, Fault, Working, TypeOK, StoreTypeOK
<1>6. CASE ExecuteSucceeds(a)
  BY <1>6, <1>d, <1>s, <1>p, <1>t, <1>q, GoTypeOK, StatementTypeOK
     DEF ExecuteSucceeds, Fault, Working, TypeOK, StoreTypeOK
<1>7. ASSUME NEW retryable \in BOOLEAN, ExecuteFails(a, retryable)
      PROVE  TypeOK'
  <2>1. retryAt' \in [Attempts -> Nat]
    <3>1. CASE retryable /\ a[2] < MaxAttempts
      BY <1>7, <1>d, <1>t, <3>1, RetryDelayAssumption DEF ExecuteFails, TypeOK, StoreTypeOK
    <3>2. CASE ~(retryable /\ a[2] < MaxAttempts)
      BY <1>7, <1>t, <3>2 DEF ExecuteFails, TypeOK
    <3> QED
      BY <3>1, <3>2
  <2>2. PICK to \in {"markRetry", "markFailed"} : Go(a, "execute", to)
    BY <1>7 DEF ExecuteFails
  <2>3. pc' \in [Attempts -> PcStates] /\ UNCHANGED <<now, up, request, crashes>>
    BY <2>2, <1>p, GoTypeOK DEF Working
  <2> QED
    BY <1>7, <1>t, <1>q, <2>1, <2>3 DEF ExecuteFails, TypeOK, StoreTypeOK
<1>8. CASE MarkSucceeded(a)
  BY <1>8, <1>d, <1>s, <1>p, <1>t, <1>q, GoTypeOK, StatementTypeOK
     DEF MarkSucceeded, Fault, Working, TypeOK, StoreTypeOK
<1>9. CASE DeploymentSucceeded(a)
  BY <1>9, <1>d, <1>s, <1>p, <1>t, <1>q, GoTypeOK, StatementTypeOK
     DEF DeploymentSucceeded, Fault, Working, TypeOK, StoreTypeOK
<1>10. CASE RecordSucceeded(a)
  BY <1>10, <1>d, <1>s, <1>p, <1>t, <1>q, GoTypeOK, StatementTypeOK
     DEF RecordSucceeded, Fault, Working, TypeOK, StoreTypeOK
<1>11. CASE MarkRetry(a)
  BY <1>11, <1>d, <1>s, <1>p, <1>t, <1>q, GoTypeOK, StatementTypeOK
     DEF MarkRetry, Fault, Working, TypeOK, StoreTypeOK
<1>12. CASE DeploymentRetry(a)
  BY <1>12, <1>d, <1>s, <1>p, <1>t, <1>q, GoTypeOK, StatementTypeOK
     DEF DeploymentRetry, Fault, Working, TypeOK, StoreTypeOK
<1>13. CASE MarkFailed(a)
  BY <1>13, <1>d, <1>s, <1>p, <1>t, <1>q, GoTypeOK, StatementTypeOK
     DEF MarkFailed, Fault, Working, TypeOK, StoreTypeOK
<1>14. CASE DeploymentFailed(a)
  BY <1>14, <1>d, <1>s, <1>p, <1>t, <1>q, GoTypeOK, StatementTypeOK
     DEF DeploymentFailed, Fault, Working, TypeOK, StoreTypeOK
<1>15. CASE RecordFailed(a)
  BY <1>15, <1>d, <1>s, <1>p, <1>t, <1>q, GoTypeOK, StatementTypeOK
     DEF RecordFailed, Fault, Working, TypeOK, StoreTypeOK
<1> QED
  BY <1>1, <1>2, <1>3, <1>4, <1>5, <1>6, <1>7, <1>8, <1>9, <1>10, <1>11, <1>12,
     <1>13, <1>14, <1>15 DEF AttemptNext

(* So does every other step.                                               *)
LEMMA StepTypeOK == TypeOK /\ [Next]_vars => TypeOK'
<1> SUFFICES ASSUME TypeOK, [Next]_vars PROVE TypeOK'
  OBVIOUS
<1> USE DEF TypeOK, StoreTypeOK
<1>1. ASSUME NEW d \in Deployments, RequestNext(d) PROVE TypeOK'
  BY <1>1, RequestTypeOK
<1>2. ASSUME NEW d \in Deployments, Claim(d) PROVE TypeOK'
  <2>1. jobs' \in [Deployments -> [status : JobStatus, attempts : 0..MaxAttempts,
                                   nextAt : Nat, id : Nat]]
    <3>1. jobs[d].attempts < MaxAttempts
      BY <1>2 DEF Claim, ClaimNextRunnableDeploymentJob, Runnable
    <3>2. jobs' = [jobs EXCEPT ![d].status = "running", ![d].attempts = @ + 1]
      BY <1>2, Zenon DEF Claim, ClaimNextRunnableDeploymentJob
    <3>3. jobs[d].attempts + 1 \in 0..MaxAttempts
      BY <3>1, MaxAttemptsAssumption
    <3> QED BY <3>2, <3>3 DEF JobStatus
  <2>2. pc' \in [Attempts -> PcStates]
    BY <1>2 DEF Claim, PcStates
  <2> QED
    BY <1>2, <2>1, <2>2 DEF Claim
<1>3. ASSUME NEW a \in Attempts, Spawn(a) PROVE TypeOK'
  BY <1>3 DEF Spawn, storeVars, PcStates, Working
<1>4. ASSUME NEW a \in Attempts, AttemptNext(a) PROVE TypeOK'
  BY <1>4, AttemptTypeOK
<1>5. CASE Tick
  BY <1>5 DEF Tick, procVars
<1>6. CASE Crash
  <2>1. request' \in [Deployments -> RequestStates]
    <3> DEFINE after(d) == IF request[d] \in {"created", "failing"} THEN "lost" ELSE request[d]
    <3>1. \A d \in Deployments : after(d) \in RequestStates
      BY DEF RequestStates
    <3>2. request' = [d \in Deployments |-> after(d)]
      BY <1>6 DEF Crash
    <3> QED
      BY <3>1, <3>2
  <2>2. pc' \in [Attempts -> PcStates]
    BY <1>6 DEF Crash, PcStates
  <2>3. retryAt' \in [Attempts -> Nat]
    BY <1>6 DEF Crash
  <2>4. StoreTypeOK'
    BY <1>6 DEF Crash, storeVars
  <2>5. faults' \in Nat /\ crashes' \in Nat
    <3>1. faults' = faults /\ crashes' = crashes + 1
      BY <1>6, Zenon DEF Crash
    <3> QED
      BY <3>1
  <2>6. up' \in BOOLEAN
    BY <1>6, Zenon DEF Crash
  <2> QED
    BY <2>1, <2>2, <2>3, <2>4, <2>5, <2>6
<1>7. CASE Restart
  BY <1>7 DEF Restart, storeVars
<1>8. CASE UNCHANGED vars
  BY <1>8 DEF vars, storeVars, procVars
<1> QED
  BY <1>1, <1>2, <1>3, <1>4, <1>5, <1>6, <1>7, <1>8 DEF Next

(* Every reachable state is well typed; in particular no job is ever tried *)
(* more often than MaxAttempts, although the claim increments the count    *)
(* without a bound of its own.                                             *)
THEOREM TypeCorrect == Spec => []TypeOK
BY InitTypeOK, StepTypeOK, PTL DEF Spec

-----------------------------------------------------------------------------
(* What steps do to the job rows and to the goroutines.  Every property    *)
(* below is about these two only, so the steps fall into six kinds.        *)

(* An attempt goes on, and writes no job row or fails to.                  *)
Walks(a) ==
  /\ jobs' = jobs
  /\ \E to \in PcStates :
       /\ pc' = [pc EXCEPT ![a] = to]
       /\ to \in Holding => pc[a] \in Holding
       /\ to = "markRetry" => a[2] < MaxAttempts

(* An attempt gives its job an outcome.                                    *)
Ends(a) ==
  /\ pc[a] \in Holding
  /\ \E to \in PcStates \ Holding : pc' = [pc EXCEPT ![a] = to]
  /\ \E s \in Terminal : jobs' = [jobs EXCEPT ![a[1]].status = s]

(* An attempt puts its job back.                                           *)
Retries(a) ==
  /\ pc[a] = "markRetry"
  /\ pc' = [pc EXCEPT ![a] = "depRetry"]
  /\ \E t \in Nat :
       jobs' = [jobs EXCEPT ![a[1]].status = "retrying", ![a[1]].nextAt = t]

(* The loop claims the first of the jobs that can run.                     *)
Claims(d) ==
  /\ jobs[d].status \in {"queued", "retrying"}
  /\ jobs[d].attempts < MaxAttempts
  /\ AppIsFree(d)
  /\ \A e \in Deployments : Runnable(e) => Precedes(d, e)
  /\ jobs' = [jobs EXCEPT ![d].status = "running", ![d].attempts = @ + 1]
  /\ pc' = [pc EXCEPT ![<<d, jobs[d].attempts + 1>>] = "claimed"]

(* A handler inserts a job.                                                *)
Posts(d) ==
  /\ jobs[d].status = "none"
  /\ jobs' = [jobs EXCEPT ![d] = [status |-> "queued", attempts |-> 0, nextAt |-> now,
                                  id |-> Cardinality(JobRows) + 1]]
  /\ pc' = pc

(* Nothing happens to job rows, and goroutines can only die.               *)
Idles ==
  /\ jobs' = jobs
  /\ \A a \in Attempts : pc'[a] \in {pc[a], "lost"}

LEMMA AttemptEffect ==
  ASSUME TypeOK, NEW a \in Attempts, AttemptNext(a)
  PROVE  Walks(a) \/ Ends(a) \/ Retries(a)
<1>w. ASSUME NEW from, NEW to \in PcStates, Go(a, from, to), jobs' = jobs,
             to \in Holding => from \in Holding, to # "markRetry"
      PROVE  Walks(a)
  BY <1>w, Zenon DEF Go, Walks
<1>e. ASSUME NEW from \in Holding, NEW to \in PcStates \ Holding, Go(a, from, to),
             NEW s \in Terminal,
             jobs' = jobs \/ jobs' = [jobs EXCEPT ![a[1]].status = s]
      PROVE  Walks(a) \/ Ends(a)
  <2>1. pc[a] \in Holding /\ pc' = [pc EXCEPT ![a] = to]
    BY <1>e, Zenon DEF Go
  <2>2. to # "markRetry"
    BY DEF Holding
  <2>3. CASE jobs' = jobs
    BY <2>1, <2>2, <2>3, Zenon DEF Walks
  <2>4. CASE jobs' = [jobs EXCEPT ![a[1]].status = s]
    BY <2>1, <2>4, Zenon DEF Ends
  <2> QED
    BY <1>e, <2>3, <2>4
<1> USE DEF PcStates, Working, Holding, Terminal
<1>1. CASE Load(a)
  BY <1>1, <1>w DEF Load
<1>2. CASE DropOrphan(a)
  BY <1>2, <1>e DEF DropOrphan, Ignoring, Fault, MarkDeploymentJobFailed
<1>3. CASE AbortJob(a)
  BY <1>3, <1>e DEF AbortJob, Ignoring, Fault, MarkDeploymentJobFailed
<1>4. CASE AbortDeployment(a)
  BY <1>4, <1>w DEF AbortDeployment
<1>5. CASE Begin(a)
  BY <1>5, <1>w DEF Begin
<1>6. CASE ExecuteSucceeds(a)
  BY <1>6, <1>w DEF ExecuteSucceeds
<1>7. CASE MarkSucceeded(a)
  BY <1>7, <1>e DEF MarkSucceeded, Ignoring, Fault, MarkDeploymentJobSucceeded
<1>8. CASE DeploymentSucceeded(a)
  BY <1>8, <1>w DEF DeploymentSucceeded
<1>9. CASE RecordSucceeded(a)
  BY <1>9, <1>w DEF RecordSucceeded
<1>10. CASE DeploymentRetry(a)
  BY <1>10, <1>w DEF DeploymentRetry
<1>11. CASE MarkFailed(a)
  BY <1>11, <1>e DEF MarkFailed, Ignoring, Fault, MarkDeploymentJobFailed
<1>12. CASE DeploymentFailed(a)
  BY <1>12, <1>w DEF DeploymentFailed
<1>13. CASE RecordFailed(a)
  BY <1>13, <1>w DEF RecordFailed
<1>14. ASSUME NEW retryable \in BOOLEAN, ExecuteFails(a, retryable)
      PROVE  Walks(a)
  <2>1. CASE retryable /\ a[2] < MaxAttempts
    BY <1>14, <2>1 DEF ExecuteFails, Go, Walks
  <2>2. CASE ~(retryable /\ a[2] < MaxAttempts)
    BY <1>14, <2>2, <1>w DEF ExecuteFails
  <2> QED
    BY <2>1, <2>2
<1>15. CASE MarkRetry(a)
  <2>1. CASE jobs' = jobs
    BY <1>15, <2>1, <1>w DEF MarkRetry
  <2>2. CASE MarkDeploymentJobRetry(a[1], retryAt[a])
    BY <1>15, <2>2 DEF MarkRetry, MarkDeploymentJobRetry, Go, Retries, TypeOK
  <2> QED
    BY <1>15, <2>1, <2>2 DEF MarkRetry, Ignoring
<1> QED
  BY <1>1, <1>2, <1>3, <1>4, <1>5, <1>6, <1>7, <1>8, <1>9, <1>10, <1>11, <1>12, <1>13, <1>14, <1>15 DEF AttemptNext

LEMMA StepEffect ==
  ASSUME TypeOK, [Next]_vars
  PROVE  \/ \E a \in Attempts : Walks(a) \/ Ends(a) \/ Retries(a)
         \/ \E d \in Deployments : Claims(d) \/ Posts(d)
         \/ Idles
<1>1. ASSUME NEW d \in Deployments, RequestNext(d) PROVE Posts(d) \/ Idles
  <2>1. CASE RequestEnqueue(d)
    BY <1>1, <2>1, RowCount
       DEF RequestEnqueue, RequestStep, CreateDeploymentJob, JobRows, Posts, TypeOK, StoreTypeOK
  <2>2. CASE jobs' = jobs /\ pc' = pc
    BY <2>2 DEF Idles
  <2> QED
    BY <1>1, <2>1, <2>2
       DEF RequestNext, RequestCreate, RequestEnqueueFails, RequestCompensate,
           RequestCancelled, RequestStep
<1>2. ASSUME NEW d \in Deployments, Claim(d) PROVE Claims(d)
  BY <1>2 DEF Claim, ClaimNextRunnableDeploymentJob, Runnable, Claims
<1>3. ASSUME NEW a \in Attempts, Spawn(a) PROVE Walks(a)
  BY <1>3 DEF Spawn, storeVars, Walks, PcStates, Working, Holding
<1>4. ASSUME NEW a \in Attempts, AttemptNext(a) PROVE Walks(a) \/ Ends(a) \/ Retries(a)
  BY <1>4, AttemptEffect
<1>5. CASE Tick
  BY <1>5 DEF Tick, procVars, Idles
<1>6. CASE Crash
  BY <1>6 DEF Crash, storeVars, Idles
<1>7. CASE Restart
  BY <1>7 DEF Restart, storeVars, Idles
<1>8. CASE UNCHANGED vars
  BY <1>8 DEF vars, storeVars, procVars, Idles
<1> QED
  BY <1>1, <1>2, <1>3, <1>4, <1>5, <1>6, <1>7, <1>8 DEF Next

-----------------------------------------------------------------------------
(* The invariant                                                           *)

LEMMA InitIInv == Init => IInv
BY InitTypeOK DEF Init, IInv, StoreInit, NoJob, HoldersOwnJob, OneRunningJobPerApp,
   RetriesHaveAttempts, WaitingJobsHaveAttempts, AbsentJobsAreFresh, Holding

LEMMA StepIInv == IInv /\ [Next]_vars => IInv'
<1> SUFFICES ASSUME IInv, [Next]_vars PROVE IInv'
  OBVIOUS
<1>0. TypeOK /\ TypeOK'
  BY StepTypeOK DEF IInv
<1>j. /\ jobs \in JobsType /\ jobs' \in JobsType
      /\ pc \in [Attempts -> PcStates]
  BY <1>0 DEF TypeOK, StoreTypeOK, JobsType
<1>h. /\ HoldersOwnJob /\ OneRunningJobPerApp /\ RetriesHaveAttempts
      /\ WaitingJobsHaveAttempts /\ AbsentJobsAreFresh
  BY DEF IInv
<1> USE AttemptPairs, <1>j DEF JobsType
<1>1. ASSUME NEW a \in Attempts, Walks(a) PROVE IInv'
  <2>1. HoldersOwnJob'
    BY <1>1, <1>h DEF Walks, HoldersOwnJob
  <2>2. RetriesHaveAttempts'
    BY <1>1, <1>h DEF Walks, RetriesHaveAttempts
  <2>3. OneRunningJobPerApp' /\ WaitingJobsHaveAttempts' /\ AbsentJobsAreFresh'
    BY <1>1, <1>h DEF Walks, OneRunningJobPerApp, WaitingJobsHaveAttempts, AbsentJobsAreFresh
  <2> QED
    BY <1>0, <2>1, <2>2, <2>3 DEF IInv
<1>2. ASSUME NEW a \in Attempts, Ends(a) PROVE IInv'
  <2>1. PICK s \in Terminal : jobs' = [jobs EXCEPT ![a[1]].status = s]
    BY <1>2 DEF Ends
  <2>2. PICK to \in PcStates \ Holding : pc' = [pc EXCEPT ![a] = to]
    BY <1>2 DEF Ends
  <2>3. jobs[a[1]].status = "running" /\ jobs[a[1]].attempts = a[2]
    BY <1>2, <1>h DEF Ends, HoldersOwnJob
  <2>4. HoldersOwnJob'
    <3> SUFFICES ASSUME NEW b \in Attempts, pc'[b] \in Holding
                 PROVE  jobs'[b[1]].status = "running" /\ jobs'[b[1]].attempts = b[2]
      BY DEF HoldersOwnJob
    <3>1. b # a /\ pc[b] \in Holding
      BY <2>2
    <3>2. b[1] # a[1]
      BY <2>3, <3>1, <1>h DEF HoldersOwnJob
    <3> QED
      BY <2>1, <3>1, <3>2, <1>h DEF HoldersOwnJob
  <2>5. RetriesHaveAttempts'
    BY <2>2, <1>h DEF RetriesHaveAttempts, Holding
  <2>6. OneRunningJobPerApp' /\ WaitingJobsHaveAttempts' /\ AbsentJobsAreFresh'
    BY <2>1, <1>h DEF OneRunningJobPerApp, WaitingJobsHaveAttempts, AbsentJobsAreFresh, Terminal
  <2> QED
    BY <1>0, <2>4, <2>5, <2>6 DEF IInv
<1>3. ASSUME NEW a \in Attempts, Retries(a) PROVE IInv'
  <2>1. PICK t \in Nat :
          jobs' = [jobs EXCEPT ![a[1]].status = "retrying", ![a[1]].nextAt = t]
    BY <1>3 DEF Retries
  <2>2. pc[a] = "markRetry" /\ pc' = [pc EXCEPT ![a] = "depRetry"]
    BY <1>3 DEF Retries
  <2>3. /\ jobs[a[1]].status = "running" /\ jobs[a[1]].attempts = a[2]
        /\ a[2] < MaxAttempts
    BY <2>2, <1>h DEF HoldersOwnJob, RetriesHaveAttempts, Holding
  <2>4. HoldersOwnJob'
    <3> SUFFICES ASSUME NEW b \in Attempts, pc'[b] \in Holding
                 PROVE  jobs'[b[1]].status = "running" /\ jobs'[b[1]].attempts = b[2]
      BY DEF HoldersOwnJob
    <3>1. b # a /\ pc[b] \in Holding
      BY <2>2 DEF Holding
    <3>2. b[1] # a[1]
      BY <2>3, <3>1, <1>h DEF HoldersOwnJob
    <3> QED
      BY <2>1, <3>1, <3>2, <1>h DEF HoldersOwnJob
  <2>5. RetriesHaveAttempts'
    BY <2>2, <1>h DEF RetriesHaveAttempts
  <2>6. OneRunningJobPerApp' /\ AbsentJobsAreFresh'
    BY <2>1, <1>h DEF OneRunningJobPerApp, AbsentJobsAreFresh
  <2>7. WaitingJobsHaveAttempts'
    BY <2>1, <2>3, <1>h DEF WaitingJobsHaveAttempts
  <2> QED
    BY <1>0, <2>4, <2>5, <2>6, <2>7 DEF IInv
<1>4. ASSUME NEW d \in Deployments, Claims(d) PROVE IInv'
  <2> DEFINE n == jobs[d].attempts + 1
             c == <<d, n>>
  <2>1. /\ jobs[d].status \in {"queued", "retrying"} /\ jobs[d].attempts < MaxAttempts
        /\ AppIsFree(d)
        /\ jobs' = [jobs EXCEPT ![d].status = "running", ![d].attempts = @ + 1]
        /\ pc' = [pc EXCEPT ![c] = "claimed"]
    BY <1>4 DEF Claims
  <2>2. n \in 1..MaxAttempts /\ c \in Attempts /\ c[1] = d /\ c[2] = n
    BY <2>1, MaxAttemptsAssumption
  <2>3. jobs'[d].status = "running" /\ jobs'[d].attempts = n
    BY <2>1
  <2>4. \A e \in Deployments : e # d => jobs'[e] = jobs[e]
    BY <2>1
  <2> HIDE DEF n, c
  <2>5. HoldersOwnJob'
    <3> SUFFICES ASSUME NEW b \in Attempts, pc'[b] \in Holding
                 PROVE  jobs'[b[1]].status = "running" /\ jobs'[b[1]].attempts = b[2]
      BY DEF HoldersOwnJob
    <3>1. CASE b = c
      BY <2>2, <2>3, <3>1
    <3>2. CASE b # c
      <4>1. jobs[b[1]].status = "running" /\ jobs[b[1]].attempts = b[2]
        BY <2>1, <2>2, <3>2, <1>h DEF HoldersOwnJob
      <4> QED
        BY <2>1, <2>4, <4>1
    <3> QED
      BY <3>1, <3>2
  <2>6. RetriesHaveAttempts'
    BY <2>1, <2>2, <1>h DEF RetriesHaveAttempts
  <2>7. OneRunningJobPerApp'
    BY <2>1, <2>3, <2>4, <1>h DEF OneRunningJobPerApp, AppIsFree
  <2>8. WaitingJobsHaveAttempts' /\ AbsentJobsAreFresh'
    BY <2>3, <2>4, <1>h DEF WaitingJobsHaveAttempts, AbsentJobsAreFresh
  <2> QED
    BY <1>0, <2>5, <2>6, <2>7, <2>8 DEF IInv
<1>5. ASSUME NEW d \in Deployments, Posts(d) PROVE IInv'
  <2>1. /\ jobs[d].status = "none" /\ pc' = pc
        /\ jobs'[d].status = "queued" /\ jobs'[d].attempts = 0
        /\ \A e \in Deployments : e # d => jobs'[e] = jobs[e]
    BY <1>5 DEF Posts
  <2>2. HoldersOwnJob' /\ RetriesHaveAttempts'
    BY <2>1, <1>h DEF HoldersOwnJob, RetriesHaveAttempts
  <2>3. OneRunningJobPerApp'
    BY <2>1, <1>h DEF OneRunningJobPerApp
  <2>4. WaitingJobsHaveAttempts' /\ AbsentJobsAreFresh'
    BY <2>1, <1>h, MaxAttemptsAssumption DEF WaitingJobsHaveAttempts, AbsentJobsAreFresh
  <2> QED
    BY <1>0, <2>2, <2>3, <2>4 DEF IInv
<1>6. CASE Idles
  <2>1. HoldersOwnJob' /\ RetriesHaveAttempts'
    BY <1>6, <1>h DEF Idles, HoldersOwnJob, RetriesHaveAttempts, Holding
  <2>2. OneRunningJobPerApp' /\ WaitingJobsHaveAttempts' /\ AbsentJobsAreFresh'
    BY <1>6, <1>h DEF Idles, OneRunningJobPerApp, WaitingJobsHaveAttempts, AbsentJobsAreFresh
  <2> QED
    BY <1>0, <2>1, <2>2 DEF IInv
<1> QED
  BY <1>0, <1>1, <1>2, <1>3, <1>4, <1>5, <1>6, StepEffect

(* In every reachable state the job rows are locks, each held by the one   *)
(* attempt the row counts.                                                 *)
THEOREM Invariant == Spec => []IInv
BY InitIInv, StepIInv, PTL DEF Spec

-----------------------------------------------------------------------------
(* What follows from it                                                    *)

(* Two attempts of one app never execute at the same time.                 *)
THEOREM Exclusion == Spec => []OneAttemptPerApp
<1>1. IInv => OneAttemptPerApp
  BY AttemptPairs DEF IInv, HoldersOwnJob, OneRunningJobPerApp, OneAttemptPerApp
<1> QED
  BY <1>1, Invariant, PTL

(* No job waits that no claim would ever take.                             *)
THEOREM NoJobIsParked == Spec => []WaitingJobsHaveAttempts
<1>1. IInv => WaitingJobsHaveAttempts
  BY DEF IInv
<1> QED
  BY <1>1, Invariant, PTL

(* A row with an outcome is written by no step.                            *)
LEMMA SettledRowStays ==
  ASSUME IInv, [Next]_vars, NEW d \in Deployments, jobs[d].status \in Terminal
  PROVE  jobs'[d] = jobs[d]
<1>0. TypeOK /\ jobs \in JobsType
  BY DEF IInv, TypeOK, StoreTypeOK, JobsType
<1>1. ASSUME NEW a \in Attempts, Ends(a) \/ Retries(a) PROVE jobs'[d] = jobs[d]
  <2>1. jobs[a[1]].status = "running"
    BY <1>1 DEF IInv, HoldersOwnJob, Ends, Retries, Holding
  <2>2. a[1] # d
    BY <2>1 DEF Terminal
  <2> QED
    BY <1>0, <1>1, <2>2 DEF Ends, Retries, JobsType
<1>2. ASSUME NEW e \in Deployments, Claims(e) \/ Posts(e) PROVE jobs'[d] = jobs[d]
  BY <1>0, <1>2 DEF Claims, Posts, Terminal, JobsType
<1>3. ASSUME NEW a \in Attempts, Walks(a) PROVE jobs'[d] = jobs[d]
  BY <1>3 DEF Walks
<1>4. CASE Idles
  BY <1>4 DEF Idles
<1> QED
  BY <1>0, <1>1, <1>2, <1>3, <1>4, StepEffect

(* The row of a job with an outcome is never written again.                *)
THEOREM Finality == Spec => OutcomeIsFinal
<1>1. IInv /\ [Next]_vars =>
        [\A d \in Deployments : jobs[d].status \in Terminal => jobs'[d] = jobs[d]]_vars
  BY SettledRowStays
<1> QED
  BY <1>1, Invariant, PTL DEF Spec, OutcomeIsFinal

-----------------------------------------------------------------------------
(* The queue implements the board                                          *)

(* A step that changes one row changes one entry of the board.             *)
LEMMA OneEntry ==
  ASSUME NEW d \in Deployments, NEW s,
         \A e \in Deployments \ {d} : jobs'[e] = jobs[e],
         BoardStatus(jobs'[d].status) = s, jobs'[d].attempts = jobs[d].attempts
  PROVE  boardView' = [boardView EXCEPT ![d].status = s]
BY DEF boardView

LEMMA BoardStep == IInv /\ [Next]_vars => [Board!BoardNext]_boardView
<1> SUFFICES ASSUME IInv, [Next]_vars
             PROVE  Board!BoardNext \/ boardView' = boardView
  OBVIOUS
<1>j. jobs \in JobsType
  BY DEF IInv, TypeOK, StoreTypeOK, JobsType
<1>b. \A d \in Deployments : /\ boardView[d].status = BoardStatus(jobs[d].status)
                             /\ boardView[d].tries = jobs[d].attempts
  BY DEF boardView
<1>1. ASSUME NEW a \in Attempts, Walks(a) PROVE boardView' = boardView
  BY <1>1 DEF Walks, boardView
<1>2. ASSUME NEW a \in Attempts, Ends(a) PROVE Board!BoardNext
  <2> DEFINE d == a[1]
  <2>1. PICK s \in Terminal : jobs' = [jobs EXCEPT ![d].status = s]
    BY <1>2 DEF Ends
  <2>2. d \in Deployments /\ jobs[d].status = "running"
    BY <1>2, AttemptPairs DEF Ends, IInv, HoldersOwnJob
  <2> HIDE DEF d
  <2>3. jobs'[d].status = s /\ BoardStatus(s) = s
    BY <2>1, <2>2, <1>j DEF Terminal, BoardStatus, JobsType
  <2>4. boardView' = [boardView EXCEPT ![d].status = s]
    BY <2>1, <2>2, <2>3, <1>j, OneEntry DEF JobsType
  <2>5. Board!Finish(d, s)
    BY <2>2, <2>4, <1>b DEF Board!Finish, BoardStatus
  <2> QED
    BY <2>2, <2>5 DEF Board!BoardNext, Terminal
<1>3. ASSUME NEW a \in Attempts, Retries(a) PROVE Board!BoardNext
  <2> DEFINE d == a[1]
  <2>1. PICK t \in Nat : jobs' = [jobs EXCEPT ![d].status = "retrying", ![d].nextAt = t]
    BY <1>3 DEF Retries
  <2>2. /\ d \in Deployments /\ jobs[d].status = "running"
        /\ jobs[d].attempts < MaxAttempts
    BY <1>3, AttemptPairs DEF Retries, IInv, HoldersOwnJob, RetriesHaveAttempts, Holding
  <2> HIDE DEF d
  <2>3. jobs'[d].status = "retrying" /\ jobs'[d].attempts = jobs[d].attempts
    BY <2>1, <2>2, <1>j DEF JobsType
  <2>4. boardView' = [boardView EXCEPT ![d].status = "waiting"]
    <3>1. BoardStatus(jobs'[d].status) = "waiting"
      BY <2>3 DEF BoardStatus
    <3>2. \A e \in Deployments \ {d} : jobs'[e] = jobs[e]
      BY <2>1, <1>j DEF JobsType
    <3> QED
      BY <2>2, <2>3, <3>1, <3>2, OneEntry
  <2>5. Board!GiveBack(d)
    BY <2>2, <2>4, <1>b DEF Board!GiveBack, BoardStatus
  <2> QED
    BY <2>2, <2>5 DEF Board!BoardNext
<1>4. ASSUME NEW d \in Deployments, Claims(d) PROVE Board!BoardNext
  <2>1. /\ jobs[d].status \in {"queued", "retrying"} /\ jobs[d].attempts < MaxAttempts
        /\ AppIsFree(d)
        /\ jobs'[d].status = "running" /\ jobs'[d].attempts = jobs[d].attempts + 1
        /\ \A e \in Deployments \ {d} : jobs'[e] = jobs[e]
    BY <1>4, <1>j DEF Claims, JobsType
  <2>2. boardView' = [boardView EXCEPT ![d] = [status |-> "taken", tries |-> boardView[d].tries + 1]]
    BY <2>1 DEF boardView, BoardStatus
  <2>3. boardView[d].status = "waiting" /\ boardView[d].tries < MaxAttempts
    BY <2>1, <1>b DEF BoardStatus
  <2>4. Board!GroupIsFree(d)
    <3> SUFFICES ASSUME NEW e \in Deployments \ {d}, AppOf[e] = AppOf[d]
                 PROVE  boardView[e].status # "taken"
      BY DEF Board!GroupIsFree
    <3>1. jobs[e].status # "running" /\ jobs[e].status \in JobStatus
      BY <2>1, <1>j DEF AppIsFree, JobsType
    <3> QED
      BY <3>1, <1>b DEF BoardStatus, JobStatus
  <2>5. Board!Take(d)
    BY <2>2, <2>3, <2>4 DEF Board!Take
  <2> QED
    BY <2>5 DEF Board!BoardNext
<1>5. ASSUME NEW d \in Deployments, Posts(d) PROVE Board!BoardNext
  <2>1. /\ jobs[d].status = "none" /\ jobs[d].attempts = 0
        /\ jobs'[d].status = "queued" /\ jobs'[d].attempts = 0
        /\ \A e \in Deployments \ {d} : jobs'[e] = jobs[e]
    BY <1>5, <1>j DEF Posts, JobsType, IInv, AbsentJobsAreFresh
  <2>2. boardView' = [boardView EXCEPT ![d].status = "waiting"]
    <3>1. BoardStatus(jobs'[d].status) = "waiting"
      BY <2>1 DEF BoardStatus
    <3> QED
      BY <2>1, <3>1, OneEntry
  <2>3. Board!Submit(d)
    BY <2>1, <2>2, <1>b DEF Board!Submit, BoardStatus
  <2> QED
    BY <2>3 DEF Board!BoardNext
<1>6. CASE Idles
  BY <1>6 DEF Idles, boardView
<1> QED
  BY <1>1, <1>2, <1>3, <1>4, <1>5, <1>6, StepEffect DEF IInv

(* Every behaviour of the queue, with its retries, failing statements and  *)
(* crashes, is one of the abstract board: this is what a client may rely   *)
(* on without knowing the worker.                                          *)
THEOREM Refinement == Spec => ImplementsBoard
<1>1. Init => Board!BoardInit
  BY DEF Init, StoreInit, NoJob, Board!BoardInit, boardView, BoardStatus
<1> QED
  BY <1>1, BoardStep, Invariant, PTL DEF Spec, ImplementsBoard, Board!BoardSpec

=============================================================================
