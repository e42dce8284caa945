------------------------- MODULE QueueOutcomeProofs -------------------------
(***************************************************************************)
(* Theorems about what DeployQueue tells of the jobs' outcomes: the status *)
(* of the deployments and the health counters of the apps.                 *)
(*                                                                         *)
(* An attempt writes both only after it has marked its job, when the row   *)
(* is no longer its lock.  What protects these writes is that the row then *)
(* has an outcome (or is stuck as running), which nobody changes: no other *)
(* attempt of the job can start any more.                                  *)
(***************************************************************************)
EXTENDS QueueOrderProofs

USE AppOfAssumption, DeploymentsAssumption, MaxAttemptsAssumption

(* The attempts that have marked their job and not yet done the rest.      *)
Succeeding == {"depSucceeded", "recordSucceeded"}
Failing == {"depFailed", "recordFailed"}
Finishing == Succeeding \cup Failing

(* Nobody can claim the job of such an attempt again.                      *)
FinishersWereLast ==
  \A a \in Attempts :
    pc[a] \in Finishing => /\ jobs[a[1]].status \in {"running"} \cup Terminal
                           /\ jobs[a[1]].attempts = a[2]

(* A job is counted when it has had an attempt that was its last, and that *)
(* attempt is through.                                                     *)
Busy(d) == \E a \in Attempts : a[1] = d /\ pc[a] \in Holding \cup Finishing

Spent(app) ==
  {d \in Deployments : /\ AppOf[d] = app
                       /\ jobs[d].attempts > 0
                       /\ jobs[d].status \notin {"queued", "retrying"}
                       /\ ~Busy(d)}

CountsAreCovered ==
  \A app \in Apps : health[app].success + health[app].failure <= Cardinality(Spent(app))

CountInv == IInv /\ FinishersWereLast /\ CountsAreCovered

-----------------------------------------------------------------------------
(* The program of an attempt.                                              *)
LEMMA Program ==
  ASSUME NEW a \in Attempts, AttemptNext(a)
  PROVE  \/ Go(a, "load", "begin") \/ Go(a, "load", "orphan") \/ Go(a, "load", "abort")
         \/ Go(a, "orphan", "done") \/ Go(a, "abort", "abortDep") \/ Go(a, "abortDep", "done")
         \/ Go(a, "begin", "execute") \/ Go(a, "execute", "markSucceeded")
         \/ Go(a, "execute", "markRetry") \/ Go(a, "execute", "markFailed")
         \/ Go(a, "markSucceeded", "depSucceeded") \/ Go(a, "depSucceeded", "recordSucceeded")
         \/ Go(a, "recordSucceeded", "done") \/ Go(a, "markRetry", "depRetry")
         \/ Go(a, "depRetry", "done") \/ Go(a, "markFailed", "depFailed")
         \/ Go(a, "depFailed", "recordFailed") \/ Go(a, "recordFailed", "done")
<1>1. ASSUME NEW retryable \in BOOLEAN, ExecuteFails(a, retryable)
      PROVE  Go(a, "execute", "markRetry") \/ Go(a, "execute", "markFailed")
  BY <1>1 DEF ExecuteFails
<1> QED BY <1>1, Zenon DEF AttemptNext, Load, DropOrphan, AbortJob, AbortDeployment, Begin,
           ExecuteSucceeds, MarkSucceeded, DeploymentSucceeded, RecordSucceeded, MarkRetry,
           DeploymentRetry, MarkFailed, DeploymentFailed, RecordFailed

(* Only a claim makes a job busy, and only an attempt that held its job    *)
(* finishes it.                                                            *)
LEMMA PcChange ==
  ASSUME TypeOK, [Next]_vars
  PROVE  \/ \E d \in Deployments : Claims(d)
         \/ \A b \in Attempts :
              /\ pc'[b] \in Holding => pc[b] \in Holding
              /\ pc'[b] \in Finishing => pc[b] \in Holding \cup Finishing
<1>0. pc \in [Attempts -> PcStates]
  BY DEF TypeOK
<1> DEFINE P(b) == /\ pc'[b] \in Holding => pc[b] \in Holding
                   /\ pc'[b] \in Finishing => pc[b] \in Holding \cup Finishing
<1>1. ASSUME NEW a \in Attempts, AttemptNext(a)
      PROVE  /\ \E to \in PcStates : pc' = [pc EXCEPT ![a] = to]
             /\ P(a)
  <2>1. ASSUME NEW from, NEW to \in PcStates, Go(a, from, to),
               to \in Holding => from \in Holding,
               to \in Finishing => from \in Holding \cup Finishing
        PROVE  /\ \E t \in PcStates : pc' = [pc EXCEPT ![a] = t]
               /\ P(a)
    BY <1>0, <2>1 DEF Go
  <2>2. \E from, to \in PcStates :
          /\ Go(a, from, to)
          /\ to \in Holding => from \in Holding
          /\ to \in Finishing => from \in Holding \cup Finishing
    BY <1>1, Program DEF PcStates, Working, Holding, Finishing, Succeeding, Failing
  <2> QED BY <2>1, <2>2
<1>2. ASSUME NEW a \in Attempts, AttemptNext(a), NEW b \in Attempts
      PROVE  P(b)
  BY <1>0, <1>1, <1>2
<1>3. ASSUME \A b \in Attempts : pc'[b] \in {pc[b], "lost"}
      PROVE  \A b \in Attempts : P(b)
  BY <1>0, <1>3 DEF Holding, Finishing, Succeeding, Failing
<1>4. ASSUME NEW d \in Deployments, RequestNext(d)
      PROVE  pc' = pc
  BY <1>4 DEF RequestNext, RequestCreate, RequestEnqueue, RequestEnqueueFails,
              RequestCompensate, RequestCancelled, RequestStep
<1>5. ASSUME NEW d \in Deployments, Claim(d)
      PROVE  Claims(d)
  BY <1>5 DEF Claim, ClaimNextRunnableDeploymentJob, Runnable, Claims
<1>6. ASSUME NEW a \in Attempts, Spawn(a)
      PROVE  \A b \in Attempts : P(b)
  BY <1>0, <1>6 DEF Spawn, Holding, Finishing, Succeeding, Failing
<1>7. Crash => \A b \in Attempts : pc'[b] \in {pc[b], "lost"}
  BY DEF Crash
<1>8. Tick \/ Restart \/ UNCHANGED vars => pc' = pc
  BY DEF Tick, Restart, vars, procVars
<1> QED BY <1>2, <1>3, <1>4, <1>5, <1>6, <1>7, <1>8 DEF Next

(* The counters move with the last statement of an attempt and with none   *)
(* other, by one.                                                          *)
LEMMA HealthChange ==
  ASSUME TypeOK, [Next]_vars
  PROVE  \/ health' = health
         \/ \E a \in Attempts :
              /\ \/ pc[a] = "recordSucceeded" /\ RecordAppDeploymentOutcome(a[1], "succeeded")
                 \/ pc[a] = "recordFailed" /\ RecordAppDeploymentOutcome(a[1], "failed")
              /\ jobs' = jobs
              /\ pc' = [pc EXCEPT ![a] = "done"]
<1>1. ASSUME NEW d \in Deployments, RequestNext(d) \/ Claim(d)
      PROVE  health' = health
  BY <1>1 DEF RequestNext, RequestCreate, RequestEnqueue, RequestEnqueueFails,
              RequestCompensate, RequestCancelled, RequestStep, Claim
<1>2. ASSUME NEW a \in Attempts, RecordSucceeded(a)
      PROVE  \/ health' = health
             \/ /\ pc[a] = "recordSucceeded" /\ RecordAppDeploymentOutcome(a[1], "succeeded")
                /\ jobs' = jobs /\ pc' = [pc EXCEPT ![a] = "done"]
  BY <1>2, Zenon DEF RecordSucceeded, Ignoring, Go
<1>3. ASSUME NEW a \in Attempts, RecordFailed(a)
      PROVE  \/ health' = health
             \/ /\ pc[a] = "recordFailed" /\ RecordAppDeploymentOutcome(a[1], "failed")
                /\ jobs' = jobs /\ pc' = [pc EXCEPT ![a] = "done"]
  BY <1>3, Zenon DEF RecordFailed, Ignoring, Go
<1>4. ASSUME NEW a \in Attempts, Spawn(a) \/ AttemptNext(a)
      PROVE  health' = health \/ RecordSucceeded(a) \/ RecordFailed(a)
  BY <1>4, Zenon DEF Spawn, storeVars, AttemptNext, Load, DropOrphan, AbortJob, AbortDeployment,
                Begin, ExecuteSucceeds, ExecuteFails, MarkSucceeded, DeploymentSucceeded,
                MarkRetry, DeploymentRetry, MarkFailed, DeploymentFailed
<1>5. Tick \/ Crash \/ Restart \/ UNCHANGED vars => health' = health
  BY DEF Tick, Crash, Restart, vars, storeVars
<1> QED BY <1>1, <1>2, <1>3, <1>4, <1>5 DEF Next

-----------------------------------------------------------------------------
(* Health counts at most once                                              *)

LEMMA InitCount == Init => CountInv
<1> SUFFICES ASSUME Init
             PROVE  FinishersWereLast /\ CountsAreCovered
  BY InitIInv DEF CountInv
<1>1. FinishersWereLast
  BY DEF Init, FinishersWereLast, Finishing, Succeeding, Failing
<1>2. \A app \in Apps : Spent(app) = {}
  BY DEF Init, StoreInit, NoJob, Spent
<1>3. \A app \in Apps : health[app].success = 0 /\ health[app].failure = 0
  BY DEF Init, StoreInit
<1>4. ASSUME NEW app \in Apps
      PROVE  health[app].success + health[app].failure <= Cardinality(Spent(app))
  <2>1. Cardinality(Spent(app)) = 0
    BY <1>2, FS_EmptySet
  <2> QED BY <1>3, <2>1
<1> QED BY <1>1, <1>4 DEF CountsAreCovered

(* What a step does to the row of a job that is not waiting, nor released  *)
(* for a retry by this step.                                               *)
LEMMA RowChange ==
  ASSUME IInv, [Next]_vars, NEW d \in Deployments,
         jobs[d].status \in {"running"} \cup Terminal,
         ~ \E a \in Attempts : a[1] = d /\ Retries(a)
  PROVE  jobs'[d].status \in {"running"} \cup Terminal /\ jobs'[d].attempts = jobs[d].attempts
<1>0. TypeOK /\ jobs \in JobsType
  BY DEF IInv, TypeOK, StoreTypeOK, JobsType
<1>1. ASSUME NEW a \in Attempts, Ends(a)
      PROVE  jobs'[d].status \in {"running"} \cup Terminal /\ jobs'[d].attempts = jobs[d].attempts
  BY <1>0, <1>1 DEF Ends, JobsType
<1>2. ASSUME NEW a \in Attempts, Retries(a)
      PROVE  jobs'[d] = jobs[d]
  BY <1>0, <1>2 DEF Retries, JobsType
<1>3. ASSUME NEW e \in Deployments, Claims(e) \/ Posts(e)
      PROVE  jobs'[d] = jobs[d]
  BY <1>0, <1>3 DEF Claims, Posts, JobsType, Terminal
<1> QED BY <1>0, <1>1, <1>2, <1>3, StepEffect DEF Walks, Idles

LEMMA StepFinishers == IInv /\ FinishersWereLast /\ [Next]_vars => FinishersWereLast'
<1> SUFFICES ASSUME IInv, FinishersWereLast, [Next]_vars, NEW b \in Attempts, pc'[b] \in Finishing
             PROVE  jobs'[b[1]].status \in {"running"} \cup Terminal /\ jobs'[b[1]].attempts = b[2]
  BY DEF FinishersWereLast
<1>0. TypeOK /\ jobs \in JobsType /\ pc \in [Attempts -> PcStates] /\ b[1] \in Deployments
  BY AttemptPairs DEF IInv, TypeOK, StoreTypeOK, JobsType
<1>1. pc[b] \in Holding \cup Finishing
  <2>1. ASSUME NEW d \in Deployments, Claims(d)
        PROVE  pc[b] \in Finishing
    BY <1>0, <2>1 DEF Claims, Finishing, Succeeding, Failing
  <2> QED BY <1>0, <2>1, PcChange
<1>2. jobs[b[1]].status \in {"running"} \cup Terminal /\ jobs[b[1]].attempts = b[2]
  BY <1>1 DEF IInv, HoldersOwnJob, FinishersWereLast
<1>3. ~ \E a \in Attempts : a[1] = b[1] /\ Retries(a)
  <2> SUFFICES ASSUME NEW a \in Attempts, a[1] = b[1], Retries(a)
               PROVE  FALSE
    OBVIOUS
  <2>1. jobs[a[1]].attempts = a[2]
    BY DEF IInv, HoldersOwnJob, Retries, Holding
  <2>2. a = b
    BY <2>1, <1>2, AttemptPairs
  <2> QED BY <1>0, <2>2 DEF Retries, Finishing, Succeeding, Failing
<1> QED BY <1>0, <1>2, <1>3, RowChange

(* No step takes a job out of the jobs that are counted.                   *)
LEMMA SpentGrows ==
  ASSUME IInv, [Next]_vars, NEW app \in Apps
  PROVE  Spent(app) \subseteq Spent(app)'
<1> SUFFICES ASSUME NEW d \in Deployments, d \in Spent(app)
             PROVE  d \in Spent(app)'
  BY DEF Spent
<1>0. TypeOK /\ jobs \in JobsType /\ pc \in [Attempts -> PcStates]
  BY DEF IInv, TypeOK, StoreTypeOK, JobsType
<1>1. /\ AppOf[d] = app /\ jobs[d].attempts > 0
      /\ jobs[d].status \in {"running"} \cup Terminal /\ ~Busy(d)
  BY <1>0 DEF Spent, JobsType, JobStatus, Terminal, IInv, AbsentJobsAreFresh
<1>2. ~ \E a \in Attempts : a[1] = d /\ Retries(a)
  BY <1>1 DEF Busy, Retries, Holding
<1>3. jobs'[d].status \in {"running"} \cup Terminal /\ jobs'[d].attempts = jobs[d].attempts
  BY <1>1, <1>2, RowChange
<1>4. ~Busy(d)'
  <2> SUFFICES ASSUME NEW b \in Attempts, b[1] = d, pc'[b] \in Holding \cup Finishing
               PROVE  FALSE
    BY DEF Busy
  <2>1. pc[b] \notin Holding \cup Finishing
    BY <1>1 DEF Busy
  <2>2. ASSUME NEW e \in Deployments, Claims(e)
        PROVE  FALSE
    <3>1. e # d
      BY <1>1, <2>2 DEF Claims, Terminal
    <3>2. pc'[b] = pc[b]
      BY <1>0, <2>2, <3>1 DEF Claims
    <3> QED BY <2>1, <3>2
  <2> QED BY <1>0, <2>1, <2>2, PcChange
<1> QED BY <1>1, <1>3, <1>4 DEF Spent, Terminal

LEMMA SpentIsFinite == \A app \in Apps : IsFiniteSet(Spent(app)) /\ Cardinality(Spent(app)) \in Nat
<1> SUFFICES ASSUME NEW app \in Apps
             PROVE  IsFiniteSet(Spent(app)) /\ Cardinality(Spent(app)) \in Nat
  OBVIOUS
<1>1. Spent(app) \in SUBSET Deployments
  BY DEF Spent
<1>2. IsFiniteSet(Spent(app))
  BY <1>1, FS_Subset
<1> QED BY <1>2, FS_CardinalityType

LEMMA StepCount == CountInv /\ [Next]_vars => CountInv'
<1> SUFFICES ASSUME CountInv, [Next]_vars, NEW app \in Apps
             PROVE  (health[app].success + health[app].failure <= Cardinality(Spent(app)))'
  BY StepIInv, StepFinishers DEF CountInv, CountsAreCovered
<1>0. IInv /\ TypeOK /\ FinishersWereLast /\ pc \in [Attempts -> PcStates]
  BY DEF CountInv, IInv, TypeOK
<1>1. Spent(app) \subseteq Spent(app)'
  BY <1>0, SpentGrows
<1>2. /\ IsFiniteSet(Spent(app)) /\ IsFiniteSet(Spent(app)')
      /\ Cardinality(Spent(app)) \in Nat /\ Cardinality(Spent(app)') \in Nat
  <2>1. Spent(app)' \in SUBSET Deployments
    BY DEF Spent
  <2>2. IsFiniteSet(Spent(app)')
    BY <2>1, FS_Subset
  <2> QED BY <2>2, SpentIsFinite, FS_CardinalityType
<1>3. Cardinality(Spent(app)) <= Cardinality(Spent(app)')
  BY <1>1, <1>2, FS_Subset
<1>4. /\ health \in [Apps -> [success : Nat, failure : Nat]]
      /\ health[app].success + health[app].failure <= Cardinality(Spent(app))
  BY <1>0 DEF CountInv, CountsAreCovered, TypeOK, StoreTypeOK
<1>5. CASE health' = health
  BY <1>2, <1>3, <1>4, <1>5
<1>6. ASSUME NEW a \in Attempts,
             \/ pc[a] = "recordSucceeded" /\ RecordAppDeploymentOutcome(a[1], "succeeded")
             \/ pc[a] = "recordFailed" /\ RecordAppDeploymentOutcome(a[1], "failed"),
             jobs' = jobs, pc' = [pc EXCEPT ![a] = "done"]
      PROVE  health'[app].success + health'[app].failure <= Cardinality(Spent(app)')
  <2>1. CASE AppOf[a[1]] # app
    <3>1. health'[app] = health[app]
      BY <1>4, <1>6, <2>1, AttemptPairs DEF RecordAppDeploymentOutcome
    <3> QED BY <1>2, <1>3, <1>4, <3>1
  <2>2. CASE AppOf[a[1]] = app
    <3>1. health'[app].success + health'[app].failure = health[app].success + health[app].failure + 1
      BY <1>4, <1>6, <2>2, AttemptPairs DEF RecordAppDeploymentOutcome
    <3>2. /\ jobs[a[1]].status \in {"running"} \cup Terminal
          /\ jobs[a[1]].attempts = a[2] /\ a[1] \in Deployments /\ a[2] \in 1..MaxAttempts
          /\ pc[a] \in Finishing
      BY <1>0, <1>6, AttemptPairs DEF FinishersWereLast, Finishing, Succeeding, Failing
    <3>3. a[1] \notin Spent(app)
      BY <3>2 DEF Spent, Busy
    <3>4. a[1] \in Spent(app)'
      <4>1. ~Busy(a[1])'
        <5> SUFFICES ASSUME NEW b \in Attempts, b[1] = a[1], pc'[b] \in Holding \cup Finishing
                     PROVE  FALSE
          BY DEF Busy
        <5>1. b # a /\ pc[b] \in Holding \cup Finishing
          BY <1>0, <1>6 DEF Holding, Finishing, Succeeding, Failing
        <5>2. jobs[b[1]].attempts = b[2]
          BY <1>0, <5>1 DEF IInv, HoldersOwnJob, FinishersWereLast
        <5> QED BY <3>2, <5>1, <5>2, AttemptPairs
      <4> QED BY <1>6, <2>2, <3>2, <4>1 DEF Spent, Terminal
    <3>5. /\ Spent(app) \cup {a[1]} \subseteq Spent(app)'
          /\ Cardinality(Spent(app) \cup {a[1]}) = Cardinality(Spent(app)) + 1
      BY <1>1, <1>2, <3>3, <3>4, FS_AddElement
    <3>6. Cardinality(Spent(app) \cup {a[1]}) <= Cardinality(Spent(app)')
      BY <1>2, <3>5, FS_Subset
    <3> QED BY <1>2, <1>4, <3>1, <3>5, <3>6
  <2> QED BY <2>1, <2>2
<1> QED BY <1>0, <1>5, <1>6, HealthChange

(* However often a job is retried and whatever fails or crashes, health    *)
(* counts a deployment at most once, and only after its last attempt.      *)
THEOREM HealthCounts == Spec => []HealthCountsOnce
<1>1. CountInv => HealthCountsOnce
  <2> SUFFICES ASSUME CountInv, NEW app \in Apps
               PROVE  health[app].success + health[app].failure
                        <= Cardinality({d \in Deployments : /\ AppOf[d] = app
                                                            /\ jobs[d].attempts > 0
                                                            /\ jobs[d].status \notin {"queued", "retrying"}})
    BY DEF HealthCountsOnce
  <2> DEFINE Tried == {d \in Deployments : /\ AppOf[d] = app
                                           /\ jobs[d].attempts > 0
                                           /\ jobs[d].status \notin {"queued", "retrying"}}
  <2>1. Spent(app) \subseteq Tried /\ Tried \in SUBSET Deployments
    BY DEF Spent
  <2>2. IsFiniteSet(Tried)
    BY <2>1, FS_Subset
  <2>3. Cardinality(Spent(app)) <= Cardinality(Tried) /\ Cardinality(Tried) \in Nat
    BY <2>1, <2>2, FS_Subset, FS_CardinalityType
  <2>4. /\ health[app].success \in Nat /\ health[app].failure \in Nat
        /\ health[app].success + health[app].failure <= Cardinality(Spent(app))
    BY DEF CountInv, CountsAreCovered, IInv, TypeOK, StoreTypeOK
  <2>5. Cardinality(Spent(app)) \in Nat
    BY SpentIsFinite
  <2> HIDE DEF Tried
  <2>6. health[app].success + health[app].failure <= Cardinality(Tried)
    BY <2>3, <2>4, <2>5
  <2> QED BY <2>6 DEF Tried
<1>2. Spec => []CountInv
  BY InitCount, StepCount, PTL DEF Spec
<1> QED BY <1>1, <1>2, PTL

-----------------------------------------------------------------------------
(* While nothing fails                                                     *)

(* What holds as long as no statement has failed: a job has the outcome    *)
(* its last attempt is about to write everywhere else.                     *)
Clean ==
  /\ \A a \in Attempts : pc[a] \notin {"orphan", "abort", "abortDep"}
  /\ \A d \in Deployments : request[d] # "failing"
  /\ \A a \in Attempts : pc[a] \in Succeeding => jobs[a[1]].status = "succeeded"
  /\ \A a \in Attempts : pc[a] \in Failing => jobs[a[1]].status = "failed"
  /\ \A d \in Deployments :
       deployments[d] \in Terminal => jobs[d].status = deployments[d]

CleanInv == IInv /\ (faults = 0 => Clean)

(* The steps of an attempt when no statement fails.                        *)
Moves(a) ==
  /\ jobs' = jobs /\ health' = health
  /\ \E to \in PcStates \ {"orphan", "abort", "abortDep"} :
       /\ pc' = [pc EXCEPT ![a] = to]
       /\ to \in Succeeding <=> pc[a] \in Succeeding
       /\ to \in Failing <=> pc[a] \in Failing
  /\ \/ deployments' = deployments
     \/ \E s \in DeploymentStatus \ {"none"} :
          /\ deployments' = [deployments EXCEPT ![a[1]] = s]
          /\ s = "succeeded" => pc[a] \in Succeeding
          /\ s = "failed" => pc[a] \in Failing

Marks(a, from, status, to) ==
  /\ pc[a] = from
  /\ jobs' = [jobs EXCEPT ![a[1]].status = status]
  /\ pc' = [pc EXCEPT ![a] = to]
  /\ health' = health /\ deployments' = deployments

Records(a, from, status) ==
  /\ pc[a] = from
  /\ RecordAppDeploymentOutcome(a[1], status)
  /\ pc' = [pc EXCEPT ![a] = "done"]
  /\ jobs' = jobs /\ deployments' = deployments

LEMMA CleanAttempt ==
  ASSUME TypeOK, NEW a \in Attempts, AttemptNext(a), faults' = 0,
         pc[a] \notin {"orphan", "abort", "abortDep"}
  PROVE  \/ Moves(a)
         \/ Marks(a, "markSucceeded", "succeeded", "depSucceeded")
         \/ Marks(a, "markFailed", "failed", "depFailed")
         \/ Retries(a) /\ health' = health /\ deployments' = deployments
         \/ Records(a, "recordSucceeded", "succeeded")
         \/ Records(a, "recordFailed", "failed")
<1>0. pc \in [Attempts -> PcStates] /\ faults \in Nat
  BY DEF TypeOK
<1>f. ~Fault
  BY <1>0 DEF Fault
<1>m. ASSUME NEW from \in PcStates, NEW to \in PcStates \ {"orphan", "abort", "abortDep"},
             Go(a, from, to), jobs' = jobs, health' = health,
             to \in Succeeding <=> from \in Succeeding,
             to \in Failing <=> from \in Failing,
             \/ deployments' = deployments
             \/ \E s \in DeploymentStatus \ {"none"} :
                  /\ deployments' = [deployments EXCEPT ![a[1]] = s]
                  /\ s = "succeeded" => from \in Succeeding
                  /\ s = "failed" => from \in Failing
      PROVE  Moves(a)
  BY <1>m, Zenon DEF Go, Moves
<1>k. ASSUME NEW from, NEW to, NEW status, Go(a, from, to),
             jobs' = [jobs EXCEPT ![a[1]].status = status],
             health' = health, deployments' = deployments
      PROVE  Marks(a, from, status, to)
  BY <1>k, Zenon DEF Go, Marks
<1> USE DEF PcStates, Working, Succeeding, Failing
<1>1. CASE Load(a)
  BY <1>1, <1>f, <1>m DEF Load
<1>2. CASE DropOrphan(a) \/ AbortJob(a) \/ AbortDeployment(a)
  BY <1>2, Zenon DEF DropOrphan, AbortJob, AbortDeployment, Go
<1>3. CASE Begin(a)
  BY <1>3, <1>f, <1>m DEF Begin, Ignoring, UpdateDeploymentOutcome, DeploymentStatus
<1>4. CASE ExecuteSucceeds(a)
  BY <1>4, <1>m DEF ExecuteSucceeds
<1>5. ASSUME NEW retryable \in BOOLEAN, ExecuteFails(a, retryable)
      PROVE  Moves(a)
  BY <1>5, <1>m DEF ExecuteFails
<1>6. CASE MarkSucceeded(a)
  BY <1>6, <1>f, <1>k DEF MarkSucceeded, Ignoring, MarkDeploymentJobSucceeded
<1>7. CASE DeploymentSucceeded(a)
  BY <1>7, <1>f, <1>m DEF DeploymentSucceeded, Ignoring, UpdateDeploymentOutcome, DeploymentStatus
<1>8. CASE RecordSucceeded(a)
  BY <1>8, <1>f, Zenon DEF RecordSucceeded, Ignoring, Go, Records
<1>9. CASE MarkRetry(a)
  BY <1>9, <1>f DEF MarkRetry, Ignoring, MarkDeploymentJobRetry, Go, Retries, TypeOK
<1>10. CASE DeploymentRetry(a)
  BY <1>10, <1>f, <1>m DEF DeploymentRetry, Ignoring, UpdateDeploymentOutcome, DeploymentStatus
<1>11. CASE MarkFailed(a)
  BY <1>11, <1>f, <1>k DEF MarkFailed, Ignoring, MarkDeploymentJobFailed
<1>12. CASE DeploymentFailed(a)
  BY <1>12, <1>f, <1>m DEF DeploymentFailed, Ignoring, UpdateDeploymentOutcome, DeploymentStatus
<1>13. CASE RecordFailed(a)
  BY <1>13, <1>f, Zenon DEF RecordFailed, Ignoring, Go, Records
<1> QED BY <1>1, <1>2, <1>3, <1>4, <1>5, <1>6, <1>7, <1>8, <1>9, <1>10, <1>11, <1>12, <1>13
        DEF AttemptNext

(* The steps of everybody else when no statement fails.                    *)
LEMMA CleanOther ==
  ASSUME TypeOK, [Next]_vars, faults' = 0, Clean,
         ~ \E a \in Attempts : AttemptNext(a)
  PROVE  /\ health' = health
         /\ \A a \in Attempts : pc'[a] \in {pc[a], "lost", "claimed", "load"}
         /\ \A a \in Attempts : pc'[a] # pc[a] /\ crashes' = 0 => pc'[a] \in Holding
         /\ \A d \in Deployments : request'[d] # "failing"
         /\ \A d \in Deployments : deployments'[d] \in {deployments[d], "queued"}
         /\ \A a \in Attempts : pc[a] \in Succeeding \cup Failing => pc'[a] \in {pc[a], "lost"}
<1>0. /\ pc \in [Attempts -> PcStates] /\ faults \in Nat /\ crashes \in Nat
      /\ request \in [Deployments -> RequestStates] /\ deployments \in [Deployments -> DeploymentStatus]
      /\ \A d \in Deployments : request[d] # "failing"
  BY DEF TypeOK, StoreTypeOK, Clean
<1>f. ~Fault
  BY <1>0 DEF Fault
<1> USE DEF Holding, Succeeding, Failing
<1>1. ASSUME NEW d \in Deployments, RequestNext(d)
      PROVE  /\ health' = health /\ pc' = pc
             /\ \A e \in Deployments : request'[e] # "failing"
             /\ \A e \in Deployments : deployments'[e] \in {deployments[e], "queued"}
  <2>1. \/ RequestCreate(d) \/ RequestEnqueue(d)
    BY <1>1, <1>f, <1>0 DEF RequestNext, RequestEnqueueFails, RequestCompensate, RequestCancelled,
       RequestStep
  <2> QED BY <2>1, <1>0 DEF RequestCreate, RequestEnqueue, RequestStep, CreateDeployment
<1>2. ASSUME NEW d \in Deployments, Claim(d)
      PROVE  /\ health' = health /\ request' = request /\ deployments' = deployments
             /\ \E a \in Attempts : pc[a] \notin Succeeding \cup Failing /\ pc' = [pc EXCEPT ![a] = "claimed"]
  <2>1. /\ jobs[d].status \in {"queued", "retrying"} /\ jobs[d].attempts < MaxAttempts
        /\ jobs[d].attempts \in Nat
        /\ pc' = [pc EXCEPT ![<<d, jobs[d].attempts + 1>>] = "claimed"]
    BY <1>2 DEF Claim, ClaimNextRunnableDeploymentJob, Runnable, TypeOK, StoreTypeOK
  <2>2. /\ <<d, jobs[d].attempts + 1>> \in Attempts
        /\ <<d, jobs[d].attempts + 1>>[1] = d
    BY <2>1, AttemptPairs
  <2>3. pc[<<d, jobs[d].attempts + 1>>] \notin Succeeding \cup Failing
    BY <2>1, <2>2 DEF Clean
  <2> QED BY <1>2, <2>1, <2>2, <2>3 DEF Claim
<1>3. ASSUME NEW a \in Attempts, Spawn(a)
      PROVE  /\ health' = health /\ request' = request /\ deployments' = deployments
             /\ pc[a] = "claimed" /\ pc' = [pc EXCEPT ![a] = "load"]
  BY <1>3, Zenon DEF Spawn, storeVars
<1>4. CASE Crash
  <2>1. /\ health' = health /\ deployments' = deployments /\ crashes' # 0
        /\ \A a \in Attempts : pc'[a] \in {pc[a], "lost"}
    BY <1>4, <1>0 DEF Crash, storeVars
  <2>2. \A d \in Deployments : request'[d] # "failing"
    BY <1>4, <1>0 DEF Crash
  <2> QED BY <2>1, <2>2
<1>5. CASE Tick \/ Restart \/ UNCHANGED vars
  BY <1>0, <1>5 DEF Tick, Restart, vars, storeVars, procVars
<1> QED BY <1>0, <1>1, <1>2, <1>3, <1>4, <1>5 DEF Next

LEMMA FaultsRemain == ASSUME TypeOK, [Next]_vars, faults' = 0 PROVE faults = 0
<1>0. faults \in Nat
  BY DEF TypeOK
<1>1. ASSUME NEW d \in Deployments, RequestNext(d) \/ Claim(d)
      PROVE  faults' \in {faults, faults + 1}
  BY <1>1 DEF RequestNext, RequestCreate, RequestEnqueue, RequestEnqueueFails,
              RequestCompensate, RequestCancelled, Claim, Ignoring, Fault
<1>2. ASSUME NEW a \in Attempts, Spawn(a) \/ AttemptNext(a)
      PROVE  faults' \in {faults, faults + 1}
  BY <1>2 DEF Spawn, AttemptNext, Load, DropOrphan, AbortJob, AbortDeployment,
                Begin, ExecuteSucceeds, ExecuteFails, MarkSucceeded, DeploymentSucceeded,
                MarkRetry, DeploymentRetry, MarkFailed, DeploymentFailed,
                RecordSucceeded, RecordFailed, Ignoring, Fault
<1>3. Tick \/ Crash \/ Restart \/ UNCHANGED vars => faults' = faults
  BY DEF Tick, Crash, Restart, vars, procVars
<1>4. faults' \in {faults, faults + 1}
  BY <1>1, <1>2, <1>3 DEF Next
<1> QED BY <1>0, <1>4

LEMMA InitClean == Init => CleanInv
BY InitIInv DEF Init, StoreInit, CleanInv, Clean, Succeeding, Failing, Terminal

LEMMA StepClean ==
  ASSUME IInv, Clean, [Next]_vars, faults' = 0
  PROVE  Clean'
<1>0. /\ TypeOK /\ TypeOK' /\ jobs \in JobsType /\ pc \in [Attempts -> PcStates]
      /\ deployments \in [Deployments -> DeploymentStatus]
  BY StepTypeOK DEF IInv, TypeOK, StoreTypeOK, JobsType
<1>s. \A d \in Deployments : jobs[d].status \in Terminal => jobs'[d] = jobs[d]
  BY SettledRowStays
<1>t. {"succeeded", "failed"} = Terminal /\ Succeeding \cap Failing = {}
  BY DEF Terminal, Succeeding, Failing
<1>1. ASSUME NEW a \in Attempts, AttemptNext(a)
      PROVE  Clean'
  <2>0. pc[a] \notin {"orphan", "abort", "abortDep"} /\ a[1] \in Deployments
    BY AttemptPairs DEF Clean
  <2>r. request' = request
    BY <1>1, Zenon DEF AttemptNext, Go, Load, DropOrphan, AbortJob, AbortDeployment, Begin,
       ExecuteSucceeds, ExecuteFails, MarkSucceeded, DeploymentSucceeded, RecordSucceeded,
       MarkRetry, DeploymentRetry, MarkFailed, DeploymentFailed, RecordFailed
  <2>1. CASE Moves(a)
    <3>1. PICK to \in PcStates \ {"orphan", "abort", "abortDep"} :
            /\ pc' = [pc EXCEPT ![a] = to]
            /\ to \in Succeeding <=> pc[a] \in Succeeding
            /\ to \in Failing <=> pc[a] \in Failing
      BY <2>1 DEF Moves
    <3>2. ASSUME NEW b \in Attempts
          PROVE  /\ pc'[b] \notin {"orphan", "abort", "abortDep"}
                 /\ pc'[b] \in Succeeding => pc[b] \in Succeeding
                 /\ pc'[b] \in Failing => pc[b] \in Failing
      BY <1>0, <3>1 DEF Clean
    <3>3. ASSUME NEW d \in Deployments, deployments'[d] \in Terminal
          PROVE  jobs[d].status = deployments'[d]
      BY <1>0, <2>0, <2>1, <3>3 DEF Moves, Clean, Terminal
    <3>4. jobs' = jobs
      BY <2>1 DEF Moves
    <3> QED BY <2>r, <3>2, <3>3, <3>4 DEF Clean
  <2>2. ASSUME NEW from, NEW s \in Terminal, NEW to, from \in Holding, to \in Succeeding \cup Failing,
               to \in Succeeding <=> s = "succeeded", Marks(a, from, s, to)
        PROVE  Clean'
    <3>1. jobs'[a[1]].status = s
      BY <1>0, <2>0, <2>2 DEF Marks, JobsType
    <3>2. to \notin {"orphan", "abort", "abortDep"}
      BY <2>2 DEF Succeeding, Failing
    <3>3. ASSUME NEW b \in Attempts
          PROVE  /\ pc'[b] \notin {"orphan", "abort", "abortDep"}
                 /\ pc'[b] \in Succeeding => jobs'[b[1]].status = "succeeded"
                 /\ pc'[b] \in Failing => jobs'[b[1]].status = "failed"
      <4>1. CASE b = a
        BY <1>0, <1>t, <2>2, <3>1, <3>2, <4>1 DEF Marks, Terminal
      <4>2. CASE b # a
        <5>1. pc'[b] = pc[b]
          BY <1>0, <2>2, <4>2, Zenon DEF Marks
        <5>2. /\ pc[b] \in Succeeding => jobs[b[1]].status = "succeeded"
              /\ pc[b] \in Failing => jobs[b[1]].status = "failed"
              /\ pc[b] \notin {"orphan", "abort", "abortDep"}
          BY DEF Clean
        <5> QED BY <1>s, <5>1, <5>2, AttemptPairs DEF Terminal
      <4> QED BY <4>1, <4>2
    <3>4. \A d \in Deployments : deployments'[d] \in Terminal => jobs'[d].status = deployments'[d]
      BY <1>s, <2>2 DEF Marks, Clean
    <3> QED BY <2>r, <3>3, <3>4 DEF Clean
  <2>3. CASE Retries(a) /\ deployments' = deployments
    <3>1. pc' = [pc EXCEPT ![a] = "depRetry"]
      BY <2>3 DEF Retries
    <3>2. ASSUME NEW b \in Attempts
          PROVE  /\ pc'[b] \notin {"orphan", "abort", "abortDep"}
                 /\ pc'[b] \in Succeeding => jobs'[b[1]].status = "succeeded"
                 /\ pc'[b] \in Failing => jobs'[b[1]].status = "failed"
      BY <1>0, <1>s, <3>1, AttemptPairs DEF Clean, Terminal, Succeeding, Failing
    <3>3. \A d \in Deployments : deployments'[d] \in Terminal => jobs'[d].status = deployments'[d]
      BY <1>s, <2>3 DEF Clean
    <3> QED BY <2>r, <3>2, <3>3 DEF Clean
  <2>4. ASSUME NEW from, NEW s, Records(a, from, s)
        PROVE  Clean'
    <3>1. ASSUME NEW b \in Attempts
          PROVE  /\ pc'[b] \notin {"orphan", "abort", "abortDep"}
                 /\ pc'[b] \in Succeeding => jobs'[b[1]].status = "succeeded"
                 /\ pc'[b] \in Failing => jobs'[b[1]].status = "failed"
      BY <1>0, <2>4 DEF Records, Clean, Succeeding, Failing
    <3>2. \A d \in Deployments : deployments'[d] \in Terminal => jobs'[d].status = deployments'[d]
      BY <2>4 DEF Records, Clean
    <3> QED BY <2>r, <3>1, <3>2 DEF Clean
  <2>5. Marks(a, "markSucceeded", "succeeded", "depSucceeded") => Clean'
    BY <2>2 DEF Holding, Succeeding, Failing, Terminal
  <2>6. Marks(a, "markFailed", "failed", "depFailed") => Clean'
    BY <2>2 DEF Holding, Succeeding, Failing, Terminal
  <2> QED BY <1>0, <1>1, <2>0, <2>1, <2>3, <2>4, <2>5, <2>6, CleanAttempt
<1>2. CASE ~ \E a \in Attempts : AttemptNext(a)
  <2>1. /\ \A a \in Attempts : pc'[a] \in {pc[a], "lost", "claimed", "load"}
        /\ \A d \in Deployments : request'[d] # "failing"
        /\ \A d \in Deployments : deployments'[d] \in {deployments[d], "queued"}
    BY <1>0, <1>2, CleanOther
  <2>2. ASSUME NEW b \in Attempts
        PROVE  /\ pc'[b] \notin {"orphan", "abort", "abortDep"}
               /\ pc'[b] \in Succeeding => jobs'[b[1]].status = "succeeded"
               /\ pc'[b] \in Failing => jobs'[b[1]].status = "failed"
    <3>1. /\ pc'[b] \notin {"orphan", "abort", "abortDep"}
          /\ pc'[b] \in Succeeding \cup Failing => pc'[b] = pc[b]
      BY <2>1 DEF Clean, Succeeding, Failing
    <3> QED BY <1>s, <3>1, AttemptPairs DEF Clean, Terminal
  <2>3. ASSUME NEW d \in Deployments, deployments'[d] \in Terminal
        PROVE  jobs'[d].status = deployments'[d]
    <3>1. deployments'[d] = deployments[d]
      BY <2>1, <2>3 DEF Terminal
    <3> QED BY <1>s, <2>3, <3>1 DEF Clean
  <2> QED BY <2>1, <2>2, <2>3 DEF Clean
<1> QED BY <1>1, <1>2

(* As long as no statement has failed, nobody is shown an outcome the job  *)
(* does not have, whatever is interleaved and wherever the process dies.   *)
THEOREM OutcomesAreBacked == Spec => []OutcomeIsBacked
<1>1. CleanInv /\ [Next]_vars => CleanInv'
  <2> SUFFICES ASSUME CleanInv, [Next]_vars, faults' = 0
               PROVE  Clean'
    BY StepIInv DEF CleanInv
  <2>1. IInv /\ TypeOK
    BY DEF CleanInv, IInv
  <2>2. faults = 0
    BY <2>1, FaultsRemain
  <2> QED BY <2>1, <2>2, StepClean DEF CleanInv
<1>2. CleanInv => OutcomeIsBacked
  BY DEF CleanInv, Clean, OutcomeIsBacked
<1> QED BY <1>1, <1>2, InitClean, PTL DEF Spec

-----------------------------------------------------------------------------
(* Health is exact                                                         *)

Pending(s) == IF s = "succeeded" THEN Succeeding ELSE Failing

(* The jobs with outcome s whose last attempt is through.                  *)
Reported(app, s) ==
  {d \in Deployments : /\ AppOf[d] = app
                       /\ jobs[d].status = s
                       /\ ~ \E a \in Attempts : a[1] = d /\ pc[a] \in Pending(s)}

Exact ==
  \A app \in Apps :
    /\ health[app].success = Cardinality(Reported(app, "succeeded"))
    /\ health[app].failure = Cardinality(Reported(app, "failed"))

ExactInv ==
  CleanInv /\ FinishersWereLast /\ (faults = 0 /\ crashes = 0 => Exact)

LEMMA InitExact == Init => ExactInv
<1> SUFFICES ASSUME Init
             PROVE  FinishersWereLast /\ Exact
  BY InitClean DEF ExactInv
<1>1. FinishersWereLast
  BY InitCount DEF CountInv
<1>2. \A app \in Apps : Reported(app, "succeeded") = {} /\ Reported(app, "failed") = {}
  BY DEF Init, StoreInit, NoJob, Reported
<1>3. \A app \in Apps : health[app].success = 0 /\ health[app].failure = 0
  BY DEF Init, StoreInit
<1>4. Cardinality({}) = 0
  BY FS_EmptySet
<1> QED BY <1>1, <1>2, <1>3, <1>4 DEF Exact

LEMMA CrashesRemain == ASSUME TypeOK, [Next]_vars, crashes' = 0 PROVE crashes = 0
<1>0. crashes \in Nat
  BY DEF TypeOK
<1>1. ASSUME NEW d \in Deployments, RequestNext(d) \/ Claim(d)
      PROVE  crashes' = crashes
  BY <1>1 DEF RequestNext, RequestCreate, RequestEnqueue, RequestEnqueueFails,
              RequestCompensate, RequestCancelled, RequestStep, Claim
<1>2. ASSUME NEW a \in Attempts, Spawn(a) \/ AttemptNext(a)
      PROVE  crashes' = crashes
  BY <1>2, Zenon DEF Spawn, AttemptNext, Go, Load, DropOrphan, AbortJob, AbortDeployment,
                Begin, ExecuteSucceeds, ExecuteFails, MarkSucceeded, DeploymentSucceeded,
                MarkRetry, DeploymentRetry, MarkFailed, DeploymentFailed,
                RecordSucceeded, RecordFailed
<1>3. Tick \/ Restart \/ UNCHANGED vars => crashes' = crashes
  BY DEF Tick, Restart, vars, procVars
<1>4. Crash => crashes' = crashes + 1
  BY Zenon DEF Crash
<1> QED BY <1>0, <1>1, <1>2, <1>3, <1>4 DEF Next

(* A job gets its outcome from an attempt.                                 *)
LEMMA OutcomesAreMarked ==
  ASSUME TypeOK, [Next]_vars, ~ \E a \in Attempts : AttemptNext(a), NEW d \in Deployments
  PROVE  \A t \in Terminal : (jobs'[d].status = t) <=> (jobs[d].status = t)
<1>0. jobs \in JobsType
  BY DEF TypeOK, StoreTypeOK, JobsType
<1>1. ASSUME NEW e \in Deployments, RequestNext(e) \/ Claim(e)
      PROVE  \/ jobs'[d] = jobs[d]
             \/ jobs'[d].status \notin Terminal /\ jobs[d].status \notin Terminal
  BY <1>0, <1>1 DEF RequestNext, RequestCreate, RequestEnqueue, RequestEnqueueFails,
     RequestCompensate, RequestCancelled, RequestStep, CreateDeploymentJob, JobRows, Claim,
     ClaimNextRunnableDeploymentJob, Runnable, Terminal, JobsType
<1>2. ASSUME NEW a \in Attempts, Spawn(a)
      PROVE  jobs' = jobs
  BY <1>2 DEF Spawn, storeVars
<1>3. Tick \/ Crash \/ Restart \/ UNCHANGED vars => jobs' = jobs
  BY DEF Tick, Crash, Restart, vars, storeVars
<1>4. \/ jobs'[d] = jobs[d]
      \/ jobs'[d].status \notin Terminal /\ jobs[d].status \notin Terminal
  BY <1>1, <1>2, <1>3 DEF Next
<1> QED BY <1>4

(* A step of an attempt changes what is reported of its own job only.      *)
LEMMA ReportedSame ==
  ASSUME NEW app \in Apps, NEW s \in Terminal,
         \A d \in Deployments : (jobs'[d].status = s) <=> (jobs[d].status = s),
         \A b \in Attempts : (pc'[b] \in Pending(s)) <=> (pc[b] \in Pending(s))
  PROVE  Reported(app, s)' = Reported(app, s)
BY AttemptPairs, Zenon DEF Reported

LEMMA StepExact ==
  ASSUME IInv, Clean, FinishersWereLast, Exact, [Next]_vars, faults' = 0, crashes' = 0
  PROVE  Exact'
<1>0. /\ TypeOK /\ jobs \in JobsType /\ pc \in [Attempts -> PcStates]
      /\ health \in [Apps -> [success : Nat, failure : Nat]]
  BY DEF IInv, TypeOK, StoreTypeOK, JobsType
<1>s. \A d \in Deployments : jobs[d].status \in Terminal => jobs'[d] = jobs[d]
  BY SettledRowStays
<1>p. /\ Pending("succeeded") = Succeeding /\ Pending("failed") = Failing
      /\ Succeeding \cap Failing = {} /\ Holding \cap (Succeeding \cup Failing) = {}
      /\ Terminal = {"succeeded", "failed"}
  BY DEF Pending, Terminal, Succeeding, Failing, Holding
<1>u. ASSUME health' = health,
             \A app \in Apps : \A s \in Terminal : Reported(app, s)' = Reported(app, s)
      PROVE  Exact'
  BY <1>u DEF Exact, Terminal
<1>v. ASSUME health' = health,
             \A d \in Deployments : \A s \in Terminal :
                (jobs'[d].status = s) <=> (jobs[d].status = s),
             \A b \in Attempts : \A s \in Terminal :
                (pc'[b] \in Pending(s)) <=> (pc[b] \in Pending(s))
      PROVE  Exact'
  BY <1>u, <1>v, ReportedSame
<1>1. ASSUME NEW a \in Attempts, AttemptNext(a)
      PROVE  Exact'
  <2>0. pc[a] \notin {"orphan", "abort", "abortDep"} /\ a[1] \in Deployments
    BY AttemptPairs DEF Clean
  <2>1. CASE Moves(a)
    <3>1. PICK to \in PcStates :
            /\ pc' = [pc EXCEPT ![a] = to]
            /\ to \in Succeeding <=> pc[a] \in Succeeding
            /\ to \in Failing <=> pc[a] \in Failing
      BY <2>1 DEF Moves
    <3>2. ASSUME NEW b \in Attempts
          PROVE  /\ pc'[b] \in Succeeding <=> pc[b] \in Succeeding
                 /\ pc'[b] \in Failing <=> pc[b] \in Failing
      BY <1>0, <3>1
    <3>3. jobs' = jobs /\ health' = health
      BY <2>1 DEF Moves
    <3> QED BY <1>p, <1>v, <3>2, <3>3
  <2>2. ASSUME NEW from, NEW s \in Terminal, NEW to \in Pending(s), from \in Holding,
               Marks(a, from, s, to)
        PROVE  Exact'
    <3>0. /\ jobs[a[1]].status = "running"
          /\ jobs'[a[1]].status = s /\ pc'[a] \in Pending(s)
          /\ \A d \in Deployments : d # a[1] => jobs'[d] = jobs[d]
          /\ \A b \in Attempts : b # a => pc'[b] = pc[b]
          /\ health' = health
      BY <1>0, <2>0, <2>2 DEF Marks, JobsType, IInv, HoldersOwnJob
    <3>1. ASSUME NEW app \in Apps, NEW t \in Terminal, NEW d \in Deployments
          PROVE  d \in Reported(app, t)' <=> d \in Reported(app, t)
      <4>1. CASE d = a[1]
        BY <3>0, <4>1 DEF Reported, Terminal
      <4>2. CASE d # a[1]
        BY <3>0, <4>2 DEF Reported
      <4> QED BY <4>1, <4>2
    <3>2. ASSUME NEW app \in Apps, NEW t \in Terminal
          PROVE  Reported(app, t)' = Reported(app, t)
      BY <3>1 DEF Reported
    <3> QED BY <1>u, <3>0, <3>2
  <2>3. CASE Retries(a) /\ health' = health
    <3>1. jobs[a[1]].status = "running" /\ pc' = [pc EXCEPT ![a] = "depRetry"]
          /\ pc[a] = "markRetry"
      BY <2>3 DEF Retries, IInv, HoldersOwnJob, Holding
    <3>2. \A d \in Deployments : \A t \in Terminal : (jobs'[d].status = t) <=> (jobs[d].status = t)
      BY <1>0, <2>0, <2>3, <3>1 DEF Retries, JobsType, Terminal
    <3>3. \A b \in Attempts : /\ pc'[b] \in Succeeding <=> pc[b] \in Succeeding
                              /\ pc'[b] \in Failing <=> pc[b] \in Failing
      BY <1>0, <3>1 DEF Succeeding, Failing
    <3> QED BY <1>p, <1>v, <2>3, <3>2, <3>3
  <2>4. ASSUME NEW s \in Terminal, NEW from \in Pending(s), Records(a, from, s)
        PROVE  /\ \A app \in Apps : Reported(app, s)' = IF app = AppOf[a[1]]
                                                          THEN Reported(app, s) \cup {a[1]}
                                                          ELSE Reported(app, s)
               /\ a[1] \notin Reported(AppOf[a[1]], s)
               /\ \A app \in Apps, t \in Terminal \ {s} : Reported(app, t)' = Reported(app, t)
    <3>0. /\ jobs' = jobs /\ pc[a] \in Pending(s) /\ pc[a] \in Finishing
          /\ pc'[a] \notin Finishing
          /\ \A b \in Attempts : b # a => pc'[b] = pc[b]
      BY <1>0, <2>4 DEF Records, Pending, Finishing, Succeeding, Failing
    <3>1. jobs[a[1]].status = s
      BY <3>0, <1>p, <2>4 DEF Clean, Terminal
    <3>2. ASSUME NEW b \in Attempts, b[1] = a[1], pc[b] \in Finishing
          PROVE  b = a
      BY <3>0, <3>2, AttemptPairs DEF FinishersWereLast
    <3>3. \A t \in Terminal : Pending(t) \subseteq Finishing
      BY DEF Pending, Finishing
    <3>4. a[1] \notin Reported(AppOf[a[1]], s)
      BY <3>0 DEF Reported
    <3>5. ASSUME NEW app \in Apps, NEW t \in Terminal, NEW d \in Deployments
          PROVE  d \in Reported(app, t)' <=> \/ d \in Reported(app, t)
                                             \/ d = a[1] /\ app = AppOf[a[1]] /\ t = s
      <4>1. CASE d = a[1]
        BY <3>0, <3>1, <3>2, <3>3, <4>1 DEF Reported
      <4>2. CASE d # a[1]
        BY <3>0, <4>2 DEF Reported
      <4> QED BY <4>1, <4>2
    <3>6. ASSUME NEW app \in Apps
          PROVE  Reported(app, s)' = IF app = AppOf[a[1]] THEN Reported(app, s) \cup {a[1]}
                                                          ELSE Reported(app, s)
      <4>1. Reported(app, s)' \subseteq Deployments /\ Reported(app, s) \subseteq Deployments
        BY DEF Reported
      <4> QED BY <2>0, <3>5, <4>1
    <3>7. ASSUME NEW app \in Apps, NEW t \in Terminal \ {s}
          PROVE  Reported(app, t)' = Reported(app, t)
      <4>1. Reported(app, t)' \subseteq Deployments /\ Reported(app, t) \subseteq Deployments
        BY DEF Reported
      <4> QED BY <3>5, <4>1
    <3> QED BY <3>4, <3>6, <3>7
  <2>c. ASSUME NEW app \in Apps, NEW s \in Terminal, a[1] \notin Reported(app, s)
        PROVE  Cardinality(Reported(app, s) \cup {a[1]}) = Cardinality(Reported(app, s)) + 1
    <3>1. Reported(app, s) \in SUBSET Deployments
      BY DEF Reported
    <3>2. IsFiniteSet(Reported(app, s))
      BY <3>1, FS_Subset
    <3> QED BY <2>c, <3>2, FS_AddElement
  <2>5. CASE Records(a, "recordSucceeded", "succeeded")
    <3>1. "succeeded" \in Terminal /\ "recordSucceeded" \in Pending("succeeded")
          /\ "failed" \in Terminal \ {"succeeded"} /\ AppOf[a[1]] \in Apps
      BY <2>0 DEF Terminal, Pending, Succeeding
    <3>2. ASSUME NEW app \in Apps
          PROVE  /\ health'[app].failure = health[app].failure
                 /\ health'[app].success = IF app = AppOf[a[1]] THEN health[app].success + 1
                                                                ELSE health[app].success
      BY <1>0, <2>0, <2>5 DEF Records, RecordAppDeploymentOutcome
    <3>3. ASSUME NEW app \in Apps
          PROVE  /\ health'[app].success = Cardinality(Reported(app, "succeeded")')
                 /\ health'[app].failure = Cardinality(Reported(app, "failed")')
      <4>1. CASE app = AppOf[a[1]]
        BY <2>4, <2>5, <2>c, <3>1, <3>2, <4>1 DEF Exact
      <4>2. CASE app # AppOf[a[1]]
        BY <2>4, <2>5, <3>1, <3>2, <4>2 DEF Exact
      <4> QED BY <4>1, <4>2
    <3> QED BY <3>3 DEF Exact
  <2>6. CASE Records(a, "recordFailed", "failed")
    <3>1. "failed" \in Terminal /\ "recordFailed" \in Pending("failed")
          /\ "succeeded" \in Terminal \ {"failed"} /\ AppOf[a[1]] \in Apps
      BY <2>0 DEF Terminal, Pending, Failing
    <3>2. ASSUME NEW app \in Apps
          PROVE  /\ health'[app].success = health[app].success
                 /\ health'[app].failure = IF app = AppOf[a[1]] THEN health[app].failure + 1
                                                                ELSE health[app].failure
      BY <1>0, <2>0, <2>6 DEF Records, RecordAppDeploymentOutcome
    <3>3. ASSUME NEW app \in Apps
          PROVE  /\ health'[app].success = Cardinality(Reported(app, "succeeded")')
                 /\ health'[app].failure = Cardinality(Reported(app, "failed")')
      <4>1. CASE app = AppOf[a[1]]
        BY <2>4, <2>6, <2>c, <3>1, <3>2, <4>1 DEF Exact
      <4>2. CASE app # AppOf[a[1]]
        BY <2>4, <2>6, <3>1, <3>2, <4>2 DEF Exact
      <4> QED BY <4>1, <4>2
    <3> QED BY <3>3 DEF Exact
  <2>7. Marks(a, "markSucceeded", "succeeded", "depSucceeded") => Exact'
    BY <2>2 DEF Holding, Pending, Succeeding, Terminal
  <2>8. Marks(a, "markFailed", "failed", "depFailed") => Exact'
    BY <2>2 DEF Holding, Pending, Failing, Terminal
  <2> QED BY <1>0, <1>1, <2>0, <2>1, <2>3, <2>5, <2>6, <2>7, <2>8, CleanAttempt
<1>2. CASE ~ \E a \in Attempts : AttemptNext(a)
  <2>1. /\ health' = health
        /\ \A a \in Attempts : pc'[a] # pc[a] => pc'[a] \in Holding
        /\ \A a \in Attempts : pc[a] \in Succeeding \cup Failing => pc'[a] \in {pc[a], "lost"}
    BY <1>0, <1>2, CleanOther
  <2>2. ASSUME NEW b \in Attempts
        PROVE  /\ pc'[b] \in Succeeding <=> pc[b] \in Succeeding
               /\ pc'[b] \in Failing <=> pc[b] \in Failing
    BY <1>p, <2>1 DEF Holding
  <2>3. ASSUME NEW d \in Deployments, NEW t \in Terminal
        PROVE  (jobs'[d].status = t) <=> (jobs[d].status = t)
    BY <1>0, <1>2, OutcomesAreMarked
  <2> QED BY <1>p, <1>v, <2>1, <2>2, <2>3
<1> QED BY <1>1, <1>2

(* When nothing fails and nothing crashes, health counts exactly the jobs  *)
(* that ended.                                                             *)
THEOREM HealthIsRight == Spec => []HealthIsExact
<1>1. ExactInv /\ [Next]_vars => ExactInv'
  <2> SUFFICES ASSUME ExactInv, [Next]_vars
               PROVE  CleanInv' /\ FinishersWereLast' /\ (faults' = 0 /\ crashes' = 0 => Exact')
    BY DEF ExactInv
  <2>1. IInv /\ TypeOK /\ CleanInv /\ FinishersWereLast
    BY DEF ExactInv, CleanInv, IInv
  <2>2. faults' = 0 => faults = 0 /\ Clean
    BY <2>1, FaultsRemain DEF CleanInv
  <2>3. CleanInv'
    BY <2>1, <2>2, StepIInv, StepClean DEF CleanInv
  <2>4. FinishersWereLast'
    BY <2>1, StepFinishers
  <2>5. ASSUME faults' = 0, crashes' = 0
        PROVE  Exact'
    <3>1. Exact
      BY <2>1, <2>2, <2>5, CrashesRemain DEF ExactInv
    <3> QED BY <2>1, <2>2, <2>5, <3>1, StepExact
  <2> QED BY <2>3, <2>4, <2>5
<1>2. ExactInv => HealthIsExact
  <2> SUFFICES ASSUME ExactInv, faults = 0, crashes = 0, Goroutines = {}, NEW app \in Apps
               PROVE  /\ health[app].success =
                           Cardinality({d \in Deployments : AppOf[d] = app /\ jobs[d].status = "succeeded"})
                      /\ health[app].failure =
                           Cardinality({d \in Deployments : AppOf[d] = app /\ jobs[d].status = "failed"})
    BY DEF HealthIsExact
  <2>1. \A a \in Attempts : pc[a] \notin Succeeding \cup Failing
    BY DEF Goroutines, Working, Succeeding, Failing
  <2>2. /\ Reported(app, "succeeded") =
             {d \in Deployments : AppOf[d] = app /\ jobs[d].status = "succeeded"}
        /\ Reported(app, "failed") =
             {d \in Deployments : AppOf[d] = app /\ jobs[d].status = "failed"}
    BY <2>1 DEF Reported, Pending
  <2> QED BY <2>2 DEF ExactInv, Exact
<1> QED BY <1>1, <1>2, InitExact, PTL DEF Spec

-----------------------------------------------------------------------------
(* Which rows there are                                                    *)

(* A deployment exists once its request has begun, its job once the        *)
(* request is through, its attempts once there is a job.                   *)
RowsPrecedeWork ==
  /\ \A d \in Deployments : request[d] = "idle" <=> deployments[d] = "none"
  /\ \A d \in Deployments : jobs[d].status # "none" => request[d] = "done"
  /\ \A a \in Attempts : pc[a] # "none" => jobs[a[1]].status # "none"

-----------------------------------------------------------------------------
(* Who writes the status of a deployment                                   *)

(* Where an attempt stands when it writes status.                          *)
Writers(status) ==
  IF status = "running" THEN {"begin"}
  ELSE IF status = "queued" THEN {"depRetry"}
  ELSE IF status = "succeeded" THEN {"depSucceeded"}
  ELSE {"depFailed", "abortDep"}

Creates(d) ==
  /\ request[d] = "idle" /\ request' = [request EXCEPT ![d] = "created"]
  /\ deployments' = [deployments EXCEPT ![d] = "queued"]
  /\ jobs' = jobs /\ pc' = pc /\ health' = health /\ faults' = faults /\ crashes' = crashes

Compensates(d) ==
  /\ request[d] = "failing" /\ request' = [request EXCEPT ![d] = "done"]
  /\ deployments' = [deployments EXCEPT ![d] = "failed"]
  /\ jobs' = jobs /\ pc' = pc /\ health' = health /\ faults' = faults /\ crashes' = crashes

Writes(a, status) ==
  /\ pc[a] \in Writers(status)
  /\ \E to \in PcStates \ Writers(status) : Go(a, pc[a], to)
  /\ deployments' = [deployments EXCEPT ![a[1]] = status]
  /\ jobs' = jobs /\ health' = health /\ faults' = faults

LEMMA DeploymentChange ==
  ASSUME TypeOK, [Next]_vars
  PROVE  \/ deployments' = deployments
         \/ \E d \in Deployments : Creates(d) \/ Compensates(d)
         \/ \E a \in Attempts, s \in {"running", "queued", "succeeded", "failed"} : Writes(a, s)
<1>1. ASSUME NEW d \in Deployments, RequestNext(d) \/ Claim(d)
      PROVE  deployments' = deployments \/ Creates(d) \/ Compensates(d)
  BY <1>1, Zenon DEF RequestNext, RequestCreate, RequestEnqueue, RequestEnqueueFails,
     RequestCompensate, RequestCancelled, RequestStep, Claim, Creates, Compensates,
     CreateDeployment, UpdateDeploymentOutcome, Ignoring
<1>2. ASSUME NEW a \in Attempts, Begin(a)
      PROVE  deployments' = deployments \/ Writes(a, "running")
  BY <1>2 DEF Begin, Writes, Writers, Go, Ignoring, UpdateDeploymentOutcome, PcStates, Working
<1>3. ASSUME NEW a \in Attempts, DeploymentRetry(a)
      PROVE  deployments' = deployments \/ Writes(a, "queued")
  BY <1>3 DEF DeploymentRetry, Writes, Writers, Go, Ignoring, UpdateDeploymentOutcome, PcStates
<1>4. ASSUME NEW a \in Attempts, DeploymentSucceeded(a)
      PROVE  deployments' = deployments \/ Writes(a, "succeeded")
  BY <1>4 DEF DeploymentSucceeded, Writes, Writers, Go, Ignoring, UpdateDeploymentOutcome,
              PcStates, Working
<1>5. ASSUME NEW a \in Attempts, DeploymentFailed(a) \/ AbortDeployment(a)
      PROVE  deployments' = deployments \/ Writes(a, "failed")
  BY <1>5 DEF DeploymentFailed, AbortDeployment, Writes, Writers, Go, Ignoring,
              UpdateDeploymentOutcome, PcStates, Working
<1>6. ASSUME NEW a \in Attempts, Spawn(a) \/ AttemptNext(a)
      PROVE  \/ deployments' = deployments
             \/ Begin(a) \/ DeploymentRetry(a) \/ DeploymentSucceeded(a)
             \/ DeploymentFailed(a) \/ AbortDeployment(a)
  BY <1>6, Zenon DEF Spawn, storeVars, AttemptNext, Load, DropOrphan, AbortJob, ExecuteSucceeds,
                     ExecuteFails, MarkSucceeded, RecordSucceeded, MarkRetry, MarkFailed,
                     RecordFailed
<1>7. Tick \/ Crash \/ Restart \/ UNCHANGED vars => deployments' = deployments
  BY DEF Tick, Crash, Restart, vars, storeVars
<1> QED BY <1>1, <1>2, <1>3, <1>4, <1>5, <1>6, <1>7, Zenon DEF Next

(* Only the first statement of a request makes it no longer idle, and only *)
(* its second one inserts a job.                                           *)
LEMMA RequestChange ==
  ASSUME IInv, [Next]_vars, NEW d \in Deployments
  PROVE  /\ \/ request'[d] = request[d]
            \/ Creates(d)
            \/ request[d] \in {"created", "failing"} /\ request'[d] \in {"done", "failing", "lost"}
         /\ request[d] = "done" => request'[d] = "done"
         /\ jobs'[d].status # "none" /\ jobs[d].status = "none" => request'[d] = "done"
<1>0. /\ TypeOK /\ request \in [Deployments -> RequestStates] /\ jobs \in JobsType
      /\ pc \in [Attempts -> PcStates]
  BY DEF IInv, TypeOK, StoreTypeOK, JobsType
<1>1. ASSUME NEW e \in Deployments, RequestNext(e)
      PROVE  /\ \/ request'[d] = request[d]
                \/ Creates(d)
                \/ request[d] \in {"created", "failing"} /\ request'[d] \in {"done", "failing", "lost"}
             /\ request[d] = "done" => request'[d] = "done"
             /\ jobs' = jobs \/ (RequestEnqueue(e))
  <2>1. RequestCreate(e) => Creates(e)
    BY DEF RequestCreate, RequestStep, CreateDeployment, Creates
  <2>2. RequestCreate(e) => e = d \/ request'[d] = request[d]
    BY <1>0 DEF RequestCreate, RequestStep
  <2>3. CASE RequestCreate(e)
    <3>1. request[e] = "idle" /\ jobs' = jobs
      BY <2>3 DEF RequestCreate, RequestStep
    <3> QED BY <2>1, <2>2, <2>3, <3>1
  <2>4. CASE ~RequestCreate(e)
    BY <1>0, <1>1, <2>4 DEF RequestNext, RequestEnqueue, RequestEnqueueFails, RequestCompensate,
       RequestCancelled, RequestStep
  <2> QED BY <2>3, <2>4
<1>2. ASSUME NEW e \in Deployments, RequestEnqueue(e), e = d
      PROVE  request'[d] = "done"
  BY <1>0, <1>2 DEF RequestEnqueue, RequestStep
<1>3. ASSUME NEW e \in Deployments, RequestEnqueue(e), e # d
      PROVE  jobs'[d] = jobs[d]
  BY <1>0, <1>3 DEF RequestEnqueue, CreateDeploymentJob, JobsType
<1>4. CASE \E e \in Deployments : RequestNext(e)
  BY <1>1, <1>2, <1>3, <1>4
<1>5. CASE ~ \E e \in Deployments : RequestNext(e)
  <2>1. ASSUME NEW e \in Deployments, Claim(e)
        PROVE  request' = request /\ (jobs'[d].status # "none" => jobs[d].status # "none")
    BY <1>0, <2>1 DEF Claim, ClaimNextRunnableDeploymentJob, Runnable, JobsType
  <2>2. ASSUME NEW a \in Attempts, Spawn(a) \/ AttemptNext(a)
        PROVE  request' = request
    BY <2>2, Program, Zenon DEF Spawn, Go
  <2>3. CASE Crash
    <3>1. jobs' = jobs
      BY <2>3 DEF Crash, storeVars
    <3>2. request'[d] = IF request[d] \in {"created", "failing"} THEN "lost" ELSE request[d]
      BY <2>3 DEF Crash
    <3> QED BY <3>1, <3>2
  <2>4. CASE Tick \/ Restart \/ UNCHANGED vars
    BY <2>4 DEF Tick, Restart, vars, procVars, storeVars
  <2>5. ASSUME NEW a \in Attempts, Spawn(a) \/ AttemptNext(a), jobs'[d].status # "none"
        PROVE  jobs[d].status # "none"
    <3>1. Spawn(a) => jobs' = jobs
      BY DEF Spawn, storeVars
    <3>2. AttemptNext(a) => Walks(a) \/ Ends(a) \/ Retries(a)
      BY <1>0, AttemptEffect
    <3>3. Ends(a) \/ Retries(a) => a[1] = d \/ jobs'[d] = jobs[d]
      BY <1>0 DEF Ends, Retries, JobsType
    <3>4. Ends(a) \/ Retries(a) => jobs[a[1]].status = "running"
      BY DEF Ends, Retries, IInv, HoldersOwnJob, Holding
    <3> QED BY <2>5, <3>1, <3>2, <3>3, <3>4 DEF Walks
  <2> QED BY <1>5, <2>1, <2>2, <2>3, <2>4, <2>5 DEF Next
<1> QED BY <1>4, <1>5

(* An attempt comes into being by a claim.                                 *)
LEMMA AttemptsAreClaimed ==
  ASSUME TypeOK, [Next]_vars, NEW a \in Attempts, pc[a] = "none", pc'[a] # "none"
  PROVE  jobs'[a[1]].status = "running"
<1>0. jobs \in JobsType /\ pc \in [Attempts -> PcStates] /\ a[1] \in Deployments
  BY AttemptPairs DEF TypeOK, StoreTypeOK, JobsType
<1>1. ASSUME NEW d \in Deployments, RequestNext(d)
      PROVE  pc' = pc
  BY <1>1, Zenon DEF RequestNext, RequestCreate, RequestEnqueue, RequestEnqueueFails,
              RequestCompensate, RequestCancelled, RequestStep
<1>2. ASSUME NEW b \in Attempts, Spawn(b) \/ AttemptNext(b)
      PROVE  pc'[a] = pc[a]
  <2>1. \E from \in Working \cup {"claimed"} : \E to :
          pc[b] = from /\ pc' = [pc EXCEPT ![b] = to]
    BY <1>2, Program, Zenon DEF Spawn, Go, Working
  <2>2. b # a
    BY <2>1 DEF Working
  <2> QED BY <1>0, <2>1, <2>2
<1>3. ASSUME NEW d \in Deployments, Claim(d)
      PROVE  jobs'[a[1]].status = "running"
  <2>1. Claims(d)
    BY <1>3 DEF Claim, ClaimNextRunnableDeploymentJob, Runnable, Claims
  <2>2. jobs[d].attempts + 1 \in 1..MaxAttempts
    BY <1>0, <2>1 DEF Claims, JobsType
  <2>3. a = <<d, jobs[d].attempts + 1>>
    BY <1>0, <2>1 DEF Claims
  <2>4. a[1] = d
    BY <2>2, <2>3, AttemptPairs
  <2> QED BY <1>0, <2>1, <2>4 DEF Claims, JobsType
<1>4. Crash => pc'[a] = pc[a]
  BY DEF Crash, Working
<1>5. Tick \/ Restart \/ UNCHANGED vars => pc' = pc
  BY DEF Tick, Restart, vars, procVars
<1> QED BY <1>1, <1>2, <1>3, <1>4, <1>5 DEF Next

LEMMA InitRows == Init => RowsPrecedeWork
BY DEF Init, StoreInit, NoJob, RowsPrecedeWork

LEMMA StepRows == IInv /\ RowsPrecedeWork /\ [Next]_vars => RowsPrecedeWork'
<1> SUFFICES ASSUME IInv, RowsPrecedeWork, [Next]_vars
             PROVE  RowsPrecedeWork'
  OBVIOUS
<1>0. /\ TypeOK /\ TypeOK' /\ deployments \in [Deployments -> DeploymentStatus]
      /\ pc \in [Attempts -> PcStates] /\ request \in [Deployments -> RequestStates]
  BY StepTypeOK DEF IInv, TypeOK, StoreTypeOK
<1>1. ASSUME NEW d \in Deployments
      PROVE  /\ jobs'[d].status # "none" => request'[d] = "done"
             /\ request'[d] = "idle" => request[d] = "idle"
             /\ request'[d] # "idle" => request[d] # "idle" \/ Creates(d)
  BY RequestChange DEF RowsPrecedeWork, Creates
<1>2. ASSUME NEW d \in Deployments
      PROVE  request'[d] = "idle" <=> deployments'[d] = "none"
  <2>1. request[d] = "idle" <=> deployments[d] = "none"
    BY DEF RowsPrecedeWork
  <2>2. CASE deployments' = deployments
    <3>1. ~Creates(d)
      BY <1>0, <2>1, <2>2 DEF Creates
    <3> QED BY <1>1, <2>1, <2>2, <3>1
  <2>3. ASSUME NEW e \in Deployments, Creates(e)
        PROVE  request'[d] = "idle" <=> deployments'[d] = "none"
    BY <1>0, <2>1, <2>3 DEF Creates
  <2>4. ASSUME NEW e \in Deployments, Compensates(e)
        PROVE  request'[d] = "idle" <=> deployments'[d] = "none"
    BY <1>0, <2>1, <2>4 DEF Compensates
  <2>5. ASSUME NEW a \in Attempts, NEW s \in {"running", "queued", "succeeded", "failed"},
               Writes(a, s)
        PROVE  request'[d] = "idle" <=> deployments'[d] = "none"
    <3>1. pc[a] # "none" /\ a[1] \in Deployments
      BY <2>5, AttemptPairs DEF Writes, Writers
    <3>2. request[a[1]] = "done"
      BY <3>1 DEF RowsPrecedeWork
    <3>3. request' = request /\ deployments' = [deployments EXCEPT ![a[1]] = s]
      BY <2>5, Zenon DEF Writes, Go
    <3> QED BY <1>0, <2>1, <3>1, <3>2, <3>3
  <2> QED BY <1>0, <2>2, <2>3, <2>4, <2>5, DeploymentChange
<1>3. ASSUME NEW a \in Attempts, pc'[a] # "none"
      PROVE  jobs'[a[1]].status # "none"
  <2>1. a[1] \in Deployments
    BY AttemptPairs
  <2>2. jobs[a[1]].status # "none" => jobs'[a[1]].status # "none"
    BY <2>1, NoRowVanishes DEF JobRows
  <2>3. CASE pc[a] # "none"
    BY <2>2, <2>3 DEF RowsPrecedeWork
  <2>4. CASE pc[a] = "none"
    BY <1>0, <1>3, <2>4, AttemptsAreClaimed
  <2> QED BY <2>3, <2>4
<1> QED BY <1>1, <1>2, <1>3 DEF RowsPrecedeWork

-----------------------------------------------------------------------------
(* What a late write can do                                                *)

(* The attempts that have told the deployment what they had to.            *)
Told == {"recordSucceeded", "recordFailed", "done"}

(* An attempt that is still to write "queued" has been tried before.       *)
LateWritersAreOld ==
  \A a \in Attempts : pc[a] = "depRetry" => a[2] <= jobs[a[1]].attempts

(* The last attempt of a job that ended is on its way out, and once it has *)
(* told the deployment only an older attempt's write can hide it.          *)
Concludes(a, d) ==
  /\ a[1] = d /\ a[2] = jobs[d].attempts
  /\ pc[a] \in Finishing \cup {"done"}
  /\ pc[a] \in Told => \/ deployments[d] = jobs[d].status
                       \/ deployments[d] = "queued" /\ jobs[d].attempts > 1

OutcomesAreTold ==
  \A d \in Deployments :
    jobs[d].status \in Terminal => \E a \in Attempts : Concludes(a, d)

LateInv ==
  /\ CleanInv /\ FinishersWereLast /\ RowsPrecedeWork /\ LateWritersAreOld
  /\ faults = 0 /\ crashes = 0 => OutcomesAreTold

LEMMA InitLate == Init => LateInv
<1> SUFFICES ASSUME Init
             PROVE  LateWritersAreOld /\ OutcomesAreTold
  BY InitClean, InitCount, InitRows DEF LateInv, CountInv
<1> QED BY AttemptPairs DEF Init, StoreInit, NoJob, LateWritersAreOld, OutcomesAreTold, Terminal

LEMMA StepOld == IInv /\ LateWritersAreOld /\ [Next]_vars => LateWritersAreOld'
<1> SUFFICES ASSUME IInv, LateWritersAreOld, [Next]_vars, NEW b \in Attempts, pc'[b] = "depRetry"
             PROVE  b[2] <= jobs'[b[1]].attempts
  BY DEF LateWritersAreOld
<1>0. /\ TypeOK /\ jobs \in JobsType /\ pc \in [Attempts -> PcStates]
      /\ b[1] \in Deployments /\ b[2] \in 1..MaxAttempts
  BY AttemptPairs DEF IInv, TypeOK, StoreTypeOK, JobsType
<1>1. pc[b] \in {"markRetry", "depRetry"}
  <2>1. ASSUME NEW a \in Attempts, AttemptNext(a)
        PROVE  pc[b] \in {"markRetry", "depRetry"}
    <3>1. PICK from, to : Go(a, from, to) /\ (to = "depRetry" => from = "markRetry")
      BY <2>1, Program
    <3> QED BY <1>0, <3>1 DEF Go
  <2>2. ASSUME NEW d \in Deployments, RequestNext(d) \/ Claim(d)
        PROVE  pc[b] = "depRetry"
    BY <1>0, <2>2 DEF RequestNext, RequestCreate, RequestEnqueue, RequestEnqueueFails,
       RequestCompensate, RequestCancelled, RequestStep, Claim
  <2>3. ASSUME NEW a \in Attempts, Spawn(a)
        PROVE  pc[b] = "depRetry"
    BY <1>0, <2>3 DEF Spawn
  <2>4. Crash => pc[b] = "depRetry"
    BY <1>0 DEF Crash
  <2>5. Tick \/ Restart \/ UNCHANGED vars => pc' = pc
    BY DEF Tick, Restart, vars, procVars
  <2> QED BY <2>1, <2>2, <2>3, <2>4, <2>5 DEF Next
<1>2. b[2] <= jobs[b[1]].attempts /\ b[1] \in JobRows
  <2>1. b[2] <= jobs[b[1]].attempts
    BY <1>0, <1>1 DEF IInv, HoldersOwnJob, LateWritersAreOld, Holding
  <2>2. jobs[b[1]].status # "none"
    BY <1>0, <2>1 DEF IInv, AbsentJobsAreFresh
  <2> QED BY <1>0, <2>1, <2>2 DEF JobRows
<1>3. jobs[b[1]].attempts <= jobs'[b[1]].attempts
  <2>1. CASE \A e \in Deployments : ~Posts(e)
    <3>1. jobs'[b[1]].status # "none"
      BY <1>2, NoRowVanishes DEF JobRows
    <3> QED BY <1>0, <2>1, <3>1, RowsStay
  <2>2. ASSUME NEW e \in Deployments, Posts(e)
        PROVE  jobs'[b[1]] = jobs[b[1]]
    BY <1>0, <1>2, <2>2 DEF Posts, JobRows, JobsType
  <2> QED BY <1>0, <2>1, <2>2 DEF JobsType
<1>4. jobs'[b[1]].attempts \in Nat
  BY <1>0, StepTypeOK DEF TypeOK, StoreTypeOK
<1> QED BY <1>0, <1>2, <1>3, <1>4 DEF JobsType

(* What an attempt on its way out does when nothing fails.                 *)
LEMMA TellsOutcome ==
  ASSUME TypeOK, Clean, faults' = 0, NEW a \in Attempts, AttemptNext(a),
         pc[a] \in Finishing \cup {"done"}
  PROVE  /\ pc'[a] \in Told
         /\ pc[a] \notin Told => deployments'[a[1]] = jobs[a[1]].status
<1>0. /\ TypeOK /\ pc \in [Attempts -> PcStates] /\ faults \in Nat /\ a[1] \in Deployments
      /\ deployments \in [Deployments -> DeploymentStatus]
  BY AttemptPairs DEF TypeOK, StoreTypeOK
<1>1. \/ Go(a, "depSucceeded", "recordSucceeded") \/ Go(a, "recordSucceeded", "done")
      \/ Go(a, "depFailed", "recordFailed") \/ Go(a, "recordFailed", "done")
  BY Program DEF Go, Finishing, Succeeding, Failing
<1>2. pc'[a] \in Told
  BY <1>0, <1>1 DEF Go, Told
<1>3. ASSUME pc[a] \notin Told
      PROVE  deployments'[a[1]] = jobs[a[1]].status
  <2>1. pc[a] \in {"depSucceeded", "depFailed"}
    BY <1>3 DEF Finishing, Succeeding, Failing, Told
  <2>2. DeploymentSucceeded(a) \/ DeploymentFailed(a)
    BY <2>1, Zenon DEF AttemptNext, Go, Load, DropOrphan, AbortJob, AbortDeployment, Begin,
       ExecuteSucceeds, ExecuteFails, MarkSucceeded, RecordSucceeded,
       MarkRetry, DeploymentRetry, MarkFailed, RecordFailed
  <2>3. ~Fault
    BY <1>0 DEF Fault
  <2>4. CASE DeploymentSucceeded(a)
    <3>1. pc[a] = "depSucceeded" /\ deployments' = [deployments EXCEPT ![a[1]] = "succeeded"]
      BY <2>3, <2>4, Zenon DEF DeploymentSucceeded, Go, Ignoring, UpdateDeploymentOutcome
    <3> QED BY <1>0, <3>1 DEF Clean, Succeeding
  <2>5. CASE DeploymentFailed(a)
    <3>1. pc[a] = "depFailed" /\ deployments' = [deployments EXCEPT ![a[1]] = "failed"]
      BY <2>3, <2>5, Zenon DEF DeploymentFailed, Go, Ignoring, UpdateDeploymentOutcome
    <3> QED BY <1>0, <3>1 DEF Clean, Failing
  <2> QED BY <2>2, <2>4, <2>5
<1> QED BY <1>2, <1>3

(* What a concluded attempt has told stays, or is hidden by a retry's late *)
(* write.                                                                  *)
LEMMA ToldStays ==
  ASSUME IInv, Clean, FinishersWereLast, RowsPrecedeWork, LateWritersAreOld, [Next]_vars,
         NEW d \in Deployments, jobs[d].status \in Terminal,
         NEW a \in Attempts, Concludes(a, d), pc[a] \in Told
  PROVE  \/ deployments'[d] = deployments[d]
         \/ deployments'[d] = "queued" /\ jobs[d].attempts > 1
<1>0. /\ TypeOK /\ deployments \in [Deployments -> DeploymentStatus]
      /\ jobs \in JobsType
      /\ a[1] = d /\ a[2] = jobs[d].attempts
  BY DEF IInv, TypeOK, StoreTypeOK, JobsType, Concludes
<1>1. ASSUME NEW e \in Deployments, Creates(e) \/ Compensates(e)
      PROVE  deployments'[d] = deployments[d]
  <2>1. request[d] = "done"
    BY DEF RowsPrecedeWork, Terminal
  <2>2. e # d
    BY <1>1, <2>1 DEF Creates, Compensates
  <2> QED BY <1>0, <1>1, <2>2 DEF Creates, Compensates
<1>2. ASSUME NEW b \in Attempts, NEW s \in {"running", "queued", "succeeded", "failed"},
             Writes(b, s)
      PROVE  \/ deployments'[d] = deployments[d]
             \/ deployments'[d] = "queued" /\ jobs[d].attempts > 1
  <2>1. CASE b[1] # d
    BY <1>0, <1>2, <2>1 DEF Writes
  <2>2. CASE b[1] = d
    <3>1. pc[b] # "begin"
      BY <2>2 DEF IInv, HoldersOwnJob, Holding, Terminal
    <3>2. pc[b] \notin {"depSucceeded", "depFailed"}
      <4>1. ASSUME pc[b] \in {"depSucceeded", "depFailed"}
            PROVE  b = a
        BY <1>0, <2>2, <4>1, AttemptPairs DEF FinishersWereLast, Finishing, Succeeding, Failing
      <4> QED BY <4>1 DEF Told
    <3>3. pc[b] # "abortDep"
      BY DEF Clean
    <3>4. s = "queued" /\ pc[b] = "depRetry"
      BY <1>2, <3>1, <3>2, <3>3 DEF Writes, Writers
    <3>5. b[2] <= jobs[d].attempts
      BY <2>2, <3>4 DEF LateWritersAreOld
    <3>6. b[2] # a[2]
      BY <1>0, <2>2, <3>4, AttemptPairs DEF Told
    <3>7. jobs[d].attempts > 1
      <4>1. b[2] \in Nat /\ b[2] >= 1 /\ jobs[d].attempts \in Nat
        BY <1>0, AttemptPairs DEF JobsType
      <4> QED BY <1>0, <3>5, <3>6, <4>1
    <3>8. deployments'[d] = "queued"
      BY <1>0, <1>2, <2>2, <3>4 DEF Writes
    <3> QED BY <3>7, <3>8
  <2> QED BY <2>1, <2>2
<1> QED BY <1>0, <1>1, <1>2, DeploymentChange

LEMMA StepTold ==
  ASSUME IInv, Clean, FinishersWereLast, RowsPrecedeWork, LateWritersAreOld, OutcomesAreTold,
         [Next]_vars, faults' = 0, crashes' = 0
  PROVE  OutcomesAreTold'
<1>0. /\ TypeOK /\ jobs \in JobsType /\ pc \in [Attempts -> PcStates]
      /\ IInv'
  BY StepIInv DEF IInv, TypeOK, StoreTypeOK, JobsType
<1> SUFFICES ASSUME NEW d \in Deployments, jobs'[d].status \in Terminal
             PROVE  \E a \in Attempts : Concludes(a, d)'
  BY DEF OutcomesAreTold
<1>1. CASE jobs[d].status \notin Terminal
  <2>1. ASSUME NEW a \in Attempts, NEW from \in Holding, NEW s \in Terminal,
               NEW to \in {"depSucceeded", "depFailed"}, Marks(a, from, s, to)
        PROVE  Concludes(a, d)'
    <3>1. a[1] = d
      BY <1>0, <1>1, <2>1 DEF Marks, JobsType
    <3>2. jobs[d].attempts = a[2]
      BY <2>1, <3>1 DEF Marks, IInv, HoldersOwnJob
    <3>3. jobs'[d].attempts = jobs[d].attempts /\ pc'[a] = to
      BY <1>0, <2>1, <3>1 DEF Marks, JobsType
    <3>4. to \in Finishing /\ to \notin Told
      BY DEF Finishing, Succeeding, Failing, Told
    <3> QED BY <3>1, <3>2, <3>3, <3>4 DEF Concludes
  <2>2. ASSUME NEW a \in Attempts, AttemptNext(a)
        PROVE  \E b \in Attempts : Concludes(b, d)'
    <3>1. pc[a] \notin {"orphan", "abort", "abortDep"}
      BY DEF Clean
    <3>2. ~Moves(a) /\ ~Records(a, "recordSucceeded", "succeeded")
          /\ ~Records(a, "recordFailed", "failed")
      BY <1>1 DEF Moves, Records
    <3>3. ~Retries(a)
      <4>1. ASSUME Retries(a)
            PROVE  jobs'[d].status \in {"retrying", jobs[d].status}
        <5>1. PICK t \in Nat :
                jobs' = [jobs EXCEPT ![a[1]].status = "retrying", ![a[1]].nextAt = t]
          BY <4>1, Zenon DEF Retries
        <5>2. CASE a[1] = d
          BY <1>0, <5>1, <5>2 DEF JobsType
        <5>3. CASE a[1] # d
          BY <1>0, <5>1, <5>3 DEF JobsType
        <5> QED BY <5>2, <5>3
      <4> QED BY <1>1, <4>1 DEF Terminal
    <3>4. \/ Marks(a, "markSucceeded", "succeeded", "depSucceeded")
          \/ Marks(a, "markFailed", "failed", "depFailed")
      BY <1>0, <2>2, <3>1, <3>2, <3>3, CleanAttempt
    <3>5. Concludes(a, d)'
      BY <2>1, <3>4 DEF Holding, Terminal
    <3> QED BY <3>5
  <2> QED BY <1>0, <1>1, <2>2, OutcomesAreMarked
<1>2. CASE jobs[d].status \in Terminal
  <2>1. jobs'[d] = jobs[d]
    BY <1>2, SettledRowStays
  <2>2. PICK a \in Attempts : Concludes(a, d)
    BY <1>2 DEF OutcomesAreTold
  <2>3. /\ a[1] = d /\ a[2] = jobs[d].attempts /\ pc[a] \in Finishing \cup {"done"}
        /\ pc[a] \in Told => \/ deployments[d] = jobs[d].status
                             \/ deployments[d] = "queued" /\ jobs[d].attempts > 1
    BY <2>2 DEF Concludes
  <2>4. CASE AttemptNext(a)
    <3>1. /\ pc'[a] \in Told
          /\ pc[a] \notin Told => deployments'[d] = jobs[d].status
      BY <1>0, <2>3, <2>4, TellsOutcome
    <3>2. pc[a] \in Told => \/ deployments'[d] = deployments[d]
                            \/ deployments'[d] = "queued" /\ jobs[d].attempts > 1
      BY <1>2, <2>2, ToldStays
    <3>3. pc'[a] \in Finishing \cup {"done"}
      BY <3>1 DEF Told, Finishing, Succeeding, Failing
    <3>4. Concludes(a, d)'
      BY <2>1, <2>3, <3>1, <3>2, <3>3 DEF Concludes
    <3> QED BY <3>4
  <2>5. CASE ~AttemptNext(a)
    <3>1. pc'[a] = pc[a]
      <4>1. ASSUME NEW b \in Attempts, AttemptNext(b)
            PROVE  pc'[a] = pc[a]
        <5>1. b # a
          BY <2>5, <4>1
        <5>2. PICK from, to : Go(b, from, to)
          BY <4>1, Program, Zenon
        <5> QED BY <1>0, <5>1, <5>2 DEF Go
      <4>2. CASE ~ \E b \in Attempts : AttemptNext(b)
        <5>1. pc'[a] \notin Holding
          BY <1>0, <2>1, <2>3, <1>2 DEF IInv, HoldersOwnJob, Terminal
        <5> QED BY <1>0, <4>2, <5>1, CleanOther
      <4> QED BY <4>1, <4>2
    <3>2. pc[a] \in Told => \/ deployments'[d] = deployments[d]
                            \/ deployments'[d] = "queued" /\ jobs[d].attempts > 1
      BY <1>2, <2>2, ToldStays
    <3>3. Concludes(a, d)'
      BY <2>1, <2>3, <3>1, <3>2 DEF Concludes
    <3> QED BY <3>3
  <2> QED BY <2>4, <2>5
<1> QED BY <1>1, <1>2

(* Without failing statements and crashes, the write of a late retry is    *)
(* all that can go wrong with a deployment whose job has ended.            *)
THEOREM LateRetriesOnlyHide == Spec => []LateRetryOnlyRequeues
<1>1. LateInv /\ [Next]_vars => LateInv'
  <2> SUFFICES ASSUME LateInv, [Next]_vars
               PROVE  LateInv'
    OBVIOUS
  <2>1. IInv /\ TypeOK /\ CleanInv /\ FinishersWereLast /\ RowsPrecedeWork /\ LateWritersAreOld
    BY DEF LateInv, CleanInv, IInv
  <2>2. faults' = 0 => faults = 0 /\ Clean
    BY <2>1, FaultsRemain DEF CleanInv
  <2>3. CleanInv'
    BY <2>1, <2>2, StepIInv, StepClean DEF CleanInv
  <2>4. FinishersWereLast' /\ RowsPrecedeWork' /\ LateWritersAreOld'
    BY <2>1, StepFinishers, StepRows, StepOld
  <2>5. ASSUME faults' = 0, crashes' = 0
        PROVE  OutcomesAreTold'
    <3>1. OutcomesAreTold
      BY <2>1, <2>2, <2>5, CrashesRemain DEF LateInv
    <3> QED BY <2>1, <2>2, <2>5, <3>1, StepTold
  <2> QED BY <2>3, <2>4, <2>5 DEF LateInv
<1>2. LateInv => LateRetryOnlyRequeues
  <2> SUFFICES ASSUME LateInv, faults = 0, crashes = 0, NEW d \in Deployments,
                      jobs[d].status \in Terminal, \A a \in Goroutines : a[1] # d
               PROVE  \/ deployments[d] = jobs[d].status
                      \/ deployments[d] = "queued" /\ jobs[d].attempts > 1
    BY DEF LateRetryOnlyRequeues
  <2>1. PICK a \in Attempts : Concludes(a, d)
    BY DEF LateInv, OutcomesAreTold
  <2>2. pc[a] \notin Working
    BY <2>1 DEF Concludes, Goroutines
  <2>3. pc[a] \in Told
    BY <2>1, <2>2 DEF Concludes, Told, Finishing, Succeeding, Failing, Working
  <2> QED BY <2>1, <2>3 DEF Concludes
<1> QED BY <1>1, <1>2, InitLate, PTL DEF Spec
=============================================================================
