-------------------------- MODULE QueueOrderProofs --------------------------
(***************************************************************************)
(* Three theorems about DeployQueue that are about many attempts at once:  *)
(* in which order jobs get their first one, how many are under way, and    *)
(* how many jobs those that fail or die leave behind.                      *)
(***************************************************************************)
EXTENDS DeployQueueProofs

USE DeploymentsAssumption, AppOfAssumption, MaxAttemptsAssumption

LEMMA TimePasses ==
  ASSUME TypeOK, [Next]_vars
  PROVE  now \in Nat /\ now' \in Nat /\ now <= now'
<1>1. now \in Nat
  BY DEF TypeOK, StoreTypeOK
<1>2. now' = now \/ now' = now + 1
  <2>1. ASSUME NEW d \in Deployments, RequestNext(d) \/ Claim(d)
        PROVE  now' = now
    BY <2>1 DEF RequestNext, RequestCreate, RequestEnqueue, RequestEnqueueFails,
                RequestCompensate, RequestCancelled, RequestStep, Claim
  <2>2. ASSUME NEW a \in Attempts, Spawn(a) \/ AttemptNext(a)
        PROVE  now' = now
    BY <2>2 DEF Spawn, storeVars, AttemptNext, Go, Load, DropOrphan, AbortJob, AbortDeployment,
                Begin, ExecuteSucceeds, ExecuteFails, MarkSucceeded, DeploymentSucceeded,
                RecordSucceeded, MarkRetry, DeploymentRetry, MarkFailed, DeploymentFailed,
                RecordFailed
  <2> QED BY <2>1, <2>2 DEF Next, Tick, Crash, Restart, vars, storeVars
<1> QED BY <1>1, <1>2

-----------------------------------------------------------------------------
(* The order of first attempts                                             *)

(* Jobs that have had no try are queued, are due, and have the order of    *)
(* their ids; an id is never given twice.                                  *)
FreshJobsInOrder ==
  /\ \A d \in JobRows : jobs[d].id <= Cardinality(JobRows)
  /\ \A d \in JobRows : jobs[d].attempts = 0 => jobs[d].status = "queued" /\ jobs[d].nextAt <= now
  /\ \A d, e \in JobRows : jobs[d].id = jobs[e].id => d = e
  /\ \A d, e \in JobRows :
       jobs[d].attempts = 0 /\ jobs[e].attempts = 0 /\ jobs[d].id < jobs[e].id
         => jobs[d].nextAt <= jobs[e].nextAt

OrderInv == IInv /\ FreshJobsInOrder /\ FirstAttemptsInOrder

LEMMA InitOrder == Init => OrderInv
<1> SUFFICES ASSUME Init
             PROVE  OrderInv
  OBVIOUS
<1>1. JobRows = {}
  BY DEF Init, StoreInit, NoJob, JobRows
<1> QED BY <1>1, InitIInv DEF OrderInv, FreshJobsInOrder, FirstAttemptsInOrder

(* What a step does to the rows, as far as their order is concerned.       *)
LEMMA RowsStay ==
  ASSUME IInv, [Next]_vars, NEW d \in Deployments, jobs'[d].status # "none",
         \A e \in Deployments : ~Posts(e)
  PROVE  /\ d \in JobRows /\ jobs'[d].id = jobs[d].id
         /\ jobs[d].attempts <= jobs'[d].attempts
         /\ jobs'[d].attempts = 0 => jobs'[d] = jobs[d]
<1>1. TypeOK /\ jobs \in JobsType /\ HoldersOwnJob
  BY DEF IInv, TypeOK, StoreTypeOK, JobsType
<1>2. /\ jobs[d].status # "none" => d \in JobRows
      /\ jobs[d].attempts \in Nat
  BY <1>1 DEF JobRows, JobsType
<1>3. ASSUME jobs' = jobs
      PROVE  /\ d \in JobRows /\ jobs'[d].id = jobs[d].id
             /\ jobs[d].attempts <= jobs'[d].attempts
             /\ jobs'[d].attempts = 0 => jobs'[d] = jobs[d]
  BY <1>2, <1>3
<1>4. ASSUME NEW a \in Attempts, Ends(a) \/ Retries(a)
      PROVE  /\ d \in JobRows /\ jobs'[d].id = jobs[d].id
             /\ jobs[d].attempts <= jobs'[d].attempts
             /\ jobs'[d].attempts = 0 => jobs'[d] = jobs[d]
  <2>1. jobs[a[1]].status = "running" /\ jobs[a[1]].attempts = a[2] /\ a[1] \in Deployments
        /\ a[2] \in 1..MaxAttempts
    BY <1>1, <1>4, AttemptPairs DEF HoldersOwnJob, Ends, Retries, Holding
  <2>2. /\ \A e \in Deployments : e # a[1] => jobs'[e] = jobs[e]
        /\ jobs'[a[1]].attempts = jobs[a[1]].attempts /\ jobs'[a[1]].id = jobs[a[1]].id
    <3>1. CASE Ends(a)
      BY <1>1, <2>1, <3>1 DEF Ends, JobsType
    <3>2. CASE Retries(a)
      BY <1>1, <2>1, <3>2 DEF Retries, JobsType
    <3> QED BY <1>4, <3>1, <3>2
  <2> QED BY <1>2, <2>1, <2>2
<1>5. ASSUME NEW e \in Deployments, Claims(e)
      PROVE  /\ d \in JobRows /\ jobs'[d].id = jobs[d].id
             /\ jobs[d].attempts <= jobs'[d].attempts
             /\ jobs'[d].attempts = 0 => jobs'[d] = jobs[d]
  <2>1. /\ \A c \in Deployments : c # e => jobs'[c] = jobs[c]
        /\ jobs'[e].attempts = jobs[e].attempts + 1 /\ jobs'[e].id = jobs[e].id
        /\ jobs[e].status # "none" /\ jobs[e].attempts \in Nat
    BY <1>1, <1>5 DEF Claims, JobsType
  <2> QED BY <1>2, <2>1
<1> QED BY <1>1, <1>3, <1>4, <1>5, StepEffect DEF Walks, Idles

(* Rows are never deleted.                                                 *)
LEMMA NoRowVanishes ==
  ASSUME IInv, [Next]_vars
  PROVE  JobRows \subseteq JobRows'
<1>1. TypeOK /\ jobs \in JobsType /\ HoldersOwnJob
  BY DEF IInv, TypeOK, StoreTypeOK, JobsType
<1> SUFFICES ASSUME NEW d \in Deployments, jobs[d].status # "none"
             PROVE  jobs'[d].status # "none"
  BY DEF JobRows
<1>2. ASSUME NEW a \in Attempts, Ends(a)
      PROVE  jobs'[d].status # "none"
  BY <1>1, <1>2 DEF Ends, JobsType, Terminal
<1>3. ASSUME NEW a \in Attempts, Retries(a)
      PROVE  jobs'[d].status # "none"
  BY <1>1, <1>3 DEF Retries, JobsType
<1>4. ASSUME NEW e \in Deployments, Claims(e)
      PROVE  jobs'[d].status # "none"
  BY <1>1, <1>4 DEF Claims, JobsType
<1>5. ASSUME NEW e \in Deployments, Posts(e)
      PROVE  jobs'[d].status # "none"
  BY <1>1, <1>5 DEF Posts, JobsType
<1> QED BY <1>1, <1>2, <1>3, <1>4, <1>5, StepEffect DEF Walks, Idles

(* An untried job is changed by nothing but its claim.                     *)
LEMMA FirstTry ==
  ASSUME IInv, [Next]_vars, NEW d \in JobRows, jobs[d].attempts = 0, jobs'[d] # jobs[d]
  PROVE  Claims(d)
<1>1. TypeOK /\ jobs \in JobsType /\ HoldersOwnJob /\ d \in Deployments /\ jobs[d].status # "none"
  BY DEF IInv, TypeOK, StoreTypeOK, JobsType, JobRows
<1>2. ASSUME NEW a \in Attempts, Ends(a) \/ Retries(a)
      PROVE  jobs'[d] = jobs[d]
  <2>1. jobs[a[1]].attempts = a[2] /\ a[1] \in Deployments /\ a[2] \in 1..MaxAttempts
    BY <1>1, <1>2, AttemptPairs DEF HoldersOwnJob, Ends, Retries, Holding
  <2>2. a[1] # d
    BY <2>1
  <2>3. CASE Ends(a)
    BY <1>1, <2>2, <2>3 DEF Ends, JobsType
  <2>4. CASE Retries(a)
    BY <1>1, <2>2, <2>4 DEF Retries, JobsType
  <2> QED BY <1>2, <2>3, <2>4
<1>3. ASSUME NEW e \in Deployments, Claims(e) \/ Posts(e), e # d
      PROVE  jobs'[d] = jobs[d]
  BY <1>1, <1>3 DEF Claims, Posts, JobsType
<1>4. ~Posts(d)
  BY <1>1 DEF Posts
<1> QED BY <1>1, <1>2, <1>3, <1>4, StepEffect DEF Walks, Idles

LEMMA StepOrder == OrderInv /\ [Next]_vars => OrderInv'
<1> SUFFICES ASSUME OrderInv, [Next]_vars
             PROVE  FreshJobsInOrder' /\ FirstAttemptsInOrder'
  BY StepIInv DEF OrderInv
<1>0. IInv /\ TypeOK /\ FreshJobsInOrder /\ FirstAttemptsInOrder
  BY DEF OrderInv, IInv
<1>1. now \in Nat /\ now' \in Nat /\ now <= now'
  BY <1>0, TimePasses
<1>2. IsFiniteSet(JobRows) /\ IsFiniteSet(JobRows') /\ Cardinality(JobRows) \in Nat
  <2>1. JobRows \in SUBSET Deployments /\ JobRows' \in SUBSET Deployments
    BY DEF JobRows
  <2>2. IsFiniteSet(JobRows) /\ IsFiniteSet(JobRows')
    BY <2>1, FS_Subset
  <2> QED BY <2>2, FS_CardinalityType
<1>3. \A d \in JobRows : /\ jobs[d].id \in Nat /\ jobs[d].nextAt \in Nat
                         /\ jobs[d].attempts \in Nat /\ d \in Deployments
  BY <1>0 DEF JobRows, TypeOK, StoreTypeOK
<1>4. CASE \A e \in Deployments : ~Posts(e)
  <2>1. \A d \in JobRows' : /\ d \in JobRows /\ jobs'[d].id = jobs[d].id
                            /\ jobs[d].attempts <= jobs'[d].attempts
                            /\ jobs'[d].attempts = 0 => jobs'[d] = jobs[d]
    BY <1>0, <1>4, RowsStay DEF JobRows
  <2>2. JobRows' = JobRows
    <3>1. JobRows \subseteq JobRows'
      BY <1>0, NoRowVanishes
    <3> QED BY <2>1, <3>1
  <2>3. FreshJobsInOrder'
    BY <1>0, <1>1, <1>2, <1>3, <2>1, <2>2 DEF FreshJobsInOrder
  <2>4. ASSUME NEW d \in JobRows', NEW e \in JobRows',
               AppOf[d] = AppOf[e], jobs'[d].id < jobs'[e].id, jobs'[e].attempts > 0,
               jobs'[d].attempts = 0
        PROVE  FALSE
    <3>1. /\ d \in JobRows /\ e \in JobRows /\ jobs[d].id < jobs[e].id
          /\ jobs'[d] = jobs[d] /\ jobs[d].attempts = 0
      BY <2>1, <2>4
    <3>2. jobs[e].attempts = 0
      BY <1>0, <1>3, <2>4, <3>1 DEF FirstAttemptsInOrder
    <3>3. jobs'[e] # jobs[e]
      BY <2>4, <3>2
    <3>4. Claims(e)
      BY <1>0, <1>3, <3>1, <3>2, <3>3, <1>4, FirstTry
    <3>5. Runnable(d)
      <4>1. jobs[d].status = "queued" /\ jobs[e].status = "queued" /\ jobs[d].nextAt <= now
        BY <1>0, <3>1, <3>2 DEF FreshJobsInOrder
      <4>2. AppIsFree(d)
        BY <2>4, <3>4, <4>1 DEF Claims, AppIsFree
      <4> QED BY <3>1, <4>1, <4>2, MaxAttemptsAssumption DEF Runnable
    <3>6. Precedes(e, d)
      BY <1>3, <3>1, <3>4, <3>5 DEF Claims
    <3>7. jobs[d].nextAt <= jobs[e].nextAt
      BY <1>0, <3>1, <3>2 DEF FreshJobsInOrder
    <3> QED BY <1>3, <3>1, <3>6, <3>7 DEF Precedes
  <2>5. FirstAttemptsInOrder'
    <3> SUFFICES ASSUME NEW d \in JobRows', NEW e \in JobRows',
                        AppOf[d] = AppOf[e], jobs'[d].id < jobs'[e].id, jobs'[e].attempts > 0
                 PROVE  jobs'[d].attempts > 0
      BY DEF FirstAttemptsInOrder
    <3>1. jobs'[d].attempts \in Nat
      BY <1>0, StepTypeOK DEF TypeOK, StoreTypeOK, JobRows
    <3> QED BY <2>4, <3>1
  <2> QED BY <2>3, <2>5
<1>5. ASSUME NEW d \in Deployments, Posts(d)
      PROVE  FreshJobsInOrder' /\ FirstAttemptsInOrder'
  <2>1. /\ d \notin JobRows /\ JobRows' = JobRows \cup {d}
        /\ \A e \in JobRows : jobs'[e] = jobs[e]
        /\ jobs'[d] = [status |-> "queued", attempts |-> 0, nextAt |-> now,
                       id |-> Cardinality(JobRows) + 1]
    BY <1>0, <1>5 DEF Posts, JobRows, TypeOK, StoreTypeOK
  <2>2. Cardinality(JobRows') = Cardinality(JobRows) + 1
    BY <1>2, <2>1, FS_AddElement
  <2>3. FreshJobsInOrder'
    BY <1>0, <1>1, <1>2, <1>3, <2>1, <2>2 DEF FreshJobsInOrder
  <2>4. FirstAttemptsInOrder'
    BY <1>0, <1>2, <1>3, <2>1, <2>2 DEF FirstAttemptsInOrder, FreshJobsInOrder
  <2> QED BY <2>3, <2>4
<1> QED BY <1>4, <1>5

(* Within an app, no job has its first try before an older one: the claim  *)
(* takes the least next_attempt_at and then the least id of those that can *)
(* run, and untried jobs of an app that is free can all run.               *)
THEOREM FirstTriesInOrder == Spec => []FirstAttemptsInOrder
<1>1. Spec => []OrderInv
  BY InitOrder, StepOrder, PTL DEF Spec
<1>2. OrderInv => FirstAttemptsInOrder
  BY DEF OrderInv
<1> QED BY <1>1, <1>2, PTL

-----------------------------------------------------------------------------
(* The number of attempts under way                                        *)

(* The loop claims the next job only when it has handed over the last.     *)
LoopHoldsOne ==
  \A a, b \in Attempts : pc[a] = "claimed" /\ pc[b] = "claimed" => a = b

SlotsAreKept == Cardinality(Goroutines) <= Concurrency

CrowdInv == IInv /\ LoopHoldsOne /\ SlotsAreKept

LEMMA AttemptsAreFinite ==
  /\ IsFiniteSet(Attempts)
  /\ \A S \in SUBSET Attempts : IsFiniteSet(S) /\ Cardinality(S) \in Nat
<1>1. IsFiniteSet(1..MaxAttempts)
  <2>1. 1 \in Int /\ MaxAttempts \in Int
    OBVIOUS
  <2> QED BY <2>1, FS_Interval
<1>2. IsFiniteSet(Attempts)
  BY <1>1, FS_Product DEF Attempts
<1> QED BY <1>2, FS_Subset, FS_CardinalityType

LEMMA InitCrowd == Init => CrowdInv
<1> SUFFICES ASSUME Init
             PROVE  LoopHoldsOne /\ SlotsAreKept
  BY InitIInv DEF CrowdInv
<1>1. Goroutines = {} /\ \A a \in Attempts : pc[a] # "claimed"
  BY DEF Init, Goroutines, Working
<1> QED BY <1>1, FS_EmptySet, ConcurrencyAssumption DEF LoopHoldsOne, SlotsAreKept

(* No step but Spawn adds a goroutine, and none but Claim a claimed job.   *)
LEMMA CrowdChange ==
  ASSUME TypeOK, [Next]_vars
  PROVE  /\ \/ Goroutines' \subseteq Goroutines
            \/ \E a \in Attempts : Spawn(a)
         /\ \/ \A a \in Attempts : pc'[a] = "claimed" => pc[a] = "claimed"
            \/ \E d \in Deployments : Claim(d)
<1>0. pc \in [Attempts -> PcStates]
  BY DEF TypeOK
<1>1. ASSUME NEW a \in Attempts, AttemptNext(a)
      PROVE  /\ pc[a] \in Working
             /\ \E to \in PcStates \ {"claimed"} : pc' = [pc EXCEPT ![a] = to]
  BY <1>1, Zenon DEF AttemptNext, Go, Load, DropOrphan, AbortJob, AbortDeployment, Begin, ExecuteSucceeds,
         ExecuteFails, MarkSucceeded, DeploymentSucceeded, RecordSucceeded, MarkRetry,
         DeploymentRetry, MarkFailed, DeploymentFailed, RecordFailed, Working, PcStates
<1>2. ASSUME NEW a \in Attempts, AttemptNext(a)
      PROVE  /\ Goroutines' \subseteq Goroutines
             /\ \A b \in Attempts : pc'[b] = "claimed" => pc[b] = "claimed"
  BY <1>0, <1>1, <1>2 DEF Goroutines
<1>3. ASSUME \A b \in Attempts : pc'[b] \in {pc[b], "lost"}
      PROVE  /\ Goroutines' \subseteq Goroutines
             /\ \A b \in Attempts : pc'[b] = "claimed" => pc[b] = "claimed"
  BY <1>0, <1>3 DEF Goroutines, Working
<1>4. ASSUME NEW d \in Deployments, RequestNext(d)
      PROVE  pc' = pc
  BY <1>4 DEF RequestNext, RequestCreate, RequestEnqueue, RequestEnqueueFails,
              RequestCompensate, RequestCancelled, RequestStep
<1>5. ASSUME NEW d \in Deployments, Claim(d)
      PROVE  Goroutines' \subseteq Goroutines
  BY <1>0, <1>5 DEF Claim, Goroutines, Working
<1>6. ASSUME NEW a \in Attempts, Spawn(a)
      PROVE  \A b \in Attempts : pc'[b] = "claimed" => pc[b] = "claimed"
  BY <1>0, <1>6 DEF Spawn
<1>7. Crash => \A b \in Attempts : pc'[b] \in {pc[b], "lost"}
  BY DEF Crash
<1>8. Tick \/ Restart \/ UNCHANGED vars => pc' = pc
  BY DEF Tick, Restart, vars, procVars
<1> QED BY <1>2, <1>3, <1>4, <1>5, <1>6, <1>7, <1>8 DEF Next

LEMMA StepCrowd == CrowdInv /\ [Next]_vars => CrowdInv'
<1> SUFFICES ASSUME CrowdInv, [Next]_vars
             PROVE  LoopHoldsOne' /\ SlotsAreKept'
  BY StepIInv DEF CrowdInv
<1>0. IInv /\ TypeOK /\ pc \in [Attempts -> PcStates]
  BY DEF CrowdInv, IInv, TypeOK
<1>1. LoopHoldsOne'
  <2>1. CASE \A a \in Attempts : pc'[a] = "claimed" => pc[a] = "claimed"
    BY <2>1 DEF CrowdInv, LoopHoldsOne
  <2>2. ASSUME NEW d \in Deployments, Claim(d)
        PROVE  LoopHoldsOne'
    BY <1>0, <2>2 DEF Claim, LoopIsFree, LoopHoldsOne
  <2> QED BY <1>0, <2>1, <2>2, CrowdChange
<1>2. SlotsAreKept'
  <2>1. Goroutines \in SUBSET Attempts /\ Goroutines' \in SUBSET Attempts
    BY DEF Goroutines
  <2>2. CASE Goroutines' \subseteq Goroutines
    <3>1. Cardinality(Goroutines') <= Cardinality(Goroutines)
      BY <2>1, <2>2, AttemptsAreFinite, FS_Subset
    <3> QED BY <2>1, <3>1, AttemptsAreFinite, ConcurrencyAssumption DEF CrowdInv, SlotsAreKept
  <2>3. ASSUME NEW a \in Attempts, Spawn(a)
        PROVE  SlotsAreKept'
    <3>1. Goroutines' \subseteq Goroutines \cup {a} /\ Cardinality(Goroutines) < Concurrency
      BY <1>0, <2>3 DEF Spawn, Goroutines
    <3>2. /\ IsFiniteSet(Goroutines \cup {a})
          /\ Cardinality(Goroutines \cup {a}) <= Cardinality(Goroutines) + 1
      BY <2>1, AttemptsAreFinite, FS_AddElement
    <3>3. Cardinality(Goroutines') <= Cardinality(Goroutines \cup {a})
      BY <3>1, <3>2, FS_Subset
    <3>4. /\ Cardinality(Goroutines) \in Nat /\ Cardinality(Goroutines') \in Nat
          /\ Cardinality(Goroutines \cup {a}) \in Nat
      BY <2>1, <3>2, AttemptsAreFinite, FS_CardinalityType
    <3> QED BY <3>1, <3>2, <3>3, <3>4, ConcurrencyAssumption DEF SlotsAreKept
  <2> QED BY <1>0, <2>2, <2>3, CrowdChange
<1> QED BY <1>1, <1>2

(* Who holds a job runs in a slot, or is the one job the loop has claimed. *)
LEMMA CrowdIsSmall == CrowdInv => WithinConcurrency
<1> SUFFICES ASSUME CrowdInv
             PROVE  WithinConcurrency
  OBVIOUS
<1> DEFINE held == {a \in Attempts : pc[a] \in Holding}
<1>1. Goroutines \in SUBSET Attempts /\ held \in SUBSET Attempts
  BY DEF Goroutines
<1>2. \E c : held \subseteq Goroutines \cup {c}
  <2>1. CASE \E a \in Attempts : pc[a] = "claimed"
    BY <2>1 DEF CrowdInv, LoopHoldsOne, Goroutines, Holding, Working
  <2>2. CASE \A a \in Attempts : pc[a] # "claimed"
    BY <2>2 DEF Goroutines, Holding, Working
  <2> QED BY <2>1, <2>2
<1>3. PICK c : held \subseteq Goroutines \cup {c}
  BY <1>2
<1>4. /\ IsFiniteSet(Goroutines \cup {c})
      /\ Cardinality(Goroutines \cup {c}) <= Cardinality(Goroutines) + 1
  <2>1. IsFiniteSet(Goroutines) /\ Cardinality(Goroutines) \in Nat
    BY <1>1, AttemptsAreFinite
  <2>2. /\ IsFiniteSet(Goroutines \cup {c})
        /\ \/ Cardinality(Goroutines \cup {c}) = Cardinality(Goroutines)
           \/ Cardinality(Goroutines \cup {c}) = Cardinality(Goroutines) + 1
    BY <2>1, FS_AddElement, Zenon
  <2> QED BY <2>1, <2>2
<1>5. Cardinality(held) <= Cardinality(Goroutines \cup {c})
  BY <1>3, <1>4, FS_Subset
<1>6. /\ Cardinality(Goroutines) \in Nat /\ Cardinality(held) \in Nat
      /\ Cardinality(Goroutines \cup {c}) \in Nat
  BY <1>1, <1>4, AttemptsAreFinite, FS_CardinalityType
<1>7. Cardinality(held) <= Concurrency + 1
  BY <1>4, <1>5, <1>6, ConcurrencyAssumption DEF CrowdInv, SlotsAreKept
<1> QED BY <1>7 DEF WithinConcurrency, CrowdInv, SlotsAreKept

(* The semaphore bounds the goroutines, and with the one job the loop may  *)
(* hold while it waits for a slot, the jobs that are claimed.              *)
THEOREM ConcurrencyIsBounded == Spec => []WithinConcurrency
<1>1. Spec => []CrowdInv
  BY InitCrowd, StepCrowd, PTL DEF Spec
<1> QED BY <1>1, CrowdIsSmall, PTL

-----------------------------------------------------------------------------
(* Stranded jobs                                                           *)

(* The attempts that hold a job.                                           *)
Held == {a \in Attempts : pc[a] \in Holding}

StrandInv == CrowdInv /\ StrandingIsBounded

(* An attempt lets go of its job by marking it, or by a statement that     *)
(* fails; otherwise it keeps what it has.                                  *)
LEMMA LettingGo ==
  ASSUME TypeOK, NEW a \in Attempts, AttemptNext(a)
  PROVE  \/ Ends(a) /\ faults' \in {faults, faults + 1}
         \/ Retries(a) /\ faults' \in {faults, faults + 1}
         \/ /\ jobs' = jobs /\ faults' = faults + 1
            /\ \E to \in PcStates : /\ pc' = [pc EXCEPT ![a] = to]
                                    /\ to \in Holding => pc[a] \in Holding
         \/ /\ jobs' = jobs /\ faults' = faults
            /\ \E to \in PcStates : /\ pc' = [pc EXCEPT ![a] = to]
                                    /\ to \in Holding <=> pc[a] \in Holding
<1> USE DEF PcStates, Working, Holding
<1>k. ASSUME NEW from, NEW to \in PcStates, Go(a, from, to), jobs' = jobs,
             \/ faults' = faults + 1 /\ (to \in Holding => from \in Holding)
             \/ faults' = faults /\ (to \in Holding <=> from \in Holding)
      PROVE  \/ /\ jobs' = jobs /\ faults' = faults + 1
                /\ \E t \in PcStates : /\ pc' = [pc EXCEPT ![a] = t]
                                       /\ t \in Holding => pc[a] \in Holding
             \/ /\ jobs' = jobs /\ faults' = faults
                /\ \E t \in PcStates : /\ pc' = [pc EXCEPT ![a] = t]
                                       /\ t \in Holding <=> pc[a] \in Holding
  BY <1>k, Zenon DEF Go
<1>m. ASSUME NEW from \in Holding, NEW to \in PcStates \ Holding, Go(a, from, to),
             NEW s \in Terminal, jobs' = [jobs EXCEPT ![a[1]].status = s]
      PROVE  Ends(a)
  BY <1>m, Zenon DEF Go, Ends
<1>1. CASE Load(a)
  BY <1>1, <1>k, Zenon DEF Load, Fault
<1>2. CASE DropOrphan(a)
  BY <1>2, <1>k, <1>m, Zenon DEF DropOrphan, Ignoring, Fault, MarkDeploymentJobFailed, Terminal
<1>3. CASE AbortJob(a)
  BY <1>3, <1>k, <1>m, Zenon DEF AbortJob, Ignoring, Fault, MarkDeploymentJobFailed, Terminal
<1>4. CASE AbortDeployment(a)
  BY <1>4, <1>k, Zenon DEF AbortDeployment, Ignoring, Fault
<1>5. CASE Begin(a)
  BY <1>5, <1>k, Zenon DEF Begin, Ignoring, Fault
<1>6. CASE ExecuteSucceeds(a)
  BY <1>6, <1>k, Zenon DEF ExecuteSucceeds
<1>7. CASE MarkSucceeded(a)
  BY <1>7, <1>k, <1>m, Zenon DEF MarkSucceeded, Ignoring, Fault, MarkDeploymentJobSucceeded, Terminal
<1>8. CASE DeploymentSucceeded(a)
  BY <1>8, <1>k, Zenon DEF DeploymentSucceeded, Ignoring, Fault
<1>9. CASE RecordSucceeded(a)
  BY <1>9, <1>k, Zenon DEF RecordSucceeded, Ignoring, Fault
<1>10. CASE DeploymentRetry(a)
  BY <1>10, <1>k, Zenon DEF DeploymentRetry, Ignoring, Fault
<1>11. CASE MarkFailed(a)
  BY <1>11, <1>k, <1>m, Zenon DEF MarkFailed, Ignoring, Fault, MarkDeploymentJobFailed, Terminal
<1>12. CASE DeploymentFailed(a)
  BY <1>12, <1>k DEF DeploymentFailed, Ignoring, Fault
<1>13. CASE RecordFailed(a)
  BY <1>13, <1>k DEF RecordFailed, Ignoring, Fault
<1>14. ASSUME NEW retryable \in BOOLEAN, ExecuteFails(a, retryable)
       PROVE  Go(a, "execute", "markRetry") \/ Go(a, "execute", "markFailed")
  BY <1>14 DEF ExecuteFails
<1>15. ASSUME NEW retryable \in BOOLEAN, ExecuteFails(a, retryable)
       PROVE  jobs' = jobs /\ faults' = faults
  BY <1>15, Zenon DEF ExecuteFails
<1>16. CASE MarkRetry(a)
  <2>1. CASE MarkDeploymentJobRetry(a[1], retryAt[a])
    BY <1>16, <2>1 DEF MarkRetry, Ignoring, Fault, MarkDeploymentJobRetry, Go, Retries, TypeOK
  <2>2. CASE Fault /\ UNCHANGED jobs
    BY <1>16, <1>k, <2>2 DEF MarkRetry, Fault
  <2> QED BY <1>16, <2>1, <2>2 DEF MarkRetry, Ignoring
<1>17. ASSUME NEW retryable \in BOOLEAN, ExecuteFails(a, retryable)
       PROVE  /\ jobs' = jobs /\ faults' = faults
              /\ \E t \in PcStates : /\ pc' = [pc EXCEPT ![a] = t]
                                     /\ t \in Holding <=> pc[a] \in Holding
  BY <1>14, <1>15, <1>17, Zenon DEF Go
<1> QED BY <1>1, <1>2, <1>3, <1>4, <1>5, <1>6, <1>7, <1>8, <1>9, <1>10, <1>11, <1>12, <1>13,
           <1>16, <1>17, Zenon DEF AttemptNext

(* Faults and crashes are only ever added to, crashes by Crash.            *)
LEMMA DamageGrows ==
  ASSUME TypeOK, [Next]_vars
  PROVE  /\ faults' \in {faults, faults + 1}
         /\ crashes' = crashes \/ Crash
<1>1. ASSUME NEW d \in Deployments, RequestNext(d) \/ Claim(d)
      PROVE  faults' \in {faults, faults + 1} /\ crashes' = crashes
  BY <1>1 DEF RequestNext, RequestCreate, RequestEnqueue, RequestEnqueueFails, RequestStep,
              RequestCompensate, RequestCancelled, Claim, Ignoring, Fault
<1>2. ASSUME NEW a \in Attempts, Spawn(a) \/ AttemptNext(a)
      PROVE  faults' \in {faults, faults + 1}
  BY <1>2, LettingGo DEF Spawn
<1>3. ASSUME NEW a \in Attempts, Spawn(a) \/ AttemptNext(a)
      PROVE  crashes' = crashes
  BY <1>3, Zenon DEF Spawn, AttemptNext, Go, Load, DropOrphan, AbortJob, AbortDeployment,
                Begin, ExecuteSucceeds, ExecuteFails, MarkSucceeded, DeploymentSucceeded,
                MarkRetry, DeploymentRetry, MarkFailed, DeploymentFailed,
                RecordSucceeded, RecordFailed
<1>4. Tick \/ Restart \/ UNCHANGED vars => faults' = faults /\ crashes' = crashes
  BY DEF Tick, Restart, vars, procVars
<1>5. Crash => faults' = faults
  BY Zenon DEF Crash
<1> QED BY <1>1, <1>2, <1>3, <1>4, <1>5 DEF Next

LEMMA StrandedIsFinite ==
  /\ IsFiniteSet(StrandedJobs) /\ Cardinality(StrandedJobs) \in Nat
  /\ IsFiniteSet(StrandedJobs') /\ Cardinality(StrandedJobs') \in Nat
<1>1. StrandedJobs \in SUBSET Deployments /\ StrandedJobs' \in SUBSET Deployments
  BY DEF StrandedJobs
<1>2. IsFiniteSet(StrandedJobs) /\ IsFiniteSet(StrandedJobs')
  BY <1>1, FS_Subset
<1> QED BY <1>2, FS_CardinalityType

(* A step of an attempt strands its own job at most, and this only when    *)
(* its statement fails.                                                    *)
LEMMA AttemptStrands ==
  ASSUME IInv, NEW a \in Attempts, AttemptNext(a)
  PROVE  \/ StrandedJobs' \subseteq StrandedJobs
         \/ StrandedJobs' \subseteq StrandedJobs \cup {a[1]} /\ faults' = faults + 1
<1>0. /\ TypeOK /\ jobs \in JobsType /\ pc \in [Attempts -> PcStates] /\ a[1] \in Deployments
  BY AttemptPairs DEF IInv, TypeOK, StoreTypeOK, JobsType
<1>1. ASSUME NEW d \in StrandedJobs', jobs'[d].status = "running" => jobs[d].status = "running",
             \A b \in Attempts : b[1] = d /\ pc[b] \in Holding => pc'[b] \in Holding
      PROVE  d \in StrandedJobs
  BY <1>1 DEF StrandedJobs, Holders
<1>2. CASE Ends(a) \/ Retries(a)
  <2>1. /\ jobs'[a[1]].status # "running"
        /\ \A d \in Deployments : d # a[1] => jobs'[d] = jobs[d]
        /\ \A b \in Attempts : b # a => pc'[b] = pc[b]
    <3>1. CASE Ends(a)
      BY <1>0, <3>1 DEF Ends, JobsType, Terminal
    <3>2. CASE Retries(a)
      BY <1>0, <3>2 DEF Retries, JobsType
    <3> QED BY <1>2, <3>1, <3>2
  <2>2. ASSUME NEW d \in StrandedJobs'
        PROVE  d \in StrandedJobs
    <3>1. d # a[1] /\ d \in Deployments
      BY <2>1 DEF StrandedJobs
    <3> QED BY <1>1, <2>1, <3>1
  <2> QED BY <2>2
<1>3. ASSUME jobs' = jobs,
             \E to \in PcStates : /\ pc' = [pc EXCEPT ![a] = to]
                                  /\ to \in Holding <=> pc[a] \in Holding
      PROVE  StrandedJobs' \subseteq StrandedJobs
  <2>1. ASSUME NEW b \in Attempts, pc[b] \in Holding
        PROVE  pc'[b] \in Holding
    BY <1>0, <1>3, <2>1
  <2> QED BY <1>1, <1>3, <2>1
<1>4. ASSUME jobs' = jobs, NEW to \in PcStates, pc' = [pc EXCEPT ![a] = to]
      PROVE  StrandedJobs' \subseteq StrandedJobs \cup {a[1]}
  BY <1>0, <1>1, <1>4
<1> QED BY <1>0, <1>2, <1>3, <1>4, LettingGo

(* What everybody else does strands nothing.                               *)
LEMMA OthersStrandNothing ==
  ASSUME IInv, [Next]_vars, ~Crash, \A a \in Attempts : ~AttemptNext(a)
  PROVE  StrandedJobs' \subseteq StrandedJobs
<1>0. /\ TypeOK /\ jobs \in JobsType /\ pc \in [Attempts -> PcStates]
  BY DEF IInv, TypeOK, StoreTypeOK, JobsType
<1>1. ASSUME NEW d \in StrandedJobs', jobs'[d].status = "running" => jobs[d].status = "running",
             \A b \in Attempts : b[1] = d /\ pc[b] \in Holding => pc'[b] \in Holding
      PROVE  d \in StrandedJobs
  BY <1>1 DEF StrandedJobs, Holders
<1>2. ASSUME NEW d \in Deployments, RequestNext(d)
      PROVE  /\ pc' = pc
             /\ \A e \in Deployments : jobs'[e].status = "running" => jobs[e].status = "running"
  BY <1>0, <1>2 DEF RequestNext, RequestCreate, RequestEnqueue, RequestEnqueueFails, RequestStep,
     RequestCompensate, RequestCancelled, CreateDeploymentJob, JobsType
<1>3. ASSUME NEW d \in Deployments, Claim(d)
      PROVE  StrandedJobs' \subseteq StrandedJobs
  <2> DEFINE c == <<d, jobs[d].attempts + 1>>
  <2>1. Claims(d)
    BY <1>3 DEF Claim, ClaimNextRunnableDeploymentJob, Runnable, Claims
  <2>2. c \in Attempts /\ c[1] = d
    BY <1>0, <2>1, AttemptPairs DEF Claims, JobsType
  <2>3. pc' = [pc EXCEPT ![c] = "claimed"]
    BY <2>1 DEF Claims
  <2>4. \A e \in Deployments : e # d => jobs'[e] = jobs[e]
    BY <1>0, <2>1 DEF Claims, JobsType
  <2> HIDE DEF c
  <2>5. d \notin StrandedJobs'
    BY <1>0, <2>2, <2>3 DEF StrandedJobs, Holders, Holding
  <2>6. ASSUME NEW b \in Attempts, pc[b] \in Holding
        PROVE  pc'[b] \in Holding
    BY <1>0, <2>3, <2>6 DEF Holding
  <2>7. ASSUME NEW e \in StrandedJobs'
        PROVE  e \in StrandedJobs
    <3>1. e # d /\ e \in Deployments
      BY <2>5 DEF StrandedJobs
    <3> QED BY <1>1, <2>4, <2>6, <3>1
  <2> QED BY <2>7
<1>4. ASSUME NEW a \in Attempts, Spawn(a)
      PROVE  jobs' = jobs /\ \A b \in Attempts : pc[b] \in Holding => pc'[b] \in Holding
  BY <1>0, <1>4 DEF Spawn, storeVars, Holding
<1>5. Tick \/ Restart \/ UNCHANGED vars => pc' = pc /\ jobs' = jobs
  BY DEF Tick, Restart, vars, procVars, storeVars
<1>6. StrandedJobs' \subseteq Deployments
  BY DEF StrandedJobs
<1> QED BY <1>1, <1>2, <1>3, <1>4, <1>5, <1>6 DEF Next

(* A crash strands the jobs of the attempts it stops, each of which is the *)
(* only one to hold its job.                                               *)
LEMMA CrashStrands ==
  ASSUME CrowdInv, Crash
  PROVE  Cardinality(StrandedJobs') <= Cardinality(StrandedJobs) + (Concurrency + 1)
<1> DEFINE Running == {d \in Deployments : jobs[d].status = "running" /\ Holders(d) # {}}
           holder == [d \in Running |-> <<d, jobs[d].attempts>>]
<1>0. IInv /\ jobs' = jobs
  BY DEF CrowdInv, Crash, storeVars
<1>1. StrandedJobs' \subseteq StrandedJobs \cup Running
  BY <1>0 DEF StrandedJobs
<1>2. ASSUME NEW d \in Running
      PROVE  holder[d] \in Held
  <2>1. PICK a \in Attempts : a[1] = d /\ pc[a] \in Holding
    BY DEF Holders
  <2>2. jobs[d].attempts = a[2]
    BY <1>0, <2>1 DEF IInv, HoldersOwnJob
  <2>3. d \in Deployments /\ a[2] \in 1..MaxAttempts
    BY AttemptPairs
  <2>4. a = <<d, a[2]>>
    <3>1. <<d, a[2]>> \in Attempts /\ <<d, a[2]>>[1] = a[1] /\ <<d, a[2]>>[2] = a[2]
      BY <2>1, <2>3, AttemptPairs
    <3> QED BY <3>1, AttemptPairs
  <2>5. holder[d] = <<d, jobs[d].attempts>>
    OBVIOUS
  <2> QED BY <2>1, <2>2, <2>4, <2>5 DEF Held
<1>3. holder \in Injection(Running, Held)
  <2>1. \A d, e \in Running : holder[d] = holder[e] => d = e
    OBVIOUS
  <2>2. holder \in [Running -> Held]
    BY <1>2
  <2> QED BY <2>1, <2>2 DEF Injection, IsInjective
<1>4. Held \in SUBSET Attempts /\ IsFiniteSet(Held) /\ Cardinality(Held) \in Nat
  BY AttemptsAreFinite DEF Held
<1>5. Cardinality(Running) <= Cardinality(Held) /\ IsFiniteSet(Running)
  BY <1>3, <1>4, FS_Injection
<1>6. Cardinality(Held) <= Concurrency + 1
  BY CrowdIsSmall DEF WithinConcurrency, Held
<1>7. Cardinality(Running) \in Nat
  BY <1>5, FS_CardinalityType
<1> HIDE DEF Running
<1>8. /\ IsFiniteSet(StrandedJobs \cup Running)
      /\ Cardinality(StrandedJobs \cup Running) <= Cardinality(StrandedJobs) + Cardinality(Running)
      /\ Cardinality(StrandedJobs \cup Running) \in Nat
  <2>1. /\ IsFiniteSet(StrandedJobs \cup Running)
        /\ IsFiniteSet(StrandedJobs \cap Running)
        /\ Cardinality(StrandedJobs \cup Running)
             = Cardinality(StrandedJobs) + Cardinality(Running) - Cardinality(StrandedJobs \cap Running)
    BY <1>5, StrandedIsFinite, FS_Union, FS_Intersection
  <2>2. Cardinality(StrandedJobs \cap Running) \in Nat /\ Cardinality(StrandedJobs \cup Running) \in Nat
    BY <2>1, FS_CardinalityType
  <2> QED BY <1>7, <2>1, <2>2, StrandedIsFinite
<1>9. Cardinality(StrandedJobs') <= Cardinality(StrandedJobs \cup Running)
  BY <1>1, <1>8, FS_Subset
<1> QED BY <1>4, <1>5, <1>6, <1>7, <1>8, <1>9, StrandedIsFinite, ConcurrencyAssumption

LEMMA StepStrand == StrandInv /\ [Next]_vars => StrandInv'
<1> SUFFICES ASSUME StrandInv, [Next]_vars
             PROVE  StrandingIsBounded'
  BY StepCrowd DEF StrandInv
<1> DEFINE n  == Cardinality(StrandedJobs)
           n1 == Cardinality(StrandedJobs')
           f  == faults
           f1 == faults'
           k  == crashes
           k1 == crashes'
<1>0. IInv /\ CrowdInv /\ TypeOK
  BY DEF StrandInv, CrowdInv, IInv
<1>1. n \in Nat /\ n1 \in Nat
  BY StrandedIsFinite
<1>2. f \in Nat /\ k \in Nat /\ f1 \in {f, f + 1}
  BY <1>0, DamageGrows DEF TypeOK
<1>3. n <= f + (Concurrency + 1) * k
  BY DEF StrandInv, StrandingIsBounded
<1>4. CASE Crash
  <2>1. f1 = f /\ k1 = k + 1
    BY <1>4, Zenon DEF Crash
  <2>2. n1 <= n + (Concurrency + 1)
    BY <1>0, <1>4, CrashStrands
  <2> HIDE DEF n, n1, f, f1, k, k1
  <2>3. (Concurrency + 1) * k1 = (Concurrency + 1) * k + (Concurrency + 1)
    BY <1>2, <2>1, ConcurrencyAssumption
  <2>4. (Concurrency + 1) * k \in Nat
    BY <1>2, ConcurrencyAssumption
  <2>5. n1 <= f1 + (Concurrency + 1) * k1
    BY <1>1, <1>2, <1>3, <2>1, <2>2, <2>3, <2>4, ConcurrencyAssumption
  <2> QED BY <2>5 DEF StrandingIsBounded, n1, f1, k1
<1>5. CASE ~Crash
  <2>1. k1 = k
    BY <1>0, <1>5, DamageGrows
  <2>2. n1 <= n \/ (n1 <= n + 1 /\ f1 = f + 1)
    <3>1. ASSUME StrandedJobs' \subseteq StrandedJobs
          PROVE  n1 <= n
      BY <3>1, StrandedIsFinite, FS_Subset
    <3>2. ASSUME NEW a \in Attempts, AttemptNext(a), StrandedJobs' \subseteq StrandedJobs \cup {a[1]}
          PROVE  n1 <= n + 1
      <4>1. /\ IsFiniteSet(StrandedJobs \cup {a[1]})
            /\ \/ Cardinality(StrandedJobs \cup {a[1]}) = n
               \/ Cardinality(StrandedJobs \cup {a[1]}) = n + 1
        BY StrandedIsFinite, FS_AddElement, Zenon
      <4>2. n1 <= Cardinality(StrandedJobs \cup {a[1]})
        BY <3>2, <4>1, FS_Subset
      <4> QED BY <1>1, <4>1, <4>2
    <3>3. ASSUME NEW a \in Attempts, AttemptNext(a)
          PROVE  n1 <= n \/ (n1 <= n + 1 /\ f1 = f + 1)
      BY <1>0, <3>1, <3>2, <3>3, AttemptStrands
    <3> QED BY <1>0, <1>5, <3>1, <3>3, OthersStrandNothing
  <2> HIDE DEF n, n1, f, f1, k, k1
  <2>3. (Concurrency + 1) * k \in Nat
    BY <1>2, ConcurrencyAssumption
  <2>4. n1 <= f1 + (Concurrency + 1) * k
    BY <1>1, <1>2, <1>3, <2>2, <2>3
  <2> QED BY <2>1, <2>4 DEF StrandingIsBounded, n1, f1, k1
<1> QED BY <1>4, <1>5

(* What is left behind is bounded by what went wrong: one job per failed   *)
(* statement, and per crash the jobs of the slots and of the loop.         *)
THEOREM DamageIsBounded == Spec => []StrandingIsBounded
<1>1. Init => StrandInv
  <2> SUFFICES ASSUME Init
               PROVE  StrandingIsBounded
    BY InitCrowd DEF StrandInv
  <2>1. StrandedJobs = {} /\ faults = 0 /\ crashes = 0
    BY DEF Init, StoreInit, NoJob, StrandedJobs
  <2>2. Cardinality({}) = 0
    BY FS_EmptySet
  <2> QED BY <2>1, <2>2, ConcurrencyAssumption DEF StrandingIsBounded
<1>2. StrandInv => StrandingIsBounded
  BY DEF StrandInv
<1> QED BY <1>1, <1>2, StepStrand, PTL DEF Spec
=============================================================================
