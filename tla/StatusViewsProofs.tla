-------------------------- MODULE StatusViewsProofs --------------------------
(***************************************************************************)
(* Theorems about StatusViews.                                             *)
(*                                                                         *)
(* The parts of a page are of different moments.  What a reader may        *)
(* conclude from an older part about a newer one rests on facts about the  *)
(* queue that stay true once they are: a success that was written stays    *)
(* one (or is visibly overwritten), and what the outcomes of an app are    *)
(* accounted for by never shrinks.                                         *)
(***************************************************************************)
EXTENDS StatusViews, QueueOutcomeProofs, WellFoundedInduction

USE AppOfAssumption, DeploymentsAssumption, MaxAttemptsAssumption

-----------------------------------------------------------------------------
(* Successes, while no statement fails                                     *)

(* The job has succeeded and the deployment was told.                      *)
Achieved(d) ==
  /\ jobs[d].status = "succeeded"
  /\ deployments[d] \in {"succeeded", "queued"}
  /\ \A a \in Attempts : a[1] = d => pc[a] # "depSucceeded"

(* A late retry's write has hidden it.                                     *)
Hidden(d) == Achieved(d) /\ deployments[d] = "queued"

SuccessesAreAchieved ==
  /\ \A a \in Attempts : pc[a] = "recordSucceeded" => Achieved(a[1])
  /\ \A d \in Deployments : deployments[d] = "succeeded" => Achieved(d)
  /\ \A app \in Apps : health[app].success > 0 =>
       \E d \in Deployments : AppOf[d] = app /\ Achieved(d)

(* An attempt comes to write the success after it has marked it.           *)
LEMMA MarkedBefore ==
  ASSUME TypeOK, Clean, [Next]_vars, faults' = 0,
         NEW a \in Attempts, pc'[a] = "depSucceeded"
  PROVE  pc[a] \in {"markSucceeded", "depSucceeded"}
<1>0. pc \in [Attempts -> PcStates]
  BY DEF TypeOK
<1>1. ASSUME NEW b \in Attempts, AttemptNext(b)
      PROVE  pc[a] \in {"markSucceeded", "depSucceeded"}
  <2>1. PICK from, to : Go(b, from, to) /\ (to = "depSucceeded" => from = "markSucceeded")
    BY <1>1, Program
  <2> QED BY <1>0, <2>1 DEF Go
<1>2. CASE ~ \E b \in Attempts : AttemptNext(b)
  BY <1>2, CleanOther
<1> QED BY <1>1, <1>2

(* What was achieved stays so, and what is hidden stays hidden.            *)
LEMMA AchievedStays ==
  ASSUME IInv, RowsPrecedeWork, Clean, [Next]_vars, faults' = 0,
         NEW d \in Deployments, Achieved(d)
  PROVE  Achieved(d)' /\ (Hidden(d) => Hidden(d)')
<1>0. /\ TypeOK /\ deployments \in [Deployments -> DeploymentStatus]
      /\ jobs[d].status = "succeeded" /\ deployments[d] \in {"succeeded", "queued"}
  BY DEF IInv, TypeOK, StoreTypeOK, Achieved
<1>1. jobs'[d] = jobs[d]
  BY <1>0, SettledRowStays DEF Terminal
<1>2. deployments'[d] \in {deployments[d], "queued"}
  <2>1. ASSUME NEW e \in Deployments, Creates(e) \/ Compensates(e)
        PROVE  deployments'[d] = deployments[d]
    BY <1>0, <2>1 DEF Creates, Compensates, Clean, RowsPrecedeWork
  <2>2. ASSUME NEW a \in Attempts, NEW s \in {"running", "queued", "succeeded", "failed"},
               Writes(a, s), a[1] = d
        PROVE  s = "queued"
    <3>1. pc[a] \notin Holding
      BY <1>0, <2>2 DEF IInv, HoldersOwnJob
    <3>2. pc[a] \notin {"depSucceeded", "depFailed", "abortDep"}
      BY <1>0, <2>2 DEF Achieved, Clean, Failing
    <3> QED BY <2>2, <3>1, <3>2 DEF Writes, Writers, Holding
  <2>3. ASSUME NEW a \in Attempts, NEW s \in {"running", "queued", "succeeded", "failed"},
               Writes(a, s)
        PROVE  deployments'[d] \in {deployments[d], "queued"}
    BY <1>0, <2>2, <2>3 DEF Writes
  <2> QED BY <1>0, <2>1, <2>3, DeploymentChange
<1>3. ASSUME NEW a \in Attempts, a[1] = d
      PROVE  pc'[a] # "depSucceeded"
  <2>1. pc[a] \notin {"markSucceeded", "depSucceeded"}
    BY <1>0, <1>3 DEF Achieved, IInv, HoldersOwnJob, Holding
  <2> QED BY <1>0, <2>1, MarkedBefore
<1> QED BY <1>0, <1>1, <1>2, <1>3 DEF Achieved, Hidden

(* The write of a success achieves it.                                     *)
LEMMA WriteAchieves ==
  ASSUME IInv, Clean, FinishersWereLast, [Next]_vars, faults' = 0,
         NEW a \in Attempts, Writes(a, "succeeded")
  PROVE  Achieved(a[1])'
<1>0. /\ TypeOK /\ deployments \in [Deployments -> DeploymentStatus]
      /\ pc \in [Attempts -> PcStates] /\ a[1] \in Deployments
  BY AttemptPairs DEF IInv, TypeOK, StoreTypeOK
<1>1. pc[a] = "depSucceeded" /\ pc'[a] # "depSucceeded"
      /\ deployments'[a[1]] = "succeeded" /\ jobs' = jobs
  BY <1>0 DEF Writes, Writers, Go
<1>2. jobs[a[1]].status = "succeeded" /\ jobs[a[1]].attempts = a[2]
  BY <1>1 DEF Clean, Succeeding, FinishersWereLast, Finishing
<1>3. ASSUME NEW b \in Attempts, b[1] = a[1], pc'[b] = "depSucceeded"
      PROVE  FALSE
  <2>1. pc[b] = "depSucceeded"
    BY <1>0, <1>2, <1>3, MarkedBefore DEF IInv, HoldersOwnJob, Holding
  <2>2. b = a
    BY <1>2, <1>3, <2>1, AttemptPairs DEF FinishersWereLast, Finishing, Succeeding
  <2> QED BY <1>1, <1>3, <2>2
<1> QED BY <1>1, <1>2, <1>3 DEF Achieved

LEMMA InitAchieved == Init => SuccessesAreAchieved
BY DEF Init, StoreInit, SuccessesAreAchieved

LEMMA StepAchieved ==
  ASSUME IInv, RowsPrecedeWork, Clean, FinishersWereLast, SuccessesAreAchieved,
         [Next]_vars, faults' = 0
  PROVE  SuccessesAreAchieved'
<1>0. /\ TypeOK /\ pc \in [Attempts -> PcStates] /\ faults \in Nat
      /\ deployments \in [Deployments -> DeploymentStatus]
      /\ health \in [Apps -> [success : Nat, failure : Nat]]
  BY DEF IInv, TypeOK, StoreTypeOK
<1>1. ASSUME NEW a \in Attempts, pc'[a] = "recordSucceeded"
      PROVE  Achieved(a[1])'
  <2>0. a[1] \in Deployments
    BY AttemptPairs
  <2>1. CASE pc[a] = "recordSucceeded"
    BY <2>0, <2>1, AchievedStays DEF SuccessesAreAchieved
  <2>2. ASSUME NEW b \in Attempts, AttemptNext(b), pc[a] # "recordSucceeded"
        PROVE  Writes(a, "succeeded")
    <3>1. PICK from, to : Go(b, from, to) /\ (to = "recordSucceeded" => from = "depSucceeded")
      BY <2>2, Program
    <3>2. b = a /\ pc[a] = "depSucceeded"
      BY <1>0, <1>1, <2>2, <3>1 DEF Go
    <3>3. DeploymentSucceeded(a)
      BY <2>2, <3>2, Zenon DEF AttemptNext, Go, Load, DropOrphan, AbortJob, AbortDeployment, Begin,
         ExecuteSucceeds, ExecuteFails, MarkSucceeded, RecordSucceeded,
         MarkRetry, DeploymentRetry, MarkFailed, DeploymentFailed, RecordFailed
    <3>4. ~Fault
      BY <1>0 DEF Fault
    <3> QED BY <3>3, <3>4 DEF DeploymentSucceeded, Writes, Writers, Go, Ignoring,
              UpdateDeploymentOutcome, PcStates, Working
  <2>3. CASE ~ \E b \in Attempts : AttemptNext(b)
    <3>1. pc[a] = "recordSucceeded"
      BY <1>0, <1>1, <2>3, CleanOther
    <3> QED BY <2>1, <3>1
  <2> QED BY <2>1, <2>2, <2>3, WriteAchieves
<1>2. ASSUME NEW d \in Deployments, deployments'[d] = "succeeded"
      PROVE  Achieved(d)'
  <2>1. CASE deployments[d] = "succeeded"
    BY <2>1, AchievedStays DEF SuccessesAreAchieved
  <2>2. CASE deployments[d] # "succeeded"
    <3>1. PICK a \in Attempts, s \in {"running", "queued", "succeeded", "failed"} : Writes(a, s)
      BY <1>0, <1>2, <2>2, DeploymentChange DEF Creates, Compensates
    <3>2. a[1] = d /\ s = "succeeded"
      BY <1>0, <1>2, <2>2, <3>1, AttemptPairs DEF Writes
    <3> QED BY <3>1, <3>2, WriteAchieves
  <2> QED BY <2>1, <2>2
<1>3. ASSUME NEW app \in Apps, health'[app].success > 0
      PROVE  \E d \in Deployments : AppOf[d] = app /\ Achieved(d)'
  <2>1. CASE health[app].success > 0
    <3>1. PICK d \in Deployments : AppOf[d] = app /\ Achieved(d)
      BY <2>1 DEF SuccessesAreAchieved
    <3> QED BY <3>1, AchievedStays
  <2>2. CASE ~(health[app].success > 0)
    <3>1. health'[app].success # health[app].success
      BY <1>3, <2>2
    <3>2. PICK a \in Attempts : pc[a] = "recordSucceeded" /\ AppOf[a[1]] = app
      <4>1. ASSUME NEW a \in Attempts, RecordAppDeploymentOutcome(a[1], "failed")
            PROVE  health'[app].success = health[app].success
        BY <1>0, <4>1, AttemptPairs DEF RecordAppDeploymentOutcome
      <4>2. ASSUME NEW a \in Attempts, RecordAppDeploymentOutcome(a[1], "succeeded"), AppOf[a[1]] # app
            PROVE  health'[app].success = health[app].success
        BY <1>0, <4>2, AttemptPairs DEF RecordAppDeploymentOutcome
      <4> QED BY <1>0, <3>1, <4>1, <4>2, HealthChange
    <3>3. a[1] \in Deployments /\ Achieved(a[1])
      BY <3>2, AttemptPairs DEF SuccessesAreAchieved
    <3> QED BY <3>2, <3>3, AchievedStays
  <2> QED BY <2>1, <2>2
<1> QED BY <1>1, <1>2, <1>3 DEF SuccessesAreAchieved

-----------------------------------------------------------------------------
(* The rows                                                                *)

(* Each app's rows are its deployments, each once and none left out.       *)
RowsAreDeployments ==
  /\ inserted \in [Apps -> Seq(Deployments)]
  /\ \A app \in Apps : \A i \in 1..Len(RowsOf(app)) :
       AppOf[RowsOf(app)[i]] = app /\ deployments[RowsOf(app)[i]] # "none"
  /\ \A app \in Apps : \A i, j \in 1..Len(RowsOf(app)) :
       RowsOf(app)[i] = RowsOf(app)[j] => i = j
  /\ \A d \in Deployments : deployments[d] # "none" =>
       \E i \in 1..Len(RowsOf(AppOf[d])) : RowsOf(AppOf[d])[i] = d

(* No row vanishes, and one at most is new.                                *)
LEMMA NewRow ==
  ASSUME IInv, RowsPrecedeWork, [Next]_vars
  PROVE  /\ \A d \in Deployments : deployments[d] # "none" => deployments'[d] # "none"
         /\ \A d, e \in Deployments :
              /\ deployments[d] = "none" /\ deployments'[d] # "none"
              /\ deployments[e] = "none" /\ deployments'[e] # "none"
              => d = e
<1>0. TypeOK /\ deployments \in [Deployments -> DeploymentStatus]
  BY DEF IInv, TypeOK, StoreTypeOK
<1>1. ASSUME NEW d \in Deployments, Creates(d) \/ Compensates(d)
      PROVE  \E s : s # "none" /\ deployments' = [deployments EXCEPT ![d] = s]
  BY <1>1 DEF Creates, Compensates
<1>2. ASSUME NEW a \in Attempts, NEW s \in {"running", "queued", "succeeded", "failed"},
             Writes(a, s)
      PROVE  a[1] \in Deployments /\ deployments' = [deployments EXCEPT ![a[1]] = s]
  BY <1>2, AttemptPairs DEF Writes
<1>3. \/ deployments' = deployments
      \/ \E d \in Deployments : \E s : s # "none" /\ deployments' = [deployments EXCEPT ![d] = s]
  BY <1>0, <1>1, <1>2, DeploymentChange
<1> QED BY <1>0, <1>3

LEMMA InitInserted == ViewsInit => RowsAreDeployments
<1> SUFFICES ASSUME ViewsInit PROVE RowsAreDeployments
  OBVIOUS
<1>1. \A app \in Apps : inserted[app] = <<>>
  BY DEF ViewsInit
<1>2. \A d \in Deployments : deployments[d] = "none"
  BY DEF ViewsInit, Init, StoreInit
<1>3. inserted \in [Apps -> Seq(Deployments)]
  BY DEF ViewsInit
<1> QED BY <1>1, <1>2, <1>3 DEF RowsAreDeployments, RowsOf

LEMMA StepInserted ==
  ASSUME IInv, RowsPrecedeWork, RowsAreDeployments, QueueStep
  PROVE  /\ RowsAreDeployments'
         /\ \A app \in Apps : \A i \in 1..Len(RowsOf(app)) :
              i \in 1..Len(RowsOf(app)') /\ RowsOf(app)'[i] = RowsOf(app)[i]
<1> DEFINE New(app) == {d \in Deployments : AppOf[d] = app /\ deployments[d] = "none"
                                                           /\ deployments'[d] # "none"}
           Extended(app) ==
             /\ \A i \in 1..Len(RowsOf(app)') :
                  AppOf[RowsOf(app)'[i]] = app /\ deployments'[RowsOf(app)'[i]] # "none"
             /\ \A i, j \in 1..Len(RowsOf(app)') : RowsOf(app)'[i] = RowsOf(app)'[j] => i = j
             /\ \A i \in 1..Len(RowsOf(app)) :
                  i \in 1..Len(RowsOf(app)') /\ RowsOf(app)'[i] = RowsOf(app)[i]
             /\ \A d \in Deployments : AppOf[d] = app /\ deployments'[d] # "none" =>
                  \E i \in 1..Len(RowsOf(app)') : RowsOf(app)'[i] = d
<1>0. [Next]_vars /\ inserted \in [Apps -> Seq(Deployments)]
  BY DEF QueueStep, RowsAreDeployments
<1>1. /\ \A d \in Deployments : deployments[d] # "none" => deployments'[d] # "none"
      /\ \A d, e \in Deployments :
           /\ deployments[d] = "none" /\ deployments'[d] # "none"
           /\ deployments[e] = "none" /\ deployments'[e] # "none"
           => d = e
  BY <1>0, NewRow
<1>2. ASSUME NEW app \in Apps
      PROVE  \/ New(app) = {} /\ inserted'[app] = inserted[app]
             \/ \E d \in Deployments : New(app) = {d} /\ inserted'[app] = Append(inserted[app], d)
  <2>1. inserted'[app] = IF New(app) = {} THEN inserted[app]
                         ELSE Append(inserted[app], CHOOSE d \in New(app) : TRUE)
    BY DEF QueueStep
  <2>2. CASE New(app) = {}
    BY <2>1, <2>2
  <2>3. CASE New(app) # {}
    <3>1. PICK d \in Deployments : New(app) = {d}
      BY <1>1, <2>3
    <3> HIDE DEF New
    <3>2. (CHOOSE e \in New(app) : TRUE) = d
      BY <3>1
    <3> QED BY <2>1, <2>3, <3>1, <3>2
  <2> QED BY <2>2, <2>3
<1>3. inserted' \in [Apps -> Seq(Deployments)]
  <2>1. ASSUME NEW app \in Apps
        PROVE  inserted'[app] \in Seq(Deployments)
    <3>1. inserted[app] \in Seq(Deployments)
      BY <1>0
    <3>2. \A d \in Deployments : Append(inserted[app], d) \in Seq(Deployments)
      BY <3>1
    <3> HIDE DEF New
    <3> QED BY <1>2, <3>1, <3>2
  <2>2. \E f : inserted' = [app \in Apps |-> f[app]]
    <3>1. inserted' = [app \in Apps |-> inserted'[app]]
      BY DEF QueueStep
    <3> QED BY <3>1
  <2> QED BY <2>1, <2>2
<1>4. ASSUME NEW app \in Apps
      PROVE  Extended(app)
  <2>1. /\ RowsOf(app) \in Seq(Deployments) /\ RowsOf(app) = inserted[app]
        /\ RowsOf(app)' = inserted'[app]
        /\ \A i \in 1..Len(RowsOf(app)) :
             AppOf[RowsOf(app)[i]] = app /\ deployments[RowsOf(app)[i]] # "none"
        /\ \A i, j \in 1..Len(RowsOf(app)) : RowsOf(app)[i] = RowsOf(app)[j] => i = j
        /\ \A d \in Deployments : AppOf[d] = app /\ deployments[d] # "none" =>
             \E i \in 1..Len(RowsOf(app)) : RowsOf(app)[i] = d
    BY <1>0 DEF RowsAreDeployments, RowsOf
  <2>2. \A d \in Deployments : d \in New(app) <=> /\ AppOf[d] = app /\ deployments[d] = "none"
                                                 /\ deployments'[d] # "none"
    OBVIOUS
  <2> HIDE DEF New
  <2>3. CASE New(app) = {} /\ inserted'[app] = inserted[app]
    BY <1>1, <2>1, <2>2, <2>3
  <2>4. ASSUME NEW d \in Deployments, New(app) = {d}, inserted'[app] = Append(inserted[app], d)
        PROVE  Extended(app)
    <3>1. /\ Len(RowsOf(app)') = Len(RowsOf(app)) + 1 /\ Len(RowsOf(app)) \in Nat
          /\ \A i \in 1..Len(RowsOf(app)) : RowsOf(app)'[i] = RowsOf(app)[i]
          /\ RowsOf(app)'[Len(RowsOf(app)) + 1] = d
      BY <2>1, <2>4
    <3>2. \A i \in 1..Len(RowsOf(app)) : RowsOf(app)[i] \in Deployments
      BY <2>1
    <3>3. ASSUME NEW i \in 1..Len(RowsOf(app)')
          PROVE  \/ i \in 1..Len(RowsOf(app)) /\ RowsOf(app)'[i] = RowsOf(app)[i]
                 \/ i = Len(RowsOf(app)) + 1 /\ RowsOf(app)'[i] = d
      BY <3>1, <3>3
    <3>4. \A i \in 1..Len(RowsOf(app)') :
            AppOf[RowsOf(app)'[i]] = app /\ deployments'[RowsOf(app)'[i]] # "none"
      BY <1>1, <2>1, <2>2, <2>4, <3>2, <3>3
    <3>5. \A i, j \in 1..Len(RowsOf(app)') : RowsOf(app)'[i] = RowsOf(app)'[j] => i = j
      BY <2>1, <2>2, <2>4, <3>3
    <3>6. /\ 1..Len(RowsOf(app)) \subseteq 1..Len(RowsOf(app)')
          /\ Len(RowsOf(app)) + 1 \in 1..Len(RowsOf(app)')
      BY <3>1
    <3>7. \A e \in Deployments : AppOf[e] = app /\ deployments'[e] # "none" =>
            \E i \in 1..Len(RowsOf(app)') : RowsOf(app)'[i] = e
      BY <2>1, <2>2, <2>4, <3>1, <3>6
    <3> QED BY <3>1, <3>4, <3>5, <3>6, <3>7
  <2> QED BY <1>2, <2>3, <2>4
<1> QED BY <1>3, <1>4 DEF RowsAreDeployments

-----------------------------------------------------------------------------
(* The reads                                                               *)

LEMMA Statement ==
  ASSUME NEW app
  PROVE  /\ Read("metrics", app) = health[app]
         /\ Read("latest", app) = GetLatestDeploymentByAppForUser(app)
         /\ Read("lastSuccess", app) = GetLastSuccessfulDeploymentByAppForUser(app)
         /\ Read("recent", app) = StatusCounts(app)
BY Zenon DEF Read, GetAppHealthMetricsForUser

(* What a handler has read is what its first statements return.            *)
ReadsInOrder ==
  /\ page \in [kind : {"health", "observability"}, app : Apps]
  /\ page.kind = "health" =>
       DOMAIN shown \in {{}, {"metrics"}, {"metrics", "latest"},
                         {"metrics", "latest", "lastSuccess"}}
  /\ page.kind = "observability" =>
       DOMAIN shown \in {{}, {"recent"}, {"recent", "metrics"}}

LEMMA FewReads ==
  /\ Cardinality({}) = 0
  /\ Cardinality({"metrics"}) = 1 /\ Cardinality({"recent"}) = 1
  /\ Cardinality({"metrics", "latest"}) = 2 /\ Cardinality({"recent", "metrics"}) = 2
  /\ Cardinality({"metrics", "latest", "lastSuccess"}) = 3
<1>1. Cardinality({}) = 0 /\ \A x : IsFiniteSet({x}) /\ Cardinality({x}) = 1
  BY FS_EmptySet, FS_Singleton
<1>2. ASSUME NEW x, NEW y, x # y
      PROVE  IsFiniteSet({x, y}) /\ Cardinality({x, y}) = 2
  <2>1. {x, y} = {x} \cup {y} /\ y \notin {x}
    BY <1>2
  <2>2. /\ IsFiniteSet({x} \cup {y})
        /\ Cardinality({x} \cup {y}) = Cardinality({x}) + 1
    BY <1>1, <2>1, FS_AddElement, Zenon
  <2>3. IsFiniteSet({x, y}) /\ Cardinality({x, y}) = Cardinality({x}) + 1
    BY <2>1, <2>2, Zenon
  <2>4. Cardinality({x}) = 1
    BY <1>1, Zenon
  <2> QED BY <2>3, <2>4
<1>3. Cardinality({"metrics", "latest", "lastSuccess"}) = 3
  <2>1. {"metrics", "latest", "lastSuccess"} = {"metrics", "latest"} \cup {"lastSuccess"}
    OBVIOUS
  <2>2. IsFiniteSet({"metrics", "latest"}) /\ "lastSuccess" \notin {"metrics", "latest"}
    BY <1>2
  <2>3. Cardinality({"metrics", "latest"} \cup {"lastSuccess"}) = Cardinality({"metrics", "latest"}) + 1
    BY <2>2, FS_AddElement, Zenon
  <2>4. Cardinality({"metrics", "latest"}) = 2
    BY <1>2
  <2> QED BY <2>1, <2>3, <2>4
<1> QED BY <1>1, <1>2, <1>3

(* A handler that has got as far as read issues statement.                 *)
Issues(read, statement) ==
  /\ DOMAIN shown = read
  /\ shown' = [s \in read \cup {statement} |->
                 IF s = statement THEN Read(s, page.app) ELSE shown[s]]

LEMMA NextRead ==
  ASSUME ReadsInOrder, ReadNext
  PROVE  \/ /\ page.kind = "health"
            /\ \/ Issues({}, "metrics")
               \/ Issues({"metrics"}, "latest")
               \/ Issues({"metrics", "latest"}, "lastSuccess")
         \/ /\ page.kind = "observability"
            /\ \/ Issues({}, "recent")
               \/ Issues({"recent"}, "metrics")
<1>1. /\ Len(HealthSummary) = 3 /\ Len(ObservabilitySummary) = 2
      /\ HealthSummary[1] = "metrics" /\ HealthSummary[2] = "latest"
      /\ HealthSummary[3] = "lastSuccess"
      /\ ObservabilitySummary[1] = "recent" /\ ObservabilitySummary[2] = "metrics"
  BY DEF HealthSummary, ObservabilitySummary
<1>2. ASSUME NEW read, NEW n \in Nat, DOMAIN shown = read, Cardinality(read) = n
      PROVE  n < Len(Statements(page.kind)) /\ Issues(read, Statements(page.kind)[n + 1])
  BY <1>2, Zenon DEF ReadNext, Issues
<1>3. ASSUME page.kind = "health"
      PROVE  \/ Issues({}, "metrics")
             \/ Issues({"metrics"}, "latest")
             \/ Issues({"metrics", "latest"}, "lastSuccess")
  <2>1. Statements(page.kind) = HealthSummary
    BY <1>3 DEF Statements
  <2>2. DOMAIN shown = {} => Issues({}, HealthSummary[0 + 1])
    BY <1>2, <2>1, FewReads
  <2>3. DOMAIN shown = {"metrics"} => Issues({"metrics"}, HealthSummary[1 + 1])
    BY <1>2, <2>1, FewReads
  <2>4. DOMAIN shown = {"metrics", "latest"} => Issues({"metrics", "latest"}, HealthSummary[2 + 1])
    BY <1>2, <2>1, FewReads
  <2>5. DOMAIN shown = {"metrics", "latest", "lastSuccess"} => 3 < Len(HealthSummary)
    BY <1>2, <2>1, FewReads
  <2> QED BY <1>1, <1>3, <2>2, <2>3, <2>4, <2>5 DEF ReadsInOrder
<1>4. ASSUME page.kind = "observability"
      PROVE  Issues({}, "recent") \/ Issues({"recent"}, "metrics")
  <2>1. Statements(page.kind) = ObservabilitySummary
    BY <1>4 DEF Statements
  <2>2. DOMAIN shown = {} => Issues({}, ObservabilitySummary[0 + 1])
    BY <1>2, <2>1, FewReads
  <2>3. DOMAIN shown = {"recent"} => Issues({"recent"}, ObservabilitySummary[1 + 1])
    BY <1>2, <2>1, FewReads
  <2>4. DOMAIN shown = {"recent", "metrics"} => 2 < Len(ObservabilitySummary)
    BY <1>2, <2>1, FewReads
  <2> QED BY <1>1, <1>4, <2>2, <2>3, <2>4 DEF ReadsInOrder
<1>5. page.kind \in {"health", "observability"}
  BY DEF ReadsInOrder
<1> QED BY <1>3, <1>4, <1>5

LEMMA InitReads == ViewsInit => ReadsInOrder
BY DEF ViewsInit, ReadsInOrder

LEMMA StepReads == ReadsInOrder /\ [ViewsNext]_<<vars, viewVars>> => ReadsInOrder'
<1> SUFFICES ASSUME ReadsInOrder, [ViewsNext]_<<vars, viewVars>>
             PROVE  ReadsInOrder'
  OBVIOUS
<1>1. CASE QueueStep \/ UNCHANGED <<vars, viewVars>>
  BY <1>1 DEF QueueStep, viewVars, ReadsInOrder
<1>2. CASE ReadNext
  <2>1. page' = page
    BY <1>2 DEF ReadNext
  <2>2. ASSUME NEW read, NEW statement, Issues(read, statement)
        PROVE  DOMAIN shown' = read \cup {statement}
    BY <2>2 DEF Issues
  <2>3. page.kind = "health" =>
          DOMAIN shown' \in {{"metrics"}, {"metrics", "latest"}, {"metrics", "latest", "lastSuccess"}}
    <3>1. /\ {} \cup {"metrics"} = {"metrics"}
          /\ {"metrics"} \cup {"latest"} = {"metrics", "latest"}
          /\ {"metrics", "latest"} \cup {"lastSuccess"} = {"metrics", "latest", "lastSuccess"}
      OBVIOUS
    <3>2. page.kind = "health" => \/ Issues({}, "metrics")
                                  \/ Issues({"metrics"}, "latest")
                                  \/ Issues({"metrics", "latest"}, "lastSuccess")
      BY <1>2, NextRead
    <3> QED BY <2>2, <3>1, <3>2, Zenon
  <2>4. page.kind = "observability" => DOMAIN shown' \in {{"recent"}, {"recent", "metrics"}}
    <3>1. /\ {} \cup {"recent"} = {"recent"}
          /\ {"recent"} \cup {"metrics"} = {"recent", "metrics"}
      OBVIOUS
    <3>2. page.kind = "observability" => Issues({}, "recent") \/ Issues({"recent"}, "metrics")
      BY <1>2, NextRead
    <3> QED BY <2>2, <3>1, <3>2, Zenon
  <2> QED BY <2>1, <2>3, <2>4 DEF ReadsInOrder
<1> QED BY <1>1, <1>2 DEF ViewsNext

-----------------------------------------------------------------------------
(* The health page                                                         *)

(* The pairs of numbers in order, a well-founded relation.                 *)
Below == {p \in Nat \X Nat : p[1] < p[2]}

LEMMA Least ==
  ASSUME NEW S \in SUBSET Nat, S # {}
  PROVE  \E m \in S : \A k \in S : m <= k
<1>1. IsWellFoundedOn(Below, Nat)
  <2>1. Below \cap (Nat \X Nat) \subseteq OpToRel(<, Nat)
    BY Zenon DEF OpToRel, Below
  <2>2. IsWellFoundedOn(OpToRel(<, Nat), Nat)
    BY Zenon, NatLessThanWellFounded
  <2> QED BY <2>1, <2>2, Zenon, IsWellFoundedOnSubrelation
<1>2. PICK m \in S : \A k \in S : <<k, m>> \notin Below
  BY <1>1, WFMin
<1>3. \A k \in S : ~ (k < m)
  BY <1>2 DEF Below
<1> QED BY <1>3

(* The greatest of some row numbers, 0 when there are none.                *)
LEMMA Greatest ==
  ASSUME NEW n \in Nat, NEW S \in SUBSET (1..n)
  PROVE  \E m \in S \cup {0} : \A k \in S : k <= m
<1> DEFINE Bounds == {u \in Nat : \A k \in S : k <= u}
<1>1. PICK m \in Bounds : \A u \in Bounds : m <= u
  <2>1. n \in Bounds
    OBVIOUS
  <2>2. Bounds \in SUBSET Nat
    OBVIOUS
  <2> HIDE DEF Bounds
  <2> QED BY <2>1, <2>2, Least
<1>2. CASE m \in S \cup {0}
  BY <1>1, <1>2
<1>3. CASE m \notin S \cup {0}
  <2>1. m - 1 \in Bounds
    BY <1>1, <1>3
  <2> QED BY <1>1, <2>1
<1> QED BY <1>2, <1>3

(* The last successful deployment is found when there is one, and none of  *)
(* the successful ones is newer.                                           *)
LEMMA LastSuccess ==
  ASSUME NEW app \in Apps, RowsAreDeployments, deployments \in [Deployments -> DeploymentStatus],
         NEW i \in Successes(app)
  PROVE  LET row == GetLastSuccessfulDeploymentByAppForUser(app)
         IN  row # Nothing /\ row.id >= i
<1> DEFINE m == CHOOSE j \in Successes(app) \cup {0} : \A k \in Successes(app) : k <= j
           row == Row(app, m)
<1>1. /\ RowsOf(app) \in Seq(Deployments) /\ Len(RowsOf(app)) \in Nat
      /\ Successes(app) \in SUBSET (1..Len(RowsOf(app)))
  BY DEF RowsAreDeployments, RowsOf, Successes
<1>2. m \in Successes(app) \cup {0} /\ \A k \in Successes(app) : k <= m
  BY <1>1, Greatest
<1>3. GetLastSuccessfulDeploymentByAppForUser(app) = row
  BY DEF GetLastSuccessfulDeploymentByAppForUser
<1> HIDE DEF m
<1>4. m \in 1..Len(RowsOf(app)) /\ i <= m
  BY <1>1, <1>2
<1>5. row = [id |-> m, status |-> deployments[RowsOf(app)[m]]]
  BY <1>4 DEF Row
<1>6. RowsOf(app)[m] \in Deployments
  BY <1>1, <1>4
<1>7. row \in [id : Nat, status : DeploymentStatus]
  BY <1>4, <1>5, <1>6
<1> HIDE DEF row
<1>8. row.id = m
  BY <1>5
<1> QED BY <1>1, <1>3, <1>4, <1>7, <1>8, NothingAssumption

LEMMA Healthy ==
  ASSUME NEW latest, HealthIndicator(latest) = "healthy"
  PROVE  latest # Nothing /\ latest.status = "succeeded"
BY Zenon DEF HealthIndicator

SuccessSeen(app) == \E d \in Deployments : AppOf[d] = app /\ Achieved(d)

(* An app called healthy has a deployment at that row that was a success.  *)
HealthyRow(app, latest) ==
  HealthIndicator(latest) = "healthy" =>
    /\ latest.id \in 1..Len(RowsOf(app))
    /\ Achieved(RowsOf(app)[latest.id])

Coherent ==
  /\ HealthIndicator(shown.latest) = "healthy" =>
       shown.lastSuccess # Nothing /\ shown.lastSuccess.id >= shown.latest.id
  /\ shown.metrics.success > 0 => shown.lastSuccess # Nothing

(* What the parts of the page that have been read say of the queue as it   *)
(* is now.                                                                 *)
HealthRead ==
  page.kind = "health" =>
    /\ "metrics" \in DOMAIN shown /\ shown.metrics.success > 0 => SuccessSeen(page.app)
    /\ "latest" \in DOMAIN shown => HealthyRow(page.app, shown.latest)
    /\ "lastSuccess" \in DOMAIN shown => Coherent \/ \E d \in Deployments : Hidden(d)

LEMMA StepHealthRead ==
  ASSUME IInv, RowsPrecedeWork, Clean, FinishersWereLast, SuccessesAreAchieved,
         RowsAreDeployments, ReadsInOrder, HealthRead,
         [ViewsNext]_<<vars, viewVars>>, faults' = 0
  PROVE  HealthRead'
<1>0. /\ page \in [kind : {"health", "observability"}, app : Apps]
      /\ deployments \in [Deployments -> DeploymentStatus]
      /\ health \in [Apps -> [success : Nat, failure : Nat]]
      /\ RowsOf(page.app) \in Seq(Deployments)
      /\ \A i \in 1..Len(RowsOf(page.app)) : RowsOf(page.app)[i] \in Deployments
  BY DEF IInv, TypeOK, StoreTypeOK, ReadsInOrder, RowsAreDeployments, RowsOf
<1> SUFFICES ASSUME page.kind = "health", page' = page
             PROVE  HealthRead'
  BY DEF HealthRead, ViewsNext, QueueStep, ReadNext, viewVars
<1>1. CASE QueueStep
  <2>1. [Next]_vars /\ shown' = shown
    BY <1>1 DEF QueueStep
  <2>2. \A d \in Deployments : (Achieved(d) => Achieved(d)') /\ (Hidden(d) => Hidden(d)')
    BY <2>1, AchievedStays DEF Hidden
  <2>3. SuccessSeen(page.app) => SuccessSeen(page.app)'
    BY <2>2 DEF SuccessSeen
  <2>4. HealthyRow(page.app, shown.latest) => HealthyRow(page.app, shown.latest)'
    <3>1. \A i \in 1..Len(RowsOf(page.app)) :
            i \in 1..Len(RowsOf(page.app)') /\ RowsOf(page.app)'[i] = RowsOf(page.app)[i]
      BY <1>0, <1>1, StepInserted
    <3> QED BY <1>0, <2>1, <2>2, <3>1 DEF HealthyRow
  <2>5. Coherent' <=> Coherent
    BY <2>1 DEF Coherent
  <2> QED BY <2>1, <2>2, <2>3, <2>4, <2>5 DEF HealthRead
<1>2. ASSUME UNCHANGED <<vars, inserted>>
      PROVE  /\ \A d : (Achieved(d)' <=> Achieved(d)) /\ (Hidden(d)' <=> Hidden(d))
             /\ SuccessSeen(page.app)' <=> SuccessSeen(page.app)
             /\ RowsOf(page.app)' = RowsOf(page.app)
  BY <1>2 DEF vars, storeVars, procVars, Achieved, Hidden, SuccessSeen, RowsOf
<1>3. CASE UNCHANGED <<vars, viewVars>>
  BY <1>2, <1>3 DEF viewVars, HealthRead, HealthyRow, Coherent
<1>4. CASE ReadNext
  <2>0. UNCHANGED <<vars, inserted>>
    BY <1>4 DEF ReadNext
  <2>1. CASE Issues({}, "metrics")
    <3>1. DOMAIN shown' = {"metrics"} /\ shown'.metrics = health[page.app]
      BY <2>1, Statement DEF Issues
    <3>2. health[page.app].success > 0 => SuccessSeen(page.app)
      BY <1>0 DEF SuccessesAreAchieved, SuccessSeen
    <3> QED BY <1>2, <2>0, <3>1, <3>2 DEF HealthRead
  <2>2. CASE Issues({"metrics"}, "latest")
    <3>1. /\ DOMAIN shown = {"metrics"} /\ DOMAIN shown' = {"metrics", "latest"}
          /\ shown'.metrics = shown.metrics
          /\ shown'.latest = GetLatestDeploymentByAppForUser(page.app)
      BY <2>2, Statement DEF Issues
    <3>2. HealthyRow(page.app, GetLatestDeploymentByAppForUser(page.app))
      <4> DEFINE n == Len(RowsOf(page.app))
      <4> SUFFICES ASSUME HealthIndicator(Row(page.app, n)) = "healthy"
                   PROVE  /\ Row(page.app, n).id \in 1..n
                          /\ Achieved(RowsOf(page.app)[Row(page.app, n).id])
        BY DEF HealthyRow, GetLatestDeploymentByAppForUser
      <4>1. Row(page.app, n) # Nothing /\ Row(page.app, n).status = "succeeded"
        BY Healthy
      <4>2. n # 0 /\ n \in Nat
        BY <1>0, <4>1 DEF Row
      <4>3. Row(page.app, n) = [id |-> n, status |-> deployments[RowsOf(page.app)[n]]]
        BY <4>2 DEF Row
      <4>4. n \in 1..n /\ RowsOf(page.app)[n] \in Deployments
        BY <1>0, <4>2
      <4> QED BY <4>1, <4>3, <4>4 DEF SuccessesAreAchieved
    <3>3. HealthyRow(page.app, shown.latest)'
      BY <1>2, <2>0, <3>1, <3>2 DEF HealthyRow
    <3> QED BY <1>2, <2>0, <3>1, <3>3 DEF HealthRead
  <2>3. CASE Issues({"metrics", "latest"}, "lastSuccess")
    <3>1. /\ DOMAIN shown = {"metrics", "latest"}
          /\ DOMAIN shown' = {"metrics", "latest", "lastSuccess"}
          /\ shown'.metrics = shown.metrics /\ shown'.latest = shown.latest
          /\ shown'.lastSuccess = GetLastSuccessfulDeploymentByAppForUser(page.app)
      BY <2>3, Statement DEF Issues
    <3>2. HealthyRow(page.app, shown.latest)'
      BY <1>2, <2>0, <3>1 DEF HealthRead, HealthyRow
    <3>3. ASSUME ~ \E d \in Deployments : Hidden(d)
          PROVE  Coherent'
      <4>1. \A i \in 1..Len(RowsOf(page.app)) :
              Achieved(RowsOf(page.app)[i]) => i \in Successes(page.app)
        BY <1>0, <3>3 DEF Achieved, Hidden, Successes
      <4>2. HealthIndicator(shown.latest) = "healthy" => shown.latest.id \in Successes(page.app)
        BY <3>1, <4>1 DEF HealthRead, HealthyRow
      <4>3. shown.metrics.success > 0 => \E i : i \in Successes(page.app)
        <5>1. ASSUME NEW d \in Deployments, AppOf[d] = page.app, Achieved(d)
              PROVE  \E i : i \in Successes(page.app)
          <6>1. deployments[d] # "none"
            BY <5>1 DEF Achieved
          <6>2. PICK i \in 1..Len(RowsOf(page.app)) : RowsOf(page.app)[i] = d
            BY <5>1, <6>1 DEF RowsAreDeployments
          <6> QED BY <4>1, <5>1, <6>2
        <5> QED BY <3>1, <5>1 DEF HealthRead, SuccessSeen
      <4> QED BY <1>0, <3>1, <4>2, <4>3, LastSuccess DEF Coherent
    <3> QED BY <1>2, <2>0, <3>1, <3>2, <3>3 DEF HealthRead
  <2> QED BY <1>4, <2>1, <2>2, <2>3, NextRead
<1> QED BY <1>1, <1>3, <1>4 DEF ViewsNext

HealthInv ==
  /\ IInv /\ RowsPrecedeWork /\ FinishersWereLast
  /\ RowsAreDeployments /\ ReadsInOrder
  /\ faults = 0 => Clean /\ SuccessesAreAchieved /\ HealthRead

LEMMA InitHealthInv == ViewsInit => HealthInv
<1> SUFFICES ASSUME ViewsInit PROVE HealthInv
  OBVIOUS
<1>1. Init /\ DOMAIN shown = {}
  BY DEF ViewsInit
<1>2. IInv /\ FinishersWereLast /\ (faults = 0 => Clean)
  BY <1>1, InitCount, InitClean DEF CountInv, CleanInv
<1>3. HealthRead
  BY <1>1 DEF HealthRead
<1> QED BY <1>1, <1>2, <1>3, InitRows, InitInserted, InitReads, InitAchieved DEF HealthInv

(* Readers leave the queue alone.                                          *)
LEMMA ViewsStep ==
  ASSUME [ViewsNext]_<<vars, viewVars>>
  PROVE  [Next]_vars /\ (QueueStep \/ UNCHANGED <<vars, inserted>>)
BY DEF ViewsNext, QueueStep, ReadNext, viewVars

LEMMA StepRowsAreDeployments ==
  ASSUME IInv, RowsPrecedeWork, RowsAreDeployments, [ViewsNext]_<<vars, viewVars>>
  PROVE  RowsAreDeployments'
<1>1. CASE QueueStep
  BY <1>1, StepInserted
<1>2. CASE UNCHANGED <<vars, inserted>>
  BY <1>2 DEF vars, storeVars, RowsAreDeployments, RowsOf
<1> QED BY <1>1, <1>2, ViewsStep

LEMMA StepHealthInv == HealthInv /\ [ViewsNext]_<<vars, viewVars>> => HealthInv'
<1> SUFFICES ASSUME HealthInv, [ViewsNext]_<<vars, viewVars>>
             PROVE  HealthInv'
  OBVIOUS
<1>1. [Next]_vars /\ TypeOK
  BY ViewsStep DEF HealthInv, IInv
<1>2. IInv' /\ RowsPrecedeWork' /\ FinishersWereLast' /\ RowsAreDeployments' /\ ReadsInOrder'
  BY <1>1, StepIInv, StepRows, StepFinishers, StepRowsAreDeployments, StepReads DEF HealthInv
<1>3. ASSUME faults' = 0
      PROVE  Clean' /\ SuccessesAreAchieved' /\ HealthRead'
  <2>1. faults = 0
    BY <1>1, <1>3, FaultsRemain
  <2> QED BY <1>1, <1>3, <2>1, StepClean, StepAchieved, StepHealthRead DEF HealthInv
<1> QED BY <1>2, <1>3 DEF HealthInv

(* The parts of a health page agree although they are of different         *)
(* moments: what an earlier part reports of a success is still to be seen  *)
(* when the last part is read, or a late retry has overwritten it.         *)
THEOREM HealthPageAgrees == ViewsSpec => []HealthPageIsCoherent
<1>1. HealthInv => HealthPageIsCoherent
  <2> SUFFICES ASSUME HealthInv, PageIsServed("health"), faults = 0, Overwritten = {}
               PROVE  Coherent
    BY DEF HealthPageIsCoherent, Coherent
  <2>1. page.kind = "health" /\ Cardinality(DOMAIN shown) = 3
    BY DEF PageIsServed, Statements, HealthSummary
  <2>2. DOMAIN shown = {"metrics", "latest", "lastSuccess"}
    BY <2>1, FewReads DEF HealthInv, ReadsInOrder
  <2>3. ~ \E d \in Deployments : Hidden(d)
    BY DEF Hidden, Achieved, Overwritten
  <2> QED BY <2>1, <2>2, <2>3 DEF HealthInv, HealthRead
<1> QED BY <1>1, InitHealthInv, StepHealthInv, PTL DEF ViewsSpec

-----------------------------------------------------------------------------
(* The observability page                                                  *)

(* The deployments of an app that show an outcome.                         *)
Outcomes(app) == {d \in Deployments : AppOf[d] = app /\ deployments[d] \in Terminal}

(* Those that may come to show one without an attempt to record it: their  *)
(* job is dropped, or was not posted, because a statement failed.          *)
Dropping(app) == {a \in Attempts : AppOf[a[1]] = app /\ pc[a] \in {"abort", "abortDep"}}
Unposted(app) == {d \in Deployments : AppOf[d] = app /\ request[d] = "failing"}

Owed(app) ==
  Cardinality(Outcomes(app)) + Cardinality(Dropping(app)) + Cardinality(Unposted(app))

Accounted(app) ==
  health[app].success + health[app].failure
    + Cardinality(Recording(app)) + faults + Concurrency * crashes

(* A step never accounts for less, and for as much more as it shows.       *)
Balanced(app) ==
  /\ Accounted(app) <= Accounted(app)'
  /\ Owed(app)' + Accounted(app) <= Accounted(app)' + Owed(app)

Share(d, app) == IF AppOf[d] = app THEN 1 ELSE 0

LEMMA Counting ==
  ASSUME NEW U, IsFiniteSet(U), NEW S \in SUBSET U, NEW T \in SUBSET U
  PROVE  /\ Cardinality(S) \in Nat /\ Cardinality(T) \in Nat
         /\ S \subseteq T => Cardinality(S) <= Cardinality(T)
         /\ \A x \in U : S \subseteq T \cup {x} => Cardinality(S) <= Cardinality(T) + 1
         /\ \A x \in U : x \notin T /\ S = T \cup {x} => Cardinality(S) = Cardinality(T) + 1
<1>1. IsFiniteSet(S) /\ IsFiniteSet(T) /\ Cardinality(S) \in Nat /\ Cardinality(T) \in Nat
  BY FS_Subset, FS_CardinalityType
<1>2. S \subseteq T => Cardinality(S) <= Cardinality(T)
  BY <1>1, FS_Subset
<1>3. ASSUME NEW x \in U
      PROVE  /\ IsFiniteSet(T \cup {x})
             /\ x \notin T => Cardinality(T \cup {x}) = Cardinality(T) + 1
             /\ x \in T => T \cup {x} = T
  <2>1. IsFiniteSet(T \cup {x}) /\ (x \notin T => Cardinality(T \cup {x}) = Cardinality(T) + 1)
    BY <1>1, FS_AddElement, Zenon
  <2> QED BY <2>1
<1>4. ASSUME NEW x \in U, S \subseteq T \cup {x}
      PROVE  Cardinality(S) <= Cardinality(T) + 1
  <2>1. Cardinality(S) <= Cardinality(T \cup {x})
    BY <1>3, <1>4, FS_Subset
  <2>2. CASE x \in T
    BY <1>1, <1>3, <2>1, <2>2
  <2>3. CASE x \notin T
    BY <1>1, <1>3, <2>1, <2>3
  <2> QED BY <2>2, <2>3
<1>5. ASSUME NEW x \in U, x \notin T, S = T \cup {x}
      PROVE  Cardinality(S) = Cardinality(T) + 1
  BY <1>3, <1>5
<1> QED BY <1>1, <1>2, <1>4, <1>5

(* The goroutines of an app that stand at certain statements.              *)
At(app, P) == {b \in Attempts : AppOf[b[1]] = app /\ pc[b] \in P}

LEMMA GoCounts ==
  ASSUME TypeOK, NEW app \in Apps, NEW P, NEW a \in Attempts, NEW from, NEW to, Go(a, from, to)
  PROVE  /\ Cardinality(At(app, P)) \in Nat /\ Cardinality(At(app, P)') \in Nat
         /\ (from \in P <=> to \in P) => Cardinality(At(app, P)') = Cardinality(At(app, P))
         /\ from \notin P /\ to \in P =>
              Cardinality(At(app, P)') = Cardinality(At(app, P)) + Share(a[1], app)
         /\ from \in P /\ to \notin P =>
              Cardinality(At(app, P)') = Cardinality(At(app, P)) - Share(a[1], app)
<1>0. pc \in [Attempts -> PcStates] /\ pc[a] = from /\ pc' = [pc EXCEPT ![a] = to]
  BY DEF TypeOK, Go
<1>1. At(app, P) \in SUBSET Attempts /\ At(app, P)' \in SUBSET Attempts
  BY DEF At
<1>2. IsFiniteSet(Attempts)
  BY AttemptsAreFinite
<1>3. Cardinality(At(app, P)) \in Nat /\ Cardinality(At(app, P)') \in Nat
  BY <1>1, <1>2, Counting
<1>4. CASE (from \in P <=> to \in P) \/ AppOf[a[1]] # app
  <2>1. At(app, P)' = At(app, P)
    BY <1>0, <1>4 DEF At
  <2> QED BY <1>3, <1>4, <2>1 DEF Share
<1>5. CASE from \notin P /\ to \in P /\ AppOf[a[1]] = app
  <2>1. At(app, P)' = At(app, P) \cup {a} /\ a \notin At(app, P)
    BY <1>0, <1>5 DEF At
  <2> QED BY <1>1, <1>2, <1>3, <1>5, <2>1, Counting DEF Share
<1>6. CASE from \in P /\ to \notin P /\ AppOf[a[1]] = app
  <2>1. At(app, P) = At(app, P)' \cup {a} /\ a \notin At(app, P)'
    BY <1>0, <1>6 DEF At
  <2>2. Cardinality(At(app, P)) = Cardinality(At(app, P)') + 1
    BY <1>1, <1>2, <2>1, Counting
  <2> QED BY <1>3, <1>6, <2>2 DEF Share
<1> QED BY <1>4, <1>5, <1>6, <1>3

(* One deployment's status is written.                                     *)
LEMMA OutcomeCounts ==
  ASSUME TypeOK, NEW app \in Apps, NEW d \in Deployments, NEW s,
         deployments' = [deployments EXCEPT ![d] = s]
  PROVE  /\ Cardinality(Outcomes(app)') <= Cardinality(Outcomes(app)) + Share(d, app)
         /\ s \notin Terminal => Cardinality(Outcomes(app)') <= Cardinality(Outcomes(app))
<1>0. deployments \in [Deployments -> DeploymentStatus]
  BY DEF TypeOK, StoreTypeOK
<1>1. Outcomes(app) \in SUBSET Deployments /\ Outcomes(app)' \in SUBSET Deployments
  BY DEF Outcomes
<1>2. CASE AppOf[d] = app /\ s \in Terminal
  <2>1. Outcomes(app)' \subseteq Outcomes(app) \cup {d}
    BY <1>0 DEF Outcomes
  <2> QED BY <1>1, <1>2, <2>1, Counting DEF Share
<1>3. CASE AppOf[d] # app \/ s \notin Terminal
  <2>1. Outcomes(app)' \subseteq Outcomes(app)
    BY <1>0, <1>3 DEF Outcomes
  <2>2. /\ Cardinality(Outcomes(app)') <= Cardinality(Outcomes(app))
        /\ Cardinality(Outcomes(app)') \in Nat /\ Cardinality(Outcomes(app)) \in Nat
    BY <1>1, <2>1, Counting
  <2> QED BY <2>2 DEF Share
<1> QED BY <1>2, <1>3

(* One request goes on.                                                    *)
LEMMA UnpostedCounts ==
  ASSUME TypeOK, NEW app \in Apps, NEW d \in Deployments, NEW to,
         request' = [request EXCEPT ![d] = to]
  PROVE  /\ Cardinality(Unposted(app)') <= Cardinality(Unposted(app)) + 1
         /\ to # "failing" => Cardinality(Unposted(app)') <= Cardinality(Unposted(app))
         /\ request[d] = "failing" /\ to # "failing" =>
              Cardinality(Unposted(app)') = Cardinality(Unposted(app)) - Share(d, app)
<1>0. request \in [Deployments -> RequestStates]
  BY DEF TypeOK
<1>1. Unposted(app) \in SUBSET Deployments /\ Unposted(app)' \in SUBSET Deployments
  BY DEF Unposted
<1>2. Cardinality(Unposted(app)) \in Nat /\ Cardinality(Unposted(app)') \in Nat
  BY <1>1, Counting
<1>3. Cardinality(Unposted(app)') <= Cardinality(Unposted(app)) + 1
  <2>1. Unposted(app)' \subseteq Unposted(app) \cup {d}
    BY <1>0 DEF Unposted
  <2> QED BY <1>1, <2>1, Counting
<1>4. ASSUME to # "failing"
      PROVE  Cardinality(Unposted(app)') <= Cardinality(Unposted(app))
  <2>1. Unposted(app)' \subseteq Unposted(app)
    BY <1>0, <1>4 DEF Unposted
  <2> QED BY <1>1, <2>1, Counting
<1>5. ASSUME request[d] = "failing", to # "failing"
      PROVE  Cardinality(Unposted(app)') = Cardinality(Unposted(app)) - Share(d, app)
  <2>1. CASE AppOf[d] = app
    <3>1. Unposted(app) = Unposted(app)' \cup {d} /\ d \notin Unposted(app)'
      BY <1>0, <1>5, <2>1 DEF Unposted
    <3>2. Cardinality(Unposted(app)) = Cardinality(Unposted(app)') + 1
      BY <1>1, <3>1, Counting
    <3> QED BY <1>2, <2>1, <3>2 DEF Share
  <2>2. CASE AppOf[d] # app
    <3>1. Unposted(app)' = Unposted(app)
      BY <1>0, <1>5, <2>2 DEF Unposted
    <3> QED BY <1>2, <2>2, <3>1 DEF Share
  <2> QED BY <2>1, <2>2
<1> QED BY <1>3, <1>4, <1>5

(* The numbers of an app, before a step and after it.                      *)
LEMMA Numbers ==
  ASSUME TypeOK, TypeOK', NEW app \in Apps
  PROVE  /\ Cardinality(Outcomes(app)) \in Nat /\ Cardinality(Outcomes(app)') \in Nat
         /\ Cardinality(Dropping(app)) \in Nat /\ Cardinality(Dropping(app)') \in Nat
         /\ Cardinality(Unposted(app)) \in Nat /\ Cardinality(Unposted(app)') \in Nat
         /\ Cardinality(Recording(app)) \in Nat /\ Cardinality(Recording(app)') \in Nat
         /\ health[app].success \in Nat /\ health'[app].success \in Nat
         /\ health[app].failure \in Nat /\ health'[app].failure \in Nat
         /\ faults \in Nat /\ faults' \in Nat
         /\ Concurrency * crashes \in Nat /\ Concurrency * crashes' \in Nat
<1>1. /\ Outcomes(app) \in SUBSET Deployments /\ Outcomes(app)' \in SUBSET Deployments
      /\ Unposted(app) \in SUBSET Deployments /\ Unposted(app)' \in SUBSET Deployments
      /\ Dropping(app) \in SUBSET Attempts /\ Dropping(app)' \in SUBSET Attempts
      /\ Recording(app) \in SUBSET Attempts /\ Recording(app)' \in SUBSET Attempts
  BY DEF Outcomes, Unposted, Dropping, Recording
<1>2. IsFiniteSet(Attempts) /\ IsFiniteSet(Deployments)
  BY AttemptsAreFinite
<1>3. /\ Cardinality(Outcomes(app)) \in Nat /\ Cardinality(Outcomes(app)') \in Nat
      /\ Cardinality(Dropping(app)) \in Nat /\ Cardinality(Dropping(app)') \in Nat
      /\ Cardinality(Unposted(app)) \in Nat /\ Cardinality(Unposted(app)') \in Nat
      /\ Cardinality(Recording(app)) \in Nat /\ Cardinality(Recording(app)') \in Nat
  BY <1>1, <1>2, Counting
<1>4. /\ health[app].success \in Nat /\ health'[app].success \in Nat
      /\ health[app].failure \in Nat /\ health'[app].failure \in Nat
      /\ faults \in Nat /\ faults' \in Nat /\ crashes \in Nat /\ crashes' \in Nat
  BY DEF TypeOK, StoreTypeOK
<1>5. \A n \in Nat : Concurrency * n \in Nat
  BY ConcurrencyAssumption
<1>6. Concurrency * crashes \in Nat /\ Concurrency * crashes' \in Nat
  BY <1>4, <1>5
<1> QED BY <1>3, <1>4, <1>6

(* A statement writes its table, or costs a fault.                         *)
LEMMA FaultsGrow ==
  ASSUME TypeOK
  PROVE  Fault => faults' = faults + 1 /\ faults \in Nat
BY DEF Fault, TypeOK

LEMMA AttemptBalance ==
  ASSUME TypeOK, TypeOK', NEW app \in Apps, NEW a \in Attempts, AttemptNext(a)
  PROVE  Balanced(app)
<1> DEFINE o  == Cardinality(Outcomes(app))   o1 == Cardinality(Outcomes(app)')
           dr == Cardinality(Dropping(app))   dr1 == Cardinality(Dropping(app)')
           re == Cardinality(Recording(app))  re1 == Cardinality(Recording(app)')
           h  == health[app].success + health[app].failure
           h1 == health'[app].success + health'[app].failure
           f == faults
           f1 == faults'
           s  == Share(a[1], app)
           drop == {"abort", "abortDep"}
           rec == {"recordSucceeded", "recordFailed"}
<1>0. a[1] \in Deployments /\ s \in {0, 1}
  BY AttemptPairs DEF Share
<1>1. Dropping(app) = At(app, drop) /\ Recording(app) = At(app, rec)
      /\ Dropping(app)' = At(app, drop)' /\ Recording(app)' = At(app, rec)'
  BY DEF Dropping, Recording, At
<1>2. request' = request /\ crashes' = crashes
  BY Program, Zenon DEF Go
<1>3. Unposted(app)' = Unposted(app)
  BY <1>2 DEF Unposted
<1>4. /\ o \in Nat /\ o1 \in Nat /\ dr \in Nat /\ dr1 \in Nat /\ re \in Nat /\ re1 \in Nat
      /\ h \in Nat /\ h1 \in Nat /\ f \in Nat /\ f1 \in Nat
      /\ Cardinality(Unposted(app)) \in Nat /\ Concurrency * crashes \in Nat
  BY Numbers
<1>5. (h + re + f <= h1 + re1 + f1
         /\ o1 + dr1 + (h + re + f) <= h1 + re1 + f1 + (o + dr)) => Balanced(app)
  <2> SUFFICES ASSUME h + re + f <= h1 + re1 + f1,
                      o1 + dr1 + (h + re + f) <= h1 + re1 + f1 + (o + dr)
               PROVE  Balanced(app)
    OBVIOUS
  <2>1. /\ Owed(app) = o + dr + Cardinality(Unposted(app))
        /\ Owed(app)' = o1 + dr1 + Cardinality(Unposted(app))
        /\ Accounted(app) = h + re + f + Concurrency * crashes
        /\ Accounted(app)' = h1 + re1 + f1 + Concurrency * crashes
    BY <1>2, <1>3 DEF Owed, Accounted
  <2> HIDE DEF o, o1, dr, dr1, re, re1, h, h1, f, f1
  <2> QED BY <1>4, <2>1 DEF Balanced
<1>6. deployments' = deployments => o1 = o
  BY DEF Outcomes
<1>7. /\ health' = health => h1 = h
      /\ faults' = faults => f1 = f
      /\ Fault => f1 = f + 1
  BY FaultsGrow
<1> HIDE DEF o, o1, dr, dr1, re, re1, h, h1, f, f1, s
<1>8. ASSUME NEW from, NEW to, Go(a, from, to), from \notin drop \cup rec, to \notin drop \cup rec
      PROVE  dr1 = dr /\ re1 = re
  <2>1. \A P \in {drop, rec} : Cardinality(At(app, P)') = Cardinality(At(app, P))
    BY <1>8, GoCounts
  <2> QED BY <1>1, <2>1 DEF dr, dr1, re, re1
<1>9. CASE Load(a)
  <2>1. h1 = h /\ o1 = o
    BY <1>6, <1>7, <1>9 DEF Load
  <2>2. CASE Go(a, "load", "begin") /\ UNCHANGED faults
    BY <1>4, <1>5, <1>7, <1>8, <2>1, <2>2
  <2>3. CASE Go(a, "load", "orphan") /\ Fault
    BY <1>4, <1>5, <1>8, <2>1, <2>3, <1>7
  <2>4. CASE Go(a, "load", "abort") /\ Fault
    <3>1. dr1 = dr + s /\ re1 = re
      BY <1>1, <2>4, GoCounts DEF dr, dr1, re, re1, s
    <3> QED BY <1>0, <1>4, <1>5, <2>1, <2>4, <3>1, <1>7
  <2> QED BY <1>9, <2>2, <2>3, <2>4, Zenon DEF Load
<1>10. CASE DropOrphan(a)
  <2>1. dr1 = dr /\ re1 = re /\ h1 = h /\ o1 = o
    BY <1>6, <1>7, <1>8, <1>10 DEF DropOrphan
  <2>2. f <= f1
    BY <1>4, <1>10, <1>7 DEF DropOrphan, Ignoring
  <2> QED BY <1>4, <1>5, <1>7, <2>1, <2>2
<1>11. CASE AbortJob(a)
  <2>1. dr1 = dr /\ re1 = re
    BY <1>1, <1>11, GoCounts DEF dr, dr1, re, re1, AbortJob
  <2>2. h1 = h /\ o1 = o
    BY <1>6, <1>7, <1>11 DEF AbortJob
  <2>3. f <= f1
    BY <1>4, <1>11, <1>7 DEF AbortJob, Ignoring
  <2> QED BY <1>4, <1>5, <1>7, <2>1, <2>2, <2>3
<1>12. CASE AbortDeployment(a)
  <2>1. dr1 = dr - s /\ re1 = re
    BY <1>1, <1>12, GoCounts DEF dr, dr1, re, re1, s, AbortDeployment
  <2>2. h1 = h
    BY <1>7, <1>12 DEF AbortDeployment
  <2>3. CASE UpdateDeploymentOutcome(a[1], "failed") /\ UNCHANGED faults
    <3>1. o1 <= o + s
      BY <1>0, <2>3, OutcomeCounts DEF o, o1, s, UpdateDeploymentOutcome
    <3> QED BY <1>0, <1>4, <1>5, <1>7, <2>1, <2>2, <2>3, <3>1
  <2>4. CASE Fault /\ UNCHANGED deployments
    BY <1>0, <1>4, <1>5, <1>6, <2>1, <2>2, <2>4, <1>7
  <2> QED BY <1>12, <2>3, <2>4 DEF AbortDeployment, Ignoring
<1>13. ASSUME NEW status, status \notin Terminal, NEW from, NEW to, Go(a, from, to),
              from \notin drop \cup rec, to \notin drop \cup rec,
              Ignoring(UpdateDeploymentOutcome(a[1], status), deployments), UNCHANGED health
       PROVE  Balanced(app)
  <2>1. dr1 = dr /\ re1 = re /\ h1 = h
    BY <1>7, <1>8, <1>13
  <2>2. CASE UpdateDeploymentOutcome(a[1], status) /\ UNCHANGED faults
    <3>1. o1 <= o
      BY <1>0, <1>13, <2>2, OutcomeCounts DEF o, o1, UpdateDeploymentOutcome
    <3> QED BY <1>4, <1>5, <1>7, <2>1, <2>2, <3>1
  <2>3. CASE Fault /\ UNCHANGED deployments
    BY <1>4, <1>5, <1>6, <2>1, <2>3, <1>7
  <2> QED BY <1>13, <2>2, <2>3 DEF Ignoring
<1>14. CASE Begin(a) \/ DeploymentRetry(a)
  BY <1>13, <1>14 DEF Begin, DeploymentRetry, Terminal
<1>15. CASE \/ ExecuteSucceeds(a) \/ MarkSucceeded(a) \/ MarkRetry(a) \/ MarkFailed(a)
            \/ \E retryable \in BOOLEAN : ExecuteFails(a, retryable)
  <2>1. dr1 = dr /\ re1 = re
    <3>1. \E from, to \in PcStates \ (drop \cup rec) : Go(a, from, to)
      BY <1>15 DEF ExecuteSucceeds, MarkSucceeded, MarkRetry, MarkFailed, ExecuteFails,
                   PcStates, Working
    <3> QED BY <1>8, <3>1
  <2>2. h1 = h /\ o1 = o
    BY <1>6, <1>7, <1>15 DEF ExecuteSucceeds, MarkSucceeded, MarkRetry, MarkFailed, ExecuteFails
  <2>3. f <= f1
    BY <1>4, <1>15, <1>7 DEF ExecuteSucceeds, MarkSucceeded, MarkRetry, MarkFailed,
                                   ExecuteFails, Ignoring
  <2> QED BY <1>4, <1>5, <1>7, <2>1, <2>2, <2>3
<1>16. ASSUME NEW status, NEW from, NEW to, Go(a, from, to),
              from \notin drop \cup rec, to \in rec,
              Ignoring(UpdateDeploymentOutcome(a[1], status), deployments), UNCHANGED health
       PROVE  Balanced(app)
  <2>1. dr1 = dr /\ re1 = re + s
    BY <1>1, <1>16, GoCounts DEF dr, dr1, re, re1, s
  <2>2. CASE UpdateDeploymentOutcome(a[1], status) /\ UNCHANGED faults
    <3>1. o1 <= o + s
      BY <1>0, <2>2, OutcomeCounts DEF o, o1, s, UpdateDeploymentOutcome
    <3> QED BY <1>0, <1>4, <1>5, <1>7, <1>16, <2>1, <2>2, <3>1
  <2>3. CASE Fault /\ UNCHANGED deployments
    BY <1>0, <1>4, <1>5, <1>6, <1>7, <1>16, <2>1, <2>3
  <2> QED BY <1>16, <2>2, <2>3 DEF Ignoring
<1>17. CASE DeploymentSucceeded(a) \/ DeploymentFailed(a)
  BY <1>16, <1>17 DEF DeploymentSucceeded, DeploymentFailed
<1>18. ASSUME NEW status, NEW from, NEW to, Go(a, from, to), from \in rec, to \notin drop \cup rec,
              Ignoring(RecordAppDeploymentOutcome(a[1], status), health), UNCHANGED deployments
       PROVE  Balanced(app)
  <2>1. dr1 = dr /\ re1 = re - s
    BY <1>1, <1>18, GoCounts DEF dr, dr1, re, re1, s
  <2>2. CASE RecordAppDeploymentOutcome(a[1], status) /\ UNCHANGED faults
    <3>1. h1 = h + s
      <4>1. AppOf[a[1]] \in Apps /\ health \in [Apps -> [success : Nat, failure : Nat]]
        BY <1>0 DEF TypeOK, StoreTypeOK
      <4> QED BY <2>2, <4>1 DEF RecordAppDeploymentOutcome, h, h1, s, Share
    <3> QED BY <1>0, <1>4, <1>5, <1>7, <1>6, <1>18, <2>1, <2>2, <3>1
  <2>3. CASE Fault /\ UNCHANGED health
    BY <1>0, <1>4, <1>5, <1>6, <1>7, <1>18, <2>1, <2>3
  <2> QED BY <1>18, <2>2, <2>3 DEF Ignoring
<1>19. CASE RecordSucceeded(a) \/ RecordFailed(a)
  BY <1>18, <1>19 DEF RecordSucceeded, RecordFailed
<1> QED BY <1>9, <1>10, <1>11, <1>12, <1>14, <1>15, <1>17, <1>19, Zenon DEF AttemptNext

(* The goroutines that a crash ends before they record an outcome have     *)
(* slots of the worker.                                                    *)
LEMMA CrashBalance ==
  ASSUME TypeOK, TypeOK', SlotsAreKept, NEW app \in Apps, Crash
  PROVE  Balanced(app)
<1> DEFINE o  == Cardinality(Outcomes(app))
           dr == Cardinality(Dropping(app))
           un == Cardinality(Unposted(app))
           re == Cardinality(Recording(app))
           h  == health[app].success + health[app].failure
           f  == faults
           c  == Concurrency * crashes
           c1 == Concurrency * crashes'
<1>1. /\ health' = health /\ faults' = faults /\ deployments' = deployments
      /\ crashes' = crashes + 1 /\ crashes \in Nat
  BY DEF Crash, storeVars, TypeOK
<1>2. Outcomes(app)' = Outcomes(app)
  BY <1>1 DEF Outcomes
<1>3. Dropping(app)' = {} /\ Recording(app)' = {} /\ Unposted(app)' = {}
  BY DEF Crash, Dropping, Recording, Unposted, Working
<1>4. Cardinality({}) = 0
  BY FS_EmptySet
<1>5. c1 = c + Concurrency
  <2>1. \A n \in Nat : Concurrency * (n + 1) = Concurrency * n + Concurrency
    BY ConcurrencyAssumption
  <2> QED BY <1>1, <2>1
<1>6. re <= Concurrency
  <2>1. Recording(app) \subseteq Goroutines /\ Goroutines \in SUBSET Attempts
    BY DEF Recording, Goroutines, Working
  <2>2. Cardinality(Recording(app)) <= Cardinality(Goroutines)
    BY <2>1, AttemptsAreFinite, FS_Subset
  <2> QED BY <2>1, <2>2, AttemptsAreFinite, Numbers, ConcurrencyAssumption DEF SlotsAreKept
<1>7. /\ o \in Nat /\ dr \in Nat /\ un \in Nat /\ re \in Nat /\ h \in Nat /\ f \in Nat
      /\ c \in Nat /\ c1 \in Nat
  BY Numbers
<1>8. /\ Owed(app) = o + dr + un /\ Owed(app)' = o + 0 + 0
      /\ Accounted(app) = h + re + f + c /\ Accounted(app)' = h + 0 + f + c1
  BY <1>1, <1>2, <1>3, <1>4 DEF Owed, Accounted
<1> HIDE DEF o, dr, un, re, h, f, c, c1
<1> QED BY <1>5, <1>6, <1>7, <1>8, ConcurrencyAssumption DEF Balanced

LEMMA RequestBalance ==
  ASSUME TypeOK, TypeOK', NEW app \in Apps, NEW d \in Deployments, RequestNext(d)
  PROVE  Balanced(app)
<1> DEFINE o  == Cardinality(Outcomes(app))   o1 == Cardinality(Outcomes(app)')
           un == Cardinality(Unposted(app))   un1 == Cardinality(Unposted(app)')
           dr == Cardinality(Dropping(app))
           re == Cardinality(Recording(app))
           h  == health[app].success + health[app].failure
           f  == faults                       f1 == faults'
           c  == Concurrency * crashes
           s  == Share(d, app)
<1>0. s \in {0, 1}
  BY DEF Share
<1>1. health' = health /\ crashes' = crashes /\ pc' = pc
  BY DEF RequestNext, RequestCreate, RequestEnqueue, RequestEnqueueFails, RequestCompensate,
         RequestCancelled, RequestStep
<1>2. Dropping(app)' = Dropping(app) /\ Recording(app)' = Recording(app)
  BY <1>1 DEF Dropping, Recording
<1>3. /\ o \in Nat /\ o1 \in Nat /\ un \in Nat /\ un1 \in Nat /\ dr \in Nat /\ re \in Nat
      /\ h \in Nat /\ f \in Nat /\ f1 \in Nat /\ c \in Nat
  BY Numbers
<1>4. /\ Owed(app) = o + dr + un /\ Owed(app)' = o1 + dr + un1
      /\ Accounted(app) = h + re + f + c /\ Accounted(app)' = h + re + f1 + c
  BY <1>1, <1>2 DEF Owed, Accounted
<1>5. /\ deployments' = deployments => o1 = o
      /\ faults' = faults => f1 = f
      /\ Fault => f1 = f + 1
  BY FaultsGrow DEF Outcomes
<1>6. /\ request[d] # "failing" /\ request' = [request EXCEPT ![d] = "failing"] => un1 <= un + 1
      /\ \A to : to # "failing" /\ request' = [request EXCEPT ![d] = to] => un1 <= un
      /\ \A to : request[d] = "failing" /\ to # "failing" /\ request' = [request EXCEPT ![d] = to]
                   => un1 = un - s
  BY UnpostedCounts
<1> HIDE DEF o, o1, un, un1, dr, re, h, f, f1, c, s
<1>7. (f <= f1 /\ o1 + un1 + f <= o + un + f1) => Balanced(app)
  BY <1>3, <1>4 DEF Balanced
<1>8. CASE RequestCreate(d)
  <2>1. o1 <= o
    <3>1. deployments' = [deployments EXCEPT ![d] = "queued"] /\ "queued" \notin Terminal
      BY <1>8 DEF RequestCreate, CreateDeployment, Terminal
    <3> QED BY <3>1, OutcomeCounts DEF o, o1
  <2>2. un1 <= un /\ f1 = f
    BY <1>5, <1>6, <1>8 DEF RequestCreate, RequestStep
  <2> QED BY <1>3, <1>7, <2>1, <2>2
<1>9. CASE RequestEnqueue(d)
  <2>1. un1 <= un /\ f1 = f /\ o1 = o
    BY <1>5, <1>6, <1>9 DEF RequestEnqueue, RequestStep
  <2> QED BY <1>3, <1>7, <2>1
<1>10. CASE RequestEnqueueFails(d)
  <2>1. un1 <= un + 1 /\ f1 = f + 1 /\ o1 = o
    BY <1>5, <1>6, <1>10 DEF RequestEnqueueFails, RequestStep
  <2> QED BY <1>3, <1>7, <2>1
<1>11. CASE RequestCompensate(d)
  <2>1. un1 = un - s
    BY <1>6, <1>11 DEF RequestCompensate, RequestStep
  <2>2. CASE UpdateDeploymentOutcome(d, "failed") /\ UNCHANGED faults
    <3>1. o1 <= o + s
      BY <2>2, OutcomeCounts DEF UpdateDeploymentOutcome, o, o1, s
    <3> QED BY <1>0, <1>3, <1>5, <1>7, <2>1, <2>2, <3>1
  <2>3. CASE Fault /\ UNCHANGED deployments
    BY <1>0, <1>3, <1>5, <1>7, <2>1, <2>3
  <2> QED BY <1>11, <2>2, <2>3 DEF RequestCompensate, Ignoring
<1>12. CASE RequestCancelled(d)
  <2>1. un1 <= un /\ f1 = f + 1 /\ o1 = o
    BY <1>5, <1>6, <1>12 DEF RequestCancelled, RequestStep
  <2> QED BY <1>3, <1>7, <2>1
<1> QED BY <1>8, <1>9, <1>10, <1>11, <1>12 DEF RequestNext

(* The attempt a claim begins has not been there before.                   *)
LEMMA ClaimBalance ==
  ASSUME TypeOK, TypeOK', FinishersWereLast, NEW app \in Apps, NEW d \in Deployments, Claim(d)
  PROVE  Balanced(app)
<1> DEFINE o  == Cardinality(Outcomes(app))
           un == Cardinality(Unposted(app))
           dr == Cardinality(Dropping(app))   dr1 == Cardinality(Dropping(app)')
           re == Cardinality(Recording(app))  re1 == Cardinality(Recording(app)')
           h  == health[app].success + health[app].failure
           f  == faults
           c  == Concurrency * crashes
<1>0. pc \in [Attempts -> PcStates] /\ jobs \in JobsType
  BY DEF TypeOK, StoreTypeOK, JobsType
<1>1. /\ health' = health /\ crashes' = crashes /\ deployments' = deployments
      /\ request' = request /\ faults' = faults
  BY DEF Claim
<1>2. Outcomes(app)' = Outcomes(app) /\ Unposted(app)' = Unposted(app)
  BY <1>1 DEF Outcomes, Unposted
<1>3. Dropping(app)' \subseteq Dropping(app)
  BY <1>0 DEF Claim, Dropping
<1>4. Recording(app) \subseteq Recording(app)'
  <2> SUFFICES ASSUME NEW a \in Recording(app)
               PROVE  a \in Recording(app)'
    OBVIOUS
  <2>1. a \in Attempts /\ a[1] \in Deployments /\ pc[a] \in Finishing
    BY AttemptPairs DEF Recording, Finishing, Succeeding, Failing
  <2>2. jobs[a[1]].attempts = a[2]
    BY <2>1 DEF FinishersWereLast
  <2>3. jobs[d].attempts \in Int /\ d = <<d, jobs[d].attempts + 1>>[1]
        /\ jobs[d].attempts + 1 = <<d, jobs[d].attempts + 1>>[2]
    BY <1>0 DEF JobsType
  <2>4. a # <<d, jobs[d].attempts + 1>>
    BY <2>2, <2>3
  <2>5. pc'[a] = pc[a]
    BY <1>0, <2>1, <2>4 DEF Claim
  <2> QED BY <2>5 DEF Recording
<1>5. /\ Dropping(app) \in SUBSET Attempts /\ Dropping(app)' \in SUBSET Attempts
      /\ Recording(app) \in SUBSET Attempts /\ Recording(app)' \in SUBSET Attempts
  BY DEF Dropping, Recording
<1>6. dr1 <= dr /\ re <= re1
  BY <1>3, <1>4, <1>5, AttemptsAreFinite, FS_Subset
<1>7. /\ o \in Nat /\ un \in Nat /\ dr \in Nat /\ dr1 \in Nat /\ re \in Nat /\ re1 \in Nat
      /\ h \in Nat /\ f \in Nat /\ c \in Nat
  BY Numbers
<1>8. /\ Owed(app) = o + dr + un /\ Owed(app)' = o + dr1 + un
      /\ Accounted(app) = h + re + f + c /\ Accounted(app)' = h + re1 + f + c
  BY <1>1, <1>2 DEF Owed, Accounted
<1> HIDE DEF o, un, dr, dr1, re, re1, h, f, c
<1> QED BY <1>6, <1>7, <1>8 DEF Balanced

(* No step makes the app owe more than it accounts for.                    *)
LEMMA StepBalance ==
  ASSUME TypeOK, FinishersWereLast, SlotsAreKept, [Next]_vars, NEW app \in Apps
  PROVE  Balanced(app)
<1>0. TypeOK' /\ pc \in [Attempts -> PcStates]
  BY StepTypeOK DEF TypeOK
<1>1. ASSUME UNCHANGED <<health, deployments, request, faults, crashes>>,
             Dropping(app)' = Dropping(app), Recording(app)' = Recording(app)
      PROVE  Balanced(app)
  <2>1. Outcomes(app)' = Outcomes(app) /\ Unposted(app)' = Unposted(app)
    BY <1>1 DEF Outcomes, Unposted
  <2>2. Owed(app)' = Owed(app) /\ Accounted(app)' = Accounted(app)
    BY <1>1, <2>1 DEF Owed, Accounted
  <2>3. Owed(app) \in Nat /\ Accounted(app) \in Nat
    BY <1>0, Numbers DEF Owed, Accounted
  <2> QED BY <2>2, <2>3 DEF Balanced
<1>2. ASSUME NEW a \in Attempts, Spawn(a)
      PROVE  Balanced(app)
  <2>1. Dropping(app)' = Dropping(app) /\ Recording(app)' = Recording(app)
    BY <1>0, <1>2 DEF Spawn, Dropping, Recording
  <2> QED BY <1>1, <1>2, <2>1 DEF Spawn, storeVars
<1>3. CASE Tick \/ Restart \/ UNCHANGED vars
  <2>1. pc' = pc
    BY <1>3 DEF Tick, Restart, vars, procVars
  <2>2. Dropping(app)' = Dropping(app) /\ Recording(app)' = Recording(app)
    BY <2>1 DEF Dropping, Recording
  <2> QED BY <1>1, <1>3, <2>2 DEF Tick, Restart, vars, procVars, storeVars
<1> QED BY <1>0, <1>2, <1>3, CrashBalance, RequestBalance, ClaimBalance, AttemptBalance DEF Next

(* What an app shows beyond its counters is owed to attempts that have yet *)
(* to record it, and to failures.                                          *)
OutcomesAreAccounted == \A app \in Apps : Owed(app) <= Accounted(app)

(* A list that has been read shows no more than is accounted for.          *)
RecentIsAccounted ==
  \A app \in Apps :
    (page.kind = "observability" /\ page.app = app /\ "recent" \in DOMAIN shown) =>
       /\ shown.recent["succeeded"] \in Nat /\ shown.recent["failed"] \in Nat
       /\ shown.recent["succeeded"] + shown.recent["failed"] <= Accounted(app)

RecentInv ==
  /\ IInv /\ FinishersWereLast /\ LoopHoldsOne /\ SlotsAreKept
  /\ RowsPrecedeWork /\ RowsAreDeployments /\ ReadsInOrder
  /\ OutcomesAreAccounted
  /\ RecentIsAccounted

LEMMA InitRecentInv == ViewsInit => RecentInv
<1> SUFFICES ASSUME ViewsInit PROVE RecentInv
  OBVIOUS
<1>1. Init /\ DOMAIN shown = {}
  BY DEF ViewsInit
<1>2. IInv /\ FinishersWereLast /\ LoopHoldsOne /\ SlotsAreKept
  BY <1>1, InitCount, InitCrowd DEF CountInv, CrowdInv
<1>3. ASSUME NEW app \in Apps
      PROVE  Owed(app) = 0 /\ Accounted(app) = 0
  <2>1. /\ Outcomes(app) = {} /\ Dropping(app) = {} /\ Unposted(app) = {} /\ Recording(app) = {}
    BY <1>1 DEF Init, StoreInit, Outcomes, Dropping, Unposted, Recording, Terminal
  <2>2. Cardinality({}) = 0
    BY FS_EmptySet
  <2>3. /\ health[app].success = 0 /\ health[app].failure = 0 /\ faults = 0
        /\ Concurrency * crashes = 0
    BY <1>1, ConcurrencyAssumption DEF Init, StoreInit
  <2> QED BY <2>1, <2>2, <2>3 DEF Owed, Accounted
<1>4. OutcomesAreAccounted /\ RecentIsAccounted
  BY <1>1, <1>3 DEF OutcomesAreAccounted, RecentIsAccounted
<1> QED BY <1>1, <1>2, <1>4, InitRows, InitInserted, InitReads DEF RecentInv

(* The rows that are listed with an outcome are deployments that show it.  *)
LEMMA ListedRows ==
  ASSUME IInv, RowsAreDeployments, NEW app \in Apps
  PROVE  LET listed == StatusCounts(app)
         IN  /\ listed["succeeded"] \in Nat /\ listed["failed"] \in Nat
             /\ listed["succeeded"] + listed["failed"] <= Cardinality(Outcomes(app))
<1> DEFINE n == Len(RowsOf(app))
           With(status) == {i \in ListRecentDeploymentsByAppForUser(app) : deployments[RowsOf(app)[i]] = status}
           S == With("succeeded")
           F == With("failed")
           Shown == S \cup F
           f == [i \in Shown |-> RowsOf(app)[i]]
<1>1. RowsOf(app) \in Seq(Deployments) /\ n \in Nat
  BY DEF RowsAreDeployments, RowsOf
<1>2. IsFiniteSet(1..n)
  BY <1>1, FS_Interval
<1>3. S \in SUBSET (1..n) /\ F \in SUBSET (1..n) /\ Shown \in SUBSET (1..n)
  BY DEF ListRecentDeploymentsByAppForUser
<1>4. IsFiniteSet(S) /\ IsFiniteSet(F) /\ IsFiniteSet(Shown)
  BY <1>2, <1>3, FS_Subset
<1>5. S \cap F = {}
  OBVIOUS
<1>6. Cardinality(Shown) = Cardinality(S) + Cardinality(F)
  <2>1. Cardinality(S \cup F) = Cardinality(S) + Cardinality(F) - Cardinality(S \cap F)
    BY <1>4, FS_Union
  <2>2. Cardinality(S \cap F) = 0
    BY <1>5, FS_EmptySet
  <2>3. Cardinality(S) \in Nat /\ Cardinality(F) \in Nat
    BY <1>4, FS_CardinalityType
  <2> QED BY <2>1, <2>2, <2>3
<1>7. f \in Injection(Shown, Outcomes(app))
  <2>1. ASSUME NEW i \in Shown
        PROVE  RowsOf(app)[i] \in Outcomes(app)
    <3>1. i \in 1..n /\ RowsOf(app)[i] \in Deployments /\ AppOf[RowsOf(app)[i]] = app
      BY <1>1, <1>3, <2>1 DEF RowsAreDeployments
    <3> QED BY <2>1, <3>1 DEF Outcomes, Terminal
  <2>2. \A i, j \in Shown : RowsOf(app)[i] = RowsOf(app)[j] => i = j
    BY <1>3 DEF RowsAreDeployments
  <2> HIDE DEF Shown
  <2> QED BY <2>1, <2>2 DEF Injection, IsInjective
<1>8. IsFiniteSet(Outcomes(app))
  <2>1. Outcomes(app) \subseteq Deployments
    BY DEF Outcomes
  <2> QED BY <2>1, FS_Subset
<1>9. Cardinality(Shown) <= Cardinality(Outcomes(app))
  <2> HIDE DEF Shown, f
  <2> QED BY <1>4, <1>7, <1>8, FS_Injection
<1>10. /\ StatusCounts(app)["succeeded"] = Cardinality(S)
       /\ StatusCounts(app)["failed"] = Cardinality(F)
  BY DEF StatusCounts, DeploymentStatus
<1>11. Cardinality(S) \in Nat /\ Cardinality(F) \in Nat
  BY <1>4, FS_CardinalityType
<1> HIDE DEF S, F, Shown
<1> QED BY <1>6, <1>9, <1>10, <1>11

LEMMA Spectators ==
  ASSUME UNCHANGED vars, NEW app
  PROVE  Accounted(app)' = Accounted(app) /\ Owed(app)' = Owed(app)
<1>1. /\ health' = health /\ pc' = pc /\ deployments' = deployments /\ request' = request
      /\ faults' = faults /\ crashes' = crashes
  BY DEF vars, storeVars, procVars
<1>2. /\ Recording(app)' = Recording(app) /\ Outcomes(app)' = Outcomes(app)
      /\ Dropping(app)' = Dropping(app) /\ Unposted(app)' = Unposted(app)
  BY <1>1 DEF Recording, Outcomes, Dropping, Unposted
<1> QED BY <1>1, <1>2 DEF Accounted, Owed

LEMMA StepAccounted ==
  ASSUME RecentInv, [ViewsNext]_<<vars, viewVars>>
  PROVE  OutcomesAreAccounted' /\ RecentIsAccounted'
<1>0. /\ TypeOK /\ TypeOK' /\ [Next]_vars /\ OutcomesAreAccounted /\ FinishersWereLast
      /\ SlotsAreKept /\ RecentIsAccounted /\ ReadsInOrder /\ RowsAreDeployments /\ IInv
  BY ViewsStep, StepTypeOK DEF RecentInv, IInv
<1>1. \A app \in Apps : /\ Owed(app) \in Nat /\ Owed(app)' \in Nat
                        /\ Accounted(app) \in Nat /\ Accounted(app)' \in Nat
  BY <1>0, Numbers DEF Owed, Accounted
<1>2. \A app \in Apps : Accounted(app) <= Accounted(app)'
                        /\ Owed(app)' + Accounted(app) <= Accounted(app)' + Owed(app)
  BY <1>0, StepBalance DEF Balanced
<1>3. OutcomesAreAccounted'
  <2> SUFFICES ASSUME NEW app \in Apps
               PROVE  Owed(app)' <= Accounted(app)'
    BY DEF OutcomesAreAccounted
  <2> DEFINE o == Owed(app)  o1 == Owed(app)'  c == Accounted(app)  c1 == Accounted(app)'
  <2>1. o \in Nat /\ o1 \in Nat /\ c \in Nat /\ c1 \in Nat /\ o <= c /\ o1 + c <= c1 + o
    BY <1>0, <1>1, <1>2 DEF OutcomesAreAccounted
  <2> HIDE DEF o, o1, c, c1
  <2>2. o1 <= c1
    BY <2>1
  <2> QED BY <2>2 DEF o1, c1
<1>4. ASSUME UNCHANGED <<page, shown>>
      PROVE  RecentIsAccounted'
  <2> SUFFICES ASSUME NEW app \in Apps, page.kind = "observability", page.app = app,
                      "recent" \in DOMAIN shown
               PROVE  /\ shown.recent["succeeded"] \in Nat /\ shown.recent["failed"] \in Nat
                      /\ shown.recent["succeeded"] + shown.recent["failed"] <= Accounted(app)'
    BY <1>4 DEF RecentIsAccounted
  <2> DEFINE s == shown.recent["succeeded"]  f == shown.recent["failed"]
             c == Accounted(app)  c1 == Accounted(app)'
  <2>1. s \in Nat /\ f \in Nat /\ s + f <= c
    BY <1>0 DEF RecentIsAccounted
  <2>2. c \in Nat /\ c1 \in Nat /\ c <= c1
    BY <1>1, <1>2
  <2> HIDE DEF s, f, c, c1
  <2>3. s \in Nat /\ f \in Nat /\ s + f <= c1
    BY <2>1, <2>2
  <2> QED BY <2>3 DEF s, f, c1
<1>5. ASSUME ReadNext
      PROVE  RecentIsAccounted'
  <2> SUFFICES ASSUME NEW app \in Apps, page.kind = "observability", page.app = app
               PROVE  /\ shown'.recent["succeeded"] \in Nat /\ shown'.recent["failed"] \in Nat
                      /\ shown'.recent["succeeded"] + shown'.recent["failed"] <= Accounted(app)'
    BY <1>5 DEF RecentIsAccounted, ReadNext
  <2>1. Accounted(app)' = Accounted(app)
    BY <1>5, Spectators DEF ReadNext
  <2>2. CASE Issues({"recent"}, "metrics")
    <3>1. "recent" \in DOMAIN shown /\ shown'.recent = shown.recent
      BY <2>2 DEF Issues
    <3> QED BY <1>0, <2>1, <3>1 DEF RecentIsAccounted
  <2>3. CASE Issues({}, "recent")
    <3> DEFINE listed == StatusCounts(app)
               s == listed["succeeded"]  f == listed["failed"]  c == Accounted(app)
               o == Cardinality(Outcomes(app))  dr == Cardinality(Dropping(app))
               un == Cardinality(Unposted(app))
    <3>1. shown'.recent = listed
      BY <2>3, Statement DEF Issues
    <3>2. s \in Nat /\ f \in Nat /\ s + f <= o
      BY <1>0, ListedRows
    <3>3. Owed(app) <= c /\ c \in Nat
      BY <1>0, <1>1 DEF OutcomesAreAccounted
    <3>4. o \in Nat /\ dr \in Nat /\ un \in Nat /\ o + dr + un <= c
      BY <1>0, <3>3, Numbers DEF Owed
    <3> HIDE DEF s, f, c, o, dr, un
    <3>5. s + f <= c
      BY <3>2, <3>3, <3>4
    <3> QED BY <2>1, <3>1, <3>2, <3>5 DEF s, f, c
  <2> QED BY <1>0, <1>5, <2>2, <2>3, NextRead
<1>6. UNCHANGED <<page, shown>> \/ ReadNext
  BY DEF ViewsNext, QueueStep, viewVars
<1> QED BY <1>3, <1>4, <1>5, <1>6

LEMMA StepRecentInv == RecentInv /\ [ViewsNext]_<<vars, viewVars>> => RecentInv'
<1> SUFFICES ASSUME RecentInv, [ViewsNext]_<<vars, viewVars>>
             PROVE  RecentInv'
  OBVIOUS
<1>1. [Next]_vars
  BY ViewsStep
<1>2. IInv' /\ RowsPrecedeWork' /\ FinishersWereLast' /\ RowsAreDeployments' /\ ReadsInOrder'
  BY <1>1, StepIInv, StepRows, StepFinishers, StepRowsAreDeployments, StepReads DEF RecentInv
<1>3. LoopHoldsOne' /\ SlotsAreKept'
  BY <1>1, StepCrowd DEF CrowdInv, RecentInv
<1> QED BY <1>2, <1>3, StepAccounted DEF RecentInv

(* The list on an observability page is older than the counters beside it, *)
(* so each outcome it lists has been counted, is about to be, or was lost  *)
(* to a failure: the counters never fall behind by more.                   *)
THEOREM ObservabilityPageAgrees == ViewsSpec => ListedOutcomesAreCounted
<1> DEFINE Counted ==
      (~PageIsServed("observability") /\ PageIsServed("observability")') =>
         shown'.recent["succeeded"] + shown'.recent["failed"]
           <= shown'.metrics.success + shown'.metrics.failure
              + Cardinality(Recording(page.app)) + faults + Concurrency * crashes
<1>1. ASSUME RecentInv, [ViewsNext]_<<vars, viewVars>>
      PROVE  [Counted]_<<vars, viewVars>>
  <2> SUFFICES ASSUME ~PageIsServed("observability"), PageIsServed("observability")'
               PROVE  shown'.recent["succeeded"] + shown'.recent["failed"]
                        <= shown'.metrics.success + shown'.metrics.failure
                           + Cardinality(Recording(page.app)) + faults + Concurrency * crashes
    OBVIOUS
  <2>1. ReadNext
    BY <1>1 DEF ViewsNext, QueueStep, viewVars, PageIsServed
  <2>2. page' = page /\ page.kind = "observability" /\ Cardinality(DOMAIN shown') = 2
    BY <2>1 DEF ReadNext, PageIsServed, Statements, ObservabilitySummary
  <2>3. Issues({}, "recent") \/ Issues({"recent"}, "metrics")
    BY <1>1, <2>1, <2>2, NextRead DEF RecentInv
  <2>4. ~Issues({}, "recent")
    <3> SUFFICES ASSUME Issues({}, "recent")
                 PROVE  FALSE
      OBVIOUS
    <3>1. DOMAIN shown' = {"recent"}
      BY DEF Issues
    <3> QED BY <2>2, <3>1, FewReads
  <2>5. /\ "recent" \in DOMAIN shown /\ shown'.recent = shown.recent
        /\ shown'.metrics = health[page.app]
    BY <2>3, <2>4, Statement DEF Issues
  <2>6. shown.recent["succeeded"] + shown.recent["failed"] <= Accounted(page.app)
    <3>1. page.app \in Apps /\ RecentIsAccounted
      BY <1>1 DEF RecentInv, ReadsInOrder
    <3> QED BY <2>2, <2>5, <3>1, Zenon DEF RecentIsAccounted
  <2> QED BY <2>5, <2>6 DEF Accounted
<1>2. ViewsSpec => []RecentInv
  BY InitRecentInv, StepRecentInv, PTL DEF ViewsSpec
<1> QED BY <1>1, <1>2, PTL DEF ViewsSpec, ListedOutcomesAreCounted

=============================================================================
