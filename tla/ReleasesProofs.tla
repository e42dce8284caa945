--------------------------- MODULE ReleasesProofs ---------------------------
(***************************************************************************)
(* Theorems about Releases, for any number of deployments, rollbacks,      *)
(* attempts, failures and crashes, and any retention limit.                *)
(*                                                                         *)
(* Everything rests on the app's executions being serial: an execution     *)
(* under way has its job taken, and one job is taken at a time.  So what   *)
(* an execution reads in one statement is still true at its next, as far   *)
(* as only executions write it.  The rollback handlers are not serial; of  *)
(* them it matters that a job exists only when its handler has finished.   *)
(***************************************************************************)
EXTENDS Releases, FiniteSetTheorems, TLAPS

Active(d) == exec[d] \in Executing \cup Ending

Taken(d) == board[d].status = "taken"

ExecutionsAreSerial ==
  /\ \A d \in Deployments : Active(d) => Taken(d)
  /\ \A d, e \in Deployments : Taken(d) /\ Taken(e) => d = e

(* Each kind of deployment executes the statements of its kind.            *)
KindsAreKept ==
  \A d \in Deployments :
    /\ exec[d] \in {"retain", "prune"} => d \notin Rollbacks
    /\ exec[d] \in {"switch", "attach", "record"} => d \in Rollbacks

HasTarget(d) == plan[d].to \in Versions \ {plan[d].from}

(* The target is chosen before the payload is saved, the payload before    *)
(* the job is enqueued, and neither changes any more.                      *)
JobsArePlanned ==
  \A d \in Rollbacks :
    /\ request[d] = "payload" => HasTarget(d)
    /\ d \in payloads => HasTarget(d) /\ request[d] \in {"enqueue", "done", "lost"}
    /\ request[d] \in {"enqueue", "done"} => d \in payloads
    /\ board[d].status # "absent" => request[d] = "done"

(* How far a rollback's execution has come.                                *)
RollbackProgress ==
  \A d \in Rollbacks :
    /\ exec[d] = "record" => attached[d] = plan[d].to
    /\ exec[d] = "succeed" \/ Succeeded(d) => d \in events /\ attached[d] = plan[d].to

PublishedBy(d) == {v \in Versions : releases[v].deployment = d}

(* Before anything has failed, an execution publishes and then succeeds.   *)
Unpublished(d) ==
  \/ board[d].status \in {"absent", "waiting"}
  \/ exec[d] \in {"execute", "retry", "fail"}

Published(d) == exec[d] \in {"retain", "prune", "succeed"} \/ Succeeded(d)

PublishingProgress ==
  faults = 0 =>
    \A d \in Deployments \ Rollbacks :
      /\ Unpublished(d) => PublishedBy(d) = {}
      /\ Published(d) => PublishedBy(d) = {attached[d]}

RollbacksDoNotFail ==
  faults = 0 => \A d \in Rollbacks : exec[d] # "fail" /\ board[d].status # "failed"

(* The release just published is still the newest when it is applied.      *)
Pruning(d) == exec[d] \in {"retain", "prune"}

RetentionIsCurrent ==
  /\ \A d \in Deployments : Pruning(d) => attached[d] = Len(releases)
  /\ \A d \in Deployments : exec[d] = "prune" => keepSet = Kept(Len(releases))
  /\ \A v \in Retained, w \in Versions : v < w => w \in Retained

(* What the limit leaves: one more while a new release waits for it.       *)
LimitIsKept ==
  faults + crashes = 0 =>
    \A v \in Retained :
      /\ v >= Len(releases) - Keep
      /\ (\A d \in Deployments : ~Pruning(d)) => v > Len(releases) - Keep

IInv ==
  /\ TypeOK
  /\ ExecutionsAreSerial
  /\ KindsAreKept
  /\ JobsArePlanned
  /\ RollbackProgress
  /\ PublishingProgress
  /\ RollbacksDoNotFail
  /\ RetentionIsCurrent
  /\ LimitIsKept

-----------------------------------------------------------------------------
(* Types                                                                   *)

USE RollbacksAssumption, LimitsAssumption

Rows == [deployment : Deployments, retained : BOOLEAN]

LEMMA InitIInv == Init => IInv
BY DEF Init, IInv, TypeOK, Queue!BoardTypeOK, Queue!BoardInit, Queue!States, RequestStates,
       ExecStates, Executing, Ending, ExecutionsAreSerial, Active, Taken, KindsAreKept,
       JobsArePlanned, RollbackProgress, Succeeded, PublishingProgress, Unpublished, Published,
       PublishedBy, Versions, RollbacksDoNotFail, RetentionIsCurrent, Pruning, Retained,
       LimitIsKept

(* Publishing appends one row,                                             *)
LEMMA PublishedRows ==
  ASSUME TypeOK, NEW d \in Deployments, CreateReleaseVersion(d)
  PROVE  /\ releases' \in Seq(Rows)
         /\ Len(releases') = Len(releases) + 1
         /\ Len(releases) \in Nat
         /\ current' = Len(releases) + 1
         /\ attached' = [attached EXCEPT ![d] = Len(releases) + 1]
         /\ releases'[Len(releases) + 1] = [deployment |-> d, retained |-> TRUE]
         /\ \A v \in Versions : releases'[v] = releases[v]
<1>1. releases \in Seq(Rows) /\ [deployment |-> d, retained |-> TRUE] \in Rows
  BY DEF TypeOK, Rows
<1> DEFINE row == [deployment |-> d, retained |-> TRUE]
<1>2. releases' = Append(releases, row)
  BY DEF CreateReleaseVersion
<1>3. row \in Rows /\ row = [deployment |-> d, retained |-> TRUE]
  BY <1>1
<1> HIDE DEF row
<1>4. releases' \in Seq(Rows) /\ Len(releases') = Len(releases) + 1 /\ Len(releases) \in Nat
  BY <1>1, <1>2, <1>3
<1>5. releases'[Len(releases) + 1] = row /\ \A v \in 1..Len(releases) : releases'[v] = releases[v]
  BY <1>1, <1>2, <1>3
<1>6. current' = Len(releases) + 1 /\ attached' = [attached EXCEPT ![d] = Len(releases) + 1]
  BY <1>4 DEF CreateReleaseVersion
<1> QED BY <1>3, <1>4, <1>5, <1>6, Zenon DEF Versions

(* and marking the old ones changes nothing but the marks.                 *)
LEMMA PrunedRows ==
  ASSUME TypeOK,
         releases' = [v \in Versions |->
                        [deployment |-> releases[v].deployment, retained |-> v \in keepSet]]
  PROVE  /\ releases' \in Seq(Rows)
         /\ Len(releases') = Len(releases)
         /\ \A v \in Versions : /\ releases'[v].deployment = releases[v].deployment
                                 /\ releases'[v].retained = (v \in keepSet)
<1>1. releases \in Seq(Rows) /\ Len(releases) \in Nat
  BY DEF TypeOK, Rows
<1>2. \A v \in Versions : releases[v] \in Rows
  BY <1>1 DEF Versions
<1>3. \A v \in Versions :
        [deployment |-> releases[v].deployment, retained |-> v \in keepSet] \in Rows
  BY <1>2 DEF Rows
<1>4. releases' \in [1..Len(releases) -> Rows]
  BY <1>3 DEF Versions
<1>5. releases' \in Seq(Rows) /\ Len(releases') = Len(releases)
  BY <1>1, <1>4
<1> QED BY <1>2, <1>5, Zenon DEF Rows

(* What the statements of the rollback handler leave alone, and how they   *)
(* reach the board.                                                        *)
LEMMA RequestFrame ==
  ASSUME TypeOK, NEW d \in Rollbacks, RequestNext(d)
  PROVE  /\ UNCHANGED <<releases, attached, events, exec, keepSet, crashes>>
         /\ faults' \in Nat /\ (faults' = faults \/ faults' = faults + 1)
         /\ board' = board \/ (Queue!Submit(d) /\ request[d] = "enqueue" /\ request'[d] = "done")
BY DEF RequestNext, ReadCurrent, ListReleases, Adopt, ChooseTarget, RejectTarget, SavePayload,
       EnqueueRollback, RequestEnds, Ask, Fault, TypeOK

LEMMA RequestTypeOK ==
  ASSUME TypeOK, NEW d \in Rollbacks, RequestNext(d)
  PROVE  TypeOK'
<1> USE DEF TypeOK, Ask, RequestStates
<1>1. /\ Len(releases) \in Nat
      /\ plan[d] \in [from : 0..Len(releases), to : 0..Len(releases)]
      /\ releases # <<>> => Len(releases) \in 0..Len(releases)
  OBVIOUS
<1>2. /\ UNCHANGED <<releases, attached, events, exec, keepSet, crashes>>
      /\ faults' \in Nat
      /\ board' = board \/ Queue!Submit(d)
  BY RequestFrame
<1>3. Queue!BoardTypeOK'
  <2>1. board \in [Deployments -> [status : Queue!States, tries : 0..MaxAttempts]]
    BY DEF TypeOK, Queue!BoardTypeOK
  <2>3. CASE Queue!Submit(d)
    <3>1. board' = [board EXCEPT ![d].status = "waiting"] /\ "waiting" \in Queue!States
      BY <2>3 DEF Queue!Submit, Queue!States
    <3> QED BY <2>1, <3>1 DEF Queue!BoardTypeOK
  <2>4. CASE board' = board
    BY <2>1, <2>4 DEF Queue!BoardTypeOK
  <2> QED BY <1>2, <2>3, <2>4
<1>4. request' \in [Rollbacks -> RequestStates]
  BY DEF RequestNext, ReadCurrent, ListReleases, Adopt, ChooseTarget, RejectTarget, SavePayload,
         EnqueueRollback, RequestEnds
<1>5. current' \in 0..Len(releases) /\ payloads' \subseteq Rollbacks /\ events \subseteq payloads'
  BY <1>1 DEF RequestNext, ReadCurrent, ListReleases, Adopt, ChooseTarget, RejectTarget,
              SavePayload, EnqueueRollback, RequestEnds
<1>6. plan' \in [Rollbacks -> [from : 0..Len(releases), to : 0..Len(releases)]]
  <2>1. \/ plan' = plan
        \/ \E x, y \in 0..Len(releases) : plan' = [plan EXCEPT ![d] = [from |-> x, to |-> y]]
    <3>1. CASE ReadCurrent(d)
      <4>1. plan' = plan \/ plan' = [plan EXCEPT ![d] = [from |-> current, to |-> 0]]
        BY <3>1 DEF ReadCurrent
      <4>2. current \in 0..Len(releases) /\ 0 \in 0..Len(releases)
        BY <1>1
      <4> QED BY <4>1, <4>2
    <3>2. CASE ListReleases(d)
      <4>1. plan' = plan \/ (releases # <<>> /\ plan' = [plan EXCEPT ![d] =
                                                      [from |-> Len(releases), to |-> 0]])
        BY <3>2 DEF ListReleases
      <4>2. Len(releases) \in 0..Len(releases) /\ 0 \in 0..Len(releases)
        BY <1>1
      <4> QED BY <4>1, <4>2
    <3>3. CASE ChooseTarget(d)
      <4>1. PICK v \in Versions : plan' = [plan EXCEPT ![d] = [from |-> plan[d].from, to |-> v]]
        BY <3>3 DEF ChooseTarget
      <4>2. v \in 0..Len(releases) /\ plan[d].from \in 0..Len(releases)
        BY <1>1 DEF Versions
      <4> HIDE DEF TypeOK
      <4> QED BY <4>1, <4>2
    <3> QED BY <3>1, <3>2, <3>3 DEF RequestNext, Adopt, RejectTarget, SavePayload,
                                   EnqueueRollback, RequestEnds
  <2>2. \A x, y \in 0..Len(releases) :
          [from |-> x, to |-> y] \in [from : 0..Len(releases), to : 0..Len(releases)]
    OBVIOUS
  <2> QED BY <2>1, <2>2
<1> QED BY <1>2, <1>3, <1>4, <1>5, <1>6 DEF Versions

(* An execution moves on to a state of its own.                            *)
LEMMA GoFacts ==
  ASSUME TypeOK, NEW d \in Deployments, NEW from, NEW to \in ExecStates, Go(d, from, to)
  PROVE  /\ exec[d] = from /\ exec'[d] = to
         /\ exec' \in [Deployments -> ExecStates]
         /\ exec' = [exec EXCEPT ![d] = exec'[d]]
         /\ UNCHANGED <<request, plan, crashes>>
BY DEF Go, TypeOK

(* The steps of an execution, by what they do to the board,                *)
LEMMA ExecBoard ==
  ASSUME TypeOK, NEW d \in Deployments, ExecNext(d)
  PROVE  /\ UNCHANGED <<request, plan, payloads, crashes>>
         /\ faults' \in Nat /\ (faults' = faults \/ faults' = faults + 1)
         /\ exec' \in [Deployments -> ExecStates]
         /\ exec' = [exec EXCEPT ![d] = exec'[d]]
         /\ \/ /\ exec[d] = "idle" /\ exec'[d] = "execute"
               /\ Queue!Take(d)
            \/ /\ exec[d] = "succeed" /\ exec'[d] = "idle"
               /\ Queue!Finish(d, "succeeded")
            \/ /\ exec[d] = "fail" /\ exec'[d] = "idle"
               /\ Queue!Finish(d, "failed")
            \/ /\ exec[d] = "retry" /\ exec'[d] = "idle"
               /\ Queue!GiveBack(d)
            \/ /\ Active(d)
               /\ exec'[d] \in Executing \cup Ending \cup {"lost"}
               /\ UNCHANGED board
<1> DEFINE Faults == faults' = faults \/ faults' = faults + 1
           Runs(to) == to \in Executing \cup Ending \cup {"lost"}
           Working(from, to) == /\ Go(d, from, to) /\ from \in Executing \cup Ending /\ Runs(to)
                                /\ UNCHANGED <<board, payloads>> /\ Faults
<1> USE DEF Executing, Ending
<1>1. ASSUME NEW from, NEW to, Working(from, to)
      PROVE  /\ to \in ExecStates /\ Go(d, from, to) /\ UNCHANGED <<board, payloads>>
             /\ from \in Executing \cup Ending /\ Runs(to) /\ Faults
  BY <1>1 DEF ExecStates
<1>2. faults \in Nat
  BY DEF TypeOK
<1>3. CASE Take(d)
  <2>1. Go(d, "idle", "execute") /\ Queue!Take(d) /\ UNCHANGED <<payloads, faults>>
    BY <1>3 DEF Take, tables
  <2>2. "execute" \in ExecStates
    BY DEF ExecStates
  <2> QED BY <1>2, <2>1, <2>2, GoFacts
<1>4. CASE Settle(d)
  <2>1. /\ \/ Go(d, "succeed", "idle") /\ Queue!Finish(d, "succeeded")
           \/ Go(d, "fail", "idle") /\ Queue!Finish(d, "failed")
           \/ Go(d, "retry", "idle") /\ Queue!GiveBack(d)
        /\ UNCHANGED <<payloads, faults>>
    BY <1>4 DEF Settle, tables
  <2>2. "idle" \in ExecStates
    BY DEF ExecStates
  <2> QED BY <1>2, <2>1, <2>2, GoFacts
<1>5. ASSUME ~Take(d), ~Settle(d)
      PROVE  \E from, to : Working(from, to)
  <2> USE DEF tables, Fault
  <2>1. CASE SettleFails(d)
    BY <2>1 DEF SettleFails
  <2>2. CASE BuildFails(d)
    BY <2>2 DEF BuildFails, Retryable
  <2>3. CASE Publish(d)
    BY <2>3 DEF Publish
  <2>4. CASE PublishFails(d)
    BY <2>4 DEF PublishFails
  <2>5. CASE ReadRetention(d)
    BY <2>5 DEF ReadRetention
  <2>6. CASE Prune(d)
    BY <2>6 DEF Prune
  <2>7. CASE RetentionFails(d)
    BY <2>7 DEF RetentionFails
  <2>8. CASE LoadRollback(d)
    BY <2>8 DEF LoadRollback
  <2>9. CASE LoadFails(d)
    BY <2>9 DEF LoadFails
  <2>10. CASE SwitchPointer(d)
    BY <2>10 DEF SwitchPointer
  <2>11. CASE AttachRelease(d)
    BY <2>11 DEF AttachRelease
  <2>12. CASE RecordEvent(d)
    BY <2>12 DEF RecordEvent
  <2>13. CASE RollbackFails(d)
    BY <2>13 DEF RollbackFails, Retryable
  <2> QED BY <1>5, <2>1, <2>2, <2>3, <2>4, <2>5, <2>6, <2>7, <2>8, <2>9, <2>10, <2>11, <2>12,
             <2>13 DEF ExecNext
<1>6. CASE ~Take(d) /\ ~Settle(d)
  <2>1. PICK from, to : Working(from, to)
    BY <1>5, <1>6
  <2> HIDE DEF Working
  <2>2. /\ to \in ExecStates /\ Go(d, from, to) /\ UNCHANGED <<board, payloads>>
        /\ from \in Executing \cup Ending /\ Runs(to) /\ Faults
    BY <1>1, <2>1
  <2> QED BY <1>2, <2>2, GoFacts DEF Active
<1> QED BY <1>3, <1>4, <1>6

(* and by what they do to the tables.                                      *)
LEMMA ExecTables ==
  ASSUME TypeOK, NEW d \in Deployments, ExecNext(d)
  PROVE  \/ UNCHANGED <<releases, attached, events>> /\ (UNCHANGED keepSet \/ Pruning(d))
         \/ Publish(d) \/ ReadRetention(d) \/ Prune(d) \/ AttachRelease(d) \/ RecordEvent(d)
<1> USE DEF tables
<1>1. CASE Take(d) \/ Settle(d) \/ SettleFails(d) \/ BuildFails(d) \/ PublishFails(d)
  BY <1>1 DEF Take, Settle, SettleFails, BuildFails, PublishFails
<1>2. CASE RetentionFails(d)
  BY <1>2 DEF RetentionFails, Pruning, Go
<1>3. CASE LoadRollback(d) \/ LoadFails(d) \/ SwitchPointer(d) \/ RollbackFails(d)
  BY <1>3 DEF LoadRollback, LoadFails, SwitchPointer, RollbackFails
<1> QED BY <1>1, <1>2, <1>3 DEF ExecNext

LEMMA VersionsGrow ==
  ASSUME TypeOK, NEW d \in Deployments, ExecNext(d)
  PROVE  /\ Versions \subseteq Versions' /\ Versions = 1..Len(releases) /\ Len(releases) \in Nat
         /\ Publish(d) \/ Len(releases') = Len(releases)
         /\ \A v \in Versions : releases'[v].deployment = releases[v].deployment
<1>1. Len(releases) \in Nat /\ Versions = 1..Len(releases) /\ Versions' = 1..Len(releases')
  BY DEF TypeOK, Versions
<1>2. CASE Publish(d)
  <2>1. /\ Len(releases') = Len(releases) + 1
        /\ \A v \in Versions : releases'[v] = releases[v]
    BY <1>2, PublishedRows, Zenon DEF Publish
  <2> QED BY <1>1, <1>2, <2>1
<1>3. CASE Prune(d)
  <2>1. /\ Len(releases') = Len(releases)
        /\ \A v \in Versions : releases'[v].deployment = releases[v].deployment
    BY <1>3, PrunedRows, Zenon DEF Prune
  <2> QED BY <1>1, <2>1
<1>4. CASE UNCHANGED releases
  BY <1>1, <1>4
<1> QED BY <1>2, <1>3, <1>4, ExecTables, Zenon DEF ReadRetention, AttachRelease, RecordEvent, tables

LEMMA ExecTypeOK ==
  ASSUME IInv, NEW d \in Deployments, ExecNext(d)
  PROVE  TypeOK'
<1>0. TypeOK
  BY DEF IInv
<1>1. Len(releases) \in Nat /\ releases \in Seq(Rows) /\ Versions = 1..Len(releases)
  BY <1>0 DEF TypeOK, Rows, Versions
<1>2. /\ UNCHANGED <<request, plan, payloads, crashes>>
      /\ faults' \in Nat
      /\ exec' \in [Deployments -> ExecStates]
  BY <1>0, ExecBoard
<1>3. Queue!BoardTypeOK'
  <2>1. \/ UNCHANGED board \/ Queue!Take(d) \/ Queue!GiveBack(d)
        \/ \E outcome \in {"succeeded", "failed"} : Queue!Finish(d, outcome)
    BY <1>0, ExecBoard
  <2>2. board \in [Deployments -> [status : Queue!States, tries : 0..MaxAttempts]]
    BY <1>0 DEF TypeOK, Queue!BoardTypeOK
  <2>3. CASE UNCHANGED board
    BY <2>2, <2>3 DEF Queue!BoardTypeOK
  <2>4. CASE Queue!Take(d)
    BY <2>2, <2>4 DEF Queue!BoardTypeOK, Queue!Take, Queue!States
  <2>5. CASE Queue!GiveBack(d)
    BY <2>2, <2>5 DEF Queue!BoardTypeOK, Queue!GiveBack, Queue!States
  <2>6. ASSUME NEW outcome \in {"succeeded", "failed"}, Queue!Finish(d, outcome)
        PROVE  Queue!BoardTypeOK'
    BY <2>2, <2>6 DEF Queue!BoardTypeOK, Queue!Finish, Queue!States
  <2> QED BY <2>1, <2>3, <2>4, <2>5, <2>6
<1>4. /\ releases' \in Seq(Rows)
      /\ Len(releases') \in Nat /\ Len(releases) <= Len(releases')
      /\ attached' \in [Deployments -> 0..Len(releases')]
      /\ events' \subseteq payloads
  <2>1. CASE Publish(d)
    <3>1. /\ releases' \in Seq(Rows) /\ Len(releases') = Len(releases) + 1
          /\ attached' = [attached EXCEPT ![d] = Len(releases) + 1]
          /\ events' = events
      BY <1>0, <2>1, PublishedRows DEF Publish
    <3> QED BY <1>0, <1>1, <3>1 DEF TypeOK
  <2>2. CASE Prune(d)
    BY <1>0, <1>1, <2>2, PrunedRows DEF Prune, TypeOK
  <2>3. CASE AttachRelease(d)
    <3>1. d \in Rollbacks
      BY <2>3 DEF AttachRelease, Go, KindsAreKept, IInv
    <3> QED BY <1>0, <1>1, <2>3, <3>1 DEF AttachRelease, TypeOK
  <2>4. CASE RecordEvent(d)
    <3>1. d \in Rollbacks /\ exec[d] = "record"
      BY <2>4 DEF RecordEvent, Go, KindsAreKept, IInv
    <3>2. d \in payloads
      BY <3>1 DEF IInv, ExecutionsAreSerial, Active, Executing, Taken, JobsArePlanned
    <3> QED BY <1>0, <1>1, <2>4, <3>2 DEF RecordEvent, TypeOK
  <2>5. CASE UNCHANGED <<releases, attached, events>>
    BY <1>0, <1>1, <2>5 DEF TypeOK
  <2>6. CASE ReadRetention(d)
    BY <2>5, <2>6 DEF ReadRetention, tables
  <2> QED BY <1>0, <2>1, <2>2, <2>3, <2>4, <2>5, <2>6, ExecTables
<1>5. current' \in 0..Len(releases')
  <2>1. CASE UNCHANGED current
    BY <1>0, <1>1, <1>4, <2>1 DEF TypeOK
  <2>2. CASE Publish(d)
    <3>1. current' = Len(releases) + 1 /\ Len(releases') = Len(releases) + 1
      BY <1>0, <2>2, PublishedRows DEF Publish
    <3> QED BY <1>1, <3>1
  <2>3. CASE SwitchPointer(d)
    <3>1. d \in Rollbacks
      BY <2>3 DEF SwitchPointer, Go, KindsAreKept, IInv
    <3> QED BY <1>0, <1>1, <1>4, <2>3, <3>1 DEF SwitchPointer, TypeOK
  <2> QED BY <2>1, <2>2, <2>3 DEF ExecNext, tables, Take, Settle, SettleFails, BuildFails,
            PublishFails, ReadRetention, Prune, RetentionFails, LoadRollback, LoadFails,
            AttachRelease, RecordEvent, RollbackFails
<1>6. keepSet' \subseteq Versions'
  <2>1. Versions \subseteq Versions'
    BY <1>1, <1>4 DEF Versions
  <2>2. keepSet' \subseteq Versions
    <3>1. CASE keepSet' = keepSet \/ keepSet' = {}
      BY <1>0, <3>1 DEF TypeOK
    <3>2. CASE ReadRetention(d)
      BY <3>2 DEF ReadRetention, Kept
    <3> QED BY <3>1, <3>2 DEF ExecNext, tables, Take, Settle, SettleFails, BuildFails, Publish,
              PublishFails, Prune, RetentionFails, LoadRollback, LoadFails,
              SwitchPointer, AttachRelease, RecordEvent, RollbackFails
  <2> QED BY <2>1, <2>2
<1>7. /\ request' \in [Rollbacks -> RequestStates] /\ payloads' \subseteq Rollbacks
      /\ plan' \in [Rollbacks -> [from : 0..Len(releases'), to : 0..Len(releases')]]
      /\ crashes' \in Nat
  BY <1>0, <1>1, <1>2, <1>4 DEF TypeOK
<1> QED BY <1>2, <1>3, <1>4, <1>5, <1>6, <1>7 DEF TypeOK, Rows

LEMMA StepTypeOK ==
  ASSUME IInv, [Next]_vars
  PROVE  TypeOK'
<1>0. TypeOK
  BY DEF IInv
<1>1. ASSUME NEW d \in Rollbacks, RequestNext(d)
      PROVE  TypeOK'
  BY <1>0, <1>1, RequestTypeOK
<1>2. ASSUME NEW d \in Deployments, Enqueue(d)
      PROVE  TypeOK'
  <2>1. UNCHANGED <<tables, locals, faults, crashes>> /\ Queue!Submit(d)
    BY <1>2 DEF Enqueue
  <2>2. Queue!BoardTypeOK'
    BY <1>0, <2>1 DEF TypeOK, Queue!BoardTypeOK, Queue!Submit, Queue!States
  <2> QED BY <1>0, <2>1, <2>2 DEF TypeOK, tables, locals, Versions
<1>3. ASSUME NEW d \in Deployments, ExecNext(d)
      PROVE  TypeOK'
  BY <1>3, ExecTypeOK
<1>4. CASE Crash
  BY <1>0, <1>4 DEF Crash, tables, TypeOK, Queue!BoardTypeOK, RequestStates, ExecStates, Versions
<1>5. CASE UNCHANGED vars
  BY <1>0, <1>5 DEF vars, tables, locals, TypeOK, Queue!BoardTypeOK, Versions
<1> QED BY <1>1, <1>2, <1>3, <1>4, <1>5 DEF Next

-----------------------------------------------------------------------------
(* The parts of the invariant                                              *)

(* A step of the board takes one job, and only while no other is taken.    *)
LEMMA BoardChange ==
  ASSUME TypeOK, NEW d \in Deployments
  PROVE  /\ Queue!Submit(d) =>
              /\ board[d].status = "absent" /\ board'[d].status = "waiting"
              /\ \A e \in Deployments \ {d} : board'[e] = board[e]
         /\ Queue!Take(d) =>
              /\ board[d].status = "waiting" /\ board'[d].status = "taken"
              /\ \A e \in Deployments \ {d} : ~Taken(e) /\ board'[e] = board[e]
         /\ Queue!GiveBack(d) =>
              /\ Taken(d) /\ board'[d].status = "waiting"
              /\ \A e \in Deployments \ {d} : board'[e] = board[e]
         /\ \A outcome \in {"succeeded", "failed"} : Queue!Finish(d, outcome) =>
              /\ Taken(d) /\ board'[d].status = outcome
              /\ \A e \in Deployments \ {d} : board'[e] = board[e]
<1>1. board \in [Deployments -> [status : Queue!States, tries : 0..MaxAttempts]]
  BY DEF TypeOK, Queue!BoardTypeOK
<1>2. Queue!Submit(d) => /\ board[d].status = "absent" /\ board'[d].status = "waiting"
                         /\ \A e \in Deployments \ {d} : board'[e] = board[e]
  BY <1>1 DEF Queue!Submit
<1>3. Queue!Take(d) =>
        /\ board[d].status = "waiting" /\ board'[d].status = "taken"
        /\ \A e \in Deployments \ {d} : ~Taken(e) /\ board'[e] = board[e]
  BY <1>1 DEF Queue!Take, Queue!GroupIsFree, Taken
<1>4. Queue!GiveBack(d) => /\ Taken(d) /\ board'[d].status = "waiting"
                           /\ \A e \in Deployments \ {d} : board'[e] = board[e]
  BY <1>1 DEF Queue!GiveBack, Taken
<1>5. ASSUME NEW outcome \in {"succeeded", "failed"}, Queue!Finish(d, outcome)
      PROVE  /\ Taken(d) /\ board'[d].status = outcome
             /\ \A e \in Deployments \ {d} : board'[e] = board[e]
  BY <1>1, <1>5 DEF Queue!Finish, Taken
<1> QED BY <1>2, <1>3, <1>4, <1>5

(* An execution's step, seen on its own job and on the others.             *)
LEMMA ExecMoves ==
  ASSUME IInv, NEW d \in Deployments, ExecNext(d)
  PROVE  /\ \A e \in Deployments \ {d} : exec'[e] = exec[e] /\ board'[e] = board[e]
         /\ \/ /\ exec[d] = "idle" /\ exec'[d] = "execute"
               /\ board[d].status = "waiting" /\ board'[d].status = "taken"
               /\ \A e \in Deployments \ {d} : ~Taken(e)
            \/ /\ exec'[d] = "idle" /\ Taken(d)
               /\ \/ exec[d] = "succeed" /\ board'[d].status = "succeeded"
                  \/ exec[d] = "fail" /\ board'[d].status = "failed"
                  \/ exec[d] = "retry" /\ board'[d].status = "waiting"
            \/ /\ Active(d) /\ Taken(d) /\ board'[d] = board[d]
               /\ exec'[d] \in Executing \cup Ending \cup {"lost"}
<1>0. TypeOK /\ (Active(d) => Taken(d))
  BY DEF IInv, ExecutionsAreSerial
<1>1. \A e \in Deployments \ {d} : exec'[e] = exec[e]
  BY <1>0, ExecBoard DEF TypeOK
<1>2. CASE exec[d] = "idle" /\ exec'[d] = "execute" /\ Queue!Take(d)
  BY <1>0, <1>1, <1>2, BoardChange
<1>3. CASE exec[d] = "succeed" /\ exec'[d] = "idle" /\ Queue!Finish(d, "succeeded")
  BY <1>0, <1>1, <1>3, BoardChange
<1>4. CASE exec[d] = "fail" /\ exec'[d] = "idle" /\ Queue!Finish(d, "failed")
  BY <1>0, <1>1, <1>4, BoardChange
<1>5. CASE exec[d] = "retry" /\ exec'[d] = "idle" /\ Queue!GiveBack(d)
  BY <1>0, <1>1, <1>5, BoardChange
<1>6. CASE Active(d) /\ exec'[d] \in Executing \cup Ending \cup {"lost"} /\ UNCHANGED board
  BY <1>0, <1>1, <1>6
<1> QED BY <1>0, <1>2, <1>3, <1>4, <1>5, <1>6, ExecBoard

(* An execution starts once for each time its job is taken.                *)
LEMMA NoReentry ==
  ASSUME TypeOK, NEW d \in Deployments, ExecNext(d), exec'[d] = "execute"
  PROVE  exec[d] = "idle"
<1>0. exec \in [Deployments -> ExecStates]
  BY DEF TypeOK
<1> USE DEF Go
<1>1. ~Settle(d) /\ ~SettleFails(d)
  BY <1>0 DEF Settle, SettleFails
<1>2. ~BuildFails(d) /\ ~RollbackFails(d)
  BY <1>0 DEF BuildFails, RollbackFails, Retryable
<1>3. /\ ~Publish(d) /\ ~PublishFails(d) /\ ~ReadRetention(d) /\ ~Prune(d)
      /\ ~RetentionFails(d)
  BY <1>0 DEF Publish, PublishFails, ReadRetention, Prune, RetentionFails
<1>4. /\ ~LoadRollback(d) /\ ~LoadFails(d) /\ ~SwitchPointer(d) /\ ~AttachRelease(d)
      /\ ~RecordEvent(d)
  BY <1>0 DEF LoadRollback, LoadFails, SwitchPointer, AttachRelease, RecordEvent
<1> QED BY <1>1, <1>2, <1>3, <1>4 DEF ExecNext, Take

LEMMA StepSerial ==
  ASSUME IInv, [Next]_vars
  PROVE  ExecutionsAreSerial'
<1> USE DEF ExecutionsAreSerial, Active, Taken
<1>0. TypeOK /\ ExecutionsAreSerial
  BY DEF IInv
<1>1. ASSUME NEW d \in Deployments, UNCHANGED exec, UNCHANGED board \/ Queue!Submit(d)
      PROVE  ExecutionsAreSerial'
  BY <1>0, <1>1, BoardChange
<1>2. ASSUME NEW d \in Rollbacks, RequestNext(d)
      PROVE  ExecutionsAreSerial'
  BY <1>0, <1>1, <1>2, RequestFrame
<1>3. ASSUME NEW d \in Deployments, Enqueue(d)
      PROVE  ExecutionsAreSerial'
  BY <1>1, <1>3 DEF Enqueue, locals
<1>4. ASSUME NEW d \in Deployments, ExecNext(d)
      PROVE  ExecutionsAreSerial'
  BY <1>0, <1>4, ExecMoves DEF Executing, Ending
<1>5. CASE Crash
  BY <1>0, <1>5 DEF Crash, Executing, Ending
<1>6. CASE UNCHANGED vars
  BY <1>0, <1>6 DEF vars, locals
<1> QED BY <1>2, <1>3, <1>4, <1>5, <1>6 DEF Next

(* Each place of an execution is reached by the statement before it.       *)
LEMMA ExecArrivals ==
  ASSUME TypeOK, NEW d \in Deployments, ExecNext(d)
  PROVE  /\ exec'[d] = "retain" => Publish(d)
         /\ exec'[d] = "prune" => ReadRetention(d)
         /\ exec'[d] = "switch" => LoadRollback(d)
         /\ exec'[d] = "attach" => SwitchPointer(d)
         /\ exec'[d] = "record" => AttachRelease(d)
         /\ exec'[d] = "succeed" =>
              PublishFails(d) \/ Prune(d) \/ RetentionFails(d) \/ RecordEvent(d)
         /\ exec'[d] \in {"fail", "retry"} => BuildFails(d) \/ LoadFails(d) \/ RollbackFails(d)
<1> USE DEF Go
<1>0. exec \in [Deployments -> ExecStates]
  BY DEF TypeOK
<1>1. CASE Take(d) \/ Settle(d) \/ SettleFails(d)
  <2>1. exec'[d] \in {"execute", "idle", "lost"}
    BY <1>0, <1>1 DEF Take, Settle, SettleFails
  <2> QED BY <2>1
<1>2. CASE BuildFails(d)
  <2>1. exec'[d] \in {"retry", "fail"}
    BY <1>0, <1>2 DEF BuildFails, Retryable
  <2> QED BY <1>2, <2>1
<1>3. CASE Publish(d)
  BY <1>0, <1>3 DEF Publish
<1>4. CASE PublishFails(d)
  BY <1>0, <1>4 DEF PublishFails
<1>5. CASE ReadRetention(d)
  BY <1>0, <1>5 DEF ReadRetention
<1>6. CASE Prune(d)
  BY <1>0, <1>6 DEF Prune
<1>7. CASE RetentionFails(d)
  BY <1>0, <1>7 DEF RetentionFails
<1>8. CASE LoadRollback(d)
  BY <1>0, <1>8 DEF LoadRollback
<1>9. CASE LoadFails(d)
  BY <1>0, <1>9 DEF LoadFails
<1>10. CASE SwitchPointer(d)
  BY <1>0, <1>10 DEF SwitchPointer
<1>11. CASE AttachRelease(d)
  BY <1>0, <1>11 DEF AttachRelease
<1>12. CASE RecordEvent(d)
  BY <1>0, <1>12 DEF RecordEvent
<1>13. CASE RollbackFails(d)
  <2>1. exec'[d] \in {"retry", "fail"}
    BY <1>0, <1>13 DEF RollbackFails, Retryable
  <2> QED BY <1>13, <2>1
<1> QED BY <1>1, <1>2, <1>3, <1>4, <1>5, <1>6, <1>7, <1>8, <1>9, <1>10, <1>11, <1>12, <1>13
        DEF ExecNext

LEMMA StepKinds ==
  ASSUME IInv, [Next]_vars
  PROVE  KindsAreKept'
<1> USE DEF KindsAreKept
<1>0. TypeOK /\ KindsAreKept
  BY DEF IInv
<1>1. CASE UNCHANGED exec
  BY <1>0, <1>1
<1>2. ASSUME NEW d \in Deployments, ExecNext(d)
      PROVE  KindsAreKept'
  <2>1. \A e \in Deployments \ {d} : exec'[e] = exec[e]
    BY <1>2, ExecMoves
  <2>2. /\ exec'[d] \in {"retain", "prune"} => d \notin Rollbacks
        /\ exec'[d] \in {"switch", "attach", "record"} => d \in Rollbacks
    <3>1. payloads \subseteq Rollbacks
      BY <1>0 DEF TypeOK
    <3>2. Publish(d) => d \notin Rollbacks
      BY DEF Publish, Standard
    <3>3. ReadRetention(d) => d \notin Rollbacks
      BY <1>0 DEF ReadRetention, Go
    <3>4. LoadRollback(d) => d \in Rollbacks
      BY <3>1 DEF LoadRollback
    <3>5. SwitchPointer(d) \/ AttachRelease(d) => d \in Rollbacks
      BY <1>0 DEF SwitchPointer, AttachRelease, Go
    <3> QED BY <1>0, <1>2, <3>2, <3>3, <3>4, <3>5, ExecArrivals
  <2>3. ASSUME NEW e \in Deployments
        PROVE  /\ exec'[e] \in {"retain", "prune"} => e \notin Rollbacks
               /\ exec'[e] \in {"switch", "attach", "record"} => e \in Rollbacks
    BY <1>0, <2>1, <2>2
  <2> QED BY <2>3
<1>3. CASE Crash
  BY <1>0, <1>3 DEF Crash
<1> QED BY <1>1, <1>2, <1>3, RequestFrame DEF Next, Enqueue, vars, locals, IInv

(* A handler that still runs has no job yet, let alone an execution.       *)
LEMMA RequestIsEarly ==
  ASSUME IInv, NEW d \in Rollbacks, RequestNext(d)
  PROVE  /\ board[d].status = "absent" /\ ~Active(d)
         /\ board'[d].status = "absent" \/ request'[d] = "done"
         /\ board'[d].status \in {"absent", "waiting"}
         /\ \A e \in Deployments \ {d} : board'[e] = board[e]
         /\ \A e \in Rollbacks \ {d} : request'[e] = request[e] /\ plan'[e] = plan[e]
<1>0. TypeOK /\ d \in Deployments
  BY DEF IInv
<1>1. request[d] # "done"
  BY DEF RequestNext, ReadCurrent, ListReleases, Adopt, ChooseTarget, RejectTarget, SavePayload,
         EnqueueRollback, RequestEnds, Ask
<1>2. board[d].status = "absent" /\ ~Active(d)
  BY <1>0, <1>1 DEF IInv, JobsArePlanned, ExecutionsAreSerial, Taken
<1>3. \A e \in Rollbacks \ {d} : request'[e] = request[e] /\ plan'[e] = plan[e]
  BY <1>0 DEF RequestNext, ReadCurrent, ListReleases, Adopt, ChooseTarget, RejectTarget,
         SavePayload, EnqueueRollback, RequestEnds, Ask, TypeOK
<1> QED BY <1>0, <1>2, <1>3, RequestFrame, BoardChange

LEMMA StepPlanned ==
  ASSUME IInv, [Next]_vars
  PROVE  JobsArePlanned'
<1> USE DEF JobsArePlanned
<1>0. TypeOK /\ JobsArePlanned
  BY DEF IInv
<1>1. ASSUME NEW d \in Rollbacks, RequestNext(d)
      PROVE  JobsArePlanned'
  <2>1. Versions' = Versions
    BY <1>0, <1>1, RequestFrame DEF Versions
  <2>2. \A e \in Rollbacks \ {d} : e \in payloads' <=> e \in payloads
    BY <1>1 DEF RequestNext, ReadCurrent, ListReleases, Adopt, ChooseTarget, RejectTarget,
           SavePayload, EnqueueRollback, RequestEnds
  <2>3. \A e \in Rollbacks \ {d} :
          /\ request'[e] = request[e] /\ HasTarget(e)' = HasTarget(e)
          /\ board'[e] = board[e]
    BY <1>1, <2>1, RequestIsEarly DEF HasTarget
  <2>4. /\ request'[d] = "payload" => HasTarget(d)'
        /\ d \in payloads' => HasTarget(d)' /\ request'[d] \in {"enqueue", "done", "lost"}
        /\ request'[d] \in {"enqueue", "done"} => d \in payloads'
    <3>1. /\ request \in [Rollbacks -> RequestStates]
          /\ plan \in [Rollbacks -> [from : 0..Len(releases), to : 0..Len(releases)]]
      BY <1>0 DEF TypeOK
    <3>2. CASE ReadCurrent(d) \/ ListReleases(d) \/ Adopt(d) \/ RejectTarget(d)
      <4>1. d \notin payloads
        BY <1>0, <3>2 DEF ReadCurrent, ListReleases, Adopt, RejectTarget, Ask
      <4>2. payloads' = payloads /\ request'[d] \in {"list", "adopt", "target", "rejected"}
        BY <3>1, <3>2 DEF ReadCurrent, ListReleases, Adopt, RejectTarget, Ask
      <4> QED BY <4>1, <4>2
    <3>3. CASE ChooseTarget(d)
      <4>1. PICK v \in Versions \ {plan[d].from} :
              plan' = [plan EXCEPT ![d] = [from |-> plan[d].from, to |-> v]]
        BY <3>3 DEF ChooseTarget
      <4>2. plan'[d] = [from |-> plan[d].from, to |-> v]
        BY <3>1, <4>1
      <4>3. HasTarget(d)'
        BY <2>1, <4>2 DEF HasTarget
      <4>4. request[d] = "target" /\ request'[d] = "payload" /\ payloads' = payloads
        BY <3>1, <3>3 DEF ChooseTarget, Ask
      <4> QED BY <1>0, <4>3, <4>4
    <3>4. CASE SavePayload(d)
      <4>1. /\ request[d] = "payload" /\ request'[d] = "enqueue" /\ plan' = plan
            /\ payloads' = payloads \cup {d}
        BY <3>1, <3>4 DEF SavePayload, Ask
      <4> QED BY <1>0, <2>1, <4>1 DEF HasTarget
    <3>5. CASE EnqueueRollback(d)
      <4>1. request[d] = "enqueue" /\ request'[d] = "done" /\ UNCHANGED <<plan, payloads>>
        BY <3>1, <3>5 DEF EnqueueRollback, Ask
      <4> QED BY <1>0, <2>1, <4>1 DEF HasTarget
    <3>6. CASE RequestEnds(d)
      <4>1. request'[d] = "lost" /\ UNCHANGED <<plan, payloads>>
        BY <3>1, <3>6 DEF RequestEnds, Ask
      <4> QED BY <1>0, <2>1, <4>1 DEF HasTarget
    <3> QED BY <1>1, <3>2, <3>3, <3>4, <3>5, <3>6 DEF RequestNext
  <2>5. board'[d].status # "absent" => request'[d] = "done"
    BY <1>1, RequestIsEarly
  <2>6. \A e \in Rollbacks \ {d} :
          /\ request'[e] = "payload" => HasTarget(e)'
          /\ e \in payloads' => HasTarget(e)' /\ request'[e] \in {"enqueue", "done", "lost"}
          /\ request'[e] \in {"enqueue", "done"} => e \in payloads'
          /\ board'[e].status # "absent" => request'[e] = "done"
    BY <1>0, <2>2, <2>3
  <2> QED BY <2>4, <2>5, <2>6
<1>2. ASSUME UNCHANGED <<request, plan, payloads>>,
             Versions \subseteq Versions',
             \A e \in Rollbacks : board'[e].status # "absent" => board[e].status # "absent"
      PROVE  JobsArePlanned'
  BY <1>0, <1>2 DEF HasTarget
<1>3. ASSUME NEW d \in Deployments, Enqueue(d)
      PROVE  JobsArePlanned'
  <2>1. UNCHANGED <<request, plan, payloads, releases>> /\ d \notin Rollbacks /\ Queue!Submit(d)
    BY <1>3 DEF Enqueue, tables, locals
  <2> QED BY <1>0, <1>2, <2>1, BoardChange DEF Versions
<1>4. ASSUME NEW d \in Deployments, ExecNext(d)
      PROVE  JobsArePlanned'
  <2>1. UNCHANGED <<request, plan, payloads>>
    BY <1>0, <1>4, ExecBoard
  <2>2. \A e \in Rollbacks : board'[e].status # "absent" => board[e].status # "absent"
    BY <1>4, ExecMoves DEF Taken
  <2>3. Versions \subseteq Versions'
    BY <1>0, <1>4, VersionsGrow
  <2> QED BY <1>2, <2>1, <2>2, <2>3
<1>5. CASE Crash
  <2>1. \A d \in Rollbacks :
          request'[d] = IF request[d] \in {"idle", "done", "rejected"} THEN request[d] ELSE "lost"
    BY <1>5 DEF Crash
  <2>2. UNCHANGED <<plan, payloads, board, releases>>
    BY <1>5 DEF Crash, tables
  <2> QED BY <1>0, <2>1, <2>2 DEF HasTarget, Versions
<1>6. CASE UNCHANGED vars
  BY <1>2, <1>6 DEF vars, tables, locals, Versions
<1> QED BY <1>1, <1>3, <1>4, <1>5, <1>6 DEF Next

(* A job under way or done is a plan that is kept.                         *)
LEMMA PlansAreKept ==
  ASSUME IInv, NEW d \in Rollbacks
  PROVE  Active(d) \/ board[d].status # "absent" =>
           d \in payloads /\ HasTarget(d) /\ plan[d].to \in 0..Len(releases)
BY DEF IInv, ExecutionsAreSerial, Taken, JobsArePlanned, TypeOK, HasTarget

LEMMA StepRollbacks ==
  ASSUME IInv, [Next]_vars
  PROVE  RollbackProgress'
<1> USE DEF RollbackProgress, Succeeded
<1>0. TypeOK /\ RollbackProgress
  BY DEF IInv
<1>1. ASSUME NEW d \in Rollbacks, RequestNext(d)
      PROVE  RollbackProgress'
  <2>1. UNCHANGED <<exec, attached, events>>
    BY <1>0, <1>1, RequestFrame
  <2>2. \A e \in Rollbacks \ {d} : plan'[e] = plan[e] /\ board'[e] = board[e]
    BY <1>1, RequestIsEarly
  <2>3. exec'[d] \notin {"record", "succeed"} /\ board'[d].status # "succeeded"
    BY <1>1, <2>1, RequestIsEarly DEF Active, Executing, Ending
  <2> QED BY <1>0, <2>1, <2>2, <2>3
<1>2. ASSUME UNCHANGED <<attached, events, plan>>,
             \A e \in Rollbacks : /\ exec'[e] = exec[e] \/ exec'[e] = "lost"
                                  /\ Succeeded(e)' => Succeeded(e)
      PROVE  RollbackProgress'
  BY <1>0, <1>2
<1>3. ASSUME NEW d \in Deployments, Enqueue(d)
      PROVE  RollbackProgress'
  <2>1. UNCHANGED <<attached, events, plan, exec>> /\ Queue!Submit(d)
    BY <1>3 DEF Enqueue, tables, locals
  <2> QED BY <1>0, <1>2, <2>1, BoardChange
<1>4. ASSUME NEW d \in Deployments, ExecNext(d)
      PROVE  RollbackProgress'
  <2>1. UNCHANGED plan /\ \A e \in Deployments \ {d} : exec'[e] = exec[e] /\ board'[e] = board[e]
    BY <1>0, <1>4, ExecBoard, ExecMoves
  <2>2. /\ \A e \in Deployments \ {d} : attached'[e] = attached[e] /\ (e \in events' <=> e \in events)
        /\ \/ attached'[d] = attached[d]
           \/ exec'[d] = "retain"
           \/ exec'[d] = "record" /\ attached'[d] = plan[d].to
        /\ events \subseteq events'
    <3>1. CASE Publish(d)
      BY <1>0, <3>1 DEF Publish, CreateReleaseVersion, Go, TypeOK
    <3>2. CASE AttachRelease(d)
      BY <1>0, <3>2 DEF AttachRelease, Go, TypeOK
    <3>3. CASE RecordEvent(d)
      BY <1>0, <3>3 DEF RecordEvent
    <3>4. CASE UNCHANGED <<attached, events>>
      BY <3>4
    <3> QED BY <1>0, <1>4, <3>1, <3>2, <3>3, <3>4, ExecTables DEF ReadRetention, Prune, tables
  <2>3. ASSUME d \in Rollbacks
        PROVE  /\ exec'[d] = "record" => attached'[d] = plan[d].to
               /\ exec'[d] = "succeed" \/ Succeeded(d)' => d \in events' /\ attached'[d] = plan[d].to
    <3>1. exec'[d] = "record" => attached'[d] = plan[d].to
      <4>1. exec'[d] = "record" => AttachRelease(d)
        BY <1>0, <1>4, ExecArrivals
      <4> QED BY <1>0, <4>1 DEF AttachRelease, TypeOK
    <3>2. exec'[d] = "succeed" => d \in events' /\ attached'[d] = plan[d].to
      <4>1. exec'[d] = "succeed" => RecordEvent(d)
        <5>1. ~PublishFails(d)
          BY <2>3 DEF PublishFails, Standard
        <5>2. ~Prune(d) /\ ~RetentionFails(d)
          BY <2>3 DEF Prune, RetentionFails, Go, IInv, KindsAreKept
        <5> QED BY <1>0, <1>4, <5>1, <5>2, ExecArrivals
      <4> QED BY <1>0, <2>3, <4>1 DEF RecordEvent, Go
    <3>3. Succeeded(d)' => d \in events' /\ attached'[d] = plan[d].to
      <4>1. ASSUME Succeeded(d)'
            PROVE  exec[d] = "succeed" /\ exec'[d] = "idle"
        BY <1>4, <4>1, ExecMoves DEF Taken
      <4> QED BY <1>0, <2>2, <2>3, <4>1
    <3> QED BY <3>1, <3>2, <3>3
  <2> QED BY <1>0, <2>1, <2>2, <2>3, RollbacksAssumption
<1>5. CASE Crash
  <2>1. UNCHANGED <<attached, events, plan, board>>
        /\ \A e \in Deployments : exec'[e] = exec[e] \/ exec'[e] = "lost"
    BY <1>5 DEF Crash, tables
  <2> QED BY <1>2, <2>1
<1>6. CASE UNCHANGED vars
  BY <1>2, <1>6 DEF vars, tables, locals
<1> QED BY <1>1, <1>3, <1>4, <1>5, <1>6 DEF Next

(* Faults are only counted up.                                             *)
LEMMA FaultsGrow ==
  ASSUME IInv, [Next]_vars
  PROVE  faults \in Nat /\ faults' \in Nat /\ faults <= faults'
<1>0. TypeOK
  BY DEF IInv
<1> QED BY <1>0, RequestFrame, ExecBoard DEF Next, Enqueue, Crash, vars, TypeOK

LEMMA StepPublishing ==
  ASSUME IInv, [Next]_vars
  PROVE  PublishingProgress'
<1>0. TypeOK /\ ExecutionsAreSerial
  BY DEF IInv
<1> SUFFICES ASSUME faults' = 0, NEW e \in Deployments \ Rollbacks
             PROVE  /\ Unpublished(e)' => PublishedBy(e)' = {}
                    /\ Published(e)' => PublishedBy(e)' = {attached'[e]}
  BY DEF PublishingProgress
<1>1. /\ faults = 0
      /\ Unpublished(e) => PublishedBy(e) = {}
      /\ Published(e) => PublishedBy(e) = {attached[e]}
  BY FaultsGrow DEF IInv, PublishingProgress
<1>2. ASSUME UNCHANGED <<releases, attached>>,
             Unpublished(e)' => Unpublished(e),
             Published(e)' => Published(e)
      PROVE  /\ Unpublished(e)' => PublishedBy(e)' = {}
             /\ Published(e)' => PublishedBy(e)' = {attached'[e]}
  BY <1>1, <1>2 DEF PublishedBy, Versions
<1>3. ASSUME NEW d \in Deployments, UNCHANGED <<releases, attached, exec>>,
             UNCHANGED board \/ Queue!Submit(d)
      PROVE  /\ Unpublished(e)' => PublishedBy(e)' = {}
             /\ Published(e)' => PublishedBy(e)' = {attached'[e]}
  BY <1>0, <1>2, <1>3, BoardChange DEF Unpublished, Published, Succeeded
<1>4. ASSUME NEW d \in Rollbacks, RequestNext(d)
      PROVE  /\ Unpublished(e)' => PublishedBy(e)' = {}
             /\ Published(e)' => PublishedBy(e)' = {attached'[e]}
  BY <1>0, <1>3, <1>4, RequestFrame
<1>5. ASSUME NEW d \in Deployments, Enqueue(d)
      PROVE  /\ Unpublished(e)' => PublishedBy(e)' = {}
             /\ Published(e)' => PublishedBy(e)' = {attached'[e]}
  BY <1>3, <1>5 DEF Enqueue, tables, locals
<1>6. ASSUME NEW d \in Deployments, ExecNext(d)
      PROVE  /\ Unpublished(e)' => PublishedBy(e)' = {}
             /\ Published(e)' => PublishedBy(e)' = {attached'[e]}
  <2>1. CASE Publish(d)
    <3>1. /\ d \notin Rollbacks /\ exec[d] = "execute" /\ exec'[d] = "retain" /\ board' = board
          /\ \A c \in Deployments \ {d} : exec'[c] = exec[c]
      BY <1>0, <2>1 DEF Publish, Go, Standard, TypeOK
    <3>2. /\ Versions = 1..Len(releases) /\ Versions' = 1..(Len(releases) + 1)
          /\ Len(releases) \in Nat
          /\ releases'[Len(releases) + 1] = [deployment |-> d, retained |-> TRUE]
          /\ \A v \in Versions : releases'[v] = releases[v]
          /\ attached' = [attached EXCEPT ![d] = Len(releases) + 1]
      BY <1>0, <2>1, PublishedRows DEF Publish, Versions
    <3>3. CASE e = d
      <4>1. PublishedBy(e) = {}
        BY <1>1, <3>1, <3>3 DEF Unpublished
      <4>2. PublishedBy(e)' = {Len(releases) + 1} /\ attached'[e] = Len(releases) + 1
        <5>1. \A v \in Versions : releases'[v].deployment # d
          BY <3>2, <3>3, <4>1 DEF PublishedBy
        <5>2. Versions' = Versions \cup {Len(releases) + 1}
          BY <3>2
        <5>3. releases'[Len(releases) + 1].deployment = d
          BY <3>2
        <5>4. attached'[e] = Len(releases) + 1
          BY <1>0, <3>2, <3>3 DEF TypeOK
        <5> QED BY <3>3, <5>1, <5>2, <5>3, <5>4 DEF PublishedBy
      <4>3. ~Unpublished(e)'
        BY <1>0, <3>1, <3>3 DEF Unpublished, ExecutionsAreSerial, Active, Executing, Taken
      <4> QED BY <4>2, <4>3
    <3>4. CASE e # d
      <4>1. PublishedBy(e)' = PublishedBy(e) /\ attached'[e] = attached[e]
        BY <1>0, <3>2, <3>4 DEF PublishedBy, TypeOK
      <4>2. (Unpublished(e)' <=> Unpublished(e)) /\ (Published(e)' <=> Published(e))
        BY <3>1, <3>4 DEF Unpublished, Published, Succeeded
      <4> QED BY <1>1, <4>1, <4>2
    <3> QED BY <3>3, <3>4
  <2>2. CASE ~Publish(d)
    <3>1. PublishedBy(e)' = PublishedBy(e)
      BY <1>0, <1>6, <2>2, VersionsGrow DEF PublishedBy, Versions
    <3>2. attached'[e] = attached[e]
      <4>1. CASE AttachRelease(d)
        <5>1. d \in Rollbacks
          BY <4>1 DEF AttachRelease, Go, IInv, KindsAreKept
        <5> QED BY <1>0, <4>1, <5>1 DEF AttachRelease, TypeOK
      <4> QED BY <1>0, <1>6, <2>2, <4>1, ExecTables DEF ReadRetention, Prune, RecordEvent, tables
    <3>3. (Unpublished(e)' => Unpublished(e)) /\ (Published(e)' => Published(e))
      <4>1. CASE e # d
        BY <1>6, <4>1, ExecMoves DEF Unpublished, Published, Succeeded
      <4>2. CASE e = d
        <5>1. CASE exec[d] = "idle" /\ exec'[d] = "execute" /\ board[d].status = "waiting"
                   /\ board'[d].status = "taken"
          BY <4>2, <5>1 DEF Unpublished, Published, Succeeded
        <5>2. CASE exec'[d] = "idle" /\ Taken(d)
          BY <1>6, <4>2, <5>2, ExecMoves DEF Unpublished, Published, Succeeded, Taken
        <5>3. CASE /\ Active(d) /\ Taken(d) /\ board'[d] = board[d]
                   /\ exec'[d] \in Executing \cup Ending \cup {"lost"}
          <6>1. exec'[d] \in {"execute", "retry", "fail"} => exec[d] = "execute"
            <7>1. exec'[d] # "execute"
              <8>1. exec[d] # "idle"
                BY <5>3 DEF Active, Executing, Ending
              <8> QED BY <1>0, <1>6, <8>1, NoReentry
            <7>2. ~RollbackFails(d) /\ ~LoadFails(d)
              BY <4>2 DEF RollbackFails, LoadFails, Go, IInv, KindsAreKept
            <7>3. exec'[d] \in {"retry", "fail"} => BuildFails(d)
              BY <1>0, <1>6, <7>2, ExecArrivals
            <7> QED BY <7>1, <7>3 DEF BuildFails, Go
          <6>2. exec'[d] \in {"retain", "prune", "succeed"} =>
                  exec[d] \in {"retain", "prune"}
            <7>1. ~PublishFails(d)
              BY <1>1 DEF PublishFails, Fault
            <7>2. ~RecordEvent(d)
              BY <4>2 DEF RecordEvent, Go, IInv, KindsAreKept
            <7>3. exec'[d] \in {"retain", "prune", "succeed"} =>
                    ReadRetention(d) \/ Prune(d) \/ RetentionFails(d)
              BY <1>0, <1>6, <2>2, <7>1, <7>2, ExecArrivals
            <7> QED BY <7>3 DEF ReadRetention, Prune, RetentionFails, Go
          <6> QED BY <4>2, <5>3, <6>1, <6>2 DEF Unpublished, Published, Succeeded, Taken
        <5> QED BY <1>6, <5>1, <5>2, <5>3, ExecMoves
      <4> QED BY <4>1, <4>2
    <3> QED BY <1>1, <3>1, <3>2, <3>3
  <2> QED BY <2>1, <2>2
<1>7. CASE Crash
  <2>1. UNCHANGED <<releases, attached, board>>
        /\ \A d \in Deployments : exec'[d] = exec[d] \/ exec'[d] = "lost"
    BY <1>7 DEF Crash, tables
  <2> QED BY <1>2, <2>1 DEF Unpublished, Published, Succeeded
<1>8. CASE UNCHANGED vars
  BY <1>2, <1>8 DEF vars, tables, locals, Unpublished, Published, Succeeded
<1> QED BY <1>4, <1>5, <1>6, <1>7, <1>8 DEF Next

LEMMA StepNoFailure ==
  ASSUME IInv, [Next]_vars
  PROVE  RollbacksDoNotFail'
<1>0. TypeOK
  BY DEF IInv
<1> SUFFICES ASSUME faults' = 0, NEW e \in Rollbacks
             PROVE  exec'[e] # "fail" /\ board'[e].status # "failed"
  BY DEF RollbacksDoNotFail
<1>1. faults = 0 /\ exec[e] # "fail" /\ board[e].status # "failed"
  BY FaultsGrow DEF IInv, RollbacksDoNotFail
<1>2. ASSUME NEW d \in Rollbacks, RequestNext(d)
      PROVE  exec'[e] # "fail" /\ board'[e].status # "failed"
  BY <1>0, <1>1, <1>2, RequestFrame, BoardChange
<1>3. ASSUME NEW d \in Deployments, Enqueue(d)
      PROVE  exec'[e] # "fail" /\ board'[e].status # "failed"
  BY <1>0, <1>1, <1>3, BoardChange DEF Enqueue, locals
<1>4. ASSUME NEW d \in Deployments, ExecNext(d)
      PROVE  exec'[e] # "fail" /\ board'[e].status # "failed"
  <2>1. CASE e # d
    BY <1>1, <1>4, <2>1, ExecMoves
  <2>2. CASE e = d
    <3>1. ~BuildFails(d)
      BY <2>2 DEF BuildFails, Standard
    <3>2. ~RollbackFails(d)
      BY <1>1 DEF RollbackFails, Fault
    <3>3. ~LoadFails(d)
      <4> SUFFICES ASSUME LoadFails(d)
                   PROVE  FALSE
        OBVIOUS
      <4>1. Active(d)
        BY DEF LoadFails, Go, Active, Executing
      <4>2. d \in payloads
        BY <2>2, <4>1, PlansAreKept
      <4> QED BY <1>1, <4>2 DEF LoadFails, Fault
    <3>4. exec'[d] # "fail"
      BY <1>0, <1>4, <3>1, <3>2, <3>3, ExecArrivals
    <3>5. board'[d].status # "failed"
      BY <1>1, <1>4, <2>2, ExecMoves
    <3> QED BY <2>2, <3>4, <3>5
  <2> QED BY <2>1, <2>2
<1>5. CASE Crash
  BY <1>0, <1>1, <1>5 DEF Crash, TypeOK
<1>6. CASE UNCHANGED vars
  BY <1>1, <1>6 DEF vars, locals
<1> QED BY <1>2, <1>3, <1>4, <1>5, <1>6 DEF Next

(* No execution but the one that moves is between publishing and pruning.  *)
LEMMA OnePrunes ==
  ASSUME IInv, NEW d \in Deployments, ExecNext(d), NEW e \in Deployments \ {d}
  PROVE  ~Pruning(e) /\ ~Pruning(e)'
<1>1. ~Taken(e)
  <2>1. Taken(d) \/ ~Taken(e)
    BY ExecMoves
  <2> QED BY <2>1 DEF IInv, ExecutionsAreSerial
<1>2. ~Pruning(e)
  BY <1>1 DEF IInv, ExecutionsAreSerial, Active, Executing, Pruning
<1> QED BY <1>2, ExecMoves DEF Pruning

(* The releases that are kept, by what the step does to them.              *)
LEMMA RetainedChange ==
  ASSUME IInv, NEW d \in Deployments, ExecNext(d)
  PROVE  /\ Publish(d) => /\ Retained' = Retained \cup {Len(releases) + 1}
                          /\ Len(releases') = Len(releases) + 1
                          /\ attached'[d] = Len(releases) + 1
                          /\ exec'[d] = "retain" /\ exec[d] = "execute"
         /\ Prune(d) => /\ Retained' = Kept(Len(releases)) /\ Len(releases') = Len(releases)
                        /\ exec'[d] = "succeed"
         /\ Publish(d) \/ Prune(d) \/ (Retained' = Retained /\ Len(releases') = Len(releases))
<1>0. TypeOK /\ RetentionIsCurrent
  BY DEF IInv
<1>1. CASE Publish(d)
  <2>1. /\ Versions' = Versions \cup {Len(releases) + 1}
        /\ releases'[Len(releases) + 1] = [deployment |-> d, retained |-> TRUE]
        /\ \A v \in Versions : releases'[v] = releases[v]
        /\ Len(releases') = Len(releases) + 1
    BY <1>0, <1>1, PublishedRows DEF Publish, Versions
  <2>2. attached'[d] = Len(releases) + 1
    BY <1>0, <1>1, PublishedRows, Zenon DEF Publish, TypeOK
  <2>3. exec'[d] = "retain" /\ exec[d] = "execute"
    BY <1>0, <1>1 DEF Publish, Go, TypeOK
  <2>4. Retained' = Retained \cup {Len(releases) + 1}
    BY <2>1 DEF Retained
  <2> QED BY <1>1, <2>1, <2>2, <2>3, <2>4, Zenon DEF Prune, Go
<1>2. CASE Prune(d)
  <2>1. /\ Len(releases') = Len(releases)
        /\ \A v \in Versions : releases'[v].retained = (v \in keepSet)
    BY <1>0, <1>2, PrunedRows, Zenon DEF Prune
  <2>2. exec[d] = "prune" /\ exec'[d] = "succeed" /\ keepSet = Kept(Len(releases))
    BY <1>0, <1>2 DEF Prune, Go, RetentionIsCurrent, TypeOK
  <2>3. Versions' = Versions /\ keepSet \subseteq Versions
    BY <1>0, <2>1 DEF Versions, TypeOK
  <2>4. Retained' = keepSet
    BY <2>1, <2>3 DEF Retained
  <2> QED BY <1>2, <2>1, <2>2, <2>4 DEF Publish, Go
<1>3. CASE UNCHANGED releases
  <2>1. Retained' = Retained /\ Len(releases') = Len(releases)
    BY <1>3 DEF Retained, Versions
  <2> QED BY <1>1, <1>2, <2>1
<1> QED BY <1>0, <1>1, <1>2, <1>3, ExecTables DEF ReadRetention, AttachRelease, RecordEvent, tables

(* From publishing to pruning there is no way out but a failure.           *)
LEMMA PruningGoesOn ==
  ASSUME TypeOK, NEW d \in Deployments, ExecNext(d), ~Prune(d), ~RetentionFails(d), Pruning(d)
  PROVE  Pruning(d)'
<1>1. exec[d] \in {"retain", "prune"}
  BY DEF Pruning
<1>2. ~Take(d) /\ ~Settle(d) /\ ~SettleFails(d)
  BY <1>1 DEF Take, Settle, SettleFails, Ending, Go
<1>3. ~BuildFails(d) /\ ~Publish(d) /\ ~PublishFails(d) /\ ~LoadRollback(d) /\ ~LoadFails(d)
  BY <1>1 DEF BuildFails, Publish, PublishFails, LoadRollback, LoadFails, Go
<1>4. ~SwitchPointer(d) /\ ~AttachRelease(d) /\ ~RecordEvent(d) /\ ~RollbackFails(d)
  BY <1>1 DEF SwitchPointer, AttachRelease, RecordEvent, RollbackFails, Go
<1>5. ReadRetention(d)
  BY <1>2, <1>3, <1>4 DEF ExecNext
<1> QED BY <1>5 DEF ReadRetention, Go, Pruning, TypeOK

LEMMA KeptFacts ==
  ASSUME TypeOK
  PROVE  /\ Len(releases) \in Nat /\ Versions = 1..Len(releases)
         /\ Kept(Len(releases)) = {v \in Versions : v > Len(releases) - Keep}
<1>1. Len(releases) \in Nat /\ Versions = 1..Len(releases)
  BY DEF TypeOK, Versions
<1>2. \A v \in Versions : v = Len(releases) => v > Len(releases) - Keep
  BY <1>1
<1> QED BY <1>1, <1>2 DEF Kept

LEMMA StepRetention ==
  ASSUME IInv, [Next]_vars
  PROVE  RetentionIsCurrent'
<1>0. TypeOK /\ RetentionIsCurrent
  BY DEF IInv
<1>1. ASSUME UNCHANGED <<releases, attached>>,
             \A e \in Deployments : exec'[e] = exec[e] \/ exec'[e] = "lost",
             UNCHANGED keepSet \/ \A e \in Deployments : exec'[e] # "prune"
      PROVE  RetentionIsCurrent'
  BY <1>0, <1>1 DEF RetentionIsCurrent, Pruning, Kept, Retained, Versions
<1>2. ASSUME NEW d \in Rollbacks, RequestNext(d)
      PROVE  RetentionIsCurrent'
  BY <1>0, <1>1, <1>2, RequestFrame
<1>3. ASSUME NEW d \in Deployments, Enqueue(d)
      PROVE  RetentionIsCurrent'
  BY <1>1, <1>3 DEF Enqueue, tables, locals
<1>4. ASSUME NEW d \in Deployments, ExecNext(d)
      PROVE  RetentionIsCurrent'
  <2>1. /\ Pruning(d)' => attached'[d] = Len(releases')
        /\ exec'[d] = "prune" => keepSet' = Kept(Len(releases))'
    <3>1. exec'[d] = "retain" => attached'[d] = Len(releases')
      BY <1>0, <1>4, ExecArrivals, RetainedChange
    <3>2. exec'[d] = "prune" => /\ attached'[d] = Len(releases')
                                /\ keepSet' = Kept(Len(releases))'
      <4> SUFFICES ASSUME ReadRetention(d)
                   PROVE  /\ attached'[d] = Len(releases')
                          /\ keepSet' = Kept(Len(releases))'
        BY <1>0, <1>4, ExecArrivals
      <4>1. attached[d] = Len(releases)
        BY <1>0 DEF ReadRetention, Go, RetentionIsCurrent, Pruning
      <4> QED BY <4>1 DEF ReadRetention, tables, Kept, Versions
    <3> QED BY <3>1, <3>2 DEF Pruning
  <2>2. \A e \in Deployments \ {d} : ~Pruning(e)'
    BY <1>4, OnePrunes
  <2>3. \A v \in Retained', w \in Versions' : v < w => w \in Retained'
    <3>1. Len(releases) \in Nat /\ Versions = 1..Len(releases) /\ Versions' = 1..Len(releases')
      BY <1>0 DEF TypeOK, Versions
    <3>2. Retained \subseteq Versions /\ \A v \in Retained, w \in Versions : v < w => w \in Retained
      BY <1>0 DEF RetentionIsCurrent, Retained
    <3>3. CASE Publish(d)
      <4>1. Retained' = Retained \cup {Len(releases) + 1} /\ Versions' = 1..(Len(releases) + 1)
        BY <1>4, <3>1, <3>3, RetainedChange
      <4> SUFFICES ASSUME NEW v \in Retained', NEW w \in Versions', v < w, w # Len(releases) + 1
                   PROVE  w \in Retained
        BY <4>1
      <4>2. w \in Versions
        BY <3>1, <4>1
      <4>3. v # Len(releases) + 1
        BY <3>1, <4>1
      <4> QED BY <3>2, <4>1, <4>2, <4>3
    <3>4. CASE Prune(d)
      <4>1. Retained' = {v \in Versions : v > Len(releases) - Keep} /\ Versions' = Versions
        BY <1>0, <1>4, <3>1, <3>4, RetainedChange, KeptFacts
      <4> QED BY <3>1, <4>1
    <3>5. CASE Retained' = Retained /\ Len(releases') = Len(releases)
      BY <3>1, <3>2, <3>5
    <3> QED BY <1>4, <3>3, <3>4, <3>5, RetainedChange
  <2> QED BY <2>1, <2>2, <2>3 DEF RetentionIsCurrent, Pruning
<1>5. CASE Crash
  <2>1. \A d \in Deployments : exec'[d] = (IF exec[d] = "idle" THEN "idle" ELSE "lost")
    BY <1>5 DEF Crash
  <2>2. UNCHANGED <<releases, attached>>
    BY <1>5 DEF Crash, tables
  <2> QED BY <1>1, <2>1, <2>2
<1>6. CASE UNCHANGED vars
  BY <1>1, <1>6 DEF vars, tables, locals
<1> QED BY <1>2, <1>3, <1>4, <1>5, <1>6 DEF Next

LEMMA StepLimit ==
  ASSUME IInv, [Next]_vars
  PROVE  LimitIsKept'
<1>0. TypeOK
  BY DEF IInv
<1>1. Len(releases) \in Nat /\ Versions = 1..Len(releases) /\ Retained \subseteq Versions
  BY <1>0, KeptFacts DEF Retained
<1> SUFFICES ASSUME faults' + crashes' = 0
             PROVE  \A v \in Retained' :
                      /\ v >= Len(releases') - Keep
                      /\ (\A d \in Deployments : ~Pruning(d)') => v > Len(releases') - Keep
  BY DEF LimitIsKept
<1>2. faults' = 0 /\ crashes' = 0 /\ crashes \in Nat
  <2>1. faults' \in Nat /\ crashes' \in Nat /\ crashes \in Nat
    BY <1>0, StepTypeOK DEF TypeOK
  <2>2. \A m, n \in Nat : m + n = 0 => m = 0 /\ n = 0
    OBVIOUS
  <2> QED BY <2>1, <2>2
<1>3. ~Crash
  BY <1>2 DEF Crash
<1>4. faults = 0 /\ crashes = 0
  <2>1. crashes' = crashes
    BY <1>0, <1>3, RequestFrame, ExecBoard DEF Next, Enqueue, vars
  <2> QED BY <1>2, <2>1, FaultsGrow
<1>5. \A v \in Retained :
        /\ v >= Len(releases) - Keep
        /\ (\A d \in Deployments : ~Pruning(d)) => v > Len(releases) - Keep
  BY <1>4 DEF IInv, LimitIsKept
<1>6. CASE UNCHANGED <<releases, exec>>
  BY <1>5, <1>6 DEF Retained, Versions, Pruning
<1>7. ASSUME NEW d \in Deployments, ExecNext(d)
      PROVE  \A v \in Retained' :
               /\ v >= Len(releases') - Keep
               /\ (\A e \in Deployments : ~Pruning(e)') => v > Len(releases') - Keep
  <2>1. CASE Publish(d)
    <3>1. /\ Retained' = Retained \cup {Len(releases) + 1}
          /\ Len(releases') = Len(releases) + 1
          /\ exec'[d] = "retain" /\ exec[d] = "execute"
      BY <1>7, <2>1, RetainedChange
    <3>2. Pruning(d)' /\ \A e \in Deployments : ~Pruning(e)
      BY <1>7, <3>1, OnePrunes DEF Pruning
    <3>3. \A v \in Retained : v > Len(releases) - Keep /\ v \in Nat
      BY <1>1, <1>5, <3>2
    <3>4. \A v \in Retained' : v >= Len(releases') - Keep
      BY <1>1, <3>1, <3>3
    <3> QED BY <3>2, <3>4
  <2>2. CASE Prune(d)
    <3>1. /\ Retained' = {v \in Versions : v > Len(releases) - Keep}
          /\ Len(releases') = Len(releases)
      BY <1>0, <1>7, <2>2, RetainedChange, KeptFacts
    <3> QED BY <1>1, <3>1
  <2>3. CASE Retained' = Retained /\ Len(releases') = Len(releases) /\ ~Prune(d) /\ ~Publish(d)
    <3>1. ~RetentionFails(d)
      BY <1>4, <1>2 DEF RetentionFails, Fault
    <3>2. Pruning(d) => Pruning(d)'
      BY <1>0, <1>7, <2>3, <3>1, PruningGoesOn
    <3>3. (\A e \in Deployments : ~Pruning(e)') => \A e \in Deployments : ~Pruning(e)
      BY <1>7, <3>2, OnePrunes
    <3> QED BY <1>5, <2>3, <3>3
  <2> QED BY <1>7, <2>1, <2>2, <2>3, RetainedChange
<1> QED BY <1>0, <1>3, <1>6, <1>7, RequestFrame DEF Next, Enqueue, tables, locals, vars

LEMMA StepIInv == IInv /\ [Next]_vars => IInv'
BY StepTypeOK, StepSerial, StepKinds, StepPlanned, StepRollbacks, StepPublishing, StepNoFailure,
   StepRetention, StepLimit DEF IInv

(* The invariant the theorems below follow from.                           *)
THEOREM Invariant == Spec => []IInv
BY InitIInv, StepIInv, PTL DEF Spec

-----------------------------------------------------------------------------

(* All variables keep their types; the pointer, the attachments and the    *)
(* plans name releases that exist.                                         *)
THEOREM TypeCorrect == Spec => []TypeOK
<1>1. IInv => TypeOK
  BY DEF IInv
<1> QED BY <1>1, Invariant, PTL

(* The retained releases are the newest ones, and no more than the limit   *)
(* allows while nothing fails: ApplyReleaseRetentionPolicy reads and marks *)
(* in two statements, and no release can come between them.                *)
THEOREM RetentionIsSound == Spec => []RetainedAreNewest
<1>1. IInv => RetainedAreNewest
  <2> SUFFICES ASSUME IInv
               PROVE  RetainedAreNewest
    OBVIOUS
  <2>0. TypeOK /\ RetentionIsCurrent /\ LimitIsKept
    BY DEF IInv
  <2>1. faults + crashes = 0 => Cardinality(Retained) <= Keep + 1
    <3> SUFFICES ASSUME faults + crashes = 0
                 PROVE  Cardinality(Retained) <= Keep + 1
      OBVIOUS
    <3> DEFINE newest == (Len(releases) - Keep)..Len(releases)
    <3>1. Len(releases) \in Nat /\ Retained \subseteq 1..Len(releases)
      BY <2>0, KeptFacts DEF Retained
    <3>2. \A v \in Retained : v >= Len(releases) - Keep
      BY <2>0 DEF LimitIsKept
    <3>3. Retained \in SUBSET newest
      BY <3>1, <3>2
    <3>4. IsFiniteSet(newest) /\ Cardinality(newest) = Keep + 1
      <4>1. Len(releases) - Keep \in Int /\ Len(releases) \in Int
        BY <3>1
      <4>2. /\ IsFiniteSet(newest)
            /\ Cardinality(newest) = IF Len(releases) - Keep > Len(releases) THEN 0
                                     ELSE Len(releases) - (Len(releases) - Keep) + 1
        BY <4>1, FS_Interval
      <4> QED BY <3>1, <4>2
    <3> HIDE DEF newest
    <3> QED BY <3>3, <3>4, FS_Subset
  <2> QED BY <2>0, <2>1 DEF RetainedAreNewest, RetentionIsCurrent
<1> QED BY <1>1, Invariant, PTL

(* A rollback whose job succeeded has its release attached and its event   *)
(* recorded: executeRollbackAttempt writes them in this order, over        *)
(* however many attempts, and the plan it reads never changes under it.    *)
THEOREM RollbacksComplete == Spec => []RollbackIsComplete
<1>1. IInv => RollbackIsComplete
  <2> SUFFICES ASSUME IInv, NEW d \in Rollbacks, Succeeded(d)
               PROVE  d \in events /\ attached[d] = plan[d].to /\ HasTarget(d)
    BY DEF RollbackIsComplete, HasTarget
  <2> QED BY PlansAreKept DEF IInv, RollbackProgress, Succeeded
<1> QED BY <1>1, Invariant, PTL

(* While nothing fails, a deployment that succeeded has published exactly  *)
(* one release, the one attached to it, over however many attempts.        *)
THEOREM SuccessPublishes == Spec => []SuccessHasRelease
<1>1. IInv => SuccessHasRelease
  BY DEF IInv, PublishingProgress, Published, PublishedBy, SuccessHasRelease
<1> QED BY <1>1, Invariant, PTL

(* While nothing fails, an accepted rollback does not fail.                *)
THEOREM RollbacksSucceed == Spec => []AcceptedRollbackSucceeds
<1>1. IInv => AcceptedRollbackSucceeds
  BY DEF IInv, RollbacksDoNotFail, AcceptedRollbackSucceeds
<1> QED BY <1>1, Invariant, PTL
=============================================================================
