------------------------------ MODULE Releases ------------------------------
(***************************************************************************)
(* The releases of one app: deployments publish them, retention marks the  *)
(* old ones, and rollbacks move the app's pointer back to one of them.     *)
(*                                                                         *)
(* The queue appears here as what it promises, the board of JobBoard (that *)
(* DeployQueue keeps this promise is theorem Refinement of                 *)
(* DeployQueueProofs): the jobs of an app are taken one at a time, so      *)
(* executions of the app are serial.  The handlers that ask for a rollback *)
(* are not: they run beside executions and beside each other, and one of   *)
(* their statements moves the pointer too.                                 *)
(*                                                                         *)
(* Every statement's WHERE names the app, so the apps share nothing and    *)
(* one is enough.  Statuses of deployments are DeployQueue's business.     *)
(***************************************************************************)
EXTENDS Integers, Sequences, FiniteSets

CONSTANTS
  Deployments,
  Rollbacks,     (* those of them triggered by the rollback handler        *)
  MaxAttempts,
  Keep,          (* RELEASE_RETENTION_LIMIT                                *)
  MaxFaults,     (* bound: failing statements and lost requests            *)
  MaxCrashes     (* bound: crashes of the process                          *)

ASSUME RollbacksAssumption == Rollbacks \subseteq Deployments
ASSUME LimitsAssumption    == /\ MaxAttempts \in Nat \ {0}
                              /\ Keep \in Nat \ {0}
                              /\ MaxFaults \in Nat /\ MaxCrashes \in Nat

VARIABLES
  releases,      (* release_versions, by version number                    *)
  current,       (* apps.current_release_version_id, 0 for NULL            *)
  attached,      (* deployments.release_version_id, 0 for NULL             *)
  payloads,      (* the rows of deployment_rollback_payloads               *)
  events,        (* the rows of rollback_events                            *)
  board,         (* the app's jobs                                         *)
  request,       (* where each rollback's handler stands                   *)
  plan,          (* the handler's currentRelease and targetRelease; the    *)
                 (* payload and the event copy them                        *)
  exec,          (* where each job's execution stands                      *)
  keepSet,       (* the retention policy's local                           *)
  faults,
  crashes

tables == <<releases, current, attached, payloads, events>>
locals == <<request, plan, exec, keepSet>>
vars == <<tables, board, locals, faults, crashes>>

Queue == INSTANCE JobBoard WITH Jobs <- Deployments,
                                GroupOf <- [d \in Deployments |-> "app"]

(* A version is one more than the highest and no row is ever deleted.      *)
Versions == 1..Len(releases)

RequestStates ==
  {"idle", "list", "adopt", "target", "payload", "enqueue", "done", "rejected", "lost"}
Executing == {"execute", "retain", "prune", "switch", "attach", "record"}
Ending == {"succeed", "retry", "fail"}
ExecStates == Executing \cup Ending \cup {"idle", "lost"}

TypeOK ==
  /\ releases \in Seq([deployment : Deployments, retained : BOOLEAN])
  /\ current \in 0..Len(releases)
  /\ attached \in [Deployments -> 0..Len(releases)]
  /\ payloads \subseteq Rollbacks
  /\ events \subseteq payloads
  /\ Queue!BoardTypeOK
  /\ request \in [Rollbacks -> RequestStates]
  /\ plan \in [Rollbacks -> [from : 0..Len(releases), to : 0..Len(releases)]]
  /\ exec \in [Deployments -> ExecStates]
  /\ keepSet \subseteq Versions
  /\ faults \in Nat
  /\ crashes \in Nat

Init ==
  /\ releases = <<>>
  /\ current = 0
  /\ attached = [d \in Deployments |-> 0]
  /\ payloads = {}
  /\ events = {}
  /\ Queue!BoardInit
  /\ request = [d \in Rollbacks |-> "idle"]
  /\ plan = [d \in Rollbacks |-> [from |-> 0, to |-> 0]]
  /\ exec = [d \in Deployments |-> "idle"]
  /\ keepSet = {}
  /\ faults = 0
  /\ crashes = 0

Fault == faults < MaxFaults /\ faults' = faults + 1

-----------------------------------------------------------------------------
(* CreateRollbackHandler                                                   *)

Ask(d, from, to) ==
  /\ request[d] = from
  /\ request' = [request EXCEPT ![d] = to]
  /\ UNCHANGED <<releases, attached, events, exec, keepSet, crashes>>

(* resolveCurrentRelease reads the pointer,                                *)
ReadCurrent(d) ==
  /\ \/ /\ current # 0
        /\ Ask(d, "idle", "target")
        /\ plan' = [plan EXCEPT ![d] = [from |-> current, to |-> 0]]
     \/ /\ current = 0
        /\ Ask(d, "idle", "list")
        /\ UNCHANGED plan
  /\ UNCHANGED <<current, payloads, board, faults>>

(* looks for the latest release when there is none,                        *)
ListReleases(d) ==
  /\ \/ /\ releases = <<>>
        /\ Ask(d, "list", "rejected")
        /\ UNCHANGED plan
     \/ /\ releases # <<>>
        /\ Ask(d, "list", "adopt")
        /\ plan' = [plan EXCEPT ![d] = [from |-> Len(releases), to |-> 0]]
  /\ UNCHANGED <<current, payloads, board, faults>>

(* and makes that one current.                                             *)
Adopt(d) ==
  /\ Ask(d, "adopt", "target")
  /\ current' = plan[d].from
  /\ UNCHANGED <<plan, payloads, board, faults>>

(* The definitions named Bug... are slips the code could contain; the      *)
(* README says which property finds each.  No specification uses them.     *)

(* The payload is never saved.                                             *)
BugChooseTarget(d) ==
  /\ Ask(d, "target", "enqueue")
  /\ \E v \in Versions \ {plan[d].from} :
       plan' = [plan EXCEPT ![d] = [from |-> plan[d].from, to |-> v]]
  /\ UNCHANGED <<current, payloads, board, faults>>

(* The target is any release the client names, retained or not; without a  *)
(* name it is the highest other version, which is one of them.             *)
ChooseTarget(d) ==
  /\ Ask(d, "target", "payload")
  /\ \E v \in Versions \ {plan[d].from} :
       plan' = [plan EXCEPT ![d] = [from |-> plan[d].from, to |-> v]]
  /\ UNCHANGED <<current, payloads, board, faults>>

(* The named release is current already, or there is no such release.      *)
RejectTarget(d) ==
  /\ Ask(d, "target", "rejected")
  /\ UNCHANGED <<current, plan, payloads, board, faults>>

SavePayload(d) ==
  /\ Ask(d, "payload", "enqueue")
  /\ payloads' = payloads \cup {d}
  /\ UNCHANGED <<current, plan, board, faults>>

EnqueueRollback(d) ==
  /\ Ask(d, "enqueue", "done")
  /\ Queue!Submit(d)
  /\ UNCHANGED <<current, plan, payloads, faults>>

(* A statement fails or the client goes away: what is written stays.       *)
RequestEnds(d) ==
  /\ \E from \in {"list", "adopt", "target", "payload", "enqueue"} : Ask(d, from, "lost")
  /\ Fault
  /\ UNCHANGED <<current, plan, payloads, board>>

RequestNext(d) ==
  \/ ReadCurrent(d)
  \/ ListReleases(d)
  \/ Adopt(d)
  \/ ChooseTarget(d)
  \/ RejectTarget(d)
  \/ SavePayload(d)
  \/ EnqueueRollback(d)
  \/ RequestEnds(d)

-----------------------------------------------------------------------------
(* The queue                                                               *)

(* CreateDeployHandler or the webhook                                      *)
Enqueue(d) ==
  /\ d \notin Rollbacks
  /\ Queue!Submit(d)
  /\ UNCHANGED <<tables, locals, faults, crashes>>

Go(d, from, to) ==
  /\ exec[d] = from
  /\ exec' = [exec EXCEPT ![d] = to]
  /\ UNCHANGED <<request, plan, crashes>>

Take(d) ==
  /\ Go(d, "idle", "execute")
  /\ Queue!Take(d)
  /\ UNCHANGED <<tables, keepSet, faults>>

(* The job is marked with what became of the attempt,                      *)
Settle(d) ==
  /\ \/ Go(d, "succeed", "idle") /\ Queue!Finish(d, "succeeded")
     \/ Go(d, "fail", "idle") /\ Queue!Finish(d, "failed")
     \/ Go(d, "retry", "idle") /\ Queue!GiveBack(d)
  /\ UNCHANGED <<tables, keepSet, faults>>

(* or the mark fails, and the job stays taken.                             *)
SettleFails(d) ==
  /\ \E ending \in Ending : Go(d, ending, "lost")
  /\ Fault
  /\ UNCHANGED <<tables, board, keepSet>>

(* A retryable failure                                                     *)
Retryable(d) == IF board[d].tries < MaxAttempts THEN "retry" ELSE "fail"

-----------------------------------------------------------------------------
(* executeStandardAttempt                                                  *)

Standard(d) == d \in Deployments \ Rollbacks

(* The build fails, transiently or for good.                               *)
BuildFails(d) ==
  /\ Standard(d)
  /\ \E ending \in {Retryable(d), "fail"} : Go(d, "execute", ending)
  /\ UNCHANGED <<tables, board, keepSet, faults>>

(* The transaction leaves the deployment row alone.                        *)
BugCreateReleaseVersion(d) ==
  /\ releases' = Append(releases, [deployment |-> d, retained |-> TRUE])
  /\ current' = Len(releases')
  /\ UNCHANGED attached

(* The pointer gets the version after the one inserted.                    *)
BugNextVersion(d) ==
  /\ releases' = Append(releases, [deployment |-> d, retained |-> TRUE])
  /\ current' = Len(releases') + 1
  /\ attached' = [attached EXCEPT ![d] = Len(releases')]

(* One transaction: the row, the app's pointer, the deployment's release.  *)
CreateReleaseVersion(d) ==
  /\ releases' = Append(releases, [deployment |-> d, retained |-> TRUE])
  /\ current' = Len(releases')
  /\ attached' = [attached EXCEPT ![d] = Len(releases')]

Publish(d) ==
  /\ Standard(d)
  /\ Go(d, "execute", "retain")
  /\ CreateReleaseVersion(d)
  /\ UNCHANGED <<payloads, events, board, keepSet, faults>>

(* "release snapshot metadata failed to persist": the deployment succeeds. *)
PublishFails(d) ==
  /\ Standard(d)
  /\ Go(d, "execute", "succeed")
  /\ Fault
  /\ UNCHANGED <<tables, board, keepSet>>

(* ORDER BY version_number without DESC: the oldest are kept.              *)
BugKept(published) == {v \in Versions : v <= Keep \/ v = published}

Kept(published) == {v \in Versions : v > Len(releases) - Keep \/ v = published}

(* ApplyReleaseRetentionPolicy reads the releases,                         *)
ReadRetention(d) ==
  /\ Go(d, "retain", "prune")
  /\ keepSet' = Kept(attached[d])
  /\ UNCHANGED <<tables, board, faults>>

(* and marks them in a transaction.                                        *)
Prune(d) ==
  /\ Go(d, "prune", "succeed")
  /\ releases' = [v \in Versions |->
                    [deployment |-> releases[v].deployment, retained |-> v \in keepSet]]
  /\ keepSet' = {}
  /\ UNCHANGED <<current, attached, payloads, events, board, faults>>

(* "release retention policy failed to apply"                              *)
RetentionFails(d) ==
  /\ Go(d, "retain", "succeed") \/ Go(d, "prune", "succeed")
  /\ keepSet' = {}
  /\ Fault
  /\ UNCHANGED <<tables, board>>

-----------------------------------------------------------------------------
(* executeRollbackAttempt                                                  *)

LoadRollback(d) ==
  /\ d \in payloads
  /\ Go(d, "execute", "switch")
  /\ UNCHANGED <<tables, board, keepSet, faults>>

(* "rollback payload missing", "target release not found": the target was  *)
(* there when it was chosen, and releases stay.                            *)
LoadFails(d) ==
  /\ d \in Rollbacks
  /\ Go(d, "execute", "fail")
  /\ IF d \in payloads THEN Fault ELSE UNCHANGED faults
  /\ UNCHANGED <<tables, board, keepSet>>

(* SetCurrentReleaseVersionForAppForUser; its EXISTS finds the release.    *)
SwitchPointer(d) ==
  /\ Go(d, "switch", "attach")
  /\ current' = plan[d].to
  /\ UNCHANGED <<releases, attached, payloads, events, board, keepSet, faults>>

(* The attachment is forgotten.                                            *)
BugAttachRelease(d) ==
  /\ Go(d, "attach", "record")
  /\ UNCHANGED <<tables, board, keepSet, faults>>

AttachRelease(d) ==
  /\ Go(d, "attach", "record")
  /\ attached' = [attached EXCEPT ![d] = plan[d].to]
  /\ UNCHANGED <<releases, current, payloads, events, board, keepSet, faults>>

(* An attempt before this one may have recorded the event: then the insert *)
(* is a duplicate, and that is no error.                                   *)
RecordEvent(d) ==
  /\ Go(d, "record", "succeed")
  /\ events' = events \cup {d}
  /\ UNCHANGED <<releases, current, attached, payloads, board, keepSet, faults>>

RollbackFails(d) ==
  /\ \E from \in {"switch", "attach", "record"} : Go(d, from, Retryable(d))
  /\ Fault
  /\ UNCHANGED <<tables, board, keepSet>>

ExecNext(d) ==
  \/ Take(d)
  \/ Settle(d)
  \/ SettleFails(d)
  \/ BuildFails(d)
  \/ Publish(d)
  \/ PublishFails(d)
  \/ ReadRetention(d)
  \/ Prune(d)
  \/ RetentionFails(d)
  \/ LoadRollback(d)
  \/ LoadFails(d)
  \/ SwitchPointer(d)
  \/ AttachRelease(d)
  \/ RecordEvent(d)
  \/ RollbackFails(d)

-----------------------------------------------------------------------------

(* The process ends and is started again: rows survive, nothing resumes.   *)
Crash ==
  /\ crashes < MaxCrashes
  /\ crashes' = crashes + 1
  /\ request' = [d \in Rollbacks |->
                   IF request[d] \in {"idle", "done", "rejected"} THEN request[d] ELSE "lost"]
  /\ exec' = [d \in Deployments |-> IF exec[d] = "idle" THEN "idle" ELSE "lost"]
  /\ keepSet' = {}
  /\ UNCHANGED <<tables, board, plan, faults>>

Next ==
  \/ \E d \in Rollbacks : RequestNext(d)
  \/ \E d \in Deployments : Enqueue(d) \/ ExecNext(d)
  \/ Crash

Spec == Init /\ [][Next]_vars

-----------------------------------------------------------------------------
(* Properties                                                              *)

Succeeded(d) == board[d].status = "succeeded"
Retained == {v \in Versions : releases[v].retained}

(* The retained releases are always the newest ones, whatever rolls back,  *)
(* fails or crashes between the release, the reading and the marking; and  *)
(* while nothing has failed they are never more than the limit and the one *)
(* just published.                                                         *)
RetainedAreNewest ==
  /\ \A v \in Retained, w \in Versions : v < w => w \in Retained
  /\ faults + crashes = 0 => Cardinality(Retained) <= Keep + 1

(* A rollback whose job succeeded is complete, over however many attempts: *)
(* its deployment carries the target, which is not the release it left,    *)
(* and its event is recorded.                                              *)
RollbackIsComplete ==
  \A d \in Rollbacks : Succeeded(d) =>
    /\ d \in events
    /\ attached[d] = plan[d].to
    /\ plan[d].to \in Versions \ {plan[d].from}

(* While no statement has failed, a deployment that succeeded has a        *)
(* release of its own, and no other deployment has published that one.     *)
SuccessHasRelease ==
  faults = 0 =>
    \A d \in Deployments \ Rollbacks : Succeeded(d) =>
      {v \in Versions : releases[v].deployment = d} = {attached[d]}

(* While no statement has failed, a rollback that was accepted does not    *)
(* fail: by the time its job can be taken, its payload and target are      *)
(* there, and they stay.                                                   *)
AcceptedRollbackSucceeds ==
  faults = 0 => \A d \in Rollbacks : board[d].status # "failed"

(* A rollback that is marked succeeded leaves the app on its target.       *)
RollbackTakesEffect ==
  [][\A d \in Rollbacks : ~Succeeded(d) /\ Succeeded(d)' => current = plan[d].to]_vars
=============================================================================
