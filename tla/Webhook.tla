------------------------------- MODULE Webhook -------------------------------
(***************************************************************************)
(* The GitHub webhook: a push becomes a deployment of every app that       *)
(* follows the pushed branch, at most once per app and delivery.           *)
(*                                                                         *)
(* The handler first writes every app it is about to serve into a ledger,  *)
(* and only then creates the deployments, one app after the other.  The    *)
(* same delivery can arrive again, also while it is being handled; any     *)
(* statement can fail, any request can end in the middle, and owners edit  *)
(* their apps meanwhile.                                                   *)
(***************************************************************************)
EXTENDS Integers, FiniteSets

CONSTANTS
  Apps,          (* ids of the apps of the pushed repository             *)
  Branches,
  Deliveries,    (* X-GitHub-Delivery values                             *)
  Requests,      (* HTTP requests, redeliveries included                 *)
  DeliveryOf,    (* the delivery each request carries                    *)
  BranchOf,      (* the branch each delivery says was pushed             *)
  MaxFaults,     (* bound: failing statements and lost requests          *)
  MaxEdits       (* bound: edits of app settings                         *)

ASSUME AppsAssumption     == Apps \subseteq Nat
ASSUME DeliveryAssumption == /\ DeliveryOf \in [Requests -> Deliveries]
                             /\ BranchOf \in [Deliveries -> Branches]
ASSUME LimitsAssumption   == MaxFaults \in Nat /\ MaxEdits \in Nat

VARIABLES
  apps,          (* branch and auto_deploy_enabled of each app           *)
  ledger,        (* webhook_deliveries                                   *)
  deployments,   (* status of the deployment a request made for an app   *)
  queued,        (* the deployments that have a job                      *)
  pc,            (* where each request stands                            *)
  eligible,      (* the apps a request resolved                          *)
  claimed,       (* those of them it put into the ledger                 *)
  todo,          (* those its current loop has not reached               *)
  faults,
  edits

tables == <<apps, ledger, deployments, queued>>
locals == <<pc, eligible, claimed, todo>>
vars == <<tables, locals, faults, edits>>

Active == {"claiming", "creating", "enqueuing", "compensating"}
RequestStates == Active \cup {"idle", "accepted", "failed", "lost"}

TypeOK ==
  /\ apps \in [Apps -> [branch : Branches, auto : BOOLEAN]]
  /\ ledger \subseteq Apps \X Deliveries
  /\ deployments \in [Apps \X Requests -> {"none", "queued", "failed"}]
  /\ queued \subseteq Apps \X Requests
  /\ pc \in [Requests -> RequestStates]
  /\ eligible \in [Requests -> SUBSET Apps]
  /\ claimed \in [Requests -> SUBSET Apps]
  /\ todo \in [Requests -> SUBSET Apps]
  /\ faults \in Nat
  /\ edits \in Nat

Init ==
  /\ apps \in [Apps -> [branch : Branches, auto : {TRUE}]]
  /\ ledger = {}
  /\ deployments = [p \in Apps \X Requests |-> "none"]
  /\ queued = {}
  /\ pc = [r \in Requests |-> "idle"]
  /\ eligible = [r \in Requests |-> {}]
  /\ claimed = [r \in Requests |-> {}]
  /\ todo = [r \in Requests |-> {}]
  /\ faults = 0
  /\ edits = 0

Fault == faults < MaxFaults /\ faults' = faults + 1

Go(r, from, to) ==
  /\ pc[r] = from
  /\ pc' = [pc EXCEPT ![r] = to]
  /\ UNCHANGED edits

(* The loops run through the apps ORDER BY id.                             *)
IsNext(a, r) == a \in todo[r] /\ \A b \in todo[r] : a <= b

-----------------------------------------------------------------------------
(* resolvePushEventWithStore                                               *)

Follows(a, r) == apps[a].auto /\ apps[a].branch = BranchOf[DeliveryOf[r]]

Resolve(r) ==
  /\ Go(r, "idle", "claiming")
  /\ eligible' = [eligible EXCEPT ![r] = {a \in Apps : Follows(a, r)}]
  /\ todo' = [todo EXCEPT ![r] = {a \in Apps : Follows(a, r)}]
  /\ UNCHANGED <<tables, claimed, faults>>

-----------------------------------------------------------------------------
(* dedupeEligibleAppsWithLedger                                            *)

(* The definitions named Bug... are slips the code could contain; the      *)
(* README says which property finds each.  No specification uses them.     *)

(* INSERT OR IGNORE: a row that is there already raises no error.          *)
BugClaimWebhookDelivery(a, r) ==
  /\ ledger' = ledger \cup {<<a, DeliveryOf[r]>>}
  /\ claimed' = [claimed EXCEPT ![r] = @ \cup {a}]

(* UNIQUE (app_id, delivery_id) decides: a row that is there already is a  *)
(* duplicate, and the loop goes on without the app.                        *)
ClaimWebhookDelivery(a, r) ==
  IF <<a, DeliveryOf[r]>> \in ledger
    THEN UNCHANGED <<ledger, claimed>>
    ELSE /\ ledger' = ledger \cup {<<a, DeliveryOf[r]>>}
         /\ claimed' = [claimed EXCEPT ![r] = @ \cup {a}]

Claim(r) ==
  \E a \in Apps :
    /\ IsNext(a, r)
    /\ Go(r, "claiming", "claiming")
    /\ ClaimWebhookDelivery(a, r)
    /\ todo' = [todo EXCEPT ![r] = @ \ {a}]
    /\ UNCHANGED <<apps, deployments, queued, eligible, faults>>

(* The list of apps to serve is left empty.                                *)
BugClaimsDone(r) ==
  /\ Go(r, "claiming", "creating")
  /\ todo[r] = {}
  /\ UNCHANGED <<tables, eligible, claimed, todo, faults>>

ClaimsDone(r) ==
  /\ Go(r, "claiming", "creating")
  /\ todo[r] = {}
  /\ todo' = [todo EXCEPT ![r] = claimed[r]]
  /\ UNCHANGED <<tables, eligible, claimed, faults>>

-----------------------------------------------------------------------------
(* enqueueWebhookDeployments                                               *)

Create(r) ==
  \E a \in Apps :
    /\ IsNext(a, r)
    /\ Go(r, "creating", "enqueuing")
    /\ deployments' = [deployments EXCEPT ![<<a, r>>] = "queued"]
    /\ UNCHANGED <<apps, ledger, queued, eligible, claimed, todo, faults>>

(* The handler answers after the first app.                                *)
BugEnqueue(r) ==
  \E a \in Apps :
    /\ IsNext(a, r)
    /\ Go(r, "enqueuing", "accepted")
    /\ queued' = queued \cup {<<a, r>>}
    /\ todo' = [todo EXCEPT ![r] = @ \ {a}]
    /\ UNCHANGED <<apps, ledger, deployments, eligible, claimed, faults>>

Enqueue(r) ==
  \E a \in Apps :
    /\ IsNext(a, r)
    /\ Go(r, "enqueuing", "creating")
    /\ queued' = queued \cup {<<a, r>>}
    /\ todo' = [todo EXCEPT ![r] = @ \ {a}]
    /\ UNCHANGED <<apps, ledger, deployments, eligible, claimed, faults>>

EnqueueFails(r) ==
  /\ Go(r, "enqueuing", "compensating")
  /\ Fault
  /\ UNCHANGED <<tables, eligible, claimed, todo>>

(* The status literal is none the table's readers know.                    *)
BugCompensate(r) ==
  \E a \in Apps :
    /\ IsNext(a, r)
    /\ Go(r, "compensating", "failed")
    /\ deployments' = [deployments EXCEPT ![<<a, r>>] = "cancelled"]
    /\ UNCHANGED <<apps, ledger, queued, eligible, claimed, todo, faults>>

(* The update may fail like any other; the request fails either way.       *)
Compensate(r) ==
  \E a \in Apps :
    /\ IsNext(a, r)
    /\ Go(r, "compensating", "failed")
    /\ \/ /\ deployments' = [deployments EXCEPT ![<<a, r>>] = "failed"]
          /\ UNCHANGED faults
       \/ Fault /\ UNCHANGED deployments
    /\ UNCHANGED <<apps, ledger, queued, eligible, claimed, todo>>

Accept(r) ==
  /\ Go(r, "creating", "accepted")
  /\ todo[r] = {}
  /\ UNCHANGED <<tables, eligible, claimed, todo, faults>>

-----------------------------------------------------------------------------
(* What can go wrong, and what others do                                   *)

(* A statement of either loop fails: the handler answers with an error and *)
(* leaves the apps it has not reached alone, claimed as they are.          *)
StatementFails(r) ==
  /\ Go(r, "claiming", "failed") \/ Go(r, "creating", "failed")
  /\ todo[r] # {}
  /\ Fault
  /\ UNCHANGED <<tables, eligible, claimed, todo>>

(* The client disconnects or the process ends: no further statement of the *)
(* request takes effect.                                                   *)
RequestLost(r) ==
  /\ \E from \in Active : Go(r, from, "lost")
  /\ Fault
  /\ UNCHANGED <<tables, eligible, claimed, todo>>

(* PatchAppHandler writes what it has merged: any branch, auto deployment  *)
(* on or off.  A request decides by the settings it read in Resolve.       *)
Edit(a) ==
  /\ edits < MaxEdits
  /\ edits' = edits + 1
  /\ \E b \in Branches, auto \in BOOLEAN :
       apps' = [apps EXCEPT ![a] = [branch |-> b, auto |-> auto]]
  /\ UNCHANGED <<ledger, deployments, queued, locals, faults>>

Handle(r) ==
  \/ Resolve(r)
  \/ Claim(r)
  \/ ClaimsDone(r)
  \/ Create(r)
  \/ Enqueue(r)
  \/ EnqueueFails(r)
  \/ Compensate(r)
  \/ Accept(r)
  \/ StatementFails(r)

Next ==
  \/ \E r \in Requests : Handle(r) \/ RequestLost(r)
  \/ \E a \in Apps : Edit(a)

Spec == Init /\ [][Next]_vars

(* A request that has arrived is handled.                                  *)
Fairness == \A r \in Requests : WF_vars(pc[r] \in Active /\ Handle(r))

FairSpec == Spec /\ Fairness

-----------------------------------------------------------------------------
(* Properties                                                              *)

SameDelivery(r) == {s \in Requests : DeliveryOf[s] = DeliveryOf[r]}

HasJob(a, r) == \E s \in SameDelivery(r) : <<a, s>> \in queued

(* However often and however concurrently a delivery arrives, an app gets  *)
(* one deployment for it at most.                                          *)
OneDeploymentPerDelivery ==
  \A a \in Apps, r, s \in Requests :
    /\ DeliveryOf[r] = DeliveryOf[s]
    /\ deployments[<<a, r>>] # "none"
    /\ deployments[<<a, s>>] # "none"
    => r = s

(* A request is accepted only when every app it claimed has a queued       *)
(* deployment and a job to go with it: the answer 202 hides no partial     *)
(* failure.                                                                *)
AcceptedMeansQueued ==
  \A r \in Requests : pc[r] = "accepted" =>
    \A a \in claimed[r] : deployments[<<a, r>>] = "queued" /\ <<a, r>> \in queued

(* The ledger and the requests agree: a row is there exactly when one      *)
(* request, and one only, took the app on, so whatever remains undone for  *)
(* a delivery can be blamed on a single request.                           *)
LedgerRowsHaveOneOwner ==
  \A a \in Apps, d \in Deliveries :
    LET owners == {r \in Requests : DeliveryOf[r] = d /\ a \in claimed[r]}
    IN Cardinality(owners) = IF <<a, d>> \in ledger THEN 1 ELSE 0

(* As long as nothing fails, every app a request resolved gets its job,    *)
(* from that request or from a duplicate that was faster.                  *)
EligibleAppsAreServed ==
  \A r \in Requests, a \in Apps :
    a \in eligible[r] ~> HasJob(a, r) \/ faults > 0

(* When a delivery has been accepted and none of its requests is under way *)
(* any more, every app it was resolved to has a job.                       *)
AcceptedDeliveryIsServed ==
  \A r \in Requests :
    /\ pc[r] = "accepted"
    /\ \A s \in SameDelivery(r) : pc[s] \notin Active
    => \A a \in eligible[r] : HasJob(a, r)
=============================================================================
