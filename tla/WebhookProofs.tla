---------------------------- MODULE WebhookProofs ----------------------------
(***************************************************************************)
(* Theorems about Webhook for every number of apps, deliveries, requests,  *)
(* faults and edits.                                                       *)
(*                                                                         *)
(* The argument: the ledger records exactly which requests took on which   *)
(* apps, and the insert is the only way to take one on, so two requests of *)
(* a delivery never share an app.  A request deploys only what it took on. *)
(***************************************************************************)
EXTENDS Webhook, FiniteSetTheorems, TLAPS

USE AppsAssumption, DeliveryAssumption, LimitsAssumption

(* A ledger row is there exactly when some request took the app on.        *)
LedgerIsBacked ==
  \A a \in Apps, d \in Deliveries :
    <<a, d>> \in ledger <=> \E r \in Requests : DeliveryOf[r] = d /\ a \in claimed[r]

(* No app is taken on twice for a delivery.                                *)
ClaimsAreDisjoint ==
  \A r, s \in Requests, a \in Apps :
    DeliveryOf[r] = DeliveryOf[s] /\ a \in claimed[r] /\ a \in claimed[s] => r = s

(* Past the claims, a request has nothing to do for apps it did not claim. *)
TodoIsClaimed(r) ==
  pc[r] \in {"creating", "enqueuing", "compensating"} => todo[r] \subseteq claimed[r]

(* A deployment is made by a request that claimed the app.                 *)
DeploymentsAreClaimed(r) ==
  \A a \in Apps : deployments[<<a, r>>] # "none" => a \in claimed[r]

(* The apps a request is through with have a queued deployment and a job.  *)
DoneIsQueued(r) ==
  pc[r] \in {"creating", "enqueuing", "accepted"} =>
    \A a \in claimed[r] \ todo[r] :
      deployments[<<a, r>>] = "queued" /\ <<a, r>> \in queued

(* The app a request is about to enqueue has a queued deployment.          *)
NextIsCreated(r) ==
  pc[r] = "enqueuing" =>
    \A a \in Apps : IsNext(a, r) => deployments[<<a, r>>] = "queued"

(* An accepted request has nothing left to do.                             *)
AcceptedIsDone(r) == pc[r] = "accepted" => todo[r] = {}

Orderly(r) ==
  /\ TodoIsClaimed(r)
  /\ DeploymentsAreClaimed(r)
  /\ DoneIsQueued(r)
  /\ NextIsCreated(r)
  /\ AcceptedIsDone(r)

IInv ==
  /\ TypeOK
  /\ LedgerIsBacked
  /\ ClaimsAreDisjoint
  /\ \A r \in Requests : Orderly(r)

-----------------------------------------------------------------------------
(* The loops agree on which app is next.                                   *)
LEMMA NextIsUnique ==
  ASSUME NEW r \in Requests, NEW a \in Apps, NEW b \in Apps, IsNext(a, r), IsNext(b, r)
  PROVE  a = b
<1>1. a <= b /\ b <= a
  BY DEF IsNext
<1>2. a \in Nat /\ b \in Nat
  OBVIOUS
<1> QED
  BY <1>1, <1>2

(* Initially nothing has been claimed, deployed or answered.               *)
LEMMA InitIInv == Init => IInv
<1> SUFFICES ASSUME Init PROVE IInv
  OBVIOUS
<1> USE DEF Init
<1>1. TypeOK
  BY DEF TypeOK, RequestStates, Active
<1>2. LedgerIsBacked /\ ClaimsAreDisjoint
  BY DEF LedgerIsBacked, ClaimsAreDisjoint
<1>3. ASSUME NEW r \in Requests PROVE Orderly(r)
  BY DEF Orderly, TodoIsClaimed, DeploymentsAreClaimed, DoneIsQueued, NextIsCreated,
         AcceptedIsDone
<1> QED
  BY <1>1, <1>2, <1>3 DEF IInv

-----------------------------------------------------------------------------
(* Types.                                                                  *)

(* Every step of a request keeps the types.                                *)
LEMMA HandleTypeOK ==
  ASSUME TypeOK, NEW r \in Requests, Handle(r)
  PROVE  TypeOK'
<1> USE DEF TypeOK, Go, RequestStates, Active, tables, Fault
<1>1. CASE Resolve(r)
  BY <1>1 DEF Resolve
<1>2. CASE Claim(r)
  <2>1. PICK a \in Apps : /\ ClaimWebhookDelivery(a, r)
                          /\ Go(r, "claiming", "claiming")
                          /\ todo' = [todo EXCEPT ![r] = @ \ {a}]
                          /\ UNCHANGED <<apps, deployments, queued, eligible, faults>>
    BY <1>2 DEF Claim
  <2>2. ledger' \subseteq Apps \X Deliveries /\ claimed' \in [Requests -> SUBSET Apps]
    BY <2>1 DEF ClaimWebhookDelivery
  <2> QED
    BY <2>1, <2>2
<1>3. CASE ClaimsDone(r)
  BY <1>3 DEF ClaimsDone
<1>4. CASE Create(r)
  BY <1>4 DEF Create
<1>5. CASE Enqueue(r)
  BY <1>5 DEF Enqueue
<1>6. CASE EnqueueFails(r)
  BY <1>6 DEF EnqueueFails
<1>7. CASE Compensate(r)
  <2>1. PICK a \in Apps : /\ \/ /\ deployments' = [deployments EXCEPT ![<<a, r>>] = "failed"]
                                /\ UNCHANGED faults
                             \/ Fault /\ UNCHANGED deployments
                          /\ Go(r, "compensating", "failed")
                          /\ UNCHANGED <<apps, ledger, queued, eligible, claimed, todo>>
    BY <1>7 DEF Compensate
  <2>2. deployments' \in [Apps \X Requests -> {"none", "queued", "failed"}]
    BY <2>1
  <2>3. faults' \in Nat
    BY <2>1
  <2> QED
    BY <2>1, <2>2, <2>3
<1>8. CASE Accept(r)
  BY <1>8 DEF Accept
<1>9. CASE StatementFails(r)
  BY <1>9 DEF StatementFails
<1> QED
  BY <1>1, <1>2, <1>3, <1>4, <1>5, <1>6, <1>7, <1>8, <1>9 DEF Handle

(* So does its loss.                                                       *)
LEMMA LostTypeOK ==
  ASSUME TypeOK, NEW r \in Requests, RequestLost(r)
  PROVE  TypeOK'
BY DEF TypeOK, RequestLost, Go, RequestStates, Active, tables, Fault

(* So does an edit of an app's settings.                                   *)
LEMMA EditTypeOK ==
  ASSUME TypeOK, NEW a \in Apps, Edit(a)
  PROVE  TypeOK'
<1>1. PICK b \in Branches, auto \in BOOLEAN :
        apps' = [apps EXCEPT ![a] = [branch |-> b, auto |-> auto]]
  BY DEF Edit
<1>2. apps' \in [Apps -> [branch : Branches, auto : BOOLEAN]]
  BY <1>1 DEF TypeOK
<1> QED
  BY <1>2 DEF TypeOK, Edit, locals

-----------------------------------------------------------------------------
(* The ledger.                                                             *)

(* Nothing but a claim changes what has been taken on.                     *)
LEMMA OnlyClaimsClaim ==
  ASSUME NEW r \in Requests, Handle(r) \/ RequestLost(r)
  PROVE  \/ UNCHANGED <<ledger, claimed>>
         \/ \E a \in Apps : IsNext(a, r) /\ pc[r] = "claiming" /\ ClaimWebhookDelivery(a, r)
BY DEF Handle, RequestLost, Resolve, Claim, ClaimsDone, Create, Enqueue, EnqueueFails,
       Compensate, Accept, StatementFails, Go, tables

(* A claim adds one row, and to the request that inserted it; or nothing.  *)
LEMMA ClaimKeepsLedger ==
  ASSUME IInv, NEW r \in Requests, NEW a \in Apps, ClaimWebhookDelivery(a, r)
  PROVE  LedgerIsBacked' /\ ClaimsAreDisjoint'
<1>1. CASE <<a, DeliveryOf[r]>> \in ledger
  BY <1>1 DEF IInv, ClaimWebhookDelivery, LedgerIsBacked, ClaimsAreDisjoint
<1>2. CASE <<a, DeliveryOf[r]>> \notin ledger
  <2>1. ledger' = ledger \cup {<<a, DeliveryOf[r]>>}
    BY <1>2 DEF ClaimWebhookDelivery
  <2>2. \A s \in Requests, b \in Apps :
          b \in claimed'[s] <=> b \in claimed[s] \/ (s = r /\ b = a)
    BY <1>2 DEF ClaimWebhookDelivery, IInv, TypeOK
  <2>3. \A b \in Apps, d \in Deliveries :
          <<b, d>> \in ledger' <=> <<b, d>> \in ledger \/ (b = a /\ d = DeliveryOf[r])
    BY <2>1
  <2>4. LedgerIsBacked'
    BY <2>2, <2>3 DEF IInv, LedgerIsBacked
  <2>5. \A s \in Requests : DeliveryOf[s] = DeliveryOf[r] => a \notin claimed[s]
    BY <1>2 DEF IInv, LedgerIsBacked
  <2>6. ClaimsAreDisjoint'
    BY <2>2, <2>5 DEF IInv, ClaimsAreDisjoint
  <2> QED
    BY <2>4, <2>6
<1> QED
  BY <1>1, <1>2

(* A request's step keeps the ledger backed and the claims disjoint.       *)
LEMMA HandleLedger ==
  ASSUME IInv, NEW r \in Requests, Handle(r) \/ RequestLost(r)
  PROVE  LedgerIsBacked' /\ ClaimsAreDisjoint'
<1>1. CASE UNCHANGED <<ledger, claimed>>
  BY <1>1 DEF IInv, LedgerIsBacked, ClaimsAreDisjoint
<1>2. CASE \E a \in Apps : ClaimWebhookDelivery(a, r)
  BY <1>2, ClaimKeepsLedger
<1> QED
  BY <1>1, <1>2, OnlyClaimsClaim

-----------------------------------------------------------------------------
(* The loops.                                                              *)

(* A request's step leaves the other requests and their rows alone.        *)
LEMMA HandleIsLocal ==
  ASSUME TypeOK, NEW r \in Requests, Handle(r) \/ RequestLost(r),
         NEW s \in Requests \ {r}
  PROVE  /\ pc'[s] = pc[s] /\ todo'[s] = todo[s] /\ claimed'[s] = claimed[s]
         /\ \A a \in Apps : /\ deployments'[<<a, s>>] = deployments[<<a, s>>]
                            /\ <<a, s>> \in queued' <=> <<a, s>> \in queued
<1> USE DEF TypeOK
<1>1. pc'[s] = pc[s]
  BY DEF Handle, RequestLost, Resolve, Claim, ClaimsDone, Create, Enqueue, EnqueueFails,
         Compensate, Accept, StatementFails, Go
<1>2. todo'[s] = todo[s]
  BY DEF Handle, RequestLost, Resolve, Claim, ClaimsDone, Create, Enqueue, EnqueueFails,
         Compensate, Accept, StatementFails
<1>3. claimed'[s] = claimed[s]
  BY OnlyClaimsClaim DEF ClaimWebhookDelivery
<1>4. ASSUME NEW a \in Apps
      PROVE  /\ deployments'[<<a, s>>] = deployments[<<a, s>>]
             /\ <<a, s>> \in queued' <=> <<a, s>> \in queued
  BY DEF Handle, RequestLost, Resolve, Claim, ClaimsDone, Create, Enqueue, EnqueueFails,
         Compensate, Accept, StatementFails, tables
<1> QED
  BY <1>1, <1>2, <1>3, <1>4

(* The other requests' bookkeeping survives a request's step.              *)
LEMMA OthersStayOrderly ==
  ASSUME TypeOK, NEW r \in Requests, Handle(r) \/ RequestLost(r),
         NEW s \in Requests \ {r}, Orderly(s)
  PROVE  Orderly(s)'
<1> USE HandleIsLocal DEF Orderly
<1>1. TodoIsClaimed(s)' /\ AcceptedIsDone(s)'
  BY DEF TodoIsClaimed, AcceptedIsDone
<1>2. DeploymentsAreClaimed(s)'
  BY DEF DeploymentsAreClaimed
<1>3. DoneIsQueued(s)'
  BY DEF DoneIsQueued, TypeOK
<1>4. NextIsCreated(s)'
  BY DEF NextIsCreated, IsNext
<1> QED
  BY <1>1, <1>2, <1>3, <1>4

(* A request's step keeps its own bookkeeping, one case per action.        *)
LEMMA HandleStaysOrderly ==
  ASSUME TypeOK, NEW r \in Requests, Handle(r) \/ RequestLost(r), Orderly(r)
  PROVE  Orderly(r)'
<1> USE DEF TypeOK, Orderly, TodoIsClaimed, DeploymentsAreClaimed, DoneIsQueued,
            NextIsCreated, AcceptedIsDone, Go, tables
<1>1. CASE Resolve(r)
  BY <1>1 DEF Resolve
<1>2. CASE Claim(r)
  BY <1>2 DEF Claim, ClaimWebhookDelivery
<1>3. CASE ClaimsDone(r)
  BY <1>3 DEF ClaimsDone
<1>4. CASE Create(r)
  <2>1. PICK a \in Apps : /\ IsNext(a, r)
                          /\ Go(r, "creating", "enqueuing")
                          /\ deployments' = [deployments EXCEPT ![<<a, r>>] = "queued"]
                          /\ UNCHANGED <<apps, ledger, queued, eligible, claimed, todo, faults>>
    BY <1>4 DEF Create
  <2>2. pc[r] = "creating" /\ pc'[r] = "enqueuing" /\ a \in todo[r]
    BY <2>1 DEF IsNext
  <2>3. \A b \in Apps : deployments'[<<b, r>>] = IF b = a THEN "queued" ELSE deployments[<<b, r>>]
    BY <2>1
  <2>4. TodoIsClaimed(r)' /\ DeploymentsAreClaimed(r)' /\ AcceptedIsDone(r)'
    BY <2>1, <2>2, <2>3
  <2>5. DoneIsQueued(r)'
    BY <2>1, <2>2, <2>3
  <2>6. \A b \in Apps : IsNext(b, r)' => b = a
    BY <2>1, NextIsUnique DEF IsNext
  <2>7. NextIsCreated(r)'
    BY <2>3, <2>6
  <2> QED
    BY <2>4, <2>5, <2>7
<1>5. CASE Enqueue(r)
  BY <1>5 DEF Enqueue
<1>6. CASE EnqueueFails(r)
  BY <1>6 DEF EnqueueFails
<1>7. CASE Compensate(r)
  <2>1. PICK a \in Apps : /\ IsNext(a, r)
                          /\ Go(r, "compensating", "failed")
                          /\ \/ deployments' = [deployments EXCEPT ![<<a, r>>] = "failed"]
                             \/ UNCHANGED deployments
                          /\ UNCHANGED claimed
    BY <1>7 DEF Compensate
  <2>2. pc[r] = "compensating" /\ pc'[r] = "failed" /\ a \in claimed[r]
    BY <2>1 DEF IsNext
  <2>3. DeploymentsAreClaimed(r)'
    BY <2>1, <2>2
  <2> QED
    BY <2>2, <2>3
<1>8. CASE Accept(r)
  BY <1>8 DEF Accept
<1>9. CASE StatementFails(r)
  BY <1>9 DEF StatementFails
<1>10. CASE RequestLost(r)
  BY <1>10 DEF RequestLost
<1> QED
  BY <1>1, <1>2, <1>3, <1>4, <1>5, <1>6, <1>7, <1>8, <1>9, <1>10 DEF Handle

-----------------------------------------------------------------------------
(* The theorems.                                                           *)

(* The invariant is inductive.                                             *)
LEMMA StepIInv == IInv /\ [Next]_vars => IInv'
<1> SUFFICES ASSUME IInv, [Next]_vars PROVE IInv'
  OBVIOUS
<1>1. ASSUME NEW r \in Requests, Handle(r) \/ RequestLost(r) PROVE IInv'
  <2>1. TypeOK'
    BY <1>1, HandleTypeOK, LostTypeOK DEF IInv
  <2>2. LedgerIsBacked' /\ ClaimsAreDisjoint'
    BY <1>1, HandleLedger
  <2>3. \A s \in Requests : Orderly(s)'
    BY <1>1, HandleStaysOrderly, OthersStayOrderly DEF IInv
  <2> QED
    BY <2>1, <2>2, <2>3 DEF IInv
<1>2. ASSUME NEW a \in Apps, Edit(a) PROVE IInv'
  <2>1. TypeOK'
    BY <1>2, EditTypeOK DEF IInv
  <2>2. UNCHANGED <<ledger, claimed>>
    BY <1>2 DEF Edit, locals
  <2>3. LedgerIsBacked' /\ ClaimsAreDisjoint'
    BY <2>2 DEF IInv, LedgerIsBacked, ClaimsAreDisjoint
  <2>4. ASSUME NEW r \in Requests PROVE Orderly(r)'
    BY <1>2, <2>4 DEF IInv, Edit, locals, Orderly, TodoIsClaimed, DeploymentsAreClaimed,
                      DoneIsQueued, NextIsCreated, AcceptedIsDone, IsNext
  <2> QED
    BY <2>1, <2>3, <2>4 DEF IInv
<1>3. CASE UNCHANGED vars
  <2>1. TypeOK'
    BY <1>3 DEF IInv, TypeOK, vars, tables, locals
  <2>2. LedgerIsBacked' /\ ClaimsAreDisjoint'
    BY <1>3 DEF IInv, LedgerIsBacked, ClaimsAreDisjoint, vars, tables, locals
  <2>3. ASSUME NEW r \in Requests PROVE Orderly(r)'
    BY <1>3 DEF IInv, vars, tables, locals, Orderly, TodoIsClaimed, DeploymentsAreClaimed,
                DoneIsQueued, NextIsCreated, AcceptedIsDone, IsNext
  <2> QED
    BY <2>1, <2>2, <2>3 DEF IInv
<1> QED
  BY <1>1, <1>2, <1>3 DEF Next

(* The inductive invariant holds in every reachable state.                 *)
THEOREM Invariant == Spec => []IInv
  BY InitIInv, StepIInv, PTL DEF Spec

(* Every reachable state of the webhook is well typed.                     *)
THEOREM TypeCorrect == Spec => []TypeOK
<1>1. IInv => TypeOK
  BY DEF IInv
<1> QED
  BY <1>1, Invariant, PTL

(* However often and concurrently a delivery arrives, an app gets one      *)
(* deployment for it at most: the ledger's unique index suffices.          *)
THEOREM AtMostOnce == Spec => []OneDeploymentPerDelivery
<1>1. IInv => OneDeploymentPerDelivery
  BY DEF IInv, OneDeploymentPerDelivery, ClaimsAreDisjoint, Orderly, DeploymentsAreClaimed
<1> QED
  BY <1>1, Invariant, PTL

(* The answer 202 hides no partial failure of the request that gives it.   *)
THEOREM AcceptedIsHonest == Spec => []AcceptedMeansQueued
<1>1. IInv => AcceptedMeansQueued
  BY DEF IInv, AcceptedMeansQueued, Orderly, DoneIsQueued, AcceptedIsDone
<1> QED
  BY <1>1, Invariant, PTL

(* Every row of the ledger was inserted by one request, and one only.      *)
THEOREM SingleOwner == Spec => []LedgerRowsHaveOneOwner
<1>1. ASSUME IInv, NEW a \in Apps, NEW d \in Deliveries
      PROVE  LET owners == {r \in Requests : DeliveryOf[r] = d /\ a \in claimed[r]}
             IN Cardinality(owners) = IF <<a, d>> \in ledger THEN 1 ELSE 0
  <2> DEFINE owners == {r \in Requests : DeliveryOf[r] = d /\ a \in claimed[r]}
  <2>1. CASE <<a, d>> \in ledger
    <3>1. PICK r \in Requests : DeliveryOf[r] = d /\ a \in claimed[r]
      BY <1>1, <2>1 DEF IInv, LedgerIsBacked
    <3>2. owners = {r}
      BY <1>1, <3>1 DEF IInv, ClaimsAreDisjoint
    <3> QED
      BY <2>1, <3>2, FS_Singleton
  <2>2. CASE <<a, d>> \notin ledger
    <3>1. owners = {}
      BY <1>1, <2>2 DEF IInv, LedgerIsBacked
    <3> QED
      BY <2>2, <3>1, FS_EmptySet
  <2> QED
    BY <2>1, <2>2
<1>2. IInv => LedgerRowsHaveOneOwner
  BY <1>1 DEF LedgerRowsHaveOneOwner
<1> QED
  BY <1>2, Invariant, PTL
=============================================================================
