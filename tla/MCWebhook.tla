------------------------------ MODULE MCWebhook ------------------------------
(* Instances of Webhook for TLC.                                           *)
EXTENDS Webhook, TLC

CONSTANTS main, dev, x1, x2, r1, r2, r3

(* A delivery that arrives twice, and another one for the same branch.     *)
MCDeliveryOf == (r1 :> x1) @@ (r2 :> x1) @@ (r3 :> x2)
MCBranchOf == (x1 :> main) @@ (x2 :> main)
=============================================================================
