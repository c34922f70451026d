-------------------------- MODULE MCPaymentOrders --------------------------
(* Values for TLC: what each transaction pays. *)
EXTENDS PaymentOrders, TLC

CONSTANTS u1, p1, p2, t1, t2, h1, i1

BothPlans == (t1 :> <<u1, p1>>) @@ (t2 :> <<u1, p2>>)
FirstPlan == t1 :> <<u1, p1>>

(* A joint bound, as an action constraint of the run: one failure or one
   reorganization.  Fairness obliges neither. *)
OneTrouble == faults' + reorgs' <= 1
============================================================================
