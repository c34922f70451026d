--------------------------- MODULE PaymentLedger ---------------------------
(***************************************************************************)
(* What the payment code promises: an order is paid by one transaction     *)
(* that pays exactly that order's owner and plan, no transaction pays for  *)
(* two orders, and every paid order grants its owner one term of the plan, *)
(* once.  How a transaction is found, how deep it must lie in the chain,   *)
(* who verifies it and how often are left to the implementation.           *)
(***************************************************************************)
EXTENDS Naturals

CONSTANTS User, Plan, Order, Tx, Pays, NoTx, NoOrder

VARIABLES
  placed,    \* placed[o]: <<user, plan>> of an order, NoOrder before it exists
  paidWith,  \* paidWith[o]: the transaction that paid order o, or NoTx
  granted    \* granted[u]: terms user u was granted so far

LedgerInit ==
  /\ placed = [o \in Order |-> NoOrder]
  /\ paidWith = [o \in Order |-> NoTx]
  /\ granted = [u \in User |-> 0]

PlaceOrder(o, u, p) ==
  /\ placed[o] = NoOrder
  /\ placed' = [placed EXCEPT ![o] = <<u, p>>]
  /\ UNCHANGED <<paidWith, granted>>

Unused(t) == \A o \in Order : paidWith[o] # t

Pay(o, u, p, t) ==
  /\ placed[o] = <<u, p>> /\ Pays[t] = <<u, p>>
  /\ paidWith[o] = NoTx /\ Unused(t)
  /\ paidWith' = [paidWith EXCEPT ![o] = t]
  /\ granted' = [granted EXCEPT ![u] = granted[u] + 1]
  /\ UNCHANGED placed

LedgerNext ==
  \E o \in Order, u \in User, p \in Plan :
    PlaceOrder(o, u, p) \/ \E t \in Tx : Pay(o, u, p, t)

LedgerSpec == LedgerInit /\ [][LedgerNext]_<<placed, paidWith, granted>>
============================================================================
