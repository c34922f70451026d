--------------------------- MODULE PaymentOrders ---------------------------
(***************************************************************************)
(* Subscription payments: orders, the verification of their transactions   *)
(* on the chain, and the term a paid order grants                          *)
(* (internal/payment/service.go and runner.go, internal/store/orders.go,   *)
(* activateSubscription of internal/store/subscriptions.go).               *)
(*                                                                         *)
(* A verification reads the transaction, its receipt and the head of the   *)
(* chain in three calls and then writes its verdict; nothing locks the     *)
(* order in between.  HTTP handlers (Web) verify an order each time the    *)
(* browser asks, and the reconciliation of every server instance (Runner)  *)
(* goes through the confirming orders, one instance at a time as long as   *)
(* the session that holds the advisory lock lives.                         *)
(*                                                                         *)
(* An operator marked `Variant' is a wrong form of the one after it, used  *)
(* only to confirm that the properties notice the mistake.                 *)
(***************************************************************************)
EXTENDS Integers, FiniteSets

CONSTANTS
  User,      \* DeBox users, each with one wallet
  Plan,      \* plans that cost something
  Tx,        \* transactions, by hash
  Pays,      \* Pays[t]: the <<user, plan>> whose order t pays exactly
  Web,       \* HTTP requests that verify an order
  Runner,    \* server instances running the reconciliation
  RequiredConfirmations,  \* 3 in the code
  NumOrders, \* bound: orders, ids 1..NumOrders
  MaxFaults, \* bound: crashes, lost sessions, chain calls that fail
  MaxReorgs, \* bound: chain reorganizations
  NoPlan, NoTx, NoOrder, NoRunner

Order    == 1..NumOrders
Verifier == Web \cup Runner

ASSUME PaymentAssumption ==
  /\ Web \cap Runner = {} /\ NoRunner \notin Runner
  /\ NoPlan \notin Plan /\ NoTx \notin Tx
  /\ NoOrder \notin User \X Plan
  /\ NumOrders \in Nat \ {0}
  /\ RequiredConfirmations \in Nat \ {0}
  /\ MaxFaults \in Nat /\ MaxReorgs \in Nat

VARIABLES
  order,      \* order[o]: <<owner, plan>>, NoOrder before it is created
  status,     \* orders.status
  hash,       \* orders.tx_hash, NoTx while empty
  lapsed,     \* expires_at < NOW()
  plan,       \* the user's active paid plan, or NoPlan
  left,       \* terms until that plan expires
  granted,    \* history: terms ever granted
  resources,  \* the user's rules and projects: "running" or "paused"
  age,        \* age[t]: confirmations of t, 0 while not in a block; saturates
  inclusion,  \* inclusion[t]: how often t was put into a block
  pc,         \* where each verification stands
  job,        \* what it has read
  todo,       \* confirming orders a reconciliation still has to check
  lock,       \* holder of the reconciliation's advisory lock
  faults, reorgs   \* counters for the bounds

orderVars == <<order, status, hash, lapsed>>
planVars  == <<plan, left, granted, resources>>
chainVars == <<age, inclusion, reorgs>>
vars == <<orderVars, planVars, chainVars, pc, job, todo, lock, faults>>

-----------------------------------------------------------------------------
(* Types *)

Status == {"none", "pending", "confirming", "failed", "expired", "paid"}
Open   == {"pending", "confirming"}
Step   == {"idle", "next", "tx", "receipt", "head", "write", "finalize",
           "restore"}

(* eth_getTransactionByHash: no answer, an answer without a block number, or
   the block the transaction was put into. *)
Missing == -1
Pending == 0

Job == [order : Order, tx : Int, depth : Nat,
        verdict : {"confirming", "failed"}]
NoJob == [order |-> 1, tx |-> Missing, depth |-> 0, verdict |-> "confirming"]

TypeOK ==
  /\ order \in [Order -> (User \X Plan) \cup {NoOrder}]
  /\ status \in [Order -> Status]
  /\ hash \in [Order -> Tx \cup {NoTx}]
  /\ lapsed \in [Order -> BOOLEAN]
  /\ plan \in [User -> Plan \cup {NoPlan}]
  /\ left \in [User -> Nat]
  /\ granted \in [User -> Nat]
  /\ resources \in [User -> {"running", "paused"}]
  /\ age \in [Tx -> 0..RequiredConfirmations]
  /\ inclusion \in [Tx -> Nat]
  /\ pc \in [Verifier -> Step]
  /\ job \in [Verifier -> Job]
  /\ todo \in [Runner -> SUBSET Order]
  /\ lock \in Runner \cup {NoRunner}
  /\ faults \in Nat /\ reorgs \in Nat

Init ==
  /\ order = [o \in Order |-> NoOrder]
  /\ status = [o \in Order |-> "none"]
  /\ hash = [o \in Order |-> NoTx]
  /\ lapsed = [o \in Order |-> FALSE]
  /\ plan = [u \in User |-> NoPlan]
  /\ left = [u \in User |-> 0]
  /\ granted = [u \in User |-> 0]
  /\ resources = [u \in User |-> "running"]
  /\ age = [t \in Tx |-> 0]
  /\ inclusion = [t \in Tx |-> 0]
  /\ pc = [v \in Verifier |-> "idle"]
  /\ job = [v \in Verifier |-> NoJob]
  /\ todo = [r \in Runner |-> {}]
  /\ lock = NoRunner
  /\ faults = 0 /\ reorgs = 0

-----------------------------------------------------------------------------
(* Helpers *)

OwnerOf(o) == order[o][1]
CodeOf(o)  == order[o][2]

OrdersOf(u) == {o \in Order : status[o] # "none" /\ OwnerOf(o) = u}

Goto(v, step) == pc' = [pc EXCEPT ![v] = step]
Fault == faults < MaxFaults /\ faults' = faults + 1

(* The verification is over: a request ends, a reconciliation goes on. *)
Done(v) ==
  /\ Goto(v, IF v \in Runner THEN "next" ELSE "idle")
  /\ job' = [job EXCEPT ![v] = NoJob]

(* The verdict is written next. *)
Rule(v, verdict) ==
  /\ Goto(v, "write")
  /\ job' = [job EXCEPT ![v].verdict = verdict]

(* An error ends a request; a reconciliation keeps the order confirming. *)
Refused(v) == IF v \in Runner THEN Rule(v, "confirming") ELSE Done(v)

-----------------------------------------------------------------------------
(* Orders *)

(* Only a user without a plan, or one who renews it, may order, and only while
   none of the user's transactions is being confirmed. *)
MayOrder(u, p) ==
  /\ plan[u] \in {NoPlan, p}
  /\ \A o \in OrdersOf(u) : status[o] # "confirming"

CreateOrder(u, p, o) ==
  /\ status[o] = "none" /\ \A q \in Order : q < o => status[q] # "none"
  /\ MayOrder(u, p)
  /\ order' = [order EXCEPT ![o] = <<u, p>>]
  /\ status' = [q \in Order |->
       IF q = o THEN "pending"
       ELSE IF q \in OrdersOf(u) /\ status[q] = "pending" THEN "expired"
       ELSE status[q]]
  /\ UNCHANGED <<hash, lapsed, planVars, chainVars, pc, job, todo, lock, faults>>

OrderLapses(o) ==
  /\ status[o] = "pending" /\ ~lapsed[o]
  /\ lapsed' = [lapsed EXCEPT ![o] = TRUE]
  /\ UNCHANGED <<order, status, hash, planVars, chainVars, pc, job, todo, lock,
                 faults>>

(* The two unique indexes on orders. *)
HashFree(o, t) == \A q \in Order \ {o} : hash[q] # t
NoOtherOpen(o) ==
  \A q \in OrdersOf(OwnerOf(o)) \ {o} : status[q] \notin Open

-----------------------------------------------------------------------------
(* The chain *)

Grown(n) == IF n < RequiredConfirmations THEN n + 1 ELSE n

(* The next block, with the transactions S.  The head a verification is about
   to read is one block further too. *)
NextBlock(S) ==
  /\ \A t \in S : age[t] = 0
  /\ age' = [t \in Tx |-> IF t \in S THEN 1
                          ELSE IF age[t] = 0 THEN 0 ELSE Grown(age[t])]
  /\ inclusion' = [t \in Tx |-> IF t \in S THEN inclusion[t] + 1
                                ELSE inclusion[t]]
  /\ job' = [v \in Verifier |->
       IF pc[v] = "head" THEN [job[v] EXCEPT !.depth = Grown(@)] ELSE job[v]]
  /\ UNCHANGED <<orderVars, planVars, reorgs, pc, todo, lock, faults>>

(* The last k blocks are replaced by as many others without these
   transactions.  Reorganizations as deep as RequiredConfirmations are outside
   the model. *)
Reorg(k) ==
  /\ reorgs < MaxReorgs /\ \E t \in Tx : age[t] \in 1..k
  /\ age' = [t \in Tx |-> IF age[t] <= k THEN 0 ELSE age[t]]
  /\ reorgs' = reorgs + 1
  /\ UNCHANGED <<orderVars, planVars, inclusion, pc, job, todo, lock, faults>>

-----------------------------------------------------------------------------
(* Terms *)

TermEnds(u) ==
  /\ plan[u] # NoPlan
  /\ left' = [left EXCEPT ![u] = left[u] - 1]
  /\ plan' = [plan EXCEPT ![u] = IF left[u] = 1 THEN NoPlan ELSE plan[u]]
  /\ UNCHANGED <<granted, resources, orderVars, chainVars, pc, job, todo, lock,
                 faults>>

(* ApplyPaidExpiryFallback *)
PauseExpiredUserResources(u) ==
  /\ plan[u] = NoPlan /\ granted[u] > 0 /\ resources[u] = "running"
  /\ resources' = [resources EXCEPT ![u] = "paused"]
  /\ UNCHANGED <<plan, left, granted, orderVars, chainVars, pc, job, todo, lock,
                 faults>>

(* The user restores by hand what the plan allows. *)
RestorePausedResources(u) ==
  /\ plan[u] # NoPlan /\ resources[u] = "paused"
  /\ resources' = [resources EXCEPT ![u] = "running"]
  /\ UNCHANGED <<plan, left, granted, orderVars, chainVars, pc, job, todo, lock,
                 faults>>

-----------------------------------------------------------------------------
(* A verification starts *)

(* An HTTP request: the hash is bound to the order for good. *)
ClaimOrderTransaction(v, o, t) ==
  /\ pc[v] = "idle"
  /\ (status[o] = "pending" /\ ~lapsed[o]) \/ status[o] = "confirming"
  /\ hash[o] \in {NoTx, t} /\ HashFree(o, t)
  /\ status' = [status EXCEPT ![o] = "confirming"]
  /\ hash' = [hash EXCEPT ![o] = t]
  /\ job' = [job EXCEPT ![v].order = o]
  /\ Goto(v, "tx")
  /\ UNCHANGED <<order, lapsed, planVars, chainVars, todo, lock, faults>>

(* A reconciliation takes the lock, expires the orders that lapsed, and lists
   the confirming ones. *)
ListConfirmingOrders == {o \in Order : status[o] = "confirming"}

StartReconcile(r) ==
  /\ pc[r] = "idle" /\ lock = NoRunner
  /\ lock' = r
  /\ status' = [o \in Order |->
       IF status[o] = "pending" /\ lapsed[o] THEN "expired" ELSE status[o]]
  /\ todo' = [todo EXCEPT ![r] = ListConfirmingOrders]
  /\ Goto(r, "next")
  /\ UNCHANGED <<order, hash, lapsed, planVars, chainVars, job, faults>>

ReconcileNext(r, o) ==
  /\ pc[r] = "next" /\ o \in todo[r]
  /\ todo' = [todo EXCEPT ![r] = todo[r] \ {o}]
  /\ job' = [job EXCEPT ![r].order = o]
  /\ Goto(r, "tx")
  /\ UNCHANGED <<orderVars, planVars, chainVars, lock, faults>>

(* Variant: the deferred unlock is missing. *)
KeepLock(r) == lock' = lock
Unlock(r) == lock' = IF lock = r THEN NoRunner ELSE lock

EndReconcile(r) ==
  /\ pc[r] = "next" /\ todo[r] = {}
  /\ Goto(r, "idle") /\ Unlock(r)
  /\ UNCHANGED <<orderVars, planVars, chainVars, job, todo, faults>>

-----------------------------------------------------------------------------
(* The three readings of the chain (verifyClaimedOrder) *)

HashOf(v) == hash[job[v].order]
Matches(o, t) == Pays[t] = order[o]

RPCTransactionByHash(v) ==
  /\ pc[v] = "tx"
  /\ \E seen \in IF age[HashOf(v)] = 0 THEN {Missing, Pending}
                                       ELSE {inclusion[HashOf(v)]} :
       job' = [job EXCEPT ![v].tx = seen]
  /\ Goto(v, "receipt")
  /\ UNCHANGED <<orderVars, planVars, chainVars, todo, lock, faults>>

(* The transaction or its receipt is not there yet. *)
ReceiptMissing(v) ==
  /\ pc[v] = "receipt" /\ (job[v].tx = Missing \/ age[HashOf(v)] = 0)
  /\ Rule(v, "confirming")
  /\ UNCHANGED <<orderVars, planVars, chainVars, todo, lock, faults>>

HasReceipt(v) == job[v].tx # Missing /\ age[HashOf(v)] # 0

(* validateTransaction: another payer, amount, recipient or a reverted
   transaction; or the block numbers of transaction and receipt differ. *)
ReceiptRejected(v) ==
  /\ pc[v] = "receipt" /\ HasReceipt(v)
  /\ ~Matches(job[v].order, HashOf(v)) \/ job[v].tx # inclusion[HashOf(v)]
  /\ Rule(v, "failed")
  /\ UNCHANGED <<orderVars, planVars, chainVars, todo, lock, faults>>

(* Another inclusion may have been given the same block number. *)
ReceiptValid(v) ==
  job[v].tx # Pending /\ Matches(job[v].order, HashOf(v))

ReceiptAccepted(v) ==
  /\ pc[v] = "receipt" /\ HasReceipt(v) /\ ReceiptValid(v)
  /\ job' = [job EXCEPT ![v].depth = age[HashOf(v)]]
  /\ Goto(v, "head")
  /\ UNCHANGED <<orderVars, planVars, chainVars, todo, lock, faults>>

(* Variant: one confirmation less. *)
NearlyEnough(depth) == depth + 1 >= RequiredConfirmations
Enough(depth) == depth >= RequiredConfirmations

LatestBlockNumber(v) ==
  /\ pc[v] = "head"
  /\ IF Enough(job[v].depth) THEN Goto(v, "finalize") /\ UNCHANGED job
                             ELSE Rule(v, "confirming")
  /\ UNCHANGED <<orderVars, planVars, chainVars, todo, lock, faults>>

(* A call fails, or answers with something unreadable. *)
ChainUnavailable(v) ==
  /\ pc[v] \in {"tx", "receipt", "head"} /\ Fault
  /\ Refused(v)
  /\ UNCHANGED <<orderVars, planVars, chainVars, todo, lock>>

-----------------------------------------------------------------------------
(* The verdict *)

(* UpdateOrderVerification: whatever the order has become meanwhile, unless it
   is paid, or another order of the owner is open and the index refuses. *)
(* Variant: a paid order is written too. *)
WritableAlways(o, s) == s = "failed" \/ status[o] \in Open \/ NoOtherOpen(o)
Writable(o, s) ==
  /\ status[o] # "paid"
  /\ s = "failed" \/ status[o] \in Open \/ NoOtherOpen(o)

UpdateOrderVerification(v) ==
  LET o == job[v].order IN
  /\ pc[v] = "write"
  /\ status' = IF Writable(o, job[v].verdict)
               THEN [status EXCEPT ![o] = job[v].verdict] ELSE status
  /\ Done(v)
  /\ UNCHANGED <<order, hash, lapsed, planVars, chainVars, todo, lock, faults>>

(* activateSubscription: a second plan is not started beside another one.  What
   the last plan left running is paused first. *)
MayActivate(u, p) == plan[u] \in {NoPlan, p}

Extended(u) == left[u] + 1

ActivateSubscription(u, p) ==
  /\ MayActivate(u, p)
  /\ plan' = [plan EXCEPT ![u] = p]
  /\ left' = [left EXCEPT ![u] = Extended(u)]
  /\ granted' = [granted EXCEPT ![u] = granted[u] + 1]
  /\ resources' = [resources EXCEPT ![u] =
       IF plan[u] = NoPlan /\ granted[u] > 0 THEN "paused" ELSE resources[u]]

FinalizePaidOrder(v) ==
  LET o == job[v].order IN
  /\ pc[v] = "finalize" /\ status[o] = "confirming"
  /\ ActivateSubscription(OwnerOf(o), CodeOf(o))
  /\ status' = [status EXCEPT ![o] = "paid"]
  /\ Goto(v, "restore")
  /\ UNCHANGED <<order, hash, lapsed, chainVars, job, todo, lock, faults>>

FinalizedAlready(v) ==
  /\ pc[v] = "finalize" /\ status[job[v].order] = "paid"
  /\ Goto(v, "restore")
  /\ UNCHANGED <<orderVars, planVars, chainVars, job, todo, lock, faults>>

FinalizeRefused(v) ==
  LET o == job[v].order IN
  /\ pc[v] = "finalize" /\ status[o] # "paid"
  /\ status[o] = "confirming" => ~MayActivate(OwnerOf(o), CodeOf(o))
  /\ Refused(v)
  /\ UNCHANGED <<orderVars, planVars, chainVars, todo, lock, faults>>

(* What the last plan's end paused is restored, if the plan is still the one
   that was paid for; a statement of its own, after the payment. *)
(* Variant: only a user without a plan is restored. *)
RestorableWithoutPlan(u, p) == plan[u] = NoPlan
Restorable(u, p) == plan[u] = p

ReconcileActivePlan(v) ==
  LET u == OwnerOf(job[v].order) IN
  /\ pc[v] = "restore"
  /\ resources' = IF Restorable(u, CodeOf(job[v].order))
                  THEN [resources EXCEPT ![u] = "running"] ELSE resources
  /\ Done(v)
  /\ UNCHANGED <<orderVars, plan, left, granted, chainVars, todo, lock, faults>>

-----------------------------------------------------------------------------
(* Failures *)

(* The process dies, the request is cancelled, or the database fails. *)
Crash(v) ==
  /\ pc[v] # "idle" /\ Fault
  /\ Goto(v, "idle")
  /\ job' = [job EXCEPT ![v] = NoJob]
  /\ todo' = [r \in Runner |-> IF r = v THEN {} ELSE todo[r]]
  /\ Unlock(v)
  /\ UNCHANGED <<orderVars, planVars, chainVars>>

LoseLock(r) ==
  /\ lock = r /\ Fault
  /\ lock' = NoRunner
  /\ UNCHANGED <<orderVars, planVars, chainVars, pc, job, todo>>

-----------------------------------------------------------------------------
Users ==
  \/ \E u \in User, p \in Plan, o \in Order : CreateOrder(u, p, o)
  \/ \E o \in Order : OrderLapses(o)
  \/ \E u \in User : \/ TermEnds(u) \/ PauseExpiredUserResources(u)
                     \/ RestorePausedResources(u)

Chain ==
  \/ \E S \in SUBSET Tx : NextBlock(S)
  \/ \E k \in 1..(RequiredConfirmations - 1) : Reorg(k)

Verify(v) ==
  \/ RPCTransactionByHash(v)
  \/ ReceiptMissing(v) \/ ReceiptRejected(v) \/ ReceiptAccepted(v)
  \/ LatestBlockNumber(v)
  \/ UpdateOrderVerification(v)
  \/ FinalizePaidOrder(v) \/ FinalizedAlready(v) \/ FinalizeRefused(v)
  \/ ReconcileActivePlan(v)

Reconcile(r) ==
  \/ StartReconcile(r)
  \/ \E o \in Order : ReconcileNext(r, o)
  \/ EndReconcile(r)
  \/ Verify(r)

Next ==
  \/ Users \/ Chain
  \/ \E v \in Verifier : Verify(v) \/ ChainUnavailable(v) \/ Crash(v)
  \/ \E v \in Web, o \in Order, t \in Tx : ClaimOrderTransaction(v, o, t)
  \/ \E r \in Runner : Reconcile(r) \/ LoseLock(r)

Spec == Init /\ [][Next]_vars

(* The reconciliations go on, blocks keep coming and take up every transaction,
   and terms run out.  No browser has to ask again. *)
Fairness ==
  /\ \A r \in Runner : WF_vars(Reconcile(r))
  /\ WF_vars(NextBlock({}))
  /\ \A t \in Tx : WF_vars(\E S \in SUBSET Tx : t \in S /\ NextBlock(S))
  /\ \A u \in User : WF_vars(TermEnds(u))

FairSpec == Spec /\ Fairness

-----------------------------------------------------------------------------
(* Properties *)

(* Without a reorganization a paid order's transaction has all its
   confirmations, whoever verified it and whatever was read before. *)
PaidIsConfirmed ==
  \A o \in Order :
    status[o] = "paid" /\ reorgs = 0
    => hash[o] # NoTx /\ age[hash[o]] = RequiredConfirmations

(* Without a failure a user whose plan was paid for again is not left with
   paused rules: a verification that is still on its way will restore them. *)
BeingRestored(u) ==
  \E v \in Verifier : /\ pc[v] = "restore"
                      /\ order[job[v].order] = <<u, plan[u]>>
RestoredAfterPayment ==
  faults = 0 =>
    \A u \in User : plan[u] # NoPlan /\ resources[u] = "paused"
                    => BeingRestored(u)

(* The paid orders, the transactions that paid them and the terms granted are
   those of the ledger: no transaction is used twice, no order grants a second
   term, and what is paid stays paid, however many verifications of an order
   run at once and in whatever order they write. *)
Ledger == INSTANCE PaymentLedger WITH
  placed   <- order,
  paidWith <- [o \in Order |-> IF status[o] = "paid" THEN hash[o] ELSE NoTx]

RefinesLedger == Ledger!LedgerSpec

(* No order stays in confirmation: the reconciliation settles it even if the
   browser never asks again. *)
ConfirmingSettles ==
  \A o \in Order : status[o] = "confirming" ~> status[o] # "confirming"

(* What the page tells the payer: the system keeps waiting for the
   confirmations of a payment and activates the plan. *)
MatchingPaymentNeverFails ==
  \A o \in Order :
    status[o] = "failed" /\ age[hash[o]] > 0 => ~Matches(o, hash[o])

============================================================================
