----------------------- MODULE PaymentOrdersProofs -------------------------
(***************************************************************************)
(* Theorems about subscription payments, for any number of users, plans,   *)
(* transactions, orders, requests and server instances.                    *)
(***************************************************************************)
EXTENDS PaymentOrders, TLAPS

(* A plan is active as long as terms are left. *)
PlanRuns == \A u \in User : plan[u] = NoPlan <=> left[u] = 0

(* Orders whose transaction is known. *)
Claimed(o) == status[o] \in {"confirming", "failed", "paid"}

OrdersSound ==
  /\ \A o \in Order : status[o] = "none" <=> order[o] = NoOrder
  /\ \A o \in Order : Claimed(o) => hash[o] \in Tx
  /\ \A o, q \in Order : o # q /\ hash[o] = hash[q] => hash[o] = NoTx

(* What a verification works on was claimed, what it finalizes pays the order,
   and what it restores for was paid. *)
Working(v) == pc[v] \notin {"idle", "next"}
JobsSound ==
  /\ \A r \in Runner : \A o \in todo[r] : Claimed(o)
  /\ \A v \in Verifier : Working(v) => Claimed(job[v].order)
  /\ \A v \in Verifier :
       pc[v] \in {"head", "finalize"} => Matches(job[v].order, HashOf(v))

IInv == TypeOK /\ PlanRuns /\ OrdersSound /\ JobsSound

(* What was read of the chain is still true while nothing was reorganized. *)
ReadingsHold ==
  reorgs = 0 =>
    /\ \A v \in Verifier : pc[v] = "head" =>
         age[HashOf(v)] # 0 /\ job[v].depth <= age[HashOf(v)]
    /\ \A v \in Verifier :
         pc[v] = "finalize" => age[HashOf(v)] = RequiredConfirmations
    /\ \A o \in Order : status[o] = "paid" =>
         hash[o] \in Tx /\ age[hash[o]] = RequiredConfirmations

-----------------------------------------------------------------------------
(* The inductive invariant *)

LEMMA InitSound == Init => IInv /\ ReadingsHold /\ RestoredAfterPayment
  BY PaymentAssumption
  DEF Init, IInv, TypeOK, PlanRuns, OrdersSound, JobsSound, ReadingsHold,
      RestoredAfterPayment, Order, Verifier, Claimed, Working, Status, Step, Job,
      NoJob, Missing

(* The kinds of step the proofs distinguish: those that leave every
   verification where it is, and those of one verification. *)
UserStep ==
  \/ \E u \in User, p \in Plan, o \in Order : CreateOrder(u, p, o)
  \/ \E o \in Order : OrderLapses(o)
  \/ \E u \in User : \/ TermEnds(u) \/ PauseExpiredUserResources(u)
                     \/ RestorePausedResources(u)
VerifierStep(v) ==
  \/ Verify(v) \/ ChainUnavailable(v) \/ Crash(v)
  \/ \E o \in Order, t \in Tx : v \in Web /\ ClaimOrderTransaction(v, o, t)
  \/ v \in Runner /\ (Reconcile(v) \/ LoseLock(v))

LEMMA StepKinds ==
  ASSUME Next PROVE UserStep \/ Chain \/ \E v \in Verifier : VerifierStep(v)
  BY DEF Next, Users, UserStep, VerifierStep, Verifier

(* The verification goes on with the same order, or is over. *)
LEMMA VerdictTypes ==
  ASSUME TypeOK, NEW v \in Verifier, NEW s \in {"confirming", "failed"},
         Rule(v, s) \/ Refused(v) \/ Done(v)
  PROVE  pc' \in [Verifier -> Step] /\ job' \in [Verifier -> Job]
<1>1. NoJob \in Job
  BY PaymentAssumption DEF NoJob, Job, Missing, Order
<1>2. ASSUME NEW x \in {"confirming", "failed"}, Rule(v, x)
      PROVE  pc' \in [Verifier -> Step] /\ job' \in [Verifier -> Job]
  BY <1>2 DEF TypeOK, Rule, Goto, Step, Job
<1>3. ASSUME Done(v)
      PROVE  pc' \in [Verifier -> Step] /\ job' \in [Verifier -> Job]
  BY <1>1, <1>3 DEF TypeOK, Done, Goto, Step
<1> QED
  BY <1>2, <1>3 DEF Refused

LEMMA TypeUsers == ASSUME IInv, Users PROVE TypeOK'
<1> USE DEF orderVars, planVars, chainVars, IInv, TypeOK
<1>1. ASSUME NEW u \in User, NEW p \in Plan, NEW o \in Order, CreateOrder(u, p, o)
      PROVE  TypeOK'
  BY <1>1 DEF CreateOrder, Status
<1>2. ASSUME NEW o \in Order, OrderLapses(o) PROVE TypeOK'
  BY <1>2 DEF OrderLapses
<1>3. ASSUME NEW u \in User, TermEnds(u) PROVE TypeOK'
  <2>1. left[u] - 1 \in Nat
    BY <1>3 DEF TermEnds, PlanRuns
  <2> QED
    BY <1>3, <2>1 DEF TermEnds
<1>4. ASSUME NEW u \in User,
             PauseExpiredUserResources(u) \/ RestorePausedResources(u)
      PROVE  TypeOK'
  BY <1>4 DEF PauseExpiredUserResources, RestorePausedResources
<1> QED
  BY <1>1, <1>2, <1>3, <1>4 DEF Users

LEMMA TypeChain == ASSUME IInv, Chain PROVE TypeOK'
<1> USE DEF orderVars, planVars, chainVars, IInv, TypeOK
<1>1. ASSUME NEW S \in SUBSET Tx, NextBlock(S) PROVE TypeOK'
  <2>1. age' \in [Tx -> 0..RequiredConfirmations]
    BY <1>1, PaymentAssumption DEF NextBlock, Grown
  <2>2. inclusion' \in [Tx -> Nat]
    BY <1>1 DEF NextBlock
  <2>3. job' \in [Verifier -> Job]
    BY <1>1, PaymentAssumption DEF NextBlock, Grown, Job
  <2> QED
    BY <1>1, <2>1, <2>2, <2>3 DEF NextBlock
<1>2. ASSUME NEW k \in 1..(RequiredConfirmations - 1), Reorg(k) PROVE TypeOK'
  BY <1>2, PaymentAssumption DEF Reorg
<1> QED
  BY <1>1, <1>2 DEF Chain

LEMMA TypeVerifier == ASSUME IInv, NEW v \in Verifier, VerifierStep(v) PROVE TypeOK'
<1> USE DEF orderVars, planVars, chainVars, IInv
<1>1. CASE RPCTransactionByHash(v)
  <2>1. HashOf(v) \in Tx
    BY <1>1 DEF RPCTransactionByHash, TypeOK, JobsSound, Working, OrdersSound,
                HashOf, Job
  <2>2. PICK seen \in IF age[HashOf(v)] = 0 THEN {Missing, Pending}
                                            ELSE {inclusion[HashOf(v)]} :
          job' = [job EXCEPT ![v].tx = seen]
    BY <1>1 DEF RPCTransactionByHash
  <2>3. seen \in Int
    BY <2>1, <2>2 DEF TypeOK, Missing, Pending
  <2> QED
    BY <1>1, <2>2, <2>3 DEF RPCTransactionByHash, TypeOK, Goto, Step, Job
<1>2. CASE ReceiptMissing(v) \/ ReceiptRejected(v)
  BY <1>2, VerdictTypes DEF ReceiptMissing, ReceiptRejected, TypeOK
<1>3. CASE ReceiptAccepted(v)
  <2>1. age[HashOf(v)] \in Nat
    BY <1>3, PaymentAssumption
    DEF ReceiptAccepted, TypeOK, JobsSound, Working, OrdersSound, HashOf, Job
  <2> QED
    BY <1>3, <2>1 DEF ReceiptAccepted, TypeOK, Goto, Step, Job
<1>4. CASE LatestBlockNumber(v)
  BY <1>4, VerdictTypes DEF LatestBlockNumber, TypeOK, Goto, Step
<1>5. CASE UpdateOrderVerification(v)
  BY <1>5, VerdictTypes DEF UpdateOrderVerification, TypeOK, Status, Job
<1>6. CASE FinalizePaidOrder(v)
  <2>1. job[v].order \in Order /\ order[job[v].order] \in User \X Plan
    BY <1>6 DEF FinalizePaidOrder, TypeOK, Job, OrdersSound
  <2>2. PICK u \in User, p \in Plan : ActivateSubscription(u, p)
    BY <1>6, <2>1 DEF FinalizePaidOrder, OwnerOf, CodeOf
  <2>3. /\ plan' \in [User -> Plan \cup {NoPlan}]
        /\ left' \in [User -> Nat] /\ granted' \in [User -> Nat]
        /\ resources' \in [User -> {"running", "paused"}]
    BY <2>2 DEF ActivateSubscription, Extended, TypeOK
  <2>4. status' \in [Order -> Status] /\ pc' \in [Verifier -> Step]
    BY <1>6 DEF FinalizePaidOrder, TypeOK, Status, Goto, Step
  <2> QED
    BY <1>6, <2>3, <2>4 DEF FinalizePaidOrder, TypeOK, chainVars
<1>7. CASE FinalizedAlready(v)
  BY <1>7 DEF FinalizedAlready, TypeOK, Goto, Step
<1>8. CASE FinalizeRefused(v) \/ ChainUnavailable(v)
  BY <1>8, VerdictTypes DEF FinalizeRefused, ChainUnavailable, Fault, TypeOK
<1>9. CASE ReconcileActivePlan(v)
  BY <1>9, VerdictTypes DEF ReconcileActivePlan, TypeOK
<1>10. CASE Crash(v)
  BY <1>10, PaymentAssumption
  DEF Crash, Fault, Goto, Unlock, TypeOK, Step, Job, NoJob, Missing, Order
<1>11. ASSUME NEW o \in Order, NEW t \in Tx, ClaimOrderTransaction(v, o, t)
       PROVE  TypeOK'
  BY <1>11 DEF ClaimOrderTransaction, TypeOK, Status, Goto, Step, Job
<1>12. CASE v \in Runner /\ StartReconcile(v)
  BY <1>12 DEF StartReconcile, ListConfirmingOrders, TypeOK, Status, Goto, Step
<1>13. ASSUME NEW o \in Order, v \in Runner, ReconcileNext(v, o) PROVE TypeOK'
  BY <1>13 DEF ReconcileNext, TypeOK, Goto, Step, Job
<1>14. CASE v \in Runner /\ (EndReconcile(v) \/ LoseLock(v))
  BY <1>14 DEF EndReconcile, LoseLock, Fault, Unlock, TypeOK, Goto, Step
<1> QED
  BY <1>1, <1>2, <1>3, <1>4, <1>5, <1>6, <1>7, <1>8, <1>9, <1>10, <1>11, <1>12,
     <1>13, <1>14 DEF VerifierStep, Verify, Reconcile

-----------------------------------------------------------------------------
(* Orders, jobs and plans *)

(* The next state keeps an order's owner and plan, the transaction it claimed,
   and its payment. *)
OrdersKept ==
  \A o \in Order :
    /\ order[o] # NoOrder => order'[o] = order[o]
    /\ Claimed(o) => Claimed(o)' /\ hash'[o] = hash[o]
    /\ status[o] = "paid" => status'[o] = "paid"

LEMMA StepKeepsOrders == ASSUME IInv, Next PROVE OrdersKept
<1> USE DEF orderVars, OrdersKept, Claimed
<1>1. CASE UserStep
  <2>1. ASSUME NEW u \in User, NEW p \in Plan, NEW o \in Order, CreateOrder(u, p, o)
        PROVE  OrdersKept
    BY <2>1 DEF CreateOrder, OrdersSound, IInv, TypeOK
  <2> QED
    BY <1>1, <2>1 DEF UserStep, OrderLapses, TermEnds, PauseExpiredUserResources,
                      RestorePausedResources
<1>2. CASE Chain
  BY <1>2 DEF Chain, NextBlock, Reorg
<1>3. ASSUME NEW v \in Verifier, VerifierStep(v) PROVE OrdersKept
  <2>1. CASE UpdateOrderVerification(v)
    BY <2>1 DEF UpdateOrderVerification, Writable, IInv, TypeOK, Job
  <2>2. CASE FinalizePaidOrder(v)
    BY <2>2 DEF FinalizePaidOrder, IInv, TypeOK
  <2>3. ASSUME NEW o \in Order, NEW t \in Tx, ClaimOrderTransaction(v, o, t)
        PROVE  OrdersKept
    BY <2>3, PaymentAssumption
    DEF ClaimOrderTransaction, IInv, TypeOK, OrdersSound
  <2>4. CASE v \in Runner /\ StartReconcile(v)
    BY <2>4 DEF StartReconcile, IInv, TypeOK
  <2> QED
    BY <1>3, <2>1, <2>2, <2>3, <2>4
    DEF VerifierStep, Verify, Reconcile, RPCTransactionByHash, ReceiptMissing,
        ReceiptRejected, ReceiptAccepted, LatestBlockNumber, ChainUnavailable,
        FinalizedAlready, FinalizeRefused, ReconcileActivePlan, Crash,
        ReconcileNext, EndReconcile, LoseLock
<1> QED
  BY <1>1, <1>2, <1>3, StepKinds

LEMMA StepKeepsOrdersSound == ASSUME IInv, Next PROVE OrdersSound'
<1> USE DEF orderVars, OrdersSound, Claimed
<1>1. CASE UserStep
  <2>1. ASSUME NEW u \in User, NEW p \in Plan, NEW o \in Order, CreateOrder(u, p, o)
        PROVE  OrdersSound'
    BY <2>1, PaymentAssumption DEF CreateOrder, IInv, TypeOK
  <2> QED
    BY <1>1, <2>1 DEF UserStep, OrderLapses, TermEnds, PauseExpiredUserResources,
                      RestorePausedResources, IInv
<1>2. CASE Chain
  BY <1>2 DEF Chain, NextBlock, Reorg, IInv
<1>3. ASSUME NEW v \in Verifier, VerifierStep(v) PROVE OrdersSound'
  <2>1. CASE UpdateOrderVerification(v)
    <3>1. job[v].order \in Order /\ Claimed(job[v].order)
          /\ job[v].verdict \in {"confirming", "failed"}
      BY <2>1 DEF UpdateOrderVerification, IInv, TypeOK, Job, JobsSound, Working
    <3> QED
      BY <2>1, <3>1 DEF UpdateOrderVerification, IInv, TypeOK
  <2>2. CASE FinalizePaidOrder(v)
    BY <2>2 DEF FinalizePaidOrder, IInv, TypeOK
  <2>3. ASSUME NEW o \in Order, NEW t \in Tx, ClaimOrderTransaction(v, o, t)
        PROVE  OrdersSound'
    BY <2>3, PaymentAssumption DEF ClaimOrderTransaction, HashFree, IInv, TypeOK
  <2>4. CASE v \in Runner /\ StartReconcile(v)
    BY <2>4 DEF StartReconcile, IInv, TypeOK
  <2> QED
    BY <1>3, <2>1, <2>2, <2>3, <2>4
    DEF VerifierStep, Verify, Reconcile, RPCTransactionByHash, ReceiptMissing,
        ReceiptRejected, ReceiptAccepted, LatestBlockNumber, ChainUnavailable,
        FinalizedAlready, FinalizeRefused, ReconcileActivePlan, Crash,
        ReconcileNext, EndReconcile, LoseLock, IInv
<1> QED
  BY <1>1, <1>2, <1>3, StepKinds

LEMMA StepKeepsPlanRuns == ASSUME IInv, Next PROVE PlanRuns'
<1> USE DEF planVars, PlanRuns, IInv, TypeOK
<1>1. CASE UserStep
  BY <1>1, PaymentAssumption
  DEF UserStep, CreateOrder, OrderLapses, TermEnds, PauseExpiredUserResources,
      RestorePausedResources
<1>2. CASE Chain
  BY <1>2 DEF Chain, NextBlock, Reorg
<1>3. ASSUME NEW v \in Verifier, VerifierStep(v) PROVE PlanRuns'
  <2>1. CASE FinalizePaidOrder(v)
    <3>1. job[v].order \in Order /\ order[job[v].order] \in User \X Plan
      BY <2>1 DEF FinalizePaidOrder, Job, OrdersSound
    <3> QED
      BY <2>1, <3>1, PaymentAssumption
      DEF FinalizePaidOrder, ActivateSubscription, Extended, OwnerOf, CodeOf
  <2> QED
    BY <1>3, <2>1
    DEF VerifierStep, Verify, Reconcile, RPCTransactionByHash, ReceiptMissing,
        ReceiptRejected, ReceiptAccepted, LatestBlockNumber, ChainUnavailable,
        UpdateOrderVerification, FinalizedAlready, FinalizeRefused,
        ReconcileActivePlan, Crash, ClaimOrderTransaction, StartReconcile,
        ReconcileNext, EndReconcile, LoseLock
<1> QED
  BY <1>1, <1>2, <1>3, StepKinds

(* A verification moves no other one. *)
LEMMA OthersStay ==
  ASSUME IInv, NEW v \in Verifier, VerifierStep(v), NEW w \in Verifier, w # v
  PROVE  /\ pc'[w] = pc[w] /\ job'[w] = job[w]
         /\ w \in Runner => todo'[w] = todo[w]
<1> USE DEF IInv, TypeOK, Rule, Refused, Done, Goto
<1>1. CASE Verify(v) \/ ChainUnavailable(v)
  BY <1>1
  DEF Verify, RPCTransactionByHash, ReceiptMissing, ReceiptRejected,
      ReceiptAccepted, LatestBlockNumber, ChainUnavailable,
      UpdateOrderVerification, FinalizePaidOrder, FinalizedAlready,
      FinalizeRefused, ReconcileActivePlan
<1>2. CASE Crash(v)
  BY <1>2 DEF Crash
<1>3. ASSUME NEW o \in Order, NEW t \in Tx, ClaimOrderTransaction(v, o, t)
      PROVE  /\ pc'[w] = pc[w] /\ job'[w] = job[w]
             /\ w \in Runner => todo'[w] = todo[w]
  BY <1>3 DEF ClaimOrderTransaction
<1>4. CASE v \in Runner /\ (StartReconcile(v) \/ EndReconcile(v) \/ LoseLock(v))
  BY <1>4 DEF StartReconcile, EndReconcile, LoseLock
<1>5. ASSUME NEW o \in Order, v \in Runner, ReconcileNext(v, o)
      PROVE  /\ pc'[w] = pc[w] /\ job'[w] = job[w]
             /\ w \in Runner => todo'[w] = todo[w]
  BY <1>5 DEF ReconcileNext
<1> QED
  BY <1>1, <1>2, <1>3, <1>4, <1>5 DEF VerifierStep, Reconcile

(* What JobsSound says of one verification. *)
JobSound(v) ==
  /\ v \in Runner => \A o \in todo[v] : Claimed(o)
  /\ Working(v) => Claimed(job[v].order)
  /\ pc[v] \in {"head", "finalize"} => Matches(job[v].order, HashOf(v))

LEMMA JobSoundForAll ==
  /\ JobsSound <=> \A v \in Verifier : JobSound(v)
  /\ JobsSound' <=> \A v \in Verifier : JobSound(v)'
  BY DEF JobsSound, JobSound, Verifier

(* A verification that is left alone stays sound. *)
LEMMA StillSound ==
  ASSUME IInv, OrdersKept, NEW w \in Verifier, pc'[w] = pc[w],
         job'[w].order = job[w].order, w \in Runner => todo'[w] = todo[w]
  PROVE  JobSound(w)'
<1>1. JobSound(w) /\ (w \in Runner => todo[w] \in SUBSET Order)
  BY JobSoundForAll DEF IInv, TypeOK
<1>2. job[w].order \in Order
  BY DEF IInv, TypeOK, Job
<1>3. Claimed(job[w].order) => order[job[w].order] # NoOrder
  BY <1>2 DEF IInv, OrdersSound, Claimed
<1> QED
  BY <1>1, <1>2, <1>3
  DEF OrdersKept, JobSound, Working, HashOf, Matches

LEMMA StepKeepsJobs == ASSUME IInv, Next PROVE JobsSound'
<1>1. OrdersKept
  BY StepKeepsOrders
<1>2. CASE UserStep
  <2>1. pc' = pc /\ job' = job /\ todo' = todo
    BY <1>2 DEF UserStep, CreateOrder, OrderLapses, TermEnds,
                PauseExpiredUserResources, RestorePausedResources
  <2> QED
    BY <1>1, <2>1, StillSound, JobSoundForAll
<1>3. CASE Chain
  <2>1. ASSUME NEW w \in Verifier
        PROVE  pc'[w] = pc[w] /\ todo' = todo /\ job'[w].order = job[w].order
    BY <1>3 DEF Chain, NextBlock, Reorg, IInv, TypeOK, Job
  <2> QED
    BY <1>1, <2>1, StillSound, JobSoundForAll
<1>4. ASSUME NEW v \in Verifier, VerifierStep(v) PROVE JobsSound'
  <2>1. \A w \in Verifier \ {v} : JobSound(w)'
    BY <1>1, <1>4, OthersStay, StillSound
  <2>2. JobSound(v)'
    <3>0. /\ JobSound(v) /\ job[v].order \in Order
          /\ v \in Runner => todo[v] \in SUBSET Order
      BY JobSoundForAll DEF IInv, TypeOK, Job
    <3>1. /\ \A o \in Order : Claimed(o) => Claimed(o)' /\ hash'[o] = hash[o]
          /\ \A o \in Order : Claimed(o) => order'[o] = order[o]
      BY <1>1 DEF OrdersKept, IInv, OrdersSound, Claimed
    <3> USE DEF Rule, Refused, Done, Goto, JobSound, Working
    <3>2. CASE RPCTransactionByHash(v) \/ ReceiptMissing(v) \/ ReceiptRejected(v)
      <4>1. todo' = todo /\ pc[v] \in {"tx", "receipt"} /\ pc'[v] \in {"receipt", "write"}
            /\ job'[v].order = job[v].order
        BY <3>2 DEF RPCTransactionByHash, ReceiptMissing, ReceiptRejected, IInv,
                    TypeOK, Job
      <4> QED
        BY <3>0, <3>1, <4>1
    <3>3. CASE ReceiptAccepted(v)
      <4>1. /\ todo' = todo /\ pc[v] = "receipt" /\ pc'[v] = "head"
            /\ job'[v].order = job[v].order /\ Matches(job[v].order, HashOf(v))
        BY <3>3 DEF ReceiptAccepted, ReceiptValid, IInv, TypeOK, Job
      <4> QED
        BY <3>0, <3>1, <4>1 DEF Matches, HashOf
    <3>4. CASE LatestBlockNumber(v)
      <4>1. /\ todo' = todo /\ pc[v] = "head" /\ pc'[v] \in {"finalize", "write"}
            /\ job'[v].order = job[v].order
        BY <3>4 DEF LatestBlockNumber, IInv, TypeOK, Job
      <4> QED
        BY <3>0, <3>1, <4>1 DEF Matches, HashOf
    <3>5. CASE UpdateOrderVerification(v) \/ ReconcileActivePlan(v)
      BY <3>0, <3>1, <3>5
      DEF UpdateOrderVerification, ReconcileActivePlan, IInv, TypeOK
    <3>6. CASE FinalizePaidOrder(v) \/ FinalizedAlready(v)
      BY <3>0, <3>1, <3>6 DEF FinalizePaidOrder, FinalizedAlready, IInv, TypeOK
    <3>7. CASE FinalizeRefused(v) \/ ChainUnavailable(v)
      <4>1. /\ todo' = todo /\ Working(v) /\ pc'[v] \in {"write", "next", "idle"}
            /\ pc'[v] = "write" => job'[v].order = job[v].order
        BY <3>7 DEF FinalizeRefused, ChainUnavailable, IInv, TypeOK, Job
      <4> QED
        BY <3>0, <3>1, <4>1
    <3>8. CASE Crash(v)
      BY <3>8 DEF Crash, IInv, TypeOK
    <3>9. ASSUME NEW o \in Order, NEW t \in Tx, v \in Web,
                 ClaimOrderTransaction(v, o, t)
          PROVE  JobSound(v)'
      <4>1. /\ todo' = todo /\ pc'[v] = "tx" /\ job'[v].order = o
            /\ status'[o] = "confirming"
        BY <3>9 DEF ClaimOrderTransaction, IInv, TypeOK, Job
      <4> QED
        BY <3>0, <3>1, <4>1 DEF Claimed
    <3>10. CASE v \in Runner /\ StartReconcile(v)
      <4>1. /\ pc'[v] = "next" /\ todo'[v] \in SUBSET Order
            /\ \A o \in todo'[v] : Claimed(o)
        BY <3>10 DEF StartReconcile, ListConfirmingOrders, Claimed, IInv, TypeOK
      <4> QED
        BY <3>1, <4>1
    <3>11. ASSUME NEW o \in Order, v \in Runner, ReconcileNext(v, o)
           PROVE  JobSound(v)'
      <4>1. /\ pc'[v] = "tx" /\ job'[v].order = o /\ o \in todo[v]
            /\ todo'[v] \in SUBSET todo[v]
        BY <3>11 DEF ReconcileNext, IInv, TypeOK, Job
      <4> QED
        BY <3>0, <3>1, <3>11, <4>1
    <3>12. CASE v \in Runner /\ EndReconcile(v)
      BY <3>0, <3>1, <3>12 DEF EndReconcile, IInv, TypeOK
    <3>13. CASE v \in Runner /\ LoseLock(v)
      BY <1>1, <3>13, StillSound DEF LoseLock
    <3> QED
      BY <1>4, <3>2, <3>3, <3>4, <3>5, <3>6, <3>7, <3>8, <3>9, <3>10, <3>11,
         <3>12, <3>13 DEF VerifierStep, Verify, Reconcile
  <2> QED
    BY <2>1, <2>2, JobSoundForAll
<1> QED
  BY <1>2, <1>3, <1>4, StepKinds

LEMMA StepKeepsIInv == ASSUME IInv, [Next]_vars PROVE IInv'
<1>1. CASE Next
  <2>1. TypeOK'
    BY <1>1, TypeUsers, TypeChain, TypeVerifier, StepKinds DEF UserStep, Users
  <2> QED
    BY <1>1, <2>1, StepKeepsPlanRuns, StepKeepsOrdersSound, StepKeepsJobs DEF IInv
<1>2. CASE UNCHANGED vars
  BY <1>2
  DEF vars, orderVars, planVars, chainVars, IInv, TypeOK, PlanRuns, OrdersSound,
      JobsSound, Claimed, Working, Matches, HashOf
<1> QED
  BY <1>1, <1>2

(* Every reachable state is well typed: no term is spent twice, no count of
   confirmations leaves its range, and what a verification was told of its
   transaction is one of the answers the code distinguishes. *)
THEOREM TypeCorrect == Spec => []TypeOK
<1>1. Init => IInv
  BY InitSound
<1>2. IInv /\ [Next]_vars => IInv'
  BY StepKeepsIInv
<1>3. IInv => TypeOK
  BY DEF IInv
<1> QED
  BY <1>1, <1>2, <1>3, PTL DEF Spec

-----------------------------------------------------------------------------
(* Confirmations *)

ReadingHolds(v) ==
  /\ pc[v] = "head" => age[HashOf(v)] # 0 /\ job[v].depth <= age[HashOf(v)]
  /\ pc[v] = "finalize" => age[HashOf(v)] = RequiredConfirmations
PaidHolds ==
  \A o \in Order : status[o] = "paid" =>
    hash[o] \in Tx /\ age[hash[o]] = RequiredConfirmations

LEMMA ReadingsForAll ==
  /\ ReadingsHold <=>
       (reorgs = 0 => PaidHolds /\ \A v \in Verifier : ReadingHolds(v))
  /\ ReadingsHold' <=>
       (reorgs' = 0 => PaidHolds' /\ \A v \in Verifier : ReadingHolds(v)')
  BY DEF ReadingsHold, ReadingHolds, PaidHolds

(* A verification whose transaction did not lose a confirmation keeps what it
   read. *)
LEMMA StillHolds ==
  ASSUME IInv, OrdersKept, NEW w \in Verifier, ReadingHolds(w),
         pc'[w] = pc[w], job'[w] = job[w], age' = age
  PROVE  ReadingHolds(w)'
<1>1. job[w].order \in Order
  BY DEF IInv, TypeOK, Job
<1>2. Working(w) => hash'[job[w].order] = hash[job[w].order]
  BY <1>1 DEF OrdersKept, IInv, JobsSound
<1> QED
  BY <1>1, <1>2 DEF ReadingHolds, HashOf, Working

LEMMA StepKeepsReadings == ASSUME IInv, ReadingsHold, Next PROVE ReadingsHold'
<1> SUFFICES ASSUME reorgs' = 0
             PROVE  PaidHolds' /\ \A v \in Verifier : ReadingHolds(v)'
  BY ReadingsForAll
<1>0. OrdersKept
  BY StepKeepsOrders
<1>1. CASE UserStep
  <2>1. pc' = pc /\ job' = job /\ age' = age /\ hash' = hash /\ reorgs' = reorgs
    BY <1>1 DEF UserStep, CreateOrder, OrderLapses, TermEnds,
                PauseExpiredUserResources, RestorePausedResources, orderVars,
                chainVars
  <2>2. \A o \in Order : status'[o] = "paid" => status[o] = "paid"
    BY <1>1 DEF UserStep, CreateOrder, OrderLapses, TermEnds,
                PauseExpiredUserResources, RestorePausedResources, orderVars,
                IInv, TypeOK
  <2> QED
    BY <1>0, <2>1, <2>2, StillHolds, ReadingsForAll DEF PaidHolds
<1>2. ASSUME NEW S \in SUBSET Tx, NextBlock(S)
      PROVE  PaidHolds' /\ \A v \in Verifier : ReadingHolds(v)'
  <2>1. /\ PaidHolds /\ \A v \in Verifier : ReadingHolds(v)
        /\ status' = status /\ hash' = hash /\ pc' = pc
    BY <1>2, ReadingsForAll DEF NextBlock, orderVars
  <2>2. ASSUME NEW t \in Tx
        PROVE  /\ age[t] \in 0..RequiredConfirmations
               /\ age[t] # 0 => age'[t] = Grown(age[t]) /\ age'[t] # 0
               /\ age[t] = RequiredConfirmations => age'[t] = RequiredConfirmations
    BY <1>2, PaymentAssumption DEF NextBlock, Grown, IInv, TypeOK
  <2>3. PaidHolds'
    BY <2>1, <2>2 DEF PaidHolds
  <2>4. ASSUME NEW v \in Verifier PROVE ReadingHolds(v)'
    <3>1. /\ job[v] \in Job /\ job'[v].order = job[v].order
          /\ pc[v] = "head" => job'[v].depth = Grown(job[v].depth)
      BY <1>2 DEF NextBlock, IInv, TypeOK, Job
    <3>2. HashOf(v)' = HashOf(v)
      BY <2>1, <3>1 DEF HashOf
    <3>3. pc[v] \in {"head", "finalize"} => HashOf(v) \in Tx
      BY <3>1 DEF IInv, JobsSound, Working, OrdersSound, HashOf, Job
    <3>4. pc[v] = "head" =>
            Grown(job[v].depth) <= Grown(age[HashOf(v)])
      BY <2>1, <2>2, <3>1, <3>3, PaymentAssumption DEF ReadingHolds, Grown, Job
    <3> QED
      BY <2>1, <2>2, <3>1, <3>2, <3>3, <3>4 DEF ReadingHolds
  <2> QED
    BY <2>3, <2>4
<1>3. ASSUME NEW k \in 1..(RequiredConfirmations - 1), Reorg(k)
      PROVE  PaidHolds' /\ \A v \in Verifier : ReadingHolds(v)'
  BY <1>3 DEF Reorg, IInv, TypeOK
<1>4. ASSUME NEW v \in Verifier, VerifierStep(v)
      PROVE  PaidHolds' /\ \A w \in Verifier : ReadingHolds(w)'
  <2>1. age' = age /\ reorgs' = reorgs
    BY <1>4 DEF VerifierStep, Verify, Reconcile, RPCTransactionByHash,
        ReceiptMissing, ReceiptRejected, ReceiptAccepted, LatestBlockNumber,
        ChainUnavailable, UpdateOrderVerification, FinalizePaidOrder,
        FinalizedAlready, FinalizeRefused, ReconcileActivePlan, Crash,
        ClaimOrderTransaction, StartReconcile, ReconcileNext, EndReconcile,
        LoseLock, chainVars
  <2>2. PaidHolds /\ \A w \in Verifier : ReadingHolds(w)
    BY <2>1, ReadingsForAll
  <2>3. \A w \in Verifier \ {v} : ReadingHolds(w)'
    BY <1>0, <1>4, <2>1, <2>2, OthersStay, StillHolds
  <2>4. job[v].order \in Order /\ job[v] \in Job
    BY DEF IInv, TypeOK, Job
  <2>5. CASE ReceiptAccepted(v)
    <3>1. /\ pc'[v] = "head" /\ job'[v].depth = age[HashOf(v)]
          /\ job'[v].order = job[v].order /\ hash' = hash /\ status' = status
          /\ age[HashOf(v)] # 0 /\ HashOf(v) \in Tx
      BY <2>4, <2>5
      DEF ReceiptAccepted, HasReceipt, Goto, orderVars, IInv, TypeOK, Job,
          JobsSound, Working, OrdersSound, HashOf
    <3>2. ReadingHolds(v)'
      BY <2>1, <3>1 DEF ReadingHolds, HashOf, IInv, TypeOK
    <3> QED
      BY <2>1, <2>2, <2>3, <3>1, <3>2 DEF PaidHolds
  <2>6. CASE LatestBlockNumber(v)
    <3>1. /\ pc[v] = "head" /\ job'[v].order = job[v].order
          /\ pc'[v] = "write" \/ (pc'[v] = "finalize" /\ Enough(job[v].depth))
          /\ hash' = hash /\ status' = status
      BY <2>4, <2>6 DEF LatestBlockNumber, Rule, Goto, orderVars, IInv, TypeOK, Job
    <3>2. HashOf(v) \in Tx
      BY <2>4, <3>1 DEF IInv, JobsSound, Working, OrdersSound, HashOf
    <3>3. ReadingHolds(v)'
      <4>1. HashOf(v)' = HashOf(v)
        BY <3>1 DEF HashOf
      <4>2. /\ age[HashOf(v)] \in 0..RequiredConfirmations /\ job[v].depth \in Nat
            /\ job[v].depth <= age[HashOf(v)]
        BY <2>2, <2>4, <3>1, <3>2 DEF ReadingHolds, IInv, TypeOK, Job
      <4>3. Enough(job[v].depth) => age[HashOf(v)] = RequiredConfirmations
        BY <4>2, PaymentAssumption DEF Enough
      <4> QED
        BY <2>1, <3>1, <4>1, <4>3 DEF ReadingHolds
    <3> QED
      BY <2>1, <2>2, <2>3, <3>1, <3>3 DEF PaidHolds
  <2>7. CASE FinalizePaidOrder(v)
    <3>1. /\ pc[v] = "finalize" /\ pc'[v] = "restore" /\ hash' = hash
          /\ status' = [status EXCEPT ![job[v].order] = "paid"]
      BY <2>7 DEF FinalizePaidOrder, Goto, IInv, TypeOK
    <3>2. HashOf(v) \in Tx /\ age[HashOf(v)] = RequiredConfirmations
      BY <2>2, <2>4, <3>1
      DEF ReadingHolds, IInv, JobsSound, Working, OrdersSound, HashOf
    <3>3. PaidHolds'
      BY <2>1, <2>2, <2>4, <3>1, <3>2 DEF PaidHolds, HashOf, IInv, TypeOK
    <3> QED
      BY <2>3, <3>1, <3>3 DEF ReadingHolds
  <2>8. ASSUME ~ReceiptAccepted(v), ~LatestBlockNumber(v), ~FinalizePaidOrder(v)
        PROVE  PaidHolds' /\ ReadingHolds(v)'
    <3>1. /\ \A o \in Order : status'[o] = "paid" => status[o] = "paid"
          /\ pc'[v] \notin {"head", "finalize"} \/ (pc'[v] = pc[v] /\ job'[v] = job[v])
      BY <1>4, <2>4, <2>8
      DEF VerifierStep, Verify, Reconcile, RPCTransactionByHash, ReceiptMissing,
          ReceiptRejected, ChainUnavailable, UpdateOrderVerification,
          FinalizedAlready, FinalizeRefused, ReconcileActivePlan, Crash,
          ClaimOrderTransaction, StartReconcile, ReconcileNext, EndReconcile,
          LoseLock, Rule, Refused, Done, Goto, orderVars, IInv, TypeOK, Job
    <3>2. ReadingHolds(v)'
      <4>1. CASE pc'[v] \notin {"head", "finalize"}
        BY <4>1 DEF ReadingHolds
      <4>2. CASE pc'[v] = pc[v] /\ job'[v] = job[v]
        BY <1>0, <2>1, <2>2, <4>2, StillHolds
      <4> QED
        BY <3>1, <4>1, <4>2
    <3>3. PaidHolds'
      BY <1>0, <2>1, <2>2, <3>1 DEF PaidHolds, OrdersKept, Claimed
    <3> QED
      BY <3>2, <3>3
  <2> QED
    BY <2>3, <2>5, <2>6, <2>7, <2>8
<1> QED
  BY <1>1, <1>2, <1>3, <1>4, StepKinds DEF Chain

(* While nothing is reorganized, an order is paid only by a transaction that
   has all its confirmations: three readings taken at different times, by any
   number of verifications at once, never add up to too early a payment. *)
THEOREM PaidIsConfirmedCorrect == Spec => []PaidIsConfirmed
<1>1. Init => IInv /\ ReadingsHold
  BY InitSound
<1>2. IInv /\ ReadingsHold /\ [Next]_vars => IInv' /\ ReadingsHold'
  <2> SUFFICES ASSUME IInv, ReadingsHold, [Next]_vars PROVE ReadingsHold'
    BY StepKeepsIInv
  <2>1. CASE UNCHANGED vars
    BY <2>1 DEF vars, orderVars, chainVars, ReadingsHold, HashOf
  <2>2. CASE Next
    BY <2>2, StepKeepsReadings
  <2> QED
    BY <2>1, <2>2
<1>3. IInv /\ ReadingsHold => PaidIsConfirmed
  BY PaymentAssumption DEF ReadingsHold, PaidIsConfirmed
<1> QED
  BY <1>1, <1>2, <1>3, PTL DEF Spec

-----------------------------------------------------------------------------
(* Restoring what the last plan's end paused *)

LEMMA StepKeepsRestored ==
  ASSUME IInv, RestoredAfterPayment, Next PROVE RestoredAfterPayment'
<1> SUFFICES ASSUME faults' = 0, NEW u \in User, plan'[u] # NoPlan,
                    resources'[u] = "paused"
             PROVE  BeingRestored(u)'
  BY DEF RestoredAfterPayment
<1>0. OrdersKept
  BY StepKeepsOrders
<1>1. ASSUME NEW v \in Verifier, pc[v] = "restore", pc'[v] = "restore",
             job'[v].order = job[v].order, order[job[v].order] = <<u, plan[u]>>,
             plan'[u] = plan[u]
      PROVE  BeingRestored(u)'
  <2>1. job[v].order \in Order /\ order[job[v].order] # NoOrder
    BY <1>1 DEF IInv, TypeOK, Job, JobsSound, Working, Claimed, OrdersSound
  <2>2. order'[job[v].order] = order[job[v].order]
    BY <1>0, <2>1 DEF OrdersKept
  <2> QED
    BY <1>1, <2>2 DEF BeingRestored
<1>2. CASE UserStep
  <2>1. /\ faults = 0 /\ plan'[u] = plan[u] /\ pc' = pc /\ job' = job
        /\ resources[u] = "paused"
    BY <1>2 DEF UserStep, CreateOrder, OrderLapses, TermEnds,
                PauseExpiredUserResources, RestorePausedResources, planVars,
                IInv, TypeOK
  <2>2. BeingRestored(u)
    BY <2>1 DEF RestoredAfterPayment
  <2> QED
    BY <1>1, <2>1, <2>2 DEF BeingRestored
<1>3. CASE Chain
  <2>1. /\ faults = 0 /\ plan' = plan /\ pc' = pc /\ resources' = resources
        /\ \A v \in Verifier : job'[v].order = job[v].order
    BY <1>3 DEF Chain, NextBlock, Reorg, planVars, IInv, TypeOK, Job
  <2>2. BeingRestored(u)
    BY <2>1 DEF RestoredAfterPayment
  <2> QED
    BY <1>1, <2>1, <2>2 DEF BeingRestored
<1>4. ASSUME NEW v \in Verifier, VerifierStep(v) PROVE BeingRestored(u)'
  <2>0. job[v].order \in Order /\ job[v] \in Job
    BY DEF IInv, TypeOK, Job
  <2>1. CASE FinalizePaidOrder(v)
    <3> DEFINE o == job[v].order
    <3>1. /\ faults = 0 /\ pc[v] = "finalize" /\ pc'[v] = "restore" /\ job' = job
          /\ order' = order /\ ActivateSubscription(OwnerOf(o), CodeOf(o))
      BY <2>1 DEF FinalizePaidOrder, Goto, IInv, TypeOK
    <3>2. PICK w \in User, p \in Plan : order[o] = <<w, p>>
      BY <2>0, <2>1 DEF FinalizePaidOrder, IInv, TypeOK, OrdersSound
    <3>3. OwnerOf(o) = w /\ CodeOf(o) = p
      BY <3>2 DEF OwnerOf, CodeOf
    <3>4. CASE w = u
      <4>1. plan'[u] = p
        BY <3>1, <3>3, <3>4 DEF ActivateSubscription, IInv, TypeOK
      <4> QED
        BY <3>1, <3>2, <3>4, <4>1 DEF BeingRestored
    <3>5. CASE w # u
      <4>1. plan'[u] = plan[u] /\ resources'[u] = resources[u]
        BY <3>1, <3>3, <3>5 DEF ActivateSubscription, IInv, TypeOK
      <4>2. PICK x \in Verifier : pc[x] = "restore"
                                 /\ order[job[x].order] = <<u, plan[u]>>
        BY <3>1, <4>1 DEF RestoredAfterPayment, BeingRestored
      <4>3. pc'[x] = "restore"
        BY <1>4, <3>1, <4>2, OthersStay
      <4> QED
        BY <1>1, <3>1, <4>1, <4>2, <4>3
    <3> QED
      BY <3>4, <3>5
  <2>2. CASE ReconcileActivePlan(v)
    <3>1. /\ faults = 0 /\ plan' = plan /\ pc[v] = "restore"
          /\ resources[u] = "paused"
      BY <2>2 DEF ReconcileActivePlan, IInv, TypeOK
    <3>2. PICK x \in Verifier : pc[x] = "restore"
                               /\ order[job[x].order] = <<u, plan[u]>>
      BY <3>1 DEF RestoredAfterPayment, BeingRestored
    <3>3. x # v
      <4> SUFFICES ASSUME x = v PROVE FALSE
        OBVIOUS
      <4>1. resources'[u] = "running"
        BY <2>2, <3>2
        DEF ReconcileActivePlan, Restorable, OwnerOf, CodeOf, IInv, TypeOK
      <4> QED
        BY <4>1
    <3>4. pc'[x] = "restore" /\ job'[x] = job[x]
      BY <1>4, <3>2, <3>3, OthersStay
    <3> QED
      BY <1>1, <3>1, <3>2, <3>4
  <2>3. ASSUME ~FinalizePaidOrder(v), ~ReconcileActivePlan(v)
        PROVE  BeingRestored(u)'
    <3>1. /\ faults = 0 /\ plan' = plan /\ resources' = resources
          /\ pc[v] = "restore" => pc'[v] = "restore" /\ job'[v] = job[v]
      BY <1>4, <2>3
      DEF VerifierStep, Verify, Reconcile, RPCTransactionByHash, ReceiptMissing,
          ReceiptRejected, ReceiptAccepted, LatestBlockNumber, ChainUnavailable,
          UpdateOrderVerification, FinalizedAlready, FinalizeRefused, Crash,
          Fault, ClaimOrderTransaction, StartReconcile, ReconcileNext,
          EndReconcile, LoseLock, planVars, IInv, TypeOK
    <3>2. PICK x \in Verifier : pc[x] = "restore"
                               /\ order[job[x].order] = <<u, plan[u]>>
      BY <3>1 DEF RestoredAfterPayment, BeingRestored
    <3>3. pc'[x] = "restore" /\ job'[x] = job[x]
      BY <1>4, <3>1, <3>2, OthersStay
    <3> QED
      BY <1>1, <3>1, <3>2, <3>3
  <2> QED
    BY <2>1, <2>2, <2>3
<1> QED
  BY <1>2, <1>3, <1>4, StepKinds

(* Without a failure nobody who paid is left with paused rules: as long as they
   are paused, a verification is about to restore them, also when terms end and
   other orders of the user are verified in between. *)
THEOREM RestoredAfterPaymentCorrect == Spec => []RestoredAfterPayment
<1>1. Init => IInv /\ RestoredAfterPayment
  BY InitSound
<1>2. IInv /\ RestoredAfterPayment /\ [Next]_vars => IInv' /\ RestoredAfterPayment'
  <2> SUFFICES ASSUME IInv, RestoredAfterPayment, [Next]_vars
               PROVE  RestoredAfterPayment'
    BY StepKeepsIInv
  <2>1. CASE UNCHANGED vars
    BY <2>1 DEF vars, orderVars, planVars, RestoredAfterPayment, BeingRestored
  <2>2. CASE Next
    BY <2>2, StepKeepsRestored
  <2> QED
    BY <2>1, <2>2
<1> QED
  BY <1>1, <1>2, PTL DEF Spec

-----------------------------------------------------------------------------
(* Refinement *)

PaidWith == [o \in Order |-> IF status[o] = "paid" THEN hash[o] ELSE NoTx]

(* A step that pays for nothing and creates nothing is a stutter. *)
LEMMA StepIsLedgerStep ==
  ASSUME IInv, [Next]_vars
  PROVE  [Ledger!LedgerNext]_<<order, PaidWith, granted>>
<1> DEFINE Same == UNCHANGED <<order, PaidWith, granted>>
<1>0. ASSUME order' = order, granted' = granted, hash' = hash, status' = status
      PROVE  Same
  BY <1>0 DEF PaidWith
<1>1. CASE UNCHANGED vars
  BY <1>0, <1>1 DEF vars, orderVars, planVars
<1>2. ASSUME NEW u \in User, NEW p \in Plan, NEW o \in Order, CreateOrder(u, p, o)
      PROVE  Ledger!LedgerNext
  <2>1. Ledger!PlaceOrder(o, u, p)
    BY <1>2
    DEF CreateOrder, planVars, PaidWith, Ledger!PlaceOrder, IInv, OrdersSound, TypeOK
  <2> QED
    BY <2>1 DEF Ledger!LedgerNext
<1>3. CASE UserStep
  <2>1. ASSUME ~(\E u \in User, p \in Plan, o \in Order : CreateOrder(u, p, o))
        PROVE  Same
    BY <1>0, <1>3, <2>1
    DEF UserStep, OrderLapses, TermEnds, PauseExpiredUserResources,
        RestorePausedResources, orderVars, planVars
  <2> QED
    BY <1>2, <2>1
<1>4. CASE Chain
  BY <1>0, <1>4 DEF Chain, NextBlock, Reorg, orderVars, planVars
<1>5. ASSUME NEW o \in Order, NEW u \in User, NEW p \in Plan, NEW t \in Tx,
             Ledger!Pay(o, u, p, t)
      PROVE  Ledger!LedgerNext
  BY <1>5 DEF Ledger!LedgerNext
<1>6. ASSUME NEW v \in Verifier, VerifierStep(v)
      PROVE  Ledger!LedgerNext \/ Same
  <2>1. job[v].order \in Order /\ job[v].verdict \in {"confirming", "failed"}
    BY DEF IInv, TypeOK, Job
  <2>2. CASE FinalizePaidOrder(v)
    <3> DEFINE o == job[v].order
    <3>1. PICK u \in User, p \in Plan : order[o] = <<u, p>>
      BY <2>1, <2>2 DEF FinalizePaidOrder, IInv, TypeOK, OrdersSound
    <3>2. hash[o] \in Tx /\ Pays[hash[o]] = <<u, p>>
      BY <2>1, <2>2, <3>1
      DEF FinalizePaidOrder, IInv, JobsSound, OrdersSound, Claimed, Matches, HashOf
    <3>3. OwnerOf(o) = u /\ CodeOf(o) = p
      BY <3>1 DEF OwnerOf, CodeOf
    <3>4. PICK t \in Tx : t = hash[o]
      BY <3>2
    <3>5. Ledger!Unused(t)
      BY <2>1, <2>2, <3>4, PaymentAssumption
      DEF FinalizePaidOrder, Ledger!Unused, IInv, OrdersSound
    <3>6. Ledger!Pay(o, u, p, t)
      BY <2>1, <2>2, <3>1, <3>2, <3>3, <3>4, <3>5
      DEF FinalizePaidOrder, ActivateSubscription, Ledger!Pay, PaidWith, IInv, TypeOK
    <3> QED
      BY <1>5, <2>1, <3>6
  <2>3. CASE UpdateOrderVerification(v)
    BY <2>1, <2>3
    DEF UpdateOrderVerification, Writable, planVars, PaidWith, IInv, TypeOK
  <2>4. ASSUME NEW o \in Order, NEW t \in Tx, ClaimOrderTransaction(v, o, t)
        PROVE  Same
    BY <2>4 DEF ClaimOrderTransaction, planVars, PaidWith, IInv, TypeOK
  <2>5. CASE v \in Runner /\ StartReconcile(v)
    BY <2>5 DEF StartReconcile, planVars, PaidWith
  <2>6. CASE \/ RPCTransactionByHash(v) \/ ReceiptMissing(v) \/ ReceiptRejected(v)
             \/ ReceiptAccepted(v) \/ LatestBlockNumber(v) \/ ChainUnavailable(v)
             \/ FinalizedAlready(v) \/ FinalizeRefused(v) \/ ReconcileActivePlan(v)
             \/ Crash(v)
    BY <1>0, <2>6
    DEF RPCTransactionByHash, ReceiptMissing, ReceiptRejected, ReceiptAccepted,
        LatestBlockNumber, ChainUnavailable, FinalizedAlready, FinalizeRefused,
        ReconcileActivePlan, Crash, orderVars, planVars
  <2>7. ASSUME NEW o \in Order,
               ReconcileNext(v, o) \/ EndReconcile(v) \/ LoseLock(v)
        PROVE  Same
    BY <1>0, <2>7 DEF ReconcileNext, EndReconcile, LoseLock, orderVars, planVars
  <2>8. Order # {}
    BY PaymentAssumption DEF Order
  <2> HIDE DEF Same
  <2> QED
    BY <1>6, <2>2, <2>3, <2>4, <2>5, <2>6, <2>7, <2>8
    DEF VerifierStep, Verify, Reconcile
<1> QED
  BY <1>1, <1>3, <1>4, <1>6, StepKinds

(* The payment code implements the ledger: whatever verifications overlap,
   crash or write late, every term granted belongs to one order paid by one
   transaction that pays exactly it. *)
THEOREM LedgerCorrect == Spec => RefinesLedger
<1>1. Init => IInv /\ Ledger!LedgerInit
  BY InitSound DEF Init, Ledger!LedgerInit
<1>2. IInv /\ [Next]_vars => IInv'
  BY StepKeepsIInv
<1>3. IInv /\ [Next]_vars => [Ledger!LedgerNext]_<<order, PaidWith, granted>>
  BY StepIsLedgerStep
<1> QED
  BY <1>1, <1>2, <1>3, PTL DEF Spec, RefinesLedger, Ledger!LedgerSpec, PaidWith
============================================================================
