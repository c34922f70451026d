------------------------- MODULE WebhookInboxProofs ------------------------
(***************************************************************************)
(* Theorems about the webhook inbox, for any number of messages, requests, *)
(* server instances, attempts and failures.                                *)
(***************************************************************************)
EXTENDS WebhookInbox, TLAPS

Working == {"take", "process", "mark"}

(* Only a worker that goes through its claims has any. *)
EmptyHanded == \A w \in Worker : pc[w] \notin Working => batch[w] = {}

LEMMA NoMessageType == NoMessage \in Message
  BY InboxAssumption DEF NoMessage

LEMMA InitSound == Init => TypeOK /\ EmptyHanded /\ OneWorker
  BY NoMessageType
  DEF Init, TypeOK, EmptyHanded, OneWorker, Working, Busy, InHand, Status, Claim,
      RequestState, NoClaim, NoRequest

-----------------------------------------------------------------------------
(* Types *)

RequestStep ==
  \/ \E q \in Request, m \in Message, ok \in BOOLEAN : AcceptWebhook(q, m, ok)
  \/ \E q \in Request : Serve(q) \/ RequestFails(q)

LEMMA TypeRequest == ASSUME TypeOK, RequestStep PROVE TypeOK'
<1>1. ASSUME NEW q \in Request, NEW m \in Message, NEW ok \in BOOLEAN,
             AcceptWebhook(q, m, ok)
      PROVE  TypeOK'
  BY <1>1 DEF AcceptWebhook, TypeOK, RequestState, rowVars, workVars
<1>2. ASSUME NEW q \in Request, Serve(q) \/ RequestFails(q) PROVE TypeOK'
  <2>0. \A step \in {"lookup", "rearm"} :
          [request EXCEPT ![q].step = step] \in [Request -> RequestState]
    BY DEF TypeOK, RequestState
  <2>1. NoRequest \in RequestState /\ request[q].message \in Message
    BY NoMessageType DEF TypeOK, RequestState, NoRequest
  <2>2. CASE InsertMessage(q)
    BY <2>1, <2>2 DEF InsertMessage, Armed, Answer, TypeOK, RequestState, Status,
                      workVars
  <2>3. CASE InsertConflict(q)
    BY <2>0, <2>3 DEF InsertConflict, TypeOK, rowVars, workVars
  <2>4. CASE LookupMessage(q)
    <3>1. request' \in [Request -> RequestState]
      BY <2>0, <2>1, <2>4 DEF LookupMessage, Answer, TypeOK
    <3>2. acked' \in [Message -> BOOLEAN]
      BY <2>1, <2>4 DEF LookupMessage, Answer, TypeOK
    <3> QED
      BY <2>4, <3>1, <3>2 DEF LookupMessage, TypeOK, rowVars, workVars
  <2>5. CASE RearmMessage(q)
    <3>1. /\ request' \in [Request -> RequestState]
          /\ acked' \in [Message -> BOOLEAN]
      BY <2>1, <2>5 DEF RearmMessage, Answer, TypeOK
    <3>2. /\ status' \in [Message -> Status] /\ attempts' \in [Message -> Nat]
          /\ valid' \in [Message -> BOOLEAN] /\ due' \in [Message -> BOOLEAN]
          /\ lapsed' \in [Message -> BOOLEAN]
      <4>1. Armed(request[q].message, TRUE) \/ UNCHANGED rowVars
        BY <2>5 DEF RearmMessage
      <4>2. CASE Armed(request[q].message, TRUE)
        BY <2>1, <4>2 DEF Armed, TypeOK, Status
      <4>3. CASE UNCHANGED rowVars
        BY <4>3 DEF TypeOK, rowVars
      <4> QED
        BY <4>1, <4>2, <4>3
    <3> QED
      BY <2>5, <3>1, <3>2 DEF RearmMessage, TypeOK, workVars
  <2>6. CASE RequestFails(q)
    BY <2>1, <2>6 DEF RequestFails, Fault, TypeOK, rowVars, workVars
  <2> QED
    BY <1>2, <2>2, <2>3, <2>4, <2>5, <2>6 DEF Serve
<1> QED
  BY <1>1, <1>2 DEF RequestStep

LEMMA TypeTime == ASSUME TypeOK, Time PROVE TypeOK'
<1> SUFFICES ASSUME NEW m \in Message,
                    RetryFallsDue(m) \/ LeaseExpires(m) \/ Cleanup(m)
             PROVE  TypeOK'
  BY DEF Time
<1>1. CASE RetryFallsDue(m)
  BY <1>1 DEF RetryFallsDue, TypeOK, workVars
<1>2. CASE LeaseExpires(m)
  BY <1>2 DEF LeaseExpires, TypeOK, workVars
<1>3. CASE Cleanup(m)
  BY <1>3 DEF Cleanup, TypeOK, Status, workVars
<1> QED
  BY <1>1, <1>2, <1>3

LEMMA TypeWorker ==
  ASSUME TypeOK, NEW w \in Worker, ProcessInbox(w) \/ Crash(w) \/ LoseLock(w)
  PROVE  TypeOK'
<1>1. NoClaim \in Claim /\ current[w] \in Claim /\ current[w].message \in Message
  BY NoMessageType DEF TypeOK, Claim, NoClaim
<1>2. CASE AcquireLock(w) \/ EndCycle(w)
  BY <1>2 DEF AcquireLock, EndCycle, Goto, Unlock, TypeOK, rowVars
<1>3. CASE RecoverStaleWebhookInbox(w)
  BY <1>3 DEF RecoverStaleWebhookInbox, Goto, TypeOK, Recovered, Stale, Status
<1>4. CASE ClaimWebhookInboxMessages(w)
  <2>1. {[message |-> m, attempts |-> attempts[m] + 1, valid |-> valid[m]] :
           m \in Claimable} \in SUBSET Claim
    BY DEF Claimable, TypeOK, Claim
  <2> DEFINE claims == {[message |-> m, attempts |-> attempts[m] + 1,
                         valid |-> valid[m]] : m \in Claimable}
  <2>2. batch' = [batch EXCEPT ![w] = claims]
    BY <1>4 DEF ClaimWebhookInboxMessages
  <2>3. batch' \in [Worker -> SUBSET Claim]
    <3> HIDE DEF claims
    <3> QED BY <2>1, <2>2 DEF TypeOK, claims
  <2>4. /\ status' \in [Message -> Status] /\ attempts' \in [Message -> Nat]
        /\ lapsed' \in [Message -> BOOLEAN]
        /\ pc' \in [Worker -> {"idle", "recover", "claim", "take", "process",
                               "mark"}]
    BY <1>4 DEF ClaimWebhookInboxMessages, Goto, TypeOK, Status
  <2> QED
    BY <1>4, <2>3, <2>4 DEF ClaimWebhookInboxMessages, TypeOK
<1>5. ASSUME NEW c \in batch[w], TakeMessage(w, c) PROVE TypeOK'
  BY <1>5 DEF TakeMessage, Goto, TypeOK, rowVars
<1>6. CASE MessageRejected(w) \/ MessageStored(w) \/ MessageFails(w)
  BY <1>6 DEF MessageRejected, MessageStored, MessageFails, Goto, TypeOK, rowVars
<1>7. CASE MarkMessage(w)
  <2>1. Verdict(w) \in Status
    BY DEF Verdict, Status
  <2> QED
    BY <1>1, <1>7, <2>1 DEF MarkMessage, Goto, TypeOK
<1>8. CASE Crash(w)
  BY <1>1, <1>8 DEF Crash, Fault, Goto, Unlock, TypeOK, rowVars
<1>9. CASE LoseLock(w)
  BY <1>9 DEF LoseLock, Fault, TypeOK, rowVars, workVars
<1> QED
  BY <1>2, <1>3, <1>4, <1>5, <1>6, <1>7, <1>8, <1>9 DEF ProcessInbox

LEMMA StepKinds ==
  ASSUME Next
  PROVE  \/ RequestStep \/ Time
         \/ \E w \in Worker : ProcessInbox(w) \/ Crash(w) \/ LoseLock(w)
  BY DEF Next, RequestStep

LEMMA TypeStep == ASSUME TypeOK, [Next]_vars PROVE TypeOK'
<1>1. CASE UNCHANGED vars
  BY <1>1 DEF vars, rowVars, workVars, TypeOK
<1>2. CASE Next
  BY <1>2, StepKinds, TypeRequest, TypeTime, TypeWorker
<1> QED
  BY <1>1, <1>2

(* Rows, requests and workers are in the states the schema and the code give
   them. *)
THEOREM TypeCorrect == Spec => []TypeOK
  BY InitSound, TypeStep, PTL DEF Spec

-----------------------------------------------------------------------------
(* One worker per message, while nothing fails *)

LEMMA StepKeepsEmptyHanded ==
  ASSUME TypeOK, EmptyHanded, [Next]_vars PROVE EmptyHanded'
<1> USE DEF EmptyHanded, Working
<1>1. CASE UNCHANGED vars
  BY <1>1 DEF vars, workVars
<1>2. CASE RequestStep
  BY <1>2 DEF RequestStep, AcceptWebhook, Serve, InsertMessage, InsertConflict,
              LookupMessage, RearmMessage, RequestFails, workVars
<1>3. CASE Time
  BY <1>3 DEF Time, RetryFallsDue, LeaseExpires, Cleanup, workVars
<1>4. ASSUME NEW w \in Worker, ProcessInbox(w) \/ Crash(w) \/ LoseLock(w)
      PROVE  EmptyHanded'
  <2>1. CASE \/ AcquireLock(w) \/ RecoverStaleWebhookInbox(w) \/ EndCycle(w)
             \/ ClaimWebhookInboxMessages(w)
    BY <2>1 DEF AcquireLock, RecoverStaleWebhookInbox, EndCycle,
                ClaimWebhookInboxMessages, Goto, TypeOK
  <2>2. CASE \/ \E c \in batch[w] : TakeMessage(w, c)
             \/ MessageRejected(w) \/ MessageStored(w) \/ MessageFails(w)
             \/ MarkMessage(w)
    BY <2>2 DEF TakeMessage, MessageRejected, MessageStored, MessageFails,
                MarkMessage, Goto, TypeOK
  <2>3. CASE Crash(w) \/ LoseLock(w)
    BY <2>3 DEF Crash, LoseLock, Goto, TypeOK, workVars
  <2> QED
    BY <1>4, <2>1, <2>2, <2>3 DEF ProcessInbox
<1> QED
  BY <1>1, <1>2, <1>3, <1>4, StepKinds

(* Two claims in hand for one message are the same claim. *)
LEMMA SameClaim ==
  ASSUME TypeOK, OneWorker, NEW v \in Worker, NEW w \in Worker,
         NEW c \in InHand(v), NEW d \in InHand(w), c.message = d.message
  PROVE  c = d
<1>1. c \in Claim /\ d \in Claim
  BY DEF TypeOK, InHand
<1>2. c.attempts = d.attempts /\ c.valid = d.valid
  BY DEF OneWorker
<1> QED
  BY <1>1, <1>2 DEF Claim

(* A worker that has a claim in hand holds the lock, so nobody else has one. *)
LEMMA OneHand ==
  ASSUME EmptyHanded, OneWorker, NEW v \in Worker, NEW w \in Worker,
         InHand(v) # {}, InHand(w) # {}
  PROVE  v = w
  BY DEF EmptyHanded, OneWorker, InHand, Working, Busy

(* What a step that is not a worker's may do to a row that is not being
   processed, and to no other. *)
RowsInHandStay ==
  \A m \in Message :
    /\ status'[m] = "processing" <=> status[m] = "processing"
    /\ status[m] = "processing" =>
         attempts'[m] = attempts[m] /\ valid'[m] = valid[m]

LEMMA OutsideKeepsRows ==
  ASSUME TypeOK, RequestStep \/ Time
  PROVE  RowsInHandStay /\ UNCHANGED <<workVars, lock>>
<1> USE DEF RowsInHandStay, TypeOK, RequestState
<1>1. ASSUME NEW q \in Request, InsertMessage(q) \/ RearmMessage(q)
      PROVE  RowsInHandStay /\ UNCHANGED <<workVars, lock>>
  <2>1. CASE InsertMessage(q)
    BY <2>1 DEF InsertMessage, Armed
  <2>2. CASE RearmMessage(q)
    <3> DEFINE m == request[q].message
    <3>1. \/ status[m] \in {"failed", "dead"} /\ Armed(m, TRUE)
          \/ UNCHANGED rowVars
      BY <2>2 DEF RearmMessage
    <3>2. UNCHANGED <<workVars, lock>> /\ m \in Message
      BY <2>2 DEF RearmMessage
    <3> HIDE DEF m
    <3>3. ASSUME status[m] \in {"failed", "dead"}, Armed(m, TRUE) PROVE RowsInHandStay
      BY <3>2, <3>3 DEF Armed
    <3>4. ASSUME UNCHANGED rowVars PROVE RowsInHandStay
      BY <3>4 DEF rowVars
    <3>5. RowsInHandStay
      <4> HIDE DEF RowsInHandStay
      <4> QED BY <3>1, <3>3, <3>4
    <3> QED
      BY <3>2, <3>5
  <2> QED
    BY <1>1, <2>1, <2>2
<1>2. CASE \/ \E q \in Request, m \in Message, ok \in BOOLEAN : AcceptWebhook(q, m, ok)
           \/ \E q \in Request : InsertConflict(q) \/ LookupMessage(q) \/ RequestFails(q)
  BY <1>2 DEF AcceptWebhook, InsertConflict, LookupMessage, RequestFails, rowVars
<1>3. CASE Time
  BY <1>3 DEF Time, RetryFallsDue, LeaseExpires, Cleanup
<1> QED
  BY <1>1, <1>2, <1>3 DEF RequestStep, Serve

LEMMA OutsideKeepsOneWorker ==
  ASSUME TypeOK, OneWorker, RequestStep \/ Time PROVE OneWorker'
<1>1. RowsInHandStay /\ UNCHANGED <<workVars, lock>>
  BY OutsideKeepsRows
<1>2. \A w \in Worker : InHand(w)' = InHand(w) /\ InHand(w) \subseteq Claim
  BY <1>1 DEF InHand, workVars, TypeOK
<1>3. \A w \in Worker : pc'[w] = pc[w] /\ current'[w] = current[w] /\ batch'[w] = batch[w]
  BY <1>1 DEF workVars
<1> QED
  BY <1>1, <1>2, <1>3 DEF OneWorker, RowsInHandStay, Claim

(* Before it claims, the holder of the lock finds no row being processed. *)
LEMMA NothingProcessing ==
  ASSUME EmptyHanded, OneWorker, NEW w \in Worker, pc[w] # "idle", pc[w] \notin Working
  PROVE  /\ \A v \in Worker : InHand(v) = {}
         /\ \A m \in Message : status[m] # "processing"
<1>1. \A v \in Worker : v # w => pc[v] = "idle"
  BY DEF OneWorker
<1>2. \A v \in Worker : InHand(v) = {}
  BY <1>1 DEF EmptyHanded, InHand, Working, Busy
<1> QED
  BY <1>2 DEF OneWorker

LEMMA WorkerKeepsOneWorker ==
  ASSUME TypeOK, EmptyHanded, OneWorker, NEW w \in Worker, ProcessInbox(w)
  PROVE  OneWorker'
<1>1. CASE AcquireLock(w)
  <2>1. \A v \in Worker : pc[v] = "idle"
    BY <1>1, InboxAssumption DEF AcquireLock, LockFree, OneWorker
  <2>2. \A v \in Worker : InHand(v)' = InHand(v)
    BY <1>1, <2>1 DEF AcquireLock, InHand, Busy, Goto, TypeOK
  <2> QED
    BY <1>1, <2>1, <2>2 DEF AcquireLock, OneWorker, Goto, TypeOK, rowVars, Busy
<1>2. CASE RecoverStaleWebhookInbox(w)
  <2>1. /\ \A v \in Worker : InHand(v) = {}
        /\ \A m \in Message : status[m] # "processing"
    BY <1>2, NothingProcessing DEF RecoverStaleWebhookInbox, Working
  <2>2. \A m \in Message : status'[m] # "processing"
    BY <1>2, <2>1 DEF RecoverStaleWebhookInbox, Stale
  <2>3. \A v \in Worker : InHand(v)' = {}
    BY <1>2, <2>1 DEF RecoverStaleWebhookInbox, InHand, Busy, Goto, TypeOK
  <2> QED
    BY <1>2, <2>2, <2>3 DEF RecoverStaleWebhookInbox, OneWorker, Goto, TypeOK, Busy
<1>3. CASE ClaimWebhookInboxMessages(w)
  <2> DEFINE claims == {[message |-> m, attempts |-> attempts[m] + 1,
                         valid |-> valid[m]] : m \in Claimable}
  <2>1. /\ \A v \in Worker : InHand(v) = {}
        /\ \A m \in Message : status[m] # "processing"
    BY <1>3, NothingProcessing DEF ClaimWebhookInboxMessages, Working
  <2>2. InHand(w)' = claims
    BY <1>3 DEF ClaimWebhookInboxMessages, InHand, Busy, Goto, TypeOK
  <2>3. \A v \in Worker : v # w => InHand(v)' = {}
    BY <1>3, <2>1 DEF ClaimWebhookInboxMessages, InHand, Busy, Goto, TypeOK
  <2>4. \A m \in Message :
          /\ status'[m] = "processing" <=> m \in Claimable
          /\ m \in Claimable => attempts'[m] = attempts[m] + 1 /\ valid'[m] = valid[m]
    BY <1>3, <2>1 DEF ClaimWebhookInboxMessages
  <2>5. Claimable \subseteq Message
    BY DEF Claimable
  <2>6. \A v \in Worker : pc'[v] # "idle" => lock' = v
    BY <1>3 DEF ClaimWebhookInboxMessages, OneWorker, Goto, TypeOK
  <2>7. \A v \in Worker : pc'[v] \notin Busy
    BY <1>3, <2>1 DEF ClaimWebhookInboxMessages, InHand, Busy, Goto, TypeOK
  <2>8. \A m \in Message : status'[m] = "processing" =>
          \E c \in InHand(w)' : c.message = m
    <3> SUFFICES ASSUME NEW m \in Message, status'[m] = "processing"
                 PROVE  \E c \in InHand(w)' : c.message = m
      OBVIOUS
    <3> DEFINE c == [message |-> m, attempts |-> attempts[m] + 1, valid |-> valid[m]]
    <3>1. c \in claims /\ c.message = m
      BY <2>4
    <3> HIDE DEF c, claims
    <3> QED
      BY <2>2, <3>1
  <2>9. \A v \in Worker : \A c \in InHand(v)' :
          /\ status'[c.message] = "processing"
          /\ c.attempts = attempts'[c.message] /\ c.valid = valid'[c.message]
    BY <2>2, <2>3, <2>4, <2>5
  <2> QED
    BY <2>6, <2>7, <2>8, <2>9 DEF OneWorker
<1>4. ASSUME NEW c \in batch[w], TakeMessage(w, c) PROVE OneWorker'
  <2>1. \A v \in Worker : InHand(v)' = InHand(v)
    BY <1>4 DEF TakeMessage, InHand, Busy, Goto, TypeOK
  <2>2. UNCHANGED <<rowVars, lock>>
    BY <1>4 DEF TakeMessage
  <2>3. \A v \in Worker : (pc'[v] # "idle") = (pc[v] # "idle")
    BY <1>4 DEF TakeMessage, Goto, TypeOK
  <2>4. \A v \in Worker : pc'[v] \in Busy => current'[v] \notin batch'[v]
    BY <1>4 DEF TakeMessage, Goto, TypeOK, OneWorker
  <2> QED
    BY <2>1, <2>2, <2>3, <2>4 DEF OneWorker, rowVars
<1>5. CASE MessageRejected(w) \/ MessageStored(w) \/ MessageFails(w)
  <2>1. \A v \in Worker : InHand(v)' = InHand(v)
    BY <1>5 DEF MessageRejected, MessageStored, MessageFails, InHand, Busy, Goto, TypeOK
  <2>2. UNCHANGED <<rowVars, lock, batch, current>>
    BY <1>5 DEF MessageRejected, MessageStored, MessageFails
  <2>3. \A v \in Worker : /\ (pc'[v] # "idle") = (pc[v] # "idle")
                          /\ (pc'[v] \in Busy) = (pc[v] \in Busy)
    BY <1>5 DEF MessageRejected, MessageStored, MessageFails, Goto, TypeOK, Busy
  <2> QED
    BY <2>1, <2>2, <2>3 DEF OneWorker, rowVars
<1>6. CASE MarkMessage(w)
  <2> DEFINE m == current[w].message
  <2>1. pc[w] = "mark" /\ current[w] \in InHand(w) /\ m \in Message
    BY <1>6 DEF MarkMessage, InHand, Busy, TypeOK, Claim
  <2>2. \A v \in Worker : v # w => InHand(v) = {}
    BY <2>1, OneHand
  <2>3. InHand(w)' = batch[w]
    BY <1>6 DEF MarkMessage, InHand, Busy, Goto, TypeOK
  <2>4. \A v \in Worker : v # w => InHand(v)' = {}
    BY <1>6, <2>2 DEF MarkMessage, InHand, Goto, TypeOK
  <2>5. \A c \in batch[w] : c.message # m /\ c \in InHand(w)
    BY <2>1, SameClaim DEF InHand, OneWorker, Busy
  <2>6. \A x \in Message :
          /\ x # m => status'[x] = status[x]
          /\ attempts'[x] = attempts[x] /\ valid'[x] = valid[x]
    BY <1>6 DEF MarkMessage, TypeOK
  <2>7. status'[m] # "processing"
    BY <1>6, <2>1 DEF MarkMessage, Verdict, TypeOK
  <2>8. \A v \in Worker : pc'[v] # "idle" => lock' = v
    BY <1>6 DEF MarkMessage, OneWorker, Goto, TypeOK
  <2>9. \A v \in Worker : pc'[v] \in Busy => current'[v] \notin batch'[v]
    BY <1>6 DEF MarkMessage, OneWorker, Goto, TypeOK, Busy
  <2> HIDE DEF m
  <2>10. \A x \in Message : status'[x] = "processing" =>
           \E c \in InHand(w)' : c.message = x
    <3> SUFFICES ASSUME NEW x \in Message, status'[x] = "processing"
                 PROVE  \E c \in InHand(w)' : c.message = x
      OBVIOUS
    <3>1. x # m /\ status[x] = "processing"
      BY <2>6, <2>7
    <3>2. PICK v \in Worker : \E c \in InHand(v) : c.message = x
      BY <3>1 DEF OneWorker
    <3>3. \E c \in InHand(w) : c.message = x
      BY <2>2, <3>2
    <3> QED
      BY <2>3, <3>1, <3>3 DEF InHand, m
  <2>11. \A c \in batch[w] :
          /\ status'[c.message] = "processing"
          /\ c.attempts = attempts'[c.message] /\ c.valid = valid'[c.message]
    <3>1. \A c \in batch[w] : c.message \in Message
      BY DEF TypeOK, Claim
    <3> QED
      BY <2>5, <2>6, <3>1 DEF OneWorker
  <2> QED
    BY <2>3, <2>4, <2>8, <2>9, <2>10, <2>11 DEF OneWorker
<1>7. CASE EndCycle(w)
  <2>1. \A v \in Worker : InHand(v)' = InHand(v)
    BY <1>7 DEF EndCycle, InHand, Busy, Goto, TypeOK
  <2>2. \A v \in Worker : v # w => pc[v] = "idle"
    BY <1>7 DEF EndCycle, OneWorker
  <2>3. \A v \in Worker : pc'[v] = "idle"
    BY <1>7, <2>2 DEF EndCycle, Goto, TypeOK
  <2> QED
    BY <1>7, <2>1, <2>3 DEF EndCycle, OneWorker, rowVars, Busy
<1> QED
  BY <1>1, <1>2, <1>3, <1>4, <1>5, <1>6, <1>7 DEF ProcessInbox

(* The step that keeps the number of failures at zero is not a failure. *)
LEMMA StepWithoutFaults ==
  ASSUME TypeOK, Next, faults' = 0
  PROVE  faults = 0 /\ (RequestStep \/ Time \/ \E w \in Worker : ProcessInbox(w))
<1>1. ASSUME RequestStep PROVE faults = 0
  <2>1. ASSUME NEW q \in Request, NEW m \in Message, NEW ok \in BOOLEAN,
               AcceptWebhook(q, m, ok)
        PROVE  faults = 0
    BY <2>1 DEF AcceptWebhook
  <2>2. ASSUME NEW q \in Request, Serve(q) PROVE faults = 0
    BY <2>2 DEF Serve, InsertMessage, InsertConflict, LookupMessage, RearmMessage
  <2>3. ASSUME NEW q \in Request, RequestFails(q) PROVE faults = 0
    BY <2>3 DEF RequestFails, Fault, TypeOK
  <2> QED
    BY <1>1, <2>1, <2>2, <2>3 DEF RequestStep
<1>2. CASE Time
  BY <1>2 DEF Time, RetryFallsDue, LeaseExpires, Cleanup
<1>3. ASSUME NEW w \in Worker, Crash(w) \/ LoseLock(w) PROVE FALSE
  BY <1>3 DEF Crash, LoseLock, Fault, TypeOK
<1>4. ASSUME NEW w \in Worker, ProcessInbox(w) PROVE faults = 0
  BY <1>4 DEF ProcessInbox, AcquireLock, RecoverStaleWebhookInbox,
              ClaimWebhookInboxMessages, TakeMessage, MessageRejected,
              MessageStored, MessageFails, MarkMessage, EndCycle
<1> QED
  BY <1>1, <1>2, <1>3, <1>4, StepKinds

LEMMA StepKeepsOneWorker ==
  ASSUME TypeOK, EmptyHanded, OneWorkerWithoutFaults, [Next]_vars
  PROVE  OneWorkerWithoutFaults'
<1> SUFFICES ASSUME faults' = 0 PROVE OneWorker'
  BY DEF OneWorkerWithoutFaults
<1>1. CASE UNCHANGED vars
  <2>1. \A w \in Worker : InHand(w)' = InHand(w)
    BY <1>1 DEF InHand, vars, workVars
  <2> QED
    BY <1>1, <2>1 DEF OneWorkerWithoutFaults, OneWorker, vars, rowVars, workVars
<1>2. CASE Next
  <2>1. OneWorker /\ (RequestStep \/ Time \/ \E w \in Worker : ProcessInbox(w))
    BY <1>2, StepWithoutFaults DEF OneWorkerWithoutFaults
  <2> QED
    BY <2>1, OutsideKeepsOneWorker, WorkerKeepsOneWorker
<1> QED
  BY <1>1, <1>2

(* While nothing fails, a claimed message is in the hands of the one worker that
   holds the lock, unchanged since it was claimed. *)
THEOREM OneWorkerCorrect ==
  Spec => [](TypeOK /\ EmptyHanded /\ OneWorkerWithoutFaults)
<1>1. Init => OneWorkerWithoutFaults
  BY InitSound DEF OneWorkerWithoutFaults
<1> QED
  BY <1>1, InitSound, TypeStep, StepKeepsEmptyHanded, StepKeepsOneWorker, PTL DEF Spec

-----------------------------------------------------------------------------
(* What was settled *)

(* While nothing fails, a worker finishes only rows that are being processed. *)
LEMMA MarksItsOwn ==
  ASSUME TypeOK, OneWorker, NEW w \in Worker, pc[w] = "mark"
  PROVE  /\ current[w].message \in Message
         /\ status[current[w].message] = "processing"
         /\ current[w].attempts = attempts[current[w].message]
         /\ current[w].valid = valid[current[w].message]
<1>1. current[w] \in InHand(w)
  BY DEF InHand, Busy
<1> QED
  BY <1>1 DEF OneWorker, TypeOK, Claim

LEMMA ProcessedStep ==
  ASSUME TypeOK, OneWorkerWithoutFaults, [Next]_vars, faults = 0,
         NEW m \in Message, status[m] = "processed"
  PROVE  status'[m] \in {"processed", "none"}
<1> USE DEF TypeOK
<1>1. CASE UNCHANGED vars
  BY <1>1 DEF vars, rowVars
<1>2. CASE RequestStep
  <2>1. \A q \in Request : RearmMessage(q) => status'[m] = status[m]
    <3> SUFFICES ASSUME NEW q \in Request, RearmMessage(q) PROVE status'[m] = status[m]
      OBVIOUS
    <3>1. \/ status[request[q].message] \in {"failed", "dead"} /\ Armed(request[q].message, TRUE)
          \/ status' = status
      BY DEF RearmMessage, rowVars
    <3> QED
      BY <3>1 DEF Armed
  <2> QED
    BY <1>2, <2>1 DEF RequestStep, AcceptWebhook, Serve, InsertMessage, Armed,
         InsertConflict, LookupMessage, RequestFails, rowVars
<1>3. CASE Time
  BY <1>3 DEF Time, RetryFallsDue, LeaseExpires, Cleanup
<1>4. ASSUME NEW w \in Worker, ProcessInbox(w) \/ Crash(w) \/ LoseLock(w)
      PROVE  status'[m] = "processed"
  <2>1. CASE MarkMessage(w)
    BY <2>1, MarksItsOwn DEF MarkMessage, OneWorkerWithoutFaults
  <2>2. CASE RecoverStaleWebhookInbox(w) \/ ClaimWebhookInboxMessages(w)
    BY <2>2 DEF RecoverStaleWebhookInbox, ClaimWebhookInboxMessages, Stale, Claimable
  <2>3. CASE \/ AcquireLock(w) \/ EndCycle(w) \/ Crash(w) \/ LoseLock(w)
             \/ \E c \in batch[w] : TakeMessage(w, c)
             \/ MessageRejected(w) \/ MessageStored(w) \/ MessageFails(w)
    BY <2>3 DEF AcquireLock, EndCycle, Crash, LoseLock, TakeMessage, MessageRejected,
         MessageStored, MessageFails, rowVars
  <2> QED
    BY <1>4, <2>1, <2>2, <2>3 DEF ProcessInbox
<1> QED
  BY <1>1, <1>2, <1>3, <1>4, StepKinds

(* While nothing fails, no step takes a processed message up again. *)
THEOREM ProcessedStaysProcessedCorrect == Spec => ProcessedStaysProcessed
<1>1. TypeOK /\ OneWorkerWithoutFaults /\ [Next]_vars =>
        [\A m \in Message :
           faults = 0 /\ status[m] = "processed"
           => status'[m] \in {"processed", "none"}]_vars
  BY ProcessedStep
<1> QED
  BY <1>1, OneWorkerCorrect, PTL DEF Spec, ProcessedStaysProcessed

(* What a worker rejects cannot be processed. *)
RejectedUnusable ==
  \A w \in Worker :
    pc[w] = "mark" /\ outcome[w] = "rejected" => ~Usable(current[w])

LEMMA StepKeepsRejected ==
  ASSUME TypeOK, RejectedUnusable, [Next]_vars PROVE RejectedUnusable'
<1> USE DEF RejectedUnusable, TypeOK, Usable
<1>1. CASE UNCHANGED vars \/ RequestStep \/ Time
  <2>1. UNCHANGED workVars
    BY <1>1, OutsideKeepsRows DEF vars
  <2> QED
    BY <2>1 DEF workVars
<1>2. ASSUME NEW w \in Worker, ProcessInbox(w) \/ Crash(w) \/ LoseLock(w)
      PROVE  RejectedUnusable'
  <2>1. CASE \/ AcquireLock(w) \/ RecoverStaleWebhookInbox(w) \/ EndCycle(w)
             \/ ClaimWebhookInboxMessages(w)
    BY <2>1 DEF AcquireLock, RecoverStaleWebhookInbox, EndCycle,
                ClaimWebhookInboxMessages, Goto
  <2>2. CASE MessageRejected(w) \/ MessageStored(w) \/ MessageFails(w)
    BY <2>2 DEF MessageRejected, MessageStored, MessageFails, Goto
  <2>3. CASE MarkMessage(w) \/ \E c \in batch[w] : TakeMessage(w, c)
    BY <2>3 DEF TakeMessage, MarkMessage, Goto
  <2>4. CASE Crash(w) \/ LoseLock(w)
    BY <2>4 DEF Crash, LoseLock, Goto, workVars
  <2> QED
    BY <1>2, <2>1, <2>2, <2>3, <2>4 DEF ProcessInbox
<1> QED
  BY <1>1, <1>2, StepKinds

LEMMA GivenUpStep ==
  ASSUME TypeOK, OneWorkerWithoutFaults, RejectedUnusable, GivenUpAfterAllAttempts,
         [Next]_vars
  PROVE  GivenUpAfterAllAttempts'
<1> USE DEF TypeOK
<1> SUFFICES ASSUME faults' = 0, NEW m \in Message \ Unusable,
                    status'[m] = "dead", valid'[m]
             PROVE  attempts'[m] >= MaxAttempts
  BY DEF GivenUpAfterAllAttempts
<1> DEFINE Same == status'[m] = "dead" => /\ status[m] = "dead"
                                          /\ valid'[m] = valid[m]
                                          /\ attempts'[m] = attempts[m]
<1>1. CASE UNCHANGED vars
  BY <1>1 DEF vars, rowVars, GivenUpAfterAllAttempts
<1>2. CASE Next
  <2>1. faults = 0 /\ (RequestStep \/ Time \/ \E w \in Worker : ProcessInbox(w))
    BY <1>2, StepWithoutFaults
  <2>2. Same => attempts'[m] >= MaxAttempts
    BY <2>1 DEF GivenUpAfterAllAttempts
  <2>3. CASE RequestStep
    <3>1. ASSUME NEW q \in Request, NEW ok \in BOOLEAN, Armed(request[q].message, ok)
          PROVE  Same
      BY <3>1 DEF Armed
    <3>2. ASSUME UNCHANGED rowVars PROVE Same
      BY <3>2 DEF rowVars
    <3>3. ASSUME NEW q \in Request, InsertMessage(q) \/ RearmMessage(q)
          PROVE  \/ UNCHANGED rowVars
                 \/ \E ok \in BOOLEAN : Armed(request[q].message, ok)
      BY <3>3 DEF InsertMessage, RearmMessage, RequestState
    <3>4. ASSUME \/ \E q \in Request, x \in Message, ok \in BOOLEAN : AcceptWebhook(q, x, ok)
                 \/ \E q \in Request : InsertConflict(q) \/ LookupMessage(q) \/ RequestFails(q)
          PROVE  UNCHANGED rowVars
      BY <3>4 DEF AcceptWebhook, InsertConflict, LookupMessage, RequestFails
    <3>5. Same
      <4> HIDE DEF Same
      <4> QED BY <2>3, <3>1, <3>2, <3>3, <3>4 DEF RequestStep, Serve
    <3> QED
      BY <2>2, <3>5
  <2>4. CASE Time
    <3>1. ASSUME NEW x \in Message, RetryFallsDue(x) \/ LeaseExpires(x) \/ Cleanup(x)
          PROVE  Same
      <4>1. CASE RetryFallsDue(x) \/ LeaseExpires(x)
        BY <4>1 DEF RetryFallsDue, LeaseExpires
      <4>2. CASE Cleanup(x)
        BY <4>2 DEF Cleanup
      <4> QED
        BY <3>1, <4>1, <4>2
    <3> QED
      BY <2>2, <2>4, <3>1 DEF Time
  <2>5. ASSUME NEW w \in Worker, ProcessInbox(w) PROVE attempts'[m] >= MaxAttempts
    <3>1. CASE MarkMessage(w)
      <4> DEFINE x == current[w].message
      <4>1. /\ x \in Message /\ current[w].attempts = attempts[x]
            /\ current[w].valid = valid[x]
        BY <2>1, <3>1, MarksItsOwn DEF MarkMessage, OneWorkerWithoutFaults
      <4>2. /\ status' = [status EXCEPT ![x] = Verdict(w)]
            /\ attempts' = attempts /\ valid' = valid /\ pc[w] = "mark"
        BY <3>1 DEF MarkMessage
      <4>3. CASE x # m
        BY <2>2, <4>1, <4>2, <4>3
      <4>4. CASE x = m
        <5>1. Verdict(w) = "dead" /\ Usable(current[w])
          BY <4>1, <4>2, <4>4 DEF Usable
        <5>2. Exhausted(current[w])
          BY <4>2, <5>1 DEF Verdict, RejectedUnusable
        <5> QED
          BY <4>1, <4>2, <4>4, <5>2 DEF Exhausted
      <4> QED
        BY <4>3, <4>4
    <3>2. CASE RecoverStaleWebhookInbox(w)
      BY <2>2, <3>2, InboxAssumption DEF RecoverStaleWebhookInbox, Recovered
    <3>3. CASE ClaimWebhookInboxMessages(w)
      BY <2>2, <3>3 DEF ClaimWebhookInboxMessages, Claimable
    <3>4. CASE \/ AcquireLock(w) \/ EndCycle(w)
               \/ \E c \in batch[w] : TakeMessage(w, c)
               \/ MessageRejected(w) \/ MessageStored(w) \/ MessageFails(w)
      BY <2>2, <3>4 DEF AcquireLock, EndCycle, TakeMessage, MessageRejected,
           MessageStored, MessageFails, rowVars
    <3> QED
      BY <2>5, <3>1, <3>2, <3>3, <3>4 DEF ProcessInbox
  <2> QED
    BY <2>1, <2>3, <2>4, <2>5
<1> QED
  BY <1>1, <1>2

(* While nothing fails, a message that could be processed dies only when all its
   attempts were made. *)
THEOREM GivenUpCorrect == Spec => []GivenUpAfterAllAttempts
<1>1. Init => RejectedUnusable /\ GivenUpAfterAllAttempts
  BY DEF Init, RejectedUnusable, GivenUpAfterAllAttempts
<1> QED
  BY <1>1, OneWorkerCorrect, StepKeepsRejected, GivenUpStep, PTL DEF Spec
============================================================================
