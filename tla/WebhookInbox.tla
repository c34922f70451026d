---------------------------- MODULE WebhookInbox ---------------------------
(***************************************************************************)
(* The webhook inbox of the chain collector: deliveries of the provider    *)
(* are stored before they are answered, and processed later                *)
(* (internal/marketcollector/webhook.go, internal/store/market_ingestion.go*)
(* and market_collection.go).                                              *)
(*                                                                         *)
(* A delivery is known by its deduplication key.  A request stores it in   *)
(* up to three statements, outside a transaction.  The "webhook-inbox"     *)
(* task of every server instance claims what is due and processes it, one  *)
(* instance at a time as long as the session that holds the advisory lock  *)
(* lives; the statements that finish a message do not ask whose it is.     *)
(*                                                                         *)
(* An operator marked `Variant' is a wrong form of the one after it, used  *)
(* only to confirm that the properties notice the mistake.                 *)
(***************************************************************************)
EXTENDS Integers, FiniteSets

CONSTANTS
  Message,       \* deduplication keys
  Unusable,      \* those whose payload names no transaction
  Request,       \* HTTP requests of the provider
  Worker,        \* server instances running the task
  MaxAttempts,   \* WebhookMaxAttempts (10 in the code)
  MaxDeliveries, \* bound: requests that come in
  MaxFaults,     \* bound: crashes and lost sessions
  NoWorker

ASSUME InboxAssumption ==
  /\ Message # {} /\ Unusable \subseteq Message
  /\ NoWorker \notin Worker
  /\ MaxAttempts \in Nat \ {0}
  /\ MaxDeliveries \in Nat /\ MaxFaults \in Nat

VARIABLES
  status,    \* processing_status, "none" when there is no row
  attempts,  \* attempts
  valid,     \* signature_valid
  due,       \* next_attempt_at <= NOW()
  lapsed,    \* locked_at is older than the lease
  request,   \* what each request does
  lock,      \* holder of the task's advisory lock
  pc,        \* where each worker is in its cycle
  batch,     \* batch[w]: messages claimed, as they were when claimed
  current,   \* the message being processed
  outcome,   \* what came of it
  acked,     \* history: a valid delivery of the message was answered with 200
  faults, deliveries   \* counters for the bounds

rowVars  == <<status, attempts, valid, due, lapsed>>
workVars == <<pc, batch, current, outcome>>
vars == <<rowVars, request, lock, workVars, acked, faults, deliveries>>

-----------------------------------------------------------------------------
(* Types *)

Status == {"none", "pending", "processing", "processed", "failed", "dead"}
Claim  == [message : Message, attempts : Nat, valid : BOOLEAN]
RequestState == [step : {"idle", "insert", "lookup", "rearm"},
                 message : Message, valid : BOOLEAN]

NoMessage == CHOOSE m \in Message : TRUE
NoClaim   == [message |-> NoMessage, attempts |-> 0, valid |-> FALSE]
NoRequest == [step |-> "idle", message |-> NoMessage, valid |-> FALSE]

TypeOK ==
  /\ status \in [Message -> Status]
  /\ attempts \in [Message -> Nat]
  /\ valid \in [Message -> BOOLEAN]
  /\ due \in [Message -> BOOLEAN]
  /\ lapsed \in [Message -> BOOLEAN]
  /\ request \in [Request -> RequestState]
  /\ lock \in Worker \cup {NoWorker}
  /\ pc \in [Worker -> {"idle", "recover", "claim", "take", "process", "mark"}]
  /\ batch \in [Worker -> SUBSET Claim]
  /\ current \in [Worker -> Claim]
  /\ outcome \in [Worker -> {"processed", "retry", "rejected"}]
  /\ acked \in [Message -> BOOLEAN]
  /\ faults \in Nat /\ deliveries \in Nat

Init ==
  /\ status = [m \in Message |-> "none"]
  /\ attempts = [m \in Message |-> 0]
  /\ valid = [m \in Message |-> FALSE]
  /\ due = [m \in Message |-> FALSE]
  /\ lapsed = [m \in Message |-> FALSE]
  /\ request = [q \in Request |-> NoRequest]
  /\ lock = NoWorker
  /\ pc = [w \in Worker |-> "idle"]
  /\ batch = [w \in Worker |-> {}]
  /\ current = [w \in Worker |-> NoClaim]
  /\ outcome = [w \in Worker |-> "retry"]
  /\ acked = [m \in Message |-> FALSE]
  /\ faults = 0 /\ deliveries = 0

-----------------------------------------------------------------------------
(* Requests (AcceptWebhook and CreateWebhookInboxMessage) *)

Fault == faults < MaxFaults /\ faults' = faults + 1

(* The signature, the timestamp and the payload are checked first; a delivery
   that fails is stored too, for the record. *)
AcceptWebhook(q, m, ok) ==
  /\ request[q].step = "idle" /\ deliveries < MaxDeliveries
  /\ request' = [request EXCEPT ![q] =
                   [step |-> "insert", message |-> m, valid |-> ok]]
  /\ deliveries' = deliveries + 1
  /\ UNCHANGED <<rowVars, lock, workVars, acked, faults>>

(* The request ends: a valid delivery is answered with 200, and the provider
   does not send it again; an invalid one with an error. *)
Answer(q) ==
  /\ request' = [request EXCEPT ![q] = NoRequest]
  /\ acked' = IF request[q].valid
              THEN [acked EXCEPT ![request[q].message] = TRUE] ELSE acked

(* A row is ready to be claimed for the first time. *)
Armed(m, ok) ==
  /\ status' = [status EXCEPT ![m] = "pending"]
  /\ attempts' = [attempts EXCEPT ![m] = 0]
  /\ valid' = [valid EXCEPT ![m] = ok]
  /\ due' = [due EXCEPT ![m] = TRUE]
  /\ lapsed' = [lapsed EXCEPT ![m] = FALSE]

(* INSERT ... ON CONFLICT DO NOTHING *)
InsertMessage(q) ==
  LET m == request[q].message IN
  /\ request[q].step = "insert" /\ status[m] = "none"
  /\ Armed(m, request[q].valid)
  /\ Answer(q)
  /\ UNCHANGED <<lock, workVars, faults, deliveries>>

InsertConflict(q) ==
  /\ request[q].step = "insert" /\ status[request[q].message] # "none"
  /\ request' = [request EXCEPT ![q].step = "lookup"]
  /\ UNCHANGED <<rowVars, lock, workVars, acked, faults, deliveries>>

(* Only a valid resend of a failed or dead delivery goes on to re-arm the row;
   anything else is a duplicate. *)
Revives(q) ==
  request[q].valid /\ status[request[q].message] \in {"failed", "dead"}

LookupMessage(q) ==
  /\ request[q].step = "lookup"
  /\ IF Revives(q)
     THEN request' = [request EXCEPT ![q].step = "rearm"] /\ UNCHANGED acked
     ELSE Answer(q)
  /\ UNCHANGED <<rowVars, lock, workVars, faults, deliveries>>

RearmMessage(q) ==
  LET m == request[q].message IN
  /\ request[q].step = "rearm"
  /\ IF status[m] \in {"failed", "dead"} THEN Armed(m, TRUE)
                                          ELSE UNCHANGED rowVars
  /\ Answer(q)
  /\ UNCHANGED <<lock, workVars, faults, deliveries>>

RequestFails(q) ==
  /\ request[q].step # "idle" /\ Fault
  /\ request' = [request EXCEPT ![q] = NoRequest]
  /\ UNCHANGED <<rowVars, lock, workVars, acked, deliveries>>

-----------------------------------------------------------------------------
(* Time *)

RetryFallsDue(m) ==
  /\ status[m] = "failed" /\ ~due[m]
  /\ due' = [due EXCEPT ![m] = TRUE]
  /\ UNCHANGED <<status, attempts, valid, lapsed, request, lock, workVars,
                 acked, faults, deliveries>>

LeaseExpires(m) ==
  /\ status[m] = "processing" /\ ~lapsed[m]
  /\ lapsed' = [lapsed EXCEPT ![m] = TRUE]
  /\ UNCHANGED <<status, attempts, valid, due, request, lock, workVars,
                 acked, faults, deliveries>>

(* CleanupMarketCollectionData, days later: nobody works on the row any more. *)
Untouched(m) ==
  /\ \A q \in Request : request[q].step # "idle" => request[q].message # m
  /\ \A w \in Worker : /\ \A c \in batch[w] : c.message # m
                       /\ pc[w] \in {"process", "mark"} => current[w].message # m

Cleanup(m) ==
  /\ status[m] \in {"processed", "dead"} /\ Untouched(m)
  /\ status' = [status EXCEPT ![m] = "none"]
  /\ attempts' = [attempts EXCEPT ![m] = 0]
  /\ valid' = [valid EXCEPT ![m] = FALSE]
  /\ due' = [due EXCEPT ![m] = FALSE]
  /\ lapsed' = [lapsed EXCEPT ![m] = FALSE]
  /\ acked' = [acked EXCEPT ![m] = FALSE]
  /\ UNCHANGED <<request, lock, workVars, faults, deliveries>>

-----------------------------------------------------------------------------
(* The task (ProcessInbox) *)

Goto(w, step) == pc' = [pc EXCEPT ![w] = step]

(* Variant: the task does not try the lock. *)
Unguarded == TRUE
LockFree  == lock = NoWorker

AcquireLock(w) ==
  /\ pc[w] = "idle" /\ LockFree
  /\ lock' = w
  /\ Goto(w, "recover")
  /\ UNCHANGED <<rowVars, request, batch, current, outcome, acked,
                 faults, deliveries>>

(* Variant: a message on its last attempt is not recovered. *)
StaleWithRetries(m) ==
  status[m] = "processing" /\ lapsed[m] /\ attempts[m] < MaxAttempts
Stale(m) == status[m] = "processing" /\ lapsed[m]

Recovered(m) == IF attempts[m] >= MaxAttempts THEN "dead" ELSE "failed"

RecoverStaleWebhookInbox(w) ==
  /\ pc[w] = "recover"
  /\ status' = [m \in Message |-> IF Stale(m) THEN Recovered(m) ELSE status[m]]
  /\ due' = [m \in Message |-> Stale(m) \/ due[m]]
  /\ lapsed' = [m \in Message |-> lapsed[m] /\ ~Stale(m)]
  /\ Goto(w, "claim")
  /\ UNCHANGED <<attempts, valid, request, lock, batch, current, outcome, acked, faults, deliveries>>

(* Variant: processed messages are not left out. *)
ClaimableTwice ==
  {m \in Message : status[m] \in {"pending", "failed", "processed"} /\ due[m]}
Claimable == {m \in Message : status[m] \in {"pending", "failed"} /\ due[m]}

ClaimWebhookInboxMessages(w) ==
  /\ pc[w] = "claim"
  /\ status' = [m \in Message |->
       IF m \in Claimable THEN "processing" ELSE status[m]]
  /\ attempts' = [m \in Message |->
       IF m \in Claimable THEN attempts[m] + 1 ELSE attempts[m]]
  /\ lapsed' = [m \in Message |-> lapsed[m] /\ m \notin Claimable]
  /\ batch' = [batch EXCEPT ![w] =
       {[message |-> m, attempts |-> attempts[m] + 1, valid |-> valid[m]] :
          m \in Claimable}]
  /\ Goto(w, "take")
  /\ UNCHANGED <<valid, due, request, lock, current, outcome, acked,
                 faults, deliveries>>

TakeMessage(w, c) ==
  /\ pc[w] = "take" /\ c \in batch[w]
  /\ batch' = [batch EXCEPT ![w] = batch[w] \ {c}]
  /\ current' = [current EXCEPT ![w] = c]
  /\ Goto(w, "process")
  /\ UNCHANGED <<rowVars, request, lock, outcome, acked, faults,
                 deliveries>>

(* processInboxMessage: what was claimed decides whether the message can be
   processed at all; a call to the chain or a statement may fail. *)
Usable(c) == c.valid /\ c.message \notin Unusable

MessageRejected(w) ==
  /\ pc[w] = "process" /\ ~Usable(current[w])
  /\ outcome' = [outcome EXCEPT ![w] = "rejected"]
  /\ Goto(w, "mark")
  /\ UNCHANGED <<rowVars, request, lock, batch, current, acked, faults,
                 deliveries>>

MessageStored(w) ==
  /\ pc[w] = "process" /\ Usable(current[w])
  /\ outcome' = [outcome EXCEPT ![w] = "processed"]
  /\ Goto(w, "mark")
  /\ UNCHANGED <<rowVars, request, lock, batch, current, acked, faults,
                 deliveries>>

MessageFails(w) ==
  /\ pc[w] = "process" /\ Usable(current[w])
  /\ outcome' = [outcome EXCEPT ![w] = "retry"]
  /\ Goto(w, "mark")
  /\ UNCHANGED <<rowVars, request, lock, batch, current, acked, faults,
                 deliveries>>

(* The message's row is finished whoever has it now. *)
(* Variant: one attempt less. *)
ExhaustedEarly(c) == c.attempts + 1 >= MaxAttempts
Exhausted(c) == c.attempts >= MaxAttempts

Verdict(w) ==
  IF outcome[w] = "processed" THEN "processed"
  ELSE IF outcome[w] = "rejected" \/ Exhausted(current[w]) THEN "dead"
  ELSE "failed"

MarkMessage(w) ==
  LET m == current[w].message IN
  /\ pc[w] = "mark"
  /\ status' = [status EXCEPT ![m] = Verdict(w)]
  /\ due' = [due EXCEPT ![m] = due[m] /\ outcome[w] = "processed"]
  /\ lapsed' = [lapsed EXCEPT ![m] = FALSE]
  /\ current' = [current EXCEPT ![w] = NoClaim]
  /\ outcome' = [outcome EXCEPT ![w] = "retry"]
  /\ Goto(w, "take")
  /\ UNCHANGED <<attempts, valid, request, lock, batch, acked, faults,
                 deliveries>>

Unlock(w) == lock' = IF lock = w THEN NoWorker ELSE lock

EndCycle(w) ==
  /\ pc[w] = "take" /\ batch[w] = {}
  /\ Goto(w, "idle") /\ Unlock(w)
  /\ UNCHANGED <<rowVars, request, batch, current, outcome, acked, faults,
                 deliveries>>

-----------------------------------------------------------------------------
(* Failures *)

(* The process dies, or a statement fails and ends the cycle. *)
Crash(w) ==
  /\ pc[w] # "idle" /\ Fault
  /\ Goto(w, "idle")
  /\ batch' = [batch EXCEPT ![w] = {}]
  /\ current' = [current EXCEPT ![w] = NoClaim]
  /\ outcome' = [outcome EXCEPT ![w] = "retry"]
  /\ Unlock(w)
  /\ UNCHANGED <<rowVars, request, acked, deliveries>>

(* The session that holds the lock is lost; the worker goes on. *)
LoseLock(w) ==
  /\ lock = w /\ Fault
  /\ lock' = NoWorker
  /\ UNCHANGED <<rowVars, request, workVars, acked, deliveries>>

-----------------------------------------------------------------------------
Serve(q) == InsertMessage(q) \/ InsertConflict(q) \/ LookupMessage(q)
            \/ RearmMessage(q)

ProcessInbox(w) ==
  \/ AcquireLock(w) \/ RecoverStaleWebhookInbox(w)
  \/ ClaimWebhookInboxMessages(w)
  \/ \E c \in batch[w] : TakeMessage(w, c)
  \/ MessageRejected(w) \/ MessageStored(w) \/ MessageFails(w)
  \/ MarkMessage(w) \/ EndCycle(w)

Time == \E m \in Message : RetryFallsDue(m) \/ LeaseExpires(m) \/ Cleanup(m)

Next ==
  \/ \E q \in Request, m \in Message, ok \in BOOLEAN : AcceptWebhook(q, m, ok)
  \/ \E q \in Request : Serve(q) \/ RequestFails(q)
  \/ \E w \in Worker : ProcessInbox(w) \/ Crash(w) \/ LoseLock(w)
  \/ Time

Spec == Init /\ [][Next]_vars

(* The task runs at every tick, retries fall due and leases run out. *)
Fairness ==
  /\ \A w \in Worker : WF_vars(ProcessInbox(w))
  /\ \A m \in Message : WF_vars(RetryFallsDue(m)) /\ WF_vars(LeaseExpires(m))

FairSpec == Spec /\ Fairness

-----------------------------------------------------------------------------
(* Properties *)

(* While nothing fails a message has one worker: a claimed row is in the hands
   of the worker that holds the lock, once, and is still as it was claimed. *)
Busy == {"process", "mark"}
InHand(w) == batch[w] \cup (IF pc[w] \in Busy THEN {current[w]} ELSE {})

OneWorker ==
  /\ \A w \in Worker : pc[w] # "idle" => lock = w
  /\ \A m \in Message : status[m] = "processing" =>
       \E w \in Worker : \E c \in InHand(w) : c.message = m
  /\ \A w \in Worker : \A c \in InHand(w) :
       /\ status[c.message] = "processing"
       /\ c.attempts = attempts[c.message] /\ c.valid = valid[c.message]
  /\ \A w \in Worker : pc[w] \in Busy => current[w] \notin batch[w]

OneWorkerWithoutFaults == faults = 0 => OneWorker

(* While nothing fails, a message that was delivered with a valid signature and
   can be processed is given up only after all its attempts. *)
GivenUpAfterAllAttempts ==
  faults = 0 =>
    \A m \in Message \ Unusable :
      status[m] = "dead" /\ valid[m] => attempts[m] >= MaxAttempts

(* While nothing fails a processed message is not processed again: neither a
   resend, nor a recovery, nor another instance takes it up, until its row is
   removed. *)
ProcessedStaysProcessed ==
  [][\A m \in Message :
       faults = 0 /\ status[m] = "processed"
       => status'[m] \in {"processed", "none"}]_vars

(* A message in the inbox is processed or given up in the end. *)
MessagesSettle ==
  \A m \in Message :
    status[m] \in {"pending", "processing", "failed"}
      ~> status[m] \in {"processed", "dead", "none"}

(* What the handler says of its answer: Nodit treats a 200 as a successful
   delivery and does not send it again, so the row that answers for it must be
   one that can be processed. *)
AcknowledgedCanBeProcessed == \A m \in Message : acked[m] => valid[m]
============================================================================
