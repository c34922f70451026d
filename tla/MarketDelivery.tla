--------------------------- MODULE MarketDelivery --------------------------
(***************************************************************************)
(* The market alert pipeline: from a collected chain event to a message in *)
(* a DeBox chat (internal/marketrules/service.go and                       *)
(* internal/store/market_delivery.go, market_rules.go).                    *)
(*                                                                         *)
(* Every server instance runs the same rule-engine cycle.  The instances   *)
(* share one PostgreSQL database and exclude each other with a session     *)
(* advisory lock, which PostgreSQL releases when the connection that holds *)
(* it dies even though the worker goes on.  Beside the workers, the chain  *)
(* collector inserts, confirms, retracts and re-includes events, and the   *)
(* entitlement code pauses and restores the owner's rules.                 *)
(*                                                                         *)
(* An operator marked `Variant' is a wrong form of the one after it, used  *)
(* only to confirm that the properties notice the mistake.                 *)
(*                                                                         *)
(* A row of the outbox is either a rule event (an alert of one rule about  *)
(* one event) or a stage window (a digest of several alerts of one rule).  *)
(* Both tables carry the same delivery columns and are claimed, sent,      *)
(* completed and recovered by the same code.  Time is abstract: a back-off *)
(* or a lease is a flag that the clock may flip at any moment.             *)
(***************************************************************************)
EXTENDS Integers, FiniteSets

CONSTANTS
  Worker,        \* server instances running the rule engine
  RealtimeRule,  \* rules with delivery_mode 'realtime'
  StagedRule,    \* rules with delivery_mode 'stage'
  CooldownRule,  \* rules with cooldown_seconds > 0
  Threshold,     \* trigger_count_threshold of a staged rule
  NumEvents,     \* bound: market events, ids 1..NumEvents
  NumWindows,    \* bound: stage windows per staged rule
  MaxAttempts,   \* sends before a row is given up (5 in the code)
  DigestLimit,   \* alerts a digest names (5 in the code)
  MaxFaults,     \* bound: crashes, lost sessions, lost answers
  MaxReorgs,     \* bound: chain reorganizations
  MaxExpiries,   \* bound: how often the owner's plan runs out
  NoWorker

Rule  == RealtimeRule \cup StagedRule
Event == 1..NumEvents
Alert  == {"alert"} \X Rule \X Event
Window == {"window"} \X StagedRule \X (1..NumWindows)
Row    == Alert \cup Window

ASSUME DeliveryAssumption ==
  /\ Worker # {} /\ NoWorker \notin Worker
  /\ RealtimeRule \cap StagedRule = {}
  /\ Rule # {}
  /\ CooldownRule \subseteq Rule
  /\ Threshold \in [StagedRule -> Nat \ {0}]
  /\ NumEvents \in Nat \ {0}
  /\ NumWindows \in Nat \ {0}
  /\ MaxAttempts \in Nat \ {0} /\ DigestLimit \in Nat \ {0}
  /\ MaxFaults \in Nat /\ MaxReorgs \in Nat /\ MaxExpiries \in Nat

VARIABLES
  event,     \* event[e]: state of the row of market_events
  status,    \* notification_status of an outbox row, "none" when absent
  attempts,  \* notification_attempts
  due,       \* next_attempt_at <= NOW()
  lapsed,    \* notification_attempted_at < NOW() - 5 minutes
  members,   \* market_stage_window_events of a window
  count,     \* trigger_count of a window
  over,      \* ends_at <= NOW()
  closed,    \* closed_at is set
  plan,      \* the owner's paid plan: "paid" or "expired"
  active,    \* run_status = 'active' of a rule and of its project
  known,     \* the rule has a market_rule_target_states row
  cursor,    \* LastEventID in that row
  fired,     \* last_triggered_at of the rule is set
  lock,      \* holder of the "rule-engine" advisory lock
  pc,        \* where each worker is in its cycle
  todo,      \* rules the cycle still has to evaluate
  job,       \* the evaluation being persisted
  claims,    \* claimed rows the cycle still has to deliver
  current,   \* the row being delivered
  content,   \* what the message being delivered names, and what it covers
  result,    \* outcome of the send: "sent" or "failed"
  sent,      \* history: messages for a row that reached the chat
  carried,   \* history: alerts named by a message that reached the chat
  covered,   \* history: alerts such a message covers, named in it or not
  baseline,  \* history: the newest event a rule took as its start
  revived,   \* history: events re-included after a reorganization
  overtaken, \* history: alerts about events their rule had passed when they appeared
  faults, reorgs, expiries   \* counters for the bounds

chainVars  == <<event, revived, overtaken, reorgs>>
rowVars    == <<status, attempts, due, lapsed>>
windowVars == <<members, count, over, closed>>
planVars   == <<plan, active, expiries>>
ruleVars   == <<known, cursor, fired, baseline>>
chatVars   == <<sent, carried, covered>>
cycleVars  == <<pc, todo, job, claims, current, content, result>>
vars == <<chainVars, rowVars, windowVars, planVars, ruleVars, lock, cycleVars,
          chatVars, faults>>

-----------------------------------------------------------------------------
(* Types *)

EventState == {"absent", "unconfirmed", "confirmed", "reorged"}
Status == {"none", "staged", "collecting", "pending", "sending", "failed",
           "sent", "skipped"}
Step == {"idle", "reconcile", "recover", "list", "evaluate", "events",
         "persist", "stage", "deliver", "send", "complete", "members"}
Job == [rule : Rule, known : BOOLEAN, upTo : Nat, triggers : SUBSET Event,
        suppressed : SUBSET Event, created : BOOLEAN]

NoJob == [rule |-> CHOOSE r \in Rule : TRUE, known |-> FALSE, upTo |-> 0,
          triggers |-> {}, suppressed |-> {}, created |-> FALSE]
NoRow == CHOOSE x \in Row : TRUE
Content   == [named : SUBSET Event, covered : SUBSET Event]
NoContent == [named |-> {}, covered |-> {}]

TypeOK ==
  /\ event \in [Event -> EventState]
  /\ status \in [Row -> Status]
  /\ attempts \in [Row -> Nat]
  /\ due \in [Row -> BOOLEAN]
  /\ lapsed \in [Row -> BOOLEAN]
  /\ members \in [Window -> SUBSET Event]
  /\ count \in [Window -> Nat]
  /\ over \in [Window -> BOOLEAN]
  /\ closed \in [Window -> BOOLEAN]
  /\ plan \in {"paid", "expired"}
  /\ active \in [Rule -> BOOLEAN]
  /\ known \in [Rule -> BOOLEAN]
  /\ cursor \in [Rule -> Nat]
  /\ fired \in [Rule -> BOOLEAN]
  /\ baseline \in [Rule -> Nat]
  /\ lock \in Worker \cup {NoWorker}
  /\ pc \in [Worker -> Step]
  /\ todo \in [Worker -> SUBSET Rule]
  /\ job \in [Worker -> Job]
  /\ claims \in [Worker -> SUBSET Row]
  /\ current \in [Worker -> Row]
  /\ content \in [Worker -> Content]
  /\ result \in [Worker -> {"sent", "failed"}]
  /\ sent \in [Row -> Nat]
  /\ carried \in SUBSET Alert /\ covered \in SUBSET Alert
  /\ revived \in SUBSET Event /\ overtaken \in SUBSET Alert
  /\ faults \in Nat /\ reorgs \in Nat /\ expiries \in Nat

Init ==
  /\ event = [e \in Event |-> "absent"]
  /\ status = [x \in Row |-> "none"]
  /\ attempts = [x \in Row |-> 0]
  /\ due = [x \in Row |-> TRUE]
  /\ lapsed = [x \in Row |-> FALSE]
  /\ members = [w \in Window |-> {}]
  /\ count = [w \in Window |-> 0]
  /\ over = [w \in Window |-> FALSE]
  /\ closed = [w \in Window |-> FALSE]
  /\ plan = "paid"
  /\ active = [r \in Rule |-> TRUE]
  /\ known = [r \in Rule |-> FALSE]
  /\ cursor = [r \in Rule |-> 0]
  /\ fired = [r \in Rule |-> FALSE]
  /\ baseline = [r \in Rule |-> 0]
  /\ lock = NoWorker
  /\ pc = [w \in Worker |-> "idle"]
  /\ todo = [w \in Worker |-> {}]
  /\ job = [w \in Worker |-> NoJob]
  /\ claims = [w \in Worker |-> {}]
  /\ current = [w \in Worker |-> NoRow]
  /\ content = [w \in Worker |-> NoContent]
  /\ result = [w \in Worker |-> "failed"]
  /\ sent = [x \in Row |-> 0]
  /\ carried = {} /\ covered = {}
  /\ revived = {} /\ overtaken = {}
  /\ faults = 0 /\ reorgs = 0 /\ expiries = 0

-----------------------------------------------------------------------------
(* Helpers *)

AlertOf(r, e) == <<"alert", r, e>>
RuleOf(x)  == x[2]
EventOf(a) == a[3]

Least(S)    == CHOOSE i \in S : \A j \in S : i <= j
Greatest(S) == CHOOSE i \in S : \A j \in S : j <= i

Present(e) == event[e] # "absent"

(* The members of a window whose source event is still on the chain. *)
LiveMembers(x) == {e \in members[x] : event[e] # "reorged"}

(* The window a staged trigger joins: the open one (closed_at IS NULL). *)
OpenWindows(r) == {x \in Window : RuleOf(x) = r /\ status[x] # "none"
                                 /\ ~closed[x]}

(* Bound: a further window id is left for the rule. *)
SpareWindow(r) == status[<<"window", r, NumWindows>>] = "none"
NextWindow(r) ==
  <<"window", r,
    Least({i \in 1..NumWindows : status[<<"window", r, i>>] = "none"})>>

(* A lease only matters while its row is being sent. *)
KeepLeases == lapsed' = [x \in Row |-> lapsed[x] /\ status'[x] = "sending"]

CloseWindows(S) == closed' = [x \in Window |-> closed[x] \/ x \in S]

Goto(w, step) == pc' = [pc EXCEPT ![w] = step]
Fault == faults < MaxFaults /\ faults' = faults + 1

-----------------------------------------------------------------------------
(* The chain: market_events as the collector writes them.  A block holds one
   event here. *)

(* The rule's cursor, or an evaluation under way, lies behind the event. *)
Passed(r, e) ==
  \/ e <= cursor[r]
  \/ \E w \in Worker : job[w].rule = r /\ job[w].known /\ e <= job[w].upTo

(* An event takes its id before its transaction commits, and the scan and a
   webhook insert at the same time: a lower id may appear after a higher one. *)
InsertEvent(e, s) ==
  /\ event[e] = "absent"
  /\ s \in {"unconfirmed", "confirmed"}
  /\ event' = [event EXCEPT ![e] = s]
  /\ overtaken' = overtaken \cup {AlertOf(r, e) : r \in {r \in Rule : Passed(r, e)}}
  /\ UNCHANGED <<revived, reorgs, rowVars, windowVars, planVars, ruleVars, lock,
                 cycleVars, chatVars, faults>>

MarkMarketBlockConfirmed(e) ==
  /\ event[e] = "unconfirmed"
  /\ event' = [event EXCEPT ![e] = "confirmed"]
  /\ UNCHANGED <<revived, overtaken, reorgs, rowVars, windowVars, planVars, ruleVars, lock,
                 cycleVars, chatVars, faults>>

(* The alerts about a retracted event are dropped in the same transaction,
   unless a digest has taken them up ('staged'). *)
MarkMarketBlockReorged(e) ==
  /\ reorgs < MaxReorgs
  /\ event[e] \in {"unconfirmed", "confirmed"}
  /\ event' = [event EXCEPT ![e] = "reorged"]
  /\ reorgs' = reorgs + 1
  /\ status' = [x \in Row |->
       IF x \in Alert /\ EventOf(x) = e
          /\ status[x] \in {"pending", "sending", "failed"}
       THEN "skipped" ELSE status[x]]
  /\ KeepLeases
  /\ UNCHANGED <<revived, overtaken, attempts, due, windowVars, planVars, ruleVars, lock,
                 cycleVars, chatVars, faults>>

(* The transaction is included again: CreateMarketEvent revives the row, which
   keeps its id. *)
ReviveEvent(e, s) ==
  /\ event[e] = "reorged"
  /\ s \in {"unconfirmed", "confirmed"}
  /\ event' = [event EXCEPT ![e] = s]
  /\ revived' = revived \cup {e}
  /\ UNCHANGED <<overtaken, reorgs, rowVars, windowVars, planVars, ruleVars, lock,
                 cycleVars, chatVars, faults>>

-----------------------------------------------------------------------------
(* The clock *)

BackoffElapses(x) ==
  /\ ~due[x] /\ status[x] \in {"pending", "failed", "collecting"}
  /\ due' = [due EXCEPT ![x] = TRUE]
  /\ UNCHANGED <<chainVars, status, attempts, lapsed, windowVars, planVars,
                 ruleVars, lock, cycleVars, chatVars, faults>>

LeaseExpires(x) ==
  /\ status[x] = "sending" /\ ~lapsed[x]
  /\ lapsed' = [lapsed EXCEPT ![x] = TRUE]
  /\ UNCHANGED <<chainVars, status, attempts, due, windowVars, planVars,
                 ruleVars, lock, cycleVars, chatVars, faults>>

(* Only while a further window id is left (bound). *)
WindowEnds(x) ==
  /\ status[x] # "none" /\ ~closed[x] /\ ~over[x]
  /\ SpareWindow(RuleOf(x))
  /\ over' = [over EXCEPT ![x] = TRUE]
  /\ UNCHANGED <<chainVars, rowVars, members, count, closed, planVars, ruleVars,
                 lock, cycleVars, chatVars, faults>>

-----------------------------------------------------------------------------
(* Entitlements: the owner's plan runs out, is noticed, and is renewed. *)

PlanExpires ==
  /\ plan = "paid" /\ expiries < MaxExpiries
  /\ plan' = "expired" /\ expiries' = expiries + 1
  /\ UNCHANGED <<chainVars, rowVars, windowVars, active, ruleVars, lock,
                 cycleVars, chatVars, faults>>

(* The statements end whatever is not settled. *)
(* Variant: what was sent is skipped too. *)
PausedStatusForgetsSent(s) == IF s = "none" THEN s ELSE "skipped"
PausedStatus(s) == IF s \in {"none", "sent"} THEN s ELSE "skipped"

(* The owner's rules stop and everything not settled is given up, whatever the
   workers are doing. *)
PauseResources ==
  /\ \A r \in StagedRule : SpareWindow(r)
  /\ status' = [x \in Row |-> PausedStatus(status[x])]
  /\ CloseWindows({x \in Window : status[x] \notin {"none", "sent", "skipped"}})
  /\ active' = [r \in Rule |-> FALSE]
  /\ KeepLeases

(* ApplyPaidExpiryFallback, on a request of the owner, and the engine's safety
   net ApplyExpiredEntitlementFallbacks. *)
PauseExpiredUserResources ==
  /\ plan = "expired"
  /\ \E r \in Rule : active[r]
  /\ PauseResources
  /\ UNCHANGED <<chainVars, attempts, due, members, count, over, plan, expiries,
                 ruleVars, lock, cycleVars, chatVars, faults>>

(* activateSubscription pauses once more what the expired plan left behind. *)
Renew ==
  /\ plan = "expired"
  /\ plan' = "paid"
  /\ PauseResources
  /\ UNCHANGED <<chainVars, attempts, due, members, count, over, expiries,
                 ruleVars, lock, cycleVars, chatVars, faults>>

(* By the owner (RestoreMarketRuleWithinQuota) or by ReconcileUserEntitlements. *)
RestoreMarketRule(r) ==
  /\ plan = "paid" /\ ~active[r]
  /\ active' = [active EXCEPT ![r] = TRUE]
  /\ UNCHANGED <<chainVars, rowVars, windowVars, plan, expiries, ruleVars, lock,
                 cycleVars, chatVars, faults>>

-----------------------------------------------------------------------------
(* One cycle of a worker (RunCycle) *)

(* pg_try_advisory_lock *)
TryLock(w) == lock = NoWorker /\ lock' = w

AcquireLock(w) ==
  /\ pc[w] = "idle" /\ TryLock(w)
  /\ Goto(w, "reconcile")
  /\ UNCHANGED <<chainVars, rowVars, windowVars, planVars, ruleVars, todo, job,
                 claims, current, content, result, chatVars, faults>>

Unlock(w) == lock' = IF lock = w THEN NoWorker ELSE lock

(* The cycle is over: its memory is gone and the deferred unlock frees the
   lock, unless the session that held it is already dead. *)
EndCycle(w) ==
  /\ Goto(w, "idle")
  /\ todo' = [todo EXCEPT ![w] = {}]
  /\ job' = [job EXCEPT ![w] = NoJob]
  /\ claims' = [claims EXCEPT ![w] = {}]
  /\ current' = [current EXCEPT ![w] = NoRow]
  /\ content' = [content EXCEPT ![w] = NoContent]
  /\ result' = [result EXCEPT ![w] = "failed"]
  /\ Unlock(w)

(* Alerts about retracted events are dropped, and the open windows recounted
   without them. *)
(* Variant: skipped windows are recounted too. *)
RecountSkippedToo(x) == x \in Window /\ ~closed[x] /\ status[x] \notin {"none", "sent"}
RecountedWindow(x) ==
  x \in Window /\ ~closed[x] /\ status[x] \notin {"none", "sent", "skipped"}

(* Variant: a window below the threshold keeps its status. *)
RecountOnlyRaises(x) ==
  IF status[x] # "sending" /\ Cardinality(LiveMembers(x)) >= Threshold[RuleOf(x)]
  THEN "pending" ELSE status[x]
RecountedStatus(x) ==
  IF status[x] = "sending" THEN "sending"
  ELSE IF Cardinality(LiveMembers(x)) >= Threshold[RuleOf(x)]
       THEN "pending" ELSE "collecting"

ReconcileMarketNotificationSources(w) ==
  /\ pc[w] = "reconcile"
  /\ status' = [x \in Row |->
       IF x \in Alert
       THEN IF event[EventOf(x)] = "reorged"
               /\ status[x] \in {"pending", "sending", "failed", "staged"}
            THEN "skipped" ELSE status[x]
       ELSE IF RecountedWindow(x) THEN RecountedStatus(x) ELSE status[x]]
  /\ count' = [x \in Window |->
       IF RecountedWindow(x) THEN Cardinality(LiveMembers(x)) ELSE count[x]]
  /\ KeepLeases
  /\ Goto(w, "recover")
  /\ UNCHANGED <<chainVars, attempts, due, members, over, closed, planVars,
                 ruleVars, lock, todo, job, claims, current, content, result,
                 chatVars, faults>>

(* A row whose lease ran out is offered again; the attempt is not counted. *)
(* Variant: the windows' table is forgotten. *)
StaleAlertsOnly(x) == x \in Alert /\ status[x] = "sending" /\ lapsed[x]
Stale(x) == status[x] = "sending" /\ lapsed[x]

RecoverStaleMarketDeliveries(w) ==
  /\ pc[w] = "recover"
  /\ status' = [x \in Row |-> IF Stale(x) THEN "failed" ELSE status[x]]
  /\ due' = [x \in Row |-> due[x] \/ Stale(x)]
  /\ KeepLeases
  /\ Goto(w, "list")
  /\ UNCHANGED <<chainVars, attempts, windowVars, planVars, ruleVars, lock, todo,
                 job, claims, current, content, result, chatVars, faults>>

ListEnabledMarketRules(w) ==
  /\ pc[w] = "list"
  /\ todo' = [todo EXCEPT ![w] = {r \in Rule : active[r]}]
  /\ Goto(w, "evaluate")
  /\ UNCHANGED <<chainVars, rowVars, windowVars, planVars, ruleVars, lock, job,
                 claims, current, content, result, chatVars, faults>>

-----------------------------------------------------------------------------
(* evaluateMultiChainRule, for a rule with one deployment *)

(* The project was paused since the rules were listed. *)
SkipPausedRule(w, r) ==
  /\ pc[w] = "evaluate" /\ r \in todo[w] /\ ~active[r]
  /\ todo' = [todo EXCEPT ![w] = @ \ {r}]
  /\ UNCHANGED <<chainVars, rowVars, windowVars, planVars, ruleVars, lock, pc,
                 job, claims, current, content, result, chatVars, faults>>

LoadMarketRuleTargetState(w, r) ==
  /\ pc[w] = "evaluate" /\ r \in todo[w] /\ active[r]
  /\ job' = [job EXCEPT ![w] =
       [NoJob EXCEPT !.rule = r, !.known = known[r], !.upTo = cursor[r]]]
  /\ todo' = [todo EXCEPT ![w] = @ \ {r}]
  /\ Goto(w, "events")
  /\ UNCHANGED <<chainVars, rowVars, windowVars, planVars, ruleVars, lock,
                 claims, current, content, result, chatVars, faults>>

(* The first evaluation only takes the newest event as its baseline. *)
EstablishBaseline(w) ==
  /\ pc[w] = "events" /\ ~job[w].known
  /\ job' = [job EXCEPT ![w].upTo =
               Greatest({0} \cup {e \in Event : Present(e)})]
  /\ Goto(w, "persist")
  /\ UNCHANGED <<chainVars, rowVars, windowVars, planVars, ruleVars, lock, todo,
                 claims, current, content, result, chatVars, faults>>

(* evaluateEventRule: the events after the cursor, in id order, up to the first
   one that is not confirmed.  Retracted events are passed over.  While the
   cooldown runs nothing triggers; a rule with a cooldown triggers once and the
   rest is suppressed.  last_triggered_at lies in the past, so the cooldown may
   always have run out. *)
After(cur)   == {e \in Event : e > cur /\ Present(e)}
Blocked(cur) == {e \in After(cur) : event[e] = "unconfirmed"}
(* Variant: the cursor passes the unconfirmed event. *)
ReachedWithBlocked(cur) == IF Blocked(cur) = {} THEN Greatest({cur} \cup After(cur))
                           ELSE Least(Blocked(cur))
Reached(cur) == IF Blocked(cur) = {} THEN Greatest({cur} \cup After(cur))
                ELSE Least(Blocked(cur)) - 1
Matched(cur) == {e \in After(cur) : e <= Reached(cur) /\ event[e] = "confirmed"}
Triggers(r, cur, available) ==
  IF ~available \/ Matched(cur) = {} THEN {}
  ELSE IF r \in CooldownRule THEN {Least(Matched(cur))} ELSE Matched(cur)

EvaluateRule(w, available) ==
  LET r == job[w].rule
      cur == job[w].upTo
      triggers == Triggers(r, cur, available)
  IN /\ pc[w] = "events" /\ job[w].known
     /\ ~available => r \in CooldownRule /\ fired[r]
     /\ job' = [job EXCEPT ![w].upTo = Reached(cur),
                           ![w].triggers = triggers,
                           ![w].suppressed = Matched(cur) \ triggers]
     /\ Goto(w, "persist")
     /\ UNCHANGED <<chainVars, rowVars, windowVars, planVars, ruleVars, lock,
                    todo, claims, current, content, result, chatVars, faults>>

-----------------------------------------------------------------------------
(* persistEvaluation: the triggers one by one, then the suppressed ones.  Every
   statement is a transaction of its own. *)

TriggerOf(w) == AlertOf(job[w].rule, Least(job[w].triggers))
SuppressedOf(w) == AlertOf(job[w].rule, Least(job[w].suppressed))
NextTrigger(w) ==
  [job EXCEPT ![w].triggers = @ \ {Least(job[w].triggers)}]
NextSuppressed(w) ==
  [job EXCEPT ![w].suppressed = @ \ {Least(job[w].suppressed)}]
MoreTriggers(w) == pc[w] = "persist" /\ job[w].triggers # {}
MoreSuppressed(w) ==
  pc[w] = "persist" /\ job[w].triggers = {} /\ job[w].suppressed # {}
Evaluated(w) ==
  pc[w] = "persist" /\ job[w].triggers = {} /\ job[w].suppressed = {}

(* CreateMarketRuleEvent finds the alert already there. *)
KeepExistingAlert(w) ==
  /\ \/ /\ MoreTriggers(w)
        /\ status[TriggerOf(w)] # "none"
        /\ job' = NextTrigger(w)
     \/ /\ MoreSuppressed(w)
        /\ status[SuppressedOf(w)] # "none"
        /\ job' = NextSuppressed(w)
  /\ UNCHANGED <<chainVars, rowVars, windowVars, planVars, ruleVars, lock, pc,
                 todo, claims, current, content, result, chatVars, faults>>

(* CreateMarketRuleEvent inserts the alert.  The rule may have been paused
   meanwhile: the statement does not look. *)
CreateMarketRuleEvent(w) ==
  LET a == TriggerOf(w) IN
  /\ MoreTriggers(w)
  /\ status[a] = "none" /\ event[EventOf(a)] # "reorged"
  /\ IF RuleOf(a) \in StagedRule
     THEN /\ status' = [status EXCEPT ![a] = "staged"]
          /\ Goto(w, "stage")
          /\ job' = [job EXCEPT ![w].created = TRUE]
     ELSE /\ status' = [status EXCEPT ![a] = "pending"]
          /\ Goto(w, "persist")
          /\ job' = [NextTrigger(w) EXCEPT ![w].created = TRUE]
  /\ UNCHANGED <<chainVars, attempts, due, lapsed, windowVars, planVars, ruleVars,
                 lock, todo, claims, current, content, result, chatVars, faults>>

SuppressTrigger(w) ==
  LET a == SuppressedOf(w) IN
  /\ MoreSuppressed(w)
  /\ status[a] = "none" /\ event[EventOf(a)] # "reorged"
  /\ status' = [status EXCEPT ![a] = "skipped"]
  /\ job' = NextSuppressed(w)
  /\ UNCHANGED <<chainVars, attempts, due, lapsed, windowVars, planVars, ruleVars,
                 lock, pc, todo, claims, current, content, result, chatVars,
                 faults>>

(* The event was retracted since it was read: ErrInvalidMarketRuleEvent ends
   the cycle, and with it every rule and delivery it had still to do. *)
RefuseTrigger(w) ==
  /\ \/ /\ MoreTriggers(w)
        /\ status[TriggerOf(w)] = "none"
        /\ event[EventOf(TriggerOf(w))] = "reorged"
     \/ /\ MoreSuppressed(w)
        /\ status[SuppressedOf(w)] = "none"
        /\ event[EventOf(SuppressedOf(w))] = "reorged"
  /\ EndCycle(w)
  /\ UNCHANGED <<chainVars, rowVars, windowVars, planVars, ruleVars, chatVars,
                 faults>>

-----------------------------------------------------------------------------
(* RecordMarketStageTrigger: the staged alert joins the open window of its
   rule, or a new one when there is none or its time is over. *)

StagedAlert(w) == TriggerOf(w)
(* Variant: a first window is never made. *)
CanStageIntoOpenWindow(w) ==
  LET a == StagedAlert(w) IN
  status[a] = "staged" /\ active[RuleOf(a)] /\ event[EventOf(a)] # "reorged"
  /\ OpenWindows(RuleOf(a)) # {}
CanStage(w) ==
  LET a == StagedAlert(w) IN
  status[a] = "staged" /\ active[RuleOf(a)] /\ event[EventOf(a)] # "reorged"

RecordMarketStageTrigger(w) ==
  LET a == StagedAlert(w)
      r == RuleOf(a)
      open == OpenWindows(r)
      ended == {x \in open : over[x]}
      win == IF open \ ended # {} THEN CHOOSE x \in open \ ended : TRUE
             ELSE NextWindow(r)
      was == IF status[win] = "none" THEN "collecting" ELSE status[win]
      late == was \in {"sent", "sending", "skipped"}
      reached == was = "collecting" /\ count[win] + 1 >= Threshold[r]
  IN /\ pc[w] = "stage" /\ CanStage(w)
     /\ members' = [members EXCEPT ![win] = @ \cup {EventOf(a)}]
     /\ count' = [count EXCEPT ![win] = @ + 1]
     /\ CloseWindows(ended)
     /\ status' = [x \in Row |->
          IF x = win THEN IF reached THEN "pending" ELSE was
          ELSE IF x \in ended /\ status[x] = "collecting" THEN "skipped"
          ELSE IF x = a /\ late THEN "skipped"
          ELSE status[x]]
     /\ due' = [due EXCEPT ![win] = @ \/ reached]
     /\ job' = NextTrigger(w)
     /\ Goto(w, "persist")
     /\ UNCHANGED <<chainVars, attempts, lapsed, over, planVars, ruleVars, lock,
                    todo, claims, current, content, result, chatVars, faults>>

(* ErrNotFound ends the cycle; the alert stays staged without a window. *)
RefuseStageTrigger(w) ==
  /\ pc[w] = "stage" /\ ~CanStage(w)
  /\ EndCycle(w)
  /\ UNCHANGED <<chainVars, rowVars, windowVars, planVars, ruleVars, chatVars,
                 faults>>

(* UpdateMarketRuleTargetState and UpdateMarketRuleState.  The cursor is
   written whatever another worker has written since it was read. *)
UpdateMarketRuleState(w) ==
  LET r == job[w].rule IN
  /\ Evaluated(w)
  /\ known' = [known EXCEPT ![r] = TRUE]
  /\ cursor' = [cursor EXCEPT ![r] = job[w].upTo]
  /\ fired' = [fired EXCEPT ![r] = @ \/ job[w].created]
  /\ baseline' = IF job[w].known THEN baseline
                 ELSE [baseline EXCEPT ![r] = Greatest({@, job[w].upTo})]
  /\ job' = [job EXCEPT ![w] = NoJob]
  /\ Goto(w, "evaluate")
  /\ UNCHANGED <<chainVars, rowVars, windowVars, planVars, lock, todo, claims,
                 current, content, result, chatVars, faults>>

-----------------------------------------------------------------------------
(* Delivery *)

(* Claimed rows: the batch of 200 holds every row of the model. *)
(* Variant: the last attempt is not made. *)
ClaimableButLast(x) ==
  /\ status[x] \in {"pending", "failed"}
  /\ due[x] /\ attempts[x] + 1 < MaxAttempts
  /\ active[RuleOf(x)]
  /\ x \in Alert => event[EventOf(x)] # "reorged"
Claimable(x) ==
  /\ status[x] \in {"pending", "failed"}
  /\ due[x] /\ attempts[x] < MaxAttempts
  /\ active[RuleOf(x)]
  /\ x \in Alert => event[EventOf(x)] # "reorged"

ClaimMarketDeliveries(w) ==
  LET rows == {x \in Row : Claimable(x)} IN
  /\ pc[w] = "evaluate" /\ todo[w] = {}
  /\ claims' = [claims EXCEPT ![w] = rows]
  /\ status' = [x \in Row |-> IF x \in rows THEN "sending" ELSE status[x]]
  /\ lapsed' = [x \in Row |-> lapsed[x] /\ x \notin rows]
  /\ Goto(w, "deliver")
  /\ UNCHANGED <<chainVars, attempts, due, windowVars, planVars, ruleVars, lock,
                 todo, job, current, content, result, chatVars, faults>>

(* A digest lists the DigestLimit newest of the members that are on the chain;
   which are newest is left open.  It covers them all: one it does not name is
   only part of its number, and marked sent with the others. *)
Listings(x) ==
  IF Cardinality(LiveMembers(x)) <= DigestLimit THEN {LiveMembers(x)}
  ELSE {S \in SUBSET LiveMembers(x) : Cardinality(S) = DigestLimit}

Contents(x) ==
  IF x \in Alert THEN {[named |-> {EventOf(x)}, covered |-> {EventOf(x)}]}
  ELSE {[named |-> S, covered |-> LiveMembers(x)] : S \in Listings(x)}

(* A row that is no longer being sent, or whose event was retracted, is not
   sent but completed as failed. *)
LoadMarketDelivery(w, x) ==
  LET loaded == /\ status[x] = "sending"
                /\ x \in Alert => event[EventOf(x)] # "reorged"
  IN /\ pc[w] = "deliver" /\ x \in claims[w]
     /\ claims' = [claims EXCEPT ![w] = @ \ {x}]
     /\ current' = [current EXCEPT ![w] = x]
     /\ \E c \in (IF loaded THEN Contents(x) ELSE {NoContent}) :
          content' = [content EXCEPT ![w] = c]
     /\ Goto(w, IF loaded THEN "send" ELSE "complete")
     /\ UNCHANGED <<chainVars, rowVars, windowVars, planVars, ruleVars, lock,
                    todo, job, result, chatVars, faults>>

ReachesChat(w) ==
  LET AlertsOf(S) == {AlertOf(RuleOf(current[w]), e) : e \in S} IN
  /\ sent' = [sent EXCEPT ![current[w]] = @ + 1]
  /\ carried' = carried \cup AlertsOf(content[w].named)
  /\ covered' = covered \cup AlertsOf(content[w].covered)

(* The bot API answers, refuses, or delivers the message while its answer is
   lost. *)
SendAccepted(w) ==
  /\ pc[w] = "send"
  /\ ReachesChat(w)
  /\ result' = [result EXCEPT ![w] = "sent"]
  /\ Goto(w, "complete")
  /\ UNCHANGED <<chainVars, rowVars, windowVars, planVars, ruleVars, lock, todo,
                 job, claims, current, content, faults>>

SendRefused(w) ==
  /\ pc[w] = "send"
  /\ Goto(w, "complete")
  /\ UNCHANGED <<chainVars, rowVars, windowVars, planVars, ruleVars, lock, todo,
                 job, claims, current, content, result, chatVars, faults>>

SendUnanswered(w) ==
  /\ pc[w] = "send" /\ Fault
  /\ ReachesChat(w)
  /\ Goto(w, "complete")
  /\ UNCHANGED <<chainVars, rowVars, windowVars, planVars, ruleVars, lock, todo,
                 job, claims, current, content, result>>

DeliveryOver(w) ==
  /\ current' = [current EXCEPT ![w] = NoRow]
  /\ content' = [content EXCEPT ![w] = NoContent]
  /\ result' = [result EXCEPT ![w] = "failed"]
  /\ Goto(w, "deliver")

(* The row is completed by whoever finds it 'sending': a claim has no owner. *)
(* Variant: the outcome is not looked at. *)
CompletedForgetsAnswer(w, x) ==
  IF attempts[x] + 1 >= MaxAttempts THEN "skipped" ELSE "failed"
CompletedStatus(w, x) ==
  IF result[w] = "sent" THEN "sent"
  ELSE IF attempts[x] + 1 >= MaxAttempts THEN "skipped" ELSE "failed"

CompleteMarketDelivery(w) ==
  LET x == current[w] IN
  /\ pc[w] = "complete" /\ status[x] = "sending"
  /\ status' = [status EXCEPT ![x] = CompletedStatus(w, x)]
  /\ attempts' = [attempts EXCEPT ![x] = @ + 1]
  /\ due' = [due EXCEPT ![x] = @ /\ result[w] = "sent"]
  /\ KeepLeases
  /\ IF result[w] = "sent" /\ x \in Window
     THEN Goto(w, "members") /\ UNCHANGED <<current, content, result>>
     ELSE DeliveryOver(w)
  /\ UNCHANGED <<chainVars, windowVars, planVars, ruleVars, lock, todo, job,
                 claims, chatVars, faults>>

(* The row was settled or recovered meanwhile (ErrNotFound). *)
CompleteNothing(w) ==
  /\ pc[w] = "complete" /\ status[current[w]] # "sending"
  /\ DeliveryOver(w)
  /\ UNCHANGED <<chainVars, rowVars, windowVars, planVars, ruleVars, lock, todo,
                 job, claims, chatVars, faults>>

(* The alerts of a digest that was sent; a statement of its own. *)
(* Variant: late alerts are marked too. *)
TakenUpLate(x, a) ==
  /\ RuleOf(a) = RuleOf(x) /\ EventOf(a) \in members[x]
  /\ status[a] \in {"staged", "skipped"}
TakenUp(x, a) ==
  /\ RuleOf(a) = RuleOf(x) /\ EventOf(a) \in members[x]
  /\ status[a] = "staged"

MarkMembersSent(w) ==
  LET x == current[w] IN
  /\ pc[w] = "members"
  /\ status' = [a \in Row |->
       IF a \in Alert /\ TakenUp(x, a) THEN "sent" ELSE status[a]]
  /\ DeliveryOver(w)
  /\ UNCHANGED <<chainVars, attempts, due, lapsed, windowVars, planVars, ruleVars,
                 lock, todo, job, claims, chatVars, faults>>

(* The statement fails; CompleteMarketDelivery's callers go on regardless. *)
CompletionLost(w) ==
  /\ pc[w] \in {"complete", "members"} /\ Fault
  /\ DeliveryOver(w)
  /\ UNCHANGED <<chainVars, rowVars, windowVars, planVars, ruleVars, lock, todo,
                 job, claims, chatVars>>

FinishCycle(w) ==
  /\ pc[w] = "deliver" /\ claims[w] = {}
  /\ EndCycle(w)
  /\ UNCHANGED <<chainVars, rowVars, windowVars, planVars, ruleVars, chatVars,
                 faults>>

-----------------------------------------------------------------------------
(* Failures *)

(* The process dies, or a statement outside the deliveries fails: the cycle is
   given up where it stands. *)
Crash(w) ==
  /\ pc[w] # "idle" /\ Fault
  /\ EndCycle(w)
  /\ UNCHANGED <<chainVars, rowVars, windowVars, planVars, ruleVars, chatVars>>

(* The session that holds the advisory lock dies; the worker does not notice. *)
LoseLock(w) ==
  /\ lock = w /\ Fault
  /\ lock' = NoWorker
  /\ UNCHANGED <<chainVars, rowVars, windowVars, planVars, ruleVars, cycleVars,
                 chatVars>>

-----------------------------------------------------------------------------
Chain ==
  \E e \in Event :
    \/ \E s \in {"unconfirmed", "confirmed"} : InsertEvent(e, s)
    \/ \E s \in {"unconfirmed", "confirmed"} : ReviveEvent(e, s)
    \/ MarkMarketBlockConfirmed(e)
    \/ MarkMarketBlockReorged(e)

Clock ==
  \/ \E x \in Row : BackoffElapses(x) \/ LeaseExpires(x)
  \/ \E x \in Window : WindowEnds(x)

Entitlements ==
  \/ PlanExpires \/ PauseExpiredUserResources \/ Renew
  \/ \E r \in Rule : RestoreMarketRule(r)

RunCycle(w) ==
  \/ AcquireLock(w)
  \/ ReconcileMarketNotificationSources(w)
  \/ RecoverStaleMarketDeliveries(w)
  \/ ListEnabledMarketRules(w)
  \/ \E r \in Rule : SkipPausedRule(w, r) \/ LoadMarketRuleTargetState(w, r)
  \/ EstablishBaseline(w)
  \/ \E available \in BOOLEAN : EvaluateRule(w, available)
  \/ KeepExistingAlert(w) \/ CreateMarketRuleEvent(w)
  \/ SuppressTrigger(w) \/ RefuseTrigger(w)
  \/ RecordMarketStageTrigger(w) \/ RefuseStageTrigger(w)
  \/ UpdateMarketRuleState(w)
  \/ ClaimMarketDeliveries(w)
  \/ \E x \in Row : LoadMarketDelivery(w, x)
  \/ SendAccepted(w) \/ SendRefused(w)
  \/ CompleteMarketDelivery(w) \/ CompleteNothing(w) \/ MarkMembersSent(w)
  \/ FinishCycle(w)

Failures(w) ==
  SendUnanswered(w) \/ CompletionLost(w) \/ Crash(w) \/ LoseLock(w)

Next ==
  \/ Chain \/ Clock \/ Entitlements
  \/ \E w \in Worker : RunCycle(w) \/ Failures(w)

Spec == Init /\ [][Next]_vars

(* The runner starts a cycle every few seconds and a cycle that no failure
   ends runs to its end; time passes. *)
Fairness ==
  /\ \A w \in Worker : WF_vars(RunCycle(w))
  /\ \A x \in Row : WF_vars(BackoffElapses(x)) /\ WF_vars(LeaseExpires(x))

FairSpec == Spec /\ Fairness

-----------------------------------------------------------------------------
(* Safety *)

(* A row that is not settled can still be claimed: it has attempts left.  A row
   left unsettled with its attempts used up would never be looked at again,
   since ClaimMarketDeliveries passes over it. *)
UnsettledHasAttempts ==
  \A x \in Row :
    status[x] \notin {"sent", "skipped"} => attempts[x] < MaxAttempts

(* Without a failure no row is sent twice, whatever the chain, the clock and
   the plan do meanwhile. *)
SentOnceWithoutFaults == faults = 0 => \A x \in Row : sent[x] <= 1

(* While no session was lost and no worker crashed, only the holder of the lock
   is inside a cycle. *)
CyclesExclude ==
  faults = 0 => \A w \in Worker : pc[w] # "idle" => lock = w

(* Why: as long as nothing fails, a row is handed over from its claim to its
   completion in the cycle of the worker that holds the lock.  Every row being
   sent is in that worker's hands and nobody else touches what it holds, nothing
   it still has to send was sent before, and a row that was sent is settled or
   about to be. *)
InHand(w, x) ==
  x \in claims[w] \/ (pc[w] \in {"send", "complete"} /\ current[w] = x)
Delivering == {"deliver", "send", "complete", "members"}

Handover ==
  /\ \A w \in Worker : pc[w] # "idle" => lock = w
  /\ \A w \in Worker : pc[w] \notin Delivering => claims[w] = {}
  /\ \A w \in Worker : pc[w] \notin {"complete", "members"} => result[w] = "failed"
  /\ \A w \in Worker : \A x \in claims[w] :
       sent[x] = 0 /\ (pc[w] # "deliver" => current[w] # x)
  /\ \A w \in Worker : pc[w] = "send" => sent[current[w]] = 0
  /\ \A w \in Worker :
       pc[w] = "complete" /\ result[w] = "failed" => sent[current[w]] = 0
  /\ \A x \in Row : status[x] = "sending" => \E w \in Worker : InHand(w, x)
  /\ \A w \in Worker : \A x \in Row :
       InHand(w, x) => status[x] \in {"sending", "sent", "skipped"}
  /\ \A x \in Row : sent[x] # 0 =>
       /\ sent[x] = 1
       /\ \/ status[x] \in {"sent", "skipped"}
          \/ \E w \in Worker : /\ pc[w] = "complete" /\ current[w] = x
                               /\ result[w] = "sent"

HandoverWithoutFaults == faults = 0 => Handover

(* A digest waits to be sent only after its window reached the threshold, also
   when retracted members were taken out and the window was recounted. *)
PendingDigestReachedThreshold ==
  \A x \in Window :
    status[x] = "pending" => count[x] >= Threshold[RuleOf(x)]

(* Every event a rule's cursor has passed left its mark: an alert, or a
   suppressed one.  Exempt are events up to the rule's baseline, events not on
   the chain, events that came back after a reorganization, and events that
   appeared behind the cursor or behind an evaluation under way. *)
PassedEventsAreAnnounced ==
  \A r \in Rule : \A e \in Event \ revived :
    known[r] /\ baseline[r] < e /\ e <= cursor[r] /\ event[e] = "confirmed"
    => status[AlertOf(r, e)] # "none" \/ AlertOf(r, e) \in overtaken

(* A staged alert is in a window, or a worker is about to put it there: it is
   lost from its digest only by a failure, a reorganization or a pause that
   comes between the two transactions. *)
InSomeWindow(a) ==
  \E x \in Window : RuleOf(x) = RuleOf(a) /\ EventOf(a) \in members[x]
BeingStaged(a) == \E w \in Worker : pc[w] = "stage" /\ StagedAlert(w) = a
StagedAlertsAreCounted ==
  \A a \in Alert :
    status[a] = "staged" /\ faults = 0 /\ reorgs = 0 /\ expiries = 0
    => InSomeWindow(a) \/ BeingStaged(a)

(* What the test TestEvaluateDoesNotAdvancePastUnconfirmedEvent asks of one
   evaluation, of the whole program: an event that waits for its confirmation
   lies ahead of the cursor of every rule that started before it. *)
UnconfirmedAheadOfCursor ==
  \A r \in Rule : \A e \in Event :
    known[r] /\ baseline[r] < e /\ event[e] = "unconfirmed" => cursor[r] < e

-----------------------------------------------------------------------------
(* What a step may never do *)

(* What is settled stays settled: neither the recount after a reorganization,
   nor the recovery of leases, nor a late worker, nor a late member of a digest
   takes up again a row that was sent or given up. *)
SettledStaysSettled ==
  [][\A x \in Row :
       status[x] \in {"sent", "skipped"} => status'[x] = status[x]]_vars

-----------------------------------------------------------------------------
(* The pipeline implements the abstract outbox. *)

FateOf(a) ==
  CASE status[a] = "none"    -> "none"
    [] status[a] = "sent"    -> "delivered"
    [] status[a] = "skipped" -> "dropped"
    [] OTHER                 -> "open"

(* A message has told of the alert: it names it, or it covers it and the window
   it is in had as many others named as a digest holds. *)
NamedOf(x)  == {e \in members[x] : AlertOf(RuleOf(x), e) \in carried}
Reported(a) ==
  \/ a \in carried
  \/ /\ a \in covered
     /\ \E x \in Window : /\ RuleOf(x) = RuleOf(a) /\ EventOf(a) \in members[x]
                          /\ Cardinality(NamedOf(x)) >= DigestLimit

Outbox == INSTANCE AlertOutbox WITH
  fate    <- [a \in Alert |-> FateOf(a)],
  reached <- [a \in Alert |-> Reported(a)]

(* An alert is announced once, its fate is sealed once, and it counts as
   delivered only when a message that tells of it has reached the chat. *)
RefinesOutbox == Outbox!OutboxSpec

(* The same of digests, with two exceptions.  A member that is retracted while
   its digest is being sent is marked with the others.  So is one that joins
   meanwhile, which takes a second worker that got the lock after a failure. *)
NoRival == faults = 0 \/ \A v, w \in Worker : v = w
DigestsRefineOutbox == [][reorgs' = 0 /\ NoRival' => Outbox!OutboxNext]_vars

-----------------------------------------------------------------------------
(* Liveness *)

(* What is waiting to be sent is settled, goes back to collecting after a
   reorganization, or belongs to a rule that was paused: neither crashes nor
   refused messages leave a row hanging. *)
DeliveriesSettle ==
  \A x \in Row :
    status[x] \in {"pending", "sending", "failed"}
      ~> status[x] \in {"sent", "skipped", "collecting"} \/ ~active[RuleOf(x)]

============================================================================
