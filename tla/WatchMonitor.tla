----------------------------- MODULE WatchMonitor ----------------------------
(***************************************************************************)
(* The monitor of watch rules of one user (internal/monitor/executor.go,   *)
(* runner.go, internal/store/rules.go, events.go, aggregations.go,         *)
(* combinations.go).  A cycle of an instance, or the first check of a rule *)
(* that a request has just created, runs under one session lock: it reads  *)
(* the chain, stores the value, compares it with the one the rule had when *)
(* it was listed, and records and sends an alert at once or counts it in   *)
(* the open window of the rule or of its combination.                      *)
(*                                                                         *)
(* Between two statements and around every call the user, the chain, the   *)
(* clock, other instances and faults act.  Balances are small integers.    *)
(*                                                                         *)
(* An operator marked `Variant' is a wrong form of the one after it, used  *)
(* only to confirm that the properties notice the mistake.                 *)
(***************************************************************************)
EXTENDS Integers, FiniteSets, Sequences, SequencesExt

CONSTANTS
  Realtime, Staged,    \* standalone rules by delivery_mode
  Combos, Members,     \* Members[c]: member rules of combination c
  Type, Threshold,     \* of each rule
  Need,                \* trigger_count_threshold, or required_trigger_count of a member
  FirstChecked,        \* balance threshold rules, checked when they are created
  Unreadable,          \* rules whose chain calls always fail
  CycleLimit,          \* rules of a cycle (200 in the code)
  DailyLimit,          \* alerts a free user gets in a day
  Instances, Page,     \* the running instances; the request that creates a rule
  MaxBalance, MaxMoves, MaxChanges, MaxFaults,   \* bounds
  None

Rules   == Realtime \cup Staged \cup UNION {Members[c] : c \in Combos}
Sources == Staged \cup Combos       \* what has windows
Workers == Instances \cup {Page}
Nil     == 0 - 1                    \* NULL of last_value

ASSUME WatchMonitorAssumption ==
  /\ Members \in [Combos -> SUBSET Rules]
  /\ FirstChecked \subseteq Realtime /\ Page \notin Instances
  /\ Unreadable \subseteq Rules
  /\ CycleLimit \in Nat /\ Cardinality(Unreadable) < CycleLimit
  /\ \A r \in Rules : Need[r] \in Nat \ {0} /\ Threshold[r] \in Int
  /\ IsFiniteSet(Rules) /\ None \notin Rules \cup Workers /\ Staged \cap Combos = {}
  /\ DailyLimit \in Nat /\ MaxBalance \in Nat

VARIABLES
  status,     \* status[r]: "new", "active", "paused" or "gone"
  last,       \* last[r]: watch_rules.last_value
  order,      \* the rules by last_checked_at
  plan,       \* the user's: "professional" while a permanent plan is bound, else "free"
  freeRule,   \* the rule chosen for the free plan
  balance,    \* balance[r]: what the chain answers
  alerts,     \* alert_events, in the order of their ids
  window,     \* window[x]: the open aggregation window of x, if there is one
  notices,    \* aggregate_notifications
  holder,     \* who holds the execution lock
  work,       \* work[w]: what worker w is doing
  falls,      \* falls[r]: times the balance of r fell to its threshold
  moves, changes, faults   \* counters for the bounds

rows   == <<status, last, order, plan, freeRule>>
sent   == <<alerts, window, notices>>
bounds == <<moves, changes, faults>>
vars   == <<rows, balance, sent, holder, work, falls, bounds>>

(* The elements of the sequence s that are in S, in their order. *)
Only(s, S) ==
  LET only[n \in 0 .. Len(s)] ==
        IF n = 0 THEN <<>>
        ELSE IF s[n] \in S THEN Append(only[n - 1], s[n]) ELSE only[n - 1]
  IN only[Len(s)]

Idle == [step |-> "idle", queue |-> <<>>, row |-> 0]

(* A rule as the cycle's query, or the request, has read it. *)
Snapshot(r) == [rule |-> r, last |-> last[r], plan |-> plan]

Init ==
  /\ plan \in {"free", "professional"}
  /\ freeRule \in Realtime \ FirstChecked
  /\ status = [r \in Rules |-> CASE r \in FirstChecked -> "new"
                                 [] r \notin FirstChecked \cup {freeRule} /\ plan = "free" -> "paused"
                                 [] OTHER -> "active"]
  /\ last = [r \in Rules |-> IF r \in FirstChecked THEN Nil ELSE MaxBalance]
  /\ order = SetToSeq(Rules \ FirstChecked)
  /\ balance = [r \in Rules |-> IF r \in FirstChecked THEN 0 ELSE MaxBalance]
  /\ alerts = <<>>
  /\ window = [x \in Sources |-> None]
  /\ notices = <<>>
  /\ holder = None
  /\ work = [w \in Workers |-> Idle]
  /\ falls = [r \in Rules |-> 0]
  /\ moves = 0 /\ changes = 0 /\ faults = 0

-----------------------------------------------------------------------------
(* What a value says *)

Abs(d) == IF d < 0 THEN 0 - d ELSE d

(* Variant: the rule says that the balance is low, not that it fell. *)
IsLow(r, prev, now) == now <= Threshold[r]

FellBelow(r, prev, now) == prev > Threshold[r] /\ now <= Threshold[r]

(* An approval or the cursor of an interaction alerts when it is another one. *)
shouldAlertAsset(r, prev, now) ==
  LET delta == now - prev
      far   == Threshold[r] <= 0 \/ Abs(delta) >= Threshold[r]
  IN CASE Type[r] = "balance_change"         -> delta # 0 /\ far
       [] Type[r] = "incoming"               -> delta > 0 /\ far
       [] Type[r] = "outgoing"               -> delta < 0 /\ far
       [] Type[r] = "balance_threshold"      -> FellBelow(r, prev, now)
       [] Type[r] = "high_balance_threshold" -> prev < Threshold[r] /\ now >= Threshold[r]
       [] OTHER                              -> delta # 0

initialBalanceThresholdMatch(r, now) ==
  \/ Type[r] = "balance_threshold" /\ now <= Threshold[r]
  \/ Type[r] = "high_balance_threshold" /\ now >= Threshold[r]

Matches(r, prev, now) ==
  IF prev = Nil THEN initialBalanceThresholdMatch(r, now)
  ELSE shouldAlertAsset(r, prev, now)

(* The free plan runs no combinations and no stages. *)
ruleAllowedByPlan(r, p) == p = "professional" \/ r \in Realtime

(* Without a plan in force the chosen rule is listed, as this user never bought
   one; Entitlements has the users who did. *)
Listed(r) ==
  /\ status[r] = "active"
  /\ plan = "professional" \/ (plan = "free" /\ freeRule = r)

ListEnabledWatchRules ==
  LET listed == Only(order, {r \in Rules : Listed(r)})
  IN SubSeq(listed, 1, IF Len(listed) < CycleLimit THEN Len(listed) ELSE CycleLimit)

-----------------------------------------------------------------------------
(* Workers *)

Step(w, s) == work' = [work EXCEPT ![w].step = s]
At(w, s)   == work[w].step = s
Item(w)    == Head(work[w].queue)
Rule(w)    == Item(w).rule

(* The rule is done with; its error, if any, ends its own check only. *)
Advance(w) ==
  work' = [work EXCEPT ![w] = [Idle EXCEPT !.step = "check", !.queue = Tail(work[w].queue)]]

LockFree(w) == holder = None

(* The cycle lists its rules once it has the lock. *)
CheckAll(w) ==
  /\ w \in Instances /\ At(w, "idle") /\ LockFree(w)
  /\ holder' = w
  /\ work' = [work EXCEPT ![w].step = "check",
                          ![w].queue = [i \in DOMAIN ListEnabledWatchRules |->
                                          Snapshot(ListEnabledWatchRules[i])]]
  /\ UNCHANGED <<rows, balance, sent, falls, bounds>>

(* The request has created its rule; if the lock is taken the first check is
   left to the monitor. *)
CheckRule(w) ==
  /\ w = Page /\ At(w, "created")
  /\ IF LockFree(w) THEN holder' = w /\ Step(w, "check")
     ELSE work' = [work EXCEPT ![w] = Idle] /\ UNCHANGED holder
  /\ UNCHANGED <<rows, balance, sent, falls, bounds>>

(* The plan stops the rule before the chain is asked, or the chain fails. *)
SkipRule(w) ==
  /\ At(w, "check") /\ work[w].queue # <<>>
  /\ ~ruleAllowedByPlan(Rule(w), Item(w).plan) \/ Rule(w) \in Unreadable
  /\ Advance(w)
  /\ UNCHANGED <<rows, balance, sent, holder, falls, bounds>>

(* Variant: the row is left alone when the value is the same. *)
StoreChangedValue(r, v) ==
  /\ last' = [last EXCEPT ![r] = v]
  /\ order' = IF last[r] # v THEN Append(Only(order, Rules \ {r}), r) ELSE order

UpdateWatchRuleValue(r, v) ==
  /\ last' = [last EXCEPT ![r] = v]
  /\ order' = Append(Only(order, Rules \ {r}), r)

(* The chain's answer is stored before anything is recorded: what is decided
   now is all that remembers the earlier value. *)
checkAssetRule(w) ==
  LET r == Rule(w)
      v == balance[r]
  IN /\ At(w, "check") /\ work[w].queue # <<>>
     /\ ruleAllowedByPlan(r, Item(w).plan) /\ r \notin Unreadable
     /\ IF status[r] = "gone" THEN UNCHANGED <<last, order>>
        ELSE UpdateWatchRuleValue(r, v)
     /\ IF ~Matches(r, Item(w).last, v) THEN Advance(w)
        ELSE Step(w, IF Item(w).plan = "professional" THEN "record" ELSE "count")
     /\ UNCHANGED <<status, plan, freeRule, balance, sent, holder, falls, bounds>>

Kept(a) == a.status # "removed"   \* rows go with their rule

CountDailyAlertEvents == Cardinality({i \in DOMAIN alerts : alerts[i].today /\ Kept(alerts[i])})

(* Variant: the one that reaches the limit is followed by another. *)
UpToLimit(used) == used <= DailyLimit

BelowLimit(used) == used < DailyLimit

freeDailyLimit(w) ==
  /\ At(w, "count")
  /\ IF BelowLimit(CountDailyAlertEvents) THEN Step(w, "record") ELSE Advance(w)
  /\ UNCHANGED <<rows, balance, sent, holder, falls, bounds>>

CreateAlertEvent(w) ==
  /\ At(w, "record") /\ Rule(w) \in Realtime
  /\ IF status[Rule(w)] = "gone" THEN Advance(w) /\ UNCHANGED alerts
     ELSE /\ alerts' = Append(alerts, [rule |-> Rule(w), first |-> Item(w).last = Nil,
                                       plan |-> Item(w).plan, status |-> "pending",
                                       today |-> TRUE])
          /\ work' = [work EXCEPT ![w].step = "send", ![w].row = Len(alerts) + 1]
  /\ UNCHANGED <<rows, balance, window, notices, holder, falls, bounds>>

SourceOf(r) == IF r \in Staged THEN r ELSE CHOOSE c \in Combos : r \in Members[c]
PartsOf(x)  == IF x \in Staged THEN {x} ELSE Members[x]

NewWindow(x) == [over |-> FALSE, sent |-> FALSE, count |-> [m \in PartsOf(x) |-> 0],
                 inTime |-> [m \in PartsOf(x) |-> 0]]

(* Variant: a window stays open until it has been announced. *)
currentUnsentWindow(x) ==
  IF window[x] = None \/ (window[x].over /\ window[x].sent)
  THEN NewWindow(x) ELSE window[x]

(* The open window; one whose time is over is closed and a new one begins. *)
currentWindow(x) ==
  IF window[x] = None \/ window[x].over THEN NewWindow(x) ELSE window[x]

allReached(win) == \A m \in DOMAIN win.count : win.count[m] >= Need[m]

(* The window with one more trigger of r.  `inTime' is what falls in the
   window's own time. *)
Counted(win, r) ==
  LET late == IF win.over THEN 0 ELSE 1
  IN [win EXCEPT !.count[r] = @ + 1, !.inTime[r] = @ + late]

Due(win) == ~win.sent /\ allReached(win)

(* RecordStageTrigger, RecordCombinationTrigger: one transaction, in which the
   rule and its combination must still be active. *)
RecordTrigger(w) ==
  LET r   == Rule(w)
      x   == SourceOf(r)
      win == Counted(currentWindow(x), r)
      notice == [source |-> x, status |-> "pending", inTime |-> win.inTime]
  IN /\ At(w, "record") /\ r \notin Realtime
     /\ IF status[r] # "active" THEN Advance(w) /\ UNCHANGED <<window, notices>>
        ELSE /\ window' = [window EXCEPT ![x] = [win EXCEPT !.sent = @ \/ Due(win)]]
             /\ IF Due(win)
                THEN /\ notices' = Append(notices, notice)
                     /\ work' = [work EXCEPT ![w].step = "send", ![w].row = Len(notices) + 1]
                ELSE Advance(w) /\ UNCHANGED notices
     /\ UNCHANGED <<rows, balance, alerts, holder, falls, bounds>>

(* The message, and the row's new status: sent or failed, which is "done" here.
   A crash before leaves it pending for good, as nothing tries again. *)
SendNotification(w) ==
  LET Marked(s) == [s EXCEPT ![work[w].row].status = IF @ = "removed" THEN @ ELSE "done"]
  IN /\ At(w, "send")
     /\ IF Rule(w) \in Realtime THEN alerts' = Marked(alerts) /\ UNCHANGED notices
        ELSE notices' = Marked(notices) /\ UNCHANGED alerts
     /\ Advance(w)
     /\ UNCHANGED <<rows, balance, window, holder, falls, bounds>>

(* Windows, and notices, of which nothing is left but old rows go at the end
   of a cycle. *)
CleanupAggregationHistory ==
  \E old \in SUBSET {x \in Sources : window[x] # None /\ window[x].over} :
    /\ window' = [x \in Sources |-> IF x \in old THEN None ELSE window[x]]
    /\ notices' = [i \in DOMAIN notices |->
         IF notices[i].source \in old THEN [notices[i] EXCEPT !.status = "removed"]
         ELSE notices[i]]

Unlock(w) ==
  /\ At(w, "check") /\ work[w].queue = <<>>
  /\ holder' = IF holder = w THEN None ELSE holder
  /\ work' = [work EXCEPT ![w] = Idle]
  /\ IF w \in Instances THEN CleanupAggregationHistory ELSE UNCHANGED <<window, notices>>
  /\ UNCHANGED <<rows, balance, alerts, falls, bounds>>

-----------------------------------------------------------------------------
(* The user, the chain and the clock *)

Change == changes < MaxChanges /\ changes' = changes + 1

(* What the choice of the free plan's rule leaves. *)
OnlyRule(s, r) == [x \in Rules |-> IF x = r THEN "active"
                                   ELSE IF s[x] = "active" THEN "paused" ELSE s[x]]

(* The row is made, on the free plan as the chosen one, and the request goes on
   to the first check with it. *)
CreateWatchRule ==
  \E r \in FirstChecked :
    /\ status[r] = "new" /\ At(Page, "idle")
    /\ IF plan = "free" THEN status' = OnlyRule(status, r) /\ freeRule' = r
       ELSE status' = [status EXCEPT ![r] = "active"] /\ UNCHANGED freeRule
    /\ order' = Append(order, r)
    /\ work' = [work EXCEPT ![Page] = [Idle EXCEPT !.step = "created", !.queue = <<Snapshot(r)>>]]
    /\ UNCHANGED <<last, plan, balance, sent, holder, falls, bounds>>

DeleteWatchRule ==
  \E r \in Realtime :
    /\ status[r] \in {"active", "paused"} /\ Change
    /\ status' = [status EXCEPT ![r] = "gone"]
    /\ order' = Only(order, Rules \ {r})
    /\ freeRule' = IF freeRule = r THEN None ELSE freeRule
    /\ alerts' = [i \in DOMAIN alerts |->
         IF alerts[i].rule = r THEN [alerts[i] EXCEPT !.status = "removed"] ELSE alerts[i]]
    /\ UNCHANGED <<last, plan, balance, window, notices, holder, work, falls, moves, faults>>

(* The chosen rule of the free plan, for a user who never paid; every other
   rule is paused. *)
SetFreeWatchRule ==
  \E r \in Realtime :
    /\ plan = "free" /\ freeRule # r /\ status[r] \in {"active", "paused"} /\ Change
    /\ freeRule' = r
    /\ status' = OnlyRule(status, r)
    /\ UNCHANGED <<last, order, plan, balance, sent, holder, work, falls, moves, faults>>

(* The permanent plan is revoked, and what it ran is paused. *)
PauseUserWatchRules ==
  /\ plan = "professional" /\ Change
  /\ plan' = "free"
  /\ status' = [x \in Rules |-> IF status[x] = "active" /\ x # freeRule THEN "paused"
                                ELSE status[x]]
  /\ UNCHANGED <<last, order, freeRule, balance, sent, holder, work, falls, moves, faults>>

(* A plan brings the rules back, with the windows they had. *)
ReconcileUserEntitlements ==
  /\ plan # "professional" /\ Change
  /\ plan' = "professional"
  /\ status' = [x \in Rules |-> IF status[x] = "paused" THEN "active" ELSE status[x]]
  /\ UNCHANGED <<last, order, freeRule, balance, sent, holder, work, falls, moves, faults>>

MoveBalance ==
  \E r \in Rules \ Unreadable, v \in 0 .. MaxBalance :
    /\ moves < MaxMoves /\ v # balance[r]
    /\ moves' = moves + 1
    /\ balance' = [balance EXCEPT ![r] = v]
    /\ falls' = [falls EXCEPT ![r] =
         @ + (IF Type[r] = "balance_threshold" /\ FellBelow(r, balance[r], v) THEN 1 ELSE 0)]
    /\ UNCHANGED <<rows, sent, holder, work, changes, faults>>

WindowEnds ==
  \E x \in Sources :
    /\ window[x] # None /\ ~window[x].over
    /\ window' = [window EXCEPT ![x].over = TRUE]
    /\ UNCHANGED <<rows, balance, alerts, notices, holder, work, falls, bounds>>

NextDay ==
  /\ \E i \in DOMAIN alerts : alerts[i].today
  /\ alerts' = [i \in DOMAIN alerts |-> [alerts[i] EXCEPT !.today = FALSE]]
  /\ UNCHANGED <<rows, balance, window, notices, holder, work, falls, bounds>>

(* An instance ends, or the request does; its session and its lock with it. *)
Crash(w) ==
  /\ ~At(w, "idle") /\ faults < MaxFaults
  /\ work' = [work EXCEPT ![w] = Idle]
  /\ holder' = IF holder = w THEN None ELSE holder
  /\ faults' = faults + 1
  /\ UNCHANGED <<rows, balance, sent, falls, moves, changes>>

(* The session of the lock is cut and the cycle goes on; what nobody notices
   before the cycle ends changes nothing. *)
LoseLock(w) ==
  /\ holder = w /\ faults < MaxFaults
  /\ At(Page, "created") \/ \E v \in Instances : At(v, "idle")
  /\ holder' = None
  /\ faults' = faults + 1
  /\ UNCHANGED <<rows, balance, sent, work, falls, moves, changes>>

-----------------------------------------------------------------------------
Cycle(w) ==
  \/ CheckAll(w) \/ CheckRule(w) \/ SkipRule(w) \/ checkAssetRule(w)
  \/ freeDailyLimit(w) \/ CreateAlertEvent(w) \/ RecordTrigger(w)
  \/ SendNotification(w) \/ Unlock(w)

User == CreateWatchRule \/ DeleteWatchRule \/ SetFreeWatchRule \/ PauseUserWatchRules
          \/ ReconcileUserEntitlements

Next ==
  \/ \E w \in Workers : Cycle(w) \/ Crash(w) \/ LoseLock(w)
  \/ User \/ MoveBalance \/ WindowEnds \/ NextDay

(* Every instance runs a cycle a minute; a cycle of any of them will do. *)
Fairness == WF_vars(\E w \in Workers : Cycle(w))

Spec     == Init /\ [][Next]_vars
FairSpec == Spec /\ Fairness

-----------------------------------------------------------------------------
(* Properties *)

Alerts(P(_)) == Cardinality({i \in DOMAIN alerts : P(alerts[i])})

(* Of alerts that compare with an earlier value a rule on a balance threshold has
   at most one for each fall of the balance, however the cycles of the instances
   and the first check follow each other: the listed value is the one of the last
   check.  Beside them there are at most two that found the balance low with
   nothing to compare it with.  Two, because the first check still has the row as
   the request inserted it: it tells once more what a cycle has told since. *)
NoRepeatedAlert ==
  faults = 0 => \A r \in {x \in Realtime : Type[x] = "balance_threshold"} :
    /\ Alerts(LAMBDA a : a.rule = r /\ ~a.first) <= falls[r]
    /\ Alerts(LAMBDA a : a.rule = r /\ a.first) <= IF r \in FirstChecked THEN 2 ELSE 0

(* A user of the free plan is sent no more than the daily number of alerts, all
   rules together, though the count and the insertion are two statements and the
   user changes the rule and the plan in between. *)
DailyLimitKept ==
  faults = 0 => Alerts(LAMBDA a : a.today /\ Kept(a) /\ a.plan = "free") <= DailyLimit

(* What a stage or a combination announces happened within one window's time:
   every member reached its number before the window was over. *)
NoticesEarned ==
  \A i \in DOMAIN notices : \A m \in DOMAIN notices[i].inTime :
    notices[i].inTime[m] >= Need[m]

(* No rule is left out for good, though a cycle takes the rules checked longest
   ago and the rules whose chain calls fail keep their place at the front. *)
RulesAreChecked ==
  \A r \in Rules \ Unreadable :
    []<>(~Listed(r) \/ (order # <<>> /\ Last(order) = r))
=============================================================================
