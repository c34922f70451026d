---------------------------- MODULE SnapshotRules ----------------------------
(* A rule on prices, liquidity or volumes (internal/marketrules/evaluator.go):   *)
(* in every pass the rule engine evaluates it for each of its pools on the       *)
(* pool's latest snapshot and announces that its condition has become true.      *)
(* The state of a pool, the alert and the rule's own row are written by calls of *)
(* their own (service.go, evaluateMultiChainRule), so a pass may end between     *)
(* them.  What becomes of an alert is MarketDelivery's subject.                  *)
EXTENDS Integers, FiniteSets

CONSTANTS
  Pool,            \* the rule's pools, in the order they are evaluated
  CooldownScope,   \* "project": one cooldown for the rule; "chain": one per pool
  Repeats,         \* repeat_while_active, for a type that may repeat
  Cooldown,        \* cooldown_seconds
  MaxNow,          \* bound: time
  MaxSnapshots,    \* bound: snapshots
  MaxStops         \* bound: passes that fail or crash

VARIABLES
  clock,           \* the service's and the database's time
  latest,          \* market_snapshots: each pool's latest
  states,          \* market_rule_target_states of each pool
  ruleAlertedAt,   \* market_rules.last_triggered_at
  pass,            \* evaluateMultiChainRule: its place and local values
  stops,           \* bound
  alertRows,       \* market_rule_events: of which snapshot, and when
  run              \* history: snapshots evaluated since the condition last came true

snapshotVars == <<clock, latest, states, ruleAlertedAt, pass, stops, alertRows, run>>

-----------------------------------------------------------------------------
Never == -Cooldown
(* A snapshot counts by what the rule's condition finds in it; a value that is
   missing counts as a condition not met. *)
NoSnapshot == [id |-> 0, met |-> FALSE]
Pools == {Pool[i] : i \in DOMAIN Pool}
NoState == [last |-> 0, active |-> FALSE, pending |-> FALSE, alertedAt |-> Never]
PassIdle == [pc |-> "idle", at |-> 1, alertedAt |-> Never, created |-> FALSE, total |-> FALSE,
             result |-> [last |-> 0, active |-> FALSE, pending |-> FALSE, trigger |-> FALSE]]

Current == Pool[pass.at]
CooldownActive(alertedAt) == clock < alertedAt + Cooldown
LastAlert(p) == IF CooldownScope = "chain" THEN states[p].alertedAt ELSE pass.alertedAt

(* evaluateSnapshotRule.  Without a snapshot nothing changes. *)
Met(p) == latest[p].met
Crossed(p) == ~states[p].active
RepeatReady(p) ==
  states[p].active /\ Repeats /\ latest[p].id # states[p].last /\ ~CooldownActive(LastAlert(p))
(* Variant: a crossing inside the cooldown is not kept. *)
ForgottenCrossing(p) == Met(p) /\ (Crossed(p) \/ RepeatReady(p)) /\ ~CooldownActive(LastAlert(p))
PendingCrossing(p) == Met(p) /\ (states[p].pending \/ Crossed(p) \/ RepeatReady(p))
Evaluation(p) ==
  LET due == PendingCrossing(p) /\ ~CooldownActive(LastAlert(p))
  IN IF latest[p] = NoSnapshot
     THEN [last |-> states[p].last, active |-> states[p].active,
           pending |-> states[p].pending, trigger |-> FALSE]
     ELSE [last |-> latest[p].id, active |-> Met(p),
           pending |-> PendingCrossing(p) /\ ~due, trigger |-> due]

-----------------------------------------------------------------------------
(* The collector and time. *)
(* Ids grow, with gaps: the sequence also serves the pools of others. *)
CaptureSnapshot ==
  /\ \E p \in Pools, id \in 1..MaxSnapshots, met \in BOOLEAN :
       /\ \A q \in Pools : latest[q].id < id
       /\ latest' = [latest EXCEPT ![p] = [id |-> id, met |-> met]]
  /\ UNCHANGED <<clock, states, ruleAlertedAt, pass, stops, alertRows, run>>
Tick ==
  /\ clock < MaxNow
  /\ clock' = clock + 1
  /\ UNCHANGED <<latest, states, ruleAlertedAt, pass, stops, alertRows, run>>

(* A pass over the rule, which ListEnabledMarketRules has read. *)
StartPass ==
  /\ pass.pc = "idle"
  /\ pass' = [PassIdle EXCEPT !.pc = "evaluate", !.alertedAt = ruleAlertedAt]
  /\ UNCHANGED <<clock, latest, states, ruleAlertedAt, stops, alertRows, run>>

Evaluate ==
  /\ pass.pc = "evaluate" /\ pass.at \in DOMAIN Pool
  /\ LET e == Evaluation(Current) IN
     pass' = [pass EXCEPT !.pc = IF e.trigger THEN "announce" ELSE "save", !.result = e]
  /\ UNCHANGED <<clock, latest, states, ruleAlertedAt, stops, alertRows, run>>

(* persistEvaluation: an alert of the same snapshot is not created twice. *)
Announced(p, s) == \E a \in alertRows : a.pool = p /\ a.snapshot = s
Announce ==
  /\ pass.pc = "announce"
  /\ LET new == ~Announced(Current, pass.result.last) IN
     /\ alertRows' = IF new
                  THEN alertRows \cup {[pool |-> Current, snapshot |-> pass.result.last, at |-> clock]}
                  ELSE alertRows
     /\ pass' = [pass EXCEPT !.pc = "save", !.created = new]
  /\ UNCHANGED <<clock, latest, states, ruleAlertedAt, stops, run>>

(* UpdateMarketRuleTargetState *)
SaveTargetState ==
  /\ pass.pc = "save"
  /\ LET e == pass.result IN
     /\ states' = [states EXCEPT ![Current] =
          [last |-> e.last, active |-> e.active, pending |-> e.pending,
           alertedAt |-> IF pass.created THEN clock ELSE @.alertedAt]]
     /\ run' = [run EXCEPT ![Current] = IF e.active THEN @ \cup {e.last} ELSE {}]
  /\ pass' = [pass EXCEPT !.pc = "evaluate", !.at = @ + 1, !.created = FALSE,
       !.result = PassIdle.result, !.total = @ \/ pass.created,
       !.alertedAt = IF pass.created /\ CooldownScope = "project" THEN clock ELSE @]
  /\ UNCHANGED <<clock, latest, ruleAlertedAt, stops, alertRows>>

(* UpdateMarketRuleState *)
SaveRule ==
  /\ pass.pc = "evaluate" /\ pass.at \notin DOMAIN Pool
  /\ ruleAlertedAt' = IF pass.total THEN clock ELSE ruleAlertedAt
  /\ pass' = PassIdle
  /\ UNCHANGED <<clock, latest, states, stops, alertRows, run>>

(* A call fails, or the process ends. *)
StopPass ==
  /\ pass.pc # "idle" /\ stops < MaxStops
  /\ stops' = stops + 1
  /\ pass' = PassIdle
  /\ UNCHANGED <<clock, latest, states, ruleAlertedAt, alertRows, run>>

Init ==
  /\ clock = 0
  /\ latest = [p \in Pools |-> NoSnapshot]
  /\ states = [p \in Pools |-> NoState]
  /\ ruleAlertedAt = Never
  /\ pass = PassIdle /\ stops = 0
  /\ alertRows = {}
  /\ run = [p \in Pools |-> {}]

PassStep == StartPass \/ Evaluate \/ Announce \/ SaveTargetState \/ SaveRule
Next == CaptureSnapshot \/ Tick \/ PassStep \/ StopPass
Spec == Init /\ [][Next]_snapshotVars

-----------------------------------------------------------------------------
(* A pool whose condition holds and does not wait for a cooldown was announced
   since it came to hold, whatever pass was cut short; and once only, unless the
   rule repeats or a pass was cut short. *)
CrossingsAnnounced ==
  \A p \in DOMAIN states :
    LET now == {a \in alertRows : a.pool = p /\ a.snapshot \in run[p]}
    IN /\ states[p].active /\ ~states[p].pending => now # {}
       /\ stops = 0 /\ ~Repeats => Cardinality(now) <= 1

(* Alerts of one scope are a cooldown apart while no pass is cut short. *)
CooldownKept ==
  stops = 0 =>
    \A a, b \in alertRows :
      a # b /\ (CooldownScope = "project" \/ a.pool = b.pool) =>
        a.at + Cooldown <= b.at \/ b.at + Cooldown <= a.at

(* One alert for each time a condition comes true, neither lost nor sent early. *)
AlertsFollowCrossings == CrossingsAnnounced /\ CooldownKept
=============================================================================
