----------------------- MODULE MarketDeliveryProofs ------------------------
(***************************************************************************)
(* Theorems about the market alert pipeline, for any number of workers,    *)
(* rules, events, windows and attempts: what happens to a row of the       *)
(* outbox; which events get an alert and which window counts it; and that  *)
(* the outbox keeps AlertOutbox.                                           *)
(***************************************************************************)
EXTENDS MarketDelivery, FiniteSetTheorems, WellFoundedInduction, TLAPS

-----------------------------------------------------------------------------
(* Facts about the helpers *)

(* Least is a least element of a bounded set. *)
LEMMA LeastIn ==
  ASSUME NEW n \in Nat, NEW S \in SUBSET (0..n), S # {}
  PROVE  Least(S) \in S /\ \A j \in S : Least(S) <= j
<1> DEFINE Below == {0..i : i \in S}
<1>1. Below \in SUBSET (SUBSET (0..n)) /\ Below # {}
  <2>1. \A i \in S : 0..i \in SUBSET (0..n)
    OBVIOUS
  <2> QED
    BY <2>1
<1>2. IsWellFoundedOn(StrictSubsetOrdering(0..n), SUBSET (0..n))
  <2>1. IsFiniteSet(0..n)
    BY FS_Interval
  <2>2. FiniteSubsetsOf(0..n) = SUBSET (0..n)
    BY <2>1, FS_FiniteSubsetsOfFinite
  <2> QED
    BY <2>2, FS_StrictSubsetOrderingWellFounded
<1>3. PICK B \in Below :
        \A C \in Below : <<C, B>> \notin StrictSubsetOrdering(0..n)
  BY <1>1, <1>2, WFMin
<1>4. PICK i \in S : B = 0..i
  BY <1>3
<1>5. \A j \in S : i <= j
  <2> SUFFICES ASSUME NEW j \in S, j < i PROVE FALSE
    OBVIOUS
  <2>1. 0..j \in Below
    OBVIOUS
  <2>2. 0..j \subseteq 0..i /\ i \in 0..i /\ i \notin 0..j
    OBVIOUS
  <2>3. <<0..j, B>> \in StrictSubsetOrdering(0..n)
    BY <1>4, <2>2 DEF StrictSubsetOrdering
  <2> QED
    BY <1>3, <2>1, <2>3
<1> QED
  BY <1>5 DEF Least

(* Greatest is a greatest element of a bounded set. *)
LEMMA GreatestIn ==
  ASSUME NEW n \in Nat, NEW S \in SUBSET (0..n), S # {}
  PROVE  Greatest(S) \in S /\ \A j \in S : j <= Greatest(S)
<1> DEFINE T == {n - i : i \in S}
<1>1. T \in SUBSET (0..n) /\ T # {}
  OBVIOUS
<1>2. PICK k \in T : \A j \in T : k <= j
  BY <1>1, LeastIn
<1>3. PICK i \in S : k = n - i
  BY <1>2
<1>4. \A j \in S : j <= i
  <2> SUFFICES ASSUME NEW j \in S PROVE j <= i
    OBVIOUS
  <2>1. n - j \in T
    OBVIOUS
  <2>2. n - i <= n - j
    BY <1>2, <1>3, <2>1
  <2> QED
    BY <2>2
<1>5. QED
  BY <1>4 DEF Greatest

(* The defaults exist, and the shape of a row tells its table. *)
LEMMA Defaults == NoRow \in Row /\ NoJob \in Job
<1>1. PICK r \in Rule : TRUE
  BY DeliveryAssumption
<1>2. AlertOf(r, 1) \in Row
  BY DeliveryAssumption DEF AlertOf, Row, Alert, Event
<1>3. NoRow \in Row
  BY <1>2 DEF NoRow
<1>4. NoJob \in Job
  BY <1>1 DEF NoJob, Job
<1> QED
  BY <1>3, <1>4

LEMMA RowShape ==
  /\ \A x \in Row : RuleOf(x) \in Rule
  /\ \A a \in Alert : a \in Row /\ EventOf(a) \in Event /\ a \notin Window
  /\ \A x \in Window : x \in Row /\ RuleOf(x) \in StagedRule
  /\ \A r \in Rule, e \in Event :
       /\ AlertOf(r, e) \in Alert
       /\ RuleOf(AlertOf(r, e)) = r /\ EventOf(AlertOf(r, e)) = e
  BY DEF Row, Alert, Window, Rule, RuleOf, EventOf, AlertOf

LEMMA EventsFinite ==
  /\ NumEvents \in Nat /\ Event \in SUBSET (0..NumEvents)
  /\ \A S \in SUBSET Event : IsFiniteSet(S) /\ Cardinality(S) \in Nat
<1>1. IsFiniteSet(Event)
  BY FS_Interval, DeliveryAssumption DEF Event
<1>2. ASSUME NEW S \in SUBSET Event
      PROVE  IsFiniteSet(S) /\ Cardinality(S) \in Nat
  BY <1>1, FS_Subset, FS_CardinalityType
<1> QED
  BY <1>2, DeliveryAssumption DEF Event

-----------------------------------------------------------------------------
(* Type correctness *)

LEMMA TypeInit == Init => TypeOK
  BY Defaults DEF Init, TypeOK, EventState, Status, Step, Content, NoContent

LEMMA TypeChain == TypeOK /\ Chain => TypeOK'
<1> SUFFICES ASSUME TypeOK, Chain PROVE TypeOK'
  OBVIOUS
<1> USE DEF vars, chainVars, rowVars, windowVars, planVars, ruleVars, cycleVars,
            chatVars
<1>1. ASSUME NEW e \in Event, NEW s \in {"unconfirmed", "confirmed"},
             InsertEvent(e, s)
      PROVE  TypeOK'
  <2>1. {AlertOf(r, e) : r \in {r \in Rule : Passed(r, e)}} \in SUBSET Alert
    BY RowShape
  <2>2. overtaken' \in SUBSET Alert
    BY <1>1, <2>1 DEF InsertEvent, TypeOK
  <2> QED
    BY <1>1, <2>2 DEF InsertEvent, TypeOK, EventState
<1>2. ASSUME NEW e \in Event, NEW s \in {"unconfirmed", "confirmed"},
             ReviveEvent(e, s)
      PROVE  TypeOK'
  BY <1>2 DEF ReviveEvent, TypeOK, EventState
<1>3. ASSUME NEW e \in Event, MarkMarketBlockConfirmed(e) PROVE TypeOK'
  BY <1>3 DEF MarkMarketBlockConfirmed, TypeOK, EventState
<1>4. ASSUME NEW e \in Event, MarkMarketBlockReorged(e) PROVE TypeOK'
  BY <1>4 DEF MarkMarketBlockReorged, KeepLeases, TypeOK, EventState, Status
<1> QED
  BY <1>1, <1>2, <1>3, <1>4 DEF Chain

LEMMA TypeClock == TypeOK /\ Clock => TypeOK'
<1> SUFFICES ASSUME TypeOK, Clock PROVE TypeOK'
  OBVIOUS
<1> USE DEF chainVars, rowVars, windowVars, planVars, ruleVars, cycleVars, chatVars
<1>1. ASSUME NEW x \in Row, BackoffElapses(x) PROVE TypeOK'
  BY <1>1 DEF BackoffElapses, TypeOK
<1>2. ASSUME NEW x \in Row, LeaseExpires(x) PROVE TypeOK'
  BY <1>2 DEF LeaseExpires, TypeOK
<1>3. ASSUME NEW x \in Window, WindowEnds(x) PROVE TypeOK'
  BY <1>3 DEF WindowEnds, TypeOK
<1> QED
  BY <1>1, <1>2, <1>3 DEF Clock

LEMMA TypeEntitlements == TypeOK /\ Entitlements => TypeOK'
<1> SUFFICES ASSUME TypeOK, Entitlements PROVE TypeOK'
  OBVIOUS
<1> USE DEF chainVars, rowVars, windowVars, planVars, ruleVars, cycleVars, chatVars
<1>1. CASE PlanExpires
  BY <1>1 DEF PlanExpires, TypeOK
<1>2. CASE PauseExpiredUserResources \/ Renew
  BY <1>2 DEF PauseExpiredUserResources, Renew, PauseResources, PausedStatus,
              CloseWindows, KeepLeases, TypeOK, Status
<1>3. ASSUME NEW r \in Rule, RestoreMarketRule(r) PROVE TypeOK'
  BY <1>3 DEF RestoreMarketRule, TypeOK
<1> QED
  BY <1>1, <1>2, <1>3 DEF Entitlements

(* The end of a cycle resets the worker's variables to well-typed defaults. *)
LEMMA TypeEndCycle ==
  ASSUME TypeOK, NEW w \in Worker, EndCycle(w)
  PROVE  /\ pc' \in [Worker -> Step] /\ todo' \in [Worker -> SUBSET Rule]
         /\ job' \in [Worker -> Job] /\ claims' \in [Worker -> SUBSET Row]
         /\ current' \in [Worker -> Row] /\ content' \in [Worker -> Content]
         /\ result' \in [Worker -> {"sent", "failed"}]
         /\ lock' \in Worker \cup {NoWorker}
  BY Defaults DEF EndCycle, Goto, Unlock, TypeOK, Step, Content, NoContent

(* What an evaluation finds is a set of events, and a place to go on from. *)
LEMMA EvaluationType ==
  ASSUME TypeOK, NEW r \in Rule, NEW cur \in Nat, NEW available \in BOOLEAN
  PROVE  /\ Reached(cur) \in Nat
         /\ Matched(cur) \in SUBSET Event
         /\ Triggers(r, cur, available) \in SUBSET Event
<1>1. After(cur) \in SUBSET (0..NumEvents) /\ Blocked(cur) \in SUBSET (0..NumEvents)
  BY EventsFinite DEF After, Blocked
<1>2. Blocked(cur) = {} => Reached(cur) \in Nat
  <2> SUFFICES ASSUME Blocked(cur) = {} PROVE Reached(cur) \in Nat
    OBVIOUS
  <2>1. PICK n \in Nat : n = IF cur <= NumEvents THEN NumEvents ELSE cur
    BY EventsFinite
  <2>2. {cur} \cup After(cur) \in SUBSET (0..n)
    BY <1>1, <2>1, EventsFinite
  <2>3. Greatest({cur} \cup After(cur)) \in 0..n
    BY <2>2, GreatestIn
  <2> QED
    BY <2>3 DEF Reached
<1>3. Blocked(cur) # {} => Reached(cur) \in Nat
  <2> SUFFICES ASSUME Blocked(cur) # {} PROVE Reached(cur) \in Nat
    OBVIOUS
  <2>1. Least(Blocked(cur)) \in Blocked(cur)
    BY <1>1, LeastIn, EventsFinite
  <2>2. PICK m \in Blocked(cur) : m = Least(Blocked(cur))
    BY <2>1
  <2>3. m \in Nat /\ m > cur
    BY EventsFinite DEF Blocked, After
  <2>4. Reached(cur) = m - 1
    BY <2>2 DEF Reached
  <2> QED
    BY <2>3, <2>4
<1>4. Matched(cur) \in SUBSET Event
  BY DEF Matched, After
<1>5. Triggers(r, cur, available) \in SUBSET Event
  <2>1. CASE Matched(cur) = {}
    BY <2>1 DEF Triggers
  <2>2. CASE Matched(cur) # {}
    <3>1. Matched(cur) \in SUBSET (0..NumEvents)
      BY <1>4, EventsFinite
    <3>2. Least(Matched(cur)) \in Matched(cur)
      BY <2>2, <3>1, LeastIn, EventsFinite
    <3> QED
      BY <1>4, <3>2 DEF Triggers
  <2> QED
    BY <2>1, <2>2
<1> QED
  BY <1>2, <1>3, <1>4, <1>5

(* The trigger at the head of a job is an alert of its rule. *)
LEMMA JobType ==
  ASSUME TypeOK, NEW w \in Worker
  PROVE  /\ job[w].rule \in Rule
         /\ job[w].triggers # {} => /\ TriggerOf(w) \in Alert
                                    /\ Least(job[w].triggers) \in Event
                                    /\ EventOf(TriggerOf(w)) \in Event
                                    /\ RuleOf(TriggerOf(w)) = job[w].rule
         /\ job[w].suppressed # {} => SuppressedOf(w) \in Alert
         /\ NextTrigger(w) \in [Worker -> Job]
         /\ NextSuppressed(w) \in [Worker -> Job]
<1>1. job[w] \in Job
  BY DEF TypeOK
<1>2. job[w].rule \in Rule /\ job[w].triggers \in SUBSET Event
      /\ job[w].suppressed \in SUBSET Event
  BY <1>1 DEF Job
<1>3. job[w].triggers \in SUBSET (0..NumEvents)
      /\ job[w].suppressed \in SUBSET (0..NumEvents)
  BY <1>2, EventsFinite
<1>4. job[w].triggers # {} => Least(job[w].triggers) \in Event
  BY <1>2, <1>3, LeastIn, EventsFinite
<1>5. job[w].suppressed # {} => Least(job[w].suppressed) \in Event
  BY <1>2, <1>3, LeastIn, EventsFinite
<1>6. NextTrigger(w) \in [Worker -> Job] /\ NextSuppressed(w) \in [Worker -> Job]
  <2> DEFINE A == job[w].triggers \ {Least(job[w].triggers)}
             B == job[w].suppressed \ {Least(job[w].suppressed)}
  <2>1. A \in SUBSET Event /\ B \in SUBSET Event
    BY <1>2
  <2>2. /\ [job[w] EXCEPT !.triggers = A] \in Job
        /\ [job[w] EXCEPT !.suppressed = B] \in Job
    <3> HIDE DEF A, B
    <3> QED
      BY <1>1, <2>1 DEF Job
  <2>3. /\ NextTrigger(w) = [job EXCEPT ![w] = [job[w] EXCEPT !.triggers = A]]
        /\ NextSuppressed(w) = [job EXCEPT ![w] = [job[w] EXCEPT !.suppressed = B]]
    BY DEF NextTrigger, NextSuppressed
  <2>4. \A j \in Job : [job EXCEPT ![w] = j] \in [Worker -> Job]
    BY DEF TypeOK
  <2> HIDE DEF A, B
  <2> QED
    BY <2>2, <2>3, <2>4
<1> QED
  BY <1>2, <1>4, <1>5, <1>6, RowShape DEF TriggerOf, SuppressedOf

LEMMA TypePrepare ==
  ASSUME TypeOK, NEW w \in Worker,
         \/ AcquireLock(w) \/ ReconcileMarketNotificationSources(w)
         \/ RecoverStaleMarketDeliveries(w) \/ ListEnabledMarketRules(w)
  PROVE  TypeOK'
<1> USE DEF chainVars, rowVars, windowVars, planVars, ruleVars, cycleVars, chatVars
<1>1. CASE AcquireLock(w)
  BY <1>1 DEF AcquireLock, TryLock, Goto, TypeOK, Step
<1>2. CASE ReconcileMarketNotificationSources(w)
  <2>1. \A x \in Window : Cardinality(LiveMembers(x)) \in Nat
    BY EventsFinite DEF LiveMembers, TypeOK
  <2>2. count' \in [Window -> Nat]
    BY <1>2, <2>1 DEF ReconcileMarketNotificationSources, TypeOK
  <2>3. status' \in [Row -> Status]
    BY <1>2 DEF ReconcileMarketNotificationSources, RecountedStatus, TypeOK, Status
  <2> QED
    BY <1>2, <2>2, <2>3
       DEF ReconcileMarketNotificationSources, KeepLeases, Goto, TypeOK, Step
<1>3. CASE RecoverStaleMarketDeliveries(w)
  BY <1>3 DEF RecoverStaleMarketDeliveries, Stale, KeepLeases, Goto, TypeOK, Step,
              Status
<1>4. CASE ListEnabledMarketRules(w)
  BY <1>4 DEF ListEnabledMarketRules, Goto, TypeOK, Step
<1> QED
  BY <1>1, <1>2, <1>3, <1>4

LEMMA TypeEvaluate ==
  ASSUME TypeOK, NEW w \in Worker,
         \/ \E r \in Rule : SkipPausedRule(w, r) \/ LoadMarketRuleTargetState(w, r)
         \/ EstablishBaseline(w)
         \/ \E available \in BOOLEAN : EvaluateRule(w, available)
  PROVE  TypeOK'
<1> USE DEF chainVars, rowVars, windowVars, planVars, ruleVars, cycleVars, chatVars
<1>1. ASSUME NEW r \in Rule, SkipPausedRule(w, r) PROVE TypeOK'
  BY <1>1 DEF SkipPausedRule, TypeOK
<1>2. ASSUME NEW r \in Rule, LoadMarketRuleTargetState(w, r) PROVE TypeOK'
  <2>1. job' \in [Worker -> Job]
    BY <1>2, Defaults DEF LoadMarketRuleTargetState, TypeOK, Job
  <2> QED
    BY <1>2, <2>1 DEF LoadMarketRuleTargetState, Goto, TypeOK, Step
<1>3. CASE EstablishBaseline(w)
  <2> DEFINE P == {e \in Event : Present(e)}
             S == {0} \cup P
  <2>1. Greatest(S) \in Nat
    <3>1. P \in SUBSET Event
      OBVIOUS
    <3>2. S \in SUBSET (0..NumEvents) /\ S # {}
      <4> HIDE DEF P
      <4> QED
        BY <3>1, EventsFinite
    <3> HIDE DEF S
    <3>3. PICK m \in S : m = Greatest(S)
      BY <3>2, GreatestIn, EventsFinite
    <3>4. m \in 0..NumEvents
      BY <3>2
    <3> QED
      BY <3>3, <3>4
  <2>2. job' = [job EXCEPT ![w].upTo = Greatest(S)]
    BY <1>3 DEF EstablishBaseline
  <2>3. job' \in [Worker -> Job]
    <3> HIDE DEF S
    <3>1. PICK j \in Job : j = job[w]
      BY DEF TypeOK
    <3>2. [j EXCEPT !.upTo = Greatest(S)] \in Job
      BY <2>1 DEF Job
    <3>3. job \in [Worker -> Job]
      BY DEF TypeOK
    <3>4. job' = [job EXCEPT ![w] = [j EXCEPT !.upTo = Greatest(S)]]
      BY <2>2, <3>1, <3>3
    <3> QED
      BY <3>2, <3>3, <3>4
  <2> QED
    BY <1>3, <2>3 DEF EstablishBaseline, Goto, TypeOK, Step
<1>4. ASSUME NEW available \in BOOLEAN, EvaluateRule(w, available) PROVE TypeOK'
  <2>1. PICK r \in Rule, cur \in Nat : r = job[w].rule /\ cur = job[w].upTo
    BY DEF TypeOK, Job
  <2> DEFINE upTo == Reached(cur)
             triggers == Triggers(r, cur, available)
             suppressed == Matched(cur) \ triggers
  <2>2. upTo \in Nat /\ triggers \in SUBSET Event /\ suppressed \in SUBSET Event
    BY EvaluationType
  <2>3. job' = [job EXCEPT ![w].upTo = upTo, ![w].triggers = triggers,
                           ![w].suppressed = suppressed]
    BY <1>4, <2>1 DEF EvaluateRule
  <2>4. job' \in [Worker -> Job]
    <3> HIDE DEF upTo, triggers, suppressed
    <3>1. [job[w] EXCEPT !.upTo = upTo, !.triggers = triggers,
                         !.suppressed = suppressed] \in Job
      <4>1. PICK j \in Job : j = job[w]
        BY DEF TypeOK
      <4> QED
        BY <2>2, <4>1 DEF Job
    <3>2. job' = [job EXCEPT ![w] = [job[w] EXCEPT
                    !.upTo = upTo, !.triggers = triggers, !.suppressed = suppressed]]
      <4>1. job \in [Worker -> Job] /\ DOMAIN job = Worker
        BY DEF TypeOK
      <4> QED
        BY <2>3, <4>1
    <3>3. job \in [Worker -> Job]
      BY DEF TypeOK
    <3>4. PICK j \in Job : j = [job[w] EXCEPT !.upTo = upTo, !.triggers = triggers,
                                            !.suppressed = suppressed]
      BY <3>1
    <3> QED
      BY <3>2, <3>3, <3>4
  <2> QED
    BY <1>4, <2>4 DEF EvaluateRule, Goto, TypeOK, Step
<1> QED
  BY <1>1, <1>2, <1>3, <1>4

LEMMA TypePersist ==
  ASSUME TypeOK, NEW w \in Worker,
         \/ KeepExistingAlert(w) \/ CreateMarketRuleEvent(w) \/ SuppressTrigger(w)
         \/ RefuseTrigger(w) \/ RefuseStageTrigger(w) \/ UpdateMarketRuleState(w)
  PROVE  TypeOK'
<1> USE DEF chainVars, rowVars, windowVars, planVars, ruleVars, cycleVars, chatVars
<1>1. CASE KeepExistingAlert(w)
  BY <1>1, JobType DEF KeepExistingAlert, TypeOK
<1>2. CASE CreateMarketRuleEvent(w)
  <2>1. status' \in [Row -> Status] /\ pc' \in [Worker -> Step]
    BY <1>2 DEF CreateMarketRuleEvent, Goto, TypeOK, Status, Step
  <2>2. \A f \in [Worker -> Job] : [f EXCEPT ![w].created = TRUE] \in [Worker -> Job]
    BY DEF Job
  <2>3. job' \in [Worker -> Job]
    <3>1. \/ job' = [job EXCEPT ![w].created = TRUE]
          \/ job' = [NextTrigger(w) EXCEPT ![w].created = TRUE]
      BY <1>2 DEF CreateMarketRuleEvent
    <3>2. PICK f \in [Worker -> Job] : f = NextTrigger(w)
      BY JobType
    <3>3. job \in [Worker -> Job]
      BY DEF TypeOK
    <3> QED
      BY <2>2, <3>1, <3>2, <3>3
  <2> QED
    BY <1>2, <2>1, <2>3 DEF CreateMarketRuleEvent, TypeOK
<1>3. CASE SuppressTrigger(w)
  <2>1. status' \in [Row -> Status]
    BY <1>3 DEF SuppressTrigger, TypeOK, Status
  <2> QED
    BY <1>3, <2>1, JobType DEF SuppressTrigger, TypeOK
<1>4. CASE RefuseTrigger(w)
  BY <1>4, TypeEndCycle DEF RefuseTrigger, TypeOK
<1>5. CASE RefuseStageTrigger(w)
  BY <1>5, TypeEndCycle DEF RefuseStageTrigger, TypeOK
<1>6. CASE UpdateMarketRuleState(w)
  <2>1. PICK r \in Rule, n \in Nat, b \in Nat :
          r = job[w].rule /\ n = job[w].upTo /\ b = baseline[job[w].rule]
    BY DEF TypeOK, Job
  <2>2. Greatest({b, n}) \in Nat
    <3>1. PICK m \in Nat : m = IF b <= n THEN n ELSE b
      OBVIOUS
    <3>2. {b, n} \in SUBSET (0..m)
      BY <3>1
    <3> QED
      BY <3>2, GreatestIn
  <2>3. baseline' \in [Rule -> Nat]
    <3>1. baseline' = baseline \/ baseline' = [baseline EXCEPT ![r] = Greatest({b, n})]
      BY <1>6, <2>1 DEF UpdateMarketRuleState
    <3> QED
      BY <2>2, <3>1 DEF TypeOK
  <2>4. /\ known' \in [Rule -> BOOLEAN] /\ cursor' \in [Rule -> Nat]
        /\ fired' \in [Rule -> BOOLEAN]
    BY <1>6, <2>1 DEF UpdateMarketRuleState, TypeOK, Job
  <2> QED
    BY <1>6, <2>3, <2>4, Defaults DEF UpdateMarketRuleState, Goto, TypeOK, Step
<1> QED
  BY <1>1, <1>2, <1>3, <1>4, <1>5, <1>6

LEMMA TypeStage ==
  ASSUME TypeOK, NEW w \in Worker, RecordMarketStageTrigger(w),
         job[w].triggers # {}
  PROVE  TypeOK'
<1> USE DEF chainVars, rowVars, windowVars, planVars, ruleVars, cycleVars, chatVars
<1> DEFINE win == IF OpenWindows(RuleOf(StagedAlert(w))) \
                       {x \in OpenWindows(RuleOf(StagedAlert(w))) : over[x]} # {}
                  THEN CHOOSE x \in OpenWindows(RuleOf(StagedAlert(w))) \
                       {x \in OpenWindows(RuleOf(StagedAlert(w))) : over[x]} : TRUE
                  ELSE NextWindow(RuleOf(StagedAlert(w)))
<1>1. PICK v : v = win
  OBVIOUS
<1>2. EventOf(StagedAlert(w)) \in Event
  BY JobType DEF StagedAlert
<1>3. members' = [members EXCEPT ![v] = @ \cup {EventOf(StagedAlert(w))}]
  BY <1>1 DEF RecordMarketStageTrigger
<1>4. members' \in [Window -> SUBSET Event]
  BY <1>2, <1>3 DEF TypeOK
<1>5. count' \in [Window -> Nat]
  <2>1. count' = [count EXCEPT ![v] = @ + 1]
    BY <1>1 DEF RecordMarketStageTrigger
  <2>2. count \in [Window -> Nat]
    BY DEF TypeOK
  <2>3. v \in Window => count[v] + 1 \in Nat
    BY <2>2
  <2> HIDE <1>1
  <2> QED
    BY <2>1, <2>2, <2>3
<1>6. closed' \in [Window -> BOOLEAN]
  BY DEF RecordMarketStageTrigger, CloseWindows, TypeOK
<1>7. due' \in [Row -> BOOLEAN]
  BY DEF RecordMarketStageTrigger, TypeOK
<1>8. status' \in [Row -> Status]
  BY DEF RecordMarketStageTrigger, TypeOK, Status
<1> QED
  BY <1>4, <1>5, <1>6, <1>7, <1>8, JobType
     DEF RecordMarketStageTrigger, Goto, TypeOK, Step

(* A message names only events it covers. *)
LEMMA ContentsType ==
  ASSUME TypeOK, NEW x \in Row, NEW c \in Contents(x)
  PROVE  c \in Content /\ c.named \subseteq c.covered
<1>1. CASE x \in Alert
  BY <1>1, RowShape DEF Contents, Content
<1>2. CASE x \notin Alert
  <2>1. LiveMembers(x) \in SUBSET Event
    BY <1>2 DEF LiveMembers, Row, TypeOK
  <2>2. PICK S \in Listings(x) : c = [named |-> S, covered |-> LiveMembers(x)]
    BY <1>2 DEF Contents
  <2>3. S \subseteq LiveMembers(x)
    BY DEF Listings
  <2> QED
    BY <2>1, <2>2, <2>3 DEF Content
<1> QED
  BY <1>1, <1>2

LEMMA TypeDeliver ==
  ASSUME TypeOK, NEW w \in Worker,
         \/ ClaimMarketDeliveries(w)
         \/ \E x \in Row : LoadMarketDelivery(w, x)
         \/ SendAccepted(w) \/ SendRefused(w) \/ SendUnanswered(w)
         \/ CompleteMarketDelivery(w) \/ CompleteNothing(w) \/ MarkMembersSent(w)
         \/ CompletionLost(w) \/ FinishCycle(w)
  PROVE  TypeOK'
<1> USE DEF chainVars, rowVars, windowVars, planVars, ruleVars, cycleVars, chatVars
<1>1. CASE ClaimMarketDeliveries(w)
  BY <1>1 DEF ClaimMarketDeliveries, Goto, TypeOK, Status, Step
<1>2. ASSUME NEW x \in Row, LoadMarketDelivery(w, x) PROVE TypeOK'
  <2>1. \A c \in Contents(x) : c \in Content
    BY ContentsType
  <2>2. NoContent \in Content
    BY DEF NoContent, Content
  <2>3. PICK c \in Content : content' = [content EXCEPT ![w] = c]
    BY <1>2, <2>1, <2>2 DEF LoadMarketDelivery
  <2>4. content' \in [Worker -> Content]
    BY <2>3 DEF TypeOK
  <2> QED
    BY <1>2, <2>4 DEF LoadMarketDelivery, Goto, TypeOK, Step
<1>3. /\ current[w] \in Row
      /\ content[w].named \in SUBSET Event /\ content[w].covered \in SUBSET Event
  BY DEF TypeOK, Content
<1>4. \A S \in SUBSET Event : {AlertOf(RuleOf(current[w]), e) : e \in S} \in SUBSET Alert
  BY <1>3, RowShape
<1>5. ReachesChat(w) => /\ sent' \in [Row -> Nat]
                        /\ carried' \in SUBSET Alert /\ covered' \in SUBSET Alert
  BY <1>3, <1>4 DEF ReachesChat, TypeOK
<1>6. DeliveryOver(w) => /\ current' \in [Worker -> Row]
                         /\ content' \in [Worker -> Content]
                         /\ result' \in [Worker -> {"sent", "failed"}]
                         /\ pc' \in [Worker -> Step]
  BY Defaults DEF DeliveryOver, Goto, TypeOK, Step, Content, NoContent
<1>7. CASE SendAccepted(w)
  BY <1>5, <1>7 DEF SendAccepted, Goto, TypeOK, Step
<1>8. CASE SendRefused(w)
  BY <1>8 DEF SendRefused, Goto, TypeOK, Step
<1>9. CASE SendUnanswered(w)
  BY <1>5, <1>9 DEF SendUnanswered, Fault, Goto, TypeOK, Step
<1>10. CASE CompleteMarketDelivery(w)
  <2>1. status' \in [Row -> Status] /\ attempts' \in [Row -> Nat]
        /\ due' \in [Row -> BOOLEAN] /\ lapsed' \in [Row -> BOOLEAN]
    BY <1>3, <1>10 DEF CompleteMarketDelivery, CompletedStatus, KeepLeases, TypeOK,
                       Status
  <2> QED
    BY <1>6, <1>10, <2>1 DEF CompleteMarketDelivery, Goto, TypeOK, Step
<1>11. CASE CompleteNothing(w)
  BY <1>6, <1>11 DEF CompleteNothing, TypeOK
<1>12. CASE MarkMembersSent(w)
  BY <1>6, <1>12 DEF MarkMembersSent, TypeOK, Status
<1>13. CASE CompletionLost(w)
  BY <1>6, <1>13 DEF CompletionLost, Fault, TypeOK
<1>14. CASE FinishCycle(w)
  BY <1>14, TypeEndCycle DEF FinishCycle, TypeOK
<1> QED
  BY <1>1, <1>2, <1>7, <1>8, <1>9, <1>10, <1>11, <1>12, <1>13, <1>14

LEMMA TypeFailures ==
  ASSUME TypeOK, NEW w \in Worker, Crash(w) \/ LoseLock(w)
  PROVE  TypeOK'
<1> USE DEF chainVars, rowVars, windowVars, planVars, ruleVars, cycleVars, chatVars
<1>1. CASE Crash(w)
  BY <1>1, TypeEndCycle DEF Crash, Fault, TypeOK
<1>2. CASE LoseLock(w)
  BY <1>2 DEF LoseLock, Fault, TypeOK
<1> QED
  BY <1>1, <1>2

(* A worker that is about to stage a trigger has one.  TypeOK needs it: the
   window's members grow by the event of that trigger. *)
StageHasTrigger == \A w \in Worker : pc[w] = "stage" => job[w].triggers # {}

LEMMA StageHasTriggerStep ==
  ASSUME TypeOK, StageHasTrigger, [Next]_vars
  PROVE  StageHasTrigger'
<1> USE DEF vars, chainVars, rowVars, windowVars, planVars, ruleVars, cycleVars,
            chatVars
<1>1. CASE UNCHANGED <<pc, job>>
  BY <1>1 DEF StageHasTrigger
<1>2. CASE Chain
  BY <1>1, <1>2 DEF Chain, InsertEvent, ReviveEvent, MarkMarketBlockConfirmed,
                    MarkMarketBlockReorged
<1>3. CASE Clock
  BY <1>1, <1>3 DEF Clock, BackoffElapses, LeaseExpires, WindowEnds
<1>4. CASE Entitlements
  BY <1>1, <1>4 DEF Entitlements, PlanExpires, PauseExpiredUserResources, Renew,
                    RestoreMarketRule
<1>5. ASSUME NEW w \in Worker, RunCycle(w) \/ Failures(w)
      PROVE  StageHasTrigger'
  <2>1. CASE UNCHANGED job /\ \E s \in Step \ {"stage"} : Goto(w, s)
    BY <2>1 DEF StageHasTrigger, Goto, TypeOK
  <2>2. CASE EndCycle(w)
    BY <2>2 DEF StageHasTrigger, EndCycle, Goto, TypeOK
  <2>3. CASE \/ AcquireLock(w) \/ ReconcileMarketNotificationSources(w)
             \/ RecoverStaleMarketDeliveries(w) \/ ListEnabledMarketRules(w)
             \/ ClaimMarketDeliveries(w) \/ \E x \in Row : LoadMarketDelivery(w, x)
             \/ SendAccepted(w) \/ SendRefused(w) \/ SendUnanswered(w)
             \/ CompleteMarketDelivery(w) \/ CompleteNothing(w)
             \/ MarkMembersSent(w) \/ CompletionLost(w)
    BY <2>1, <2>3 DEF AcquireLock, ReconcileMarketNotificationSources,
         RecoverStaleMarketDeliveries, ListEnabledMarketRules,
         ClaimMarketDeliveries, LoadMarketDelivery, SendAccepted, SendRefused,
         SendUnanswered, CompleteMarketDelivery, CompleteNothing, MarkMembersSent,
         CompletionLost, DeliveryOver, Step
  <2>4. CASE \/ RefuseTrigger(w) \/ RefuseStageTrigger(w) \/ FinishCycle(w)
             \/ Crash(w)
    BY <2>2, <2>4 DEF RefuseTrigger, RefuseStageTrigger, FinishCycle, Crash
  <2>5. CASE (\E r \in Rule : SkipPausedRule(w, r)) \/ LoseLock(w)
    BY <1>1, <2>5 DEF SkipPausedRule, LoseLock
  <2>6. CASE \/ \E r \in Rule : LoadMarketRuleTargetState(w, r)
             \/ EstablishBaseline(w)
             \/ \E available \in BOOLEAN : EvaluateRule(w, available)
             \/ UpdateMarketRuleState(w) \/ RecordMarketStageTrigger(w)
    <3>1. /\ pc' = [pc EXCEPT ![w] = pc'[w]] /\ pc'[w] # "stage"
          /\ \A v \in Worker \ {w} : job'[v] = job[v]
      BY <2>6 DEF LoadMarketRuleTargetState, EstablishBaseline, EvaluateRule,
                  UpdateMarketRuleState, RecordMarketStageTrigger, NextTrigger,
                  Goto, TypeOK
    <3> QED
      BY <3>1 DEF StageHasTrigger, TypeOK
  <2>7. CASE KeepExistingAlert(w) \/ SuppressTrigger(w)
    <3>1. /\ pc' = pc /\ pc[w] # "stage"
          /\ \A v \in Worker \ {w} : job'[v] = job[v]
      BY <2>7 DEF KeepExistingAlert, SuppressTrigger, MoreTriggers, MoreSuppressed,
                  NextTrigger, NextSuppressed, TypeOK
    <3> QED
      BY <3>1 DEF StageHasTrigger
  <2>8. CASE CreateMarketRuleEvent(w)
    <3>1. /\ \A v \in Worker \ {w} : pc'[v] = pc[v] /\ job'[v] = job[v]
          /\ pc'[w] = "stage" => job'[w].triggers = job[w].triggers
          /\ job[w].triggers # {}
      BY <2>8 DEF CreateMarketRuleEvent, NextTrigger, MoreTriggers, Goto, TypeOK, Job
    <3> QED
      BY <3>1 DEF StageHasTrigger
  <2> QED
    BY <1>5, <2>3, <2>4, <2>5, <2>6, <2>7, <2>8 DEF RunCycle, Failures
<1> QED
  BY <1>1, <1>2, <1>3, <1>4, <1>5 DEF Next

LEMMA TypeStep ==
  ASSUME TypeOK, StageHasTrigger, [Next]_vars
  PROVE  TypeOK'
<1>1. CASE UNCHANGED vars
  BY <1>1 DEF vars, chainVars, rowVars, windowVars, planVars, ruleVars, cycleVars,
              chatVars, TypeOK
<1>2. CASE Chain \/ Clock \/ Entitlements
  BY <1>2, TypeChain, TypeClock, TypeEntitlements
<1>3. ASSUME NEW w \in Worker, RunCycle(w) \/ Failures(w) PROVE TypeOK'
  <2>1. RecordMarketStageTrigger(w) => job[w].triggers # {}
    BY DEF RecordMarketStageTrigger, StageHasTrigger
  <2> QED
    BY <1>3, <2>1, TypePrepare, TypeEvaluate, TypePersist, TypeStage, TypeDeliver,
       TypeFailures DEF RunCycle, Failures
<1> QED
  BY <1>1, <1>2, <1>3 DEF Next

(* The state stays well typed: TypeOK with the fact about staging is inductive. *)
THEOREM TypeCorrect == Spec => [](TypeOK /\ StageHasTrigger)
<1>1. Init => StageHasTrigger
  BY DEF Init, StageHasTrigger
<1> QED
  BY <1>1, TypeInit, TypeStep, StageHasTriggerStep, PTL DEF Spec

-----------------------------------------------------------------------------
(* What is settled, and the attempts left to what is not *)

Settled == {"sent", "skipped"}

LEMMA SettledStep ==
  ASSUME TypeOK, [Next]_vars
  PROVE  \A x \in Row : status[x] \in Settled => status'[x] = status[x]
<1> SUFFICES ASSUME NEW x \in Row, status[x] \in Settled
             PROVE  status'[x] = status[x]
  OBVIOUS
<1> USE DEF vars, chainVars, rowVars, windowVars, planVars, ruleVars, cycleVars,
            chatVars
<1>1. CASE UNCHANGED vars
  BY <1>1
<1>2. CASE Chain
  BY <1>2 DEF Chain, InsertEvent, ReviveEvent, MarkMarketBlockConfirmed,
              MarkMarketBlockReorged, Settled
<1>3. CASE Clock
  BY <1>3 DEF Clock, BackoffElapses, LeaseExpires, WindowEnds
<1>4. CASE Entitlements
  BY <1>4 DEF Entitlements, PlanExpires, PauseExpiredUserResources, PauseResources,
              PausedStatus, Renew, RestoreMarketRule, Settled
<1>5. ASSUME NEW w \in Worker, RunCycle(w) \/ Failures(w)
      PROVE  status'[x] = status[x]
  <2>1. CASE ReconcileMarketNotificationSources(w)
    BY <2>1 DEF ReconcileMarketNotificationSources, RecountedWindow, Settled
  <2>2. CASE RecoverStaleMarketDeliveries(w)
    BY <2>2 DEF RecoverStaleMarketDeliveries, Stale, Settled
  <2>3. CASE CreateMarketRuleEvent(w) \/ SuppressTrigger(w)
    BY <2>3 DEF CreateMarketRuleEvent, SuppressTrigger, Settled, TypeOK
  <2>4. CASE RecordMarketStageTrigger(w)
    BY <2>4 DEF RecordMarketStageTrigger, CanStage, Settled
  <2>5. CASE ClaimMarketDeliveries(w)
    BY <2>5 DEF ClaimMarketDeliveries, Claimable, Settled
  <2>6. CASE CompleteMarketDelivery(w)
    BY <2>6 DEF CompleteMarketDelivery, Settled, TypeOK
  <2>7. CASE MarkMembersSent(w)
    BY <2>7 DEF MarkMembersSent, TakenUp, Settled
  <2>8. CASE UNCHANGED status
    BY <2>8
  <2> QED
    BY <1>5, <2>1, <2>2, <2>3, <2>4, <2>5, <2>6, <2>7, <2>8
       DEF RunCycle, Failures, AcquireLock, ListEnabledMarketRules, SkipPausedRule,
           LoadMarketRuleTargetState, EstablishBaseline, EvaluateRule,
           KeepExistingAlert, RefuseTrigger, RefuseStageTrigger,
           UpdateMarketRuleState, LoadMarketDelivery, SendAccepted, SendRefused,
           CompleteNothing, FinishCycle, SendUnanswered, CompletionLost, Crash,
           LoseLock
<1> QED
  BY <1>1, <1>2, <1>3, <1>4, <1>5 DEF Next

(* No step takes up a row again that was sent or given up. *)
THEOREM SettledStaysSettledCorrect == Spec => SettledStaysSettled
<1>1. TypeOK /\ [Next]_vars =>
        [\A x \in Row : status[x] \in {"sent", "skipped"} => status'[x] = status[x]]_vars
  BY SettledStep DEF Settled
<1> QED
  BY <1>1, TypeCorrect, PTL DEF Spec, SettledStaysSettled

(* Only a completion changes the attempts, of the row it finds being sent. *)
LEMMA AttemptsChange ==
  ASSUME TypeOK, [Next]_vars
  PROVE  attempts' = attempts \/ \E w \in Worker : CompleteMarketDelivery(w)
<1> USE DEF vars, chainVars, rowVars, windowVars, planVars, ruleVars, cycleVars,
            chatVars
<1>1. CASE UNCHANGED vars
  BY <1>1
<1>2. CASE Chain
  BY <1>2 DEF Chain, InsertEvent, ReviveEvent, MarkMarketBlockConfirmed,
              MarkMarketBlockReorged
<1>3. CASE Clock
  BY <1>3 DEF Clock, BackoffElapses, LeaseExpires, WindowEnds
<1>4. CASE Entitlements
  BY <1>4 DEF Entitlements, PlanExpires, PauseExpiredUserResources, Renew,
              RestoreMarketRule
<1>5. ASSUME NEW w \in Worker, RunCycle(w) \/ Failures(w)
      PROVE  attempts' = attempts \/ CompleteMarketDelivery(w)
  <2>1. CASE \/ AcquireLock(w) \/ ReconcileMarketNotificationSources(w)
             \/ RecoverStaleMarketDeliveries(w) \/ ListEnabledMarketRules(w)
             \/ \E r \in Rule : SkipPausedRule(w, r) \/ LoadMarketRuleTargetState(w, r)
             \/ EstablishBaseline(w)
             \/ \E available \in BOOLEAN : EvaluateRule(w, available)
    BY <2>1 DEF AcquireLock, ReconcileMarketNotificationSources,
         RecoverStaleMarketDeliveries, ListEnabledMarketRules, SkipPausedRule,
         LoadMarketRuleTargetState, EstablishBaseline, EvaluateRule
  <2>2. CASE KeepExistingAlert(w) \/ RefuseTrigger(w)
             \/ RefuseStageTrigger(w) \/ UpdateMarketRuleState(w)
    BY <2>2 DEF KeepExistingAlert, RefuseTrigger, RefuseStageTrigger,
         UpdateMarketRuleState
  <2>3. CASE CreateMarketRuleEvent(w)
    BY <2>3 DEF CreateMarketRuleEvent
  <2>4. CASE SuppressTrigger(w)
    BY <2>4 DEF SuppressTrigger
  <2>5. CASE RecordMarketStageTrigger(w)
    BY <2>5 DEF RecordMarketStageTrigger
  <2>6. CASE \/ ClaimMarketDeliveries(w) \/ \E x \in Row : LoadMarketDelivery(w, x)
             \/ SendAccepted(w) \/ SendRefused(w) \/ CompleteNothing(w)
             \/ MarkMembersSent(w) \/ FinishCycle(w) \/ Failures(w)
    BY <2>6 DEF ClaimMarketDeliveries, LoadMarketDelivery, SendAccepted, SendRefused,
         CompleteNothing, MarkMembersSent, FinishCycle, Failures, SendUnanswered,
         CompletionLost, Crash, LoseLock
  <2> QED
    BY <1>5, <2>1, <2>2, <2>3, <2>4, <2>5, <2>6 DEF RunCycle
<1> QED
  BY <1>1, <1>2, <1>3, <1>4, <1>5 DEF Next

LEMMA AttemptsStep ==
  ASSUME TypeOK, UnsettledHasAttempts, [Next]_vars
  PROVE  UnsettledHasAttempts'
<1>1. CASE attempts' = attempts
  BY <1>1, SettledStep DEF UnsettledHasAttempts, Settled
<1>2. ASSUME NEW w \in Worker, CompleteMarketDelivery(w)
      PROVE  UnsettledHasAttempts'
  <2>1. PICK x \in Row : x = current[w]
    BY DEF TypeOK
  <2>2. /\ attempts' = [attempts EXCEPT ![x] = @ + 1]
        /\ status' = [status EXCEPT ![x] = CompletedStatus(w, x)]
    BY <1>2, <2>1 DEF CompleteMarketDelivery
  <2>3. CompletedStatus(w, x) \notin {"sent", "skipped"} => attempts[x] + 1 < MaxAttempts
    BY DeliveryAssumption DEF CompletedStatus, TypeOK
  <2> QED
    BY <2>2, <2>3 DEF UnsettledHasAttempts, TypeOK
<1> QED
  BY <1>1, <1>2, AttemptsChange

(* A row that is not settled never runs out of attempts: it can be claimed
   again, or is given up with its last attempt. *)
THEOREM UnsettledHasAttemptsCorrect == Spec => []UnsettledHasAttempts
<1>1. Init => UnsettledHasAttempts
  BY DeliveryAssumption DEF Init, UnsettledHasAttempts
<1> QED
  BY <1>1, AttemptsStep, TypeCorrect, PTL DEF Spec

-----------------------------------------------------------------------------
(* The handover of a row, as long as nothing fails *)

(* Only the worker w can be inside a cycle. *)
Alone(w) == \A v \in Worker \ {w} : pc[v] = "idle"

LEMMA HolderAlone ==
  ASSUME TypeOK, Handover, NEW w \in Worker, pc[w] # "idle"
  PROVE  lock = w /\ Alone(w)
BY DEF Handover, Alone

(* Beside w nobody has a row in hand. *)
LEMMA OnlyInHand ==
  ASSUME TypeOK, Handover, NEW w \in Worker, Alone(w), NEW v \in Worker,
         NEW x \in Row, InHand(v, x)
  PROVE  v = w
BY DEF Handover, Alone, InHand, Delivering

(* A worker with no row in hand can leave the deliveries alone: no row is being
   sent, and what was sent is settled. *)
LEMMA EmptyHanded ==
  ASSUME TypeOK, Handover, NEW w \in Worker, Alone(w),
         claims[w] = {}, pc[w] \notin {"send", "complete", "members"},
         NEW x \in Row
  PROVE  status[x] # "sending" /\ (sent[x] # 0 => sent[x] = 1 /\ status[x] \in Settled)
<1>1. \A v \in Worker : ~InHand(v, x)
  BY OnlyInHand DEF InHand
<1>2. \A v \in Worker : pc[v] # "complete"
  BY DEF Alone
<1> QED
  BY <1>1, <1>2 DEF Handover, Settled

(* The steps of a cycle outside its deliveries. *)
LEMMA HandoverPrepare ==
  ASSUME TypeOK, TypeOK', Handover, [Next]_vars, NEW w \in Worker, Alone(w),
         claims[w] = {}, pc[w] \notin {"send", "complete", "members"},
         pc'[w] \notin Delivering, pc'[w] # "idle" => lock' = w,
         claims'[w] = {}, result'[w] = "failed",
         \A v \in Worker \ {w} : pc'[v] = pc[v] /\ claims'[v] = claims[v]
                                /\ result'[v] = result[v],
         sent' = sent,
         \A x \in Row : status'[x] = "sending" => status[x] = "sending"
  PROVE  Handover'
<1>1. \A x \in Row : status'[x] # "sending"
  BY EmptyHanded
<1>2. \A x \in Row : sent'[x] # 0 => sent'[x] = 1 /\ status'[x] \in Settled
  BY EmptyHanded, SettledStep
<1>3. \A v \in Worker : claims'[v] = {} /\ result'[v] = "failed"
                         /\ pc'[v] \notin Delivering /\ (pc'[v] # "idle" => v = w)
  BY DEF Handover, Alone, Delivering
<1>4. \A v \in Worker : \A x \in Row : ~InHand(v, x)'
  BY <1>3 DEF InHand, Delivering
<1> QED
  BY <1>1, <1>2, <1>3, <1>4 DEF Handover, Delivering, Settled

(* The chain, the clock and the owner's plan: what was sent is left alone, and
   a row in hand is at most skipped. *)
LEMMA HandoverOutside ==
  ASSUME TypeOK, Handover, [Next]_vars,
         UNCHANGED <<lock, pc, claims, current, result, sent>>,
         \A x \in Row : \/ status'[x] = status[x]
                        \/ status[x] # "none" /\ status'[x] = "skipped"
  PROVE  Handover'
<1>1. \A w \in Worker : \A x \in Row : InHand(w, x)' <=> InHand(w, x)
  BY DEF InHand
<1>2. \A x \in Row : status[x] \in Settled => status'[x] = status[x]
  BY SettledStep
<1> QED
  BY <1>1, <1>2 DEF Handover, Settled

LEMMA HandoverClaim ==
  ASSUME TypeOK, Handover, NEW w \in Worker, ClaimMarketDeliveries(w)
  PROVE  Handover'
<1> USE DEF ruleVars, chatVars
<1> DEFINE rows == {x \in Row : Claimable(x)}
<1>1. pc[w] = "evaluate" /\ pc' = [pc EXCEPT ![w] = "deliver"]
      /\ claims' = [claims EXCEPT ![w] = rows]
      /\ status' = [x \in Row |-> IF x \in rows THEN "sending" ELSE status[x]]
      /\ UNCHANGED <<lock, current, result, sent>>
  BY DEF ClaimMarketDeliveries, Goto
<1>2. lock = w /\ Alone(w) /\ claims[w] = {} /\ result[w] = "failed"
  BY <1>1, HolderAlone DEF Handover, Delivering
<1>3. \A x \in Row : status[x] # "sending"
                      /\ (sent[x] # 0 => sent[x] = 1 /\ status[x] \in Settled)
  BY <1>1, <1>2, EmptyHanded
<1>4. \A x \in rows : x \in Row /\ sent[x] = 0
  BY <1>3 DEF Claimable, Settled
<1> HIDE DEF rows
<1>5. pc'[w] = "deliver" /\ claims'[w] = rows
      /\ \A v \in Worker \ {w} : pc'[v] = "idle" /\ claims'[v] = claims[v]
  BY <1>1, <1>2 DEF Alone, TypeOK
<1>6. \A v \in Worker \ {w} : claims'[v] = {}
  BY <1>5, <1>2 DEF Handover, Alone, Delivering
<1>7. \A v \in Worker : \A x \in Row : InHand(v, x)' <=> v = w /\ x \in rows
  BY <1>5, <1>6 DEF InHand
<1>8. \A v \in Worker : result'[v] = "failed"
  BY <1>1, <1>2 DEF Handover, Alone
<1>9. \A x \in Row : status'[x] = IF x \in rows THEN "sending" ELSE status[x]
  BY <1>1
<1> QED
  BY <1>1, <1>2, <1>3, <1>4, <1>5, <1>6, <1>7, <1>8, <1>9
     DEF Handover, Delivering, Settled

LEMMA HandoverLoad ==
  ASSUME TypeOK, Handover, NEW w \in Worker, NEW x \in Row,
         LoadMarketDelivery(w, x)
  PROVE  Handover'
<1> USE DEF rowVars, chatVars
<1>1. /\ pc[w] = "deliver" /\ x \in claims[w]
      /\ claims' = [claims EXCEPT ![w] = @ \ {x}]
      /\ current' = [current EXCEPT ![w] = x]
      /\ \E s \in {"send", "complete"} : pc' = [pc EXCEPT ![w] = s]
      /\ UNCHANGED <<lock, status, result, sent>>
  BY DEF LoadMarketDelivery, Goto
<1>2. lock = w /\ Alone(w) /\ result[w] = "failed" /\ sent[x] = 0
  BY <1>1, HolderAlone DEF Handover
<1>3. /\ pc'[w] \in {"send", "complete"} /\ current'[w] = x
      /\ claims'[w] = claims[w] \ {x}
      /\ \A v \in Worker \ {w} : pc'[v] = "idle" /\ claims'[v] = {}
  BY <1>1, <1>2 DEF Handover, Alone, Delivering, TypeOK
<1>4. \A v \in Worker : \A y \in Row : InHand(v, y)' <=> InHand(v, y)
  BY <1>1, <1>2, <1>3 DEF InHand, Alone, Handover, Delivering
<1>5. \A v \in Worker : pc[v] # "complete"
  BY <1>1, <1>2 DEF Alone
<1>6. \A v \in Worker : result[v] = "failed"
  BY <1>1, <1>2 DEF Handover, Alone
<1> QED
  BY <1>1, <1>2, <1>3, <1>4, <1>5, <1>6 DEF Handover, Delivering

LEMMA HandoverSend ==
  ASSUME TypeOK, Handover, NEW w \in Worker, SendAccepted(w) \/ SendRefused(w)
  PROVE  Handover'
<1> USE DEF rowVars, chatVars
<1> PICK x \in Row : x = current[w]
  BY DEF TypeOK
<1>1. /\ pc[w] = "send" /\ pc' = [pc EXCEPT ![w] = "complete"]
      /\ UNCHANGED <<lock, status, claims, current>>
  BY DEF SendAccepted, SendRefused, Goto
<1>2. lock = w /\ Alone(w) /\ result[w] = "failed" /\ sent[x] = 0
  BY <1>1, HolderAlone DEF Handover
<1>3. /\ pc'[w] = "complete" /\ \A v \in Worker \ {w} : pc'[v] = "idle"
      /\ \A v \in Worker \ {w} : claims[v] = {}
  BY <1>1, <1>2 DEF Handover, Alone, Delivering, TypeOK
<1>4. \A v \in Worker : \A y \in Row : InHand(v, y)' <=> InHand(v, y)
  BY <1>1, <1>2, <1>3 DEF InHand, Alone
<1>5. /\ \A y \in Row \ {x} : sent'[y] = sent[y]
      /\ \A v \in Worker \ {w} : result'[v] = "failed"
      /\ \/ sent'[x] = 1 /\ result'[w] = "sent"
         \/ sent'[x] = 0 /\ result'[w] = "failed"
  BY <1>1, <1>2 DEF SendAccepted, SendRefused, ReachesChat, TypeOK, Handover, Alone
<1>6. \A y \in claims[w] : y \in Row /\ y # x
  BY <1>1 DEF Handover, TypeOK
<1>7. \A v \in Worker : pc[v] # "complete"
  BY <1>1, <1>2 DEF Alone
<1> QED
  BY <1>1, <1>2, <1>3, <1>4, <1>5, <1>6, <1>7 DEF Handover, Delivering

LEMMA HandoverComplete ==
  ASSUME TypeOK, Handover, NEW w \in Worker, CompleteMarketDelivery(w)
  PROVE  Handover'
<1> USE DEF chatVars
<1> PICK x \in Row : x = current[w]
  BY DEF TypeOK
<1>1. /\ pc[w] = "complete" /\ status[x] = "sending"
      /\ status' = [status EXCEPT ![x] = CompletedStatus(w, x)]
      /\ UNCHANGED <<lock, claims, sent>>
  BY DEF CompleteMarketDelivery
<1>2. \/ /\ pc' = [pc EXCEPT ![w] = "deliver"]
         /\ result' = [result EXCEPT ![w] = "failed"]
      \/ /\ pc' = [pc EXCEPT ![w] = "members"] /\ UNCHANGED <<current, result>>
  BY DEF CompleteMarketDelivery, DeliveryOver, Goto
<1>3. lock = w /\ Alone(w)
  BY <1>1, HolderAlone
<1>4. \A v \in Worker \ {w} : /\ pc[v] = "idle" /\ pc'[v] = "idle"
                              /\ claims[v] = {} /\ result'[v] = "failed"
  BY <1>2, <1>3 DEF Handover, Alone, Delivering, TypeOK
<1>5. /\ pc'[w] \in {"deliver", "members"}
      /\ pc'[w] = "deliver" => result'[w] = "failed"
      /\ pc'[w] = "members" => current' = current
  BY <1>2 DEF TypeOK
<1>6. \A v \in Worker : \A y \in Row : InHand(v, y)' <=> v = w /\ y \in claims[w]
  BY <1>1, <1>4, <1>5 DEF InHand
<1>7. \A y \in claims[w] : y \in Row /\ y # x /\ sent[y] = 0
  BY <1>1 DEF Handover, TypeOK
<1>8. /\ status'[x] \in {"sent", "skipped", "failed"}
      /\ sent[x] # 0 => sent[x] = 1 /\ status'[x] = "sent"
      /\ \A y \in Row \ {x} : status'[y] = status[y]
  BY <1>1 DEF CompletedStatus, Handover, TypeOK
<1>9. \A y \in Row \ {x} : status[y] = "sending" => y \in claims[w]
  BY <1>1, <1>4 DEF Handover, InHand
<1>10. \A y \in Row \ {x} : sent[y] # 0 => sent[y] = 1 /\ status[y] \in Settled
  BY <1>4 DEF Handover, Settled
<1>11. \A y \in claims[w] : status'[y] \in {"sending", "sent", "skipped"}
  BY <1>7, <1>8 DEF Handover, InHand
<1> QED
  BY <1>1, <1>3, <1>4, <1>5, <1>6, <1>7, <1>8, <1>9, <1>10, <1>11
     DEF Handover, Delivering, Settled

LEMMA HandoverAfter ==
  ASSUME TypeOK, Handover, NEW w \in Worker, CompleteNothing(w) \/ MarkMembersSent(w)
  PROVE  Handover'
<1> USE DEF rowVars, chatVars
<1> PICK x \in Row : x = current[w]
  BY DEF TypeOK
<1>1. /\ pc[w] \in {"complete", "members"}
      /\ pc[w] = "complete" => status[x] # "sending"
      /\ pc' = [pc EXCEPT ![w] = "deliver"]
      /\ result' = [result EXCEPT ![w] = "failed"]
      /\ UNCHANGED <<lock, claims, sent>>
  BY DEF CompleteNothing, MarkMembersSent, DeliveryOver, Goto
<1>2. \A y \in Row : \/ status'[y] = status[y]
                     \/ status[y] = "staged" /\ status'[y] = "sent"
  BY DEF CompleteNothing, MarkMembersSent, TakenUp
<1>3. lock = w /\ Alone(w)
  BY <1>1, HolderAlone
<1>4. \A v \in Worker \ {w} : /\ pc[v] = "idle" /\ pc'[v] = "idle"
                              /\ claims[v] = {} /\ result'[v] = "failed"
  BY <1>1, <1>3 DEF Handover, Alone, Delivering, TypeOK
<1>5. pc'[w] = "deliver" /\ result'[w] = "failed"
  BY <1>1 DEF TypeOK
<1>6. \A v \in Worker : \A y \in Row : InHand(v, y)' <=> v = w /\ y \in claims[w]
  BY <1>1, <1>4, <1>5 DEF InHand
<1>7. \A y \in claims[w] : y \in Row /\ sent[y] = 0
  BY DEF Handover, TypeOK
<1>8. \A y \in Row : sent[y] # 0 => sent[y] = 1 /\ status[y] \in Settled
  <2> SUFFICES ASSUME NEW y \in Row, sent[y] # 0, status[y] \notin Settled
               PROVE  FALSE
    BY DEF Handover, Settled
  <2>1. pc[w] = "complete" /\ y = x
    BY <1>4 DEF Handover, Settled
  <2>2. InHand(w, x)
    BY <2>1 DEF InHand
  <2> QED
    BY <1>1, <2>1, <2>2 DEF Handover, Settled
<1>9. \A y \in Row : status[y] = "sending" => y \in claims[w]
  BY <1>1, <1>4 DEF Handover, InHand
<1>10. \A y \in claims[w] : status[y] \in {"sending", "sent", "skipped"}
  BY <1>7 DEF Handover, InHand
<1> QED
  BY <1>1, <1>2, <1>3, <1>4, <1>5, <1>6, <1>7, <1>8, <1>9, <1>10
     DEF Handover, Delivering, Settled

LEMMA HandoverStep ==
  ASSUME TypeOK, TypeOK', HandoverWithoutFaults, [Next]_vars
  PROVE  HandoverWithoutFaults'
<1> SUFFICES ASSUME faults' = 0 PROVE Handover'
  BY DEF HandoverWithoutFaults
<1> USE DEF chainVars, rowVars, windowVars, planVars, ruleVars, cycleVars, chatVars
<1>1. CASE UNCHANGED vars \/ Chain
  <2>1. Handover
    BY <1>1 DEF HandoverWithoutFaults, vars, Chain, InsertEvent, ReviveEvent,
                MarkMarketBlockConfirmed, MarkMarketBlockReorged
  <2>2. /\ UNCHANGED <<lock, pc, claims, current, result, sent>>
        /\ \A x \in Row : \/ status'[x] = status[x]
                          \/ status[x] # "none" /\ status'[x] = "skipped"
    BY <1>1 DEF vars, Chain, InsertEvent, ReviveEvent, MarkMarketBlockConfirmed,
                MarkMarketBlockReorged
  <2> QED
    BY <2>1, <2>2, HandoverOutside
<1>2. CASE Clock
  <2>1. Handover /\ UNCHANGED <<status, lock, pc, claims, current, result, sent>>
    BY <1>2 DEF HandoverWithoutFaults, Clock, BackoffElapses, LeaseExpires, WindowEnds
  <2> QED
    BY <2>1, HandoverOutside
<1>3. CASE Entitlements
  <2>1. /\ Handover /\ UNCHANGED <<lock, pc, claims, current, result, sent>>
        /\ \A x \in Row : \/ status'[x] = status[x]
                          \/ status[x] # "none" /\ status'[x] = "skipped"
    BY <1>3 DEF HandoverWithoutFaults, Entitlements, PlanExpires,
                PauseExpiredUserResources, PauseResources, PausedStatus, Renew,
                RestoreMarketRule
  <2> QED
    BY <2>1, HandoverOutside
<1>4. ASSUME NEW w \in Worker, Failures(w) PROVE Handover'
  <2>1. faults' = faults + 1 /\ faults \in Nat
    BY <1>4 DEF Failures, SendUnanswered, CompletionLost, Crash, LoseLock, Fault,
                TypeOK
  <2> QED
    BY <2>1
<1>5. ASSUME NEW w \in Worker, RunCycle(w) PROVE Handover'
  <2>1. CASE \/ \E x \in Row : LoadMarketDelivery(w, x)
             \/ ClaimMarketDeliveries(w)
             \/ SendAccepted(w) \/ SendRefused(w)
             \/ CompleteMarketDelivery(w) \/ CompleteNothing(w) \/ MarkMembersSent(w)
    <3>1. Handover
      BY <2>1 DEF HandoverWithoutFaults, LoadMarketDelivery, ClaimMarketDeliveries,
           SendAccepted, SendRefused, CompleteMarketDelivery, CompleteNothing,
           MarkMembersSent
    <3> QED
      BY <2>1, <3>1, HandoverLoad, HandoverClaim, HandoverSend, HandoverComplete,
         HandoverAfter
  <2>2. CASE AcquireLock(w)
    <3>1. /\ pc[w] = "idle" /\ lock = NoWorker /\ lock' = w
          /\ pc' = [pc EXCEPT ![w] = "reconcile"]
          /\ UNCHANGED <<status, claims, result, sent, faults>>
      BY <2>2 DEF AcquireLock, TryLock, Goto
    <3>2. Handover
      BY <3>1 DEF HandoverWithoutFaults
    <3>3. Alone(w)
      BY <3>1, <3>2, DeliveryAssumption DEF Handover, Alone
    <3>4. claims[w] = {} /\ result[w] = "failed"
      BY <3>1, <3>2 DEF Handover, Delivering
    <3> QED
      BY <3>1, <3>2, <3>3, <3>4, HandoverPrepare DEF TypeOK, Delivering
  <2>3. CASE \/ ReconcileMarketNotificationSources(w)
             \/ RecoverStaleMarketDeliveries(w) \/ ListEnabledMarketRules(w)
             \/ \E r \in Rule : SkipPausedRule(w, r) \/ LoadMarketRuleTargetState(w, r)
             \/ EstablishBaseline(w)
             \/ \E available \in BOOLEAN : EvaluateRule(w, available)
             \/ KeepExistingAlert(w) \/ UpdateMarketRuleState(w)
             \/ CreateMarketRuleEvent(w) \/ SuppressTrigger(w)
             \/ RecordMarketStageTrigger(w)
    <3>1. /\ pc[w] \notin Delivering /\ pc[w] # "idle"
          /\ \E s \in Step \ Delivering : pc' = [pc EXCEPT ![w] = s]
          /\ UNCHANGED <<lock, claims, result, sent, faults>>
      <4>1. CASE \/ ReconcileMarketNotificationSources(w)
                 \/ RecoverStaleMarketDeliveries(w) \/ ListEnabledMarketRules(w)
        BY <4>1 DEF ReconcileMarketNotificationSources, Goto, Delivering, Step,
             RecoverStaleMarketDeliveries, ListEnabledMarketRules
      <4>2. CASE \/ \E r \in Rule : LoadMarketRuleTargetState(w, r)
                 \/ EstablishBaseline(w)
                 \/ \E available \in BOOLEAN : EvaluateRule(w, available)
                 \/ UpdateMarketRuleState(w)
        BY <4>2 DEF LoadMarketRuleTargetState, EstablishBaseline, EvaluateRule,
             UpdateMarketRuleState, Evaluated, Goto, Delivering, Step
      <4>3. CASE KeepExistingAlert(w) \/ SuppressTrigger(w)
        BY <4>3 DEF KeepExistingAlert, SuppressTrigger, MoreTriggers, MoreSuppressed,
             Delivering, Step, TypeOK
      <4>4. CASE CreateMarketRuleEvent(w)
        BY <4>4 DEF CreateMarketRuleEvent, MoreTriggers, Goto, Delivering, Step
      <4>5. CASE RecordMarketStageTrigger(w)
        BY <4>5 DEF RecordMarketStageTrigger, Goto, Delivering, Step
      <4>6. CASE \E r \in Rule : SkipPausedRule(w, r)
        BY <4>6 DEF SkipPausedRule, Delivering, Step, TypeOK
      <4> QED
        BY <2>3, <4>1, <4>2, <4>3, <4>4, <4>5, <4>6
    <3>2. \A x \in Row : status'[x] = "sending" => status[x] = "sending"
      <4>1. CASE ReconcileMarketNotificationSources(w)
        BY <4>1 DEF ReconcileMarketNotificationSources, RecountedStatus
      <4>2. CASE RecoverStaleMarketDeliveries(w)
        BY <4>2 DEF RecoverStaleMarketDeliveries
      <4>3. CASE CreateMarketRuleEvent(w)
        BY <4>3 DEF CreateMarketRuleEvent, TypeOK
      <4>4. CASE SuppressTrigger(w)
        BY <4>4 DEF SuppressTrigger, TypeOK
      <4>5. CASE RecordMarketStageTrigger(w)
        BY <4>5 DEF RecordMarketStageTrigger
      <4>6. CASE UNCHANGED status
        BY <4>6
      <4> QED
        BY <2>3, <4>1, <4>2, <4>3, <4>4, <4>5, <4>6 DEF ListEnabledMarketRules,
           SkipPausedRule, LoadMarketRuleTargetState, EstablishBaseline, EvaluateRule,
           KeepExistingAlert, UpdateMarketRuleState
    <3>3. Handover
      BY <3>1 DEF HandoverWithoutFaults
    <3>4. lock = w /\ Alone(w) /\ claims[w] = {} /\ result[w] = "failed"
      BY <3>1, <3>3, HolderAlone DEF Handover, Delivering
    <3>5. pc'[w] \notin Delivering /\ \A v \in Worker \ {w} : pc'[v] = pc[v]
      BY <3>1 DEF TypeOK
    <3> QED
      BY <3>1, <3>2, <3>3, <3>4, <3>5, HandoverPrepare DEF Delivering
  <2>4. CASE RefuseTrigger(w) \/ RefuseStageTrigger(w) \/ FinishCycle(w)
    <3>1. /\ EndCycle(w) /\ UNCHANGED <<status, sent, faults>>
          /\ \/ pc[w] \in {"persist", "stage"}
             \/ pc[w] = "deliver" /\ claims[w] = {}
      BY <2>4 DEF RefuseTrigger, RefuseStageTrigger, FinishCycle, MoreTriggers,
                  MoreSuppressed
    <3>2. Handover
      BY <3>1 DEF HandoverWithoutFaults
    <3>3. Alone(w) /\ claims[w] = {}
      BY <3>1, <3>2, HolderAlone DEF Handover, Delivering
    <3>4. /\ pc'[w] = "idle" /\ claims'[w] = {} /\ result'[w] = "failed"
          /\ \A v \in Worker \ {w} : pc'[v] = pc[v] /\ claims'[v] = claims[v]
                                    /\ result'[v] = result[v]
      BY <3>1 DEF EndCycle, Goto, TypeOK
    <3> QED
      BY <3>1, <3>2, <3>3, <3>4, HandoverPrepare DEF Delivering
  <2> QED
    BY <1>5, <2>1, <2>2, <2>3, <2>4 DEF RunCycle
<1> QED
  BY <1>1, <1>2, <1>3, <1>4, <1>5 DEF Next

(* While nothing fails, a row is handed over from its claim to its completion
   inside the cycle of the one worker that holds the lock. *)
THEOREM HandoverCorrect == Spec => []HandoverWithoutFaults
<1>1. Init => HandoverWithoutFaults
  BY DEF Init, HandoverWithoutFaults, Handover, InHand, Delivering
<1> QED
  BY <1>1, HandoverStep, TypeCorrect, PTL DEF Spec

(* While no session is lost and no worker crashes, the advisory lock keeps every
   other worker out of the cycle. *)
THEOREM CyclesExcludeCorrect == Spec => []CyclesExclude
<1>1. HandoverWithoutFaults => CyclesExclude
  BY DEF HandoverWithoutFaults, Handover, CyclesExclude
<1> QED
  BY <1>1, HandoverCorrect, PTL

(* Without a failure no row of the outbox reaches the chat twice, however many
   workers, rules, events and retractions there are. *)
THEOREM SentOnceCorrect == Spec => []SentOnceWithoutFaults
<1>1. TypeOK /\ HandoverWithoutFaults => SentOnceWithoutFaults
  BY DEF TypeOK, HandoverWithoutFaults, Handover, SentOnceWithoutFaults
<1> QED
  BY <1>1, HandoverCorrect, TypeCorrect, PTL

-----------------------------------------------------------------------------
(* What every step leaves of the events, the baselines and the alerts *)

(* An alert's row is never taken out of the table. *)
LEMMA AlertsRemain ==
  ASSUME TypeOK, [Next]_vars
  PROVE  \A a \in Alert : status[a] # "none" => status'[a] # "none"
<1> SUFFICES ASSUME NEW a \in Alert, status[a] # "none" PROVE status'[a] # "none"
  OBVIOUS
<1>0. a \in Row /\ a \notin Window
  BY RowShape
<1> USE DEF vars, chainVars, rowVars, windowVars, planVars, ruleVars, cycleVars,
            chatVars
<1>1. CASE UNCHANGED vars
  BY <1>1
<1>2. CASE Chain
  BY <1>0, <1>2 DEF Chain, InsertEvent, ReviveEvent, MarkMarketBlockConfirmed,
              MarkMarketBlockReorged
<1>3. CASE Clock
  BY <1>3 DEF Clock, BackoffElapses, LeaseExpires, WindowEnds
<1>4. CASE Entitlements
  BY <1>0, <1>4 DEF Entitlements, PlanExpires, PauseExpiredUserResources,
              PauseResources, PausedStatus, Renew, RestoreMarketRule
<1>5. ASSUME NEW w \in Worker, RunCycle(w) \/ Failures(w)
      PROVE  status'[a] # "none"
  <2>1. CASE ReconcileMarketNotificationSources(w)
    BY <1>0, <2>1 DEF ReconcileMarketNotificationSources
  <2>2. CASE RecoverStaleMarketDeliveries(w)
    BY <1>0, <2>2 DEF RecoverStaleMarketDeliveries
  <2>3. CASE CreateMarketRuleEvent(w) \/ SuppressTrigger(w)
    BY <1>0, <2>3 DEF CreateMarketRuleEvent, SuppressTrigger, TypeOK
  <2>4. CASE RecordMarketStageTrigger(w)
    <3>1. status'[a] \in {"pending", "skipped", status[a]}
          \/ status'[a] = "collecting"
      BY <1>0, <2>4 DEF RecordMarketStageTrigger
    <3> QED
      BY <3>1
  <2>5. CASE ClaimMarketDeliveries(w)
    BY <1>0, <2>5 DEF ClaimMarketDeliveries
  <2>6. CASE CompleteMarketDelivery(w)
    BY <1>0, <2>6 DEF CompleteMarketDelivery, CompletedStatus, TypeOK
  <2>7. CASE MarkMembersSent(w)
    BY <1>0, <2>7 DEF MarkMembersSent
  <2>8. CASE UNCHANGED status
    BY <2>8
  <2> QED
    BY <1>5, <2>1, <2>2, <2>3, <2>4, <2>5, <2>6, <2>7, <2>8
       DEF RunCycle, Failures, AcquireLock, ListEnabledMarketRules, SkipPausedRule,
           LoadMarketRuleTargetState, EstablishBaseline, EvaluateRule,
           KeepExistingAlert, RefuseTrigger, RefuseStageTrigger,
           UpdateMarketRuleState, LoadMarketDelivery, SendAccepted, SendRefused,
           CompleteNothing, FinishCycle, SendUnanswered, CompletionLost, Crash,
           LoseLock
<1> QED
  BY <1>1, <1>2, <1>3, <1>4, <1>5 DEF Next

(* Events are the chain's. *)
LEMMA EventsChange ==
  ASSUME [Next]_vars
  PROVE  Chain \/ UNCHANGED chainVars
<1> USE DEF vars, chainVars, rowVars, windowVars, planVars, ruleVars, cycleVars,
            chatVars
<1>1. CASE UNCHANGED chainVars
  BY <1>1
<1>2. CASE Chain
  BY <1>2
<1>3. CASE Clock \/ Entitlements
  BY <1>1, <1>3 DEF Clock, BackoffElapses, LeaseExpires, WindowEnds, Entitlements,
     PlanExpires, PauseExpiredUserResources, Renew, RestoreMarketRule
<1>4. ASSUME NEW w \in Worker, RunCycle(w) \/ Failures(w)
      PROVE  UNCHANGED chainVars
  <2>1. CASE \/ AcquireLock(w) \/ ReconcileMarketNotificationSources(w)
             \/ RecoverStaleMarketDeliveries(w) \/ ListEnabledMarketRules(w)
             \/ \E r \in Rule : SkipPausedRule(w, r) \/ LoadMarketRuleTargetState(w, r)
             \/ EstablishBaseline(w)
             \/ \E available \in BOOLEAN : EvaluateRule(w, available)
    BY <2>1 DEF AcquireLock, ReconcileMarketNotificationSources,
         RecoverStaleMarketDeliveries, ListEnabledMarketRules, SkipPausedRule,
         LoadMarketRuleTargetState, EstablishBaseline, EvaluateRule
  <2>2. CASE \/ KeepExistingAlert(w) \/ RefuseTrigger(w) \/ CreateMarketRuleEvent(w)
             \/ SuppressTrigger(w) \/ RecordMarketStageTrigger(w)
             \/ RefuseStageTrigger(w) \/ UpdateMarketRuleState(w)
    BY <2>2 DEF KeepExistingAlert, RefuseTrigger, CreateMarketRuleEvent,
         SuppressTrigger, RecordMarketStageTrigger, RefuseStageTrigger,
         UpdateMarketRuleState
  <2>3. CASE \/ ClaimMarketDeliveries(w) \/ \E x \in Row : LoadMarketDelivery(w, x)
             \/ SendAccepted(w) \/ SendRefused(w) \/ SendUnanswered(w)
             \/ CompleteMarketDelivery(w) \/ CompleteNothing(w)
             \/ MarkMembersSent(w) \/ CompletionLost(w) \/ FinishCycle(w)
             \/ Crash(w) \/ LoseLock(w)
    BY <2>3 DEF ClaimMarketDeliveries, LoadMarketDelivery, SendAccepted, SendRefused,
         SendUnanswered, CompleteMarketDelivery, CompleteNothing, MarkMembersSent,
         CompletionLost, FinishCycle, Crash, LoseLock
  <2> QED
    BY <1>4, <2>1, <2>2, <2>3 DEF RunCycle, Failures
<1> QED
  BY <1>1, <1>2, <1>3, <1>4 DEF Next

(* An event that is not new was retracted, was confirmed, or is re-included.  The
   rules that had passed a new one are recorded. *)
LEMMA EventsMove ==
  ASSUME TypeOK, [Next]_vars
  PROVE  /\ revived \subseteq revived' /\ overtaken \subseteq overtaken'
         /\ \A e \in Event \ revived' :
              \/ event'[e] = event[e]
              \/ event[e] = "unconfirmed"
              \/ event[e] = "absent" /\ \A r \in Rule :
                                         Passed(r, e) => AlertOf(r, e) \in overtaken'
              \/ event[e] = "confirmed" /\ event'[e] = "reorged"
<1>1. CASE \E i \in Event, s \in {"unconfirmed", "confirmed"} : InsertEvent(i, s)
  BY <1>1 DEF InsertEvent, TypeOK
<1>2. CASE Chain
  BY <1>1, <1>2 DEF Chain, ReviveEvent, MarkMarketBlockConfirmed,
                    MarkMarketBlockReorged, TypeOK
<1>3. CASE UNCHANGED chainVars
  BY <1>3 DEF chainVars
<1> QED
  BY <1>2, <1>3, EventsChange

(* Only the end of an evaluation moves a cursor or a baseline, and a baseline
   moves forward. *)
LEMMA CursorsMove ==
  ASSUME TypeOK, [Next]_vars
  PROVE  UNCHANGED <<cursor, baseline>> \/ \E w \in Worker : UpdateMarketRuleState(w)
<1> USE DEF vars, chainVars, rowVars, windowVars, planVars, ruleVars, cycleVars,
            chatVars
<1>1. CASE UNCHANGED vars
  BY <1>1
<1>2. CASE Chain \/ Clock \/ Entitlements
  BY <1>2 DEF Chain, InsertEvent, ReviveEvent, MarkMarketBlockConfirmed,
     MarkMarketBlockReorged, Clock, BackoffElapses, LeaseExpires, WindowEnds,
     Entitlements, PlanExpires, PauseExpiredUserResources, Renew, RestoreMarketRule
<1>3. ASSUME NEW w \in Worker, RunCycle(w) \/ Failures(w)
      PROVE  UNCHANGED <<cursor, baseline>> \/ UpdateMarketRuleState(w)
  <2>1. CASE \/ AcquireLock(w) \/ ReconcileMarketNotificationSources(w)
             \/ RecoverStaleMarketDeliveries(w) \/ ListEnabledMarketRules(w)
             \/ \E r \in Rule : SkipPausedRule(w, r) \/ LoadMarketRuleTargetState(w, r)
             \/ EstablishBaseline(w)
             \/ \E available \in BOOLEAN : EvaluateRule(w, available)
    BY <2>1 DEF AcquireLock, ReconcileMarketNotificationSources,
         RecoverStaleMarketDeliveries, ListEnabledMarketRules, SkipPausedRule,
         LoadMarketRuleTargetState, EstablishBaseline, EvaluateRule
  <2>2. CASE \/ KeepExistingAlert(w) \/ RefuseTrigger(w) \/ CreateMarketRuleEvent(w)
             \/ SuppressTrigger(w) \/ RecordMarketStageTrigger(w)
             \/ RefuseStageTrigger(w)
    BY <2>2 DEF KeepExistingAlert, RefuseTrigger, CreateMarketRuleEvent,
         SuppressTrigger, RecordMarketStageTrigger, RefuseStageTrigger
  <2>3. CASE \/ ClaimMarketDeliveries(w) \/ \E x \in Row : LoadMarketDelivery(w, x)
             \/ SendAccepted(w) \/ SendRefused(w) \/ SendUnanswered(w)
             \/ CompleteMarketDelivery(w) \/ CompleteNothing(w)
             \/ MarkMembersSent(w) \/ CompletionLost(w) \/ FinishCycle(w)
             \/ Crash(w) \/ LoseLock(w)
    BY <2>3 DEF ClaimMarketDeliveries, LoadMarketDelivery, SendAccepted, SendRefused,
         SendUnanswered, CompleteMarketDelivery, CompleteNothing, MarkMembersSent,
         CompletionLost, FinishCycle, Crash, LoseLock
  <2> QED
    BY <1>3, <2>1, <2>2, <2>3 DEF RunCycle, Failures
<1> QED
  BY <1>1, <1>2, <1>3 DEF Next

(* A cursor is written with the job's place; the baseline, if the job was the
   first, is not behind it. *)
LEMMA UpdateWrites ==
  ASSUME TypeOK, NEW w \in Worker, UpdateMarketRuleState(w)
  PROVE  /\ cursor' = [cursor EXCEPT ![job[w].rule] = job[w].upTo]
         /\ \A r \in Rule : baseline[r] <= baseline'[r]
         /\ job[w].known => baseline' = baseline
         /\ ~job[w].known => job[w].upTo <= baseline'[job[w].rule]
<1>1. PICK r \in Rule, n \in Nat, b \in Nat :
        r = job[w].rule /\ n = job[w].upTo /\ b = baseline[job[w].rule]
  BY DEF TypeOK, Job
<1>2. Greatest({b, n}) \in Nat /\ b <= Greatest({b, n}) /\ n <= Greatest({b, n})
  <2>1. PICK m \in Nat : m = IF b <= n THEN n ELSE b
    OBVIOUS
  <2>2. {b, n} \in SUBSET (0..m)
    BY <2>1
  <2>3. Greatest({b, n}) \in {b, n} /\ \A j \in {b, n} : j <= Greatest({b, n})
    BY <2>2, GreatestIn
  <2> QED
    BY <2>3
<1>3. baseline' = IF job[w].known THEN baseline
                  ELSE [baseline EXCEPT ![r] = Greatest({b, n})]
  BY <1>1 DEF UpdateMarketRuleState
<1>4. baseline \in [Rule -> Nat]
  BY DEF TypeOK
<1>5. cursor' = [cursor EXCEPT ![job[w].rule] = job[w].upTo]
  BY DEF UpdateMarketRuleState
<1> QED
  BY <1>1, <1>2, <1>3, <1>4, <1>5

-----------------------------------------------------------------------------
(* No event is passed in silence *)

(* Between the baseline of r and n every event is missing, was retracted, or is
   confirmed and has its alert or is in T: none waits for its confirmation, but
   those that appeared too late. *)
Accounted(r, n, T) ==
  \A e \in Event \ revived : baseline[r] < e /\ e <= n =>
    \/ event[e] \in {"absent", "reorged"}
    \/ AlertOf(r, e) \in overtaken
    \/ event[e] = "confirmed" /\ (status[AlertOf(r, e)] # "none" \/ e \in T)

(* What a job still has to write. *)
Undone(w) == job[w].triggers \cup job[w].suppressed

(* All events that a cursor has passed are accounted for, and so are those that
   a job is about to pass, up to its undone ones; this also of a job whose worker
   has lost the lock, and that writes its cursor over a newer one. *)
JobAccounts(w) ==
  /\ pc[w] = "events" => Undone(w) = {}
  /\ job[w].known => Accounted(job[w].rule, job[w].upTo, Undone(w))
CursorInv ==
  /\ \A r \in Rule : Accounted(r, cursor[r], {})
  /\ \A w \in Worker : JobAccounts(w)

LEMMA CursorInit == Init => CursorInv
<1> SUFFICES ASSUME Init PROVE CursorInv
  OBVIOUS
<1>1. \A r \in Rule : Accounted(r, cursor[r], {})
  BY DEF Init, Accounted
<1>2. \A w \in Worker : JobAccounts(w)
  BY DEF Init, JobAccounts, NoJob
<1> QED
  BY <1>1, <1>2 DEF CursorInv

(* Being accounted for lasts, up to where the rule or a job of its has come: an
   event that appears there is recorded as overtaken. *)
LEMMA AccountedRemains ==
  ASSUME TypeOK, TypeOK', [Next]_vars, NEW r \in Rule, NEW n \in Nat, NEW T, NEW U,
         Accounted(r, n, T), Passed(r, n),
         \A e \in T : e \in U \/ status'[AlertOf(r, e)] # "none"
  PROVE  Accounted(r, n, U)'
<1> SUFFICES ASSUME NEW e \in Event \ revived', baseline'[r] < e, e <= n
             PROVE  \/ event'[e] \in {"absent", "reorged"}
                    \/ AlertOf(r, e) \in overtaken'
                    \/ /\ event'[e] = "confirmed"
                       /\ status'[AlertOf(r, e)] # "none" \/ e \in U
  BY DEF Accounted, AlertOf
<1>1. baseline[r] <= baseline'[r]
  BY CursorsMove, UpdateWrites DEF TypeOK
<1>2. baseline[r] \in Nat /\ baseline'[r] \in Nat /\ e \in Nat
  BY EventsFinite DEF TypeOK
<1>3. baseline[r] < e
  BY <1>1, <1>2
<1>4. e \in Event \ revived
  BY EventsMove
<1>5. \/ event[e] \in {"absent", "reorged"}
      \/ AlertOf(r, e) \in overtaken
      \/ event[e] = "confirmed" /\ (status[AlertOf(r, e)] # "none" \/ e \in T)
  BY <1>3, <1>4 DEF Accounted
<1>6. Passed(r, e)
  <2>1. cursor[r] \in Nat /\ \A w \in Worker : job[w].upTo \in Nat
    BY DEF TypeOK, Job
  <2>2. \A m \in Nat : n <= m => e <= m
    BY <1>2
  <2> QED
    BY <2>1, <2>2 DEF Passed
<1>7. \/ event'[e] = event[e]
      \/ event[e] = "unconfirmed"
      \/ AlertOf(r, e) \in overtaken'
      \/ event[e] = "confirmed" /\ event'[e] = "reorged"
  BY <1>4, <1>6, EventsMove
<1>8. status[AlertOf(r, e)] # "none" => status'[AlertOf(r, e)] # "none"
  BY AlertsRemain, RowShape
<1>9. AlertOf(r, e) \in overtaken => AlertOf(r, e) \in overtaken'
  BY EventsMove
<1> QED
  BY <1>5, <1>7, <1>8, <1>9

(* A job that goes on writing what it found stays accounted for. *)
LEMMA JobRemains ==
  ASSUME TypeOK, TypeOK', [Next]_vars, NEW w \in Worker, JobAccounts(w),
         job'[w].rule = job[w].rule, job'[w].upTo = job[w].upTo,
         job'[w].known = job[w].known,
         pc'[w] = "events" => pc[w] = "events" /\ job'[w] = job[w],
         \A e \in Undone(w) :
           e \in Undone(w)' \/ status'[AlertOf(job[w].rule, e)] # "none"
  PROVE  JobAccounts(w)'
<1>1. PICK r \in Rule, n \in Nat : r = job[w].rule /\ n = job[w].upTo
  BY DEF TypeOK, Job
<1>2. PICK U : U = Undone(w)'
  OBVIOUS
<1>3. ASSUME job'[w].known PROVE Accounted(r, n, U)'
  <2>1. Accounted(r, n, Undone(w))
    BY <1>1, <1>3 DEF JobAccounts
  <2>2. Passed(r, n)
    <3>1. job[w].rule = r /\ job[w].known /\ n <= job[w].upTo
      BY <1>1, <1>3
    <3> QED
      BY <3>1 DEF Passed
  <2> QED
    BY <1>1, <1>2, <2>1, <2>2, AccountedRemains
<1>4. pc'[w] = "events" => Undone(w)' = {}
  BY DEF JobAccounts, Undone
<1> QED
  BY <1>1, <1>2, <1>3, <1>4 DEF JobAccounts, Accounted

(* Every event on the chain that an evaluation passes was decided. *)
LEMMA ReachedAccounts ==
  ASSUME TypeOK, NEW cur \in Nat, NEW e \in Event, cur < e, e <= Reached(cur)
  PROVE  event[e] \in {"absent", "reorged"} \/ e \in Matched(cur)
<1> SUFFICES ASSUME Present(e) PROVE event[e] = "reorged" \/ e \in Matched(cur)
  BY DEF Present
<1>1. Blocked(cur) \in SUBSET (0..NumEvents)
  BY EventsFinite DEF After, Blocked
<1>2. e \in Nat /\ e \in After(cur)
  BY EventsFinite DEF After
<1>3. e \notin Blocked(cur)
  <2> SUFFICES ASSUME Blocked(cur) # {} PROVE e \notin Blocked(cur)
    OBVIOUS
  <2>1. PICK m \in Blocked(cur) : /\ m = Least(Blocked(cur))
                                  /\ \A j \in Blocked(cur) : m <= j
    BY <1>1, LeastIn, EventsFinite
  <2>2. m \in Nat
    BY <1>1, <2>1
  <2>3. Reached(cur) = m - 1
    BY <2>1 DEF Reached
  <2>4. e < m
    BY <1>2, <2>2, <2>3
  <2> QED
    BY <1>2, <2>1, <2>2, <2>4
<1>4. event[e] \in {"confirmed", "reorged"}
  BY <1>2, <1>3 DEF Blocked, Present, TypeOK, EventState
<1> QED
  BY <1>2, <1>4 DEF Matched

LEMMA EvaluateAccounts ==
  ASSUME TypeOK, CursorInv, NEW w \in Worker, NEW available \in BOOLEAN,
         EvaluateRule(w, available)
  PROVE  JobAccounts(w)'
<1> USE DEF chainVars, rowVars, ruleVars
<1>1. PICK r \in Rule, cur \in Nat : r = job[w].rule /\ cur = job[w].upTo
  BY DEF TypeOK, Job
<1>2. /\ job'[w].rule = r /\ job'[w].upTo = Reached(cur)
      /\ job'[w].triggers = Triggers(r, cur, available)
      /\ job'[w].suppressed = Matched(cur) \ Triggers(r, cur, available)
      /\ job'[w].known = job[w].known /\ pc'[w] = "persist"
  <2>1. PICK j \in Job : j = job[w]
    BY DEF TypeOK
  <2>2. /\ job' = [job EXCEPT ![w].upTo = Reached(cur),
                              ![w].triggers = Triggers(r, cur, available),
                              ![w].suppressed = Matched(cur) \ Triggers(r, cur, available)]
        /\ pc' = [pc EXCEPT ![w] = "persist"]
    BY <1>1 DEF EvaluateRule, Goto
  <2>3. job \in [Worker -> Job] /\ pc \in [Worker -> Step]
    BY DEF TypeOK
  <2>4. job'[w] = [j EXCEPT !.upTo = Reached(cur),
                            !.triggers = Triggers(r, cur, available),
                            !.suppressed = Matched(cur) \ Triggers(r, cur, available)]
    BY <2>1, <2>2, <2>3
  <2> QED
    BY <1>1, <2>1, <2>2, <2>3, <2>4 DEF Job
<1>3. PICK U : U = Undone(w)' /\ Matched(cur) \subseteq U
  BY <1>2 DEF Undone
<1>4. Accounted(r, cur, {})
  <2>1. pc[w] = "events" /\ job[w].known
    BY DEF EvaluateRule
  <2> QED
    BY <1>1, <2>1 DEF CursorInv, JobAccounts
<1>5. UNCHANGED <<event, revived, overtaken, status, baseline>>
  BY DEF EvaluateRule
<1>6. ASSUME NEW n, n = Reached(cur) PROVE Accounted(r, n, U)'
  <2> SUFFICES ASSUME NEW e \in Event \ revived, baseline[r] < e, e <= Reached(cur)
               PROVE  \/ event[e] \in {"absent", "reorged"}
                      \/ AlertOf(r, e) \in overtaken
                      \/ /\ event[e] = "confirmed"
                         /\ status[AlertOf(r, e)] # "none" \/ e \in U
    BY <1>5, <1>6 DEF Accounted, AlertOf
  <2>1. CASE e <= cur
    BY <1>4, <2>1 DEF Accounted
  <2>2. CASE cur < e
    <3>1. event[e] \in {"absent", "reorged"} \/ e \in Matched(cur)
      BY <2>2, ReachedAccounts
    <3> QED
      BY <1>3, <3>1 DEF Matched
  <2> QED
    BY <2>1, <2>2, EventsFinite
<1> QED
  BY <1>2, <1>3, <1>6 DEF JobAccounts, Accounted

(* Writing an alert, or finding it there, takes one event off the job. *)
LEMMA WriteAccounts ==
  ASSUME TypeOK, TypeOK', CursorInv, [Next]_vars, NEW w \in Worker,
         \/ KeepExistingAlert(w) \/ CreateMarketRuleEvent(w) \/ SuppressTrigger(w)
         \/ RecordMarketStageTrigger(w) /\ job[w].triggers # {}
  PROVE  JobAccounts(w)'
<1> DEFINE t == Least(job[w].triggers)
           s == Least(job[w].suppressed)
<1>1. /\ job'[w].rule = job[w].rule /\ job'[w].upTo = job[w].upTo
      /\ job'[w].known = job[w].known /\ pc'[w] # "events"
      /\ \/ job'[w].triggers = job[w].triggers /\ job'[w].suppressed = job[w].suppressed
         \/ /\ job'[w].triggers = job[w].triggers \ {t}
            /\ job'[w].suppressed = job[w].suppressed
            /\ job[w].triggers # {} /\ status'[TriggerOf(w)] # "none"
         \/ /\ job'[w].triggers = job[w].triggers
            /\ job'[w].suppressed = job[w].suppressed \ {s}
            /\ job[w].suppressed # {} /\ status'[SuppressedOf(w)] # "none"
  <2>1. /\ job[w].triggers # {} => TriggerOf(w) \in Row
        /\ job[w].suppressed # {} => SuppressedOf(w) \in Row
    BY JobType, RowShape
  <2>2. CASE KeepExistingAlert(w)
    BY <2>2 DEF KeepExistingAlert, MoreTriggers, MoreSuppressed, NextTrigger,
                NextSuppressed, rowVars, TypeOK, Job
  <2>3. CASE CreateMarketRuleEvent(w)
    BY <2>1, <2>3 DEF CreateMarketRuleEvent, MoreTriggers, NextTrigger, Goto,
                      TypeOK, Job
  <2>4. CASE SuppressTrigger(w)
    BY <2>1, <2>4 DEF SuppressTrigger, MoreSuppressed, NextSuppressed, TypeOK, Job
  <2>5. CASE RecordMarketStageTrigger(w) /\ job[w].triggers # {}
    <3>1. status[TriggerOf(w)] = "staged"
      BY <2>5 DEF RecordMarketStageTrigger, CanStage, StagedAlert
    <3>2. status'[TriggerOf(w)] # "none"
      BY <2>5, <3>1, JobType, AlertsRemain
    <3>3. job' = NextTrigger(w) /\ Goto(w, "persist")
      BY <2>5 DEF RecordMarketStageTrigger
    <3> QED
      BY <2>5, <3>2, <3>3 DEF NextTrigger, Goto, TypeOK, Job
  <2> QED
    BY <2>2, <2>3, <2>4, <2>5
<1>2. \A e \in Undone(w) : e \in Undone(w)' \/ status'[AlertOf(job[w].rule, e)] # "none"
  BY <1>1 DEF Undone, TriggerOf, SuppressedOf
<1>3. JobAccounts(w)
  BY DEF CursorInv
<1> QED
  BY <1>1, <1>2, <1>3, JobRemains

LEMMA JobsStep ==
  ASSUME TypeOK, StageHasTrigger, TypeOK', CursorInv, [Next]_vars
  PROVE  \A w \in Worker : JobAccounts(w)'
<1> USE DEF vars, chainVars, rowVars, windowVars, planVars, ruleVars, cycleVars,
            chatVars
<1>1. ASSUME NEW w \in Worker, job'[w] = job[w], pc'[w] = "events" => pc[w] = "events"
      PROVE  JobAccounts(w)'
  BY <1>1, JobRemains DEF CursorInv, Undone
<1>2. CASE UNCHANGED <<pc, job>>
  BY <1>1, <1>2
<1>3. CASE Chain \/ Clock \/ Entitlements
  BY <1>2, <1>3 DEF Chain, InsertEvent, ReviveEvent, MarkMarketBlockConfirmed,
     MarkMarketBlockReorged, Clock, BackoffElapses, LeaseExpires, WindowEnds,
     Entitlements, PlanExpires, PauseExpiredUserResources, Renew, RestoreMarketRule
<1>4. ASSUME NEW v \in Worker, RunCycle(v) \/ Failures(v), NEW w \in Worker
      PROVE  JobAccounts(w)'
  <2>1. CASE UNCHANGED job /\ \E s \in Step \ {"events"} : Goto(v, s)
    BY <1>1, <2>1 DEF Goto, TypeOK
  <2>2. ASSUME job'[v] = NoJob, pc'[v] # "events",
               w # v => job'[w] = job[w] /\ pc'[w] = pc[w]
        PROVE  JobAccounts(w)'
    BY <1>1, <2>2 DEF JobAccounts, NoJob
  <2>3. CASE EndCycle(v)
    BY <2>2, <2>3 DEF EndCycle, Goto, TypeOK
  <2>4. CASE \/ AcquireLock(v) \/ ReconcileMarketNotificationSources(v)
             \/ RecoverStaleMarketDeliveries(v) \/ ListEnabledMarketRules(v)
             \/ ClaimMarketDeliveries(v) \/ \E x \in Row : LoadMarketDelivery(v, x)
             \/ SendAccepted(v) \/ SendRefused(v) \/ SendUnanswered(v)
             \/ CompleteMarketDelivery(v) \/ CompleteNothing(v)
             \/ MarkMembersSent(v) \/ CompletionLost(v)
    BY <2>1, <2>4 DEF AcquireLock, ReconcileMarketNotificationSources,
         RecoverStaleMarketDeliveries, ListEnabledMarketRules,
         ClaimMarketDeliveries, LoadMarketDelivery, SendAccepted, SendRefused,
         SendUnanswered, CompleteMarketDelivery, CompleteNothing, MarkMembersSent,
         CompletionLost, DeliveryOver, Step
  <2>5. CASE \/ RefuseTrigger(v) \/ RefuseStageTrigger(v) \/ FinishCycle(v)
             \/ Crash(v)
    BY <2>3, <2>5 DEF RefuseTrigger, RefuseStageTrigger, FinishCycle, Crash
  <2>6. CASE (\E r \in Rule : SkipPausedRule(v, r)) \/ LoseLock(v)
    BY <1>2, <2>6 DEF SkipPausedRule, LoseLock
  <2>7. ASSUME NEW r \in Rule, LoadMarketRuleTargetState(v, r) PROVE JobAccounts(w)'
    <3>1. CASE w = v
      <4>1. /\ job'[w].rule = r /\ job'[w].upTo = cursor[r]
            /\ job'[w].triggers = {} /\ job'[w].suppressed = {}
        BY <2>7, <3>1 DEF LoadMarketRuleTargetState, NoJob, TypeOK
      <4>2. Accounted(r, cursor[r], {}) /\ cursor[r] \in Nat
        BY DEF CursorInv, TypeOK
      <4>3. \A n \in Nat : n = cursor[r] => Accounted(r, n, {})'
        BY <4>2, AccountedRemains DEF Passed
      <4>4. Undone(w)' = {}
        BY <4>1 DEF Undone
      <4> QED
        BY <4>1, <4>2, <4>3, <4>4 DEF JobAccounts, Accounted
    <3>2. CASE w # v
      BY <1>1, <2>7, <3>2 DEF LoadMarketRuleTargetState, Goto, TypeOK
    <3> QED
      BY <3>1, <3>2
  <2>8. CASE EstablishBaseline(v)
    <3>1. CASE w = v
      <4>1. ~job'[w].known /\ pc'[w] = "persist"
        BY <2>8, <3>1 DEF EstablishBaseline, Goto, TypeOK, Job
      <4> QED
        BY <4>1 DEF JobAccounts
    <3>2. CASE w # v
      BY <1>1, <2>8, <3>2 DEF EstablishBaseline, Goto, TypeOK
    <3> QED
      BY <3>1, <3>2
  <2>9. ASSUME NEW available \in BOOLEAN, EvaluateRule(v, available)
        PROVE  JobAccounts(w)'
    <3>1. CASE w # v
      BY <1>1, <2>9, <3>1 DEF EvaluateRule, Goto, TypeOK
    <3> QED
      BY <2>9, <3>1, EvaluateAccounts
  <2>10. CASE \/ KeepExistingAlert(v) \/ CreateMarketRuleEvent(v) \/ SuppressTrigger(v)
              \/ RecordMarketStageTrigger(v)
    <3>1. CASE w # v
      BY <1>1, <2>10, <3>1 DEF KeepExistingAlert, CreateMarketRuleEvent,
         SuppressTrigger, RecordMarketStageTrigger, NextTrigger, NextSuppressed, Goto,
         TypeOK
    <3>2. RecordMarketStageTrigger(v) => job[v].triggers # {}
      BY DEF RecordMarketStageTrigger, StageHasTrigger
    <3> QED
      BY <2>10, <3>1, <3>2, WriteAccounts
  <2>11. CASE UpdateMarketRuleState(v)
    BY <2>2, <2>11 DEF UpdateMarketRuleState, Goto, TypeOK
  <2> QED
    BY <1>4, <2>4, <2>5, <2>6, <2>7, <2>8, <2>9, <2>10, <2>11 DEF RunCycle, Failures
<1> QED
  BY <1>2, <1>3, <1>4 DEF Next

(* The cursor is written with a job that has nothing left to do. *)
LEMMA CursorsStep ==
  ASSUME TypeOK, TypeOK', CursorInv, [Next]_vars, NEW r \in Rule
  PROVE  Accounted(r, cursor[r], {})'
<1>1. Accounted(r, cursor[r], {}) /\ cursor[r] \in Nat
  BY DEF CursorInv, TypeOK
<1>2. CASE cursor'[r] = cursor[r]
  <2>1. \A n \in Nat : n = cursor[r] => Accounted(r, n, {})'
    BY <1>1, AccountedRemains DEF Passed
  <2> QED
    BY <1>1, <1>2, <2>1 DEF Accounted
<1>3. ASSUME NEW w \in Worker, UpdateMarketRuleState(w), job[w].rule = r
      PROVE  Accounted(r, cursor[r], {})'
  <2>1. PICK n \in Nat : n = job[w].upTo
    BY DEF TypeOK, Job
  <2>2. cursor'[r] = n
    BY <1>3, <2>1, UpdateWrites DEF TypeOK
  <2>3. CASE job[w].known
    <3>1. Undone(w) = {}
      BY <1>3 DEF UpdateMarketRuleState, Evaluated, Undone
    <3>2. Accounted(r, n, {})
      BY <1>3, <2>1, <2>3, <3>1 DEF CursorInv, JobAccounts
    <3>3. Passed(r, n)
      BY <1>3, <2>1, <2>3 DEF Passed
    <3>4. Accounted(r, n, {})'
      BY <3>2, <3>3, AccountedRemains
    <3> QED
      BY <2>2, <3>4 DEF Accounted
  <2>4. CASE ~job[w].known
    <3>1. n <= baseline'[r] /\ baseline'[r] \in Nat
      BY <1>3, <2>1, <2>4, UpdateWrites DEF TypeOK
    <3> QED
      BY <2>2, <3>1, EventsFinite DEF Accounted
  <2> QED
    BY <2>3, <2>4
<1>4. ASSUME NEW w \in Worker, UpdateMarketRuleState(w), job[w].rule # r
      PROVE  cursor'[r] = cursor[r]
  BY <1>4, UpdateWrites DEF TypeOK
<1> QED
  BY <1>2, <1>3, <1>4, CursorsMove

(* Every event a cursor has passed has its alert, whatever fails, is retracted or
   paused, and whoever writes the cursor; only an event that appeared when its
   rule was already beyond it may go without. *)
THEOREM PassedEventsCorrect == Spec => []PassedEventsAreAnnounced
<1>1. TypeOK /\ StageHasTrigger /\ TypeOK' /\ CursorInv /\ [Next]_vars => CursorInv'
  BY JobsStep, CursorsStep DEF CursorInv
<1>2. CursorInv => PassedEventsAreAnnounced
  BY DEF CursorInv, Accounted, PassedEventsAreAnnounced
<1> QED
  BY <1>1, <1>2, CursorInit, TypeCorrect, PTL DEF Spec

-----------------------------------------------------------------------------
(* Which window counts an alert *)

LastWindow(r) == <<"window", r, NumWindows>>

(* The bound on windows never closes the last one, so that a staged alert always
   has a window to join. *)
WindowsLast ==
  /\ \A r \in StagedRule : ~over[LastWindow(r)] /\ ~closed[LastWindow(r)]
  /\ \A w \in Worker : pc[w] = "stage" => job[w].rule \in StagedRule

(* The window a trigger joins, and what the step does to it. *)
LEMMA WindowJoined ==
  ASSUME TypeOK, StageHasTrigger, WindowsLast, NEW w \in Worker,
         RecordMarketStageTrigger(w)
  PROVE  \E win \in Window :
           /\ RuleOf(win) = RuleOf(StagedAlert(w))
           /\ members' = [members EXCEPT ![win] = @ \cup {EventOf(StagedAlert(w))}]
           /\ count' = [count EXCEPT ![win] = @ + 1]
           /\ \A x \in Window \ {win} : status'[x] \in {status[x], "skipped"}
           /\ status'[win] = "pending" =>
                \/ status[win] = "pending"
                \/ count[win] + 1 >= Threshold[RuleOf(win)]
           /\ \A x \in Window : closed'[x] => closed[x] \/ over[x]
<1> DEFINE a == StagedAlert(w)
           r == RuleOf(a)
           open == OpenWindows(r)
           ended == {x \in open : over[x]}
           win == IF open \ ended # {} THEN CHOOSE x \in open \ ended : TRUE
                  ELSE NextWindow(r)
           was == IF status[win] = "none" THEN "collecting" ELSE status[win]
           reached == was = "collecting" /\ count[win] + 1 >= Threshold[r]
<1>1. pc[w] = "stage" /\ job[w].triggers # {}
  BY DEF RecordMarketStageTrigger, StageHasTrigger
<1>2. r \in StagedRule /\ a \in Alert /\ a \notin Window
  BY <1>1, JobType, RowShape DEF StagedAlert, WindowsLast
<1>3. win \in Window /\ RuleOf(win) = r
  <2>1. CASE open \ ended # {}
    BY <2>1 DEF OpenWindows
  <2>2. CASE open \ ended = {}
    <3> DEFINE I == {i \in 1..NumWindows : status[<<"window", r, i>>] = "none"}
    <3>1. LastWindow(r) \in Window /\ RuleOf(LastWindow(r)) = r
      BY <1>2, DeliveryAssumption DEF LastWindow, Window, RuleOf
    <3>2. LastWindow(r) \notin open
      BY <1>2, <2>2 DEF WindowsLast
    <3>3. NumWindows \in I
      BY <1>2, <3>1, <3>2, DeliveryAssumption DEF OpenWindows, WindowsLast, LastWindow
    <3>4. I \in SUBSET (0..NumWindows) /\ I # {}
      BY <3>3, DeliveryAssumption
    <3>5. Least(I) \in I
      BY <3>4, LeastIn, DeliveryAssumption
    <3>6. NextWindow(r) = <<"window", r, Least(I)>>
      BY DEF NextWindow
    <3> QED
      BY <1>2, <2>2, <3>5, <3>6 DEF Window, RuleOf
  <2> QED
    BY <2>1, <2>2
<1>4. /\ members' = [members EXCEPT ![win] = @ \cup {EventOf(a)}]
      /\ count' = [count EXCEPT ![win] = @ + 1]
      /\ closed' = [x \in Window |-> closed[x] \/ x \in ended]
  BY DEF RecordMarketStageTrigger, CloseWindows
<1>5. \A x \in Window \ {win} : status'[x] \in {status[x], "skipped"}
  BY <1>2, RowShape DEF RecordMarketStageTrigger
<1>6. status'[win] = IF reached THEN "pending" ELSE was
  BY <1>3, RowShape DEF RecordMarketStageTrigger
<1> HIDE DEF win, ended, a, r
<1> QED
  BY <1>3, <1>4, <1>5, <1>6 DEF ended, a, r

LEMMA WindowsLastStep ==
  ASSUME TypeOK, TypeOK', StageHasTrigger, WindowsLast, [Next]_vars
  PROVE  WindowsLast'
<1> USE DEF vars, chainVars, rowVars, windowVars, planVars, ruleVars, cycleVars,
            chatVars
<1>1. \A r \in StagedRule : LastWindow(r) \in Window /\ RuleOf(LastWindow(r)) = r
                            /\ LastWindow(r) \in Row
  BY DeliveryAssumption DEF LastWindow, Window, RuleOf, Row
<1>2. ASSUME UNCHANGED <<over, closed>>, NEW v \in Worker,
             \A w \in Worker \ {v} : pc'[w] = pc[w] /\ job'[w] = job[w],
             pc'[v] = "stage" => job'[v].rule \in StagedRule
      PROVE  WindowsLast'
  BY <1>2 DEF WindowsLast, LastWindow
<1>3. CASE UNCHANGED <<over, closed, pc, job>>
  BY <1>3 DEF WindowsLast, LastWindow
<1>4. CASE Chain
  BY <1>3, <1>4 DEF Chain, InsertEvent, ReviveEvent, MarkMarketBlockConfirmed,
                    MarkMarketBlockReorged
<1>5. CASE Clock
  <2>1. ASSUME NEW x \in Window, WindowEnds(x) PROVE WindowsLast'
    <3>1. \A r \in StagedRule : x # LastWindow(r)
      BY <1>1, <2>1 DEF WindowEnds, SpareWindow, LastWindow
    <3> QED
      BY <1>1, <2>1, <3>1 DEF WindowEnds, WindowsLast, LastWindow, TypeOK
  <2> QED
    BY <1>3, <1>5, <2>1 DEF Clock, BackoffElapses, LeaseExpires
<1>6. CASE Entitlements
  <2>1. CASE PauseExpiredUserResources \/ Renew
    <3>1. \A r \in StagedRule : status[LastWindow(r)] = "none"
      BY <2>1 DEF PauseExpiredUserResources, Renew, PauseResources, SpareWindow,
                  LastWindow
    <3>2. /\ closed' = [x \in Window |->
               closed[x] \/ x \in {y \in Window : status[y] \notin {"none", "sent", "skipped"}}]
          /\ UNCHANGED <<over, pc, job>>
      BY <2>1 DEF PauseExpiredUserResources, Renew, PauseResources, CloseWindows
    <3> QED
      BY <1>1, <3>1, <3>2 DEF WindowsLast, LastWindow
  <2> QED
    BY <1>3, <1>6, <2>1 DEF Entitlements, PlanExpires, RestoreMarketRule
<1>7. ASSUME NEW v \in Worker, RunCycle(v) \/ Failures(v)
      PROVE  WindowsLast'
  <2>1. CASE UNCHANGED <<over, closed, job>> /\ \E s \in Step \ {"stage"} : Goto(v, s)
    BY <1>2, <2>1 DEF Goto, TypeOK
  <2>2. CASE EndCycle(v) /\ UNCHANGED <<over, closed>>
    BY <1>2, <2>2 DEF EndCycle, Goto, TypeOK
  <2>3. CASE \/ AcquireLock(v) \/ ReconcileMarketNotificationSources(v)
             \/ RecoverStaleMarketDeliveries(v) \/ ListEnabledMarketRules(v)
             \/ ClaimMarketDeliveries(v) \/ \E x \in Row : LoadMarketDelivery(v, x)
             \/ SendAccepted(v) \/ SendRefused(v) \/ SendUnanswered(v)
             \/ CompleteMarketDelivery(v) \/ CompleteNothing(v)
             \/ MarkMembersSent(v) \/ CompletionLost(v)
    BY <2>1, <2>3 DEF AcquireLock, ReconcileMarketNotificationSources,
         RecoverStaleMarketDeliveries, ListEnabledMarketRules,
         ClaimMarketDeliveries, LoadMarketDelivery, SendAccepted, SendRefused,
         SendUnanswered, CompleteMarketDelivery, CompleteNothing, MarkMembersSent,
         CompletionLost, DeliveryOver, Step
  <2>4. CASE \/ RefuseTrigger(v) \/ RefuseStageTrigger(v) \/ FinishCycle(v)
             \/ Crash(v)
    BY <2>2, <2>4 DEF RefuseTrigger, RefuseStageTrigger, FinishCycle, Crash
  <2>5. CASE (\E r \in Rule : SkipPausedRule(v, r)) \/ LoseLock(v)
    BY <1>3, <2>5 DEF SkipPausedRule, LoseLock
  <2>6. CASE \/ \E r \in Rule : LoadMarketRuleTargetState(v, r)
             \/ EstablishBaseline(v)
             \/ \E available \in BOOLEAN : EvaluateRule(v, available)
             \/ UpdateMarketRuleState(v) \/ KeepExistingAlert(v) \/ SuppressTrigger(v)
    <3>1. /\ \A w \in Worker \ {v} : pc'[w] = pc[w] /\ job'[w] = job[w]
          /\ pc'[v] # "stage" /\ UNCHANGED <<over, closed>>
      <4>1. CASE KeepExistingAlert(v) \/ SuppressTrigger(v)
        BY <4>1 DEF KeepExistingAlert, SuppressTrigger, MoreTriggers,
           MoreSuppressed, NextTrigger, NextSuppressed, TypeOK
      <4>2. CASE EstablishBaseline(v) \/ UpdateMarketRuleState(v)
        BY <4>2 DEF EstablishBaseline, UpdateMarketRuleState, Goto, TypeOK
      <4>3. ASSUME NEW r \in Rule, LoadMarketRuleTargetState(v, r)
            PROVE  <3>1!1 /\ <3>1!2
        BY <4>3 DEF LoadMarketRuleTargetState, Goto, TypeOK
      <4>4. ASSUME NEW available \in BOOLEAN, EvaluateRule(v, available)
            PROVE  <3>1!1 /\ <3>1!2
        BY <4>4 DEF EvaluateRule, Goto, TypeOK
      <4> QED
        BY <2>6, <4>1, <4>2, <4>3, <4>4
    <3> QED
      BY <1>2, <3>1
  <2>7. CASE CreateMarketRuleEvent(v)
    <3>1. /\ \A w \in Worker \ {v} : pc'[w] = pc[w] /\ job'[w] = job[w]
          /\ job'[v].rule = job[v].rule /\ UNCHANGED <<over, closed>>
      BY <2>7 DEF CreateMarketRuleEvent, NextTrigger, Goto, TypeOK, Job
    <3>2. pc'[v] = "stage" => RuleOf(TriggerOf(v)) \in StagedRule
      BY <2>7 DEF CreateMarketRuleEvent, Goto, TypeOK
    <3>3. RuleOf(TriggerOf(v)) = job[v].rule
      BY <2>7, JobType DEF CreateMarketRuleEvent, MoreTriggers
    <3> QED
      BY <1>2, <3>1, <3>2, <3>3
  <2>8. CASE RecordMarketStageTrigger(v)
    <3>1. /\ over' = over /\ \A x \in Window : closed'[x] => closed[x] \/ over[x]
      BY <2>8, WindowJoined DEF RecordMarketStageTrigger
    <3>2. /\ \A w \in Worker \ {v} : pc'[w] = pc[w] /\ job'[w] = job[w]
          /\ pc'[v] # "stage"
      BY <2>8 DEF RecordMarketStageTrigger, NextTrigger, Goto, TypeOK
    <3> QED
      BY <1>1, <3>1, <3>2 DEF WindowsLast, LastWindow
  <2> QED
    BY <1>7, <2>3, <2>4, <2>5, <2>6, <2>7, <2>8 DEF RunCycle, Failures
<1> QED
  BY <1>3, <1>4, <1>5, <1>6, <1>7 DEF Next

LEMMA WindowsLastCorrect == Spec => []WindowsLast
<1>1. Init => WindowsLast
  BY DeliveryAssumption DEF Init, WindowsLast, LastWindow, Window
<1> QED
  BY <1>1, WindowsLastStep, TypeCorrect, PTL DEF Spec

(* Which rows a step leaves pending in the table of windows. *)
LEMMA PendingStep ==
  ASSUME TypeOK, StageHasTrigger, WindowsLast, PendingDigestReachedThreshold,
         [Next]_vars
  PROVE  PendingDigestReachedThreshold'
<1> USE DEF vars, chainVars, rowVars, windowVars, planVars, ruleVars, cycleVars,
            chatVars
<1> SUFFICES ASSUME NEW x \in Window, status'[x] = "pending"
             PROVE  count'[x] >= Threshold[RuleOf(x)]
  BY DEF PendingDigestReachedThreshold, RuleOf
<1>0. x \in Row /\ x \notin Alert /\ RuleOf(x) \in StagedRule
  BY RowShape
<1>1. CASE status[x] = "pending" /\ count' = count
  BY <1>1 DEF PendingDigestReachedThreshold
<1>2. CASE UNCHANGED <<status, count>>
  BY <1>1, <1>2
<1>3. CASE Chain
  BY <1>0, <1>1, <1>3 DEF Chain, InsertEvent, ReviveEvent, MarkMarketBlockConfirmed,
              MarkMarketBlockReorged
<1>4. CASE Clock
  BY <1>2, <1>4 DEF Clock, BackoffElapses, LeaseExpires, WindowEnds
<1>5. CASE Entitlements
  BY <1>0, <1>1, <1>5 DEF Entitlements, PlanExpires, PauseExpiredUserResources,
              PauseResources, PausedStatus, Renew, RestoreMarketRule
<1>6. ASSUME NEW w \in Worker, RunCycle(w) \/ Failures(w)
      PROVE  count'[x] >= Threshold[RuleOf(x)]
  <2>1. CASE ReconcileMarketNotificationSources(w)
    <3>1. CASE RecountedWindow(x)
      BY <1>0, <2>1, <3>1
         DEF ReconcileMarketNotificationSources, RecountedStatus
    <3>2. CASE ~RecountedWindow(x)
      BY <1>0, <2>1, <3>2
         DEF ReconcileMarketNotificationSources, PendingDigestReachedThreshold
    <3> QED
      BY <3>1, <3>2
  <2>2. CASE RecoverStaleMarketDeliveries(w)
    BY <1>0, <1>1, <2>2 DEF RecoverStaleMarketDeliveries
  <2>3. CASE CreateMarketRuleEvent(w)
    <3>1. TriggerOf(w) # x
      BY <1>0, <2>3, JobType DEF CreateMarketRuleEvent, MoreTriggers
    <3> QED
      BY <1>0, <1>1, <2>3, <3>1 DEF CreateMarketRuleEvent, TypeOK
  <2>4. CASE SuppressTrigger(w)
    BY <1>0, <1>1, <2>4 DEF SuppressTrigger, TypeOK
  <2>5. CASE RecordMarketStageTrigger(w)
    <3>1. PICK win \in Window :
            /\ count' = [count EXCEPT ![win] = @ + 1]
            /\ \A y \in Window \ {win} : status'[y] \in {status[y], "skipped"}
            /\ status'[win] = "pending" =>
                 \/ status[win] = "pending"
                 \/ count[win] + 1 >= Threshold[RuleOf(win)]
      BY <2>5, WindowJoined
    <3>2. count \in [Window -> Nat] /\ Threshold[RuleOf(x)] \in Nat
      BY <1>0, DeliveryAssumption DEF TypeOK
    <3>3. CASE x = win
      BY <3>1, <3>2, <3>3 DEF PendingDigestReachedThreshold
    <3>4. CASE x # win
      BY <3>1, <3>2, <3>4 DEF PendingDigestReachedThreshold
    <3> QED
      BY <3>3, <3>4
  <2>6. CASE ClaimMarketDeliveries(w)
    BY <1>0, <1>1, <2>6 DEF ClaimMarketDeliveries
  <2>7. CASE CompleteMarketDelivery(w)
    BY <1>0, <1>1, <2>7 DEF CompleteMarketDelivery, CompletedStatus, TypeOK
  <2>8. CASE MarkMembersSent(w)
    BY <1>0, <1>1, <2>8 DEF MarkMembersSent
  <2>9. CASE UNCHANGED <<status, count>>
    BY <1>2, <2>9
  <2> QED
    BY <1>6, <2>1, <2>2, <2>3, <2>4, <2>5, <2>6, <2>7, <2>8, <2>9
       DEF RunCycle, Failures, AcquireLock, ListEnabledMarketRules, SkipPausedRule,
           LoadMarketRuleTargetState, EstablishBaseline, EvaluateRule,
           KeepExistingAlert, RefuseTrigger, RefuseStageTrigger,
           UpdateMarketRuleState, LoadMarketDelivery, SendAccepted, SendRefused,
           CompleteNothing, FinishCycle, SendUnanswered, CompletionLost, Crash,
           LoseLock
<1> QED
  BY <1>2, <1>3, <1>4, <1>5, <1>6 DEF Next

(* A digest that waits to be sent has reached its threshold, recounts included. *)
THEOREM PendingDigestCorrect == Spec => []PendingDigestReachedThreshold
<1>1. Init => PendingDigestReachedThreshold
  BY RowShape DEF Init, PendingDigestReachedThreshold
<1> QED
  BY <1>1, PendingStep, WindowsLastCorrect, TypeCorrect, PTL DEF Spec

-----------------------------------------------------------------------------
(* A staged alert is counted *)

(* Until a reorganization or an expiry nothing makes RecordMarketStageTrigger
   refuse the alert that was staged for it. *)
Undisturbed ==
  /\ reorgs = 0 => \A e \in Event : event[e] # "reorged"
  /\ expiries = 0 => plan = "paid" /\ \A r \in Rule : active[r]

LEMMA CountersGrow ==
  ASSUME TypeOK, [Next]_vars
  PROVE  /\ faults' = 0 => faults = 0
         /\ reorgs' = 0 => reorgs = 0
         /\ expiries' = 0 => expiries = 0
<1> USE DEF vars, chainVars, rowVars, windowVars, planVars, ruleVars, cycleVars,
            chatVars
<1>0. \A n \in Nat : n + 1 # 0
  OBVIOUS
<1>1. CASE UNCHANGED vars
  BY <1>1
<1>2. CASE Chain
  BY <1>0, <1>2 DEF TypeOK, Chain, InsertEvent, ReviveEvent,
     MarkMarketBlockConfirmed, MarkMarketBlockReorged
<1>3. CASE Clock \/ Entitlements
  BY <1>0, <1>3 DEF TypeOK, Clock, BackoffElapses, LeaseExpires, WindowEnds,
     Entitlements, PlanExpires, PauseExpiredUserResources, Renew, RestoreMarketRule
<1>4. ASSUME NEW w \in Worker, RunCycle(w)
      PROVE  UNCHANGED <<reorgs, expiries, faults>>
  <2>1. CASE \/ AcquireLock(w) \/ ReconcileMarketNotificationSources(w)
             \/ RecoverStaleMarketDeliveries(w) \/ ListEnabledMarketRules(w)
             \/ \E r \in Rule : SkipPausedRule(w, r) \/ LoadMarketRuleTargetState(w, r)
             \/ EstablishBaseline(w)
             \/ \E available \in BOOLEAN : EvaluateRule(w, available)
    BY <2>1 DEF AcquireLock, ReconcileMarketNotificationSources,
         RecoverStaleMarketDeliveries, ListEnabledMarketRules, SkipPausedRule,
         LoadMarketRuleTargetState, EstablishBaseline, EvaluateRule
  <2>2. CASE \/ KeepExistingAlert(w) \/ RefuseTrigger(w) \/ CreateMarketRuleEvent(w)
             \/ SuppressTrigger(w) \/ RecordMarketStageTrigger(w)
             \/ RefuseStageTrigger(w) \/ UpdateMarketRuleState(w)
    BY <2>2 DEF KeepExistingAlert, RefuseTrigger, CreateMarketRuleEvent,
         SuppressTrigger, RecordMarketStageTrigger, RefuseStageTrigger,
         UpdateMarketRuleState
  <2>3. CASE \/ ClaimMarketDeliveries(w) \/ \E x \in Row : LoadMarketDelivery(w, x)
             \/ SendAccepted(w) \/ SendRefused(w) \/ CompleteMarketDelivery(w)
             \/ CompleteNothing(w) \/ MarkMembersSent(w) \/ FinishCycle(w)
    BY <2>3 DEF ClaimMarketDeliveries, LoadMarketDelivery, SendAccepted, SendRefused,
         CompleteMarketDelivery, CompleteNothing, MarkMembersSent, FinishCycle
  <2> QED
    BY <1>4, <2>1, <2>2, <2>3 DEF RunCycle
<1>5. ASSUME NEW w \in Worker, Failures(w)
      PROVE  faults' = faults + 1
  BY <1>5 DEF Failures, Fault, SendUnanswered, CompletionLost, Crash, LoseLock
<1>6. ASSUME NEW w \in Worker, Failures(w)
      PROVE  UNCHANGED <<reorgs, expiries>>
  BY <1>6 DEF Failures, Fault, SendUnanswered, CompletionLost, Crash, LoseLock
<1> QED
  BY <1>0, <1>1, <1>2, <1>3, <1>4, <1>5, <1>6 DEF Next, TypeOK

LEMMA UndisturbedStep ==
  ASSUME TypeOK, Undisturbed, [Next]_vars
  PROVE  Undisturbed'
<1> USE DEF vars, chainVars, rowVars, windowVars, planVars, ruleVars, cycleVars,
            chatVars, Undisturbed
<1>0. \A n \in Nat : n + 1 # 0
  OBVIOUS
<1>1. (reorgs' = 0 => reorgs = 0) /\ (expiries' = 0 => expiries = 0)
  BY CountersGrow
<1>2. reorgs' = 0 => \A e \in Event : event'[e] # "reorged"
  BY <1>0, <1>1, EventsChange DEF TypeOK, Chain, InsertEvent, ReviveEvent,
     MarkMarketBlockConfirmed, MarkMarketBlockReorged
<1>3. expiries' = 0 => plan' = "paid" /\ \A r \in Rule : active'[r]
  <2>1. CASE Entitlements
    BY <1>0, <1>1, <2>1 DEF TypeOK, Entitlements, PlanExpires,
       PauseExpiredUserResources, Renew, RestoreMarketRule
  <2>2. CASE UNCHANGED <<plan, active>>
    BY <1>1, <2>2
  <2>3. CASE Chain \/ Clock \/ UNCHANGED vars
    BY <2>2, <2>3, EventsChange DEF Chain, InsertEvent, ReviveEvent,
       MarkMarketBlockConfirmed, MarkMarketBlockReorged, Clock, BackoffElapses,
       LeaseExpires, WindowEnds
  <2>4. ASSUME NEW w \in Worker, RunCycle(w) \/ Failures(w)
        PROVE  UNCHANGED <<plan, active>>
    BY <2>4 DEF RunCycle, Failures, AcquireLock, ReconcileMarketNotificationSources,
       RecoverStaleMarketDeliveries, ListEnabledMarketRules, SkipPausedRule,
       LoadMarketRuleTargetState, EstablishBaseline, EvaluateRule,
       KeepExistingAlert, RefuseTrigger, CreateMarketRuleEvent, SuppressTrigger,
       RecordMarketStageTrigger, RefuseStageTrigger, UpdateMarketRuleState,
       ClaimMarketDeliveries, LoadMarketDelivery, SendAccepted, SendRefused,
       SendUnanswered, CompleteMarketDelivery, CompleteNothing, MarkMembersSent,
       CompletionLost, FinishCycle, Crash, LoseLock
  <2> QED
    BY <2>1, <2>2, <2>3, <2>4 DEF Next
<1> QED
  BY <1>2, <1>3

(* Nothing joins a window but a staged alert, at the step that records it. *)
LEMMA MembersChange ==
  ASSUME TypeOK, StageHasTrigger, WindowsLast, [Next]_vars
  PROVE  \/ members' = members
         \/ \E v \in Worker : /\ pc[v] = "stage"
                              /\ status[StagedAlert(v)] = "staged"
                              /\ StagedAlert(v) \in Alert
                              /\ \E win \in Window :
                                   /\ RuleOf(win) = RuleOf(StagedAlert(v))
                                   /\ members' = [members EXCEPT ![win] =
                                         @ \cup {EventOf(StagedAlert(v))}]
<1> USE DEF vars, chainVars, rowVars, windowVars, planVars, ruleVars, cycleVars,
            chatVars
<1>1. CASE UNCHANGED members
  BY <1>1
<1>2. ASSUME NEW v \in Worker, RecordMarketStageTrigger(v)
      PROVE  /\ pc[v] = "stage" /\ status[StagedAlert(v)] = "staged"
             /\ StagedAlert(v) \in Alert
             /\ \E win \in Window :
                  /\ RuleOf(win) = RuleOf(StagedAlert(v))
                  /\ members' = [members EXCEPT ![win] =
                        @ \cup {EventOf(StagedAlert(v))}]
  <2>1. pc[v] = "stage" /\ status[StagedAlert(v)] = "staged"
    BY <1>2 DEF RecordMarketStageTrigger, CanStage
  <2>2. StagedAlert(v) \in Alert
    BY <2>1, JobType DEF StageHasTrigger, StagedAlert
  <2> QED
    BY <1>2, <2>1, <2>2, WindowJoined
<1>3. CASE Chain \/ Clock \/ Entitlements \/ UNCHANGED vars
  BY <1>1, <1>3 DEF Chain, InsertEvent, ReviveEvent, MarkMarketBlockConfirmed,
     MarkMarketBlockReorged, Clock, BackoffElapses, LeaseExpires, WindowEnds,
     Entitlements, PlanExpires, PauseExpiredUserResources, Renew, RestoreMarketRule
<1>4. ASSUME NEW v \in Worker, RunCycle(v) \/ Failures(v)
      PROVE  UNCHANGED members \/ RecordMarketStageTrigger(v)
  BY <1>4 DEF RunCycle, Failures, AcquireLock, ReconcileMarketNotificationSources,
     RecoverStaleMarketDeliveries, ListEnabledMarketRules, SkipPausedRule,
     LoadMarketRuleTargetState, EstablishBaseline, EvaluateRule,
     KeepExistingAlert, RefuseTrigger, CreateMarketRuleEvent, SuppressTrigger,
     RefuseStageTrigger, UpdateMarketRuleState, ClaimMarketDeliveries,
     LoadMarketDelivery, SendAccepted, SendRefused, SendUnanswered,
     CompleteMarketDelivery, CompleteNothing, MarkMembersSent, CompletionLost,
     FinishCycle, Crash, LoseLock
<1> QED
  BY <1>1, <1>2, <1>3, <1>4 DEF Next

(* Nothing is taken out of a window. *)
LEMMA MembersRemain ==
  ASSUME TypeOK, StageHasTrigger, WindowsLast, [Next]_vars
  PROVE  \A x \in Window : members[x] \subseteq members'[x]
  BY MembersChange DEF TypeOK

(* Only CreateMarketRuleEvent stages an alert, and its worker goes on to put it
   into a window. *)
LEMMA StagedIsNew ==
  ASSUME TypeOK, [Next]_vars, NEW a \in Alert, status'[a] = "staged"
  PROVE  status[a] = "staged" \/ BeingStaged(a)'
<1>0. a \in Row /\ a \notin Window
  BY RowShape
<1> USE DEF vars, chainVars, rowVars, windowVars, planVars, ruleVars, cycleVars,
            chatVars
<1>1. CASE UNCHANGED vars
  BY <1>1
<1>2. CASE Chain
  BY <1>0, <1>2 DEF Chain, InsertEvent, ReviveEvent, MarkMarketBlockConfirmed,
              MarkMarketBlockReorged
<1>3. CASE Clock
  BY <1>3 DEF Clock, BackoffElapses, LeaseExpires, WindowEnds
<1>4. CASE Entitlements
  BY <1>0, <1>4 DEF Entitlements, PlanExpires, PauseExpiredUserResources,
              PauseResources, PausedStatus, Renew, RestoreMarketRule
<1>5. ASSUME NEW w \in Worker, RunCycle(w) \/ Failures(w)
      PROVE  status[a] = "staged" \/ BeingStaged(a)'
  <2>1. CASE ReconcileMarketNotificationSources(w)
    BY <1>0, <2>1 DEF ReconcileMarketNotificationSources
  <2>2. CASE RecoverStaleMarketDeliveries(w)
    BY <1>0, <2>2 DEF RecoverStaleMarketDeliveries
  <2>3. CASE CreateMarketRuleEvent(w)
    <3>1. CASE a = TriggerOf(w) /\ RuleOf(a) \in StagedRule
      <4>1. pc'[w] = "stage"
        BY <2>3, <3>1 DEF CreateMarketRuleEvent, Goto, TypeOK
      <4>2. job' = [job EXCEPT ![w].created = TRUE]
        BY <2>3, <3>1 DEF CreateMarketRuleEvent
      <4>3. job'[w].rule = job[w].rule /\ job'[w].triggers = job[w].triggers
        BY <4>2 DEF TypeOK, Job
      <4>4. StagedAlert(w)' = a
        BY <3>1, <4>3 DEF StagedAlert, TriggerOf
      <4> QED
        BY <4>1, <4>4 DEF BeingStaged
    <3>2. CASE a # TriggerOf(w) \/ RuleOf(a) \notin StagedRule
      BY <1>0, <2>3, <3>2 DEF CreateMarketRuleEvent, TypeOK
    <3> QED
      BY <3>1, <3>2
  <2>4. CASE SuppressTrigger(w)
    BY <1>0, <2>4 DEF SuppressTrigger, TypeOK
  <2>5. CASE RecordMarketStageTrigger(w)
    <3>1. status'[a] \in {"pending", "skipped", "collecting", status[a]}
      BY <1>0, <2>5 DEF RecordMarketStageTrigger
    <3> QED
      BY <3>1
  <2>6. CASE ClaimMarketDeliveries(w)
    BY <1>0, <2>6 DEF ClaimMarketDeliveries
  <2>7. CASE CompleteMarketDelivery(w)
    BY <1>0, <2>7 DEF CompleteMarketDelivery, CompletedStatus, TypeOK
  <2>8. CASE MarkMembersSent(w)
    BY <1>0, <2>8 DEF MarkMembersSent
  <2>9. CASE UNCHANGED status
    BY <2>9
  <2> QED
    BY <1>5, <2>1, <2>2, <2>3, <2>4, <2>5, <2>6, <2>7, <2>8, <2>9
       DEF RunCycle, Failures, AcquireLock, ListEnabledMarketRules, SkipPausedRule,
           LoadMarketRuleTargetState, EstablishBaseline, EvaluateRule,
           KeepExistingAlert, RefuseTrigger, RefuseStageTrigger,
           UpdateMarketRuleState, LoadMarketDelivery, SendAccepted, SendRefused,
           CompleteNothing, FinishCycle, SendUnanswered, CompletionLost, Crash,
           LoseLock
<1> QED
  BY <1>1, <1>2, <1>3, <1>4, <1>5 DEF Next

(* A worker that staged an alert waits for nobody: what others do leaves its job
   alone, and until something fails its next step puts the alert into a window. *)
LEMMA StagingGoesOn ==
  ASSUME TypeOK, StageHasTrigger, Undisturbed, [Next]_vars,
         faults' = 0, reorgs = 0, expiries = 0,
         NEW v \in Worker, pc[v] = "stage", status[StagedAlert(v)] = "staged"
  PROVE  \/ pc'[v] = "stage" /\ job'[v] = job[v]
         \/ RecordMarketStageTrigger(v)
<1> USE DEF vars, chainVars, rowVars, windowVars, planVars, ruleVars, cycleVars,
            chatVars
<1>1. CASE UNCHANGED <<pc, job>>
  BY <1>1
<1>2. CASE Chain \/ Clock \/ Entitlements \/ UNCHANGED vars
  BY <1>1, <1>2 DEF Chain, InsertEvent, ReviveEvent, MarkMarketBlockConfirmed,
     MarkMarketBlockReorged, Clock, BackoffElapses, LeaseExpires, WindowEnds,
     Entitlements, PlanExpires, PauseExpiredUserResources, Renew, RestoreMarketRule
<1>3. ASSUME NEW w \in Worker, Failures(w) PROVE FALSE
  BY <1>3 DEF Failures, Fault, SendUnanswered, CompletionLost, Crash, LoseLock, TypeOK
<1>4. ASSUME NEW w \in Worker, RunCycle(w), w # v
      PROVE  pc'[v] = pc[v] /\ job'[v] = job[v]
  <2>1. CASE \/ AcquireLock(w) \/ ReconcileMarketNotificationSources(w)
             \/ RecoverStaleMarketDeliveries(w) \/ ListEnabledMarketRules(w)
             \/ \E r \in Rule : SkipPausedRule(w, r) \/ LoadMarketRuleTargetState(w, r)
             \/ EstablishBaseline(w)
             \/ \E available \in BOOLEAN : EvaluateRule(w, available)
    BY <1>4, <2>1 DEF TypeOK, Goto, AcquireLock, ReconcileMarketNotificationSources,
       RecoverStaleMarketDeliveries, ListEnabledMarketRules, SkipPausedRule,
       LoadMarketRuleTargetState, EstablishBaseline, EvaluateRule
  <2>2. CASE \/ KeepExistingAlert(w) \/ RefuseTrigger(w) \/ CreateMarketRuleEvent(w)
             \/ SuppressTrigger(w) \/ RecordMarketStageTrigger(w)
             \/ RefuseStageTrigger(w) \/ UpdateMarketRuleState(w)
    BY <1>4, <2>2 DEF TypeOK, Goto, NextTrigger, NextSuppressed, EndCycle,
       KeepExistingAlert, RefuseTrigger, CreateMarketRuleEvent,
       SuppressTrigger, RecordMarketStageTrigger, RefuseStageTrigger,
       UpdateMarketRuleState
  <2>3. CASE \/ ClaimMarketDeliveries(w) \/ \E x \in Row : LoadMarketDelivery(w, x)
             \/ SendAccepted(w) \/ SendRefused(w) \/ CompleteMarketDelivery(w)
             \/ CompleteNothing(w) \/ MarkMembersSent(w) \/ FinishCycle(w)
    BY <1>4, <2>3 DEF TypeOK, Goto, DeliveryOver, EndCycle, ClaimMarketDeliveries,
       LoadMarketDelivery, SendAccepted, SendRefused, CompleteMarketDelivery,
       CompleteNothing, MarkMembersSent, FinishCycle
  <2> QED
    BY <1>4, <2>1, <2>2, <2>3 DEF RunCycle
<1>5. ASSUME RunCycle(v) PROVE RecordMarketStageTrigger(v)
  <2>1. CanStage(v)
    <3>1. StagedAlert(v) \in Alert
      BY JobType DEF StageHasTrigger, StagedAlert
    <3>2. EventOf(StagedAlert(v)) \in Event /\ RuleOf(StagedAlert(v)) \in Rule
      BY <3>1, RowShape
    <3> QED
      BY <3>2 DEF CanStage, Undisturbed
  <2>2. RecordMarketStageTrigger(v) \/ RefuseStageTrigger(v)
    BY <1>5 DEF RunCycle, AcquireLock, ReconcileMarketNotificationSources,
       RecoverStaleMarketDeliveries, ListEnabledMarketRules, SkipPausedRule,
       LoadMarketRuleTargetState, EstablishBaseline, EvaluateRule,
       KeepExistingAlert, RefuseTrigger, CreateMarketRuleEvent, SuppressTrigger,
       UpdateMarketRuleState, MoreTriggers, MoreSuppressed, Evaluated,
       ClaimMarketDeliveries, LoadMarketDelivery, SendAccepted, SendRefused,
       CompleteMarketDelivery, CompleteNothing, MarkMembersSent, FinishCycle
  <2> QED
    BY <2>1, <2>2 DEF RefuseStageTrigger
<1> QED
  BY <1>2, <1>3, <1>4, <1>5 DEF Next

LEMMA StagedStep ==
  ASSUME TypeOK, StageHasTrigger, WindowsLast, Undisturbed,
         StagedAlertsAreCounted, [Next]_vars
  PROVE  StagedAlertsAreCounted'
<1> SUFFICES ASSUME NEW a \in Alert, status'[a] = "staged",
                    faults' = 0, reorgs' = 0, expiries' = 0
             PROVE  InSomeWindow(a)' \/ BeingStaged(a)'
  BY DEF StagedAlertsAreCounted
<1>1. faults = 0 /\ reorgs = 0 /\ expiries = 0
  BY CountersGrow
<1>2. CASE status[a] # "staged"
  BY <1>2, StagedIsNew
<1>3. CASE status[a] = "staged" /\ InSomeWindow(a)
  BY <1>3, MembersRemain DEF InSomeWindow
<1>4. ASSUME status[a] = "staged", NEW v \in Worker, pc[v] = "stage",
             StagedAlert(v) = a
      PROVE  InSomeWindow(a)' \/ BeingStaged(a)'
  <2>1. CASE pc'[v] = "stage" /\ job'[v] = job[v]
    BY <1>4, <2>1 DEF BeingStaged, StagedAlert, TriggerOf
  <2>2. CASE RecordMarketStageTrigger(v)
    <3>1. PICK win \in Window :
            /\ RuleOf(win) = RuleOf(a)
            /\ members' = [members EXCEPT ![win] = @ \cup {EventOf(a)}]
      BY <1>4, <2>2, WindowJoined
    <3> QED
      BY <3>1 DEF InSomeWindow, TypeOK
  <2> QED
    BY <1>1, <1>4, <2>1, <2>2, StagingGoesOn
<1> QED
  BY <1>1, <1>2, <1>3, <1>4 DEF StagedAlertsAreCounted, BeingStaged

(* A staged alert is lost from its digest only by a failure, a reorganization or
   a pause: as long as there was none, it is in a window or about to be. *)
THEOREM StagedCorrect == Spec => []StagedAlertsAreCounted
<1>1. Init => Undisturbed /\ StagedAlertsAreCounted
  BY RowShape DEF Init, Undisturbed, StagedAlertsAreCounted
<1> QED
  BY <1>1, UndisturbedStep, StagedStep, WindowsLastCorrect, TypeCorrect, PTL DEF Spec

-----------------------------------------------------------------------------
(* The pipeline implements the abstract outbox *)

(* What a worker that delivers a row knows: a message that is about to be sent
   covers alerts that exist, and names them all unless it is full; the alert it is
   about is named, and a row is completed as sent only after that message. *)
DeliveryKnows(w) ==
  /\ pc[w] \notin {"complete", "members"} => result[w] = "failed"
  /\ pc[w] = "members" => current[w] \in Window
  /\ pc[w] = "send" =>
       /\ content[w].named \subseteq content[w].covered
       /\ content[w].named = content[w].covered
          \/ Cardinality(content[w].named) = DigestLimit
       /\ \A e \in content[w].covered : status[AlertOf(RuleOf(current[w]), e)] # "none"
  /\ current[w] \in Window /\ pc[w] = "send" =>
       content[w].covered \subseteq members[current[w]]
  /\ current[w] \in Alert =>
       /\ pc[w] = "send" => EventOf(current[w]) \in content[w].named
       /\ pc[w] = "complete" /\ result[w] = "sent" => current[w] \in carried

MembersHaveAlerts ==
  \A x \in Window : \A e \in members[x] : status[AlertOf(RuleOf(x), e)] # "none"

CoveredExist == \A a \in covered : status[a] # "none"

DeliveriesKnow ==
  MembersHaveAlerts /\ CoveredExist /\ \A w \in Worker : DeliveryKnows(w)

(* While a worker delivers a digest, its members that are still staged are those
   the message covers.  A rival, who got the lock after a failure, would stage a
   member the message does not cover; a retraction would take one out of it. *)
Peace == NoRival /\ reorgs = 0

NamesMembers(w) ==
  \A x \in Window, a \in Alert :
    /\ current[w] = x /\ status[a] = "staged"
    /\ RuleOf(a) = RuleOf(x) /\ EventOf(a) \in members[x]
    => /\ pc[w] = "send" => EventOf(a) \in content[w].covered
       /\ pc[w] = "members" \/ (pc[w] = "complete" /\ result[w] = "sent") =>
            Reported(a)
DigestsName == Peace => \A w \in Worker : NamesMembers(w)

(* How a worker's delivery moves: by its own send and completion, by loading a
   row, by being given up, or not at all. *)
LEMMA DeliveryMoves ==
  ASSUME TypeOK, [Next]_vars, NEW w \in Worker
  PROVE  \/ UNCHANGED <<pc[w], current[w], content[w], result[w]>>
         \/ /\ pc'[w] \notin {"send", "complete", "members"}
            /\ \/ result'[w] = "failed"
               \/ result'[w] = result[w] /\ pc[w] \notin {"complete", "members"}
         \/ \E x \in Row : LoadMarketDelivery(w, x)
         \/ SendAccepted(w) \/ SendRefused(w) \/ SendUnanswered(w)
         \/ CompleteMarketDelivery(w)
<1> DEFINE Same == UNCHANGED <<pc[w], current[w], content[w], result[w]>>
           Over == /\ pc'[w] \notin {"send", "complete", "members"}
                   /\ \/ result'[w] = "failed"
                      \/ result'[w] = result[w] /\ pc[w] \notin {"complete", "members"}
<1> USE DEF vars, chainVars, rowVars, windowVars, planVars, ruleVars, cycleVars,
            chatVars
<1>1. CASE UNCHANGED cycleVars
  BY <1>1
<1>2. CASE Chain \/ Clock \/ Entitlements \/ UNCHANGED vars
  BY <1>1, <1>2 DEF Chain, InsertEvent, ReviveEvent, MarkMarketBlockConfirmed,
     MarkMarketBlockReorged, Clock, BackoffElapses, LeaseExpires, WindowEnds,
     Entitlements, PlanExpires, PauseExpiredUserResources, Renew, RestoreMarketRule
<1>3. ASSUME NEW v \in Worker \ {w}, RunCycle(v) \/ Failures(v)
      PROVE  Same
  <2>1. CASE \/ AcquireLock(v) \/ ReconcileMarketNotificationSources(v)
             \/ RecoverStaleMarketDeliveries(v) \/ ListEnabledMarketRules(v)
             \/ \E r \in Rule : SkipPausedRule(v, r) \/ LoadMarketRuleTargetState(v, r)
             \/ EstablishBaseline(v)
             \/ \E available \in BOOLEAN : EvaluateRule(v, available)
    BY <2>1 DEF TypeOK, Goto, AcquireLock, ReconcileMarketNotificationSources,
       RecoverStaleMarketDeliveries, ListEnabledMarketRules, SkipPausedRule,
       LoadMarketRuleTargetState, EstablishBaseline, EvaluateRule
  <2>2. CASE \/ KeepExistingAlert(v) \/ RefuseTrigger(v) \/ CreateMarketRuleEvent(v)
             \/ SuppressTrigger(v) \/ RecordMarketStageTrigger(v)
             \/ RefuseStageTrigger(v) \/ UpdateMarketRuleState(v)
    BY <2>2 DEF TypeOK, Goto, EndCycle, KeepExistingAlert, RefuseTrigger,
       CreateMarketRuleEvent, SuppressTrigger, RecordMarketStageTrigger,
       RefuseStageTrigger, UpdateMarketRuleState
  <2>3. CASE \/ ClaimMarketDeliveries(v) \/ \E x \in Row : LoadMarketDelivery(v, x)
             \/ SendAccepted(v) \/ SendRefused(v) \/ SendUnanswered(v)
             \/ CompleteMarketDelivery(v) \/ CompleteNothing(v)
    BY <2>3 DEF TypeOK, Goto, DeliveryOver, ClaimMarketDeliveries,
       LoadMarketDelivery, SendAccepted, SendRefused, SendUnanswered,
       CompleteMarketDelivery, CompleteNothing
  <2>4. CASE \/ MarkMembersSent(v) \/ CompletionLost(v) \/ FinishCycle(v)
             \/ Crash(v) \/ LoseLock(v)
    BY <2>4 DEF TypeOK, Goto, DeliveryOver, EndCycle, MarkMembersSent, CompletionLost,
       FinishCycle, Crash, LoseLock
  <2> QED
    BY <1>3, <2>1, <2>2, <2>3, <2>4 DEF RunCycle, Failures
<1>4. ASSUME RunCycle(w) \/ Failures(w)
      PROVE  \/ Same \/ Over
             \/ \E x \in Row : LoadMarketDelivery(w, x)
             \/ SendAccepted(w) \/ SendRefused(w) \/ SendUnanswered(w)
             \/ CompleteMarketDelivery(w)
  <2>1. CASE \/ AcquireLock(w) \/ ReconcileMarketNotificationSources(w)
             \/ RecoverStaleMarketDeliveries(w) \/ ListEnabledMarketRules(w)
             \/ \E r \in Rule : SkipPausedRule(w, r) \/ LoadMarketRuleTargetState(w, r)
             \/ EstablishBaseline(w)
             \/ \E available \in BOOLEAN : EvaluateRule(w, available)
    BY <2>1 DEF TypeOK, Goto, AcquireLock, ReconcileMarketNotificationSources,
       RecoverStaleMarketDeliveries, ListEnabledMarketRules, SkipPausedRule,
       LoadMarketRuleTargetState, EstablishBaseline, EvaluateRule
  <2>2. CASE \/ KeepExistingAlert(w) \/ RefuseTrigger(w) \/ CreateMarketRuleEvent(w)
             \/ SuppressTrigger(w) \/ RecordMarketStageTrigger(w)
             \/ RefuseStageTrigger(w) \/ UpdateMarketRuleState(w)
    BY <2>2 DEF TypeOK, Goto, EndCycle, KeepExistingAlert, RefuseTrigger,
       CreateMarketRuleEvent, SuppressTrigger, RecordMarketStageTrigger,
       RefuseStageTrigger, UpdateMarketRuleState, MoreTriggers, MoreSuppressed,
       Evaluated
  <2>3. CASE \/ ClaimMarketDeliveries(w) \/ CompleteNothing(w) \/ MarkMembersSent(w)
             \/ CompletionLost(w) \/ FinishCycle(w) \/ Crash(w) \/ LoseLock(w)
    BY <2>3 DEF TypeOK, Goto, DeliveryOver, EndCycle, ClaimMarketDeliveries,
       CompleteNothing, MarkMembersSent, CompletionLost, FinishCycle, Crash, LoseLock
  <2> QED
    BY <1>4, <2>1, <2>2, <2>3 DEF RunCycle, Failures
<1> QED
  BY <1>2, <1>3, <1>4 DEF Next

(* What reaches the chat was sent by a worker, and is about alerts that exist. *)
LEMMA CarriedGrows ==
  ASSUME TypeOK, DeliveriesKnow, [Next]_vars
  PROVE  /\ carried \subseteq carried' /\ covered \subseteq covered'
         /\ \A a \in carried' \ carried : status[a] # "none"
         /\ \A a \in covered' : status[a] # "none"
<1> USE DEF vars, chainVars, rowVars, windowVars, planVars, ruleVars, cycleVars,
            chatVars
<1>1. CASE UNCHANGED <<carried, covered>>
  BY <1>1 DEF DeliveriesKnow, CoveredExist
<1>2. ASSUME NEW w \in Worker, SendAccepted(w) \/ SendUnanswered(w)
      PROVE  /\ carried \subseteq carried' /\ covered \subseteq covered'
             /\ \A a \in carried' \ carried : status[a] # "none"
             /\ \A a \in covered' : status[a] # "none"
  <2>1. /\ pc[w] = "send"
        /\ carried' = carried \cup
             {AlertOf(RuleOf(current[w]), e) : e \in content[w].named}
        /\ covered' = covered \cup
             {AlertOf(RuleOf(current[w]), e) : e \in content[w].covered}
    BY <1>2 DEF SendAccepted, SendUnanswered, ReachesChat
  <2> QED
    BY <2>1 DEF DeliveriesKnow, DeliveryKnows, CoveredExist
<1>3. CASE Chain \/ Clock \/ Entitlements \/ UNCHANGED vars
  BY <1>1, <1>3 DEF Chain, InsertEvent, ReviveEvent, MarkMarketBlockConfirmed,
     MarkMarketBlockReorged, Clock, BackoffElapses, LeaseExpires, WindowEnds,
     Entitlements, PlanExpires, PauseExpiredUserResources, Renew, RestoreMarketRule
<1>4. ASSUME NEW w \in Worker, RunCycle(w) \/ Failures(w)
      PROVE  UNCHANGED <<carried, covered>> \/ SendAccepted(w) \/ SendUnanswered(w)
  BY <1>4 DEF RunCycle, Failures, AcquireLock, ReconcileMarketNotificationSources,
     RecoverStaleMarketDeliveries, ListEnabledMarketRules, SkipPausedRule,
     LoadMarketRuleTargetState, EstablishBaseline, EvaluateRule,
     KeepExistingAlert, RefuseTrigger, CreateMarketRuleEvent, SuppressTrigger,
     RecordMarketStageTrigger, RefuseStageTrigger, UpdateMarketRuleState,
     ClaimMarketDeliveries, LoadMarketDelivery, SendRefused,
     CompleteMarketDelivery, CompleteNothing, MarkMembersSent, CompletionLost,
     FinishCycle, Crash, LoseLock
<1> QED
  BY <1>1, <1>2, <1>3, <1>4 DEF Next

(* What a message has told of stays told. *)
LEMMA ReportedRemains ==
  ASSUME TypeOK, TypeOK', StageHasTrigger, WindowsLast, DeliveriesKnow, [Next]_vars,
         NEW a \in Alert, Reported(a)
  PROVE  Reported(a)'
<1>1. carried \subseteq carried' /\ covered \subseteq covered'
  BY CarriedGrows
<1>2. CASE a \in carried
  BY <1>1, <1>2 DEF Reported
<1>3. CASE a \notin carried
  <2>1. PICK x \in Window : /\ RuleOf(x) = RuleOf(a) /\ EventOf(a) \in members[x]
                            /\ Cardinality(NamedOf(x)) >= DigestLimit
    BY <1>3 DEF Reported
  <2>2. a \in covered'
    BY <1>1, <1>3 DEF Reported
  <2>3. members[x] \subseteq members'[x] /\ members'[x] \in SUBSET Event
    BY MembersRemain DEF TypeOK
  <2>4. PICK S, T : /\ S = {e \in members[x] : AlertOf(RuleOf(x), e) \in carried}
                    /\ T = {e \in members'[x] : AlertOf(RuleOf(x), e) \in carried'}
    OBVIOUS
  <2>5. Cardinality(T) >= DigestLimit
    <3>1. S \subseteq T /\ T \in SUBSET Event /\ S \in SUBSET Event
      BY <1>1, <2>3, <2>4
    <3>2. Cardinality(S) <= Cardinality(T)
      BY <3>1, EventsFinite, FS_Subset
    <3>3. Cardinality(S) >= DigestLimit
      BY <2>1, <2>4 DEF NamedOf
    <3>4. Cardinality(S) \in Nat /\ Cardinality(T) \in Nat /\ DigestLimit \in Nat
      BY <3>1, EventsFinite, DeliveryAssumption
    <3> QED
      BY <3>2, <3>3, <3>4
  <2>6. T = NamedOf(x)'
    BY <2>4 DEF NamedOf, AlertOf
  <2> QED
    BY <2>1, <2>2, <2>3, <2>5, <2>6 DEF Reported
<1> QED
  BY <1>2, <1>3

LEMMA MembersHaveAlertsStep ==
  ASSUME TypeOK, TypeOK', StageHasTrigger, WindowsLast, MembersHaveAlerts, [Next]_vars
  PROVE  MembersHaveAlerts'
<1> SUFFICES ASSUME NEW x \in Window, NEW e \in members'[x]
             PROVE  status'[AlertOf(RuleOf(x), e)] # "none"
  BY DEF MembersHaveAlerts, AlertOf, RuleOf
<1>1. RuleOf(x) \in Rule /\ e \in Event
  BY RowShape DEF TypeOK
<1>2. AlertOf(RuleOf(x), e) \in Alert
  BY <1>1, RowShape
<1>3. status[AlertOf(RuleOf(x), e)] # "none"
  <2>1. CASE e \in members[x]
    BY <2>1 DEF MembersHaveAlerts
  <2>2. CASE e \notin members[x]
    <3>1. PICK a \in Alert, win \in Window :
            /\ status[a] = "staged" /\ RuleOf(win) = RuleOf(a)
            /\ members' = [members EXCEPT ![win] = @ \cup {EventOf(a)}]
      BY <2>2, MembersChange
    <3>2. win = x /\ e = EventOf(a)
      BY <2>2, <3>1 DEF TypeOK
    <3>3. AlertOf(RuleOf(x), e) = a
      BY <3>1, <3>2 DEF AlertOf, RuleOf, EventOf, Alert
    <3> QED
      BY <3>1, <3>3
  <2> QED
    BY <2>1, <2>2
<1> QED
  BY <1>2, <1>3, AlertsRemain

LEMMA CoveredExistStep ==
  ASSUME TypeOK, TypeOK', DeliveriesKnow, [Next]_vars
  PROVE  CoveredExist'
  BY CarriedGrows, AlertsRemain DEF CoveredExist, TypeOK

LEMMA DeliveryKnowsStep ==
  ASSUME TypeOK, TypeOK', StageHasTrigger, WindowsLast, DeliveriesKnow, [Next]_vars,
         NEW w \in Worker
  PROVE  DeliveryKnows(w)'
<1>0. DeliveryKnows(w) /\ MembersHaveAlerts
  BY DEF DeliveriesKnow
<1>a. \A r \in Rule, e \in Event :
        status[AlertOf(r, e)] # "none" => status'[AlertOf(r, e)] # "none"
  BY AlertsRemain, RowShape
<1>b. /\ RuleOf(current[w]) \in Rule /\ content[w].covered \in SUBSET Event
      /\ carried \subseteq carried'
      /\ \A x \in Window : members[x] \subseteq members'[x]
  BY RowShape, CarriedGrows, MembersRemain DEF TypeOK, Content
<1> USE DEF vars, chainVars, rowVars, windowVars, planVars, ruleVars, cycleVars,
            chatVars
<1>1. CASE UNCHANGED <<pc[w], current[w], content[w], result[w]>>
  BY <1>0, <1>1, <1>a, <1>b DEF DeliveryKnows, AlertOf, RuleOf
<1>2. CASE /\ pc'[w] \notin {"send", "complete", "members"}
           /\ \/ result'[w] = "failed"
              \/ result'[w] = result[w] /\ pc[w] \notin {"complete", "members"}
  BY <1>0, <1>2 DEF DeliveryKnows
<1>3. ASSUME NEW x \in Row, LoadMarketDelivery(w, x)
      PROVE  DeliveryKnows(w)'
  <2>1. /\ pc[w] = "deliver" /\ pc'[w] \in {"send", "complete"}
        /\ current'[w] = x /\ result'[w] = result[w]
        /\ UNCHANGED <<status, members>>
        /\ pc'[w] = "send" => status[x] = "sending" /\ content'[w] \in Contents(x)
    BY <1>3 DEF LoadMarketDelivery, Goto, TypeOK
  <2>2. result'[w] = "failed"
    BY <1>0, <2>1 DEF DeliveryKnows
  <2>3. ASSUME pc'[w] = "send", NEW c, c = content'[w]
        PROVE  /\ c.named \subseteq c.covered
               /\ c.named = c.covered \/ Cardinality(c.named) = DigestLimit
               /\ \A e \in c.covered : status[AlertOf(RuleOf(x), e)] # "none"
               /\ x \in Window => c.covered \subseteq members[x]
               /\ x \in Alert => EventOf(x) \in c.named
    <3>1. c \in Contents(x) /\ status[x] = "sending"
      BY <2>1, <2>3
    <3>2. CASE x \in Alert
      <4>1. c.named = {EventOf(x)} /\ c.covered = {EventOf(x)}
        BY <3>1, <3>2 DEF Contents
      <4>2. AlertOf(RuleOf(x), EventOf(x)) = x
        BY <3>2 DEF AlertOf, RuleOf, EventOf, Alert
      <4>3. x \notin Window
        BY <3>2, RowShape
      <4> QED
        BY <3>1, <4>1, <4>2, <4>3
    <3>3. CASE x \notin Alert
      <4>1. PICK S \in Listings(x) : c.named = S /\ c.covered = LiveMembers(x)
        BY <3>1, <3>3 DEF Contents
      <4>2. /\ S \subseteq LiveMembers(x)
            /\ S = LiveMembers(x) \/ Cardinality(S) = DigestLimit
        BY DEF Listings
      <4>3. x \in Window /\ LiveMembers(x) \subseteq members[x]
        BY <3>3 DEF Row, LiveMembers
      <4> QED
        BY <1>0, <3>3, <4>1, <4>2, <4>3 DEF MembersHaveAlerts
    <3> QED
      BY <3>2, <3>3
  <2>4. PICK c : c = content'[w]
    OBVIOUS
  <2> QED
    BY <2>1, <2>2, <2>3, <2>4 DEF DeliveryKnows, AlertOf, RuleOf
<1>4. CASE SendAccepted(w) \/ SendRefused(w) \/ SendUnanswered(w)
  <2>1. /\ pc[w] = "send" /\ pc'[w] = "complete" /\ current'[w] = current[w]
        /\ \/ result'[w] = result[w]
           \/ carried' = carried \cup
                {AlertOf(RuleOf(current[w]), e) : e \in content[w].named}
    BY <1>4 DEF SendAccepted, SendRefused, SendUnanswered, ReachesChat, Goto, TypeOK
  <2>2. ASSUME current[w] \in Alert, result'[w] = "sent"
        PROVE  current[w] \in carried'
    <3>1. EventOf(current[w]) \in content[w].named /\ result[w] = "failed"
      BY <1>0, <2>1, <2>2 DEF DeliveryKnows
    <3>2. current[w] = AlertOf(RuleOf(current[w]), EventOf(current[w]))
      BY <2>2 DEF AlertOf, RuleOf, EventOf, Alert
    <3> QED
      BY <2>1, <2>2, <3>1, <3>2
  <2> QED
    BY <2>1, <2>2 DEF DeliveryKnows
<1>5. CASE CompleteMarketDelivery(w)
  <2>1. \/ /\ pc'[w] = "members" /\ current'[w] = current[w]
           /\ current[w] \in Window
        \/ pc'[w] = "deliver" /\ result'[w] = "failed"
    BY <1>5 DEF CompleteMarketDelivery, DeliveryOver, Goto, TypeOK
  <2>2. \A a \in Alert : a \notin Window
    BY RowShape
  <2> QED
    BY <2>1, <2>2 DEF DeliveryKnows
<1> QED
  BY <1>1, <1>2, <1>3, <1>4, <1>5, DeliveryMoves

(* While nobody else is in a cycle, what a worker has in delivery gets no new
   member, and no alert is staged. *)
LEMMA DeliveryUndisturbed ==
  ASSUME TypeOK, StageHasTrigger, WindowsLast, CyclesExclude, CyclesExclude',
         NoRival', [Next]_vars, NEW w \in Worker,
         pc[w] \in Delivering, pc'[w] \in Delivering
  PROVE  /\ members' = members
         /\ \A a \in Alert : status'[a] = "staged" => status[a] = "staged"
<1>1. NoRival
  BY CountersGrow DEF NoRival
<1>2. \A v \in Worker : pc[v] # "idle" => v = w
  BY <1>1 DEF NoRival, CyclesExclude, Delivering
<1>3. \A v \in Worker : pc'[v] # "idle" => v = w
  BY DEF NoRival, CyclesExclude, Delivering
<1>4. members' = members
  BY <1>2, MembersChange DEF Delivering
<1>5. \A v \in Worker : pc'[v] # "stage"
  BY <1>3 DEF Delivering
<1> QED
  BY <1>4, <1>5, StagedIsNew DEF BeingStaged

LEMMA DigestsNameStep ==
  ASSUME TypeOK, TypeOK', StageHasTrigger, WindowsLast, Undisturbed, CyclesExclude,
         CyclesExclude', DeliveriesKnow, DigestsName, [Next]_vars
  PROVE  DigestsName'
<1> SUFFICES ASSUME Peace', NEW w \in Worker PROVE NamesMembers(w)'
  BY DEF DigestsName
<1>1. Peace /\ NoRival' /\ NamesMembers(w) /\ DeliveryKnows(w)
  BY CountersGrow DEF Peace, NoRival, DigestsName, DeliveriesKnow
<1>2. pc[w] \in Delivering /\ pc'[w] \in Delivering =>
        /\ members' = members
        /\ \A a \in Alert : status'[a] = "staged" => status[a] = "staged"
  BY <1>1, DeliveryUndisturbed
<1> USE DEF vars, chainVars, rowVars, windowVars, planVars, ruleVars, cycleVars,
            chatVars
<1> SUFFICES ASSUME NEW x \in Window, NEW a \in Alert, current'[w] = x,
                    status'[a] = "staged", RuleOf(a) = RuleOf(x),
                    EventOf(a) \in members'[x],
                    pc'[w] \in {"send", "complete", "members"},
                    pc'[w] = "complete" => result'[w] = "sent"
             PROVE  IF pc'[w] = "send" THEN EventOf(a) \in content'[w].covered
                    ELSE Reported(a)'
  BY DEF NamesMembers
<1>3. AlertOf(RuleOf(x), EventOf(a)) = a
  BY DEF AlertOf, RuleOf, EventOf, Alert
<1>4. Reported(a) => Reported(a)'
  BY ReportedRemains
<1>5. pc[w] \in Delivering =>
        members' = members /\ EventOf(a) \in members[x] /\ status[a] = "staged"
  BY <1>2 DEF Delivering
<1>6. pc[w] \in {"send", "complete", "members"} /\ current[w] = x =>
        /\ pc[w] = "send" => EventOf(a) \in content[w].covered
        /\ pc[w] = "members" \/ (pc[w] = "complete" /\ result[w] = "sent") =>
             Reported(a)
  BY <1>1, <1>5 DEF NamesMembers, Delivering
<1>7. CASE UNCHANGED <<pc[w], current[w], content[w], result[w]>>
  BY <1>4, <1>6, <1>7
<1>8. ASSUME NEW y \in Row, LoadMarketDelivery(w, y)
      PROVE  pc'[w] = "send" /\ EventOf(a) \in content'[w].covered
  <2>1. /\ pc[w] = "deliver" /\ y = x /\ result'[w] = result[w]
        /\ pc'[w] = "send" => content'[w] \in Contents(x)
        /\ pc'[w] # "send" => pc'[w] = "complete"
    BY <1>8 DEF LoadMarketDelivery, Goto, TypeOK
  <2>2. pc'[w] = "send"
    BY <1>1, <2>1 DEF DeliveryKnows
  <2>3. x \notin Alert
    BY RowShape
  <2>4. EventOf(a) \in members[x] /\ EventOf(a) \in Event
    BY <1>5, <2>1, RowShape DEF Delivering
  <2>5. event[EventOf(a)] # "reorged"
    BY <1>1, <2>4 DEF Peace, Undisturbed
  <2>6. content'[w].covered = LiveMembers(x)
    BY <2>1, <2>2, <2>3 DEF Contents
  <2> QED
    BY <2>2, <2>4, <2>5, <2>6 DEF LiveMembers
<1>9. CASE SendAccepted(w) \/ SendRefused(w) \/ SendUnanswered(w)
  <2>1. /\ pc[w] = "send" /\ pc'[w] = "complete" /\ current[w] = x
        /\ \/ result'[w] = result[w]
           \/ /\ carried' = carried \cup {AlertOf(RuleOf(x), d) : d \in content[w].named}
              /\ covered' = covered \cup {AlertOf(RuleOf(x), d) : d \in content[w].covered}
    BY <1>9 DEF SendAccepted, SendRefused, SendUnanswered, ReachesChat, Goto, TypeOK
  <2>2. result[w] = "failed"
    BY <1>1, <2>1 DEF DeliveryKnows
  <2>3. /\ carried' = carried \cup {AlertOf(RuleOf(x), d) : d \in content[w].named}
        /\ covered' = covered \cup {AlertOf(RuleOf(x), d) : d \in content[w].covered}
    BY <2>1, <2>2
  <2>4. EventOf(a) \in content[w].covered
    BY <1>6, <2>1
  <2>5. CASE content[w].named = content[w].covered
    <3>1. a \in carried'
      BY <1>3, <2>3, <2>4, <2>5
    <3> QED
      BY <2>1, <3>1 DEF Reported
  <2>6. CASE Cardinality(content[w].named) = DigestLimit
    <3>1. PICK S, T : /\ S = content[w].named
                      /\ T = {d \in members'[x] : AlertOf(RuleOf(x), d) \in carried'}
      OBVIOUS
    <3>2. S \subseteq members[x] /\ members' = members
      BY <1>1, <1>5, <2>1, <3>1 DEF DeliveryKnows, Delivering
    <3>3. S \subseteq T /\ S \in SUBSET Event /\ T \in SUBSET Event
      BY <2>3, <3>1, <3>2 DEF TypeOK
    <3>4. Cardinality(S) <= Cardinality(T)
      BY <3>3, EventsFinite, FS_Subset
    <3>5. Cardinality(T) >= DigestLimit
      BY <2>6, <3>1, <3>3, <3>4, EventsFinite, DeliveryAssumption
    <3>6. T = NamedOf(x)'
      BY <3>1 DEF NamedOf, AlertOf
    <3>7. a \in covered'
      BY <1>3, <2>3, <2>4
    <3>8. Reported(a)'
      BY <3>5, <3>6, <3>7 DEF Reported
    <3> QED
      BY <2>1, <3>8
  <2> QED
    BY <1>1, <2>1, <2>5, <2>6 DEF DeliveryKnows
<1>10. CASE CompleteMarketDelivery(w)
  <2>1. /\ pc[w] = "complete" /\ current[w] = x /\ result[w] = "sent"
        /\ pc'[w] = "members"
    BY <1>10 DEF CompleteMarketDelivery, DeliveryOver, Goto, TypeOK
  <2> QED
    BY <1>4, <1>6, <2>1
<1> QED
  BY <1>7, <1>8, <1>9, <1>10, DeliveryMoves

-----------------------------------------------------------------------------
(* An alert that becomes sent was announced before, and a message has told of
   it. *)
LEMMA SentWasCarried ==
  ASSUME TypeOK, TypeOK', DeliveriesKnow, DigestsName, [Next]_vars,
         NEW a \in Alert, RuleOf(a) \in RealtimeRule \/ Peace,
         status'[a] = "sent", status[a] # "sent"
  PROVE  status[a] # "none" /\ Reported(a)
<1>0. a \in Row /\ a \notin Window /\ RuleOf(a) \in Rule /\ EventOf(a) \in Event
  BY RowShape
<1> USE DEF vars, chainVars, rowVars, windowVars, planVars, ruleVars, cycleVars,
            chatVars
<1>1. CASE UNCHANGED vars
  BY <1>1
<1>2. CASE Chain
  BY <1>0, <1>2 DEF Chain, InsertEvent, ReviveEvent, MarkMarketBlockConfirmed,
              MarkMarketBlockReorged
<1>3. CASE Clock
  BY <1>3 DEF Clock, BackoffElapses, LeaseExpires, WindowEnds
<1>4. CASE Entitlements
  BY <1>0, <1>4 DEF Entitlements, PlanExpires, PauseExpiredUserResources,
              PauseResources, PausedStatus, Renew, RestoreMarketRule
<1>5. ASSUME NEW w \in Worker, RunCycle(w) \/ Failures(w)
      PROVE  status[a] # "none" /\ Reported(a)
  <2>1. CASE ReconcileMarketNotificationSources(w)
    BY <1>0, <2>1 DEF ReconcileMarketNotificationSources
  <2>2. CASE RecoverStaleMarketDeliveries(w)
    BY <1>0, <2>2 DEF RecoverStaleMarketDeliveries
  <2>3. CASE CreateMarketRuleEvent(w) \/ SuppressTrigger(w)
    BY <1>0, <2>3 DEF CreateMarketRuleEvent, SuppressTrigger, TypeOK
  <2>4. CASE RecordMarketStageTrigger(w)
    BY <1>0, <2>4 DEF RecordMarketStageTrigger
  <2>5. CASE ClaimMarketDeliveries(w)
    BY <1>0, <2>5 DEF ClaimMarketDeliveries
  <2>6. CASE CompleteMarketDelivery(w)
    <3>1. /\ a = current[w] /\ pc[w] = "complete" /\ result[w] = "sent"
          /\ status[a] = "sending"
      BY <1>0, <2>6 DEF CompleteMarketDelivery, CompletedStatus, TypeOK
    <3> QED
      BY <3>1 DEF DeliveriesKnow, DeliveryKnows, Reported
  <2>7. CASE MarkMembersSent(w)
    <3>1. /\ pc[w] = "members" /\ RuleOf(a) = RuleOf(current[w])
          /\ EventOf(a) \in members[current[w]] /\ status[a] = "staged"
      BY <1>0, <2>7 DEF MarkMembersSent, TakenUp
    <3>2. current[w] \in Window
      BY <3>1 DEF DeliveriesKnow, DeliveryKnows
    <3>3. RuleOf(a) \in StagedRule
      BY <3>1, <3>2, RowShape
    <3>4. Peace
      BY <3>3, DeliveryAssumption
    <3> QED
      BY <3>1, <3>2, <3>4 DEF DigestsName, NamesMembers
  <2>8. CASE UNCHANGED status
    BY <2>8
  <2> QED
    BY <1>5, <2>1, <2>2, <2>3, <2>4, <2>5, <2>6, <2>7, <2>8
       DEF RunCycle, Failures, AcquireLock, ListEnabledMarketRules, SkipPausedRule,
           LoadMarketRuleTargetState, EstablishBaseline, EvaluateRule,
           KeepExistingAlert, RefuseTrigger, RefuseStageTrigger,
           UpdateMarketRuleState, LoadMarketDelivery, SendAccepted, SendRefused,
           CompleteNothing, FinishCycle, SendUnanswered, CompletionLost, Crash,
           LoseLock
<1> QED
  BY <1>1, <1>2, <1>3, <1>4, <1>5 DEF Next

OutboxMoves(a) == Outbox!FateMoves(a) /\ Outbox!ReachMoves(a)

(* An alert's move is a move of the abstract outbox, or none. *)
LEMMA AlertMoves ==
  ASSUME TypeOK, TypeOK', StageHasTrigger, WindowsLast, DeliveriesKnow, DigestsName,
         [Next]_vars, NEW a \in Alert, RuleOf(a) \in RealtimeRule \/ Peace
  PROVE  OutboxMoves(a)
<1>1. a \in Row /\ status[a] \in Status /\ status'[a] \in Status
  BY RowShape DEF TypeOK
<1>2. status[a] \in {"sent", "skipped"} => status'[a] = status[a]
  BY <1>1, SettledStep DEF Settled
<1>3. status[a] # "none" => status'[a] # "none"
  BY AlertsRemain
<1>4. status'[a] = "sent" /\ status[a] # "sent" => status[a] # "none" /\ Reported(a)
  BY SentWasCarried
<1>5. Outbox!FateMoves(a)
  BY <1>1, <1>2, <1>3, <1>4
     DEF Outbox!FateMoves, Outbox!Announced, Outbox!Delivered, Outbox!Dropped,
         FateOf, Status
<1>6. Outbox!ReachMoves(a)
  <2>1. Reported(a) => Reported(a)'
    BY ReportedRemains
  <2>2. Reported(a)' /\ ~Reported(a) => status[a] # "none"
    BY CarriedGrows DEF Reported
  <2>3. status[a] # "none" => FateOf(a) # "none"
    BY <1>1 DEF FateOf, Status
  <2>4. Reported(a) \in BOOLEAN /\ Reported(a)' \in BOOLEAN
    BY DEF Reported
  <2>5. Reported(a)' = Reported(a) \/ (Reported(a)' = TRUE /\ FateOf(a) # "none")
    BY <2>1, <2>2, <2>3, <2>4
  <2> QED
    BY <2>5 DEF Outbox!ReachMoves
<1> QED
  BY <1>5, <1>6 DEF OutboxMoves

(* What is shown of every alert is shown of the outbox. *)
LEMMA OutboxStep ==
  ASSUME TypeOK, TypeOK', \A a \in Alert : OutboxMoves(a)
  PROVE  Outbox!OutboxNext
<1>1. \A a \in Alert : FateOf(a) \in Outbox!Fate /\ FateOf(a)' \in Outbox!Fate
  BY RowShape DEF TypeOK, Status, FateOf, Outbox!Fate
<1>2. \A a \in Alert : Reported(a)' \in BOOLEAN
  BY DEF Reported
<1> QED
  BY <1>1, <1>2 DEF Outbox!OutboxNext, OutboxMoves

OutboxInv ==
  /\ TypeOK /\ StageHasTrigger /\ WindowsLast /\ Undisturbed /\ CyclesExclude
  /\ DeliveriesKnow /\ DigestsName

LEMMA OutboxInvCorrect == Spec => []OutboxInv
<1> DEFINE Base == TypeOK /\ StageHasTrigger /\ WindowsLast /\ CyclesExclude
<1>1. Init => Undisturbed /\ DeliveriesKnow /\ DigestsName
  <2> SUFFICES ASSUME Init PROVE Undisturbed /\ DeliveriesKnow /\ DigestsName
    OBVIOUS
  <2>1. Undisturbed
    BY DEF Init, Undisturbed
  <2>2. DeliveriesKnow
    BY DEF Init, DeliveriesKnow, DeliveryKnows, MembersHaveAlerts, CoveredExist
  <2>3. DigestsName
    BY DEF Init, DigestsName, NamesMembers
  <2> QED
    BY <2>1, <2>2, <2>3
<1>2. Base /\ Base' /\ Undisturbed /\ DeliveriesKnow /\ DigestsName /\ [Next]_vars
        => (Undisturbed /\ DeliveriesKnow /\ DigestsName)'
  BY UndisturbedStep, MembersHaveAlertsStep, CoveredExistStep, DeliveryKnowsStep,
     DigestsNameStep DEF DeliveriesKnow
<1>3. Base /\ Undisturbed /\ DeliveriesKnow /\ DigestsName => OutboxInv
  BY DEF OutboxInv
<1>4. Spec => []Base
  BY TypeCorrect, WindowsLastCorrect, CyclesExcludeCorrect, PTL
<1> QED
  BY <1>1, <1>2, <1>3, <1>4, PTL DEF Spec

(* Whatever fails, is retracted or paused, and however many workers there are,
   the alert of a realtime rule is announced once, its fate is sealed once, and
   it counts as delivered only when a message that names it has reached the chat.
   So does the alert of a staged rule as long as nothing was retracted, if there
   is one worker or no failure yet; only that its name may be missing from a
   digest that names as many others as it may. *)
THEOREM AlertsKeepTheOutbox ==
  Spec => [][\A a \in Alert : RuleOf(a) \in RealtimeRule \/ Peace'
               => OutboxMoves(a)]_vars
<1>1. OutboxInv /\ OutboxInv' /\ [Next]_vars
        => [\A a \in Alert : RuleOf(a) \in RealtimeRule \/ Peace'
              => OutboxMoves(a)]_vars
  <2> SUFFICES ASSUME OutboxInv, OutboxInv', [Next]_vars, NEW a \in Alert,
                      RuleOf(a) \in RealtimeRule \/ Peace'
               PROVE  OutboxMoves(a)
    OBVIOUS
  <2>1. Peace' => Peace
    BY CountersGrow DEF OutboxInv, Peace, NoRival
  <2> QED
    BY <2>1, AlertMoves DEF OutboxInv
<1> QED
  BY <1>1, OutboxInvCorrect, PTL DEF Spec

(* A pipeline of realtime rules implements the abstract outbox. *)
THEOREM RefinesOutboxCorrect == StagedRule = {} => (Spec => RefinesOutbox)
<1> SUFFICES ASSUME StagedRule = {} PROVE Spec => RefinesOutbox
  OBVIOUS
<1>1. Init => Outbox!OutboxInit
  <2> SUFFICES ASSUME Init PROVE Outbox!OutboxInit
    OBVIOUS
  <2>1. \A a \in Alert : FateOf(a) = "none" /\ Reported(a) = FALSE
    BY RowShape DEF Init, FateOf, Reported
  <2>2. /\ [a \in Alert |-> FateOf(a)] = [a \in Alert |-> "none"]
        /\ [a \in Alert |-> Reported(a)] = [a \in Alert |-> FALSE]
    BY <2>1
  <2> QED
    BY <2>2 DEF Outbox!OutboxInit
<1>2. OutboxInv /\ OutboxInv' /\ [Next]_vars
        => [Outbox!OutboxNext]_<<[a \in Alert |-> FateOf(a)],
                                 [a \in Alert |-> Reported(a)]>>
  <2> SUFFICES ASSUME OutboxInv, OutboxInv', [Next]_vars PROVE Outbox!OutboxNext
    OBVIOUS
  <2>1. \A a \in Alert : RuleOf(a) \in RealtimeRule
    BY RowShape DEF Rule
  <2> QED
    BY <2>1, AlertMoves, OutboxStep DEF OutboxInv
<1> QED
  BY <1>1, <1>2, OutboxInvCorrect, PTL DEF Spec, RefinesOutbox, Outbox!OutboxSpec

(* So does a pipeline with staged rules, until something is retracted, if one
   server runs or nothing has failed yet; a digest reports the members it has no
   room to name. *)
THEOREM DigestsRefineOutboxCorrect == Spec => DigestsRefineOutbox
<1>1. OutboxInv /\ OutboxInv' /\ [Next]_vars
        => [reorgs' = 0 /\ NoRival' => Outbox!OutboxNext]_vars
  <2> SUFFICES ASSUME OutboxInv, OutboxInv', [Next]_vars, reorgs' = 0, NoRival'
               PROVE  Outbox!OutboxNext
    OBVIOUS
  <2>1. Peace
    BY CountersGrow DEF OutboxInv, Peace, NoRival
  <2> QED
    BY <2>1, AlertMoves, OutboxStep DEF OutboxInv
<1> QED
  BY <1>1, OutboxInvCorrect, PTL DEF Spec, DigestsRefineOutbox
=============================================================================
