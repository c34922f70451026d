----------------------------- MODULE DailySummary -----------------------------
(* The daily summary of one subscription: internal/summary/executor.go sends it   *)
(* under an advisory lock, target by target, while the user saves other settings *)
(* or removes a group, and while a second process of the service does the same.  *)
EXTENDS Integers, FiniteSets, Sequences

CONSTANTS
  Executor,    \* processes that run the summary worker
  Group,       \* DeBox groups of the user
  GroupLimit,  \* plan.GroupLimit
  Parts,       \* parts of a day
  NumDays,     \* bound: days
  MaxEvents,   \* bound: settings forms, crashes, lost locks, unanswered sends
  Nobody       \* the lock's value when it is free

VARIABLES
  now,         \* the user's local clock, in parts of a day
  sub,         \* the subscription's columns for the summary
  targets,     \* daily_summary_targets
  deliveries,  \* daily_summary_deliveries: <<period end, target>>
  bound,       \* notification_groups with enabled = 1
  refusing,    \* groups that do not accept the bot's messages
  lock,        \* pg_try_advisory_lock of the subscription
  worker,      \* each process's place in processLocked, and its local values
  form,        \* a SaveSummarySettings request that has been validated
  saves, faults,  \* bounds
  sent,        \* history: the period ends each target got a message for
  audience     \* history: the targets listed by whoever closed the last period

summaryVars == <<now, sub, targets, deliveries, bound, refusing, lock, worker,
                 form, saves, faults, sent, audience>>

-----------------------------------------------------------------------------
(* A day begins before its push times; each of its other parts is one. *)
PushTime == 1..Parts - 1
Private == "private"
Target == {Private} \cup Group
LocalDate(t) == t \div Parts
Never == 0

Offline == [pc |-> "idle", end |-> Never, at |-> Private, listed |-> {}, pending |-> {}]
Moved(e, pc) == worker' = [worker EXCEPT ![e].pc = pc]

(* summaryDue: the period's end is today's push time. *)
PeriodEnd(push) == Parts * LocalDate(now) + push
Due == sub.lastDate # LocalDate(now) /\ now >= PeriodEnd(sub.push)
Scheduled == sub.active /\ sub.enabled

Release(e) ==
  /\ lock' = IF lock = e THEN Nobody ELSE lock
  /\ worker' = [worker EXCEPT ![e] = Offline]

settings == <<sub, targets, bound, form, saves>>
outside  == <<now, refusing>>

-----------------------------------------------------------------------------
(* SendDue and processCandidate. *)
ListDueScheduledSubscriptions(e) ==
  /\ worker[e].pc = "idle"
  /\ Scheduled
  /\ Moved(e, "lock")
  /\ UNCHANGED <<settings, outside, deliveries, lock, faults, sent, audience>>

(* Variant: whoever asks gets the lock. *)
Unlocked == TRUE
LockFree == lock = Nobody
TryScheduledSummaryLock(e) ==
  /\ worker[e].pc = "lock"
  /\ IF LockFree THEN lock' = e /\ Moved(e, "read")
                 ELSE UNCHANGED lock /\ Moved(e, "idle")
  /\ UNCHANGED <<settings, outside, deliveries, faults, sent, audience>>

(* processLocked reads the subscription again under the lock. *)
GetScheduledSubscription(e) ==
  /\ worker[e].pc = "read"
  /\ IF Scheduled /\ Due
     THEN /\ worker' = [worker EXCEPT ![e].pc = "targets", ![e].end = PeriodEnd(sub.push)]
          /\ UNCHANGED lock
     ELSE Release(e)
  /\ UNCHANGED <<settings, outside, deliveries, faults, sent, audience>>

ListDailySummaryTargets(e) ==
  /\ worker[e].pc = "targets"
  /\ IF targets = {} THEN Release(e)
     ELSE Moved(e, "pending") /\ UNCHANGED lock
  /\ UNCHANGED <<settings, outside, deliveries, faults, sent, audience>>

(* Variant: deliveries of other periods count. *)
NeverDelivered(end) == {t \in targets : \A d \in deliveries : d[2] # t}
Undelivered(end) == {t \in targets : <<end, t>> \notin deliveries}
ListPendingDailySummaryTargets(e) ==
  /\ worker[e].pc = "pending"
  /\ worker' = [worker EXCEPT ![e].pc = "send", ![e].pending = Undelivered(worker[e].end),
                              ![e].listed = targets]
  /\ UNCHANGED <<settings, outside, deliveries, lock, faults, sent, audience>>

(* Variant: groups before the private chat. *)
GroupsFirst(S) == IF S \cap Group # {} THEN S \cap Group ELSE S
(* ORDER BY: the private chat first, then the groups. *)
NextTargets(S) == IF Private \in S THEN {Private} ELSE S

(* SendNotification: delivered; refused, which ends the cycle for this
   subscription; or delivered and not answered. *)
Deliver(t, e) == sent' = [sent EXCEPT ![t] = Append(@, worker[e].end)]
SendNotification(e) ==
  /\ worker[e].pc = "send"
  /\ \E t \in NextTargets(worker[e].pending) :
     \/ /\ t \notin refusing
        /\ Deliver(t, e)
        /\ worker' = [worker EXCEPT ![e].pc = "mark", ![e].at = t]
        /\ UNCHANGED <<lock, faults>>
     \/ /\ t \in refusing
        /\ Release(e)
        /\ UNCHANGED <<faults, sent>>
     \/ /\ saves + faults < MaxEvents
        /\ faults' = faults + 1
        /\ Deliver(t, e)
        /\ Release(e)
  /\ UNCHANGED <<settings, outside, deliveries, audience>>

MarkDailySummaryTargetSent(e) ==
  /\ worker[e].pc = "mark"
  /\ deliveries' = deliveries \cup {<<worker[e].end, worker[e].at>>}
  /\ worker' = [worker EXCEPT ![e].pc = "send", ![e].pending = @ \ {worker[e].at}]
  /\ UNCHANGED <<settings, outside, lock, faults, sent, audience>>

(* MarkScheduledPushSent writes the row whatever has become of it. *)
MarkScheduledPushSent(e) ==
  /\ worker[e].pc = "send" /\ worker[e].pending = {}
  /\ sub' = [sub EXCEPT !.lastDate = LocalDate(worker[e].end), !.lastEnd = worker[e].end]
  /\ audience' = worker[e].listed
  /\ Release(e)
  /\ UNCHANGED <<outside, targets, bound, form, saves, deliveries, faults, sent>>

ExecutorStep(e) ==
  \/ ListDueScheduledSubscriptions(e) \/ TryScheduledSummaryLock(e)
  \/ GetScheduledSubscription(e)
  \/ ListDailySummaryTargets(e) \/ ListPendingDailySummaryTargets(e)
  \/ SendNotification(e) \/ MarkDailySummaryTargetSent(e) \/ MarkScheduledPushSent(e)

-----------------------------------------------------------------------------
(* A process dies, and its session's lock with it; or the session is cut while
   the process goes on. *)
Crash(e) ==
  /\ worker[e].pc # "idle" /\ saves + faults < MaxEvents
  /\ faults' = faults + 1
  /\ Release(e)
  /\ UNCHANGED <<settings, outside, deliveries, sent, audience>>
LoseLock ==
  /\ lock # Nobody /\ saves + faults < MaxEvents
  /\ faults' = faults + 1
  /\ lock' = Nobody
  /\ UNCHANGED <<settings, outside, deliveries, worker, sent, audience>>

-----------------------------------------------------------------------------
(* The user's requests. *)
NoForm == [targets |-> {}, enabled |-> FALSE, push |-> 1]

(* SaveSummarySettings checks the form against the groups bound now ... *)
ValidateSettings ==
  /\ form = NoForm /\ saves + faults < MaxEvents
  /\ sub.active
  /\ \E chosen \in SUBSET ({Private} \cup bound), enabled \in BOOLEAN, push \in PushTime :
     /\ chosen # {}
     /\ Cardinality(chosen \cap Group) <= GroupLimit
     /\ form' = [targets |-> chosen, enabled |-> enabled, push |-> push]
  /\ saves' = saves + 1
  /\ UNCHANGED <<now, sub, targets, deliveries, bound, refusing, lock, worker,
                 faults, sent, audience>>

(* ... and UpdateDailySummarySettings writes it, without the lock. *)
UpdateDailySummarySettings ==
  /\ form # NoForm
  /\ IF sub.active
     THEN /\ sub' = [sub EXCEPT !.enabled = form.enabled, !.push = form.push]
          /\ targets' = form.targets
     ELSE UNCHANGED <<sub, targets>>     \* ErrNotFound
  /\ form' = NoForm
  /\ UNCHANGED <<now, deliveries, bound, refusing, lock, worker, saves,
                 faults, sent, audience>>

CreateNotificationGroup(g) ==
  /\ g \notin bound /\ sub.active /\ Cardinality(bound) < GroupLimit
  /\ bound' = bound \cup {g}
  /\ UNCHANGED <<now, sub, targets, deliveries, refusing, lock, worker, form,
                 saves, faults, sent, audience>>

(* DeleteNotificationGroup: one transaction, which waits for the summary's lock
   if the group is one of its targets. *)
DeleteNotificationGroup(g) ==
  /\ g \in bound
  /\ sub.active /\ g \in targets => LockFree
  /\ bound' = bound \ {g}
  /\ targets' = targets \ {g}
  /\ sub' = IF sub.active /\ g \in targets /\ targets' = {}
            THEN [sub EXCEPT !.enabled = FALSE] ELSE sub
  /\ UNCHANGED <<now, deliveries, refusing, lock, worker, form, saves,
                 faults, sent, audience>>

(* ExpireSubscriptions clears the row's summary, its targets and deliveries. *)
NewRow == [active |-> TRUE, enabled |-> FALSE, push |-> 1,
           lastDate |-> Never, lastEnd |-> Never]
Expire ==
  /\ sub.active
  /\ sub' = [NewRow EXCEPT !.active = FALSE]
  /\ targets' = {} /\ deliveries' = {}
  /\ UNCHANGED <<now, bound, refusing, lock, worker, form, saves, faults, sent,
                 audience>>

Tick ==
  /\ now < Parts * NumDays + Parts - 1
  /\ now' = now + 1
  /\ UNCHANGED <<settings, refusing, deliveries, lock, worker, faults, sent, audience>>
(* A group removes the bot, or lets it in again. *)
Refuse(g) ==
  /\ refusing' = IF g \in refusing THEN refusing \ {g} ELSE refusing \cup {g}
  /\ UNCHANGED <<now, settings, deliveries, lock, worker, faults, sent, audience>>

-----------------------------------------------------------------------------
(* A summary that is switched on for the private chat and every bound group. *)
Init ==
  /\ now = Parts
  /\ bound = Group
  /\ targets = Target
  /\ sub = [NewRow EXCEPT !.enabled = TRUE]
  /\ deliveries = {} /\ refusing = {}
  /\ lock = Nobody
  /\ worker = [e \in Executor |-> Offline]
  /\ form = NoForm
  /\ saves = 0 /\ faults = 0
  /\ sent = [t \in Target |-> <<>>]
  /\ audience = {}

Next ==
  \/ \E e \in Executor : ExecutorStep(e) \/ Crash(e)
  \/ LoseLock
  \/ ValidateSettings \/ UpdateDailySummarySettings
  \/ \E g \in Group : CreateNotificationGroup(g) \/ DeleteNotificationGroup(g) \/ Refuse(g)
  \/ Expire \/ Tick

(* The runner's loop goes on; time, users and groups do as they please. *)
Fairness == \A e \in Executor : WF_summaryVars(ExecutorStep(e))
Spec == Init /\ [][Next]_summaryVars
FairSpec == Spec /\ Fairness

-----------------------------------------------------------------------------
(* Without faults no chat gets two messages for one period, whatever was refused
   or saved in between and however many processes run. *)
Times(t, end) == Cardinality({i \in DOMAIN sent[t] : sent[t][i] = end})
OneSummaryPerPeriod ==
  faults = 0 => \A t \in Target : \A i \in DOMAIN sent[t] : Times(t, sent[t][i]) = 1

(* A period is closed after every target it was listed with has got it: what was
   refused or cut short is sent before the next period begins where it ended. *)
ClosedPeriodsWereSent ==
  sub.lastEnd # Never => \A t \in audience : Times(t, sub.lastEnd) > 0

(* A group that refuses the summary does not keep it from the private chat: what
   is due is sent, or the day, the settings or the plan end. *)
PrivateWaits ==
  /\ Scheduled /\ Due
  /\ Private \in targets /\ <<PeriodEnd(sub.push), Private>> \notin deliveries
PrivateChatIsServed == []<>~PrivateWaits
=============================================================================
