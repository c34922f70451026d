------------------------- MODULE WebhookRegistration -------------------------
(* The transfer webhook of one chain, as Nodit has it and as the database        *)
(* records it.  Two tasks align them under different locks: the sync            *)
(* (internal/marketcollector/webhook_sync.go) sends the tokens of the active    *)
(* projects, the health check (health.go) repairs what has drifted from the     *)
(* recorded row.  Each calls Nodit between reading the row and writing it, and  *)
(* writes whole rows back.  The signing key and the public URL are configured.  *)
EXTENDS Integers, FiniteSets

CONSTANTS
  Token,        \* tokens the users' projects watch
  Bootstrap,    \* the tokens the webhook was provisioned with
  MaxProjects,  \* bound: changes of the active projects
  MaxDrifts,    \* bound: changes of the webhook at Nodit by others
  MaxOutages    \* bound: failed calls and crashes

VARIABLES
  wanted,       \* tokens of the active projects
  row,          \* nodit_webhook_subscriptions
  remote,       \* external: the webhook at Nodit
  sync, check,  \* the two tasks: their place and what they have read
  projectChanges, drifts, outages  \* bounds

webhookVars == <<wanted, row, remote, sync, check, projectChanges, drifts, outages>>
bounds == <<projectChanges, drifts, outages>>

-----------------------------------------------------------------------------
Configured == [tokens |-> Bootstrap, url |-> "ours", status |-> "active"]
Provisioned == [exists |-> TRUE, active |-> TRUE, url |-> "ours", tokens |-> Bootstrap]
SyncIdle  == [pc |-> "idle", tokens |-> {}, row |-> Configured]
CheckIdle == [pc |-> "idle", row |-> Configured, seen |-> Provisioned, verdict |-> "active"]

(* UpdateWebhook: Nodit refuses it for a webhook it does not have. *)
Patched(patch) == IF remote.exists THEN patch ELSE remote

-----------------------------------------------------------------------------
(* SyncWebhookSubscriptions.  Nodit takes no empty condition: without a project
   the webhook keeps the tokens it has. *)
SyncListsProjects ==
  /\ sync.pc = "idle" /\ wanted # {}
  /\ sync' = [sync EXCEPT !.pc = "read", !.tokens = wanted]
  /\ UNCHANGED <<wanted, row, remote, check, bounds>>

SyncReadsRow ==
  /\ sync.pc = "read"
  /\ sync' = IF row.tokens = sync.tokens THEN SyncIdle
             ELSE [sync EXCEPT !.pc = "update", !.row = row]
  /\ UNCHANGED <<wanted, row, remote, check, bounds>>

SyncUpdates ==
  /\ sync.pc = "update"
  /\ remote' = Patched([remote EXCEPT !.tokens = sync.tokens])
  /\ sync' = IF remote.exists THEN [sync EXCEPT !.pc = "save"] ELSE SyncIdle
  /\ UNCHANGED <<wanted, row, check, bounds>>

SyncSaves ==
  /\ sync.pc = "save"
  /\ row' = [sync.row EXCEPT !.tokens = sync.tokens, !.status = "active"]
  /\ sync' = SyncIdle
  /\ UNCHANGED <<wanted, remote, check, bounds>>

(* A call fails or the process ends; an update may have reached Nodit. *)
SyncFails ==
  /\ sync.pc # "idle" /\ outages < MaxOutages
  /\ outages' = outages + 1
  /\ sync' = SyncIdle
  /\ remote' \in {remote} \cup
       (IF sync.pc = "update" THEN {Patched([remote EXCEPT !.tokens = sync.tokens])} ELSE {})
  /\ UNCHANGED <<wanted, row, check, projectChanges, drifts>>

-----------------------------------------------------------------------------
(* checkWebhookStatus *)
CheckListsRows ==
  /\ check.pc = "idle" /\ wanted # {}
  /\ check' = [check EXCEPT !.pc = "list", !.row = row]
  /\ UNCHANGED <<wanted, row, remote, sync, bounds>>

Inactive(c)       == ~c.seen.active
CallbackDrift(c)  == c.row.url # c.seen.url
ConditionDrift(c) == c.row.tokens # c.seen.tokens
Drifted(c) == Inactive(c) \/ CallbackDrift(c) \/ ConditionDrift(c)

(* ListWebhooks *)
CheckListsWebhooks ==
  /\ check.pc = "list"
  /\ LET c == [check EXCEPT !.seen = remote] IN
     check' = CASE ~remote.exists -> [c EXCEPT !.pc = "mark", !.verdict = "error"]
                [] remote.exists /\ Drifted(c) -> [c EXCEPT !.pc = "repair"]
                [] OTHER -> [c EXCEPT !.pc = "mark", !.verdict = "active"]
  /\ UNCHANGED <<wanted, row, remote, sync, bounds>>

(* Variant: only a drifted callback or an inactive webhook is repaired. *)
NoCondition(r, c) == r
(* The condition of the row goes along with every repair, drifted or not. *)
RepairCondition(r, c) == [r EXCEPT !.tokens = c.row.tokens]
Repaired(c) ==
  Patched(RepairCondition([remote EXCEPT !.active = @ \/ Inactive(c),
                                         !.url = IF CallbackDrift(c) THEN "ours" ELSE @], c))
FailedVerdict(c) == IF Inactive(c) THEN "paused" ELSE "error"

(* repairWebhook *)
CheckRepairs ==
  /\ check.pc = "repair"
  /\ remote' = Repaired(check)
  /\ check' = CASE ~remote.exists -> [check EXCEPT !.pc = "mark", !.verdict = FailedVerdict(check)]
                [] remote.exists /\ CallbackDrift(check) -> [check EXCEPT !.pc = "save"]
                [] OTHER -> [check EXCEPT !.pc = "mark", !.verdict = "active"]
  /\ UNCHANGED <<wanted, row, sync, bounds>>
CheckSaves ==
  /\ check.pc = "save"
  /\ row' = [check.row EXCEPT !.url = "ours", !.status = "active"]
  /\ check' = [check EXCEPT !.pc = "mark", !.verdict = "active"]
  /\ UNCHANGED <<wanted, remote, sync, bounds>>
(* UpdateNoditWebhookSubscriptionCheck *)
CheckMarks ==
  /\ check.pc = "mark"
  /\ row' = [row EXCEPT !.status = check.verdict]
  /\ check' = CheckIdle
  /\ UNCHANGED <<wanted, remote, sync, bounds>>

(* A repair that fails is marked, any other failed call and a crash end the check. *)
RepairFails ==
  /\ check.pc \in {"repair", "save"} /\ outages < MaxOutages
  /\ outages' = outages + 1
  /\ check' = [check EXCEPT !.pc = "mark", !.verdict = FailedVerdict(check)]
  /\ remote' \in {remote} \cup (IF check.pc = "repair" THEN {Repaired(check)} ELSE {})
  /\ UNCHANGED <<wanted, row, sync, projectChanges, drifts>>
CheckFails ==
  /\ check.pc # "idle" /\ outages < MaxOutages
  /\ outages' = outages + 1
  /\ check' = CheckIdle
  /\ UNCHANGED <<wanted, row, remote, sync, projectChanges, drifts>>

-----------------------------------------------------------------------------
(* Users, and whoever changes the webhook at Nodit: Nodit pauses it, an operator
   points it elsewhere, edits its tokens or deletes it. *)
ProjectsChange ==
  /\ projectChanges < MaxProjects
  /\ projectChanges' = projectChanges + 1
  /\ wanted' \in SUBSET Token \ {wanted}
  /\ UNCHANGED <<row, remote, sync, check, drifts, outages>>
RemoteDrifts ==
  /\ drifts < MaxDrifts /\ remote.exists
  /\ drifts' = drifts + 1
  /\ remote' \in {[remote EXCEPT !.active = FALSE], [remote EXCEPT !.url = "other"],
                  [remote EXCEPT !.tokens = Bootstrap], [remote EXCEPT !.exists = FALSE]}
  /\ UNCHANGED <<wanted, row, sync, check, projectChanges, outages>>

Init ==
  /\ wanted = {} /\ row = Configured /\ remote = Provisioned
  /\ sync = SyncIdle /\ check = CheckIdle
  /\ projectChanges = 0 /\ drifts = 0 /\ outages = 0

SyncStep  == SyncListsProjects \/ SyncReadsRow \/ SyncUpdates \/ SyncSaves
CheckStep == CheckListsRows \/ CheckListsWebhooks \/ CheckRepairs \/ CheckSaves \/ CheckMarks
Next ==
  \/ SyncStep \/ SyncFails
  \/ CheckStep \/ RepairFails \/ CheckFails
  \/ ProjectsChange \/ RemoteDrifts

(* Both tasks run periodically for as long as the service is up. *)
FairSpec == Init /\ [][Next]_webhookVars /\ WF_webhookVars(SyncStep) /\ WF_webhookVars(CheckStep)

-----------------------------------------------------------------------------
(* Where the two tasks arrive once projects and failures come to rest: Nodit's
   webhook is active, calls this service and carries the tokens of the projects,
   or it is gone and recorded as an error.  Whatever rows and conditions the two
   had written over each other's, neither undoes the other's work for ever. *)
Aligned ==
  IF remote.exists
  THEN remote.active /\ remote.url = "ours" /\ remote.tokens = wanted /\ row.status = "active"
  ELSE row.status = "error"
=============================================================================
