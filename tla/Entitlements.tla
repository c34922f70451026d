---------------------------- MODULE Entitlements ---------------------------
(***************************************************************************)
(* What one user may run: subscriptions, the permanent plan of a wallet,   *)
(* the quotas of the plan in force, and the two fallbacks that pause what  *)
(* an expired plan leaves running (internal/store/subscriptions.go,        *)
(* entitlements.go, entitlement_reconcile.go, rules.go, combinations.go,   *)
(* market_projects.go, market_rules.go and internal/subscription).         *)
(*                                                                         *)
(* A request reads the plan in force in a statement of its own and then    *)
(* runs one transaction, under the advisory lock of the user, that checks  *)
(* the plan is still that one.  A store transaction is one step here: what *)
(* other users of the lock do comes before or after it, and the statements *)
(* that take no lock (deletions and archiving) commute with its reads.     *)
(* The exception is the safety net, whose transaction takes rows of        *)
(* `subscriptions' before the user's lock, the others after: it is two     *)
(* steps, with the deadlock PostgreSQL resolves between them.              *)
(*                                                                         *)
(* An operator marked `Variant' is a wrong form of the one after it, used  *)
(* only to confirm that the properties notice the mistake.                 *)
(***************************************************************************)
EXTENDS Integers, FiniteSets, Sequences

CONSTANTS
  WatchRules, MemberRules, Combos,       \* watch_rules (standalone, members), combination_rules
  Projects, MarketRules, MarketCombos,   \* market_projects, market_rules, market_combination_rules
  Members,       \* Members[c]: member rules of combination c
  Parts,         \* Parts[x]: the watch and market rules market combination x joins
  ProjectOf,     \* project of a market rule
  Tier,          \* least plan whose policy allows the item's type, target and delivery
  Wallet,        \* wallet of a watch rule
  CreationOrder, \* the items a user creates, in the order their rows are made
  RuleLimit, WalletLimit, ProjectLimit,  \* quotas of a plan
  PermanentPlan, \* plan the allow list grants to a wallet
  Callers,       \* HTTP requests and bot updates in progress
  MaxCalls, MaxPeriods,                  \* bounds
  None

Plans == <<"free", "standard", "professional">>
Plan  == {"free", "standard", "professional"}
Items == WatchRules \cup MemberRules \cup Combos \cup Projects
           \cup MarketRules \cup MarketCombos

ASSUME EntitlementsAssumption ==
  /\ IsFiniteSet(Items) /\ None \notin Items
  \* the six kinds are rows of their own
  /\ Projects \cap (WatchRules \cup MemberRules \cup Combos) = {}
  /\ (MarketRules \cup MarketCombos)
       \cap (WatchRules \cup MemberRules \cup Combos \cup Projects) = {}
  /\ Combos \cap (WatchRules \cup MemberRules) = {}
  /\ WatchRules \cap MemberRules = {} /\ MarketRules \cap MarketCombos = {}
  /\ Members \in [Combos -> SUBSET MemberRules]
  /\ \A c, d \in Combos : c # d => Members[c] \cap Members[d] = {}
  /\ MemberRules = UNION {Members[c] : c \in Combos}
  /\ Parts \in [MarketCombos -> SUBSET (WatchRules \cup MarketRules)]
  /\ ProjectOf \in [MarketRules -> Projects]
  \* only single watch rules are free, combinations are professional
  /\ Tier \in [Items -> Plan]
  /\ \A r \in MarketRules : Tier[r] # "free"
  /\ \A q \in Projects : Tier[q] = "standard"
  /\ \A r \in Combos \cup MarketCombos : Tier[r] = "professional"
  /\ DOMAIN Wallet = WatchRules \cup MemberRules
  /\ CreationOrder \in Seq(Items)
  /\ RuleLimit \in [Plan -> Nat] /\ WalletLimit \in [Plan -> Nat]
  /\ ProjectLimit \in [Plan -> Nat] /\ ProjectLimit["free"] = 0
  /\ PermanentPlan \in Plan \ {"free"}
  /\ MaxCalls \in Nat /\ MaxPeriods \in Nat

VARIABLES
  run,       \* run[r]: "active", the reason it is paused, or not there
  paid,      \* the user's last bought subscription
  perm,      \* the permanent subscription of the user
  freeRule,  \* user_preferences.free_watch_rule_id
  call,      \* what each caller is doing
  net,       \* the safety net's transaction
  calls, periods   \* counters for the bounds

bounds == <<calls, periods>>
vars == <<run, paid, perm, freeRule, call, net, bounds>>

Paused == {"subscription_expired", "free_plan", "user_archived", "project_archived"}
Call == [op : {"idle", "create", "restore", "choose", "visit", "reconcile"},
         step : {"read", "run"}, item : Items \cup {None}, plan : Plan,
         attempt : 1 .. 2, keep : WatchRules \cup {None}]
NoCall == [op |-> "idle", step |-> "read", item |-> None, plan |-> "free",
           attempt |-> 1, keep |-> None]
NoNet == [step |-> "idle", keep |-> None, rows |-> FALSE]

TypeOK ==
  /\ run \in [Items -> {"new", "active", "gone"} \cup Paused]
  /\ paid \in [plan : Plan \ {"free"}, state : {"none", "running", "lapsed", "expired"}]
  /\ perm \in {"none", "active", "revoked"}
  /\ freeRule \in WatchRules \cup {None}
  /\ call \in [Callers -> Call]
  /\ net \in [step : {"idle", "listed"}, keep : WatchRules \cup {None}, rows : BOOLEAN]
  /\ calls \in 0 .. MaxCalls /\ periods \in 0 .. MaxPeriods

Init ==
  /\ run = [r \in Items |-> "new"]
  /\ paid = [plan |-> "standard", state |-> "none"]
  /\ perm = "none"
  /\ freeRule = None
  /\ call = [c \in Callers |-> NoCall]
  /\ net = NoNet
  /\ calls = 0 /\ periods = 0

-----------------------------------------------------------------------------
(* The plan in force *)

Rank(p) == CHOOSE i \in 1 .. 3 : Plans[i] = p

(* The subscriptions in force: a bought one until its time is over, whether or
   not it was marked as expired yet, and a permanent one. *)
InForce == (IF paid.state = "running" THEN {paid.plan} ELSE {})
             \cup (IF perm = "active" THEN {PermanentPlan} ELSE {})

effectivePlanCode ==
  IF InForce = {} THEN "free"
  ELSE CHOOSE p \in InForce : \A q \in InForce : Rank(q) <= Rank(p)

Allows(p, r) == Rank(Tier[r]) <= Rank(p)

(* Rows of `subscriptions' other than the free plan's: bought ones stay. *)
PaidHistory    == paid.state # "none"
AnyPaidHistory == PaidHistory \/ perm # "none"

expireSubscriptions ==
  paid' = [paid EXCEPT !.state = IF @ = "lapsed" THEN "expired" ELSE @]

-----------------------------------------------------------------------------
(* Quotas; s stands for the value of run *)

Exists(s, r) == s[r] \notin {"new", "gone"}
Running(s, S) == {r \in S : s[r] = "active"}

countActiveRuleSlots(s) == Cardinality(Running(s, Items \ Projects))

MembersOf(r) == IF r \in Combos THEN Members[r] ELSE {}
SlotCost(r) == 1 + Cardinality(MembersOf(r))

FitsSlots(s, r, p) == countActiveRuleSlots(s) + SlotCost(r) <= RuleLimit[p]

ActiveWallets(s) == {Wallet[w] : w \in Running(s, WatchRules \cup MemberRules)}

(* A rule on a wallet that is watched already takes no quota. *)
FitsWallet(s, w, p) ==
  \/ Wallet[w] \in ActiveWallets(s)
  \/ Cardinality(ActiveWallets(s)) < WalletLimit[p]

requireCombinationWalletQuota(s, d, p) ==
  Cardinality(ActiveWallets(s) \cup {Wallet[m] : m \in Members[d]}) <= WalletLimit[p]

FitsWatchRule(s, w, p) == Allows(p, w) /\ FitsSlots(s, w, p) /\ FitsWallet(s, w, p)

requireRestoredCombinationQuota(s, d, p) ==
  FitsSlots(s, d, p) /\ requireCombinationWalletQuota(s, d, p)

FitsMarketRule(s, r, p) == Allows(p, r) /\ FitsSlots(s, r, p)

(* The members that are left. *)
listMarketCombinationMembers(s, x) == {r \in Parts[x] : Exists(s, r)}

validateMarketCombinationMember(s, r, p) == s[r] = "active" /\ Allows(p, r)

FitsMarketCombination(s, x, p) ==
  LET left == listMarketCombinationMembers(s, x)
  IN /\ Allows(p, x) /\ Cardinality(left) >= 2
     /\ \A r \in left : validateMarketCombinationMember(s, r, p)
     /\ FitsSlots(s, x, p)

(* Archived projects leave the quota; paused ones do not. *)
FitsProject(s, r, p) ==
  Cardinality({q \in Projects \ {r} : Exists(s, q) /\ s[q] # "user_archived"})
    < ProjectLimit[p]

-----------------------------------------------------------------------------
(* What starts and stops; each operator is the value of run afterwards *)

Started(s, r) ==
  [x \in Items |-> IF x \in {r} \cup MembersOf(r) THEN "active" ELSE s[x]]

(* Everything the user runs, but for the rule that is kept. *)
pauseExpiredUserResources(s, keep) ==
  [x \in Items |-> IF s[x] = "active" /\ x # keep THEN "subscription_expired" ELSE s[x]]

(* Variant: combinations go on. *)
setFreeWatchRuleOnly(s, w) ==
  [x \in Items |->
     CASE x = w -> "active"
       [] x \in (WatchRules \cup MemberRules) \ {w} /\ Exists(s, x) -> "free_plan"
       [] OTHER -> s[x]]

(* The chosen rule runs, every other watch rule is paused, even one that was
   paused for another reason. *)
setFreeWatchRule(s, w) ==
  [x \in Items |->
     CASE x = w -> "active"
       [] x \in (WatchRules \cup MemberRules) \ {w} /\ Exists(s, x) -> "free_plan"
       [] x \in Combos /\ s[x] = "active" -> "free_plan"
       [] OTHER -> s[x]]

(* ReconcileUserEntitlements runs again what an expiry or the choice of a free
   rule has paused; what a user stopped stays. *)
ByExpiry == {"subscription_expired"}

ReviveProject(s, r, p) ==
  /\ r \in Projects /\ s[r] \in ByExpiry
  /\ Cardinality(Running(s, Projects)) < ProjectLimit[p]

ReviveWatchRule(s, r, p) ==
  /\ r \in WatchRules /\ s[r] \in ByExpiry \cup {"free_plan"}
  /\ FitsWatchRule(s, r, p)

ReviveCombination(s, r, p) ==
  /\ r \in Combos /\ s[r] \in ByExpiry \cup {"free_plan"}
  /\ Allows(p, r) /\ requireRestoredCombinationQuota(s, r, p)

(* Variant: whatever paused it, a rule of a running project comes back. *)
ReviveAnyMarketRule(s, r, p) ==
  /\ r \in MarketRules /\ s[r] \in Paused /\ s[ProjectOf[r]] = "active"
  /\ FitsMarketRule(s, r, p)

ReviveMarketRule(s, r, p) ==
  /\ r \in MarketRules /\ s[r] \in ByExpiry /\ s[ProjectOf[r]] = "active"
  /\ FitsMarketRule(s, r, p)

ReviveMarketCombination(s, r, p) ==
  /\ r \in MarketCombos /\ s[r] \in ByExpiry
  /\ Allows(p, r) /\ FitsSlots(s, r, p)
  /\ LET left == listMarketCombinationMembers(s, r)
     IN Cardinality(left) >= 2 /\ \A m \in left : s[m] = "active"

MayRevive(s, r, p) ==
  \/ ReviveProject(s, r, p) \/ ReviveWatchRule(s, r, p) \/ ReviveCombination(s, r, p)
  \/ ReviveMarketRule(s, r, p) \/ ReviveMarketCombination(s, r, p)

(* The items of one kind, the oldest first, as far as they fit. *)
Revive(s, kind, p) ==
  LET after[i \in 0 .. Len(CreationOrder)] ==
        IF i = 0 THEN s
        ELSE IF CreationOrder[i] \in kind /\ MayRevive(after[i - 1], CreationOrder[i], p)
             THEN Started(after[i - 1], CreationOrder[i]) ELSE after[i - 1]
  IN after[Len(CreationOrder)]

ReconcileUserEntitlements(s, p) ==
  IF p = "free" THEN s
  ELSE LET watching == Revive(Revive(Revive(s, Projects, p), WatchRules, p), Combos, p)
       IN Revive(Revive(watching, MarketRules, p), MarketCombos, p)

-----------------------------------------------------------------------------
(* Requests (internal/subscription/service.go, market.go) *)

Begin(c, op, r) ==
  /\ call[c].op = "idle"
  /\ call' = [call EXCEPT ![c] = [NoCall EXCEPT !.op = op, !.item = r]]
  /\ IF op = "create" THEN UNCHANGED calls \* bounded by the items
     ELSE calls < MaxCalls /\ calls' = calls + 1
  /\ UNCHANGED <<run, paid, perm, freeRule, net, periods>>

RequestCreate(c, kind) ==
  \E r \in kind :
    /\ run[r] = "new"
    /\ \A i \in 1 .. Len(CreationOrder) : \* rows are made in this order
         CreationOrder[i] = r => \A j \in 1 .. i - 1 : run[CreationOrder[j]] # "new"
    /\ Begin(c, "create", r)

RequestRestore(c, kind) ==
  \E r \in kind : Exists(run, r) /\ run[r] # "active" /\ Begin(c, "restore", r)

CreateWatchRule(c)         == RequestCreate(c, WatchRules)
CreateCombinationRule(c)   == RequestCreate(c, Combos)
CreateMarketProject(c)     == RequestCreate(c, Projects)
CreateMarketRule(c)        == RequestCreate(c, MarketRules)
CreateMarketCombination(c) == RequestCreate(c, MarketCombos)
RestorePausedWatchRule(c)   == RequestRestore(c, WatchRules)
RestoreCombinationRule(c)   == RequestRestore(c, Combos)
RestoreMarketProject(c)     == RequestRestore(c, Projects)
RestoreMarketRule(c)        == RequestRestore(c, MarketRules)
RestoreMarketCombination(c) == RequestRestore(c, MarketCombos)

ChooseFreeWatchRule(c) == \E w \in WatchRules : Exists(run, w) /\ Begin(c, "choose", w)

(* The page or the bot asks what the user has. *)
Entitlement(c) == Begin(c, "visit", None)

(* ActivePlan, or GetUserPreferences for a visit: a statement of its own.  On
   the free plan a watch rule is not restored but chosen; a choice under
   another plan is refused. *)
ReadBefore(c) ==
  /\ call[c].op # "idle" /\ call[c].step = "read"
  /\ LET chosen == /\ call[c].op = "restore" /\ call[c].item \in WatchRules
                   /\ effectivePlanCode = "free"
     IN call' = [call EXCEPT ![c] =
          IF call[c].op = "visit" THEN [@ EXCEPT !.step = "run", !.keep = freeRule]
          ELSE IF chosen THEN [NoCall EXCEPT !.op = "choose", !.item = call[c].item]
          ELSE IF @.op = "choose" /\ effectivePlanCode # "free" THEN NoCall
          ELSE [@ EXCEPT !.step = "run", !.plan = effectivePlanCode]]
  /\ UNCHANGED <<run, paid, perm, freeRule, net, bounds>>

Ready(c, op) == call[c].op = op /\ call[c].step = "run"

(* Variant: the quota of the plan that was read is applied as it is. *)
TrustPlan(c) == TRUE

(* Under the lock the plan is still the one that was read. *)
requirePolicyPlan(c) == call[c].plan = effectivePlanCode

(* ErrSubscriptionChanged: a second and last attempt, with the plan read anew. *)
PlanChanged(c) ==
  /\ call[c].step = "run" /\ call[c].op \in {"create", "restore", "choose", "reconcile"}
  /\ ~requirePolicyPlan(c)
  /\ call' = [call EXCEPT ![c] =
       IF @.attempt = 1 /\ @.op # "reconcile"
       THEN [@ EXCEPT !.attempt = 2, !.step = "read"] ELSE NoCall]
  /\ UNCHANGED <<run, paid, perm, freeRule, net, bounds>>

Done(c) == call' = [call EXCEPT ![c] = NoCall]
ThenVisit(c) == call' = [call EXCEPT ![c] = [NoCall EXCEPT !.op = "visit"]]
ThenReconcile(c) == call' = [call EXCEPT ![c] = [NoCall EXCEPT !.op = "reconcile"]]

Commits(c, op, kind) ==
  Ready(c, op) /\ requirePolicyPlan(c) /\ call[c].item \in kind

Start(r) == run' = Started(run, r)

(* A new item: its row did not exist. *)
Creates(c, kind) == Commits(c, "create", kind) /\ run[call[c].item] = "new"

(* On the free plan a new rule is the chosen one at once. *)
CreateWatchRuleWithinQuota(c) ==
  LET w == call[c].item
  IN /\ Creates(c, WatchRules) /\ FitsWatchRule(run, w, call[c].plan)
     /\ IF call[c].plan = "free"
        THEN run' = setFreeWatchRule(Started(run, w), w) /\ freeRule' = w
        ELSE Start(w) /\ UNCHANGED freeRule

CreateCombinationRuleWithinQuota(c) ==
  LET d == call[c].item
      p == call[c].plan
  IN /\ Creates(c, Combos) /\ Allows(p, d)
     /\ FitsSlots(run, d, p) /\ requireCombinationWalletQuota(run, d, p)
     /\ Start(d) /\ UNCHANGED freeRule

CreateMarketProjectWithinQuota(c) ==
  LET q == call[c].item
  IN /\ Creates(c, Projects) /\ FitsProject(run, q, call[c].plan)
     /\ Start(q) /\ UNCHANGED freeRule

(* The project must not be archived; it may be paused. *)
CreateMarketRuleWithinQuota(c) ==
  LET r == call[c].item
  IN /\ Creates(c, MarketRules) /\ FitsMarketRule(run, r, call[c].plan)
     /\ Exists(run, ProjectOf[r]) /\ run[ProjectOf[r]] # "user_archived"
     /\ Start(r) /\ UNCHANGED freeRule

CreateMarketCombinationWithinQuota(c) ==
  LET x == call[c].item
  IN /\ Creates(c, MarketCombos) /\ Parts[x] = listMarketCombinationMembers(run, x)
     /\ FitsMarketCombination(run, x, call[c].plan)
     /\ Start(x) /\ UNCHANGED freeRule

Restores(c, kind) ==
  LET r == call[c].item
  IN /\ Commits(c, "restore", kind) /\ Exists(run, r) /\ run[r] # "active"
     /\ Start(r) /\ UNCHANGED freeRule

RestoreWatchRuleWithinQuota(c) ==
  Restores(c, WatchRules) /\ FitsWatchRule(run, call[c].item, call[c].plan)

RestoreCombinationRuleWithinQuota(c) ==
  /\ Restores(c, Combos) /\ Allows(call[c].plan, call[c].item)
  /\ requireRestoredCombinationQuota(run, call[c].item, call[c].plan)

RestoreMarketProjectWithinQuota(c) ==
  Restores(c, Projects) /\ FitsProject(run, call[c].item, call[c].plan)

(* The rule of a project that is paused or archived is restored all the same. *)
RestoreMarketRuleWithinQuota(c) ==
  Restores(c, MarketRules) /\ FitsMarketRule(run, call[c].item, call[c].plan)

RestoreMarketCombinationWithinQuota(c) ==
  Restores(c, MarketCombos) /\ FitsMarketCombination(run, call[c].item, call[c].plan)

SetFreeWatchRule(c) ==
  LET w == call[c].item
  IN /\ Commits(c, "choose", WatchRules) /\ Exists(run, w) /\ Tier[w] = "free"
     /\ run' = setFreeWatchRule(run, w) /\ freeRule' = w

(* A transaction that changes something; a choice and a restored watch rule
   are followed by a look at what the user has. *)
Commit(c) ==
  /\ \/ CreateWatchRuleWithinQuota(c) \/ CreateCombinationRuleWithinQuota(c)
     \/ CreateMarketProjectWithinQuota(c) \/ CreateMarketRuleWithinQuota(c)
     \/ CreateMarketCombinationWithinQuota(c) \/ RestoreWatchRuleWithinQuota(c)
     \/ RestoreCombinationRuleWithinQuota(c) \/ RestoreMarketProjectWithinQuota(c)
     \/ RestoreMarketRuleWithinQuota(c) \/ RestoreMarketCombinationWithinQuota(c)
     \/ SetFreeWatchRule(c)
  /\ IF call[c].op # "create" /\ call[c].item \in WatchRules
     THEN ThenVisit(c) ELSE Done(c)
  /\ UNCHANGED <<paid, perm, net, bounds>>

MayCommit(c) == ENABLED Commit(c)

(* The request is refused: a quota is full, the plan does not allow it, the
   item is gone or runs already. *)
Refused(c) ==
  /\ \E op \in {"create", "restore", "choose"} : Commits(c, op, Items)
  /\ ~MayCommit(c)
  /\ Done(c)
  /\ UNCHANGED <<run, paid, perm, freeRule, net, bounds>>

(* ReconcileActivePlan, after a payment or a binding; the free plan restores
   nothing. *)
ReconcileActivePlan(c) ==
  /\ Commits(c, "reconcile", {None})
  /\ run' = ReconcileUserEntitlements(run, call[c].plan)
  /\ Done(c)
  /\ UNCHANGED <<paid, perm, freeRule, net, bounds>>

(* No row of a lapsed subscription is held by the safety net. *)
RowsFree == ~net.rows \/ paid.state # "lapsed"

(* A visit marks what has expired, and pauses everything but the rule its
   preferences named before. *)
ApplyPaidExpiryFallback(c) ==
  /\ Ready(c, "visit")
  /\ expireSubscriptions
  /\ run' = IF effectivePlanCode = "free" /\ AnyPaidHistory
            THEN pauseExpiredUserResources(run, call[c].keep) ELSE run
  /\ Done(c)
  /\ UNCHANGED <<perm, freeRule, bounds>>

Visit(c) == RowsFree /\ ApplyPaidExpiryFallback(c) /\ UNCHANGED net

(* The process ends, or the client goes away, between two transactions. *)
Abandon(c) ==
  /\ call[c].op # "idle"
  /\ Done(c)
  /\ UNCHANGED <<run, paid, perm, freeRule, net, bounds>>

-----------------------------------------------------------------------------
(* Subscriptions *)

(* A payment: the same plan is prolonged, another one in force is a conflict.
   After a lapse everything is paused before the new plan begins, and restored
   by the reconciliation that follows as far as it fits. *)
activateSubscription(c, p) ==
  /\ call[c].op = "idle" /\ periods < MaxPeriods
  /\ RowsFree
  /\ paid.state = "running" => paid.plan = p
  /\ run' = IF paid.state \in {"lapsed", "expired"}
            THEN pauseExpiredUserResources(run, freeRule) ELSE run
  /\ paid' = [plan |-> p, state |-> "running"]
  /\ periods' = periods + 1
  /\ ThenReconcile(c)
  /\ UNCHANGED <<perm, freeRule, net, calls>>

Pay(c) == \E p \in Plan \ {"free"} : activateSubscription(c, p)

Lapse ==
  /\ paid.state = "running"
  /\ paid' = [paid EXCEPT !.state = "lapsed"]
  /\ UNCHANGED <<run, perm, freeRule, call, net, bounds>>

BindPermanentPlan(c) ==
  /\ call[c].op = "idle" /\ perm # "active" /\ periods < MaxPeriods
  /\ perm' = "active" /\ periods' = periods + 1
  /\ ThenReconcile(c)
  /\ UNCHANGED <<run, paid, freeRule, net, calls>>

(* Another user proves to hold the wallet: this one's subscription is revoked,
   without this one's lock, and the plan left is reconciled. *)
RebindPermanentPlan(c) ==
  /\ call[c].op = "idle" /\ perm = "active"
  /\ perm' = "revoked"
  /\ ThenReconcile(c)
  /\ UNCHANGED <<run, paid, freeRule, net, bounds>>

-----------------------------------------------------------------------------
(* The safety net (ApplyExpiredEntitlementFallbacks) *)

(* Variant: users whose watch rules run are looked for, and no others. *)
NeedsWatchFallback ==
  /\ AnyPaidHistory /\ effectivePlanCode = "free"
  /\ Running(run, WatchRules \ {freeRule}) # {}

(* The user appears in its list: something runs without a paid plan. *)
NeedsFallback ==
  /\ AnyPaidHistory /\ effectivePlanCode = "free"
  /\ Running(run, Items \ (MemberRules \cup {freeRule})) # {}

ListExpired ==
  /\ net.step = "idle"
  /\ NeedsFallback \/ paid.state = "lapsed"
  /\ IF NeedsFallback
     THEN /\ net' = [step |-> "listed", keep |-> freeRule, rows |-> paid.state = "lapsed"]
          /\ UNCHANGED paid
     ELSE net' = NoNet /\ expireSubscriptions
  /\ UNCHANGED <<run, perm, freeRule, call, bounds>>

(* The user's lock, the check of the plan, the pause and the commit. *)
PauseExpired ==
  /\ net.step = "listed"
  /\ run' = IF effectivePlanCode = "free"
            THEN pauseExpiredUserResources(run, net.keep) ELSE run
  /\ IF net.rows THEN expireSubscriptions ELSE UNCHANGED paid
  /\ net' = NoNet
  /\ UNCHANGED <<perm, freeRule, bounds>>

SafetyNet == ListExpired \/ (PauseExpired /\ UNCHANGED call)

(* A visit holds the user's lock and wants the row the safety net holds, which
   wants the lock: PostgreSQL ends one of the two, and the other goes on. *)
Deadlock(c) ==
  /\ Ready(c, "visit") /\ ~RowsFree
  /\ \/ Done(c) /\ PauseExpired
     \/ ApplyPaidExpiryFallback(c) /\ net' = NoNet

-----------------------------------------------------------------------------
(* What the user deletes or archives, without the lock *)

Forget(S) == freeRule' = IF freeRule \in S THEN None ELSE freeRule

Gone(S) == run' = [x \in Items |-> IF x \in S THEN "gone" ELSE run[x]]

DeleteWatchRule ==
  \E w \in WatchRules :
    /\ Exists(run, w) /\ Gone({w}) /\ Forget({w})
    /\ UNCHANGED <<paid, perm, call, net, bounds>>

DeletePausedWatchRules ==
  LET S == {w \in WatchRules : run[w] \in Paused}
  IN /\ S # {} /\ Gone(S) /\ Forget(S)
     /\ UNCHANGED <<paid, perm, call, net, bounds>>

DeleteCombinationRule ==
  \E d \in Combos :
    /\ Exists(run, d) /\ Gone({d} \cup Members[d])
    /\ UNCHANGED <<paid, perm, freeRule, call, net, bounds>>

DeleteMarketRule ==
  \E r \in MarketRules :
    /\ Exists(run, r) /\ Gone({r})
    /\ UNCHANGED <<paid, perm, freeRule, call, net, bounds>>

ArchiveMarketCombinationRule ==
  \E x \in MarketCombos :
    /\ Exists(run, x) /\ run' = [run EXCEPT ![x] = "user_archived"]
    /\ UNCHANGED <<paid, perm, freeRule, call, net, bounds>>

(* The market combinations with a member in the project. *)
OfProject(q) == {x \in MarketCombos :
                   \E r \in Parts[x] \cap MarketRules : ProjectOf[r] = q /\ Exists(run, r)}

ArchiveMarketProject ==
  \E q \in Projects :
    /\ Exists(run, q)
    /\ run' = [x \in Items |->
         CASE x = q -> "user_archived"
           [] /\ run[x] = "active"
              /\ x \in OfProject(q) \/ (x \in MarketRules /\ ProjectOf[x] = q)
                -> "project_archived"
           [] OTHER -> run[x]]
    /\ UNCHANGED <<paid, perm, freeRule, call, net, bounds>>

(* Its rules go with it, and the combinations bound to it. *)
DeleteArchivedMarketProject ==
  \E q \in Projects :
    /\ run[q] = "user_archived"
    /\ Gone({q} \cup {x \in MarketRules : ProjectOf[x] = q /\ Exists(run, x)}
                \cup {x \in MarketCombos : /\ Exists(run, x)
                        /\ \E r \in Parts[x] \cap MarketRules : ProjectOf[r] = q})
    /\ UNCHANGED <<paid, perm, freeRule, call, net, bounds>>

-----------------------------------------------------------------------------
Requests(c) ==
  \/ CreateWatchRule(c) \/ CreateCombinationRule(c) \/ CreateMarketProject(c)
  \/ CreateMarketRule(c) \/ CreateMarketCombination(c) \/ RestorePausedWatchRule(c)
  \/ RestoreCombinationRule(c) \/ RestoreMarketProject(c) \/ RestoreMarketRule(c)
  \/ RestoreMarketCombination(c) \/ ChooseFreeWatchRule(c) \/ Entitlement(c)
  \/ ReadBefore(c) \/ PlanChanged(c) \/ Commit(c) \/ Refused(c)
  \/ ReconcileActivePlan(c) \/ Visit(c)
  \/ Abandon(c) \/ Deadlock(c)

Subscribing(c) == Pay(c) \/ BindPermanentPlan(c) \/ RebindPermanentPlan(c)

Deleting ==
  \/ DeleteWatchRule \/ DeletePausedWatchRules \/ DeleteCombinationRule
  \/ DeleteMarketRule \/ ArchiveMarketCombinationRule \/ ArchiveMarketProject
  \/ DeleteArchivedMarketProject

Next ==
  \/ \E c \in Callers : Requests(c) \/ Subscribing(c)
  \/ Lapse \/ SafetyNet \/ Deleting

(* The safety net is called in every cycle of the market rule runner; nothing
   obliges a user to come back. *)
Fairness == WF_vars(SafetyNet)

Spec     == Init /\ [][Next]_vars
FairSpec == Spec /\ Fairness

-----------------------------------------------------------------------------
(* Properties *)

(* A combination of watch rules and its members, rows of two tables, run and
   are paused together through every choice, expiry and restoration. *)
MembersFollowCombination ==
  \A d \in Combos : \A m \in Members[d] :
    /\ (run[d] = "active") = (run[m] = "active")
    /\ Exists(run, d) = Exists(run, m)

(* Whatever starts a rule or a project, a request that was decided upon under
   another plan, the restoration after a payment or the choice of a free rule,
   the plan then in force covers it, and what runs afterwards fits the quota:
   on the free plan nothing but the one watch rule. *)
StartsFit ==
  LET started == Running(run', Items) \ Running(run, Items)
      p == effectivePlanCode
  IN started # {} =>
       /\ \A r \in started : Allows(p, r)
       /\ Cardinality(Running(run', Projects)) <= ProjectLimit[p] \/ started \cap Projects = {}
       /\ IF p = "free"
          THEN \E w \in WatchRules :
                 Running(run', WatchRules \cup MemberRules \cup Combos) = {w}
          ELSE Cardinality(Running(run', Items \ Projects)) <= RuleLimit[p]
                 \/ started \subseteq Projects

ActivationsWithinPlan == [][StartsFit]_vars

(* What the user archived, and what was paused because its project was, starts
   again by a request of the user's only, never by a payment. *)
UserPausesSurvive ==
  [][\A r \in Items :
       run[r] \in {"user_archived", "project_archived"} /\ run'[r] = "active"
         => \E c \in Callers : call[c].op = "restore" /\ call[c].item = r]_vars

(* Paid capabilities stop at expiry even when the user never comes back: once
   no paid plan is in force, at some time one is again or nothing runs but the
   rule chosen for the free plan. *)
PaidWorkStops ==
  (effectivePlanCode = "free" /\ AnyPaidHistory)
    ~> (effectivePlanCode # "free" \/ Running(run, Items \ {freeRule}) = {})
=============================================================================
