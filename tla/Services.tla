------------------------------- MODULE Services -------------------------------
(* Nine parts that run side by side in the application and share no state: the
   scanner, the daily summaries, the bot, the wallet login, the shared assets,
   the pools of a project, market rules on snapshots, the ranking of holders and
   the registration of a webhook.  A behaviour is one of theirs; the other parts
   stay in their initial states. *)
EXTENDS LogScanner

CONSTANTS
  Executor, Group, GroupLimit, Parts, NumDays, MaxEvents,            \* DailySummary
  Process, NumUpdates, MaxBotFaults,                                 \* BotPolling
  Challenge, Request, MaxSessions,                                   \* WalletLogin
  User, Token, Chain, Listing, ProjectLimit, MaxProjects,            \* MarketAssets
  Pool, Deployment, Own, PoolOn, Supported, MaxChoices,              \* PoolSelection
  RulePools, CooldownScope, Repeats, Cooldown,                       \* SnapshotRules
  MaxNow, MaxSnapshots, MaxStops,
  Holder, RankLimit, MaxHolding, MaxTrades, MaxCutShort,             \* HolderRanks
  Monitored, Bootstrap, MaxChanges, MaxDrifts, MaxOutages,           \* WebhookRegistration
  Nobody, Nothing, Unlisted, NoPool

(* A day has a part before its push times; what stands for nobody is not one. *)
ASSUME SummaryAssumption ==
  /\ Parts \in Nat \ {0}
  /\ Nobody \notin Executor
  /\ "private" \notin Group
ASSUME BotAssumption ==
  /\ NumUpdates \in Nat
  /\ Nobody \notin Process
(* An identity of the catalog has one contract on each chain: the catalog's
   "platforms" are keyed by chain. *)
ASSUME CatalogAssumption ==
  /\ \A t, u \in Token :
       Listing[t] = Listing[u] /\ Listing[t] # Unlisted /\ Chain[t] = Chain[u] => t = u
  /\ \A t \in Token : Listing[t] \notin Token
  /\ Unlisted \notin Token
ASSUME PoolAssumption ==
  /\ PoolOn \in [Pool -> Deployment]
  /\ Own \in Deployment
  /\ NoPool \notin Pool
ASSUME SnapshotAssumption ==
  /\ CooldownScope \in {"project", "chain"}
  /\ Repeats \in BOOLEAN
  /\ Cooldown \in Nat
ASSUME HolderAssumption ==
  /\ IsFiniteSet(Holder)
  /\ RankLimit \in Nat \ {0}
  /\ MaxHolding \in Nat

VARIABLES
  part,        \* the one whose behaviour this is
  now, sub, targets, deliveries, bound, refusing, lock, worker, form, saves,
  summaryFaults, sent, audience,
  held, arrived, polling, bot, botFaults, handled, failed,
  challenge, session, request, signed, entered,
  asset, deployment, evidence, project, created,
  plan, status, chains, link, default, main, setup, choices, wasProfessional, imposed,
  clock, latest, states, ruleAlertedAt, pass, stops, alertRows, run,
  holding, holderRows, fresh, refresh, trades, cutShort, holderEvents, ranked,
  wanted, row, remote, sync, check, projectChanges, drifts, outages

Summary == INSTANCE DailySummary WITH faults <- summaryFaults
Bot == INSTANCE BotPolling WITH MaxFaults <- MaxBotFaults
Login == INSTANCE WalletLogin
Assets == INSTANCE MarketAssets
Pools == INSTANCE PoolSelection
Crossings == INSTANCE SnapshotRules WITH Pool <- RulePools
Ranks == INSTANCE HolderRanks WITH baseline <- ranked
Webhook == INSTANCE WebhookRegistration WITH Token <- Monitored, MaxProjects <- MaxChanges

summaryVars == <<now, sub, targets, deliveries, bound, refusing, lock, worker, form,
                 saves, summaryFaults, sent, audience>>
botVars == <<held, arrived, polling, bot, botFaults, handled, failed>>
loginVars == <<challenge, session, request, signed, entered>>
assetVars == <<asset, deployment, evidence, project, created>>
poolVars == <<plan, status, chains, link, default, main, setup, choices,
              wasProfessional, imposed>>
ruleVars == <<clock, latest, states, ruleAlertedAt, pass, stops, alertRows, run>>
rankVars == <<holding, holderRows, fresh, refresh, trades, cutShort, holderEvents, ranked>>
webhookVars == <<wanted, row, remote, sync, check, projectChanges, drifts, outages>>

userVars   == <<summaryVars, botVars, loginVars>>
marketVars == <<assetVars, poolVars, ruleVars, rankVars, webhookVars>>
servicesVars == <<part, vars, userVars, marketVars>>

ServicesInit ==
  /\ part \in {"scanner", "summary", "bot", "login", "assets", "pools",
              "crossings", "ranks", "webhook"}
  /\ Init /\ Summary!Init /\ Bot!Init /\ Login!Init /\ Assets!Init /\ Pools!Init
  /\ Crossings!Init /\ Ranks!Init /\ Webhook!Init
  /\ plan = "professional" => part = "pools"
  /\ holding # [h \in Holder |-> 0] => part = "ranks"

OnlyScanner == part = "scanner"
  /\ UNCHANGED <<part, userVars, marketVars>>
OnlySummary == part = "summary"
  /\ UNCHANGED <<part, vars, botVars, loginVars, marketVars>>
OnlyBot == part = "bot"
  /\ UNCHANGED <<part, vars, summaryVars, loginVars, marketVars>>
OnlyLogin == part = "login"
  /\ UNCHANGED <<part, vars, summaryVars, botVars, marketVars>>
OnlyAssets == part = "assets"
  /\ UNCHANGED <<part, vars, userVars, poolVars, ruleVars, rankVars, webhookVars>>
OnlyPools == part = "pools"
  /\ UNCHANGED <<part, vars, userVars, assetVars, ruleVars, rankVars, webhookVars>>
OnlyCrossings == part = "crossings"
  /\ UNCHANGED <<part, vars, userVars, assetVars, poolVars, rankVars, webhookVars>>
OnlyRanks == part = "ranks"
  /\ UNCHANGED <<part, vars, userVars, assetVars, poolVars, ruleVars, webhookVars>>
OnlyWebhook == part = "webhook"
  /\ UNCHANGED <<part, vars, userVars, assetVars, poolVars, ruleVars, rankVars>>

ServicesNext ==
  \/ OnlyScanner /\ Next
  \/ OnlySummary /\ Summary!Next
  \/ OnlyBot /\ Bot!Next
  \/ OnlyLogin /\ Login!Next
  \/ OnlyAssets /\ Assets!Next
  \/ OnlyPools /\ Pools!Next
  \/ OnlyCrossings /\ Crossings!Next
  \/ OnlyRanks /\ Ranks!Next
  \/ OnlyWebhook /\ Webhook!Next

(* The fairness of FairSpec in LogScanner, DailySummary and WebhookRegistration. *)
ServicesSpec ==
  /\ ServicesInit /\ [][ServicesNext]_servicesVars
  /\ WF_vars(part = "scanner" /\ ScanStep)
  /\ WF_vars(part = "scanner" /\ HookPersists)
  /\ \A e \in Executor : WF_summaryVars(part = "summary" /\ Summary!ExecutorStep(e))
  /\ WF_webhookVars(part = "webhook" /\ Webhook!SyncStep)
  /\ WF_webhookVars(part = "webhook" /\ Webhook!CheckStep)

-----------------------------------------------------------------------------
(* LogScanner, where it is the scanner's behaviour: the safe block is reached, and
   what was passed is confirmed, for good. *)
ScannerCatchesUp == <>[](part = "scanner" => CaughtUp)

(* DailySummary: one message per chat and period. *)
OneSummaryPerPeriod == Summary!OneSummaryPerPeriod
(* DailySummary: a closed period reached everyone it was listed for. *)
ClosedPeriodsWereSent == Summary!ClosedPeriodsWereSent
(* DailySummary: the private chat does not wait for a group. *)
PrivateChatIsServed == Summary!PrivateChatIsServed

(* BotPolling: no update is lost, and none is handled twice without a restart. *)
UpdatesAreHandled == Bot!UpdatesAreHandled

(* WalletLogin: one session per challenge. *)
ChallengesAreUsedOnce == Login!ChallengesAreUsedOnce

(* MarketAssets: contracts of one asset have one identity. *)
AssetsAreVerified == Assets!AssetsAreVerified
(* MarketAssets: a project keeps its contracts and their evidence. *)
ProjectsKeepTheirTokens == Assets!ProjectsKeepTheirTokens

(* PoolSelection: a standard plan watches one pool of a chain. *)
StandardWatchesOnePool == Pools!StandardWatchesOnePool
(* PoolSelection: a main pool is selected. *)
MainPoolsAreWatched == Pools!MainPoolsAreWatched

(* SnapshotRules: one alert for each time a condition comes true. *)
AlertsFollowCrossings == Crossings!AlertsFollowCrossings

(* HolderRanks: the events say who is ranked. *)
RankEventsMatch == Ranks!RankEventsMatch

(* WebhookRegistration, where it is the webhook's behaviour: the webhook at Nodit
   comes to carry the wanted tokens, and neither task undoes it. *)
WebhookSettles == <>[](part = "webhook" /\ wanted # {} => Webhook!Aligned)
=============================================================================
