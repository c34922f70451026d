# A TLA+ model of DeBox Asset Alert

DeBox Asset Alert is a Go server that watches wallets and tokens on several
chains and sends alerts to DeBox chats; paying users get more rules and more
kinds of alerts. This directory holds TLA+ models of the parts of it where
several processes meet over one database, the TLC configurations that check
them on small instances, and proofs of what matters most for instances of any
size. Paths below are relative to `src/` unless they name a file here.

Contents:

1. The system and its hard parts
2. The modules and how they correspond to the code
3. What each run checks, its bounds, and the fairness assumed
4. What is proved, and how
5. What the models found
6. What is only model-checked, and what is not modelled
7. The plan


## 1. The system

`internal/app/app.go:22-63` starts an HTTP server and six background runners in
one process; several instances of the process may run against one PostgreSQL
database. A runner is made a singleton by a session advisory lock
(`pg_try_advisory_lock`, `docs/go-migration-baseline.md:37-39`), which is free
again when the session dies, although the code that took it goes on. Everything
else that orders the processes is a guard in an SQL statement: a `WHERE status =`,
an `ON CONFLICT`, a unique index, a lock on a user or a project inside one
transaction. No process talks to another one directly; they meet in tables.

| Component | State | Operations | Talks to |
|---|---|---|---|
| Chain collector (`marketcollector`) | chain cursors, scanned blocks, `market_events`, snapshots, pool links | scan logs, confirm, detect and retract reorganized blocks, re-include, discover pools, capture snapshots | chain RPC; alert pipeline (through tables) |
| Webhook inbox (`marketcollector/webhook.go`) | `webhook_inbox` rows with a status, attempts and a due time | accept, claim, process, fail with back-off, recover, remove | Nodit's callbacks; chain collector |
| Webhook registration (`webhook_sync.go`, `health.go`) | the recorded subscription | send the watched tokens, check, repair, mark | Nodit |
| Market alert pipeline (`marketrules`, `store/market_delivery.go`) | rule cursors and target states, `market_rule_events`, stage windows, each with delivery columns | evaluate, create alerts, stage, claim, send, complete, recover leases, reconcile after a reorganization | collector, entitlements, DeBox client |
| Holder ranking (`marketrules/holders.go`) | `market_holders` | fetch, store, rank, announce | Nodit; alert pipeline (through events) |
| Watch-rule monitor (`monitor`) | last value per rule, alerts | list, read the chain, compare, record, send | chain client, DeBox client |
| Watch aggregation and combinations (`store/aggregations.go`) | stage and combination windows of watch rules | record a trigger, roll a window over, announce | monitor |
| Payments (`payment`, `store/orders.go`) | orders | prepare, claim a transaction, verify, reconcile, expire, finalize | chain client, subscriptions |
| Subscriptions and entitlements (`store/subscriptions.go`, `entitlements.go`) | subscriptions, the chosen rule, run status of everything a user has | activate, bind a permanent plan, expire, pause, restore, choose, quotas | payments, all rules |
| Market projects (`management`, `marketview`, `store/market_multichain.go`) | projects, shared assets and their identities, links to pools | create, extend and merge assets, link and select pools, archive, delete | collector, catalog, entitlements |
| Daily summaries (`summary`) | settings, targets, deliveries of a period | send what is due once per target and period, close the period | DeBox client |
| Bot polling (`bot`) | polling offset, in memory | poll, handle, advance | DeBox bot API, entitlements |
| Authentication (`auth`) | challenges, sessions | create, consume once, expire, revoke | HTTP API |
| Chain and DeBox clients, event parsing, asset catalog, views, HTTP API, migrations, configuration, tunnel | caches at most | queries and conversions | |

`PROJECT.json` lists every component with its sources and its status.

What is hard in this code, and would hardly be met by its tests:

- **A claim has no owner.** A row of the alert outbox is claimed by
  `status = 'sending'` and completed by `WHERE status = 'sending'`
  (`store/market_delivery.go:1559`): a worker whose lease was recovered completes
  the claim of another one.
- **An advisory lock outlives its use, or dies before it.** Its session may be
  lost while the cycle runs on, so two cycles interleave, statement by statement.
- **The order of events is not the order of their ids.** Events become final,
  are retracted, and come back under their old id, while a rule remembers only the
  highest id it has passed.
- **A scan reads a moving chain.** The cursor's block is compared, then logs,
  headers and receipts come from other calls, and a webhook inserts the same
  events meanwhile.
- **Steps that belong together are separate transactions**: create an alert and
  put it into its window; send a message and record it; record a payment and
  restore what the expired plan had paused; write a holder's row and announce it.
- **A payment is read in three calls** (transaction, receipt, head) with a chain
  that moves in between, and any number of requests verify the same order.
- **A message of the provider is stored in up to three statements** and answered
  by what the first of them found; resends meet the row in any state.
- **The plan is read before it is used.** A request checks the plan in one
  statement and works in a later transaction; the plan may end, or another begin,
  in between, and two fallbacks take the same locks in different orders.
- **What is compared was read earlier.** The monitor compares a new value with the
  one the rule had when the cycle listed it; the health check repairs a webhook
  from a row the sync has rewritten.
- **Rows are shared between users.** An asset serves the projects of several users,
  each of whom may extend, rename or merge it.

What makes each component correct, in a sentence:

- *Alert pipeline*: an event a rule has passed left an alert; a condition that comes
  true is announced once; an alert's fate is sealed once and never as delivered
  before a message told of it; whatever waits to be sent is settled in the end.
- *Payments*: a transaction pays one order, an order grants one term, nothing is
  paid before its confirmations, nobody who paid stays paused, no order waits for
  ever.
- *Entitlements*: what is started fits the plan in force; paid work stops at expiry
  even if the user never comes back; what the user stopped stays stopped.
- *Webhook inbox*: an accepted message is processed, or ends as dead after its
  attempts; a repeated one is not processed twice at once.
- *Webhook registration*: Nodit's webhook comes to carry the watched tokens.
- *Collector*: what is confirmed is on the chain; the cursor never passes a block
  whose logs are missing; it arrives at the safe block.
- *Holder ranking*: the events say who is ranked.
- *Monitor and aggregation*: a fall is announced once; a window is announced for
  what happened in its time; every rule is looked at again.
- *Projects*: contracts of different tokens never share an asset; a standard plan
  watches one pool of a chain; the main pool is watched.
- *Summaries*: one per target and period; a closed period reached everyone.
- *Bot*: no update is lost, and none handled twice without a failure.
- *Authentication*: a challenge opens one session, before it expires.


## 2. The modules

| Module | What it is |
|---|---|
| `MarketDelivery` | the alert pipeline: workers, database, chain, clock, plan |
| `AlertOutbox` | what the pipeline promises: one fate per alert |
| `SnapshotRules` | rules on prices, liquidity and volumes over several pools |
| `HolderRanks` | the ranking of a token's holders |
| `PaymentOrders` | orders, verifications, reconciliation, chain, terms |
| `PaymentLedger` | what payments promise: orders, the transactions that paid them, terms |
| `Entitlements` | plans, quotas, and what one user has running |
| `WebhookInbox` | the inbox: requests, workers of the inbox task, time |
| `WebhookRegistration` | the webhook at Nodit and the two tasks that align it |
| `LogScanner` | the scan of one chain's logs, with a webhook ahead of it |
| `WatchMonitor` | the monitor of watch rules, their windows and combinations |
| `DailySummary` | one subscription's summary and its settings |
| `BotPolling` | the bot's updates |
| `WalletLogin` | challenges and sessions |
| `MarketAssets` | shared assets and the projects on them |
| `PoolSelection` | the pools of one project |
| `Services` | nine parts that share no state, side by side |
| `MCMarketDelivery`, `MCPaymentOrders`, `MCEntitlements`, `MCWebhookInbox`, `MCWatchMonitor`, `MCLogScanner`, `MCServices` | instances for TLC |
| `MarketDeliveryProofs`, `PaymentOrdersProofs`, `WebhookInboxProofs`, `EntitlementsProofs`, `WatchMonitorProofs`, `LogScannerProofs`, `MarketServicesProofs`, `ServicesProofs` | theorems |

In every module an action is one transaction (or one call to the outside) of the
code with all it changes, so that actions interleave exactly where the program's
processes can. `PROJECT.json` maps each definition to the lines it stands for. An
operator marked `Variant` is a wrong form of the operator after it, with which
the properties were confirmed to notice the mistake.

### MarketDelivery

A worker is a server instance; `pc` says where it is in the cycle of
`Service.RunCycle` (`marketrules/service.go`): reconcile retracted events, recover
lapsed leases, list the active rules, evaluate each of them and persist the
outcome alert by alert, then claim, load, send and complete what is due. Between
any two of these steps another worker, the collector, the clock or the
entitlement code may act.

| In the model | In the code |
|---|---|
| `event[e]` | a row of `market_events`: `confirmed`, `reorged` |
| `Row`, `status`, `attempts`, `due`, `lapsed` | the delivery columns of `market_rule_events` (an `Alert`) and `market_stage_windows` (a `Window`), which the same code claims and completes |
| `members`, `count`, `over`, `closed` | `market_stage_window_events`, `trigger_count`, `ends_at`, `closed_at` |
| `known`, `cursor`, `fired` | the rule's target state (`LastEventID`) and `last_triggered_at` |
| `lock` | the advisory lock `rule-engine` |
| `plan`, `active` | the owner's plan and the run status of the rules |
| `job`, `todo`, `claims`, `current`, `result` | local variables of the cycle |
| `content` | what `LoadMarketDelivery` returned: the alerts the message names, and those it covers (`RecentEvents` and the members counted) |
| `sent`, `carried`, `covered`, `baseline`, `revived`, `overtaken` | history, read by properties only |

Time is abstract: a back-off, a lease and the end of a window are flags the clock
may raise at any moment. A rule is an event rule of one owner with one target
(`evaluateTargetRule`); whether an event matches a rule's condition is not
modelled, every confirmed event does; the cooldown, which is state, is. Several
rules share what the code shares.

### SnapshotRules and HolderRanks

`SnapshotRules` is the other half of the evaluator: a rule whose condition is read
from the latest snapshot of each of its pools. `pass` is `evaluateMultiChainRule`,
pool by pool, with the alert, the pool's state (`states`) and the rule's row
(`ruleAlertedAt`) written by calls of their own; a pass may stop between them. A
snapshot counts by whether the condition holds in it. The cooldown may be the
rule's or each pool's (`CooldownScope`).

`HolderRanks` is the refresh of one token's holders: `refresh.todo` is the page that
was fetched, in order of balance (what is equal keeps the order of the page, which is
taken to be the same every time); row, events, exits and the final clearing of
ranks are separate steps. What an address holds changes between refreshes.

### PaymentOrders

A verification is an HTTP request (`Web`) or the reconciliation of an instance
(`Runner`); `pc` says which of the three chain calls or of the following writes is
next. The chain is seen as the code sees it: `age[t]` is the number of
confirmations, up to the number asked for, and `inclusion[t]` tells two inclusions
of one transaction apart. `job.depth` is what the head, once read, will say about
the receipt already read: it grows with each block, and is not taken back by a
reorganization. Plans are the user's active paid plan and the terms left of it;
rules and projects are paused and restored as one (`resources`); `Entitlements`
has them one by one.

### Entitlements

One user with rules, combinations, projects, market rules and market combinations,
each with its own reason for not running (`run[r]`). A request (`call[c]`) reads
the plan in a statement of its own; the transaction that follows checks that it
still is the plan and retries once (`requirePolicyPlan`). The safety net of the rule
runner locks rows of `subscriptions` before the user, every other transaction the
user first: `net` is its two steps, and `Deadlock` the end PostgreSQL makes of a
request that waits for it. `Tier` says which plan a rule's type, target and delivery
need.

### WebhookInbox and WebhookRegistration

A message is a deduplication key. A request (`request[q].step`) inserts the row, and
on a conflict reads it and perhaps re-arms it; a worker (`pc`) is a server instance in
`ProcessInbox`: recover, claim, then take, process and mark one message after the
other.

| In the model | In the code |
|---|---|
| `status`, `attempts`, `valid` | `processing_status`, `attempts`, `signature_valid` of `webhook_inbox` |
| `due`, `lapsed` | `next_attempt_at <= NOW()`, `locked_at` older than the lease |
| `lock` | the advisory lock `webhook-inbox` of one chain |
| `batch`, `current`, `outcome` | the claimed rows as returned by the claim, the one in hand, the error of its processing |
| `Unusable` | payloads without a transaction hash (`ErrInvalidWebhook`) |
| `acked` | history: a valid delivery was answered with 200 |

A claim takes everything due: the batch limit (100 by default) is assumed not to be
reached. The rows a claim returns are handled in any order. Old rows are removed
(`Cleanup`) only when nothing works on them, since they are kept for days and
leases last minutes. What processing stores is `LogScanner`'s subject: here it
succeeds, fails, or rejects the message for good.

`WebhookRegistration` has the webhook as Nodit holds it (`remote`), the recorded row,
and the two tasks (`sync`, `check`) with what each has read; both write whole rows
and whole conditions back. `RemoteDrifts` is what others do at Nodit.

### LogScanner

The chain is a sequence of blocks, each told by its height and the fork that mined
it; `Reorg` replaces the last blocks and moves their transactions. `scan.pc` walks
through `scanLogsOnce`: head, cursor, continuity check and rewind, logs, headers,
comparison, hydration, events one by one, unconfirmed blocks, scanned blocks, cursor,
confirmation. The webhook worker (`hook`) reads a receipt and stores its event
unconfirmed, at any later time. The blocks a loop has still to go through are a set
(`scan.queue`), from which each turn takes the lowest or the highest. `MarketDelivery`'s chain actions are what this module
does to `market_events`, seen by the rules.

### WatchMonitor

A worker is an instance in a cycle, or the page that checks a rule it has just
created. `work[w]` holds the rules a cycle listed with the values they had then.
Balances are small integers, `falls` counts how often one reached its threshold.
Standalone rules alert at once or in stages; a combination announces when each of its
members has reached its number within the window.

### DailySummary, BotPolling, WalletLogin, MarketAssets, PoolSelection

Each is one table or two with the requests and workers that meet there; the comment
at the head of each says which, and the text at the variables which column each is.
In `MarketAssets` a creation is one step because the code makes it one transaction;
what is hard are long sequences of creations by several users. In `PoolSelection`
a project of one chain is linked pool by pool.

### The abstract specifications

`AlertOutbox`: an alert goes from `none` to `open` to `delivered` or `dropped`,
never back; as `delivered` only if a message that tells of it has reached the chat. For
`MarketDelivery` a message tells of the alerts it names. A digest names the `DigestLimit`
newest of its members (5 in the code, `store/market_delivery.go:1289`) and gives the number
of all: it tells of one it does not name only when it names as many others as it may
(`Reported`).
`PaymentLedger`: an order is placed once, paid once by a transaction that pays its
owner and plan and no other order, and grants one term at that moment. Both are
refined under a mapping that is written at the end of the detailed module.


## 3. The runs

| Run | Instance | Properties | Shows |
|---|---|---|---|
| `MarketRealtime` | two workers, 1 event, 2 failures, 1 reorganization, 1 expiry, three of these at most, fair | `SentOnceWithoutFaults` `RefinesOutbox` `DeliveriesSettle` | duplicates need failures, every alert's fate is sealed once, and it is sealed |
| `MarketDigest` | one worker, 3 events (the third only where nothing is retracted or expires), 2 windows, threshold 2, a failure, a reorganization, an expiry, fair | `PendingDigestReachedThreshold` `StagedAlertsAreCounted` `SettledStaysSettled` `DigestsRefineOutbox` `DeliveriesSettle` | windows that end, are recounted and are closed by an expired plan stay consistent with their alerts; a late member of a sent digest is dropped, one without a name in it was counted |
| `MarketCursor` | two workers, 2 events that appear in any order, a cooldown, a failure, a reorganization | `PassedEventsAreAnnounced` | no cursor passes in silence an event that was there, not even that of a worker without its lock |
| `MarketRevivedEvent` | violation | `UnconfirmedAheadOfCursor` | section 5 |
| `Payment` | one user, 2 plans, 2 transactions, 2 orders, a request and a reconciliation, a failure or a reorganization, fair | `PaidIsConfirmed` `RestoredAfterPayment` `RefinesLedger` `ConfirmingSettles` | two verifications of one order or two orders of one user never break the ledger; no order stays in confirmation |
| `PaymentRace` | violation | `MatchingPaymentNeverFails` | section 5 |
| `Inbox` | two instances, two messages (one unusable), one request at a time, 3 deliveries, a failure, fair | `OneWorkerWithoutFaults` `GivenUpAfterAllAttempts` `ProcessedStaysProcessed` `MessagesSettle` | one worker for each message; nothing is given up early or left in the middle |
| `InboxResend` | violation | `AcknowledgedCanBeProcessed` | section 5 |
| `Entitlement` | two watch rules with a wallet each, a combination of two, two projects, a market rule and a market combination; a request beside two bought terms, a permanent plan, visits and the safety net, fair | `ActivationsWithinPlan` `UserPausesSurvive` `MembersFollowCombination` `PaidWorkStops` | nothing starts beyond the plan in force; nothing the user stopped starts again; a plan that is over stops what it paid for |
| `Monitoring` | an instance and the page, a realtime rule, a combination of two, a rule the chain never answers for; 2 moves of a balance, a change by the user, a failure, fair | `NoRepeatedAlert` `DailyLimitKept` `NoticesEarned` `RulesAreChecked` | cycles announce a fall once, first checks add at most two, the daily number is kept, a window's notice is earned in its time, no rule is left out |
| `Services` | nine parts side by side, below | 15 | below |
| `RetractedForGood` | violation | `ReincludedIsRevived` | section 5 |

`Services` explores nine parts that share no state; a behaviour is one of theirs
(`part`), so the states add up and do not multiply. `MCServices` gives its constants
their values.

| Part | Instance | Properties |
|---|---|---|
| `LogScanner` | 3 to 5 blocks, 2 transactions, a reorganization of up to 2 blocks, a webhook, a failure, fair | `ConfirmedIsCanonical` `PassedIsRecorded` `ScannerCatchesUp` |
| `DailySummary` | two instances, a group, 2 days of 2 parts, one form, crash, lost lock or lost answer, fair | `OneSummaryPerPeriod` `ClosedPeriodsWereSent` `PrivateChatIsServed` |
| `BotPolling` | two processes, 3 updates, 2 failures | `UpdatesAreHandled` |
| `WalletLogin` | 2 requests, 2 challenges, 2 sessions | `ChallengesAreUsedOnce` |
| `MarketAssets` | 2 users, 4 contracts on 3 chains, two tokens, 4 creations | `AssetsAreVerified` `ProjectsKeepTheirTokens` |
| `PoolSelection` | 4 pools on 2 chains, one that cannot be parsed, 2 choices, both plans | `StandardWatchesOnePool` `MainPoolsAreWatched` |
| `SnapshotRules` | 2 pools, one cooldown for both, 3 snapshots, time 0 to 2, a pass cut short | `AlertsFollowCrossings` |
| `HolderRanks` | 2 holders, a ranking of one, 4 trades, a refresh cut short | `RankEventsMatch` |
| `WebhookRegistration` | 2 tokens, 2 changes of the projects, a drift, a failed call or crash, fair | `WebhookSettles` |

**Bounds.** `MaxAttempts` is 2 instead of 5: the comparison before the send and the
one after it differ at the last attempt whatever their number, and two attempts have
a first, a last and a retry. Two workers are all that can meet over a row: a
claim that is completed by another worker needs a holder and one that lost its
session; each further worker needs one more failure. With two failures a row can be
taken away from its holder and taken back. Two events and two windows make one event
wait behind another and one window follow another; the third event of `MarketDigest`
joins a digest that was already sent, and is one more than `DigestLimit` (2 instead of 5)
lets a digest name. `RequiredConfirmations` is 2 in `Payment`
instead of 3; with 2 a reorganization of one block and a head one block later than
the receipt already differ. Reorganizations deeper than the required confirmations,
or than the scanner's lookback, are outside the models: the code assumes there are
none. In `Inbox` a first delivery, an invalid one and a resend fit into the three;
two attempts instead of 10 have a first and a last. The quotas of `Entitlement` are
such that a professional user can fill them and a standard user cannot hold what
that leaves. In `Monitoring` the cycle takes 2 rules instead of 200, with one that
always fails; the daily limit is 1. Four trades let two holders overtake one another
twice; three snapshots let a condition come true, fail and come true again.
Counters (`faults`, `reorgs`, `expiries`, the number of events, windows, orders,
deliveries, calls, saves) are bounded in guards. The joint bounds of the MC modules
(`ThreeTroubles`, `QuietThird`, `OneTrouble`; action
constraints of their runs) restrict only steps that nothing
obliges, so the fairness is not weakened. Workers are symmetric in `MarketCursor`; no
symmetry is used where liveness is checked. Deadlock is checked in the runs of the
pipeline, of payments and of the inbox, which go on with empty cycles; the other
runs stop where their users have used up their bounds.

**Fairness.** `MarketDelivery!Fairness`: each worker goes on with its cycle and
starts the next one (the runner is a ticker loop that logs the error of a cycle
and goes on, `marketrules/service.go:756-800`), back-offs elapse and leases run
out (time). Nothing is asked of the collector or of the plan. Failures are bounded in
number: a rule whose evaluation failed in every cycle would end every cycle before its
deliveries (`marketrules/service.go:234`), and nothing would be sent.
`PaymentOrders!Fairness`: each reconciliation goes on (`payment/runner.go:33-54`),
blocks keep coming and each claimed transaction is mined, and terms run out. The
last two are assumptions about the chain and about time: an order whose transaction
is never mined does stay `confirming` for ever, since the code has no limit for it.
No browser has to ask again.
`WebhookInbox!Fairness`: the task runs at every tick (`marketcollector/runner.go:89-107`),
back-offs elapse and leases run out; nothing is asked of the provider.
`Entitlements!Fairness`: the safety net runs in every cycle of the rule runner; no
user has to come back. `WatchMonitor!Fairness`: some instance goes on with a cycle.
In `Services` the scanner, the summary's executors, the sync and the health check go
on; chain, users, groups and Nodit do as they please.


## 4. The proofs

All proofs are checked by TLAPS with SMT (Z3), Zenon and, for the temporal
steps, LS4. They assume `DeliveryAssumption`, `PaymentAssumption`,
`InboxAssumption`, `EntitlementsAssumption`, `WatchMonitorAssumption` and those of
`LogScanner` and `Services`: the constants are of their kinds, the sets that must be apart
are, the chain is longer than the service looks back on it, a user has finitely many things
and a token finitely many holders, what a kind of rule needs of a plan is what
the code's tables say of it, and the catalog is what its type makes it. Nothing is
assumed of the number of workers, rules, events, windows, users, orders,
transactions, requests, challenges, attempts, failures or reorganizations; where a
theorem has a hypothesis of its own, it is in its statement.

`MarketDeliveryProofs`

- `TypeCorrect`. `TypeOK` is inductive together with `StageHasTrigger`: a worker
  about to stage a trigger has one, without which the least trigger of its job
  would be of no type.
- `SettledStaysSettledCorrect`: from `TypeCorrect`, one step per action. The
  actions that could take a settled row up again are the recount, the recovery,
  the completion and the late member, and each has a guard of its own.
- `UnsettledHasAttemptsCorrect`: `AttemptsChange` says that only a completion changes
  attempts, and `AttemptsStep` that a completion leaves an attempt or settles the
  row; every other step keeps settled rows settled.
- `HandoverCorrect`: the invariant `HandoverWithoutFaults` says why the absence of
  duplicates holds although claims have no owner. As long as nothing failed, every
  row in `sending` is in the hands of the worker that holds the lock, what
  that worker has still to send was never sent, and a row that was sent is settled or
  is being completed. `CyclesExcludeCorrect` and `SentOnceCorrect` follow from it;
  neither is inductive alone.

- `PassedEventsCorrect`, whatever the order in which the events appear. The cursor of a
  rule is written by whoever ends an evaluation, also by a worker that lost the lock long
  ago and overwrites a newer cursor with its own. `CursorInv` therefore says of every
  cursor *and of every job* that the events up to its place are `Accounted`: missing,
  retracted, or confirmed with an alert, or among what the job has still to write, or
  recorded as `overtaken`. `AccountedRemains` shows that this lasts whatever anyone does
  (alerts are never removed, a confirmed event can only be retracted, a baseline only
  moves forward), so that an old job is as good as a new one; `ReachedAccounts` that an
  evaluation decides every event it passes. An event that appears behind a cursor or a job
  is overtaken at that moment (`EventsMove`), and no other is.
- `PendingDigestCorrect`. A count changes when an alert joins and when the windows are
  recounted; `WindowJoined` says which window an alert joins and what becomes of the others.
  It needs `WindowsLast`, that the bound on window ids never stops a join.
- `StagedCorrect`. An alert is staged in one transaction and counted in the next.
  `StagingGoesOn` shows that nothing comes between while nothing fails: of the three
  reasons to refuse the second one, a retracted event and a paused rule are excluded by
  `Undisturbed`, and an alert that is no longer staged has nothing left to count.

- `AlertsKeepTheOutbox`, `RefinesOutboxCorrect`, `DigestsRefineOutboxCorrect`: the
  refinement of `AlertOutbox`. That an alert is announced once and that its fate is sealed
  once are `AlertsRemain` and `SettledStep`. That it counts as delivered only when a
  message told of it needs `OutboxInv`: `DeliveriesKnow` (what is about to be sent is
  about alerts that exist and names them all or as many as it may, the alert it is about
  is named, and a row is completed as sent only after the message) and, for the members of
  a digest, `DigestsName` (those still staged are those the message covers).
  `ReportedRemains`: what was told stays told, since windows and what was sent only grow.
  `DeliveryMoves` lists the ways a worker's delivery can go, `SentWasCarried` concludes.
  Of a realtime rule all this is proved without any condition. Of a digest it is proved
  only in `Peace`: nothing was retracted yet, and there is one worker or no failure yet.
  Both conditions are needed. With two workers and one lost lock TLC finds this: a worker
  has sent a digest and not completed it, its lease runs out, the second worker makes the
  row `failed`, adds a member to the window, which is not late because the window is not
  being sent, and claims the row; the first one then completes that claim and marks the
  new member as sent, of which no message has told. `DigestsRefineOutbox` therefore has
  both conditions in it (`reorgs' = 0`, `NoRival'`), and the theorem has no other.

`PaymentOrdersProofs`

- `IInv` is `TypeOK` with `PlanRuns` (a plan in force has a term left),
  `OrdersSound` (an order that exists has an owner and a plan, one that was claimed
  has a transaction, and no two orders have the same) and `JobsSound` (what a
  verification works on was claimed, and what it is about to finalize is paid by its
  transaction).
  `TypeCorrect` follows.
- `PaidIsConfirmedCorrect` adds `ReadingsHold`: while the chain is not reorganized,
  the depth a verification has read is not greater than the transaction's, and what
  is about to be finalized, or was, has all its confirmations.
- `RestoredAfterPaymentCorrect`: one step per action; the steps that pause are
  possible only without a plan, the one that starts a plan leaves its verification
  about to restore.
- `LedgerCorrect`: the refinement. `StepIsLedgerStep` maps `CreateOrder` to
  `PlaceOrder`, `FinalizePaidOrder` to `Pay` and every other step to a stutter; that
  the transaction is unused is `OrdersSound`, that it matches is `JobsSound`.

`WebhookInboxProofs`

- `TypeCorrect`. `TypeOK` is inductive alone.
- `OneWorkerCorrect`: the statement that finishes a message does not ask who has it,
  yet while nothing fails it is always its own. `OneWorker` says it with the
  lock (a worker in its cycle holds it), with the rows (each one in `processing` is in
  a hand) and with the hands (each message is there once and as claimed); it needs
  `EmptyHanded`, that a worker before its claim has nothing. From it, a recovery
  between two cycles finds nothing, and a request leaves rows in a hand alone.
- `ProcessedStaysProcessedCorrect` and `GivenUpCorrect` use `MarksItsOwn`: what a worker
  marks is still `processing` and has the attempts it was claimed with.
  `GivenUpCorrect` adds `RejectedUnusable`: what is rejected was not usable.

`EntitlementsProofs`

- `Inv` is `TypeOK`, `MembersFollowCombination`, `RequestsFit` (what a request in hand
  asks for is something its reading of the plan allows: a choice for the free plan under
  the free plan, the return of a watch rule under a paid one) and `NothingWatchedArchived`.
  `MembersFollow` is one of its parts.
- `StartsWithinPlan`. `Revive` goes over what the user has, the oldest first, and starts
  what still fits; it is a recursive function, and what it computes is shown by going up
  its places one at a time (`UpTo`), each of which starts at most one thing and only within
  its quota (`ReviveOne`). `Grown` is what any such pass may do; `Restored`, what it
  leaves. `CommitSound` is the case of a request: the plan it read is the plan in force,
  which is what `requirePolicyPlan` is for.
- `PausesSurvive`: whatever starts again had been paused by an expiry, or its owner asked
  for it.
- `MayCommit` is an `ENABLED`; the proofs never expand it, they need only that a request
  that commits does what `Commit` says.

`WatchMonitorProofs`

- `NothingIsRepeated`. A fall is seen by comparing a new value with the one a worker
  listed earlier. `FallsPaid` keeps the account: alerts recorded, an alert in hand, and a
  fall not yet seen together are never more than the falls there were. It needs that
  the listed value is the stored one, which the lock gives as long as nothing fails. Checks
  that compare with nothing have an account of their own, `FirstsPaid`: the request's own
  check, and a cycle's while no value is stored (`Unchecked`).
- `TheDayIsLimited`: `RoomForOne` says that a worker about to record an alert has counted
  the day's alerts under the lock.
- `NoticesAreEarned`: `WindowsInTime` says that what a window counts happened in
  its time, through the roll-over to the next window. The windows are updated by a recursive
  helper, of which, as above, each place is shown on its own.

`LogScannerProofs`

- `ConfirmedIsCanonicalCorrect` and `PassedIsRecordedCorrect`, both by `ScansKeepTheWorld`, for
  the scanner alone; `ServicesScan` carries them over to `Services`. A row agrees with the chain
  (`Sound`) when its block is still there, a log of the chain is kept (`Kept`) when it has its
  row, and `Right(h)` says both of everything at and below a height. What makes this inductive
  is that a block vouches for what lies below it: if the chain still has the cursor's block, or
  any block that was scanned, then all below is right (`PassedIsRight`, `ScannedIsRight`), because
  a reorganization that moves a transaction there replaces the block as well. That is why
  the search for an ancestor may trust the first scanned block it finds on the chain.
  Of a scan in progress `ScanInv` says what its local values are good for
  (`ScanPlaces`, `HeadersRead`): below the cursor everything is right once its block was compared
  (`VerifiedIsRight`); a row at a header's block is sound, and where the chain has another block
  now its transactions were moved (`HeadersAreRight`); in the batch what is not kept is still
  to be hydrated (`BatchIsKept`), and what is not sound is still to be compared with
  its header (`BatchIsSound`). When the headers are stored the batch is right (`BatchIsRight`),
  and the cursor passes it. `ReorgStep` is the longest: every exemption of the two properties is
  where it puts a moved transaction.

`MarketServicesProofs`, with `PartsStep`: a step of `Services` is a step of one part and
leaves the others as they are.

- `StandardWatchesOnePoolCorrect` and `MainPoolsAreWatchedCorrect`. `PoolInv` adds what the
  links assume of one another: what is selected is linked, a project has no pools before
  it is created, and a chain's default is a pool of that chain. Linking, which clears
  the other pools of the chain under a standard plan only, and the imposed pool of a
  discovery are lemmas of their own; a plan that changes ends the claim about one pool, and not
  the one about main pools.
- `AssetsAreVerifiedCorrect` and `ProjectsKeepTheirTokensCorrect`. A creation replaces rows,
  moves them from other assets and renames. `AssetInv` keeps through this that a contract
  stands on one asset (`TokenHasOneAsset`), that the contracts of one are of one identity
  (`HeldTogether`), what a name promises (`NamesAreRight`), that a project's contracts are all
  that its asset has on its chains (`ChosenAreHeld`), and that the evidence is there
  (`EvidenceIsKept`). That nothing is lost rests on `CatalogAssumption`: an identity of the
  catalog has one contract on each chain, its `platforms` being a map from chains
  (`assetcatalog/coingecko.go:100`).
- `AlertsFollowCrossingsCorrect`. An alert and the state that remembers it are written one
  after the other. `RuleInv` relates the alerts to the run of the condition they are of: a
  run that is not pending has one (`RunIsAnnounced`), and one only, unless a pass was cut
  short (`OneAlertARun`), because no pass evaluates a snapshot again whose alert the state
  has seen (`AlertsAreSaved`, `OneAlertASnapshot`). The cooldown needs that the alert
  times the next evaluation reads are the last ones (`AlertTimesAreKnown`,
  `PassKnowsRule`).
- `RankEventsMatchCorrect`. Rows are written before the events that announce them.
  `RankInv` says for every place of a refresh what the events say of an address:
  whoever is said to be ranked is (`SaidIsRanked`), whatever was cut short, since a row
  loses its rank only after its exit was announced; and if nothing was cut short whoever is ranked
  is said to be, but for the addresses the refresh has not come to (`RankedIsSaid`).
  `RanksAreInBounds` needs that the candidates are distinct.

`ServicesProofs`, with the scanner's theorems for the composition (`ServicesRecordCorrect`)

- `OneSummaryPerPeriodCorrect` and `ClosedPeriodsWereSentCorrect`. `SummaryInv`: what is recorded
  was sent (`DeliveredWasSent`); what was listed is pending or was sent
  (`ListedArePending`), which closes a period rightly even after a crash or without the
  lock; and while the lock holds and answers arrive, one process sends
  (`OneIsSending`), what was sent is recorded or in its hands (`SentIsDelivered`), and what is
  pending was not sent (`PendingIsUnsent`).
- `UpdatesAreHandledCorrect`. `BotInv`: whatever lies below an offset, or below an update of
  a batch and outside it, was gone through (`OffsetsWereReached`, `BatchesHaveNoGap`), so that
  what DeBox forgets was; and as long as nothing stops, one process polls
  (`OnePolls`) and what it handled lies below its offset (`HandledOnce`).
- `ChallengesAreUsedOnceCorrect`. The exchange is two statements, and a request may
  end between them. `LoginInv` follows the right to a session through both:
  `OneRequestPasses` (one request at most has used a challenge and not yet opened its
  session), `SessionStillToCome` (no session of that challenge is there),
  `SessionsWereSpent` and `SessionsDiffer`. The step that matters is `ConsumeStep`: a
  challenge that is still open was spent by nobody. It fails for a read followed by an
  unconditional update, which is the mutant of the run.


## 5. What the models found

- **A re-included event is lost to the rules that passed it**
  (`MarketRevivedEvent`). `CreateMarketEvent` revives a retracted row in place
  (`store/market_rules.go:686`), so the event is unconfirmed again under an id that
  rule cursors have passed; `ListMarketEventsForTarget` asks for greater ids only.
  The test `TestEvaluateDoesNotAdvancePastUnconfirmedEvent`
  (`marketrules/evaluator_test.go:429`) states the intent for one evaluation. The
  property of the whole program, `PassedEventsAreAnnounced`, therefore exempts
  events in `revived`.
- **A re-included event may not be revived at all** (`RetractedForGood`). A webhook
  stores an event from a block that a reorganization replaces before the scanner
  gets there. The scanner meets the transaction in its new block, finds a live row
  and leaves the old block in it; the same scan then retires that row because its
  hash is not canonical (`marketcollector/scanner.go:152`), and passes the block.
  The comment at `store/market_rules.go:682` wants the row revived "instead of
  silently leaving it marked as reorged", but `existing.Reorged == 1` was not yet
  true when the scanner asked. It needs the same log index in both blocks, as the
  row's key has it. `PassedIsRecorded` therefore exempts `overtaken` rows.
- **A payment mined between two readings is refused for good** (`PaymentRace`).
  The transaction is read while it waits and its receipt when it is mined:
  `validateTransaction` (`payment/service.go:517`) finds different block numbers and
  the order fails, although the page promises to keep waiting
  (`static/i18n.js:1116`). A failed order is neither reconciled nor claimable.
- **A valid resend is acknowledged and dropped** (`InboxResend`). A delivery refused
  with 401 is stored as a pending row that can only die. A valid resend of it that
  comes before the inbox task has seen the row is neither new nor "previously
  failed/dead" (`store/market_ingestion.go:314-318`): it is answered with 200, which
  the provider takes for success (`httpapi/market_webhook_routes.go:51`), and its
  payload is not kept. A scan of the logs may find the transaction later; the inbox
  does not.

What else came up while modelling. No sentence of the repository says otherwise, so no
run states a violation; where a property above has an exemption, this is the reason.

- *Alert pipeline.* An alert whose window row was not yet written when its worker died
  stays `staged` for ever (`marketrules/service.go:627`). A closed window that waits to be
  sent is not recounted after a retraction (`store/market_delivery.go:1003`). The members
  of a digest are marked from the table at completion, not from what was listed (`:1583`),
  so a member added by a second worker or retracted meanwhile is marked with the rest.
  `CreateMarketRuleEvent` does not look at the run status (`store/market_rules.go:1040`).
  Pending watch triggers are taken in id order and one outside its window is never
  recorded (`store/market_delivery.go:929`): enough of them starve the rest. The scan and
  the webhook task insert events at the same time, each with an id taken before its commit
  (`store/market_rules.go:616`), and cursors pass ids (`store/market_rules.go:929`):
  should the lower id of two become visible after an evaluation has seen the higher one,
  its event is passed in silence. `InsertEvent` allows it, and `PassedEventsAreAnnounced`
  exempts the alerts about such events (`overtaken`). A digest names 5 of
  its members at most, and its completion marks all of them as sent: of the others the
  chat has seen only the number.
- *Snapshot rules.* `last_triggered_at` is written at the end of the pass: one that stops
  after the alert of its first pool loses the rule's cooldown. A value that is missing
  counts as a condition not met, so the alert repeats when it is back.
- *Holders.* A first refresh cut short makes the holders it had not reached be announced
  as entered. An entry whose event was lost is not announced again; an exit may be
  announced twice.
- *Payments.* A payment that commits just before a crash leaves the rules paused until
  the user restores them. A transaction that is never mined keeps its order confirming
  (`payment/service.go:421`), and a reorganization between the receipt and the head is
  counted as confirmations (`:453`).
- *Entitlements.* After a bought plan has expired, the rule chosen for the free plan is
  shown as active by one query and left out by the one that feeds the monitor
  (`store/rules.go:412`). A visit reads the chosen rule before its fallback transaction,
  so a rule chosen in between is paused (`subscription/service.go:90`). Binding a lower
  permanent plan leaves what was above its quota running.
- *Monitor.* The value is stored before the trigger (`monitor/executor.go:244`): a crash
  in between loses the alert. The first check of a new rule uses the row as inserted and
  may repeat the alert of a cycle that came first (`management/service.go:296`), so a fall may
  be announced twice; `NoRepeatedAlert` allows for two alerts of such checks and no more.
  Deleting a rule deletes its alerts, and the day's count with them.
- *Scanner.* A reorganization deeper than the lookback finds no canonical ancestor and
  stops the scan of that chain for good (`marketcollector/scanner.go:309`).
  `MarkMarketBlockConfirmed` compares heights only: a webhook that stalls between its
  reading and its insertion past a reorganization and a scan has a stale row confirmed
  (`store/market_rules.go:939`). So has one that stores an event from below the first block
  scanned: if its block is replaced before the first cursor is set, no scan compares the row
  (`NeverCompared`). TLC finds this with one block more than the run has; it is why the inductive
  invariant, and with it `ConfirmedIsCanonical`, exempts such rows.
- *Webhook.* One deleted at Nodit is recorded as an error and never created again.
- *Projects.* Discovery may make a pool the default of a chain that the user has switched
  off (`store/market_collection.go:340`); `MainPoolsAreWatched` exempts it as `imposed`. A
  change to the standard plan leaves several pools selected. A creation by another user
  may rename a shared asset.
- *Summaries.* A crash between a message and its record sends it again
  (`summary/executor.go:211`).
- *Login.* A crash between the two statements of the exchange uses the challenge up
  without a session (`auth/service.go:186`).


## 6. Limits

Only model-checked: liveness (`DeliveriesSettle`, `ConfirmingSettles`,
`MessagesSettle`, `PaidWorkStops`, `RulesAreChecked`, `ScannerCatchesUp`,
`PrivateChatIsServed`, `WebhookSettles`), which is out of the prover's reach. Every
invariant and action property of a run is proved. Proved and not in a run:
`TypeOK` of the modules proved about, `AlertsKeepTheOutbox`, `HandoverWithoutFaults`,
`CyclesExclude` and `UnsettledHasAttempts`.

Not modelled: combination windows and digests of market rules, and rules on a token's
launch progress; the conditions a rule sets on an event; texts, languages and
templates; amounts and addresses (a transaction pays an order exactly or does not); the
initialization of pools, the counters of compute units and the rate limiter; edits of a
rule; the reading of configuration; database failures that are not the failure of the
worker that meets them. Components with no protocol state (views, HTTP decoding,
catalog caches, parsing, migrations) stay out for good; the reason is with each in
`PROJECT.json`.

Nine parts are checked apart from one another in `Services` because they share no table
that another one writes, with two exceptions that are modelled from both sides: what the
scanner writes to `market_events` are chain actions of `MarketDelivery`, and the plan is
a choice in `PoolSelection` and `DailySummary`, whose rules are `Entitlements`'.


## 7. The plan

What is left, in order of importance:

1. Combination windows and watch triggers of the market pipeline, in a module beside
   `MarketDelivery` that shares its claim and completion.
2. `LogScanner` composed with `MarketDelivery`: its effect on `market_events` shown to
   implement the chain actions there.
3. Pure algorithms against reference definitions: webhook and delivery back-off, window
   bounds, the rate limiter.
