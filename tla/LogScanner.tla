------------------------------ MODULE LogScanner ------------------------------
(* The log scanner of one chain (internal/marketcollector/scanner.go): from a    *)
(* persisted cursor it reads the logs of the blocks that are old enough, turns   *)
(* their transactions into market events, and rewinds when the block its cursor  *)
(* stands on has left the chain.  A webhook worker inserts the same events ahead *)
(* of it, unconfirmed, and the chain reorganizes between any two of its calls.   *)
(* Every call to the node and every database transaction is a step of its own.   *)
EXTENDS Integers, FiniteSets, Sequences, FiniteSetsExt

CONSTANTS
  Tx,                 \* transactions with one watched log each
  Index,              \* positions of a log in its block
  StartHeight,        \* the chain's length when the service first starts
  MaxHeight,          \* bound: the chain's length
  ConfirmationDepth,  \* Settings.ConfirmationDepth
  InitialLookback,    \* Settings.InitialLookback
  ScanBatchSize,      \* Settings.ScanBatchSize
  ReorgLookback,      \* Settings.ReorgLookback
  MaxReorgs,          \* bound: reorganizations
  ReorgDepth,         \* the deepest reorganization
  MaxHooks,           \* bound: transactions a webhook delivers
  MaxFaults           \* bound: crashes and failed calls of the scanner

ASSUME ConfirmationsAssumption ==
  /\ ConfirmationDepth \in Nat
  /\ InitialLookback \in Nat \ {0}
  /\ ScanBatchSize \in Nat \ {0}
(* The chain is longer than the service looks back on it. *)
ASSUME ChainAssumption ==
  /\ StartHeight \in Nat
  /\ MaxHeight \in Nat
  /\ StartHeight <= MaxHeight
  /\ ReorgDepth \in 0..StartHeight - 1
  /\ ConfirmationDepth + InitialLookback < StartHeight

VARIABLES
  chain,      \* the node's blocks: which fork mined each, and what it holds
  cursor,     \* market_chain_cursors: the next block and the hash before it
  scanned,    \* market_scanned_blocks: the canonical row's hash at each height
  event,      \* market_events: the row of each transaction and log index
  scan,       \* the scanner's place in its code, and its local values
  hook,       \* the webhook worker's
  forks, hooks, faults,       \* bounds
  baseline,   \* history: where the first scan began
  overtaken,  \* history: unconfirmed rows whose block left the chain
  unseen      \* history: transactions moved where the scanner does not look again

vars == <<chain, cursor, scanned, event, scan, hook, forks, hooks, faults,
          baseline, overtaken, unseen>>

-----------------------------------------------------------------------------
(* The chain.  A fork mines at most one block at a height, so a height and a
   fork together are a block's hash.  A transaction that moves to another block
   may find its log at another index, and the index is part of the event's key. *)
Height == 1..MaxHeight
NoFork == -1
Log == Tx \X Index
Latest == Len(chain)
SafeBlock == Latest - ConfirmationDepth
Logs(from, to) == UNION {chain[h].logs : h \in Max({1, from})..Min({to, Latest})}
Included == {l[1] : l \in Logs(1, Latest)}
LogOf(t) == CHOOSE l \in Logs(1, Latest) : l[1] = t

NoPlace == [height |-> 0, fork |-> NoFork]
Place(l) ==
  LET at == {h \in 1..Latest : l \in chain[h].logs}
  IN IF at = {} THEN NoPlace ELSE [height |-> Min(at), fork |-> chain[Min(at)].fork]

(* Rows of market_events. *)
NoRow == [place |-> NoPlace, confirmed |-> FALSE, reorged |-> FALSE]
Live(l) == event[l] # NoRow /\ ~event[l].reorged

(* What hydration finds of a log: its event's key and its block. *)
Parsed(l) == [log |-> l, at |-> Place(l)]

Lowest(h, S) == h \in S /\ \A g \in S : h <= g
Highest(h, S) == h \in S /\ \A g \in S : g <= h

Idle == [pc |-> "idle", safe |-> 0, to |-> 0, logs |-> {},
         headers |-> [h \in Height |-> NoFork], queue |-> {},
         txs |-> {}, found |-> {}]
NoHook == {}
NoCursor == [next |-> 0, hash |-> NoFork]
Fetched == {h \in Height : scan.headers[h] # NoFork}

TypeOK ==
  /\ \A h \in 1..Latest : chain[h].fork \in 0..MaxReorgs /\ chain[h].logs \subseteq Log
  /\ Latest \in 1..MaxHeight
  /\ cursor.next \in 0..MaxHeight + 1
  /\ scanned \in [Height -> NoFork..MaxReorgs]
  /\ \A l \in Log : event[l].place.height \in 0..MaxHeight
  /\ scan.to \in 0..MaxHeight

-----------------------------------------------------------------------------
(* Chain and node. *)
Mine ==
  /\ Latest < MaxHeight
  /\ \E new \in SUBSET (Tx \ Included) : \E index \in [new -> Index] :
       chain' = Append(chain, [fork |-> forks, logs |-> {<<t, index[t]>> : t \in new}])
  /\ UNCHANGED <<cursor, scanned, event, scan, hook, forks, hooks, faults,
                 baseline, overtaken, unseen>>

(* The height up to which the scan going on will not look again: what lies below
   the cursor once its block is compared, and the batch once its logs are read. *)
Trusted ==
  CASE scan.pc \in {"idle", "initHeader", "initBlock", "initCursor", "verify", "search"} -> 0
    [] scan.pc \in {"reconcile", "logs"} -> cursor.next - 1
    [] OTHER -> Max({cursor.next - 1, scan.to})

(* The blocks above k are replaced by one block more.  Their transactions, and
   those not yet mined, come back at any height of the new branch or not at all. *)
Reorg ==
  /\ forks < MaxReorgs
  /\ Latest < MaxHeight
  /\ \E k \in Latest - ReorgDepth .. Latest - 1 :
     LET free == (Tx \ Included) \cup {l[1] : l \in Logs(k + 1, Latest)}
         Replaced(l) == Live(l) /\ event[l].place.height > k
         Caught(found) == {p.log[1] : p \in {q \in found : q.at.height > k}}
     IN \E to \in [free -> {0} \cup k + 1 .. Latest + 1], index \in [free -> Index] :
        /\ chain' = [h \in 1..Latest + 1 |->
             IF h <= k THEN chain[h]
             ELSE [fork |-> forks + 1,
                   logs |-> {<<t, index[t]>> : t \in {x \in free : to[x] = h}}]]
        /\ overtaken' = overtaken \cup {l \in Log : Replaced(l) /\ ~event[l].confirmed}
        /\ unseen' = unseen \cup Caught(hook) \cup Caught(scan.found)
             \cup {l[1] : l \in {x \in Log : /\ Replaced(x) /\ event[x].confirmed
                                            /\ event[x].place.height >= cursor.next}}
             \cup {l[1] : l \in {x \in Log : Replaced(x) /\ event[x].place.height <= Trusted}}
             \cup {t \in free : to[t] \in 1..Trusted}
  /\ forks' = forks + 1
  /\ UNCHANGED <<cursor, scanned, event, scan, hook, hooks, faults, baseline>>

-----------------------------------------------------------------------------
(* Database operations. *)

(* CreateMarketEvent: one row per event key.  A live row is left as it is; a
   retired one is revived with its new block. *)
CreateMarketEvent(l, at, confirmed) ==
  event' = IF Live(l) THEN event
           ELSE [event EXCEPT ![l] =
                   [place |-> at, confirmed |-> confirmed, reorged |-> FALSE]]

MarkMarketBlockConfirmed(through) ==
  event' = [l \in Log |-> IF Live(l) /\ event[l].place.height <= through
                          THEN [event[l] EXCEPT !.confirmed = TRUE] ELSE event[l]]

Retire(Gone(_)) ==
  event' = [l \in Log |->
    IF Live(l) /\ Gone(event[l].place)
    THEN [event[l] EXCEPT !.reorged = TRUE, !.confirmed = FALSE] ELSE event[l]]

(* Variant: nothing is retired. *)
RetireNone(h, fork) == UNCHANGED event
MarkMarketBlockReorged(h, fork) ==
  Retire(LAMBDA p : p.height = h /\ p.fork # fork)

UpsertMarketScannedBlock(h, fork) == scanned' = [scanned EXCEPT ![h] = fork]

AdvanceMarketChainCursor(next, hash) ==
  cursor' = IF next >= cursor.next THEN [next |-> next, hash |-> hash] ELSE cursor

ListCanonicalMarketScannedBlocks ==
  LET found == {h \in Height : h < cursor.next /\ scanned[h] # NoFork}
  IN {h \in found : Cardinality({g \in found : g > h}) < ReorgLookback}

(* Variant: the cursor stays where it is. *)
KeepCursor(a) == cursor' = [cursor EXCEPT !.hash = scanned[a]]
RewindCursor(a) == cursor' = [next |-> a + 1, hash |-> scanned[a]]

ReconcileMarketReorg(a) ==
  /\ scanned' = [h \in Height |-> IF h > a THEN NoFork ELSE scanned[h]]
  /\ Retire(LAMBDA p : p.height > a)
  /\ RewindCursor(a)

-----------------------------------------------------------------------------
(* The scanner. *)
world == <<chain, forks, hook, hooks, faults, overtaken, unseen>>

(* Variant: the safe block itself is left out. *)
SafeLeftOut == cursor.next >= SafeBlock
AllScanned == cursor.next > SafeBlock

(* scanLogsOnce reads the head; above the safe block it only confirms. *)
ReadHead ==
  /\ scan.pc = "idle"
  /\ SafeBlock > 0
  /\ scan' = [scan EXCEPT !.safe = SafeBlock, !.to = SafeBlock,
                !.pc = IF cursor = NoCursor THEN "initHeader"
                       ELSE IF AllScanned THEN "confirm" ELSE "verify"]
  /\ UNCHANGED <<world, cursor, scanned, event, baseline>>

(* initializeCursor: the first block to scan, and the header before it. *)
FirstBlock == Max({1, scan.safe - InitialLookback + 1})
InitHeader ==
  /\ scan.pc = "initHeader"
  /\ scan' = [scan EXCEPT !.pc = "initBlock",
                !.headers[FirstBlock - 1] = chain[FirstBlock - 1].fork]
  /\ UNCHANGED <<world, cursor, scanned, event, baseline>>
InitBlock ==
  /\ scan.pc = "initBlock"
  /\ UpsertMarketScannedBlock(FirstBlock - 1, scan.headers[FirstBlock - 1])
  /\ scan' = [scan EXCEPT !.pc = "initCursor"]
  /\ UNCHANGED <<world, cursor, event, baseline>>
InitCursor ==
  /\ scan.pc = "initCursor"
  /\ AdvanceMarketChainCursor(FirstBlock, scan.headers[FirstBlock - 1])
  /\ baseline' = FirstBlock
  /\ scan' = [scan EXCEPT !.pc = "verify", !.headers = Idle.headers]
  /\ UNCHANGED <<world, scanned, event>>

(* verifyCursorContinuity: the header of the cursor's block, then, newest first,
   those of the blocks scanned before. *)
VerifyCursorContinuity ==
  /\ scan.pc = "verify"
  /\ scan' = IF chain[cursor.next - 1].fork = cursor.hash
             THEN [scan EXCEPT !.pc = "logs"]
             ELSE [scan EXCEPT !.pc = "search", !.queue = ListCanonicalMarketScannedBlocks]
  /\ UNCHANGED <<world, cursor, scanned, event, baseline>>
SearchAncestor ==
  /\ scan.pc = "search"
  /\ \/ scan.queue = {} /\ scan' = Idle        \* ErrNoCanonicalAncestor
     \/ \E h \in scan.queue :
          /\ Highest(h, scan.queue)
          /\ scan' = IF chain[h].fork = scanned[h]
                     THEN [scan EXCEPT !.pc = "reconcile", !.queue = {}, !.to = h]
                     ELSE [scan EXCEPT !.queue = scan.queue \ {h}]
  /\ UNCHANGED <<world, cursor, scanned, event, baseline>>
Reconcile ==
  /\ scan.pc = "reconcile"
  /\ ReconcileMarketReorg(scan.to)
  /\ scan' = [scan EXCEPT !.pc = "logs"]
  /\ UNCHANGED <<world, baseline>>

(* fetchCollectionLogs: the watched logs of a batch of blocks. *)
FetchCollectionLogs ==
  /\ scan.pc = "logs"
  /\ LET to == Min({cursor.next + ScanBatchSize - 1, scan.safe})
         found == Logs(cursor.next, to)
         heights == {Place(l).height : l \in found}
     IN scan' = [scan EXCEPT !.pc = "headers", !.to = to, !.txs = {l[1] : l \in found},
                   !.logs = {Place(l) : l \in found},
                   !.queue = heights \cup {to}]
  /\ UNCHANGED <<world, cursor, scanned, event, baseline>>

FetchBlockHeader ==
  /\ scan.pc = "headers"
  /\ \E h \in scan.queue :
       /\ h = scan.to \/ (scan.to \notin scan.queue /\ Lowest(h, scan.queue))
       /\ scan' = [scan EXCEPT !.headers[h] = chain[h].fork, !.queue = scan.queue \ {h}]
  /\ UNCHANGED <<world, cursor, scanned, event, baseline>>

(* "market log block changed during scan" ends the scan. *)
LogsMatchHeaders == \A p \in scan.logs : scan.headers[p.height] = p.fork
CompareHashes ==
  /\ scan.pc = "headers" /\ scan.queue = {}
  /\ scan' = IF LogsMatchHeaders THEN [scan EXCEPT !.pc = "hydrate", !.logs = {}] ELSE Idle
  /\ UNCHANGED <<world, cursor, scanned, event, baseline>>

(* hydrateParseAndPersist: transaction, receipt and block are read, and the
   event is stored afterwards. *)
Hydrate ==
  /\ scan.pc = "hydrate" /\ scan.txs # {}
  /\ \E t \in scan.txs :
       scan' = IF t \notin Included THEN Idle
               ELSE [scan EXCEPT !.pc = "persist", !.found = {Parsed(LogOf(t))}]
  /\ UNCHANGED <<world, cursor, scanned, event, baseline>>
PersistParsedEvent ==
  /\ scan.pc = "persist"
  /\ \E p \in scan.found :
     /\ CreateMarketEvent(p.log, p.at, TRUE)
     /\ scan' = [scan EXCEPT !.pc = "hydrate", !.found = {}, !.txs = scan.txs \ {p.log[1]}]
  /\ UNCHANGED <<world, cursor, scanned, baseline>>

(* Rows that a webhook left unconfirmed in this batch are compared with the
   header of their height. *)
ListUnconfirmedMarketEventBlocks ==
  /\ scan.pc = "hydrate" /\ scan.txs = {}
  /\ LET open == {l \in Log : Live(l) /\ ~event[l].confirmed
                              /\ event[l].place.height \in cursor.next..scan.to}
     IN scan' = [scan EXCEPT !.pc = "retire",
                   !.queue = {event[l].place.height : l \in open}]
  /\ UNCHANGED <<world, cursor, scanned, event, baseline>>
FetchUnconfirmedHeader ==
  /\ scan.pc = "retire"
  /\ \E h \in scan.queue \ Fetched :
       /\ Lowest(h, scan.queue)
       /\ scan' = [scan EXCEPT !.headers[h] = chain[h].fork]
  /\ UNCHANGED <<world, cursor, scanned, event, baseline>>
RetireUnconfirmed ==
  /\ scan.pc = "retire"
  /\ \E h \in scan.queue \cap Fetched :
       /\ Lowest(h, scan.queue)
       /\ MarkMarketBlockReorged(h, scan.headers[h])
       /\ scan' = [scan EXCEPT !.queue = scan.queue \ {h}]
  /\ UNCHANGED <<world, cursor, scanned, baseline>>

(* The fetched headers are stored as scanned blocks, in ascending order. *)
StoreScannedBlocks ==
  /\ scan.pc = "retire" /\ scan.queue = {}
  /\ scan' = [scan EXCEPT !.pc = "store", !.queue = Fetched]
  /\ UNCHANGED <<world, cursor, scanned, event, baseline>>
StoreScannedBlock ==
  /\ scan.pc = "store"
  /\ \E h \in scan.queue :
       /\ Lowest(h, scan.queue)
       /\ UpsertMarketScannedBlock(h, scan.headers[h])
       /\ scan' = [scan EXCEPT !.queue = scan.queue \ {h}]
  /\ UNCHANGED <<world, cursor, event, baseline>>

AdvanceCursor ==
  /\ scan.pc = "store" /\ scan.queue = {}
  /\ AdvanceMarketChainCursor(scan.to + 1, scan.headers[scan.to])
  /\ scan' = [scan EXCEPT !.pc = "confirm", !.headers = Idle.headers]
  /\ UNCHANGED <<world, scanned, event, baseline>>
ConfirmScanned ==
  /\ scan.pc = "confirm"
  /\ MarkMarketBlockConfirmed(scan.to)
  /\ scan' = Idle
  /\ UNCHANGED <<world, cursor, scanned, baseline>>

ScanStep ==
  \/ ReadHead \/ InitHeader \/ InitBlock \/ InitCursor
  \/ VerifyCursorContinuity \/ SearchAncestor \/ Reconcile
  \/ FetchCollectionLogs \/ FetchBlockHeader \/ CompareHashes
  \/ Hydrate \/ PersistParsedEvent
  \/ ListUnconfirmedMarketEventBlocks \/ FetchUnconfirmedHeader \/ RetireUnconfirmed
  \/ StoreScannedBlocks \/ StoreScannedBlock \/ AdvanceCursor \/ ConfirmScanned

(* A call fails, or the process dies: the scan ends where it is.  The error it
   may leave in the cursor's status changes neither its block nor its hash. *)
ScanFails ==
  /\ scan.pc # "idle" /\ faults < MaxFaults
  /\ faults' = faults + 1
  /\ scan' = Idle
  /\ UNCHANGED <<chain, cursor, scanned, event, hook, forks, hooks,
                 baseline, overtaken, unseen>>

-----------------------------------------------------------------------------
(* The webhook worker: the same hydration, stored unconfirmed.  A message it
   cannot process is retried by WebhookInbox. *)
HookReads ==
  /\ hook = NoHook /\ hooks < MaxHooks
  /\ \E t \in Included : hook' = {Parsed(LogOf(t))}
  /\ hooks' = hooks + 1
  /\ UNCHANGED <<chain, cursor, scanned, event, scan, forks, faults,
                 baseline, overtaken, unseen>>
HookPersists ==
  /\ \E p \in hook : CreateMarketEvent(p.log, p.at, FALSE)
  /\ hook' = NoHook
  /\ UNCHANGED <<chain, cursor, scanned, scan, forks, hooks, faults,
                 baseline, overtaken, unseen>>

-----------------------------------------------------------------------------
Init ==
  /\ chain = [h \in 1..StartHeight |-> [fork |-> 0, logs |-> {}]]
  /\ cursor = NoCursor
  /\ scanned = [h \in Height |-> NoFork]
  /\ event = [l \in Log |-> NoRow]
  /\ scan = Idle
  /\ hook = NoHook
  /\ forks = 0 /\ hooks = 0 /\ faults = 0
  /\ baseline = 0
  /\ overtaken = {} /\ unseen = {}

Next ==
  \/ Mine \/ Reorg
  \/ ScanStep \/ ScanFails
  \/ HookReads \/ HookPersists

Spec == Init /\ [][Next]_vars
(* The runner starts the scanner at every tick, so it keeps taking steps; the
   worker ends what it has begun. *)
FairSpec == Spec /\ WF_vars(ScanStep) /\ WF_vars(HookPersists)

-----------------------------------------------------------------------------
(* The cursor's block is on the chain: nothing tells the scanner otherwise. *)
CursorOnChain ==
  cursor # NoCursor /\ chain[cursor.next - 1].fork = cursor.hash

(* A webhook stored an event below the block where the first scan began, and its
   block was replaced: no scan compares it with the chain, and it is confirmed
   with what lies below the cursor. *)
NeverCompared(l) == l \in overtaken /\ event[l].place.height < baseline

(* A confirmed event is where the chain has its transaction.  Exempt are, with the
   events never compared, the transactions that a reorganization moved behind the
   scanner's back: below the blocks it had verified in the scan going on, between
   reading and storing, or in a batch that was stored and never finished. *)
ConfirmedIsCanonical ==
  CursorOnChain =>
    \A l \in Log :
      Live(l) /\ event[l].confirmed /\ l[1] \notin unseen /\ ~NeverCompared(l)
        => event[l].place = Place(l)

(* Every log in the blocks the cursor has passed has its event, live and at the
   log's block.  Exempt besides are events a webhook stored from a block that
   was replaced before the scanner came to it. *)
Passed(l) == Place(l).height \in baseline..cursor.next - 1
PassedIsRecorded ==
  CursorOnChain =>
    \A l \in Log \ overtaken :
      Passed(l) /\ l[1] \notin unseen => Live(l) /\ event[l].place = Place(l)

(* The comment in CreateMarketEvent: a transaction that is included again after
   a shallow reorganization is not left marked as reorged, once the scanner has
   passed the block that holds it now. *)
ReincludedIsRevived ==
  scan.pc = "idle" /\ CursorOnChain =>
    \A l \in Log : Passed(l) /\ l[1] \notin unseen => ~event[l].reorged

(* The scanner reaches the safe block and stays there, and what it has passed
   is confirmed. *)
CaughtUp ==
  /\ cursor.next > SafeBlock
  /\ \A l \in Log : Live(l) /\ event[l].place.height < cursor.next
                    => event[l].confirmed
=============================================================================
