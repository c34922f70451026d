----------------------------- MODULE HolderRanks -----------------------------
(* The largest holders of a token (internal/marketrules/holders.go): the rule    *)
(* engine fetches them from Nodit, stores a row for each and announces changed   *)
(* balances and who enters or leaves the ranking.  Every row and every event is  *)
(* a database call of its own; a refresh that stops is not taken up again, the   *)
(* next one starts from the rows it left.  Excluded addresses (pools, managers,  *)
(* the token itself) are not among the holders here.                             *)
EXTENDS Integers, FiniteSets, Sequences

CONSTANTS
  Holder,       \* addresses that may hold the token
  RankLimit,    \* defaultHolderRankLimit
  MaxHolding,   \* bound: what an address holds
  MaxTrades,    \* bound: changes of a holding
  MaxCutShort   \* bound: refreshes that fail or crash

VARIABLES
  holding,      \* external: what each address holds
  holderRows,   \* market_holders: each address's stored balance and rank
  fresh,        \* a row was updated within HolderRefreshInterval
  refresh,      \* refreshProjectHolders: its place and local values
  trades, cutShort,  \* bounds
  holderEvents, \* market_events of each address
  baseline      \* history: addresses whose rank the first refresh stored

holderVars == <<holding, holderRows, fresh, refresh, trades, cutShort, holderEvents, baseline>>

-----------------------------------------------------------------------------
Unranked == 0
NoHolderRow == [balance |-> 0, rank |-> -1]
InRanking(row) == row.rank \in 1..RankLimit
Stored(rows) == {h \in Holder : rows[h] # NoHolderRow}

RefreshIdle == [pc |-> "idle", todo |-> <<>>, current |-> {}, left |-> {},
                old |-> [h \in Holder |-> NoHolderRow]]
InitialBaseline(old) == Stored(old) = {}
At == refresh.todo[1].address

(* TokenHoldersByContract and the stable sort of its page: the largest first, equal
   ones in the order that Nodit lists them in. *)
Listed == CHOOSE at \in [Holder -> 1..Cardinality(Holder)] :
            \A g, h \in Holder : g # h => at[g] # at[h]
Above(g, h) == holding[g] > holding[h] \/ (holding[g] = holding[h] /\ Listed[g] < Listed[h])
Rankings ==
  LET held == {h \in Holder : holding[h] > 0}
      n == IF Cardinality(held) < RankLimit THEN Cardinality(held) ELSE RankLimit
  IN {page \in [1..n -> held] :
        /\ \A i, j \in 1..n : i < j => Above(page[i], page[j])
        /\ \A i \in 1..n, h \in held : Above(h, page[i]) => \E j \in 1..n : page[j] = h}
Candidates(page) == [i \in DOMAIN page |-> [address |-> page[i], balance |-> holding[page[i]]]]
NextRow == [balance |-> refresh.todo[1].balance, rank |-> Cardinality(refresh.current) + 1]
Emit(h, type) == holderEvents' = [holderEvents EXCEPT ![h] = Append(@, type)]

-----------------------------------------------------------------------------
(* ListMarketProjectsDueHolderRefresh, the page and projectHolderBaseline. *)
FetchHolders ==
  /\ refresh.pc = "idle" /\ ~fresh
  /\ \E page \in Rankings :
       refresh' = [RefreshIdle EXCEPT !.pc = "upsert", !.todo = Candidates(page), !.old = holderRows]
  /\ UNCHANGED <<holding, holderRows, fresh, trades, cutShort, holderEvents, baseline>>

UpsertMarketHolder ==
  /\ refresh.pc = "upsert" /\ refresh.todo # <<>>
  /\ holderRows' = [holderRows EXCEPT ![At] = NextRow]
  /\ fresh' = TRUE
  /\ IF InitialBaseline(refresh.old)
     THEN /\ baseline' = baseline \cup {At}
          /\ refresh' = [refresh EXCEPT !.todo = Tail(@), !.current = @ \cup {At}]
     ELSE /\ refresh' = [refresh EXCEPT !.pc = "balance", !.current = @ \cup {At}]
          /\ UNCHANGED baseline
  /\ UNCHANGED <<holding, trades, cutShort, holderEvents>>

BalanceEvent(h) ==
  CASE holderRows[h].balance > refresh.old[h].balance -> "increase"
    [] holderRows[h].balance < refresh.old[h].balance -> "decrease"
RecordHolderBalanceChange ==
  /\ refresh.pc = "balance"
  /\ refresh' = [refresh EXCEPT !.pc = "rank"]
  /\ IF At \in Stored(refresh.old) /\ holderRows[At].balance # refresh.old[At].balance
     THEN Emit(At, BalanceEvent(At)) ELSE UNCHANGED holderEvents
  /\ UNCHANGED <<holding, holderRows, fresh, trades, cutShort, baseline>>

(* Variant: an address that has a row is not announced. *)
NewAddress(h) == h \notin Stored(refresh.old)
Enters(h) == ~InRanking(refresh.old[h])
RecordHolderRankEntered ==
  /\ refresh.pc = "rank"
  /\ refresh' = [refresh EXCEPT !.pc = "upsert", !.todo = Tail(@)]
  /\ IF Enters(At) THEN Emit(At, "entered") ELSE UNCHANGED holderEvents
  /\ UNCHANGED <<holding, holderRows, fresh, trades, cutShort, baseline>>

Exiting == {h \in Holder \ (refresh.current \cup refresh.left) : InRanking(refresh.old[h])}
RecordHolderRankExited ==
  /\ refresh.pc = "upsert" /\ refresh.todo = <<>>
  /\ \E h \in Exiting :
       /\ Emit(h, "exited")
       /\ refresh' = [refresh EXCEPT !.left = @ \cup {h}]
  /\ UNCHANGED <<holding, holderRows, fresh, trades, cutShort, baseline>>

ClearMarketHolderRanksOutsideSnapshot ==
  /\ refresh.pc = "upsert" /\ refresh.todo = <<>> /\ Exiting = {}
  /\ LET cleared == {h \in Holder \ refresh.current : holderRows[h].rank > Unranked} IN
     /\ holderRows' = [h \in Holder |->
          IF h \in cleared THEN [holderRows[h] EXCEPT !.rank = Unranked] ELSE holderRows[h]]
     /\ fresh' = (fresh \/ cleared # {})
  /\ refresh' = RefreshIdle
  /\ UNCHANGED <<holding, trades, cutShort, holderEvents, baseline>>

(* A call fails, or the process ends. *)
CutShort ==
  /\ refresh.pc # "idle" /\ cutShort < MaxCutShort
  /\ cutShort' = cutShort + 1
  /\ refresh' = RefreshIdle
  /\ UNCHANGED <<holding, holderRows, fresh, trades, holderEvents, baseline>>

(* Holders trade; the rows grow old between two refreshes. *)
Trade ==
  /\ trades < MaxTrades
  /\ trades' = trades + 1
  /\ \E h \in Holder : \E held \in 0..MaxHolding \ {holding[h]} :
       holding' = [holding EXCEPT ![h] = held]
  /\ UNCHANGED <<holderRows, fresh, refresh, cutShort, holderEvents, baseline>>
IntervalPasses ==
  /\ fresh /\ refresh.pc = "idle"
  /\ fresh' = FALSE
  /\ UNCHANGED <<holding, holderRows, refresh, trades, cutShort, holderEvents, baseline>>

Init ==
  /\ holding \in [Holder -> {0, MaxHolding}]
  /\ holderRows = [h \in Holder |-> NoHolderRow]
  /\ fresh = FALSE
  /\ refresh = RefreshIdle
  /\ trades = 0 /\ cutShort = 0
  /\ holderEvents = [h \in Holder |-> <<>>]
  /\ baseline = {}

RefreshStep ==
  \/ FetchHolders \/ UpsertMarketHolder
  \/ RecordHolderBalanceChange \/ RecordHolderRankEntered \/ RecordHolderRankExited
  \/ ClearMarketHolderRanksOutsideSnapshot
Next == RefreshStep \/ CutShort \/ Trade \/ IntervalPasses
Spec == Init /\ [][Next]_holderVars

-----------------------------------------------------------------------------
(* What is known of an address's rank: event 0 is what the silent baseline says. *)
Numbers(h) == 0..Len(holderEvents[h])
Event(h, i) ==
  IF i > 0 THEN holderEvents[h][i] ELSE IF h \in baseline THEN "entered" ELSE "exited"
NoneOfRank(h, from, to) == \A i \in from..to : Event(h, i) \notin {"entered", "exited"}
Repeated(h, type) ==
  \E i, j \in Numbers(h) : /\ i < j /\ NoneOfRank(h, i + 1, j - 1)
                           /\ Event(h, i) = type /\ Event(h, j) = type
Last(h, type) ==
  \E i \in Numbers(h) : Event(h, i) = type /\ NoneOfRank(h, i + 1, Len(holderEvents[h]))

(* Who has entered and not left, by the silent baseline and the events, is who is
   ranked, and nobody enters or leaves twice in a row, as long as no refresh was
   cut short.  One that was may lose an entry or repeat an exit, but nobody ever
   enters twice. *)
RankEventsMatch ==
  \A h \in Holder :
    /\ ~Repeated(h, "entered")
    /\ cutShort = 0 =>
         /\ ~Repeated(h, "exited")
         /\ refresh.pc = "idle" => (InRanking(holderRows[h]) <=> Last(h, "entered"))
=============================================================================
