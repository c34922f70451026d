-------------------------- MODULE LogScannerProofs --------------------------
(***************************************************************************)
(* Theorems about the log scanner, for any transactions, reorganizations,  *)
(* webhooks and failures, on a chain of any length that is longer than the *)
(* service looks back on it.                                               *)
(***************************************************************************)
EXTENDS LogScanner, FiniteSetTheorems, SequenceTheorems, TLAPS

-----------------------------------------------------------------------------
(* The inductive invariant: of the tables and the chain, and of a scan. *)

(* The block at the height is the one the place names. *)
Canonical(p) == p.height \in 1..Latest /\ chain[p.height].fork = p.fork
OnChain(l, h) == h \in 1..Latest /\ l \in chain[h].logs
Here(h) == [height |-> h, fork |-> chain[h].fork]

Block == [fork : Nat, logs : SUBSET Log]
BlockPlace == [height : Nat \ {0}, fork : Nat]
EventRow == [place : BlockPlace, confirmed : BOOLEAN, reorged : BOOLEAN]
ParsedLog == [log : Log, at : BlockPlace]

(* The scan has compared the cursor's block, and reads the blocks after it. *)
Batch == {"headers", "hydrate", "persist", "retire", "store"}
Verified == Batch \cup {"logs"}
Initializing == {"initHeader", "initBlock", "initCursor"}

ChainTypes ==
  /\ forks \in Nat
  /\ chain \in Seq(Block)
  /\ Latest \in StartHeight..MaxHeight
  /\ \A h \in 1..Latest : chain[h].fork <= forks
RowTypes ==
  /\ cursor \in [next : Nat, hash : Int]
  /\ cursor = NoCursor \/ (cursor.next \in 2..Latest + 1 /\ cursor.hash \in 0..forks)
  /\ scanned \in [Height -> Int]
  /\ \A h \in Height : scanned[h] = NoFork \/ (scanned[h] \in 0..forks /\ h <= Latest)
  /\ event \in [Log -> {NoRow} \cup EventRow]
  /\ baseline \in Nat
  /\ cursor # NoCursor => baseline > 0
ScanTypes ==
  scan \in [pc : {"idle", "verify", "search", "reconcile", "confirm"}
                   \cup Initializing \cup Verified,
            safe : Int, to : Int, logs : SUBSET [height : Int, fork : Int],
            headers : [Height -> Int], queue : SUBSET Int,
            txs : SUBSET Tx, found : SUBSET ParsedLog]

(* A transaction has one log, in one block. *)
LogsDiffer ==
  \A g, h \in 1..Latest : \A l \in chain[g].logs, m \in chain[h].logs :
    l[1] = m[1] => g = h /\ l = m

(* What was read of a log names a block that the chain has had at that height: if
   the chain still has it, the log is there. *)
Seen(l, p) ==
  /\ p \in BlockPlace /\ p.height <= Latest /\ p.fork <= forks
  /\ chain[p.height].fork = p.fork => l \in chain[p.height].logs
RowsWereSeen == \A l \in Log : event[l] # NoRow => Seen(l, event[l].place)
(* A log that is about to be stored is where it was read, or was moved since. *)
ReadsAreGood(found) ==
  \A p \in found :
    /\ p \in ParsedLog /\ Seen(p.log, p.at)
    /\ Canonical(p.at) \/ p.log[1] \in unseen

(* A live row says where the chain has its log, or is exempt. *)
Sound(l) == Canonical(event[l].place) \/ l[1] \in unseen \/ NeverCompared(l)
SoundThrough(g) == \A l \in Log : Live(l) /\ event[l].place.height <= g => Sound(l)
(* A log of a block has its row, or is exempt. *)
Kept(l, h) == l \in overtaken \/ l[1] \in unseen \/ (Live(l) /\ event[l].place = Here(h))
KeptThrough(g) ==
  \A l \in Log, h \in 1..Latest : OnChain(l, h) /\ baseline <= h /\ h <= g => Kept(l, h)
(* The rows and the blocks agree up to a height. *)
Right(g) == SoundThrough(g) /\ KeptThrough(g)

(* Before the first cursor nothing is confirmed, and the blocks that earlier
   attempts to set it stored are below the one it will be set to. *)
BeforeCursor ==
  cursor = NoCursor =>
    /\ baseline = 0
    /\ \A l \in Log : Live(l) => ~event[l].confirmed
    /\ \A h \in Height : scanned[h] # NoFork => h <= SafeBlock - InitialLookback
(* A webhook's row whose block was replaced is known as such. *)
StaleWereOvertaken ==
  \A l \in Log : Live(l) /\ ~event[l].confirmed =>
    Canonical(event[l].place) \/ l[1] \in unseen \/ l \in overtaken
ConfirmedAbove ==
  \A l \in Log :
    Live(l) /\ event[l].confirmed /\ event[l].place.height >= cursor.next => Sound(l)
(* A block that was scanned, and that the chain still has, vouches for what is
   below it; the cursor's block does the same. *)
PassedIsRight == CursorOnChain => Right(cursor.next - 1)
ScannedIsRight ==
  cursor # NoCursor =>
    \A h \in Height : scanned[h] # NoFork /\ chain[h].fork = scanned[h] => Right(h)

WorldInv == /\ ChainTypes /\ RowTypes
            /\ LogsDiffer /\ RowsWereSeen /\ ReadsAreGood(hook)
            /\ BeforeCursor /\ StaleWereOvertaken /\ ConfirmedAbove
            /\ PassedIsRight /\ ScannedIsRight

(* What the local values of a scan are at each place of its code. *)
ScanPlaces ==
  /\ scan.pc \in Initializing =>
       /\ cursor = NoCursor
       /\ scan.safe \in StartHeight - ConfirmationDepth..SafeBlock
       /\ \A h \in Height : scanned[h] # NoFork => h <= scan.safe - InitialLookback
       /\ scan.pc # "initHeader" => scan.safe - InitialLookback \in Fetched
  /\ scan.pc \notin Initializing \cup {"idle"} => cursor # NoCursor
  /\ scan.pc \in {"verify", "search", "reconcile"} \cup Verified =>
       cursor.next <= scan.safe /\ scan.safe <= SafeBlock
  /\ scan.pc \in Batch => cursor.next <= scan.to /\ scan.to <= scan.safe
  /\ scan.pc = "search" =>
       \A h \in scan.queue : h \in Height /\ h < cursor.next /\ scanned[h] # NoFork
  /\ scan.pc = "reconcile" =>
       scan.to \in Height /\ scan.to < cursor.next /\ scanned[scan.to] # NoFork
  /\ scan.pc \in {"headers", "retire"} =>
       \A h \in scan.queue : cursor.next <= h /\ h <= scan.to
  /\ scan.pc = "headers" => scan.to \in scan.queue \cup Fetched
  /\ scan.pc \in Batch \ {"headers"} => scan.to \in Fetched
  /\ scan.pc = "store" => scan.queue \subseteq Fetched
  /\ scan.pc = "confirm" => scan.to < cursor.next
HeadersRead ==
  \A h \in Fetched :
    /\ h <= Latest /\ scan.headers[h] \in 0..forks
    /\ scan.pc \in Batch \cup {"initBlock", "initCursor"}
    /\ scan.pc \in Batch => cursor.next <= h /\ h <= scan.to

VerifiedIsRight == scan.pc \in Verified => Right(cursor.next - 1)
AncestorIsRight == scan.pc = "reconcile" => Right(scan.to)
(* Whatever the chain did since a header was read, the rows of that block are
   sound, and a block in its place holds moved transactions only. *)
HeadersAreRight ==
  scan.pc \in Batch => \A h \in Fetched :
    /\ \A l \in Log :
         Live(l) /\ event[l].place = [height |-> h, fork |-> scan.headers[h]] => Sound(l)
    /\ chain[h].fork # scan.headers[h] => \A l \in chain[h].logs : l[1] \in unseen
BatchIsSound ==
  scan.pc \in {"retire", "store"} => \A l \in Log :
    Live(l) /\ event[l].place.height \in cursor.next..scan.to =>
      Sound(l) \/ (scan.pc = "retire" /\ event[l].place.height \in scan.queue)
BatchIsKept ==
  scan.pc \in Batch => \A l \in Log, h \in 1..Latest :
    OnChain(l, h) /\ h \in cursor.next..scan.to =>
      Kept(l, h) \/ (scan.pc \notin {"retire", "store"} /\ l[1] \in scan.txs)

ScanInv == /\ ScanTypes /\ ScanPlaces /\ HeadersRead
           /\ ReadsAreGood(scan.found)
           /\ VerifiedIsRight /\ AncestorIsRight
           /\ HeadersAreRight /\ BatchIsSound /\ BatchIsKept

-----------------------------------------------------------------------------
(* What the operators on the chain return. *)

LEMMA MaxOfTwo ==
  ASSUME NEW a \in Int, NEW b \in Int
  PROVE  Max({a, b}) = IF a >= b THEN a ELSE b
BY DEF Max

LEMMA MinOfTwo ==
  ASSUME NEW a \in Int, NEW b \in Int
  PROVE  Min({a, b}) = IF a <= b THEN a ELSE b
BY DEF Min

LEMMA Blocks ==
  ASSUME ChainTypes
  PROVE  /\ Latest \in Nat /\ Latest >= 1 /\ Latest \in StartHeight..MaxHeight
         /\ \A h \in 1..Latest : chain[h].fork \in 0..forks /\ chain[h].logs \subseteq Log
<1>1. Latest \in Nat /\ Latest >= 1 /\ Latest \in StartHeight..MaxHeight
  BY ChainAssumption, ConfirmationsAssumption DEF ChainTypes
<1>2. \A h \in 1..Latest : chain[h] \in Block
  BY ElementOfSeq DEF ChainTypes, Latest
<1> QED
  BY <1>1, <1>2 DEF ChainTypes, Block

LEMMA LogsOfBlocks ==
  ASSUME ChainTypes, NEW a \in Int, NEW b \in Int
  PROVE  /\ Logs(a, b) \subseteq Log
         /\ \A l : l \in Logs(a, b) <=> \E h \in 1..Latest : a <= h /\ h <= b /\ OnChain(l, h)
<1>1. /\ Latest \in Nat /\ \A h \in 1..Latest : chain[h].logs \subseteq Log
  BY Blocks
<1> DEFINE range == Max({1, a})..Min({b, Latest})
<1>2. \A h : h \in range <=> h \in 1..Latest /\ a <= h /\ h <= b
  BY <1>1, MaxOfTwo, MinOfTwo
<1>3. \A l : l \in Logs(a, b) <=> \E h \in range : l \in chain[h].logs
  BY DEF Logs
<1> HIDE DEF range
<1>4. \A l : l \in Logs(a, b) <=>
        \E h : h \in 1..Latest /\ a <= h /\ h <= b /\ l \in chain[h].logs
  BY <1>2, <1>3, Zenon
<1> QED
  BY <1>1, <1>4 DEF OnChain

LEMMA LogsOfChain ==
  ASSUME ChainTypes
  PROVE  /\ \A l : l \in Logs(1, Latest) <=> \E h \in 1..Latest : OnChain(l, h)
         /\ \A t : t \in Included <=> \E h \in 1..Latest : \E l \in chain[h].logs : t = l[1]
<1>1. Latest \in Nat
  BY DEF ChainTypes, Latest
<1>2. \A l : l \in Logs(1, Latest) <=> \E h \in 1..Latest : OnChain(l, h)
  BY <1>1, LogsOfBlocks
<1> QED
  BY <1>2 DEF Included, OnChain

(* A log of the chain has one place; *)
LEMMA PlaceOfLog ==
  ASSUME ChainTypes, LogsDiffer, NEW l, NEW h, OnChain(l, h)
  PROVE  Place(l) = Here(h)
<1>1. Latest \in Nat
  BY DEF ChainTypes, Latest
<1>2. {g \in 1..Latest : l \in chain[g].logs} = {h} /\ h \in Int
  BY <1>1 DEF OnChain, LogsDiffer
<1>3. Min({h}) = h
  BY <1>2 DEF Min
<1> QED
  BY <1>2, <1>3 DEF Place, Here

(* an included transaction has one log; *)
LEMMA LogOfIncluded ==
  ASSUME ChainTypes, NEW t \in Included
  PROVE  LogOf(t)[1] = t /\ \E h \in 1..Latest : OnChain(LogOf(t), h)
BY LogsOfChain DEF LogOf, OnChain

(* and what is read of it is good. *)
LEMMA HereIsGood ==
  ASSUME ChainTypes, NEW l, NEW h, OnChain(l, h)
  PROVE  Here(h) \in BlockPlace /\ Seen(l, Here(h)) /\ Canonical(Here(h))
<1>1. h \in Nat \ {0} /\ h <= Latest /\ chain[h].fork \in 0..forks /\ forks \in Nat
  BY Blocks DEF OnChain, ChainTypes
<1> QED
  BY <1>1 DEF OnChain, Here, BlockPlace, Seen, Canonical

LEMMA ParsedIsGood ==
  ASSUME ChainTypes, LogsDiffer, NEW t \in Included
  PROVE  ReadsAreGood({Parsed(LogOf(t))})
<1>1. PICK h \in 1..Latest : OnChain(LogOf(t), h)
  BY LogOfIncluded
<1>2. LogOf(t) \in Log
  BY <1>1, Blocks DEF OnChain
<1>3. Parsed(LogOf(t)) = [log |-> LogOf(t), at |-> Here(h)]
  BY <1>1, PlaceOfLog DEF Parsed
<1> QED
  BY <1>1, <1>2, <1>3, HereIsGood DEF ReadsAreGood, ParsedLog

(* A place that the chain still has is the log's. *)
LEMMA CanonicalIsHere ==
  ASSUME ChainTypes, LogsDiffer, NEW l, NEW h, OnChain(l, h),
         NEW p, Seen(l, p), Canonical(p)
  PROVE  p = Here(h)
<1>1. l \in chain[p.height].logs /\ p.height \in 1..Latest /\ p \in BlockPlace
  BY DEF Seen, Canonical
<1>2. p.height = h
  BY <1>1 DEF LogsDiffer, OnChain
<1> QED
  BY <1>1, <1>2 DEF Canonical, Here, BlockPlace

-----------------------------------------------------------------------------
(* What a step preserves by what it leaves alone. *)

LEMMA WorldFrame ==
  ASSUME UNCHANGED <<chain, event, baseline, overtaken, unseen>>
  PROVE  /\ Latest' = Latest /\ SafeBlock' = SafeBlock
         /\ \A l : (Live(l)' <=> Live(l)) /\ (Sound(l)' <=> Sound(l))
         /\ \A l, h : (OnChain(l, h)' <=> OnChain(l, h)) /\ (Kept(l, h)' <=> Kept(l, h))
         /\ \A g : Right(g)' <=> Right(g)
<1>1. Latest' = Latest /\ SafeBlock' = SafeBlock
  BY DEF Latest, SafeBlock
<1>2. \A l : (Live(l)' <=> Live(l)) /\ (Sound(l)' <=> Sound(l))
  BY <1>1 DEF Live, Sound, Canonical, NeverCompared
<1>3. \A l, h : (OnChain(l, h)' <=> OnChain(l, h)) /\ (Kept(l, h)' <=> Kept(l, h))
  BY <1>1 DEF OnChain, Kept, Here, Live
<1>4. \A g : SoundThrough(g)' <=> SoundThrough(g)
  BY <1>2 DEF SoundThrough
<1>5. \A g : KeptThrough(g)' <=> KeptThrough(g)
  BY <1>1, <1>3 DEF KeptThrough
<1> QED
  BY <1>1, <1>2, <1>3, <1>4, <1>5 DEF Right

LEMMA WorldSame ==
  ASSUME WorldInv,
         UNCHANGED <<chain, forks, cursor, scanned, event, hook, baseline, overtaken, unseen>>
  PROVE  WorldInv'
<1>1. ChainTypes' /\ RowTypes' /\ LogsDiffer'
  BY DEF WorldInv, ChainTypes, RowTypes, LogsDiffer, Latest
<1>2. RowsWereSeen' /\ ReadsAreGood(hook)'
  BY DEF WorldInv, RowsWereSeen, ReadsAreGood, Seen, Canonical, Latest
<1>3. BeforeCursor' /\ StaleWereOvertaken' /\ ConfirmedAbove'
  BY WorldFrame DEF WorldInv, BeforeCursor, StaleWereOvertaken, ConfirmedAbove, Canonical
<1>4. PassedIsRight' /\ ScannedIsRight'
  BY WorldFrame DEF WorldInv, PassedIsRight, ScannedIsRight, CursorOnChain
<1> QED
  BY <1>1, <1>2, <1>3, <1>4 DEF WorldInv

(* A row comes in sound, or stays at its place. *)
RowComes(l) == Sound(l)' \/ (Live(l) /\ event'[l].place = event[l].place)
(* The row of a log that the chain has there stays, or is exempt. *)
RowStays(l, h) ==
  Live(l) /\ OnChain(l, h) /\ event[l].place = Here(h) =>
    l[1] \in unseen \/ (Live(l)' /\ event'[l].place = event[l].place)

LEMMA RowsMove ==
  ASSUME NEW g, UNCHANGED <<chain, baseline, overtaken, unseen>>,
         \A l \in Log : Live(l)' /\ event'[l].place.height <= g => RowComes(l),
         \A l \in Log, h \in 1..Latest : h <= g => RowStays(l, h)
  PROVE  /\ Right(g) => Right(g)'
         /\ \A l : event'[l].place = event[l].place => (Sound(l)' <=> Sound(l))
         /\ \A l \in Log, h \in 1..Latest : h <= g /\ OnChain(l, h) /\ Kept(l, h) => Kept(l, h)'
<1>1. Latest' = Latest
  BY DEF Latest
<1>2. \A l : event'[l].place = event[l].place => (Sound(l)' <=> Sound(l))
  BY <1>1 DEF Sound, Canonical, NeverCompared
<1>3. SoundThrough(g) => SoundThrough(g)'
  BY <1>2 DEF SoundThrough, RowComes
<1>4. \A l \in Log, h \in 1..Latest : h <= g /\ OnChain(l, h) /\ Kept(l, h) => Kept(l, h)'
  BY <1>1 DEF Kept, Here, OnChain, RowStays
<1>5. KeptThrough(g) => KeptThrough(g)'
  BY <1>1, <1>4 DEF KeptThrough, OnChain
<1> QED
  BY <1>2, <1>3, <1>4, <1>5 DEF Right

(* The same, when all rows are so, for all that a scan claims of rows. *)
LEMMA AllRowsMove ==
  ASSUME ScanInv, WorldInv, UNCHANGED <<chain, cursor, baseline, overtaken, unseen>>,
         \A l \in Log : Live(l)' => RowComes(l),
         \A l \in Log, h \in 1..Latest : RowStays(l, h)
  PROVE  /\ \A g : Right(g) => Right(g)'
         /\ \A l : event'[l].place = event[l].place => (Sound(l)' <=> Sound(l))
         /\ \A l \in Log, h \in 1..Latest : OnChain(l, h) /\ Kept(l, h) => Kept(l, h)'
         /\ scan'.pc \in Batch /\ scan.pc \in Batch /\ scan'.headers = scan.headers =>
              VerifiedIsRight' /\ AncestorIsRight' /\ HeadersAreRight'
         /\ scan' = scan => /\ VerifiedIsRight' /\ AncestorIsRight' /\ HeadersAreRight'
                            /\ BatchIsSound' /\ BatchIsKept'
<1>1. \A g : Right(g) => Right(g)'
  BY RowsMove
<1>2. \A l : event'[l].place = event[l].place => (Sound(l)' <=> Sound(l))
  BY RowsMove
<1>3. \A l \in Log, h \in 1..Latest : OnChain(l, h) /\ Kept(l, h) => Kept(l, h)'
  <2>1. Latest \in Nat
    BY Blocks DEF WorldInv
  <2> QED
    BY <2>1, RowsMove
<1>4. Latest' = Latest /\ \A l, h : OnChain(l, h)' <=> OnChain(l, h)
  BY DEF OnChain, Latest
<1>5. ASSUME scan'.pc \in Batch, scan.pc \in Batch, scan'.headers = scan.headers
      PROVE  VerifiedIsRight' /\ AncestorIsRight' /\ HeadersAreRight'
  <2>1. VerifiedIsRight' /\ AncestorIsRight'
    BY <1>1, <1>5 DEF ScanInv, VerifiedIsRight, AncestorIsRight, Batch, Verified
  <2>2. Fetched' = Fetched
    BY <1>5 DEF Fetched
  <2> QED
    BY <1>2, <1>5, <2>1, <2>2 DEF ScanInv, HeadersAreRight, RowComes
<1>6. ASSUME scan' = scan
      PROVE  /\ VerifiedIsRight' /\ AncestorIsRight' /\ HeadersAreRight'
             /\ BatchIsSound' /\ BatchIsKept'
  <2>1. Fetched' = Fetched
    BY <1>6 DEF Fetched
  <2>2. VerifiedIsRight' /\ AncestorIsRight'
    BY <1>1, <1>6 DEF ScanInv, VerifiedIsRight, AncestorIsRight
  <2>3. HeadersAreRight'
    BY <1>2, <1>6, <2>1 DEF ScanInv, HeadersAreRight, RowComes
  <2>4. BatchIsSound'
    BY <1>2, <1>6 DEF ScanInv, BatchIsSound, RowComes
  <2>5. BatchIsKept'
    BY <1>3, <1>4, <1>6 DEF ScanInv, BatchIsKept
  <2> QED
    BY <2>2, <2>3, <2>4, <2>5
<1> QED
  BY <1>1, <1>2, <1>3, <1>5, <1>6

(* A scan that ended, or has not begun, claims nothing. *)
LEMMA NoScan ==
  ASSUME scan' = Idle
  PROVE  ScanInv'
<1> USE DEF Batch, Verified, Initializing
<1>1. /\ scan'.pc = "idle" /\ Fetched' = {} /\ scan'.found = {}
      /\ \A h \in Height : scan'.headers[h] = NoFork
  BY DEF Idle, Fetched
<1>2. ScanTypes'
  BY DEF ScanTypes, Idle, NoFork
<1> QED
  BY <1>1, <1>2 DEF ScanInv, ScanPlaces, HeadersRead, ReadsAreGood, VerifiedIsRight,
                    AncestorIsRight, HeadersAreRight, BatchIsSound, BatchIsKept

-----------------------------------------------------------------------------
(* The chain moves. *)

LEMMA WhatIsTrusted ==
  ASSUME WorldInv, ScanInv
  PROVE  /\ Trusted \in Int /\ Trusted <= Latest
         /\ scan.pc \in Verified \cup {"reconcile"} => cursor.next - 1 <= Trusted
         /\ scan.pc \in Batch => scan.to <= Trusted
         /\ scan.pc = "reconcile" => scan.to <= Trusted
<1>1. /\ Latest \in Nat /\ SafeBlock <= Latest /\ SafeBlock \in Int
      /\ cursor.next \in Int /\ cursor.next - 1 <= Latest
      /\ scan.to \in Int /\ scan.safe \in Int
  BY Blocks, ConfirmationsAssumption
  DEF WorldInv, ScanInv, RowTypes, ScanTypes, SafeBlock, NoCursor
<1>2. Max({cursor.next - 1, scan.to}) =
        IF cursor.next - 1 >= scan.to THEN cursor.next - 1 ELSE scan.to
  BY <1>1, MaxOfTwo
<1>3. /\ scan.pc \in Batch => scan.to <= Latest
      /\ scan.pc = "confirm" => scan.to <= Latest
      /\ scan.pc = "reconcile" => scan.to <= cursor.next - 1
      /\ scan.pc \in {"idle", "verify", "search", "reconcile", "confirm"}
                       \cup Initializing \cup Verified
  BY <1>1 DEF ScanInv, ScanPlaces, ScanTypes, Height, Batch, Verified
<1> QED
  BY <1>1, <1>2, <1>3 DEF Trusted, Batch, Verified, Initializing

(* The blocks above k are replaced, or one is mined above them all.  What is said
   of rows and blocks where the scanner does not look again stays true, because
   the transactions that move there are exempt. *)
LEMMA ChainMoves ==
  ASSUME WorldInv, ScanInv, NEW k \in 1..Latest,
         UNCHANGED <<cursor, scanned, event, scan, hook, baseline>>,
         ChainTypes', LogsDiffer', Latest' = Latest + 1, forks <= forks',
         \A h \in 1..k : chain'[h] = chain[h],
         \A h \in k + 1..Latest : chain'[h].fork > forks,
         \A h \in k + 1..Latest + 1 : \A l \in chain'[h].logs :
           h <= Trusted => l[1] \in unseen',
         \A l \in Log : Live(l) /\ event[l].place.height > k =>
           /\ ~event[l].confirmed => l \in overtaken'
           /\ event[l].confirmed /\ event[l].place.height >= cursor.next => l[1] \in unseen'
           /\ event[l].place.height <= Trusted => l[1] \in unseen',
         \A p \in hook \cup scan.found : p.at.height > k => p.log[1] \in unseen',
         unseen \subseteq unseen', overtaken \subseteq overtaken'
  PROVE  WorldInv' /\ ScanInv'
<1>1. /\ Latest \in Nat /\ k \in Nat /\ forks \in Nat /\ forks' \in Nat
      /\ SafeBlock \in Int /\ SafeBlock' = SafeBlock + 1
      /\ \A h \in 1..Latest : chain[h].fork \in 0..forks
  BY Blocks, ConfirmationsAssumption DEF WorldInv, ChainTypes, SafeBlock
<1>2. \A p : Canonical(p) /\ p.height <= k => Canonical(p)'
  BY <1>1 DEF Canonical
<1>3. \A l, p : Seen(l, p) => Seen(l, p)' /\ p.height \in 1..Latest
  BY <1>1 DEF Seen, BlockPlace
<1>4. \A l \in Log : Live(l)' <=> Live(l)
  BY DEF Live
<1>5. \A l \in Log : Live(l) => event[l].place.height \in 1..Latest
  BY <1>3 DEF WorldInv, RowsWereSeen, Live
<1>6. \A l \in Log :
        Sound(l) => Sound(l)' \/ (Canonical(event[l].place) /\ event[l].place.height > k)
  BY <1>1, <1>2 DEF Sound, NeverCompared, Canonical
(* Rows and blocks up to the height of a block that was not replaced, and up to
   the trusted height *)
<1>7. \A h \in 1..k : Here(h)' = Here(h) /\ \A l : OnChain(l, h)' => OnChain(l, h)
  BY <1>1 DEF Here, OnChain
<1>8. \A l \in Log, h \in 1..k : Kept(l, h) => Kept(l, h)'
  BY <1>4, <1>7 DEF Kept
<1>9. \A l \in Log, h \in k + 1..Latest' : OnChain(l, h)' /\ h <= Trusted => Kept(l, h)'
  BY DEF OnChain, Kept
<1>10. ASSUME NEW g \in Int, g <= k \/ g <= Trusted, Right(g)
       PROVE  Right(g)'
  <2>1. SoundThrough(g)'
    BY <1>1, <1>4, <1>5, <1>6, <1>10, WhatIsTrusted DEF Right, SoundThrough, Sound
  <2>2. ASSUME NEW l \in Log, NEW h \in 1..Latest', OnChain(l, h)', baseline' <= h, h <= g
        PROVE  Kept(l, h)'
    <3>1. CASE h <= k
      BY <1>1, <1>7, <1>8, <1>10, <2>2, <3>1 DEF Right, KeptThrough
    <3>2. CASE h > k
      BY <1>1, <1>9, <1>10, <2>2, <3>2, WhatIsTrusted
    <3> QED
      BY <1>1, <3>1, <3>2
  <2> QED
    BY <2>1, <2>2 DEF Right, KeptThrough
<1>11. \A h \in 1..Latest : chain'[h].fork \in 0..forks => h <= k
  BY <1>1
<1>12. WorldInv'
  <2>1. RowTypes'
    <3>1. cursor = NoCursor \/ (cursor.next \in 2..Latest' + 1 /\ cursor.hash \in 0..forks')
      BY <1>1 DEF WorldInv, RowTypes
    <3>2. \A h \in Height :
            scanned[h] = NoFork \/ (scanned[h] \in 0..forks' /\ h <= Latest')
      BY <1>1 DEF WorldInv, RowTypes, Height
    <3> QED
      BY <3>1, <3>2 DEF WorldInv, RowTypes
  <2>2. RowsWereSeen' /\ ReadsAreGood(hook)'
    BY <1>1, <1>2, <1>3 DEF WorldInv, RowsWereSeen, ReadsAreGood, Seen, BlockPlace, Canonical
  <2>3. BeforeCursor'
    BY <1>1, <1>4, ConfirmationsAssumption DEF WorldInv, BeforeCursor, Height
  <2>4. StaleWereOvertaken' /\ ConfirmedAbove'
    BY <1>1, <1>2, <1>4, <1>5, <1>6 DEF WorldInv, StaleWereOvertaken, ConfirmedAbove, Sound
  <2>5. PassedIsRight'
    <3> SUFFICES ASSUME CursorOnChain' PROVE Right(cursor.next - 1)'
      BY DEF PassedIsRight
    <3>1. cursor.next - 1 \in 1..Latest /\ cursor.hash \in 0..forks
      BY <1>1 DEF CursorOnChain, WorldInv, RowTypes
    <3>2. cursor.next - 1 <= k
      BY <1>11, <3>1 DEF CursorOnChain
    <3>3. CursorOnChain
      BY <1>1, <3>1, <3>2 DEF CursorOnChain
    <3> QED
      BY <1>10, <3>1, <3>2, <3>3 DEF WorldInv, PassedIsRight
  <2>6. ScannedIsRight'
    <3> SUFFICES ASSUME cursor # NoCursor, NEW h \in Height, scanned[h] # NoFork,
                        chain'[h].fork = scanned[h]
                 PROVE  Right(h)'
      BY DEF ScannedIsRight
    <3>1. h \in 1..Latest /\ scanned[h] \in 0..forks
      BY <1>1 DEF WorldInv, RowTypes, Height
    <3>2. h <= k /\ chain'[h] = chain[h]
      BY <1>1, <1>11, <3>1
    <3> QED
      BY <1>10, <3>1, <3>2 DEF WorldInv, ScannedIsRight
  <2> QED
    BY <2>1, <2>2, <2>3, <2>4, <2>5, <2>6 DEF WorldInv
<1>13. ScanInv'
  <2>1. Fetched' = Fetched /\ (scan.pc \in Batch => Fetched \subseteq 1..Latest)
    BY DEF ScanInv, HeadersRead, Fetched, Height
  <2>2. ScanTypes' /\ ScanPlaces' /\ HeadersRead'
    <3>1. ScanTypes'
      BY DEF ScanInv, ScanTypes
    <3>2. scan.safe \in Int /\ scan.safe <= SafeBlock => scan.safe <= SafeBlock'
      BY <1>1
    <3>3. ScanPlaces'
      BY <1>1, <2>1, <3>2, ConfirmationsAssumption, ChainAssumption
      DEF ScanInv, ScanTypes, ScanPlaces
    <3>4. HeadersRead'
      BY <1>1, <2>1 DEF ScanInv, HeadersRead, Fetched, Height
    <3> QED
      BY <3>1, <3>3, <3>4
  <2>3. ReadsAreGood(scan.found)'
    BY <1>1, <1>2, <1>3 DEF ScanInv, ReadsAreGood, Seen, BlockPlace, Canonical
  <2>4. VerifiedIsRight' /\ AncestorIsRight'
    <3>1. cursor.next - 1 \in Int /\ scan.to \in Int
      BY DEF ScanInv, ScanTypes, WorldInv, RowTypes
    <3> QED
      BY <1>10, <3>1, WhatIsTrusted DEF ScanInv, VerifiedIsRight, AncestorIsRight, Verified
  <2>5. HeadersAreRight'
    <3> SUFFICES ASSUME scan.pc \in Batch, NEW h \in Fetched
                 PROVE  /\ \A l \in Log :
                             Live(l) /\ event[l].place = [height |-> h, fork |-> scan.headers[h]]
                               => Sound(l)'
                        /\ chain'[h].fork # scan.headers[h] =>
                             \A l \in chain'[h].logs : l[1] \in unseen'
      BY <1>4, <2>1 DEF HeadersAreRight
    <3>1. h \in 1..Latest /\ h <= Trusted
      BY <1>1, <2>1, WhatIsTrusted DEF ScanInv, HeadersRead, ScanTypes
    <3>2. \A l \in Log :
            Live(l) /\ event[l].place = [height |-> h, fork |-> scan.headers[h]] => Sound(l)'
      BY <1>1, <1>6, <3>1 DEF ScanInv, HeadersAreRight, Sound
    <3>3. CASE h <= k
      BY <1>1, <3>1, <3>2, <3>3 DEF ScanInv, HeadersAreRight
    <3>4. CASE h > k
      BY <1>1, <3>1, <3>2, <3>4
    <3> QED
      BY <1>1, <3>1, <3>3, <3>4
  <2>6. BatchIsSound'
    <3> SUFFICES ASSUME scan.pc \in {"retire", "store"}, NEW l \in Log, Live(l),
                        event[l].place.height \in cursor.next..scan.to
                 PROVE  Sound(l)' \/ (scan.pc = "retire" /\ event[l].place.height \in scan.queue)
      BY <1>4 DEF BatchIsSound
    <3>1. event[l].place.height <= Trusted
      BY <1>1, <1>5, WhatIsTrusted DEF ScanInv, ScanTypes, Batch
    <3> QED
      BY <1>6, <3>1 DEF ScanInv, BatchIsSound, Sound
  <2>7. BatchIsKept'
    <3> SUFFICES ASSUME scan.pc \in Batch, NEW l \in Log, NEW h \in 1..Latest', OnChain(l, h)',
                        h \in cursor.next..scan.to
                 PROVE  Kept(l, h)' \/ (scan.pc \notin {"retire", "store"} /\ l[1] \in scan.txs)
      BY DEF BatchIsKept
    <3>1. h <= Trusted
      BY <1>1, WhatIsTrusted DEF ScanInv, ScanTypes
    <3>2. CASE h <= k
      BY <1>1, <1>7, <1>8, <3>2 DEF ScanInv, BatchIsKept
    <3>3. CASE h > k
      BY <1>1, <1>9, <3>1, <3>3
    <3> QED
      BY <1>1, <3>2, <3>3
  <2> QED
    BY <2>1, <2>2, <2>3, <2>4, <2>5, <2>6, <2>7 DEF ScanInv
<1> QED
  BY <1>12, <1>13

LEMMA MineStep ==
  ASSUME WorldInv, ScanInv, Mine
  PROVE  WorldInv' /\ ScanInv'
<1>1. PICK new \in SUBSET (Tx \ Included) : \E index \in [new -> Index] :
        chain' = Append(chain, [fork |-> forks, logs |-> {<<t, index[t]>> : t \in new}])
  BY DEF Mine
<1>2. PICK index \in [new -> Index] :
        chain' = Append(chain, [fork |-> forks, logs |-> {<<t, index[t]>> : t \in new}])
  BY <1>1
<1> DEFINE block == [fork |-> forks, logs |-> {<<t, index[t]>> : t \in new}]
<1>3. /\ block \in Block /\ block.fork = forks
      /\ \A l \in block.logs : l[1] \in Tx \ Included /\ l = <<l[1], index[l[1]]>>
  BY DEF WorldInv, ChainTypes, Block, Log
<1>4. /\ ChainTypes /\ LogsDiffer /\ Latest \in Nat /\ Latest >= 1 /\ Latest < MaxHeight
      /\ StartHeight \in Nat /\ MaxHeight \in Nat /\ StartHeight <= Latest
      /\ chain \in Seq(Block) /\ chain' = Append(chain, block)
  BY <1>2, Blocks, ChainAssumption DEF WorldInv, ChainTypes, Mine
<1> HIDE DEF block
<1>5. /\ chain' \in Seq(Block) /\ Latest' = Latest + 1
      /\ \A h \in 1..Latest : chain'[h] = chain[h]
      /\ chain'[Latest + 1] = block
  BY <1>3, <1>4 DEF Latest
<1> DEFINE Old(h) == h \in 1..Latest /\ chain'[h] = chain[h]
           New(h) == h = Latest + 1 /\ chain'[h] = block
<1>6. ASSUME NEW h \in 1..Latest' PROVE Old(h) \/ New(h)
  <2>1. h \in 1..Latest \/ h = Latest + 1
    BY <1>4, <1>5
  <2> QED
    BY <1>5, <2>1
<1>13. UNCHANGED <<cursor, scanned, event, scan, hook, baseline, unseen, overtaken, forks>>
  BY DEF Mine
<1>14. ChainTypes'
  <2>1. forks \in Nat /\ \A h \in 1..Latest : chain[h].fork <= forks
    BY <1>4 DEF ChainTypes
  <2>2. \A h \in 1..Latest' : chain'[h].fork <= forks
    BY <1>3, <1>6, <2>1
  <2>3. Latest' \in StartHeight..MaxHeight
    BY <1>4, <1>5
  <2> QED
    BY <1>5, <1>13, <2>1, <2>2, <2>3 DEF ChainTypes
<1>7. \A h \in 1..Latest : \A l \in chain'[h].logs : l[1] \in Included
  BY <1>4, <1>5, LogsOfChain
<1>8. LogsDiffer'
  <2> SUFFICES ASSUME NEW g \in 1..Latest', NEW h \in 1..Latest',
                      NEW l \in chain'[g].logs, NEW m \in chain'[h].logs, l[1] = m[1]
               PROVE  g = h /\ l = m
    BY DEF LogsDiffer
  <2>1. CASE Old(g) /\ Old(h)
    BY <1>4, <2>1 DEF LogsDiffer
  <2>2. CASE New(g) /\ New(h)
    BY <1>3, <2>2
  <2>3. CASE (Old(g) /\ New(h)) \/ (New(g) /\ Old(h))
    BY <1>3, <1>7, <2>3
  <2> QED
    BY <1>6, <2>1, <2>2, <2>3
<1>9. /\ \A l \in Log : Live(l) => event[l].place.height <= Latest
      /\ \A p \in hook \cup scan.found : p.at.height <= Latest
  BY DEF WorldInv, ScanInv, RowsWereSeen, ReadsAreGood, Seen, Live
<1>10. /\ \A l \in Log : Live(l) => ~(event[l].place.height > Latest)
       /\ \A p \in hook \cup scan.found : ~(p.at.height > Latest)
  <2>1. /\ \A l \in Log : Live(l) => event[l].place.height \in Int
        /\ \A p \in hook \cup scan.found : p.at.height \in Int
    BY DEF WorldInv, ScanInv, RowsWereSeen, ReadsAreGood, Seen, Live, BlockPlace
  <2> QED
    BY <1>4, <1>9, <2>1
<1>11. Trusted \in Int /\ Trusted <= Latest /\ forks \in Nat
  BY WhatIsTrusted DEF WorldInv, ChainTypes
<1>12. /\ Latest \in 1..Latest /\ forks <= forks' /\ Latest + 1..Latest = {}
       /\ \A h \in Latest + 1..Latest + 1 : ~(h <= Trusted)
  BY <1>4, <1>11, <1>13
<1> QED
  BY <1>5, <1>8, <1>10, <1>12, <1>13, <1>14, ChainMoves

LEMMA ReorgStep ==
  ASSUME WorldInv, ScanInv, Reorg
  PROVE  WorldInv' /\ ScanInv'
<1>1. /\ ChainTypes /\ LogsDiffer /\ Latest \in Nat /\ Latest < MaxHeight /\ Latest >= 1
      /\ StartHeight \in Nat /\ MaxHeight \in Nat /\ StartHeight <= Latest
      /\ forks \in Nat /\ forks' = forks + 1
      /\ UNCHANGED <<cursor, scanned, event, scan, hook, baseline>>
  BY Blocks, ChainAssumption DEF WorldInv, ChainTypes, Reorg
<1> DEFINE
  free(k) == (Tx \ Included) \cup {l[1] : l \in Logs(k + 1, Latest)}
  Replaced(k, l) == Live(l) /\ event[l].place.height > k
  Caught(k, found) == {p.log[1] : p \in {q \in found : q.at.height > k}}
  branch(k, to, index) ==
    [h \in 1..Latest + 1 |->
       IF h <= k THEN chain[h]
       ELSE [fork |-> forks + 1,
             logs |-> {<<t, index[t]>> : t \in {x \in free(k) : to[x] = h}}]]
<1>2. PICK k \in Latest - ReorgDepth .. Latest - 1 :
        \E to \in [free(k) -> {0} \cup k + 1 .. Latest + 1], index \in [free(k) -> Index] :
          /\ chain' = branch(k, to, index)
          /\ overtaken' = overtaken \cup {l \in Log : Replaced(k, l) /\ ~event[l].confirmed}
          /\ unseen' = unseen \cup Caught(k, hook) \cup Caught(k, scan.found)
               \cup {l[1] : l \in {x \in Log : /\ Replaced(k, x) /\ event[x].confirmed
                                              /\ event[x].place.height >= cursor.next}}
               \cup {l[1] : l \in {x \in Log : Replaced(k, x) /\ event[x].place.height <= Trusted}}
               \cup {t \in free(k) : to[t] \in 1..Trusted}
  BY Zenon DEF Reorg
<1>3. PICK to \in [free(k) -> {0} \cup k + 1 .. Latest + 1], index \in [free(k) -> Index] :
        /\ chain' = branch(k, to, index)
        /\ overtaken' = overtaken \cup {l \in Log : Replaced(k, l) /\ ~event[l].confirmed}
        /\ unseen' = unseen \cup Caught(k, hook) \cup Caught(k, scan.found)
             \cup {l[1] : l \in {x \in Log : /\ Replaced(k, x) /\ event[x].confirmed
                                            /\ event[x].place.height >= cursor.next}}
             \cup {l[1] : l \in {x \in Log : Replaced(k, x) /\ event[x].place.height <= Trusted}}
             \cup {t \in free(k) : to[t] \in 1..Trusted}
  BY <1>2
<1>4. k \in 1..Latest /\ k \in Nat /\ k < Latest
  BY <1>1, ChainAssumption
<1>5. /\ free(k) \subseteq Tx
      /\ \A h \in 1..k : \A l \in chain[h].logs : l[1] \notin free(k)
  <2>1. Logs(k + 1, Latest) \subseteq Log
    BY <1>1, <1>4, LogsOfBlocks
  <2>2. \A h \in 1..k : \A l \in chain[h].logs :
          l[1] \in Included /\ \A m \in Logs(k + 1, Latest) : m[1] # l[1]
    BY <1>1, <1>4, LogsOfBlocks, LogsOfChain DEF LogsDiffer, OnChain
  <2> QED
    BY <2>1, <2>2 DEF Log
<1> HIDE DEF free
<1>6. \A h \in 1..Latest + 1 : h > k =>
        /\ chain'[h].fork = forks + 1
        /\ \A l : l \in chain'[h].logs <=> \E t \in free(k) : to[t] = h /\ l = <<t, index[t]>>
  BY <1>1, <1>3, <1>4
<1>7. \A h \in 1..k : chain'[h] = chain[h]
  BY <1>1, <1>3, <1>4
<1>8. chain' \in [1..Latest + 1 -> Block]
  <2>1. \A h \in 1..Latest : chain[h] \in Block
    BY <1>1, ElementOfSeq DEF ChainTypes, Latest
  <2>2. \A h : {<<t, index[t]>> : t \in {x \in free(k) : to[x] = h}} \subseteq Log
    BY <1>5 DEF Log
  <2>3. \A h : [fork |-> forks + 1,
                logs |-> {<<t, index[t]>> : t \in {x \in free(k) : to[x] = h}}] \in Block
    BY <1>1, <2>2 DEF Block
  <2>4. chain' = branch(k, to, index)
    BY <1>3
  <2>5. \A h \in 1..Latest + 1 : h <= k => h \in 1..Latest
    BY <1>1, <1>4
  <2> QED
    BY <2>1, <2>3, <2>4, <2>5
<1>9. chain' \in Seq(Block) /\ Latest' = Latest + 1
  BY <1>1, <1>8, LenProperties DEF Latest
<1> DEFINE Old(h) == h \in 1..k /\ h \in 1..Latest /\ chain'[h] = chain[h]
           New(h) == h \in 1..Latest + 1 /\ h > k
<1>16. \A h \in 1..Latest' : Old(h) \/ New(h)
  BY <1>1, <1>4, <1>7, <1>9
<1>10. ChainTypes'
  <2>1. \A h \in 1..Latest' : chain'[h].fork <= forks'
    BY <1>1, <1>6, <1>16, Blocks
  <2> QED
    BY <1>1, <1>9, <2>1 DEF ChainTypes
<1>11. LogsDiffer'
  <2> SUFFICES ASSUME NEW g \in 1..Latest', NEW h \in 1..Latest',
                      NEW l \in chain'[g].logs, NEW m \in chain'[h].logs, l[1] = m[1]
               PROVE  g = h /\ l = m
    BY DEF LogsDiffer
  <2>1. CASE Old(g) /\ Old(h)
    BY <1>1, <2>1 DEF LogsDiffer
  <2>2. CASE New(g) /\ New(h)
    BY <1>6, <2>2
  <2>3. CASE (Old(g) /\ New(h)) \/ (New(g) /\ Old(h))
    BY <1>5, <1>6, <2>3
  <2> QED
    BY <1>16, <2>1, <2>2, <2>3
<1>12. \A h \in k + 1..Latest + 1 : \A l \in chain'[h].logs :
         h <= Trusted => l[1] \in unseen'
  <2>1. ASSUME NEW h \in k + 1..Latest + 1, NEW l \in chain'[h].logs, h <= Trusted
        PROVE  l[1] \in unseen'
    <3>1. PICK t \in free(k) : to[t] = h /\ l = <<t, index[t]>>
      BY <1>1, <1>4, <1>6, <2>1
    <3>2. to[t] \in 1..Trusted /\ l[1] = t
      BY <1>1, <1>4, <2>1, <3>1, WhatIsTrusted
    <3> QED
      BY <1>3, <3>2
  <2> QED
    BY <2>1
<1>13. \A l \in Log : Live(l) /\ event[l].place.height > k =>
         /\ ~event[l].confirmed => l \in overtaken'
         /\ event[l].confirmed /\ event[l].place.height >= cursor.next => l[1] \in unseen'
         /\ event[l].place.height <= Trusted => l[1] \in unseen'
  BY <1>3
<1>14. \A p \in hook \cup scan.found : p.at.height > k => p.log[1] \in unseen'
  BY <1>3
<1>15. /\ unseen \subseteq unseen' /\ overtaken \subseteq overtaken' /\ forks <= forks'
       /\ \A h \in k + 1..Latest : chain'[h].fork > forks
  BY <1>1, <1>3, <1>4, <1>6
<1> QED
  BY <1>1, <1>4, <1>7, <1>9, <1>10, <1>11, <1>12, <1>13, <1>14, <1>15, ChainMoves

-----------------------------------------------------------------------------
(* An event is stored. *)

LEMMA CreateStep ==
  ASSUME WorldInv, ScanInv, NEW p \in ParsedLog, ReadsAreGood({p}),
         NEW sure \in BOOLEAN, sure => cursor # NoCursor,
         CreateMarketEvent(p.log, p.at, sure), hook' \subseteq hook,
         UNCHANGED <<chain, forks, cursor, scanned, baseline, overtaken, unseen>>
  PROVE  /\ WorldInv'
         /\ \A l \in Log : Live(l)' => RowComes(l)
         /\ \A l \in Log, h \in 1..Latest : RowStays(l, h)
         /\ \A l \in Log : Live(l) => event'[l] = event[l]
         /\ Live(p.log)' /\ (~Live(p.log) => event'[p.log].place = p.at)
<1> DEFINE stored == [place |-> p.at, confirmed |-> sure, reorged |-> FALSE]
<1>1. /\ p.log \in Log /\ p.at \in BlockPlace /\ Seen(p.log, p.at)
      /\ Canonical(p.at) \/ p.log[1] \in unseen
  BY DEF ParsedLog, ReadsAreGood
<1>2. stored \in EventRow /\ stored # NoRow
  BY <1>1 DEF EventRow, NoRow, NoPlace, BlockPlace
<1>3. event \in [Log -> {NoRow} \cup EventRow] /\ event' \in [Log -> {NoRow} \cup EventRow]
  BY <1>1, <1>2 DEF CreateMarketEvent, WorldInv, RowTypes
<1>4. \A l \in Log : event'[l] = event[l] \/ (l = p.log /\ ~Live(l) /\ event'[l] = stored)
  BY <1>3 DEF CreateMarketEvent
<1>5. Live(p.log)' /\ (~Live(p.log) => event'[p.log].place = p.at)
  BY <1>1, <1>2, <1>3 DEF CreateMarketEvent, Live
<1>6. /\ Latest' = Latest
      /\ \A q : (Canonical(q)' <=> Canonical(q)) /\ \A l : Seen(l, q)' <=> Seen(l, q)
  BY DEF Latest, Canonical, Seen
<1>7. \A l \in Log : event'[l] = stored /\ l = p.log => Sound(l)'
  BY <1>1, <1>6 DEF Sound
<1>8. \A l \in Log : Live(l)' => RowComes(l)
  BY <1>4, <1>7 DEF RowComes, Live
<1>9. \A l \in Log : Live(l) => event'[l] = event[l] /\ Live(l)'
  BY <1>4 DEF Live
<1>10. \A l \in Log, h \in 1..Latest : RowStays(l, h)
  BY <1>9 DEF RowStays
<1>11. WorldInv'
  <2>1. ChainTypes' /\ LogsDiffer'
    BY <1>6 DEF WorldInv, ChainTypes, LogsDiffer
  <2>2. RowTypes'
    BY <1>3, <1>6 DEF WorldInv, RowTypes
  <2>3. RowsWereSeen' /\ ReadsAreGood(hook)'
    <3>1. \A l \in Log : event'[l] # NoRow => Seen(l, event'[l].place)
      BY <1>1, <1>4 DEF WorldInv, RowsWereSeen
    <3>2. \A l \in Log : Seen(l, event'[l].place) => Seen(l, event[l].place)'
      BY <1>6
    <3>3. ReadsAreGood(hook)
      BY DEF WorldInv
    <3> QED
      BY <1>6, <3>1, <3>2, <3>3 DEF RowsWereSeen, ReadsAreGood
  <2>4. BeforeCursor'
    BY <1>4 DEF WorldInv, BeforeCursor, SafeBlock, Latest, Live
  <2>5. StaleWereOvertaken'
    BY <1>1, <1>4, <1>6 DEF WorldInv, StaleWereOvertaken, Live
  <2>6. ConfirmedAbove'
    BY <1>4, <1>7, <1>8, AllRowsMove, <1>10 DEF WorldInv, ConfirmedAbove, Live
  <2>7. PassedIsRight' /\ ScannedIsRight'
    BY <1>8, <1>10, AllRowsMove DEF WorldInv, PassedIsRight, ScannedIsRight, CursorOnChain
  <2> QED
    BY <2>1, <2>2, <2>3, <2>4, <2>5, <2>6, <2>7 DEF WorldInv
<1> QED
  BY <1>5, <1>8, <1>9, <1>10, <1>11

LEMMA ScanSame ==
  ASSUME ScanInv,
         UNCHANGED <<chain, forks, cursor, scanned, event, scan, baseline, overtaken, unseen>>
  PROVE  ScanInv'
<1>1. Fetched' = Fetched
  BY DEF Fetched
<1>2. ScanTypes' /\ ScanPlaces' /\ HeadersRead'
  BY <1>1, WorldFrame DEF ScanInv, ScanTypes, ScanPlaces, HeadersRead
<1>3. ReadsAreGood(scan.found)'
  BY DEF ScanInv, ReadsAreGood, Seen, Canonical, Latest
<1>4. VerifiedIsRight' /\ AncestorIsRight' /\ HeadersAreRight' /\ BatchIsSound' /\ BatchIsKept'
  BY <1>1, WorldFrame
  DEF ScanInv, VerifiedIsRight, AncestorIsRight, HeadersAreRight, BatchIsSound, BatchIsKept
<1> QED
  BY <1>2, <1>3, <1>4 DEF ScanInv

LEMMA HookStep ==
  ASSUME WorldInv, ScanInv, HookReads \/ HookPersists
  PROVE  WorldInv' /\ ScanInv'
<1>1. CASE HookReads
  <2>1. PICK t \in Included : hook' = {Parsed(LogOf(t))}
    BY <1>1 DEF HookReads
  <2>2. ReadsAreGood({Parsed(LogOf(t))})
    BY ParsedIsGood DEF WorldInv
  <2>3. UNCHANGED <<chain, forks, cursor, scanned, event, scan, baseline, overtaken, unseen>>
    BY <1>1 DEF HookReads
  <2>4. ReadsAreGood(hook)'
    BY <2>1, <2>2, <2>3 DEF ReadsAreGood, Seen, Canonical, Latest
  <2>5. ChainTypes' /\ RowTypes' /\ LogsDiffer' /\ RowsWereSeen'
    <3>1. ChainTypes' /\ LogsDiffer'
      BY <2>3 DEF WorldInv, ChainTypes, LogsDiffer, Latest
    <3>2. RowTypes'
      BY <2>3 DEF WorldInv, RowTypes, Latest
    <3>3. RowsWereSeen'
      BY <2>3 DEF WorldInv, RowsWereSeen, Seen, Latest
    <3> QED
      BY <3>1, <3>2, <3>3
  <2>6. BeforeCursor' /\ StaleWereOvertaken' /\ ConfirmedAbove'
    BY <2>3, WorldFrame DEF WorldInv, BeforeCursor, StaleWereOvertaken, ConfirmedAbove, Canonical
  <2>7. PassedIsRight' /\ ScannedIsRight'
    BY <2>3, WorldFrame DEF WorldInv, PassedIsRight, ScannedIsRight, CursorOnChain
  <2> QED
    BY <2>3, <2>4, <2>5, <2>6, <2>7, ScanSame DEF WorldInv
<1>2. CASE HookPersists
  <2>1. PICK p \in hook : CreateMarketEvent(p.log, p.at, FALSE)
    BY <1>2 DEF HookPersists
  <2>2. p \in ParsedLog /\ ReadsAreGood({p}) /\ hook' \subseteq hook
    BY <1>2 DEF WorldInv, ReadsAreGood, HookPersists, NoHook
  <2>3. UNCHANGED <<chain, forks, cursor, scanned, scan, baseline, overtaken, unseen>>
    BY <1>2 DEF HookPersists
  <2>4. /\ WorldInv'
        /\ \A l \in Log : Live(l)' => RowComes(l)
        /\ \A l \in Log, h \in 1..Latest : RowStays(l, h)
    BY <2>1, <2>2, <2>3, CreateStep
  <2>5. /\ VerifiedIsRight' /\ AncestorIsRight' /\ HeadersAreRight'
        /\ BatchIsSound' /\ BatchIsKept'
    BY <2>3, <2>4, AllRowsMove
  <2>6. ScanTypes' /\ ScanPlaces' /\ HeadersRead' /\ ReadsAreGood(scan.found)'
    <3>1. Fetched' = Fetched /\ Latest' = Latest /\ SafeBlock' = SafeBlock
      BY <2>3 DEF Fetched, Latest, SafeBlock
    <3> QED
      BY <2>3, <3>1 DEF ScanInv, ScanTypes, ScanPlaces, HeadersRead, ReadsAreGood, Seen, Canonical
  <2> QED
    BY <2>4, <2>5, <2>6 DEF ScanInv
<1> QED
  BY <1>1, <1>2

-----------------------------------------------------------------------------
(* The steps of a scan that read. *)

(* What is unchanged in all of them *)
rows == <<chain, forks, cursor, scanned, event, baseline, overtaken, unseen>>

LEMMA ReadsStayGood ==
  ASSUME UNCHANGED rows, NEW found, ReadsAreGood(found)
  PROVE  ReadsAreGood(found)'
BY DEF rows, ReadsAreGood, Seen, Canonical, Latest

LEMMA Outside ==
  ASSUME ScanInv, scan'.pc \notin Verified \cup {"reconcile"}, scan'.found = scan.found,
         UNCHANGED rows,
         ScanTypes', ScanPlaces', HeadersRead'
  PROVE  ScanInv'
BY ReadsStayGood DEF ScanInv, VerifiedIsRight, AncestorIsRight, HeadersAreRight, BatchIsSound,
                     BatchIsKept, Verified, Batch

LEMMA HeadStep ==
  ASSUME WorldInv, ScanInv, ReadHead
  PROVE  ScanInv'
<1> USE DEF Batch, Verified, Initializing
<1>1. /\ scan.pc = "idle" /\ SafeBlock > 0 /\ UNCHANGED rows
      /\ SafeBlock \in Int /\ Latest \in Nat /\ StartHeight - ConfirmationDepth <= SafeBlock
      /\ cursor.next \in Int
  BY Blocks, ConfirmationsAssumption, ChainAssumption
  DEF ReadHead, world, rows, SafeBlock, WorldInv, RowTypes
<1>2. /\ scan'.pc = IF cursor = NoCursor THEN "initHeader"
                    ELSE IF AllScanned THEN "confirm" ELSE "verify"
      /\ scan'.safe = SafeBlock /\ scan'.to = SafeBlock /\ scan'.found = scan.found
      /\ scan'.headers = scan.headers /\ ScanTypes'
  BY <1>1 DEF ReadHead, ScanInv, ScanTypes
<1>3. Fetched' = {} /\ SafeBlock' = SafeBlock
  BY <1>1, <1>2 DEF ScanInv, HeadersRead, Fetched, SafeBlock, Latest, rows
<1>4. ScanPlaces'
  BY <1>1, <1>2, <1>3, ConfirmationsAssumption, ChainAssumption
  DEF ScanPlaces, WorldInv, BeforeCursor, AllScanned, rows
<1>5. HeadersRead'
  BY <1>3 DEF HeadersRead
<1> QED
  BY <1>1, <1>2, <1>4, <1>5, Outside

(* The first block to scan is above the first block of the chain. *)
LEMMA FirstBlockIs ==
  ASSUME ScanInv, scan.pc \in Initializing, Latest \in Nat
  PROVE  /\ FirstBlock = scan.safe - InitialLookback + 1
         /\ scan.safe \in Int /\ scan.safe <= SafeBlock /\ SafeBlock \in Int
         /\ scan.safe - InitialLookback \in 1..Latest
BY MaxOfTwo, ConfirmationsAssumption, ChainAssumption
DEF FirstBlock, ScanInv, ScanPlaces, SafeBlock

LEMMA InitHeaderStep ==
  ASSUME WorldInv, ScanInv, InitHeader
  PROVE  ScanInv'
<1> USE DEF Batch, Verified, Initializing
<1> DEFINE b == scan.safe - InitialLookback
<1>1. /\ scan.pc = "initHeader" /\ UNCHANGED rows /\ Latest \in Nat /\ MaxHeight \in Nat
      /\ Latest <= MaxHeight /\ SafeBlock' = SafeBlock /\ Latest' = Latest
  BY Blocks, ChainAssumption DEF InitHeader, world, rows, WorldInv, SafeBlock, Latest
<1>2. FirstBlock - 1 = b /\ b \in 1..Latest /\ scan.safe \in Int
  BY <1>1, FirstBlockIs, ConfirmationsAssumption
<1>3. b \in Height /\ chain[b].fork \in 0..forks /\ forks \in Nat
  BY <1>1, <1>2, Blocks DEF Height, WorldInv, ChainTypes
<1>4. scan' = [scan EXCEPT !.pc = "initBlock", !.headers[b] = chain[b].fork]
  BY <1>2 DEF InitHeader
<1>5. /\ scan'.pc = "initBlock" /\ scan'.safe = scan.safe /\ scan'.found = scan.found
      /\ scan'.headers = [scan.headers EXCEPT ![b] = chain[b].fork]
      /\ ScanTypes'
  <2>1. chain[b].fork \in Int
    BY <1>3
  <2> HIDE DEF b
  <2> QED
    BY <1>4, <2>1 DEF ScanInv, ScanTypes
<1>6. Fetched = {}
  BY <1>1 DEF ScanInv, HeadersRead
<1>7. Fetched' = {b} /\ scan'.headers[b] = chain[b].fork
  BY <1>3, <1>5, <1>6 DEF Fetched, NoFork, ScanInv, ScanTypes
<1>8. ScanPlaces'
  BY <1>1, <1>5, <1>7 DEF ScanInv, ScanPlaces, rows
<1>9. HeadersRead'
  BY <1>1, <1>2, <1>3, <1>5, <1>7 DEF HeadersRead, rows
<1> QED
  BY <1>1, <1>5, <1>8, <1>9, Outside

LEMMA VerifyStep ==
  ASSUME WorldInv, ScanInv, VerifyCursorContinuity
  PROVE  ScanInv'
<1> USE DEF Batch, Verified, Initializing
<1>1. /\ scan.pc = "verify" /\ UNCHANGED rows /\ cursor # NoCursor
      /\ cursor.next <= scan.safe /\ scan.safe <= SafeBlock /\ cursor.next \in Int
      /\ Latest' = Latest /\ SafeBlock' = SafeBlock
  BY DEF VerifyCursorContinuity, world, rows, ScanInv, ScanPlaces, WorldInv, RowTypes,
         Latest, SafeBlock
<1>2. Fetched = {}
  BY <1>1 DEF ScanInv, HeadersRead
<1>3. CASE chain[cursor.next - 1].fork = cursor.hash
  <2>1. /\ scan'.pc = "logs" /\ scan'.safe = scan.safe /\ scan'.found = scan.found
        /\ scan'.headers = scan.headers /\ ScanTypes'
    BY <1>3 DEF VerifyCursorContinuity, ScanInv, ScanTypes
  <2>2. Fetched' = {}
    BY <1>2, <2>1 DEF Fetched
  <2>3. Right(cursor.next - 1)'
    <3>1. Right(cursor.next - 1)
      BY <1>1, <1>3 DEF WorldInv, PassedIsRight, CursorOnChain
    <3> QED
      BY <1>1, <3>1, WorldFrame DEF rows
  <2>4. ScanPlaces' /\ HeadersRead'
    BY <1>1, <2>1, <2>2 DEF ScanPlaces, HeadersRead, rows
  <2>5. ReadsAreGood(scan.found)'
    BY <1>1, <2>1, ReadsStayGood DEF ScanInv
  <2> QED
    BY <1>1, <2>1, <2>2, <2>3, <2>4, <2>5
    DEF ScanInv, VerifiedIsRight, AncestorIsRight, HeadersAreRight, BatchIsSound, BatchIsKept, rows
<1>4. CASE chain[cursor.next - 1].fork # cursor.hash
  <2>1. \A h \in ListCanonicalMarketScannedBlocks :
          h \in Height /\ h < cursor.next /\ scanned[h] # NoFork
    BY DEF ListCanonicalMarketScannedBlocks
  <2>5. ListCanonicalMarketScannedBlocks \subseteq Int
    BY <2>1 DEF Height
  <2>2. /\ scan'.pc = "search" /\ scan'.safe = scan.safe /\ scan'.found = scan.found
        /\ scan'.headers = scan.headers /\ scan'.queue = ListCanonicalMarketScannedBlocks
        /\ ScanTypes'
    BY <1>4, <2>5 DEF VerifyCursorContinuity, ScanInv, ScanTypes
  <2>3. Fetched' = {}
    BY <1>2, <2>2 DEF Fetched
  <2>4. ScanPlaces' /\ HeadersRead'
    BY <1>1, <2>1, <2>2, <2>3 DEF ScanPlaces, HeadersRead, rows
  <2> QED
    BY <1>1, <2>2, <2>4, Outside
<1> QED
  BY <1>3, <1>4

LEMMA SearchStep ==
  ASSUME WorldInv, ScanInv, SearchAncestor
  PROVE  ScanInv'
<1> USE DEF Batch, Verified, Initializing
<1>1. /\ scan.pc = "search" /\ UNCHANGED rows /\ cursor # NoCursor
      /\ cursor.next <= scan.safe /\ scan.safe <= SafeBlock
      /\ Latest' = Latest /\ SafeBlock' = SafeBlock
      /\ \A h \in scan.queue : h \in Height /\ h < cursor.next /\ scanned[h] # NoFork
  BY DEF SearchAncestor, world, rows, ScanInv, ScanPlaces, Latest, SafeBlock
<1>2. Fetched = {}
  BY <1>1 DEF ScanInv, HeadersRead
<1>3. CASE scan' = Idle
  BY <1>3, NoScan
<1>4. ASSUME NEW h \in scan.queue, chain[h].fork = scanned[h],
             scan' = [scan EXCEPT !.pc = "reconcile", !.queue = {}, !.to = h]
      PROVE  ScanInv'
  <2>1. /\ scan'.pc = "reconcile" /\ scan'.to = h /\ scan'.found = scan.found
        /\ scan'.safe = scan.safe /\ scan'.headers = scan.headers /\ ScanTypes'
    BY <1>1, <1>4 DEF ScanInv, ScanTypes, Height
  <2>2. Fetched' = {}
    BY <1>2, <2>1 DEF Fetched
  <2>3. Right(h)'
    BY <1>1, <1>4, WorldFrame DEF WorldInv, ScannedIsRight, rows
  <2>4. ScanPlaces' /\ HeadersRead'
    BY <1>1, <2>1, <2>2 DEF ScanPlaces, HeadersRead, rows
  <2>5. ReadsAreGood(scan.found)'
    BY <1>1, <2>1, ReadsStayGood DEF ScanInv
  <2> QED
    BY <2>1, <2>2, <2>3, <2>4, <2>5
    DEF ScanInv, VerifiedIsRight, AncestorIsRight, HeadersAreRight, BatchIsSound, BatchIsKept
<1>5. ASSUME NEW h \in scan.queue, scan' = [scan EXCEPT !.queue = scan.queue \ {h}]
      PROVE  ScanInv'
  <2>1. /\ scan'.pc = "search" /\ scan'.queue \subseteq scan.queue /\ scan'.found = scan.found
        /\ scan'.safe = scan.safe /\ scan'.headers = scan.headers /\ ScanTypes'
    BY <1>1, <1>5 DEF ScanInv, ScanTypes
  <2>2. Fetched' = {}
    BY <1>2, <2>1 DEF Fetched
  <2>3. ScanPlaces' /\ HeadersRead'
    BY <1>1, <2>1, <2>2 DEF ScanPlaces, HeadersRead, rows
  <2> QED
    BY <1>1, <2>1, <2>3, Outside
<1> QED
  BY <1>3, <1>4, <1>5 DEF SearchAncestor

(* In a batch: what is known before a step and what a step that only reads keeps *)
LEMMA InBatch ==
  ASSUME WorldInv, ScanInv, scan.pc \in Batch
  PROVE  /\ cursor # NoCursor /\ cursor.next \in Int /\ cursor.next >= 2
         /\ scan.to \in Int /\ scan.safe \in Int /\ Latest \in Nat /\ SafeBlock \in Int
         /\ cursor.next <= scan.to /\ scan.to <= scan.safe /\ scan.safe <= SafeBlock
         /\ cursor.next <= scan.safe
         /\ scan.to <= Latest /\ Latest <= MaxHeight /\ MaxHeight \in Nat
         /\ \A h \in Int : cursor.next <= h /\ h <= scan.to => h \in Height /\ h \in 1..Latest
         /\ Fetched \subseteq Int /\ \A h \in Fetched : cursor.next <= h /\ h <= scan.to
<1>1. /\ cursor # NoCursor /\ cursor.next \in Int /\ cursor.next >= 2
      /\ scan.to \in Int /\ scan.safe \in Int
      /\ cursor.next <= scan.to /\ scan.to <= scan.safe /\ scan.safe <= SafeBlock
  BY DEF WorldInv, RowTypes, NoCursor, ScanInv, ScanTypes, ScanPlaces, Batch, Verified,
         Initializing
<1>2. Latest \in Nat /\ SafeBlock \in Int /\ SafeBlock <= Latest /\ Latest <= MaxHeight
      /\ MaxHeight \in Nat
  BY Blocks, ConfirmationsAssumption, ChainAssumption DEF WorldInv, SafeBlock
<1>3. Fetched \subseteq Int /\ \A h \in Fetched : cursor.next <= h /\ h <= scan.to
  BY DEF Fetched, Height, ScanInv, HeadersRead
<1> QED
  BY <1>1, <1>2, <1>3 DEF Height

LEMMA LogsStep ==
  ASSUME WorldInv, ScanInv, FetchCollectionLogs
  PROVE  ScanInv'
<1> USE DEF Batch, Verified, Initializing
<1> DEFINE to == Min({cursor.next + ScanBatchSize - 1, scan.safe})
           found == Logs(cursor.next, to)
           heights == {Place(l).height : l \in found}
<1>1. /\ scan.pc = "logs" /\ UNCHANGED rows /\ cursor # NoCursor
      /\ cursor.next <= scan.safe /\ scan.safe <= SafeBlock /\ cursor.next \in Int
      /\ scan.safe \in Int
      /\ Latest' = Latest /\ SafeBlock' = SafeBlock /\ Right(cursor.next - 1)
  BY DEF FetchCollectionLogs, world, rows, ScanInv, ScanPlaces, ScanTypes, VerifiedIsRight,
         WorldInv, RowTypes, Latest, SafeBlock
<1>2. to \in Int /\ cursor.next <= to /\ to <= scan.safe
  BY <1>1, MinOfTwo, ConfirmationsAssumption
<1>3. scan' = [scan EXCEPT !.pc = "headers", !.to = to, !.txs = {l[1] : l \in found},
                 !.logs = {Place(l) : l \in found}, !.queue = heights \cup {to}]
  BY DEF FetchCollectionLogs
<1> HIDE DEF to
<1>4. /\ found \subseteq Log
      /\ \A l : l \in found <=>
              \E h \in 1..Latest : cursor.next <= h /\ h <= to /\ OnChain(l, h)
  BY <1>1, <1>2, LogsOfBlocks DEF WorldInv
<1> HIDE DEF found
<1>5. \A l \in found : /\ Place(l) \in [height : Int, fork : Int]
                      /\ cursor.next <= Place(l).height /\ Place(l).height <= to
  <2> SUFFICES ASSUME NEW l \in found
               PROVE  /\ Place(l) \in [height : Int, fork : Int]
                      /\ cursor.next <= Place(l).height /\ Place(l).height <= to
    OBVIOUS
  <2>1. PICK h \in 1..Latest : cursor.next <= h /\ h <= to /\ OnChain(l, h)
    BY <1>4
  <2>2. Place(l) = Here(h) /\ Here(h) \in BlockPlace
    BY <2>1, PlaceOfLog, HereIsGood DEF WorldInv
  <2> QED
    BY <2>1, <2>2 DEF Here, BlockPlace
<1>6. {l[1] : l \in found} \subseteq Tx
  BY <1>4 DEF Log
<1>7. /\ scan'.pc = "headers" /\ scan'.to = to /\ scan'.safe = scan.safe
      /\ scan'.found = scan.found /\ scan'.headers = scan.headers
      /\ scan'.queue = heights \cup {to} /\ scan'.txs = {l[1] : l \in found}
      /\ ScanTypes'
  <2>1. /\ heights \cup {to} \subseteq Int
        /\ {Place(l) : l \in found} \subseteq [height : Int, fork : Int]
    BY <1>2, <1>5
  <2> QED
    BY <1>2, <1>3, <1>6, <2>1 DEF ScanInv, ScanTypes
<1>8. Fetched' = {}
  BY <1>1, <1>7 DEF ScanInv, HeadersRead, Fetched
<1>9. ScanPlaces' /\ HeadersRead'
  BY <1>1, <1>2, <1>5, <1>7, <1>8 DEF ScanPlaces, HeadersRead, rows
<1>10. Right(cursor.next - 1)' /\ cursor' = cursor
  BY <1>1, WorldFrame DEF rows
<1>11. BatchIsKept'
  <2> SUFFICES ASSUME NEW l \in Log, NEW h \in 1..Latest', OnChain(l, h)',
                      h \in cursor.next..to
               PROVE  l[1] \in scan'.txs
    BY <1>7, <1>10 DEF BatchIsKept
  <2>1. OnChain(l, h)
    BY <1>1, WorldFrame DEF rows
  <2> QED
    BY <1>1, <1>4, <1>7, <2>1
<1>12. ReadsAreGood(scan.found)'
  BY <1>1, <1>7, ReadsStayGood DEF ScanInv
<1> QED
  BY <1>7, <1>8, <1>9, <1>10, <1>11, <1>12
  DEF ScanInv, VerifiedIsRight, AncestorIsRight, HeadersAreRight, BatchIsSound

(* A header is read, before or after the transactions. *)
LEMMA HeaderStep ==
  ASSUME WorldInv, ScanInv, UNCHANGED rows,
         NEW h \in scan.queue, scan.pc \in {"headers", "retire"},
         NEW queue, queue \subseteq scan.queue, scan.queue \subseteq queue \cup {h},
         scan.pc = "retire" => queue = scan.queue,
         scan' = [scan EXCEPT !.headers[h] = chain[h].fork, !.queue = queue]
  PROVE  ScanInv'
<1> USE DEF Batch, Verified, Initializing
<1>1. /\ cursor.next <= h /\ h <= scan.to /\ h \in Int
  BY DEF ScanInv, ScanPlaces, ScanTypes
<1>2. h \in Height /\ h \in 1..Latest /\ chain[h].fork \in 0..forks /\ forks \in Nat
  BY <1>1, InBatch, Blocks DEF WorldInv, ChainTypes
<1>3. /\ scan'.pc = scan.pc /\ scan'.to = scan.to /\ scan'.safe = scan.safe
      /\ scan'.found = scan.found /\ scan'.txs = scan.txs /\ scan'.queue = queue
      /\ scan'.headers = [scan.headers EXCEPT ![h] = chain[h].fork]
      /\ ScanTypes'
  <2>1. chain[h].fork \in Int
    BY <1>2
  <2> QED
    BY <2>1 DEF ScanInv, ScanTypes
<1>4. /\ scan.headers \in [Height -> Int] /\ scan'.headers \in [Height -> Int]
      /\ scan'.headers[h] = chain[h].fork /\ chain[h].fork # NoFork
      /\ \A g \in Height \ {h} : scan'.headers[g] = scan.headers[g]
  BY <1>2, <1>3 DEF ScanInv, ScanTypes, NoFork
<1>5. Fetched' = Fetched \cup {h}
  BY <1>2, <1>4 DEF Fetched
<1>6. Latest' = Latest /\ SafeBlock' = SafeBlock
  BY DEF rows, Latest, SafeBlock
<1>7. ScanPlaces'
  BY <1>1, <1>3, <1>5, <1>6 DEF ScanInv, ScanPlaces, rows
<1>8. HeadersRead'
  BY <1>1, <1>2, <1>3, <1>4, <1>5, <1>6 DEF ScanInv, HeadersRead, rows, Fetched
<1>9. HeadersAreRight'
  <2>1. ASSUME NEW l \in Log, Live(l), event[l].place = [height |-> h, fork |-> scan'.headers[h]]
        PROVE  Sound(l)
    BY <1>2, <1>4, <2>1 DEF Sound, Canonical
  <2>2. \A g \in Fetched : g # h => g \in Height
    BY DEF Fetched
  <2>3. \A g \in Fetched' :
          /\ \A l \in Log :
               Live(l) /\ event[l].place = [height |-> g, fork |-> scan'.headers[g]] => Sound(l)
          /\ chain[g].fork # scan'.headers[g] => \A l \in chain[g].logs : l[1] \in unseen
    BY <1>4, <1>5, <2>1, <2>2 DEF ScanInv, HeadersAreRight
  <2> QED
    BY <2>3, WorldFrame DEF HeadersAreRight, rows
<1>10. VerifiedIsRight' /\ AncestorIsRight'
  BY <1>3, WorldFrame DEF ScanInv, VerifiedIsRight, AncestorIsRight, rows
<1>11. BatchIsSound'
  BY <1>3, WorldFrame DEF ScanInv, BatchIsSound, rows
<1>12. BatchIsKept'
  BY <1>3, WorldFrame DEF ScanInv, BatchIsKept, rows
<1>13. ReadsAreGood(scan.found)'
  BY <1>3, ReadsStayGood DEF ScanInv
<1> QED
  BY <1>3, <1>7, <1>8, <1>9, <1>10, <1>11, <1>12, <1>13 DEF ScanInv

(* The next place in a batch, with the headers and the end of it as they are *)
LEMMA BatchMoves ==
  ASSUME WorldInv, ScanInv, UNCHANGED rows, scan.pc \in Batch,
         scan'.pc \in Batch \ {"headers"}, ScanTypes',
         scan'.to = scan.to, scan'.safe = scan.safe, scan'.headers = scan.headers,
         scan.to \in Fetched,
         scan'.pc = "retire" => \A h \in scan'.queue : cursor.next <= h /\ h <= scan.to,
         scan'.pc = "store" => scan'.queue \subseteq Fetched,
         ReadsAreGood(scan'.found),
         BatchIsSound', BatchIsKept'
  PROVE  ScanInv'
<1> USE DEF Batch, Verified, Initializing
<1>1. Fetched' = Fetched /\ Latest' = Latest /\ SafeBlock' = SafeBlock
  BY DEF Fetched, Latest, SafeBlock, rows
<1>2. ScanPlaces' /\ HeadersRead'
  BY <1>1 DEF ScanInv, ScanPlaces, HeadersRead, rows
<1>3. VerifiedIsRight' /\ AncestorIsRight'
  BY WorldFrame DEF ScanInv, VerifiedIsRight, AncestorIsRight, rows
<1>4. HeadersAreRight'
  BY <1>1, WorldFrame DEF ScanInv, HeadersAreRight, rows
<1>5. ReadsAreGood(scan.found)'
  BY DEF ReadsAreGood, Seen, Canonical, Latest, rows
<1> QED
  BY <1>2, <1>3, <1>4, <1>5 DEF ScanInv

LEMMA CompareStep ==
  ASSUME WorldInv, ScanInv, CompareHashes
  PROVE  ScanInv'
<1> USE DEF Batch, Verified, Initializing
<1>1. CASE scan' = Idle
  BY <1>1, NoScan
<1>2. CASE scan' = [scan EXCEPT !.pc = "hydrate", !.logs = {}]
  <2>1. /\ scan.pc = "headers" /\ scan.queue = {} /\ UNCHANGED rows
    BY DEF CompareHashes, world, rows
  <2>2. /\ scan'.pc = "hydrate" /\ scan'.to = scan.to /\ scan'.safe = scan.safe
        /\ scan'.headers = scan.headers /\ scan'.found = scan.found /\ scan'.txs = scan.txs
        /\ ScanTypes'
    BY <1>2 DEF ScanInv, ScanTypes
  <2>3. scan.to \in Fetched
    BY <2>1 DEF ScanInv, ScanPlaces
  <2>4. BatchIsSound' /\ BatchIsKept'
    BY <2>1, <2>2, WorldFrame DEF ScanInv, BatchIsSound, BatchIsKept, rows
  <2> QED
    BY <2>1, <2>2, <2>3, <2>4, BatchMoves DEF ScanInv
<1> QED
  BY <1>1, <1>2 DEF CompareHashes

LEMMA HydrateStep ==
  ASSUME WorldInv, ScanInv, Hydrate
  PROVE  ScanInv'
<1> USE DEF Batch, Verified, Initializing
<1>1. CASE scan' = Idle
  BY <1>1, NoScan
<1>2. ASSUME NEW t \in Included,
             scan' = [scan EXCEPT !.pc = "persist", !.found = {Parsed(LogOf(t))}]
      PROVE  ScanInv'
  <2>1. scan.pc = "hydrate" /\ UNCHANGED rows
    BY DEF Hydrate, world, rows
  <2>2. ReadsAreGood({Parsed(LogOf(t))})
    BY ParsedIsGood DEF WorldInv
  <2>3. {Parsed(LogOf(t))} \subseteq ParsedLog
    BY <2>2 DEF ReadsAreGood
  <2>4. /\ scan'.pc = "persist" /\ scan'.to = scan.to /\ scan'.safe = scan.safe
        /\ scan'.headers = scan.headers /\ scan'.txs = scan.txs
        /\ scan'.found = {Parsed(LogOf(t))}
        /\ ScanTypes'
    BY <1>2, <2>3 DEF ScanInv, ScanTypes
  <2>5. scan.to \in Fetched
    BY <2>1 DEF ScanInv, ScanPlaces
  <2>6. BatchIsSound' /\ BatchIsKept'
    BY <2>1, <2>4, WorldFrame DEF ScanInv, BatchIsSound, BatchIsKept, rows
  <2> QED
    BY <2>1, <2>2, <2>4, <2>5, <2>6, BatchMoves
<1> QED
  BY <1>1, <1>2 DEF Hydrate

LEMMA ListStep ==
  ASSUME WorldInv, ScanInv, ListUnconfirmedMarketEventBlocks
  PROVE  ScanInv'
<1> USE DEF Batch, Verified, Initializing
<1> DEFINE open == {l \in Log : Live(l) /\ ~event[l].confirmed
                               /\ event[l].place.height \in cursor.next..scan.to}
           queue == {event[l].place.height : l \in open}
<1>1. scan.pc = "hydrate" /\ scan.txs = {} /\ UNCHANGED rows
  BY DEF ListUnconfirmedMarketEventBlocks, world, rows
<1>2. scan' = [scan EXCEPT !.pc = "retire", !.queue = queue]
  BY DEF ListUnconfirmedMarketEventBlocks
<1>3. \A h \in queue : h \in Int /\ cursor.next <= h /\ h <= scan.to
  BY <1>1, InBatch
<1>4. /\ scan'.pc = "retire" /\ scan'.to = scan.to /\ scan'.safe = scan.safe
      /\ scan'.headers = scan.headers /\ scan'.found = scan.found /\ scan'.queue = queue
      /\ ScanTypes'
  BY <1>2, <1>3 DEF ScanInv, ScanTypes
<1>5. scan.to \in Fetched
  BY <1>1 DEF ScanInv, ScanPlaces
<1>6. BatchIsSound'
  <2>1. ASSUME NEW l \in Log, Live(l), event[l].place.height \in cursor.next..scan.to
        PROVE  Sound(l) \/ event[l].place.height \in queue
    BY <1>1, <2>1, InBatch DEF WorldInv, ConfirmedAbove
  <2> QED
    BY <1>1, <1>4, <2>1, WorldFrame DEF BatchIsSound, rows
<1>7. BatchIsKept'
  BY <1>1, <1>4, WorldFrame DEF ScanInv, BatchIsKept, rows
<1> QED
  BY <1>1, <1>3, <1>4, <1>5, <1>6, <1>7, BatchMoves DEF ScanInv

LEMMA StoreBegins ==
  ASSUME WorldInv, ScanInv, StoreScannedBlocks
  PROVE  ScanInv'
<1> USE DEF Batch, Verified, Initializing
<1>1. scan.pc = "retire" /\ scan.queue = {} /\ UNCHANGED rows
  BY DEF StoreScannedBlocks, world, rows
<1>2. /\ scan'.pc = "store" /\ scan'.to = scan.to /\ scan'.safe = scan.safe
      /\ scan'.headers = scan.headers /\ scan'.found = scan.found /\ scan'.queue = Fetched
      /\ ScanTypes'
  BY <1>1, InBatch DEF StoreScannedBlocks, ScanInv, ScanTypes
<1>3. scan.to \in Fetched
  BY <1>1 DEF ScanInv, ScanPlaces
<1>4. BatchIsSound' /\ BatchIsKept'
  BY <1>1, <1>2, WorldFrame DEF ScanInv, BatchIsSound, BatchIsKept, rows
<1> QED
  BY <1>1, <1>2, <1>3, <1>4, BatchMoves DEF ScanInv

-----------------------------------------------------------------------------
(* The steps of a scan that write. *)

LEMMA InitBlockStep ==
  ASSUME WorldInv, ScanInv, InitBlock
  PROVE  WorldInv' /\ ScanInv'
<1> USE DEF Batch, Verified, Initializing
<1> DEFINE b == scan.safe - InitialLookback
<1>1. /\ scan.pc = "initBlock" /\ cursor = NoCursor /\ Latest \in Nat
      /\ Latest' = Latest /\ SafeBlock' = SafeBlock
      /\ UNCHANGED <<chain, forks, cursor, event, hook, baseline, overtaken, unseen>>
  BY Blocks DEF InitBlock, world, ScanInv, ScanPlaces, WorldInv, Latest, SafeBlock
<1>2. /\ FirstBlock - 1 = b /\ b \in 1..Latest /\ b \in Fetched
      /\ scan.safe \in Int /\ scan.safe <= SafeBlock /\ SafeBlock \in Int
  BY <1>1, FirstBlockIs, ConfirmationsAssumption DEF ScanInv, ScanPlaces
<1>3. scanned' = [scanned EXCEPT ![b] = scan.headers[b]]
  BY <1>2 DEF InitBlock, UpsertMarketScannedBlock
<1>4. b \in Height /\ scan.headers[b] \in 0..forks
  BY <1>2 DEF Fetched, ScanInv, HeadersRead
<1> HIDE DEF b
<1>5. /\ scanned' \in [Height -> Int] /\ scanned'[b] = scan.headers[b]
      /\ \A h \in Height \ {b} : scanned'[h] = scanned[h]
  BY <1>3, <1>4 DEF WorldInv, RowTypes
<1>6. WorldInv'
  <2>1. ChainTypes' /\ LogsDiffer'
    BY <1>1 DEF WorldInv, ChainTypes, LogsDiffer
  <2>2. RowTypes'
    <3>1. \A h \in Height :
            scanned'[h] = NoFork \/ (scanned'[h] \in 0..forks /\ h <= Latest)
      BY <1>1, <1>2, <1>4, <1>5 DEF WorldInv, RowTypes
    <3> QED
      BY <1>1, <1>5, <3>1 DEF WorldInv, RowTypes
  <2>3. RowsWereSeen' /\ ReadsAreGood(hook)'
    BY <1>1 DEF WorldInv, RowsWereSeen, ReadsAreGood, Seen, Canonical
  <2>4. BeforeCursor'
    <3>1. b <= SafeBlock - InitialLookback
      BY <1>2, ConfirmationsAssumption DEF b
    <3> QED
      BY <1>1, <1>5, <3>1, WorldFrame DEF WorldInv, BeforeCursor
  <2>5. StaleWereOvertaken' /\ ConfirmedAbove'
    BY <1>1, WorldFrame DEF WorldInv, StaleWereOvertaken, ConfirmedAbove, Canonical
  <2>6. PassedIsRight' /\ ScannedIsRight'
    BY <1>1 DEF PassedIsRight, ScannedIsRight, CursorOnChain
  <2> QED
    BY <2>1, <2>2, <2>3, <2>4, <2>5, <2>6 DEF WorldInv
<1>7. ScanInv'
  <2>1. /\ scan'.pc = "initCursor" /\ scan'.safe = scan.safe /\ scan'.headers = scan.headers
        /\ scan'.found = scan.found /\ ScanTypes'
    BY DEF InitBlock, ScanInv, ScanTypes
  <2>2. Fetched' = Fetched
    BY <2>1 DEF Fetched
  <2>3. ScanPlaces'
    <3>1. b <= scan.safe - InitialLookback /\ scan.safe - InitialLookback \in Fetched
      BY <1>2, ConfirmationsAssumption DEF b
    <3>2. \A h \in Height : scanned'[h] # NoFork => h <= scan.safe - InitialLookback
      BY <1>1, <1>5, <3>1 DEF ScanInv, ScanPlaces
    <3> QED
      BY <1>1, <2>1, <2>2, <3>1, <3>2 DEF ScanInv, ScanPlaces
  <2>4. HeadersRead'
    BY <1>1, <2>1, <2>2 DEF ScanInv, HeadersRead
  <2>5. ReadsAreGood(scan.found)'
    BY <1>1, <2>1 DEF ScanInv, ReadsAreGood, Seen, Canonical
  <2> QED
    BY <2>1, <2>3, <2>4, <2>5
    DEF ScanInv, VerifiedIsRight, AncestorIsRight, HeadersAreRight, BatchIsSound, BatchIsKept
<1> QED
  BY <1>6, <1>7

(* Below the first cursor every row is sound: a webhook's row whose block was
   replaced is one that is never compared. *)
LEMMA InitCursorStep ==
  ASSUME WorldInv, ScanInv, InitCursor
  PROVE  WorldInv' /\ ScanInv'
<1> USE DEF Batch, Verified, Initializing
<1>1. /\ scan.pc = "initCursor" /\ cursor = NoCursor /\ Latest \in Nat
      /\ Latest' = Latest /\ SafeBlock' = SafeBlock
      /\ UNCHANGED <<chain, forks, event, scanned, hook, overtaken, unseen>>
      /\ baseline' = FirstBlock
  BY Blocks DEF InitCursor, world, ScanInv, ScanPlaces, WorldInv, Latest, SafeBlock
<1> DEFINE b == scan.safe - InitialLookback
<1>2. /\ FirstBlock = b + 1 /\ b \in 1..Latest /\ b \in Fetched
      /\ scan.safe \in Int /\ scan.safe <= SafeBlock /\ SafeBlock \in Int
      /\ b + 1 <= scan.safe /\ scan.headers[b] \in 0..forks
      /\ \A h \in Height : scanned[h] # NoFork => h <= b
  BY <1>1, FirstBlockIs, ConfirmationsAssumption DEF ScanInv, ScanPlaces, HeadersRead
<1>3. cursor' = [next |-> b + 1, hash |-> scan.headers[b]]
  <2>1. FirstBlock - 1 = b /\ FirstBlock >= cursor.next
    BY <1>1, <1>2 DEF NoCursor
  <2> QED
    BY <1>2, <2>1 DEF InitCursor, AdvanceMarketChainCursor
<1> HIDE DEF b
<1>4. /\ baseline' = b + 1 /\ cursor'.next = b + 1 /\ cursor' # NoCursor
      /\ forks \in Nat /\ b \in Int
  BY <1>1, <1>2, <1>3 DEF NoCursor, WorldInv, ChainTypes
<1>5. \A l \in Log : Live(l)' => Live(l) /\ ~event'[l].confirmed /\ event'[l].place.height \in Int
  <2>1. \A l \in Log : Live(l) => event[l].place.height \in Int
    BY DEF WorldInv, RowsWereSeen, Seen, BlockPlace, Live
  <2> QED
    BY <1>1, <2>1 DEF WorldInv, BeforeCursor, Live
<1>6. ASSUME NEW g \in Int, g <= b PROVE Right(g)'
  <2>1. SoundThrough(g)'
    BY <1>1, <1>4, <1>5, <1>6
    DEF SoundThrough, Sound, NeverCompared, WorldInv, StaleWereOvertaken, Canonical, Live
  <2>2. KeptThrough(g)'
    BY <1>1, <1>4, <1>6 DEF KeptThrough
  <2> QED
    BY <2>1, <2>2 DEF Right
<1>7. WorldInv'
  <2>1. ChainTypes' /\ LogsDiffer'
    BY <1>1 DEF WorldInv, ChainTypes, LogsDiffer
  <2>2. RowTypes'
    BY <1>1, <1>2, <1>3, <1>4 DEF WorldInv, RowTypes
  <2>3. RowsWereSeen' /\ ReadsAreGood(hook)'
    BY <1>1 DEF WorldInv, RowsWereSeen, ReadsAreGood, Seen, Canonical
  <2>4. BeforeCursor'
    BY <1>4 DEF BeforeCursor
  <2>5. StaleWereOvertaken' /\ ConfirmedAbove'
    BY <1>1, <1>5 DEF WorldInv, StaleWereOvertaken, ConfirmedAbove, Canonical, Live
  <2>6. PassedIsRight'
    BY <1>4, <1>6 DEF PassedIsRight
  <2>7. ScannedIsRight'
    BY <1>1, <1>2, <1>6 DEF ScannedIsRight, Height
  <2> QED
    BY <2>1, <2>2, <2>3, <2>4, <2>5, <2>6, <2>7 DEF WorldInv
<1>8. ScanInv'
  <2>1. /\ scan'.pc = "verify" /\ scan'.safe = scan.safe /\ scan'.headers = Idle.headers
        /\ scan'.found = scan.found /\ ScanTypes'
    <3>1. Idle.headers \in [Height -> Int]
      BY DEF Idle, NoFork
    <3> QED
      BY <3>1 DEF InitCursor, ScanInv, ScanTypes
  <2>2. Fetched' = {}
    BY <2>1 DEF Fetched, Idle
  <2>3. ScanPlaces' /\ HeadersRead'
    BY <1>1, <1>2, <1>4, <2>1, <2>2 DEF ScanPlaces, HeadersRead
  <2>4. ReadsAreGood(scan.found)'
    BY <1>1, <2>1 DEF ScanInv, ReadsAreGood, Seen, Canonical
  <2> QED
    BY <2>1, <2>3, <2>4
    DEF ScanInv, VerifiedIsRight, AncestorIsRight, HeadersAreRight, BatchIsSound, BatchIsKept
<1> QED
  BY <1>7, <1>8

LEMMA ReconcileStep ==
  ASSUME WorldInv, ScanInv, Reconcile
  PROVE  WorldInv' /\ ScanInv'
<1> USE DEF Batch, Verified, Initializing
<1> DEFINE a == scan.to
<1>1. /\ scan.pc = "reconcile" /\ cursor # NoCursor /\ Latest \in Nat
      /\ Latest' = Latest /\ SafeBlock' = SafeBlock
      /\ UNCHANGED <<chain, forks, hook, baseline, overtaken, unseen>>
      /\ a \in Height /\ a < cursor.next /\ scanned[a] # NoFork /\ a \in Int
      /\ cursor.next <= scan.safe /\ scan.safe <= SafeBlock /\ scan.safe \in Int
      /\ SafeBlock \in Int /\ cursor.next \in Int /\ Right(a)
  BY Blocks, ConfirmationsAssumption
  DEF Reconcile, world, ScanInv, ScanPlaces, ScanTypes, AncestorIsRight, Height,
      WorldInv, RowTypes, Latest, SafeBlock
<1>2. /\ scanned' = [h \in Height |-> IF h > a THEN NoFork ELSE scanned[h]]
      /\ event' = [l \in Log |->
           IF Live(l) /\ event[l].place.height > a
           THEN [event[l] EXCEPT !.reorged = TRUE, !.confirmed = FALSE] ELSE event[l]]
      /\ cursor' = [next |-> a + 1, hash |-> scanned[a]]
      /\ scan' = [scan EXCEPT !.pc = "logs"]
  BY DEF Reconcile, ReconcileMarketReorg, Retire, RewindCursor
<1> HIDE DEF a
<1>3. a <= Latest /\ a >= 1 /\ scanned[a] \in 0..forks /\ forks \in Nat
  BY <1>1 DEF WorldInv, RowTypes, ChainTypes, Height
<1>4. /\ cursor'.next = a + 1 /\ cursor'.hash = scanned[a] /\ cursor' # NoCursor
  BY <1>1, <1>2, <1>3 DEF NoCursor
<1>12. /\ \A h \in Height : h \in Int /\ scanned[h] \in Int
       /\ \A h \in Height : scanned'[h] = IF h > a THEN NoFork ELSE scanned[h]
       /\ scanned' \in [Height -> Int]
  <2>1. \A h \in Height : h \in Int /\ scanned[h] \in Int
    BY DEF Height, WorldInv, RowTypes
  <2>2. scanned' = [h \in Height |-> IF h > a THEN NoFork ELSE scanned[h]]
    BY <1>2
  <2> QED
    BY <2>1, <2>2 DEF NoFork
<1>5. event' \in [Log -> {NoRow} \cup EventRow]
  BY <1>2 DEF WorldInv, RowTypes, EventRow, Live
<1>6. \A l \in Log : Live(l) => event[l].place.height \in Int
  BY DEF WorldInv, RowsWereSeen, Seen, BlockPlace, Live
<1>7. \A l \in Log : Live(l)' =>
        Live(l) /\ event'[l] = event[l] /\ event[l].place.height <= a
  <2> SUFFICES ASSUME NEW l \in Log, Live(l)'
               PROVE  Live(l) /\ event'[l] = event[l] /\ event[l].place.height <= a
    OBVIOUS
  <2>1. event[l] \in {NoRow} \cup EventRow
    BY DEF WorldInv, RowTypes
  <2>2. ~(Live(l) /\ event[l].place.height > a)
    BY <1>2, <2>1 DEF Live, EventRow
  <2>3. event'[l] = event[l]
    BY <1>2, <2>2
  <2> QED
    BY <1>1, <1>6, <2>2, <2>3 DEF Live
<1>8. \A l \in Log : Live(l) /\ event[l].place.height <= a => Live(l)' /\ event'[l] = event[l]
  <2> SUFFICES ASSUME NEW l \in Log, Live(l), event[l].place.height <= a
               PROVE  Live(l)' /\ event'[l] = event[l]
    OBVIOUS
  <2>1. ~(event[l].place.height > a)
    BY <1>1, <1>6
  <2>2. event'[l] = event[l]
    BY <1>2, <2>1
  <2> QED
    BY <2>2 DEF Live
<1>9. ASSUME NEW g \in Int, g <= a, Right(g) PROVE Right(g)'
  <2>1. \A l \in Log : Live(l)' /\ event'[l].place.height <= g => RowComes(l)
    BY <1>7 DEF RowComes
  <2>2. \A l \in Log, h \in 1..Latest : h <= g => RowStays(l, h)
    BY <1>1, <1>8, <1>9 DEF RowStays, Here
  <2> QED
    BY <1>1, <1>9, <2>1, <2>2, RowsMove
<1>10. WorldInv'
  <2>1. ChainTypes' /\ LogsDiffer'
    BY <1>1 DEF WorldInv, ChainTypes, LogsDiffer
  <2>2. RowTypes'
    <3>2. \A h \in Height : scanned'[h] = NoFork \/ (scanned'[h] \in 0..forks /\ h <= Latest)
      BY <1>12 DEF WorldInv, RowTypes
    <3>1. cursor' = [next |-> a + 1, hash |-> scanned[a]]
      BY <1>2
    <3>3. cursor' \in [next : Nat, hash : Int] /\ cursor'.next \in 2..Latest + 1
      BY <1>1, <1>3, <3>1
    <3> QED
      BY <1>1, <1>3, <1>4, <1>5, <1>12, <3>2, <3>3 DEF WorldInv, RowTypes
  <2>3. RowsWereSeen'
    <3>1. \A l \in Log : event'[l] # NoRow => event[l] # NoRow /\ event'[l].place = event[l].place
      BY <1>2 DEF WorldInv, RowTypes, Live, EventRow
    <3> QED
      BY <1>1, <3>1 DEF WorldInv, RowsWereSeen, Seen
  <2>4. ReadsAreGood(hook)'
    BY <1>1 DEF WorldInv, ReadsAreGood, Seen, Canonical
  <2>5. BeforeCursor'
    BY <1>4 DEF BeforeCursor
  <2>6. StaleWereOvertaken'
    BY <1>1, <1>7 DEF WorldInv, StaleWereOvertaken, Canonical
  <2>7. ConfirmedAbove'
    BY <1>1, <1>4, <1>6, <1>7 DEF ConfirmedAbove
  <2>8. PassedIsRight'
    BY <1>1, <1>4, <1>9 DEF PassedIsRight
  <2>9. ScannedIsRight'
    <3>1. \A h \in Height : scanned'[h] # NoFork => h <= a /\ scanned'[h] = scanned[h] /\ h \in Int
      BY <1>1, <1>12
    <3> QED
      BY <1>1, <1>9, <3>1 DEF WorldInv, ScannedIsRight
  <2> QED
    BY <2>1, <2>2, <2>3, <2>4, <2>5, <2>6, <2>7, <2>8, <2>9 DEF WorldInv
<1>11. ScanInv'
  <2>1. /\ scan'.pc = "logs" /\ scan'.safe = scan.safe /\ scan'.headers = scan.headers
        /\ scan'.found = scan.found /\ ScanTypes'
    BY <1>2 DEF ScanInv, ScanTypes
  <2>2. Fetched' = {}
    BY <1>1, <2>1 DEF Fetched, ScanInv, HeadersRead
  <2>3. ScanPlaces' /\ HeadersRead'
    BY <1>1, <1>4, <2>1, <2>2 DEF ScanPlaces, HeadersRead
  <2>4. ReadsAreGood(scan.found)'
    BY <1>1, <2>1 DEF ScanInv, ReadsAreGood, Seen, Canonical
  <2>5. VerifiedIsRight'
    BY <1>1, <1>4, <1>9 DEF VerifiedIsRight
  <2> QED
    BY <2>1, <2>3, <2>4, <2>5
    DEF ScanInv, AncestorIsRight, HeadersAreRight, BatchIsSound, BatchIsKept
<1> QED
  BY <1>10, <1>11

(* A live row that the scan meets is where the chain has its log, or exempt. *)
LEMMA LiveIsKept ==
  ASSUME WorldInv, ScanInv, scan.pc \in Batch,
         NEW l \in Log, NEW h \in 1..Latest, OnChain(l, h),
         Live(l)
  PROVE  Kept(l, h)
<1>1. Seen(l, event[l].place) /\ event[l].place.height \in Int /\ cursor.next \in Int
  BY InBatch DEF WorldInv, RowsWereSeen, Seen, BlockPlace, Live
<1>2. Canonical(event[l].place) \/ l[1] \in unseen \/ l \in overtaken
  <2>1. CASE ~event[l].confirmed
    BY <2>1 DEF WorldInv, StaleWereOvertaken
  <2>2. CASE event[l].confirmed /\ event[l].place.height >= cursor.next
    BY <2>2 DEF WorldInv, ConfirmedAbove, Sound, NeverCompared
  <2>3. CASE event[l].place.height <= cursor.next - 1
    BY <2>3 DEF ScanInv, VerifiedIsRight, Verified, Right, SoundThrough, Sound, NeverCompared
  <2> QED
    BY <1>1, <2>1, <2>2, <2>3
<1>3. Canonical(event[l].place) => event[l].place = Here(h)
  BY <1>1, CanonicalIsHere DEF WorldInv
<1> QED
  BY <1>2, <1>3 DEF Kept

LEMMA PersistStep ==
  ASSUME WorldInv, ScanInv, PersistParsedEvent
  PROVE  WorldInv' /\ ScanInv'
<1> USE DEF Batch, Verified, Initializing
<1>1. /\ scan.pc = "persist" /\ cursor # NoCursor
      /\ UNCHANGED <<chain, forks, cursor, scanned, hook, baseline, overtaken, unseen>>
      /\ Latest' = Latest /\ SafeBlock' = SafeBlock
  BY InBatch DEF PersistParsedEvent, world, Latest, SafeBlock
<1>2. PICK p \in scan.found :
        /\ CreateMarketEvent(p.log, p.at, TRUE)
        /\ scan' = [scan EXCEPT !.pc = "hydrate", !.found = {}, !.txs = scan.txs \ {p.log[1]}]
  BY DEF PersistParsedEvent
<1>3. p \in ParsedLog /\ ReadsAreGood({p})
  BY DEF ScanInv, ReadsAreGood
<1>4. /\ WorldInv'
      /\ \A l \in Log : Live(l)' => RowComes(l)
      /\ \A l \in Log, h \in 1..Latest : RowStays(l, h)
      /\ \A l \in Log : Live(l) => event'[l] = event[l]
      /\ Live(p.log)' /\ (~Live(p.log) => event'[p.log].place = p.at)
  BY <1>1, <1>2, <1>3, CreateStep
<1>5. /\ scan'.pc = "hydrate" /\ scan'.to = scan.to /\ scan'.safe = scan.safe
      /\ scan'.headers = scan.headers /\ scan'.found = {} /\ scan'.txs = scan.txs \ {p.log[1]}
      /\ ScanTypes'
  BY <1>2 DEF ScanInv, ScanTypes
<1>6. /\ VerifiedIsRight' /\ AncestorIsRight' /\ HeadersAreRight'
      /\ \A l \in Log, h \in 1..Latest : OnChain(l, h) /\ Kept(l, h) => Kept(l, h)'
  BY <1>1, <1>4, <1>5, AllRowsMove
<1>7. Fetched' = Fetched
  BY <1>5 DEF Fetched
<1>8. ScanPlaces' /\ HeadersRead'
  BY <1>1, <1>5, <1>7 DEF ScanInv, ScanPlaces, HeadersRead
<1>9. ASSUME NEW l \in Log, NEW h \in 1..Latest, OnChain(l, h), l[1] = p.log[1]
      PROVE  Kept(l, h)'
  <2>1. CASE l[1] \in unseen
    BY <1>1, <2>1 DEF Kept
  <2>2. CASE Canonical(p.at)
    <3>1. p.log \in chain[p.at.height].logs /\ p.at.height \in 1..Latest /\ Seen(p.log, p.at)
      BY <1>3, <2>2 DEF ReadsAreGood, Seen, Canonical
    <3>2. l = p.log
      BY <1>9, <3>1 DEF WorldInv, LogsDiffer, OnChain
    <3>3. p.at = Here(h)
      BY <1>9, <2>2, <3>1, <3>2, CanonicalIsHere DEF WorldInv
    <3>4. CASE Live(l)
      BY <1>1, <1>6, <1>9, <3>4, LiveIsKept
    <3>5. CASE ~Live(l)
      BY <1>1, <1>4, <3>2, <3>3, <3>5 DEF Kept, Here
    <3> QED
      BY <3>4, <3>5
  <2> QED
    BY <1>3, <1>9, <2>1, <2>2 DEF ReadsAreGood
<1>10. BatchIsKept'
  BY <1>1, <1>5, <1>6, <1>9 DEF ScanInv, BatchIsKept, OnChain
<1>11. BatchIsSound' /\ ReadsAreGood(scan.found)'
  BY <1>5 DEF BatchIsSound, ReadsAreGood
<1> QED
  BY <1>4, <1>5, <1>6, <1>8, <1>10, <1>11 DEF ScanInv

(* What stands at a height with another hash than the header's goes; none of it
   was the chain's but for moved transactions. *)
LEMMA RetireStep ==
  ASSUME WorldInv, ScanInv, RetireUnconfirmed
  PROVE  WorldInv' /\ ScanInv'
<1> USE DEF Batch, Verified, Initializing
<1>1. /\ scan.pc = "retire" /\ cursor # NoCursor
      /\ UNCHANGED <<chain, forks, cursor, scanned, hook, baseline, overtaken, unseen>>
      /\ Latest' = Latest /\ SafeBlock' = SafeBlock
  BY InBatch DEF RetireUnconfirmed, world, Latest, SafeBlock
<1>2. PICK g \in scan.queue \cap Fetched :
        /\ MarkMarketBlockReorged(g, scan.headers[g])
        /\ scan' = [scan EXCEPT !.queue = scan.queue \ {g}]
  BY DEF RetireUnconfirmed
<1> DEFINE Gone(l) == /\ Live(l) /\ event[l].place.height = g
                      /\ event[l].place.fork # scan.headers[g]
<1>3. event' = [l \in Log |->
        IF Gone(l) THEN [event[l] EXCEPT !.reorged = TRUE, !.confirmed = FALSE]
        ELSE event[l]]
  BY <1>2 DEF MarkMarketBlockReorged, Retire
<1>4. /\ \A l \in Log : ~Gone(l) => event'[l] = event[l]
      /\ \A l \in Log : Gone(l) => ~Live(l)' /\ event'[l] # NoRow
                                   /\ event'[l].place = event[l].place
      /\ event' \in [Log -> {NoRow} \cup EventRow]
  <2>1. event \in [Log -> {NoRow} \cup EventRow]
    BY DEF WorldInv, RowTypes
  <2>2. \A l \in Log : Gone(l) => event[l] \in EventRow
    BY <2>1 DEF Live
  <2>3. \A r \in EventRow : [r EXCEPT !.reorged = TRUE, !.confirmed = FALSE] \in EventRow
    BY DEF EventRow
  <2>4. \A r \in EventRow : /\ [r EXCEPT !.reorged = TRUE, !.confirmed = FALSE].reorged
                            /\ [r EXCEPT !.reorged = TRUE, !.confirmed = FALSE].place = r.place
    BY DEF EventRow
  <2>5. \A r \in EventRow : r # NoRow
    BY DEF EventRow, NoRow, BlockPlace, NoPlace
  <2> QED
    BY <1>3, <2>1, <2>2, <2>3, <2>4, <2>5 DEF Live
<1> HIDE DEF Gone
<1>5. \A l \in Log : Live(l)' => Live(l) /\ ~Gone(l) /\ event'[l] = event[l]
  BY <1>4 DEF Live
<1>6. \A l \in Log : Live(l)' => RowComes(l)
  BY <1>5 DEF RowComes
<1>7. \A l \in Log, h \in 1..Latest : RowStays(l, h)
  <2> SUFFICES ASSUME NEW l \in Log, NEW h \in 1..Latest,
                      Live(l), OnChain(l, h), event[l].place = Here(h)
               PROVE  l[1] \in unseen \/ (Live(l)' /\ event'[l] = event[l])
    BY DEF RowStays
  <2>1. CASE Gone(l)
    <3>1. h = g /\ chain[g].fork # scan.headers[g] /\ l \in chain[g].logs
      BY <2>1 DEF Gone, Here, OnChain
    <3> QED
      BY <1>1, <1>2, <3>1 DEF ScanInv, HeadersAreRight
  <2>2. CASE ~Gone(l)
    BY <1>4, <2>2 DEF Live
  <2> QED
    BY <2>1, <2>2
<1>8. /\ scan'.pc = "retire" /\ scan'.to = scan.to /\ scan'.safe = scan.safe
      /\ scan'.headers = scan.headers /\ scan'.found = scan.found
      /\ scan'.queue = scan.queue \ {g} /\ ScanTypes'
  BY <1>1, <1>2 DEF ScanInv, ScanTypes
<1>9. /\ \A h : Right(h) => Right(h)'
      /\ \A l : event'[l].place = event[l].place => (Sound(l)' <=> Sound(l))
      /\ \A l \in Log, h \in 1..Latest : OnChain(l, h) /\ Kept(l, h) => Kept(l, h)'
      /\ VerifiedIsRight' /\ AncestorIsRight' /\ HeadersAreRight'
  BY <1>1, <1>6, <1>7, <1>8, AllRowsMove
<1>10. WorldInv'
  <2>1. ChainTypes' /\ LogsDiffer'
    BY <1>1 DEF WorldInv, ChainTypes, LogsDiffer
  <2>2. RowTypes'
    BY <1>1, <1>4 DEF WorldInv, RowTypes
  <2>3. RowsWereSeen'
    <3>1. \A l \in Log : event'[l] # NoRow => event[l] # NoRow /\ event'[l].place = event[l].place
      BY <1>4 DEF Gone, Live
    <3> QED
      BY <1>1, <3>1 DEF WorldInv, RowsWereSeen, Seen
  <2>4. ReadsAreGood(hook)'
    BY <1>1 DEF WorldInv, ReadsAreGood, Seen, Canonical
  <2>5. BeforeCursor'
    BY <1>1 DEF BeforeCursor
  <2>6. StaleWereOvertaken'
    BY <1>1, <1>5 DEF WorldInv, StaleWereOvertaken, Canonical
  <2>7. ConfirmedAbove'
    BY <1>1, <1>5, <1>9 DEF WorldInv, ConfirmedAbove
  <2>8. PassedIsRight' /\ ScannedIsRight'
    BY <1>1, <1>9 DEF WorldInv, PassedIsRight, ScannedIsRight, CursorOnChain
  <2> QED
    BY <2>1, <2>2, <2>3, <2>4, <2>5, <2>6, <2>7, <2>8 DEF WorldInv
<1>11. ScanInv'
  <2>1. Fetched' = Fetched
    BY <1>8 DEF Fetched
  <2>2. ScanPlaces' /\ HeadersRead'
    BY <1>1, <1>8, <2>1 DEF ScanInv, ScanPlaces, HeadersRead
  <2>3. ReadsAreGood(scan.found)'
    BY <1>1, <1>8 DEF ScanInv, ReadsAreGood, Seen, Canonical
  <2>4. BatchIsSound'
    <3> SUFFICES ASSUME NEW l \in Log, Live(l)', event'[l].place.height \in cursor.next..scan.to
                 PROVE  Sound(l)' \/ event'[l].place.height \in scan.queue \ {g}
      BY <1>1, <1>8 DEF BatchIsSound
    <3>1. Live(l) /\ ~Gone(l) /\ event'[l] = event[l] /\ (Sound(l)' <=> Sound(l))
      BY <1>5, <1>9
    <3>2. Sound(l) \/ event[l].place.height \in scan.queue
      BY <1>1, <3>1 DEF ScanInv, BatchIsSound
    <3>3. CASE event[l].place.height = g
      <4>1. event[l].place \in BlockPlace /\ event[l].place.fork = scan.headers[g]
        BY <3>1, <3>3 DEF WorldInv, RowsWereSeen, Seen, Live, Gone
      <4>2. event[l].place = [height |-> g, fork |-> scan.headers[g]]
        BY <3>3, <4>1 DEF BlockPlace
      <4> QED
        BY <1>1, <1>2, <3>1, <4>2 DEF ScanInv, HeadersAreRight
    <3> QED
      BY <3>1, <3>2, <3>3
  <2>5. BatchIsKept'
    BY <1>1, <1>8, <1>9 DEF ScanInv, BatchIsKept, OnChain
  <2> QED
    BY <1>8, <1>9, <2>2, <2>3, <2>4, <2>5 DEF ScanInv
<1> QED
  BY <1>10, <1>11

(* Once the batch is stored, all of it agrees with the chain. *)
LEMMA BatchIsRight ==
  ASSUME WorldInv, ScanInv, scan.pc = "store", NEW g \in Int,
         cursor.next <= g, g <= scan.to
  PROVE  Right(g)
<1>1. Right(cursor.next - 1) /\ cursor.next \in Int /\ scan.to \in Int /\ Latest \in Nat
  BY InBatch DEF ScanInv, VerifiedIsRight, Verified, Batch
<1>2. \A l \in Log : Live(l) => event[l].place.height \in Int
  BY DEF WorldInv, RowsWereSeen, Seen, BlockPlace, Live
<1>3. SoundThrough(g)
  <2> SUFFICES ASSUME NEW l \in Log, Live(l), event[l].place.height <= g PROVE Sound(l)
    BY DEF SoundThrough
  <2>1. CASE event[l].place.height <= cursor.next - 1
    BY <1>1, <2>1 DEF Right, SoundThrough
  <2>2. CASE event[l].place.height \in cursor.next..scan.to
    BY <2>2 DEF ScanInv, BatchIsSound
  <2> QED
    BY <1>1, <1>2, <2>1, <2>2
<1>4. KeptThrough(g)
  <2> SUFFICES ASSUME NEW l \in Log, NEW h \in 1..Latest, OnChain(l, h), baseline <= h, h <= g
               PROVE  Kept(l, h)
    BY DEF KeptThrough
  <2>1. CASE h <= cursor.next - 1
    BY <1>1, <2>1 DEF Right, KeptThrough
  <2>2. CASE h \in cursor.next..scan.to
    BY <2>2 DEF ScanInv, BatchIsKept, Batch
  <2> QED
    BY <1>1, <2>1, <2>2
<1> QED
  BY <1>3, <1>4 DEF Right

LEMMA StoreStep ==
  ASSUME WorldInv, ScanInv, StoreScannedBlock
  PROVE  WorldInv' /\ ScanInv'
<1> USE DEF Batch, Verified, Initializing
<1>1. /\ scan.pc = "store" /\ cursor # NoCursor
      /\ UNCHANGED <<chain, forks, cursor, event, hook, baseline, overtaken, unseen>>
      /\ Latest' = Latest /\ SafeBlock' = SafeBlock
  BY InBatch DEF StoreScannedBlock, world, Latest, SafeBlock
<1>2. PICK b \in scan.queue :
        /\ scanned' = [scanned EXCEPT ![b] = scan.headers[b]]
        /\ scan' = [scan EXCEPT !.queue = scan.queue \ {b}]
  BY DEF StoreScannedBlock, UpsertMarketScannedBlock
<1>3. /\ b \in Height /\ b \in Int /\ b <= Latest /\ scan.headers[b] \in 0..forks
      /\ cursor.next <= b /\ b <= scan.to
  BY <1>1, InBatch DEF ScanInv, ScanPlaces, HeadersRead, Fetched
<1>4. /\ scanned' \in [Height -> Int] /\ scanned'[b] = scan.headers[b]
      /\ \A h \in Height \ {b} : scanned'[h] = scanned[h]
  BY <1>2, <1>3 DEF WorldInv, RowTypes
<1>5. WorldInv'
  <2>1. ChainTypes' /\ LogsDiffer'
    BY <1>1 DEF WorldInv, ChainTypes, LogsDiffer
  <2>2. RowTypes'
    BY <1>1, <1>3, <1>4 DEF WorldInv, RowTypes
  <2>3. RowsWereSeen' /\ ReadsAreGood(hook)'
    BY <1>1 DEF WorldInv, RowsWereSeen, ReadsAreGood, Seen, Canonical
  <2>4. BeforeCursor'
    BY <1>1 DEF BeforeCursor
  <2>5. StaleWereOvertaken' /\ ConfirmedAbove'
    BY <1>1, WorldFrame DEF WorldInv, StaleWereOvertaken, ConfirmedAbove, Canonical
  <2>6. PassedIsRight'
    BY <1>1, WorldFrame DEF WorldInv, PassedIsRight, CursorOnChain
  <2>7. ScannedIsRight'
    <3>1. Right(b)
      BY <1>1, <1>3, BatchIsRight
    <3>2. \A h \in Height : scanned'[h] # NoFork /\ chain[h].fork = scanned'[h] => Right(h)
      BY <1>1, <1>4, <3>1 DEF WorldInv, ScannedIsRight
    <3> QED
      BY <1>1, <3>2, WorldFrame DEF ScannedIsRight
  <2> QED
    BY <2>1, <2>2, <2>3, <2>4, <2>5, <2>6, <2>7 DEF WorldInv
<1>6. ScanInv'
  <2>1. /\ scan'.pc = "store" /\ scan'.to = scan.to /\ scan'.safe = scan.safe
        /\ scan'.headers = scan.headers /\ scan'.found = scan.found
        /\ scan'.queue \subseteq scan.queue /\ ScanTypes'
    BY <1>1, <1>2 DEF ScanInv, ScanTypes
  <2>2. Fetched' = Fetched
    BY <2>1 DEF Fetched
  <2>3. ScanPlaces' /\ HeadersRead'
    BY <1>1, <2>1, <2>2 DEF ScanInv, ScanPlaces, HeadersRead
  <2>4. ReadsAreGood(scan.found)'
    BY <1>1, <2>1 DEF ScanInv, ReadsAreGood, Seen, Canonical
  <2>5. VerifiedIsRight' /\ AncestorIsRight' /\ HeadersAreRight'
    BY <1>1, <2>1, <2>2, WorldFrame DEF ScanInv, VerifiedIsRight, AncestorIsRight, HeadersAreRight
  <2>6. BatchIsSound' /\ BatchIsKept'
    BY <1>1, <2>1, WorldFrame DEF ScanInv, BatchIsSound, BatchIsKept
  <2> QED
    BY <2>1, <2>3, <2>4, <2>5, <2>6 DEF ScanInv
<1> QED
  BY <1>5, <1>6

LEMMA AdvanceStep ==
  ASSUME WorldInv, ScanInv, AdvanceCursor
  PROVE  WorldInv' /\ ScanInv'
<1> USE DEF Batch, Verified, Initializing
<1>1. /\ scan.pc = "store"
      /\ UNCHANGED <<chain, forks, scanned, event, hook, baseline, overtaken, unseen>>
      /\ Latest' = Latest /\ SafeBlock' = SafeBlock
  BY DEF AdvanceCursor, world, Latest, SafeBlock
<1>2. /\ cursor # NoCursor /\ cursor.next \in Int /\ cursor.next >= 2 /\ scan.to \in Int
      /\ cursor.next <= scan.to /\ scan.to <= Latest /\ Latest \in Nat
      /\ scan.headers[scan.to] \in 0..forks /\ forks \in Nat
  BY <1>1, InBatch DEF ScanInv, ScanPlaces, HeadersRead, WorldInv, ChainTypes
<1>3. cursor' = [next |-> scan.to + 1, hash |-> scan.headers[scan.to]]
  <2>1. scan.to + 1 >= cursor.next
    BY <1>2
  <2> QED
    BY <2>1 DEF AdvanceCursor, AdvanceMarketChainCursor
<1>4. /\ cursor'.next = scan.to + 1 /\ cursor' # NoCursor
      /\ cursor'.hash = scan.headers[scan.to] /\ cursor' \in [next : Nat, hash : Int]
  BY <1>2, <1>3 DEF NoCursor
<1>5. Right(scan.to)
  BY <1>1, <1>2, BatchIsRight
<1>6. WorldInv'
  <2>1. ChainTypes' /\ LogsDiffer'
    BY <1>1 DEF WorldInv, ChainTypes, LogsDiffer
  <2>2. RowTypes'
    BY <1>1, <1>2, <1>4 DEF WorldInv, RowTypes
  <2>3. RowsWereSeen' /\ ReadsAreGood(hook)'
    BY <1>1 DEF WorldInv, RowsWereSeen, ReadsAreGood, Seen, Canonical
  <2>4. BeforeCursor'
    BY <1>4 DEF BeforeCursor
  <2>5. StaleWereOvertaken'
    BY <1>1, WorldFrame DEF WorldInv, StaleWereOvertaken, Canonical
  <2>6. ConfirmedAbove'
    <3>1. \A l \in Log : Live(l) => event[l].place.height \in Int
      BY DEF WorldInv, RowsWereSeen, Seen, BlockPlace, Live
    <3> QED
      BY <1>1, <1>2, <1>4, <3>1, WorldFrame DEF WorldInv, ConfirmedAbove
  <2>7. PassedIsRight'
    <3>1. cursor'.next - 1 = scan.to
      BY <1>2, <1>4
    <3> QED
      BY <1>1, <1>5, <3>1, WorldFrame DEF PassedIsRight
  <2>8. ScannedIsRight'
    BY <1>1, <1>2, WorldFrame DEF WorldInv, ScannedIsRight
  <2> QED
    BY <2>1, <2>2, <2>3, <2>4, <2>5, <2>6, <2>7, <2>8 DEF WorldInv
<1>7. ScanInv'
  <2>1. /\ scan'.pc = "confirm" /\ scan'.to = scan.to /\ scan'.headers = Idle.headers
        /\ scan'.found = scan.found /\ ScanTypes'
    <3>1. Idle.headers \in [Height -> Int]
      BY DEF Idle, NoFork
    <3> QED
      BY <3>1 DEF AdvanceCursor, ScanInv, ScanTypes
  <2>2. Fetched' = {}
    BY <2>1 DEF Fetched, Idle
  <2>3. ScanPlaces' /\ HeadersRead'
    BY <1>2, <1>4, <2>1, <2>2 DEF ScanPlaces, HeadersRead
  <2>4. ReadsAreGood(scan.found)'
    BY <1>1, <2>1 DEF ScanInv, ReadsAreGood, Seen, Canonical
  <2> QED
    BY <2>1, <2>3, <2>4
    DEF ScanInv, VerifiedIsRight, AncestorIsRight, HeadersAreRight, BatchIsSound, BatchIsKept
<1> QED
  BY <1>6, <1>7

LEMMA ConfirmStep ==
  ASSUME WorldInv, ScanInv, ConfirmScanned
  PROVE  WorldInv' /\ ScanInv'
<1>1. /\ scan.pc = "confirm" /\ cursor # NoCursor /\ scan.to < cursor.next
      /\ UNCHANGED <<chain, forks, cursor, scanned, hook, baseline, overtaken, unseen>>
      /\ Latest' = Latest /\ SafeBlock' = SafeBlock /\ scan' = Idle
      /\ scan.to \in Int /\ cursor.next \in Int
  BY DEF ConfirmScanned, world, ScanInv, ScanPlaces, ScanTypes, Initializing, WorldInv,
         RowTypes, Latest, SafeBlock
<1>2. event' = [l \in Log |-> IF Live(l) /\ event[l].place.height <= scan.to
                              THEN [event[l] EXCEPT !.confirmed = TRUE] ELSE event[l]]
  BY DEF ConfirmScanned, MarkMarketBlockConfirmed
<1>3. event \in [Log -> {NoRow} \cup EventRow]
  BY DEF WorldInv, RowTypes
<1>4. /\ event' \in [Log -> {NoRow} \cup EventRow]
      /\ \A l \in Log : /\ event'[l].place = event[l].place
                        /\ (Live(l)' <=> Live(l))
                        /\ event'[l] # NoRow => event[l] # NoRow
                        /\ event'[l].confirmed =>
                             event[l].confirmed \/ event[l].place.height <= scan.to
                        /\ Live(l) /\ ~event'[l].confirmed => ~event[l].confirmed
  <2>1. \A r \in EventRow : [r EXCEPT !.confirmed = TRUE] \in EventRow
    BY DEF EventRow
  <2>2. \A r \in EventRow : /\ [r EXCEPT !.confirmed = TRUE].place = r.place
                            /\ [r EXCEPT !.confirmed = TRUE].reorged = r.reorged
    BY DEF EventRow
  <2>3. \A r \in EventRow : [r EXCEPT !.confirmed = TRUE].confirmed
    BY DEF EventRow
  <2>4. \A r \in EventRow : r # NoRow
    BY DEF EventRow, NoRow, BlockPlace, NoPlace
  <2>5. \A l \in Log : Live(l) => event[l] \in EventRow
    BY <1>3 DEF Live
  <2> QED
    BY <1>2, <1>3, <2>1, <2>2, <2>3, <2>4, <2>5 DEF Live
<1>5. \A l \in Log : Live(l)' => RowComes(l)
  BY <1>4 DEF RowComes
<1>6. \A l \in Log, h \in 1..Latest : RowStays(l, h)
  BY <1>4 DEF RowStays
<1>7. /\ \A g : Right(g) => Right(g)'
      /\ \A l : event'[l].place = event[l].place => (Sound(l)' <=> Sound(l))
  BY <1>1, <1>5, <1>6, AllRowsMove
<1>8. WorldInv'
  <2>1. ChainTypes' /\ LogsDiffer'
    BY <1>1 DEF WorldInv, ChainTypes, LogsDiffer
  <2>2. RowTypes'
    BY <1>1, <1>4 DEF WorldInv, RowTypes
  <2>3. RowsWereSeen'
    BY <1>1, <1>4 DEF WorldInv, RowsWereSeen, Seen
  <2>4. ReadsAreGood(hook)'
    BY <1>1 DEF WorldInv, ReadsAreGood, Seen, Canonical
  <2>5. BeforeCursor'
    BY <1>1 DEF BeforeCursor
  <2>6. StaleWereOvertaken'
    BY <1>1, <1>4 DEF WorldInv, StaleWereOvertaken, Canonical
  <2>7. ConfirmedAbove'
    <3>1. \A l \in Log : Live(l) => event[l].place.height \in Int
      BY DEF WorldInv, RowsWereSeen, Seen, BlockPlace, Live
    <3> QED
      BY <1>1, <1>4, <1>7, <3>1 DEF WorldInv, ConfirmedAbove
  <2>8. PassedIsRight' /\ ScannedIsRight'
    BY <1>1, <1>7 DEF WorldInv, PassedIsRight, ScannedIsRight, CursorOnChain
  <2> QED
    BY <2>1, <2>2, <2>3, <2>4, <2>5, <2>6, <2>7, <2>8 DEF WorldInv
<1> QED
  BY <1>1, <1>8, NoScan

-----------------------------------------------------------------------------
(* The whole of the scanner. *)

LEMMA FetchHeaderStep ==
  ASSUME WorldInv, ScanInv, FetchBlockHeader \/ FetchUnconfirmedHeader
  PROVE  ScanInv'
<1>1. UNCHANGED rows /\ scan.pc \in {"headers", "retire"}
  BY DEF FetchBlockHeader, FetchUnconfirmedHeader, world, rows
<1>2. CASE FetchBlockHeader
  <2>1. PICK h \in scan.queue :
          scan' = [scan EXCEPT !.headers[h] = chain[h].fork, !.queue = scan.queue \ {h}]
    BY <1>2 DEF FetchBlockHeader
  <2>2. scan.pc = "headers"
    BY <1>2 DEF FetchBlockHeader
  <2> DEFINE queue == scan.queue \ {h}
  <2>3. queue \subseteq scan.queue /\ scan.queue \subseteq queue \cup {h}
    OBVIOUS
  <2> HIDE DEF queue
  <2>4. scan' = [scan EXCEPT !.headers[h] = chain[h].fork, !.queue = queue]
    BY <2>1 DEF queue
  <2> QED
    BY <1>1, <2>2, <2>3, <2>4, HeaderStep
<1>3. CASE FetchUnconfirmedHeader
  <2>1. PICK h \in scan.queue : scan' = [scan EXCEPT !.headers[h] = chain[h].fork]
    BY <1>3 DEF FetchUnconfirmedHeader
  <2>2. scan' = [scan EXCEPT !.headers[h] = chain[h].fork, !.queue = scan.queue]
    BY <2>1 DEF ScanInv, ScanTypes
  <2> DEFINE queue == scan.queue
  <2>3. queue \subseteq scan.queue /\ scan.queue \subseteq queue \cup {h} /\ queue = scan.queue
    OBVIOUS
  <2> HIDE DEF queue
  <2> QED
    BY <1>1, <2>2, <2>3, HeaderStep
<1> QED
  BY <1>2, <1>3

LEMMA ScannerStarts == Init => WorldInv /\ ScanInv
<1> SUFFICES ASSUME Init PROVE WorldInv /\ ScanInv
  OBVIOUS
<1> USE DEF Batch, Verified, Initializing
<1> DEFINE block == [fork |-> 0, logs |-> {}]
<1>1. /\ chain = [h \in 1..StartHeight |-> block]
      /\ StartHeight \in Nat /\ block \in Block
  BY ChainAssumption DEF Init, Block
<1>2. chain \in Seq(Block) /\ Latest = StartHeight
  BY <1>1, LenProperties, IsASeq DEF Latest
<1>3. \A h \in 1..Latest : chain[h].fork = 0 /\ chain[h].logs = {}
  BY <1>1, <1>2
<1>4. ChainTypes /\ LogsDiffer
  BY <1>2, <1>3, ChainAssumption DEF Init, ChainTypes, LogsDiffer
<1>5. \A l \in Log : event[l] = NoRow /\ ~Live(l)
  BY DEF Init, Live
<1>6. RowTypes /\ BeforeCursor
  BY <1>5 DEF Init, RowTypes, BeforeCursor, NoCursor, NoFork
<1>7. RowsWereSeen /\ ReadsAreGood(hook) /\ StaleWereOvertaken /\ ConfirmedAbove
  BY <1>5 DEF Init, RowsWereSeen, ReadsAreGood, NoHook, StaleWereOvertaken, ConfirmedAbove
<1>8. PassedIsRight /\ ScannedIsRight
  BY DEF Init, PassedIsRight, ScannedIsRight, CursorOnChain
<1>9. /\ scan.pc = "idle" /\ Fetched = {} /\ scan.found = {} /\ ScanTypes
  BY DEF Init, Idle, Fetched, ScanTypes, NoFork
<1>10. ScanInv
  BY <1>9 DEF ScanInv, ScanPlaces, HeadersRead, ReadsAreGood, VerifiedIsRight,
              AncestorIsRight, HeadersAreRight, BatchIsSound, BatchIsKept
<1> QED
  BY <1>4, <1>6, <1>7, <1>8, <1>10 DEF WorldInv

LEMMA ScannerStep ==
  ASSUME WorldInv, ScanInv, [Next]_vars
  PROVE  WorldInv' /\ ScanInv'
<1> DEFINE Read == \/ ReadHead \/ InitHeader \/ VerifyCursorContinuity \/ SearchAncestor
                   \/ FetchCollectionLogs \/ FetchBlockHeader \/ CompareHashes \/ Hydrate
                   \/ ListUnconfirmedMarketEventBlocks \/ FetchUnconfirmedHeader
                   \/ StoreScannedBlocks
<1>1. CASE Mine \/ Reorg
  BY <1>1, MineStep, ReorgStep
<1>2. CASE HookReads \/ HookPersists
  BY <1>2, HookStep
<1>3. CASE InitBlock \/ InitCursor \/ Reconcile
  BY <1>3, InitBlockStep, InitCursorStep, ReconcileStep
<1>4. CASE PersistParsedEvent \/ RetireUnconfirmed
  BY <1>4, PersistStep, RetireStep
<1>5. CASE StoreScannedBlock \/ AdvanceCursor \/ ConfirmScanned
  BY <1>5, StoreStep, AdvanceStep, ConfirmStep
<1>6. CASE ScanFails
  <2>1. /\ UNCHANGED <<chain, forks, cursor, scanned, event, hook, baseline, overtaken, unseen>>
        /\ scan' = Idle
    BY <1>6 DEF ScanFails
  <2> QED
    BY <2>1, NoScan, WorldSame
<1>7. CASE Read
  <2>1. WorldInv'
    <3>1. UNCHANGED <<chain, forks, cursor, scanned, event, hook, baseline, overtaken, unseen>>
      BY <1>7
      DEF ReadHead, InitHeader, VerifyCursorContinuity, SearchAncestor, FetchCollectionLogs,
          FetchBlockHeader, CompareHashes, Hydrate, ListUnconfirmedMarketEventBlocks,
          FetchUnconfirmedHeader, StoreScannedBlocks, world
    <3> QED
      BY <3>1, WorldSame
  <2>2. ScanInv'
    BY <1>7, HeadStep, InitHeaderStep, VerifyStep, SearchStep, LogsStep, FetchHeaderStep,
       CompareStep, HydrateStep, ListStep, StoreBegins
  <2> QED
    BY <2>1, <2>2
<1>8. CASE UNCHANGED vars
  BY <1>8, ScanSame, WorldSame DEF vars
<1> QED
  BY <1>1, <1>2, <1>3, <1>4, <1>5, <1>6, <1>7, <1>8 DEF Next, ScanStep

(* What the invariant says of the two properties. *)
LEMMA WhatScansShow ==
  ASSUME WorldInv
  PROVE  ConfirmedIsCanonical /\ PassedIsRecorded
<1>1. SUFFICES ASSUME CursorOnChain PROVE ConfirmedIsCanonical /\ PassedIsRecorded
  BY DEF ConfirmedIsCanonical, PassedIsRecorded
<1>2. /\ ChainTypes /\ LogsDiffer /\ Latest \in Nat
      /\ SoundThrough(cursor.next - 1) /\ KeptThrough(cursor.next - 1)
      /\ cursor.next \in Int /\ cursor.next <= Latest + 1
      /\ baseline \in Nat /\ baseline > 0
  BY <1>1, Blocks DEF WorldInv, PassedIsRight, Right, RowTypes, CursorOnChain
<1>3. ConfirmedIsCanonical
  <2> SUFFICES ASSUME NEW l \in Log, Live(l), event[l].confirmed, l[1] \notin unseen,
                      ~NeverCompared(l)
               PROVE  event[l].place = Place(l)
    BY DEF ConfirmedIsCanonical
  <2>1. Seen(l, event[l].place) /\ event[l].place.height \in Int
    BY DEF WorldInv, RowsWereSeen, Seen, BlockPlace, Live
  <2>2. Sound(l)
    BY <1>2, <2>1 DEF WorldInv, SoundThrough, ConfirmedAbove
  <2>3. Canonical(event[l].place)
    BY <2>2 DEF Sound
  <2>4. OnChain(l, event[l].place.height)
    BY <2>1, <2>3 DEF Seen, Canonical, OnChain
  <2> QED
    BY <1>2, <2>1, <2>3, <2>4, PlaceOfLog, CanonicalIsHere
<1>4. PassedIsRecorded
  <2> SUFFICES ASSUME NEW l \in Log \ overtaken, Passed(l), l[1] \notin unseen
               PROVE  Live(l) /\ event[l].place = Place(l)
    BY DEF PassedIsRecorded
  <2>1. \E h \in 1..Latest : OnChain(l, h)
    <3>1. CASE \A h \in 1..Latest : l \notin chain[h].logs
      <4>1. Place(l) = NoPlace
        BY <3>1 DEF Place
      <4> QED
        BY <1>2, <4>1 DEF Passed, NoPlace
    <3> QED
      BY <3>1 DEF OnChain
  <2>2. PICK h \in 1..Latest : OnChain(l, h)
    BY <2>1
  <2>3. Place(l) = Here(h)
    BY <1>2, <2>2, PlaceOfLog
  <2>4. baseline <= h /\ h <= cursor.next - 1
    BY <1>2, <2>3 DEF Passed, Here
  <2>5. Kept(l, h)
    BY <1>2, <2>2, <2>4 DEF KeptThrough
  <2> QED
    BY <2>3, <2>5 DEF Kept
<1> QED
  BY <1>3, <1>4

-----------------------------------------------------------------------------
(* The theorems. *)

(* The invariant: the rows agree with the blocks wherever a block that the chain still
   has vouches for them, and a scan in progress knows what it relies on. *)
THEOREM ScansKeepTheWorld == Spec => [](WorldInv /\ ScanInv)
<1>1. Init => WorldInv /\ ScanInv
  BY ScannerStarts
<1>2. WorldInv /\ ScanInv /\ [Next]_vars => WorldInv' /\ ScanInv'
  BY ScannerStep
<1> QED
  BY <1>1, <1>2, PTL DEF Spec

(* While the cursor's block is on the chain, a confirmed event is where the chain
   has its transaction, but for the exempt: whatever webhooks store, however often
   the chain reorganizes and wherever a scan dies. *)
THEOREM ConfirmedIsCanonicalCorrect == Spec => []ConfirmedIsCanonical
BY ScansKeepTheWorld, WhatScansShow, PTL

(* While the cursor's block is on the chain, every log that the cursor has passed
   has its event, live and at the log's block, but for the exempt. *)
THEOREM PassedIsRecordedCorrect == Spec => []PassedIsRecorded
BY ScansKeepTheWorld, WhatScansShow, PTL
=============================================================================
