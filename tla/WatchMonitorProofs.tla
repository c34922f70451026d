------------------------- MODULE WatchMonitorProofs ------------------------
(***************************************************************************)
(* Theorems about the monitor of watch rules, for any rules, combinations, *)
(* instances, values, changes and faults.                                  *)
(***************************************************************************)
EXTENDS WatchMonitor, FiniteSetTheorems, SequenceTheorems, WellFoundedInduction,
        TLAPS

-----------------------------------------------------------------------------
(* What the proofs say of a state *)

RuleStatus == {"new", "active", "paused", "gone"}
RowStatus  == {"pending", "done", "removed"}
PlanName   == {"free", "professional"}
StepName   == {"idle", "created", "check", "count", "record", "send"}
InHand     == {"count", "record", "send"}

Value    == 0 .. MaxBalance
Stored   == Value \cup {Nil}
Seen     == [rule : Rules, last : Stored, plan : PlanName]
Alert    == [rule : Rules, first : BOOLEAN, plan : PlanName, status : RowStatus,
             today : BOOLEAN]
Counts   == UNION {[PartsOf(x) -> Nat] : x \in Sources}
Notice   == [source : Sources, status : RowStatus, inTime : Counts]
WindowOf(x) == [over : BOOLEAN, sent : BOOLEAN, count : [PartsOf(x) -> Nat],
                inTime : [PartsOf(x) -> Nat]]

Entry    == [step : StepName, queue : Seq(Seen), row : Nat]
Windows  == {None} \cup UNION {WindowOf(x) : x \in Sources}

TypeOK ==
  /\ status \in [Rules -> RuleStatus]
  /\ last \in [Rules -> Stored]
  /\ order \in Seq(Rules)
  /\ plan \in PlanName
  /\ freeRule \in Rules \cup {None}
  /\ balance \in [Rules -> Value]
  /\ alerts \in Seq(Alert)
  /\ window \in [Sources -> Windows]
  /\ \A x \in Sources : window[x] \in WindowOf(x) \cup {None}
  /\ notices \in Seq(Notice)
  /\ holder \in Workers \cup {None}
  /\ work \in [Workers -> Entry]
  /\ falls \in [Rules -> Nat]
  /\ moves \in Nat /\ changes \in Nat /\ faults \in Nat

Distinct(s) == \A i, j \in DOMAIN s : s[i] = s[j] => i = j

(* A worker with a rule in hand has its row at the head of its queue. *)
QueuesFit ==
  \A w \in Workers : /\ At(w, "idle") => work[w].queue = <<>>
                     /\ work[w].step \in InHand => work[w].queue # <<>>

(* A window that is open counts nothing late. *)
WindowsInTime ==
  \A x \in Sources : window[x] # None => window[x].inTime = window[x].count

(* Every row has one place in the order, and no row is there, or in a queue,
   before it was made. *)
RowsInOrder ==
  /\ Distinct(order)
  /\ \A i \in DOMAIN order : status[order[i]] # "new"
  /\ \A r \in Rules : status[r] = "new" => last[r] = Nil
  /\ \A w \in Workers : \A i, j \in DOMAIN work[w].queue :
       /\ status[work[w].queue[i].rule] # "new"
       /\ work[w].queue[i].rule = work[w].queue[j].rule => i = j
       /\ At(w, "created") => w = Page /\ work[w].queue[i].last = Nil

(* Without faults only the holder of the lock checks rules ... *)
OneChecker ==
  \A w \in Workers : ~At(w, "idle") /\ ~At(w, "created") => holder = w

(* ... and what it listed of the rules it has not checked yet is still so; only a
   request has a row that may have been checked since it was inserted. *)
ListedIsLast ==
  \A w \in Workers : \A i \in DOMAIN work[w].queue :
    i > 1 \/ work[w].step \notin InHand
      => \/ work[w].queue[i].last = last[work[w].queue[i].rule]
         \/ w = Page /\ work[w].queue[i].last = Nil

(* A fall that is about to be recorded, and one no check has seen. *)
Announcing(r) ==
  /\ status[r] # "gone"
  /\ \E w \in Workers : /\ work[w].step \in {"count", "record"}
                        /\ Rule(w) = r /\ Item(w).last # Nil

Unseen(r) == last[r] # Nil /\ last[r] > Threshold[r] /\ balance[r] <= Threshold[r]

Again(r) == {i \in DOMAIN alerts : alerts[i].rule = r /\ ~alerts[i].first}

Thresholds == {r \in Realtime : Type[r] = "balance_threshold"}

(* Every alert but the first, and every alert still to come, has its fall. *)
FallsPaid ==
  \A r \in Thresholds :
    Cardinality(Again(r)) + (IF Announcing(r) THEN 1 ELSE 0)
                          + (IF Unseen(r) THEN 1 ELSE 0) <= falls[r]

(* What may still find the balance of r low with nothing to compare it with: the
   request, to the end of its first check; a cycle, while no check has stored a
   value; and the one that is about to record it. *)
PageOwes(r) ==
  \/ status[r] = "new"
  \/ \E i \in DOMAIN work[Page].queue : /\ work[Page].queue[i].rule = r
                                        /\ i > 1 \/ ~At(Page, "send")

Unchecked(r) == last[r] = Nil /\ status[r] # "gone"

Opening(r) ==
  /\ status[r] # "gone"
  /\ \E w \in Instances : /\ work[w].step \in {"count", "record"}
                          /\ Rule(w) = r /\ Item(w).last = Nil

First(r) == {i \in DOMAIN alerts : alerts[i].rule = r /\ alerts[i].first}

(* Two such alerts at most, and none for a rule that no request checks. *)
FirstsPaid ==
  \A r \in Thresholds :
    Cardinality(First(r)) + (IF PageOwes(r) THEN 1 ELSE 0) + (IF Unchecked(r) THEN 1 ELSE 0)
                          + (IF Opening(r) THEN 1 ELSE 0)
      <= IF r \in FirstChecked THEN 2 ELSE 0

(* An alert about to be recorded for the free plan still fits in the day. *)
Today     == {i \in DOMAIN alerts : alerts[i].today /\ Kept(alerts[i])}
FreeToday == {i \in Today : alerts[i].plan = "free"}

RoomForOne ==
  \A w \in Workers : At(w, "record") /\ Item(w).plan = "free"
                       => Cardinality(Today) < DailyLimit

Inv ==
  /\ TypeOK /\ QueuesFit /\ WindowsInTime /\ NoticesEarned /\ RowsInOrder
  /\ faults = 0 => /\ OneChecker /\ ListedIsLast /\ FallsPaid /\ FirstsPaid /\ RoomForOne
                   /\ Cardinality(FreeToday) <= DailyLimit

-----------------------------------------------------------------------------
(* Induction up to a bound, and the helper on sequences *)

(* A set of numbers up to n that has 0 and is closed under the next has all. *)
LEMMA UpTo ==
  ASSUME NEW n \in Nat, NEW Good, 0 \in Good,
         \A k \in 1..n : k - 1 \in Good => k \in Good
  PROVE  \A k \in 0..n : k \in Good
<1> DEFINE Bad == {k \in 0..n : k \notin Good}
           Below == {0..k : k \in Bad}
<1> SUFFICES ASSUME Bad # {} PROVE FALSE
  OBVIOUS
<1>1. IsWellFoundedOn(StrictSubsetOrdering(0..n), SUBSET (0..n))
  <2>1. IsFiniteSet(0..n)
    BY FS_Interval
  <2> QED
    BY <2>1, FS_FiniteSubsetsOfFinite, FS_StrictSubsetOrderingWellFounded
<1>2. Below \in SUBSET (SUBSET (0..n)) /\ Below # {}
  <2>1. \A k \in Bad : 0..k \in SUBSET (0..n)
    OBVIOUS
  <2> QED
    BY <2>1
<1>3. PICK B \in Below : \A C \in Below : <<C, B>> \notin StrictSubsetOrdering(0..n)
  BY <1>1, <1>2, WFMin
<1>4. PICK k \in Bad : B = 0..k
  BY <1>3
<1>5. k \in 1..n /\ k - 1 \in 0..n
  BY <1>4
<1>6. k - 1 \in Bad
  BY <1>4, <1>5
<1>7. <<0..(k - 1), B>> \in StrictSubsetOrdering(0..n)
  <2>1. 0..(k - 1) \subseteq 0..k /\ k \in 0..k /\ k \notin 0..(k - 1)
    BY <1>5
  <2>2. 0..(k - 1) \subseteq 0..n /\ 0..k \subseteq 0..n
    BY <1>5
  <2> QED
    BY <1>4, <2>1, <2>2 DEF StrictSubsetOrdering
<1> QED
  BY <1>3, <1>6, <1>7

(* Only is what its recursion says. *)
LEMMA OnlyDef ==
  ASSUME NEW R, NEW s \in Seq(R), NEW S
  PROVE  \E f : /\ f = [n \in 0..Len(s) |->
                         IF n = 0 THEN <<>>
                         ELSE IF s[n] \in S THEN Append(f[n - 1], s[n]) ELSE f[n - 1]]
                /\ Only(s, S) = f[Len(s)]
<1> DEFINE Is(g, k) == g = [n \in 0..k |->
                         IF n = 0 THEN <<>>
                         ELSE IF s[n] \in S THEN Append(g[n - 1], s[n]) ELSE g[n - 1]]
           Good == {k \in 0..Len(s) : \E g : Is(g, k)}
<1>0. Len(s) \in Nat
  OBVIOUS
<1>1. 0 \in Good
  <2>1. Is([n \in 0..0 |-> <<>>], 0)
    OBVIOUS
  <2>2. 0 \in 0..Len(s)
    BY <1>0
  <2> QED
    BY <2>1, <2>2
<1>2. ASSUME NEW k \in 1..Len(s), k - 1 \in Good PROVE k \in Good
  <2>1. PICK g : Is(g, k - 1)
    BY <1>2
  <2> DEFINE h == [n \in 0..k |-> IF n = k THEN IF s[k] \in S THEN Append(g[k - 1], s[k])
                                               ELSE g[k - 1]
                                  ELSE g[n]]
  <2>2. \A n \in 0..(k - 1) : h[n] = g[n]
    OBVIOUS
  <2>3. \A n \in 0..k : h[n] = IF n = 0 THEN <<>>
                               ELSE IF s[n] \in S THEN Append(h[n - 1], s[n]) ELSE h[n - 1]
    <3> TAKE n \in 0..k
    <3>1. CASE n = k
      BY <3>1, <2>2
    <3>2. CASE n # k
      <4>1. n \in 0..(k - 1) /\ (n = 0 \/ n - 1 \in 0..(k - 1))
        BY <3>2
      <4> HIDE DEF h
      <4> QED
        BY <4>1, <2>1, <2>2
    <3> QED
      BY <3>1, <3>2
  <2>4. h = [n \in 0..k |-> h[n]]
    OBVIOUS
  <2> HIDE DEF h
  <2>5. Is(h, k)
    BY <2>3, <2>4
  <2> QED
    BY <2>5
<1>3. Len(s) \in Good
  <2> HIDE DEF Good
  <2>1. \A k \in 1..Len(s) : k - 1 \in Good => k \in Good
    BY <1>2
  <2>2. \A k \in 0..Len(s) : k \in Good
    BY <1>0, <1>1, <2>1, UpTo
  <2> QED
    BY <1>0, <2>2
<1> DEFINE G == CHOOSE g : Is(g, Len(s))
<1>4. Is(G, Len(s))
  BY <1>3
<1>5. Only(s, S) = G[Len(s)]
  BY DEF Only
<1> QED
  BY <1>4, <1>5

(* What is left of a sequence are elements of it that are in the set, each in
   one place if each was in one place before. *)
LEMMA OnlyKeeps ==
  ASSUME NEW R, NEW s \in Seq(R), NEW S
  PROVE  /\ Only(s, S) \in Seq(R)
         /\ \A i \in DOMAIN Only(s, S) :
              Only(s, S)[i] \in S /\ \E j \in DOMAIN s : s[j] = Only(s, S)[i]
         /\ Distinct(s) => Distinct(Only(s, S))
<1>1. PICK f : /\ f = [n \in 0..Len(s) |->
                         IF n = 0 THEN <<>>
                         ELSE IF s[n] \in S THEN Append(f[n - 1], s[n]) ELSE f[n - 1]]
               /\ Only(s, S) = f[Len(s)]
  BY OnlyDef
<1> DEFINE Fine(n) == /\ f[n] \in Seq(R)
                      /\ \A i \in DOMAIN f[n] :
                           f[n][i] \in S /\ \E j \in 1..n : s[j] = f[n][i]
                      /\ Distinct(s) => Distinct(f[n])
           Good == {n \in 0..Len(s) : Fine(n)}
<1>0. Len(s) \in Nat /\ DOMAIN s = 1..Len(s)
  OBVIOUS
<1>5. /\ f[0] = <<>>
      /\ \A n \in 1..Len(s) :
           f[n] = IF s[n] \in S THEN Append(f[n - 1], s[n]) ELSE f[n - 1]
  <2>1. \A n \in 0..Len(s) :
          f[n] = IF n = 0 THEN <<>>
                 ELSE IF s[n] \in S THEN Append(f[n - 1], s[n]) ELSE f[n - 1]
    BY <1>1
  <2> QED
    BY <1>0, <2>1
<1>2. 0 \in Good
  <2>1. f[0] \in Seq(R) /\ DOMAIN f[0] = {}
    BY <1>5
  <2>2. 0 \in 0..Len(s)
    BY <1>0
  <2> QED
    BY <2>1, <2>2 DEF Distinct
<1>3. ASSUME NEW n \in 1..Len(s), n - 1 \in Good PROVE n \in Good
  <2>1. n - 1 \in 0..Len(s) /\ n \in 0..Len(s) /\ Fine(n - 1) /\ s[n] \in R
    BY <1>3
  <2>2. CASE s[n] \notin S
    <3>1. f[n] = f[n - 1]
      BY <1>5, <2>2
    <3> QED
      BY <2>1, <3>1
  <2>3. CASE s[n] \in S
    <3>1. f[n] = Append(f[n - 1], s[n])
      BY <1>5, <2>3
    <3> DEFINE p == f[n - 1]
    <3>2. /\ f[n] \in Seq(R) /\ Len(p) \in Nat
          /\ DOMAIN f[n] = 1..(Len(p) + 1) /\ DOMAIN p = 1..Len(p)
          /\ \A i \in 1..Len(p) : f[n][i] = p[i]
          /\ f[n][Len(p) + 1] = s[n]
      BY <2>1, <3>1
    <3>3. \A i \in DOMAIN f[n] : f[n][i] \in S /\ \E j \in 1..n : s[j] = f[n][i]
      <4> TAKE i \in DOMAIN f[n]
      <4>1. CASE i = Len(p) + 1
        BY <4>1, <3>2, <2>3
      <4>2. CASE i \in 1..Len(p)
        BY <4>2, <3>2, <2>1
      <4> QED
        BY <4>1, <4>2, <3>2
    <3>4. ASSUME Distinct(s) PROVE Distinct(f[n])
      <4>1. \A i \in 1..Len(p) : p[i] # s[n]
        <5> TAKE i \in 1..Len(p)
        <5>1. PICK j \in 1..(n - 1) : s[j] = p[i]
          BY <2>1, <3>2
        <5> QED
          BY <5>1, <3>4, <1>0 DEF Distinct
      <4>2. \A i, j \in 1..Len(p) : p[i] = p[j] => i = j
        BY <2>1, <3>4, <3>2 DEF Distinct
      <4> HIDE DEF p
      <4> QED
        BY <4>1, <4>2, <3>2 DEF Distinct
    <3> QED
      BY <3>2, <3>3, <3>4, <2>1
  <2> QED
    BY <2>2, <2>3
<1>4. Len(s) \in Good
  <2> HIDE DEF Good
  <2>1. \A n \in 1..Len(s) : n - 1 \in Good => n \in Good
    BY <1>3
  <2>2. \A n \in 0..Len(s) : n \in Good
    BY <1>0, <1>2, <2>1, UpTo
  <2> QED
    BY <1>0, <2>2
<1> QED
  BY <1>0, <1>1, <1>4

-----------------------------------------------------------------------------
(* What the workers' steps do to their queues *)

LEMMA Assumed ==
  /\ \A r \in Rules : Need[r] \in Nat \ {0} /\ Threshold[r] \in Int
  /\ IsFiniteSet(Rules) /\ None \notin Rules /\ None \notin Workers
  /\ DailyLimit \in Nat /\ MaxBalance \in Nat /\ CycleLimit \in Nat
  /\ Realtime \subseteq Rules /\ FirstChecked \subseteq Realtime
  /\ Unreadable \subseteq Rules /\ Instances \subseteq Workers /\ Page \in Workers
  BY WatchMonitorAssumption DEF Rules, Workers

LEMMA QueueFacts ==
  ASSUME NEW q \in Seq(Seen)
  PROVE  /\ Len(q) \in Nat /\ DOMAIN q = 1..Len(q)
         /\ \A i \in DOMAIN q : q[i] \in Seen
         /\ q # <<>> => /\ 1 \in DOMAIN q /\ Head(q) = q[1] /\ Head(q) \in Seen
                        /\ Tail(q) \in Seq(Seen)
                        /\ DOMAIN Tail(q) = 1..(Len(q) - 1)
                        /\ \A i \in DOMAIN Tail(q) : i + 1 \in DOMAIN q /\ Tail(q)[i] = q[i + 1]
         /\ q = <<>> => DOMAIN q = {}
  OBVIOUS

LEMMA EntryFacts ==
  ASSUME TypeOK, NEW w \in Workers
  PROVE  /\ work[w] \in Entry /\ work[w].queue \in Seq(Seen) /\ work[w].step \in StepName
         /\ work[w].queue # <<>> => Item(w) = work[w].queue[1] /\ Item(w) \in Seen
                                   /\ Rule(w) \in Rules
<1>1. work[w] \in Entry /\ work[w].queue \in Seq(Seen) /\ work[w].step \in StepName
  BY DEF TypeOK, Entry
<1>2. ASSUME work[w].queue # <<>>
      PROVE  Item(w) = work[w].queue[1] /\ Item(w) \in Seen /\ Rule(w) \in Rules
  <2>1. Item(w) = work[w].queue[1] /\ Item(w) \in Seen
    BY <1>1, <1>2, QueueFacts DEF Item
  <2> QED
    BY <2>1 DEF Rule, Seen
<1> QED
  BY <1>1, <1>2

LEMMA AdvanceDoes ==
  ASSUME TypeOK, NEW w \in Workers, work[w].queue # <<>>, Advance(w)
  PROVE  /\ work' \in [Workers -> Entry]
         /\ \A v \in Workers : v # w => work'[v] = work[v]
         /\ work'[w].step = "check" /\ work'[w].queue = Tail(work[w].queue)
<1>1. work[w].queue \in Seq(Seen) /\ work \in [Workers -> Entry]
  BY EntryFacts DEF TypeOK
<1>2. Tail(work[w].queue) \in Seq(Seen)
  BY <1>1, QueueFacts
<1> QED
  BY <1>1, <1>2 DEF Advance, Idle, Entry, StepName

LEMMA StepDoes ==
  ASSUME TypeOK, NEW w \in Workers, NEW s \in StepName, Step(w, s)
  PROVE  /\ work' \in [Workers -> Entry]
         /\ \A v \in Workers : v # w => work'[v] = work[v]
         /\ work'[w].step = s /\ work'[w].queue = work[w].queue
  BY DEF TypeOK, Step, Entry

LEMMA SendDoes ==
  ASSUME TypeOK, NEW w \in Workers, NEW n \in Nat,
         work' = [work EXCEPT ![w].step = "send", ![w].row = n]
  PROVE  /\ work' \in [Workers -> Entry]
         /\ \A v \in Workers : v # w => work'[v] = work[v]
         /\ work'[w].step = "send" /\ work'[w].queue = work[w].queue
  BY DEF TypeOK, Entry, StepName

LEMMA IdleDoes ==
  ASSUME TypeOK, NEW w \in Workers, work' = [work EXCEPT ![w] = Idle]
  PROVE  /\ work' \in [Workers -> Entry]
         /\ \A v \in Workers : v # w => work'[v] = work[v]
         /\ work'[w].step = "idle" /\ work'[w].queue = <<>>
  BY DEF TypeOK, Entry, StepName, Idle

(* What a cycle lists: rules of the order that are active, each once. *)
LEMMA ListedFacts ==
  ASSUME TypeOK
  PROVE  /\ ListEnabledWatchRules \in Seq(Rules)
         /\ \A i \in DOMAIN ListEnabledWatchRules :
              /\ ListEnabledWatchRules[i] \in Rules
              /\ status[ListEnabledWatchRules[i]] = "active"
         /\ Distinct(order) => Distinct(ListEnabledWatchRules)
<1> DEFINE listed == Only(order, {r \in Rules : Listed(r)})
           n == IF Len(listed) < CycleLimit THEN Len(listed) ELSE CycleLimit
           L == ListEnabledWatchRules
<1>1. /\ listed \in Seq(Rules)
      /\ \A i \in DOMAIN listed : listed[i] \in {r \in Rules : Listed(r)}
      /\ Distinct(order) => Distinct(listed)
  BY OnlyKeeps DEF TypeOK
<1>2. L = SubSeq(listed, 1, n)
  BY DEF ListEnabledWatchRules
<1> HIDE DEF listed, L
<1>3. n \in Nat /\ n <= Len(listed)
  BY <1>1, Assumed
<1>4. L \in Seq(Rules) /\ DOMAIN L = 1..n /\ \A i \in 1..n : L[i] = listed[i]
  BY <1>1, <1>2, <1>3
<1>5. \A i \in DOMAIN L : L[i] \in Rules /\ status[L[i]] = "active"
  BY <1>1, <1>3, <1>4 DEF Listed
<1>6. Distinct(order) => Distinct(L)
  BY <1>1, <1>3, <1>4 DEF Distinct
<1> QED
  BY <1>4, <1>5, <1>6 DEF L

LEMMA CheckAllDoes ==
  ASSUME TypeOK, NEW w \in Workers, CheckAll(w)
  PROVE  /\ work' \in [Workers -> Entry]
         /\ \A v \in Workers : v # w => work'[v] = work[v]
         /\ work'[w].step = "check"
         /\ DOMAIN work'[w].queue = DOMAIN ListEnabledWatchRules
         /\ \A i \in DOMAIN ListEnabledWatchRules :
              work'[w].queue[i] = Snapshot(ListEnabledWatchRules[i])
<1> DEFINE L == ListEnabledWatchRules
           q == [i \in DOMAIN L |-> Snapshot(L[i])]
<1>1. L \in Seq(Rules) /\ DOMAIN L = 1..Len(L) /\ Len(L) \in Nat
  BY ListedFacts
<1>2. \A i \in DOMAIN L : Snapshot(L[i]) \in Seen
  BY ListedFacts DEF Snapshot, Seen, TypeOK
<1> HIDE DEF L
<1>3. q \in Seq(Seen)
  BY <1>1, <1>2
<1>4. work' = [work EXCEPT ![w].step = "check", ![w].queue = q]
  BY DEF CheckAll, L
<1> HIDE DEF q
<1>5. work' \in [Workers -> Entry] /\ work'[w].step = "check" /\ work'[w].queue = q
      /\ \A v \in Workers : v # w => work'[v] = work[v]
  BY <1>3, <1>4 DEF TypeOK, Entry, StepName
<1> QED
  BY <1>5 DEF q, L

LEMMA MadeDoes ==
  ASSUME TypeOK, NEW r \in Rules,
         work' = [work EXCEPT ![Page] = [Idle EXCEPT !.step = "created",
                                                     !.queue = <<Snapshot(r)>>]]
  PROVE  /\ work' \in [Workers -> Entry]
         /\ \A v \in Workers : v # Page => work'[v] = work[v]
         /\ work'[Page].step = "created" /\ work'[Page].queue = <<Snapshot(r)>>
         /\ DOMAIN work'[Page].queue = {1}
<1>1. Snapshot(r) \in Seen
  BY DEF Snapshot, Seen, TypeOK
<1>2. <<Snapshot(r)>> \in Seq(Seen) /\ DOMAIN <<Snapshot(r)>> = {1}
  BY <1>1
<1> QED
  BY <1>2, Assumed DEF TypeOK, Entry, StepName, Idle

-----------------------------------------------------------------------------
(* Windows *)

LEMMA SourceFacts ==
  ASSUME NEW r \in Rules, r \notin Realtime
  PROVE  SourceOf(r) \in Sources /\ r \in PartsOf(SourceOf(r))
<1>1. CASE r \in Staged
  BY <1>1 DEF SourceOf, PartsOf, Sources
<1>2. CASE r \notin Staged
  <2>1. PICK c \in Combos : r \in Members[c]
    BY <1>2 DEF Rules
  <2>2. SourceOf(r) \in Combos /\ r \in Members[SourceOf(r)]
    BY <1>2, <2>1 DEF SourceOf
  <2>3. SourceOf(r) \notin Staged
    BY <2>2, WatchMonitorAssumption
  <2> QED
    BY <2>2, <2>3 DEF PartsOf, Sources
<1> QED
  BY <1>1, <1>2

(* The open window is not over, and has one more trigger once that is counted. *)
LEMMA WindowFacts ==
  ASSUME TypeOK, NEW x \in Sources, NEW r \in PartsOf(x)
  PROVE  /\ Counted(currentWindow(x), r) \in WindowOf(x)
         /\ WindowsInTime => Counted(currentWindow(x), r).inTime = Counted(currentWindow(x), r).count
<1> DEFINE win == currentWindow(x)
<1>1. NewWindow(x) \in WindowOf(x) /\ ~NewWindow(x).over /\ NewWindow(x).inTime = NewWindow(x).count
  BY DEF NewWindow, WindowOf
<1>2. window[x] \in WindowOf(x) \cup {None}
  BY DEF TypeOK
<1>3. win \in WindowOf(x) /\ ~win.over /\ (WindowsInTime => win.inTime = win.count)
  BY <1>1, <1>2 DEF currentWindow, WindowsInTime
<1> HIDE DEF win
<1>4. Counted(win, r) = [win EXCEPT !.count[r] = @ + 1, !.inTime[r] = @ + 1]
  BY <1>3 DEF Counted
<1>5. Counted(win, r) \in WindowOf(x) /\ (win.inTime = win.count => Counted(win, r).inTime = Counted(win, r).count)
  <2> DEFINE bump(f) == [f EXCEPT ![r] = @ + 1]
  <2>1. \A f \in [PartsOf(x) -> Nat] : bump(f) \in [PartsOf(x) -> Nat]
    OBVIOUS
  <2>2. win.count \in [PartsOf(x) -> Nat] /\ win.inTime \in [PartsOf(x) -> Nat]
    BY <1>3 DEF WindowOf
  <2>3. Counted(win, r) = [win EXCEPT !.count = bump(win.count), !.inTime = bump(win.inTime)]
    BY <1>3, <1>4 DEF WindowOf
  <2> HIDE DEF bump
  <2> QED
    BY <1>3, <2>1, <2>2, <2>3 DEF WindowOf
<1> QED
  BY <1>3, <1>5 DEF win

-----------------------------------------------------------------------------
(* Type correctness *)

LEMMA FirstOrder ==
  /\ SetToSeq(Rules \ FirstChecked) \in Seq(Rules)
  /\ Distinct(SetToSeq(Rules \ FirstChecked))
  /\ \A i \in DOMAIN SetToSeq(Rules \ FirstChecked) :
       SetToSeq(Rules \ FirstChecked)[i] \in Rules \ FirstChecked
<1> DEFINE S == Rules \ FirstChecked
           n == Cardinality(S)
<1>1. IsFiniteSet(S)
  BY Assumed, FS_Subset
<1>2. n \in Nat /\ \E f : f \in Bijection(1..n, S)
  BY <1>1, FS_CardinalityType DEF ExistsBijection
<1>3. \E f \in [1..n -> S] : IsInjective(f)
  BY <1>2 DEF Bijection, Injection, IsInjective
<1> DEFINE q == SetToSeq(S)
<1>4. q \in [1..n -> S] /\ IsInjective(q)
  BY <1>3 DEF SetToSeq
<1> HIDE DEF q, n
<1>5. q \in Seq(S) /\ DOMAIN q = 1..n /\ \A i \in 1..n : q[i] \in S
  BY <1>2, <1>4
<1>6. q \in Seq(Rules)
  BY <1>2, <1>5, SeqMonotonic
<1>7. Distinct(q)
  BY <1>4, <1>5 DEF Distinct, IsInjective
<1> QED
  BY <1>5, <1>6, <1>7 DEF q

LEMMA TypeInit == Init => TypeOK
<1> SUFFICES ASSUME Init PROVE TypeOK
  OBVIOUS
<1> USE Assumed DEF Init
<1>1. /\ status \in [Rules -> RuleStatus] /\ last \in [Rules -> Stored]
      /\ plan \in PlanName /\ balance \in [Rules -> Value]
      /\ freeRule \in Rules \cup {None}
  BY DEF RuleStatus, Stored, PlanName, Value
<1>2. order \in Seq(Rules)
  BY FirstOrder
<1>3. /\ alerts \in Seq(Alert) /\ notices \in Seq(Notice)
      /\ holder \in Workers \cup {None} /\ falls \in [Rules -> Nat]
      /\ moves \in Nat /\ changes \in Nat /\ faults \in Nat
  OBVIOUS
<1>4. window \in [Sources -> Windows] /\ \A x \in Sources : window[x] \in WindowOf(x) \cup {None}
  <2>1. \A x \in Sources : window[x] = None
    OBVIOUS
  <2>2. window = [x \in Sources |-> None]
    OBVIOUS
  <2>3. None \in Windows
    BY DEF Windows
  <2> QED
    BY ONLY <2>1, <2>2, <2>3
<1>5. work \in [Workers -> Entry]
  BY DEF Idle, Entry, StepName
<1> QED
  BY <1>1, <1>2, <1>3, <1>4, <1>5 DEF TypeOK

(* A row that is marked keeps all but its status. *)
LEMMA MarkedIs ==
  ASSUME NEW n
  PROVE  /\ \A s \in Seq(Alert) :
              LET q == [s EXCEPT ![n].status = IF @ = "removed" THEN @ ELSE "done"]
              IN /\ q \in Seq(Alert) /\ DOMAIN q = DOMAIN s
                 /\ \A i \in DOMAIN s :
                      /\ q[i].rule = s[i].rule /\ q[i].first = s[i].first
                      /\ q[i].plan = s[i].plan /\ q[i].today = s[i].today
                      /\ q[i].status = "removed" <=> s[i].status = "removed"
         /\ \A s \in Seq(Notice) :
              LET q == [s EXCEPT ![n].status = IF @ = "removed" THEN @ ELSE "done"]
              IN /\ q \in Seq(Notice) /\ DOMAIN q = DOMAIN s
                 /\ \A i \in DOMAIN s : q[i].inTime = s[i].inTime
<1> DEFINE st(s) == IF s[n].status = "removed" THEN s[n].status ELSE "done"
           q(s) == [s EXCEPT ![n] = [@ EXCEPT !.status = st(s)]]
<1>1. ASSUME NEW s \in Seq(Alert)
      PROVE  /\ q(s) \in Seq(Alert) /\ DOMAIN q(s) = DOMAIN s
             /\ \A i \in DOMAIN s :
                      /\ q(s)[i].rule = s[i].rule /\ q(s)[i].first = s[i].first
                      /\ q(s)[i].plan = s[i].plan /\ q(s)[i].today = s[i].today
                      /\ q(s)[i].status = "removed" <=> s[i].status = "removed"
  <2>1. s \in [1..Len(s) -> Alert] /\ Len(s) \in Nat /\ DOMAIN s = 1..Len(s)
    OBVIOUS
  <2>2. n \in DOMAIN s => st(s) \in RowStatus /\ (st(s) = "removed" <=> s[n].status = "removed")
    BY <2>1 DEF RowStatus, Alert
  <2> HIDE DEF st
  <2>3. q(s) \in [1..Len(s) -> Alert]
    BY <2>1, <2>2 DEF Alert
  <2>4. q(s) \in Seq(Alert)
    BY <2>1, <2>3
  <2>5. \A i \in DOMAIN s : q(s)[i] = IF i = n THEN [s[i] EXCEPT !.status = st(s)] ELSE s[i]
    BY <2>1
  <2> QED
    BY <2>1, <2>2, <2>3, <2>4, <2>5 DEF Alert
<1>2. ASSUME NEW s \in Seq(Notice)
      PROVE  /\ q(s) \in Seq(Notice) /\ DOMAIN q(s) = DOMAIN s
             /\ \A i \in DOMAIN s : q(s)[i].inTime = s[i].inTime
  <2>1. s \in [1..Len(s) -> Notice] /\ Len(s) \in Nat /\ DOMAIN s = 1..Len(s)
    OBVIOUS
  <2>2. n \in DOMAIN s => st(s) \in RowStatus
    BY <2>1 DEF RowStatus, Notice
  <2> HIDE DEF st
  <2>3. q(s) \in [1..Len(s) -> Notice]
    BY <2>1, <2>2 DEF Notice
  <2>4. q(s) \in Seq(Notice)
    BY <2>1, <2>3
  <2>5. \A i \in DOMAIN s : q(s)[i] = IF i = n THEN [s[i] EXCEPT !.status = st(s)] ELSE s[i]
    BY <2>1
  <2> QED
    BY <2>1, <2>3, <2>4, <2>5 DEF Notice
<1>3. \A s : q(s) = [s EXCEPT ![n].status = IF @ = "removed" THEN @ ELSE "done"]
  OBVIOUS
<1> HIDE DEF q
<1> QED
  BY <1>1, <1>2, <1>3

LEMMA CleanupDoes ==
  ASSUME TypeOK, CleanupAggregationHistory
  PROVE  /\ window' \in [Sources -> Windows] /\ \A x \in Sources : window'[x] \in {window[x], None}
         /\ notices' \in Seq(Notice) /\ DOMAIN notices' = DOMAIN notices
         /\ \A i \in DOMAIN notices : notices'[i].inTime = notices[i].inTime
<1>1. PICK old \in SUBSET {x \in Sources : window[x] # None /\ window[x].over} :
        /\ window' = [x \in Sources |-> IF x \in old THEN None ELSE window[x]]
        /\ notices' = [i \in DOMAIN notices |->
             IF notices[i].source \in old THEN [notices[i] EXCEPT !.status = "removed"]
             ELSE notices[i]]
  BY DEF CleanupAggregationHistory
<1>2. window' \in [Sources -> Windows] /\ \A x \in Sources : window'[x] \in {window[x], None}
  <2>1. None \in Windows /\ \A x \in Sources : window[x] \in Windows
    BY DEF Windows, TypeOK
  <2> QED
    BY <1>1, <2>1
<1>3. notices \in Seq(Notice) /\ Len(notices) \in Nat /\ DOMAIN notices = 1..Len(notices)
  BY DEF TypeOK
<1>4. \A i \in DOMAIN notices : /\ notices'[i] \in Notice
                                /\ notices'[i].inTime = notices[i].inTime
  <2>1. \A t \in Notice : /\ [t EXCEPT !.status = "removed"] \in Notice
                          /\ [t EXCEPT !.status = "removed"].inTime = t.inTime
    BY DEF Notice, RowStatus
  <2>2. \A i \in DOMAIN notices : notices[i] \in Notice
    BY <1>3
  <2>3. \A i \in DOMAIN notices : notices'[i] \in {notices[i], [notices[i] EXCEPT !.status = "removed"]}
    BY <1>1
  <2> QED
    BY <2>1, <2>2, <2>3
<1>5. notices' = [i \in 1..Len(notices) |-> notices'[i]]
  BY <1>1, <1>3
<1>6. notices' \in [1..Len(notices) -> Notice]
  BY <1>3, <1>4, <1>5
<1>7. notices' \in Seq(Notice) /\ DOMAIN notices' = DOMAIN notices
  BY <1>3, <1>6
<1> QED
  BY <1>2, <1>4, <1>7

(* The value and the place of a row after a check. *)
LEMMA UpdateDoes ==
  ASSUME TypeOK, NEW r \in Rules, NEW v \in Value, UpdateWatchRuleValue(r, v)
  PROVE  /\ last' = [last EXCEPT ![r] = v] /\ last' \in [Rules -> Stored]
         /\ order' \in Seq(Rules)
         /\ \A i \in DOMAIN order' : order'[i] = r \/ \E j \in DOMAIN order : order[j] = order'[i]
         /\ Distinct(order) => Distinct(order')
<1> DEFINE Others == Rules \ {r}
           o == Only(order, Others)
<1>1. order' = Append(o, r) /\ r \notin Others
  BY DEF UpdateWatchRuleValue
<1> HIDE DEF Others
<1>2. /\ o \in Seq(Rules)
      /\ \A i \in DOMAIN o : o[i] \in Others /\ \E j \in DOMAIN order : order[j] = o[i]
      /\ Distinct(order) => Distinct(o)
  BY OnlyKeeps DEF TypeOK
<1> HIDE DEF o
<1>3. /\ order' \in Seq(Rules) /\ DOMAIN order' = 1..(Len(o) + 1) /\ DOMAIN o = 1..Len(o)
      /\ Len(o) \in Nat /\ order'[Len(o) + 1] = r /\ \A i \in 1..Len(o) : order'[i] = o[i]
  BY <1>1, <1>2
<1>4. Distinct(order) => Distinct(order')
  <2>1. \A i \in 1..Len(o) : o[i] # r
    BY <1>1, <1>2, <1>3
  <2>2. \A i, j \in 1..Len(o) : Distinct(order) /\ o[i] = o[j] => i = j
    BY <1>2, <1>3 DEF Distinct
  <2> QED
    BY <1>3, <2>1, <2>2 DEF Distinct
<1>5. last' = [last EXCEPT ![r] = v] /\ last' \in [Rules -> Stored]
  BY DEF UpdateWatchRuleValue, TypeOK, Stored
<1> QED
  BY <1>2, <1>3, <1>4, <1>5

LEMMA TypeCycle ==
  ASSUME TypeOK, QueuesFit, NEW w \in Workers, Cycle(w)
  PROVE  TypeOK'
<1> USE DEF rows, sent, bounds
<1> DEFINE Rest == UNCHANGED <<status, plan, freeRule, balance, falls, bounds>>
<1>0. At(w, "check") => "check" \in StepName /\ "idle" \in StepName /\ "record" \in StepName
        /\ "count" \in StepName
  BY DEF StepName
<1>1. CASE CheckAll(w)
  BY <1>1, CheckAllDoes DEF CheckAll, TypeOK
<1>2. CASE CheckRule(w)
  <2>1. work' \in [Workers -> Entry]
    BY <1>2, StepDoes, IdleDoes DEF CheckRule, StepName
  <2> QED
    BY <1>2, <2>1 DEF CheckRule, TypeOK
<1>3. CASE SkipRule(w)
  BY <1>3, AdvanceDoes DEF SkipRule, TypeOK
<1>4. CASE checkAssetRule(w)
  <2>1. Rule(w) \in Rules /\ balance[Rule(w)] \in Value
    BY <1>4, EntryFacts DEF checkAssetRule, TypeOK
  <2>2. work' \in [Workers -> Entry]
    <3>1. CASE Advance(w)
      BY <1>4, <3>1, AdvanceDoes DEF checkAssetRule
    <3>2. CASE \E s \in {"record", "count"} : Step(w, s)
      BY <3>2, StepDoes DEF StepName
    <3> QED
      BY <1>4, <3>1, <3>2 DEF checkAssetRule
  <2>3. last' \in [Rules -> Stored] /\ order' \in Seq(Rules)
    <3>1. CASE status[Rule(w)] = "gone"
      BY <1>4, <3>1 DEF checkAssetRule, TypeOK
    <3>2. CASE UpdateWatchRuleValue(Rule(w), balance[Rule(w)])
      BY <2>1, <3>2, UpdateDoes
    <3> QED
      BY <1>4, <3>1, <3>2 DEF checkAssetRule
  <2>4. UNCHANGED <<status, plan, freeRule, balance, sent, holder, falls, bounds>>
    BY <1>4 DEF checkAssetRule
  <2> QED
    BY <2>2, <2>3, <2>4 DEF TypeOK
<1>5. CASE freeDailyLimit(w)
  <2>1. work' \in [Workers -> Entry]
    BY <1>5, AdvanceDoes, StepDoes DEF freeDailyLimit, QueuesFit, InHand, At, StepName
  <2> QED
    BY <1>5, <2>1 DEF freeDailyLimit, TypeOK
<1>6. CASE CreateAlertEvent(w)
  <2>1. work[w].queue # <<>>
    BY <1>6 DEF CreateAlertEvent, QueuesFit, InHand, At
  <2>2. Len(alerts) + 1 \in Nat
    BY DEF TypeOK
  <2>3. work' \in [Workers -> Entry]
    BY <1>6, <2>1, <2>2, AdvanceDoes, SendDoes DEF CreateAlertEvent
  <2>4. alerts' \in Seq(Alert)
    <3> DEFINE a == [rule |-> Rule(w), first |-> Item(w).last = Nil, plan |-> Item(w).plan,
                     status |-> "pending", today |-> TRUE]
    <3>1. a \in Alert
      BY <2>1, EntryFacts DEF Alert, Seen, RowStatus
    <3>2. alerts' = alerts \/ alerts' = Append(alerts, a)
      BY <1>6 DEF CreateAlertEvent
    <3>3. alerts \in Seq(Alert)
      BY DEF TypeOK
    <3> HIDE DEF a
    <3> QED
      BY <3>1, <3>2, <3>3
  <2> QED
    BY <1>6, <2>3, <2>4 DEF CreateAlertEvent, TypeOK
<1>7. CASE RecordTrigger(w)
  <2> DEFINE r == Rule(w)
             x == SourceOf(r)
             win == Counted(currentWindow(x), r)
             notice == [source |-> x, status |-> "pending", inTime |-> win.inTime]
             closed == [win EXCEPT !.sent = @ \/ Due(win)]
  <2>1. work[w].queue # <<>> /\ r \notin Realtime
    BY <1>7 DEF RecordTrigger, QueuesFit, InHand, At
  <2>2. r \in Rules /\ x \in Sources /\ r \in PartsOf(x)
    BY <2>1, EntryFacts, SourceFacts
  <2>3. win \in WindowOf(x)
    BY <2>2, WindowFacts
  <2>4. Len(notices) + 1 \in Nat
    BY DEF TypeOK
  <2>5. work' \in [Workers -> Entry]
    BY <1>7, <2>1, <2>4, AdvanceDoes, SendDoes DEF RecordTrigger
  <2>6. notice \in Notice /\ closed \in WindowOf(x)
    <3> HIDE DEF x, win
    <3>1. win.inTime \in Counts
      BY <2>2, <2>3 DEF Counts, WindowOf
    <3>2. notice \in Notice
      BY <2>2, <3>1 DEF Notice, RowStatus
    <3>3. win.sent \in BOOLEAN /\ Due(win) \in BOOLEAN
      BY <2>3 DEF WindowOf, Due, allReached
    <3>4. closed \in WindowOf(x)
      BY <2>3, <3>3 DEF WindowOf
    <3> QED
      BY <3>2, <3>4
  <2>7. /\ window' = window \/ window' = [window EXCEPT ![x] = closed]
        /\ notices' = notices \/ notices' = Append(notices, notice)
    BY <1>7 DEF RecordTrigger
  <2>8. UNCHANGED <<rows, balance, alerts, holder, falls, bounds>>
    BY <1>7 DEF RecordTrigger
  <2> HIDE DEF x, notice, closed
  <2>9. window' \in [Sources -> Windows] /\ \A y \in Sources : window'[y] \in WindowOf(y) \cup {None}
    <3>1. closed \in Windows
      BY <2>2, <2>6 DEF Windows
    <3> QED
      BY <2>2, <2>6, <2>7, <3>1 DEF TypeOK
  <2>10. notices' \in Seq(Notice)
    <3>1. notices \in Seq(Notice)
      BY DEF TypeOK
    <3> QED
      BY <2>6, <2>7, <3>1
  <2> QED
    BY <2>5, <2>8, <2>9, <2>10 DEF TypeOK
<1>8. CASE SendNotification(w)
  <2>1. work' \in [Workers -> Entry]
    BY <1>8, AdvanceDoes DEF SendNotification, QueuesFit, InHand, At
  <2>2. alerts' \in Seq(Alert) /\ notices' \in Seq(Notice)
    <3> DEFINE n == work[w].row
               Marked(s) == [s EXCEPT ![n].status = IF @ = "removed" THEN @ ELSE "done"]
    <3>1. \A s \in Seq(Alert) : Marked(s) \in Seq(Alert)
      BY MarkedIs
    <3>2. \A s \in Seq(Notice) : Marked(s) \in Seq(Notice)
      BY MarkedIs
    <3> QED
      BY <1>8, <3>1, <3>2 DEF SendNotification, TypeOK
  <2> QED
    BY <1>8, <2>1, <2>2 DEF SendNotification, TypeOK
<1>9. CASE Unlock(w)
  <2>1. work' \in [Workers -> Entry]
    BY <1>9, IdleDoes DEF Unlock
  <2>2. window' \in [Sources -> Windows] /\ \A y \in Sources : window'[y] \in {window[y], None}
    <3>1. CASE CleanupAggregationHistory
      BY <3>1, CleanupDoes
    <3>2. CASE UNCHANGED window
      BY <3>2 DEF TypeOK
    <3> QED
      BY <1>9, <3>1, <3>2 DEF Unlock
  <2>3. notices' \in Seq(Notice)
    BY <1>9, CleanupDoes DEF Unlock, TypeOK
  <2>4. holder' \in Workers \cup {None}
    BY <1>9 DEF Unlock, TypeOK
  <2> QED
    BY <1>9, <2>1, <2>2, <2>3, <2>4 DEF Unlock, TypeOK
<1> QED
  BY <1>1, <1>2, <1>3, <1>4, <1>5, <1>6, <1>7, <1>8, <1>9 DEF Cycle

LEMMA DeleteDoes ==
  ASSUME TypeOK, NEW r \in Rules,
         order' = Only(order, Rules \ {r}),
         alerts' = [i \in DOMAIN alerts |->
           IF alerts[i].rule = r THEN [alerts[i] EXCEPT !.status = "removed"] ELSE alerts[i]]
  PROVE  /\ order' \in Seq(Rules)
         /\ \A i \in DOMAIN order' : order'[i] # r /\ \E j \in DOMAIN order : order[j] = order'[i]
         /\ Distinct(order) => Distinct(order')
         /\ alerts' \in Seq(Alert) /\ DOMAIN alerts' = DOMAIN alerts
         /\ \A i \in DOMAIN alerts :
              /\ alerts'[i].rule = alerts[i].rule /\ alerts'[i].first = alerts[i].first
              /\ alerts'[i].plan = alerts[i].plan /\ alerts'[i].today = alerts[i].today
              /\ alerts[i].status = "removed" => alerts'[i].status = "removed"
<1> DEFINE Others == Rules \ {r}
<1>1. order' = Only(order, Others) /\ r \notin Others
  OBVIOUS
<1> HIDE DEF Others
<1>2. /\ order' \in Seq(Rules)
      /\ \A i \in DOMAIN order' : order'[i] \in Others /\ \E j \in DOMAIN order : order[j] = order'[i]
      /\ Distinct(order) => Distinct(order')
  <2> DEFINE o == Only(order, Others)
  <2>1. /\ o \in Seq(Rules)
        /\ \A i \in DOMAIN o : o[i] \in Others /\ \E j \in DOMAIN order : order[j] = o[i]
        /\ Distinct(order) => Distinct(o)
    BY OnlyKeeps DEF TypeOK
  <2>2. order' = o
    BY <1>1
  <2> HIDE DEF o
  <2> QED
    BY <2>1, <2>2
<1>3. alerts \in Seq(Alert) /\ Len(alerts) \in Nat /\ DOMAIN alerts = 1..Len(alerts)
  BY DEF TypeOK
<1>4. \A a \in Alert : LET b == [a EXCEPT !.status = "removed"]
                      IN /\ b \in Alert /\ b.rule = a.rule /\ b.first = a.first
                         /\ b.plan = a.plan /\ b.today = a.today /\ b.status = "removed"
  BY DEF Alert, RowStatus
<1>5. \A i \in DOMAIN alerts : /\ alerts[i] \in Alert
                               /\ alerts'[i] \in {alerts[i], [alerts[i] EXCEPT !.status = "removed"]}
  BY <1>3
<1>6. alerts' = [i \in 1..Len(alerts) |-> alerts'[i]]
  BY <1>3
<1>7. alerts' \in [1..Len(alerts) -> Alert]
  BY <1>3, <1>4, <1>5, <1>6
<1>8. alerts' \in Seq(Alert) /\ DOMAIN alerts' = DOMAIN alerts
  BY <1>3, <1>7
<1> QED
  BY <1>1, <1>2, <1>4, <1>5, <1>8

LEMMA NextDayDoes ==
  ASSUME TypeOK, NextDay
  PROVE  /\ alerts' \in Seq(Alert) /\ DOMAIN alerts' = DOMAIN alerts
         /\ \A i \in DOMAIN alerts : /\ alerts'[i].rule = alerts[i].rule
                                     /\ alerts'[i].first = alerts[i].first
                                     /\ ~alerts'[i].today
<1>1. alerts \in Seq(Alert) /\ Len(alerts) \in Nat /\ DOMAIN alerts = 1..Len(alerts)
  BY DEF TypeOK
<1>2. \A a \in Alert : LET b == [a EXCEPT !.today = FALSE]
                      IN b \in Alert /\ b.rule = a.rule /\ b.first = a.first /\ ~b.today
  BY DEF Alert
<1>3. \A i \in DOMAIN alerts : alerts[i] \in Alert /\ alerts'[i] = [alerts[i] EXCEPT !.today = FALSE]
  BY <1>1 DEF NextDay
<1>4. alerts' = [i \in 1..Len(alerts) |-> alerts'[i]]
  BY <1>1 DEF NextDay
<1>5. alerts' \in [1..Len(alerts) -> Alert]
  BY <1>1, <1>2, <1>3, <1>4
<1>6. alerts' \in Seq(Alert) /\ DOMAIN alerts' = DOMAIN alerts
  BY <1>1, <1>5
<1> QED
  BY <1>2, <1>3, <1>6

(* What a change of the user's leaves of the rules: none is new again, and one
   that is gone stays gone. *)
LEMMA UserDoes ==
  ASSUME TypeOK, RowsInOrder, User
  PROVE  /\ status' \in [Rules -> RuleStatus] /\ order' \in Seq(Rules)
         /\ \A r \in Rules : /\ status[r] # "new" => status'[r] # "new"
                             /\ status[r] = "gone" => status'[r] = "gone"
         /\ Distinct(order')
         /\ \A i \in DOMAIN order' : status'[order'[i]] # "new"
<1> DEFINE Kind(s) == /\ s \in [Rules -> RuleStatus]
                      /\ \A r \in Rules : /\ status[r] # "new" => s[r] # "new"
                                          /\ status[r] = "gone" => s[r] = "gone"
<1>0. /\ order \in Seq(Rules) /\ Len(order) \in Nat /\ DOMAIN order = 1..Len(order)
      /\ Distinct(order) /\ \A i \in DOMAIN order : order[i] \in Rules /\ status[order[i]] # "new"
  BY DEF TypeOK, RowsInOrder
<1>1. ASSUME Kind(status'), UNCHANGED order
      PROVE  Distinct(order') /\ order' \in Seq(Rules) /\ \A i \in DOMAIN order' : status'[order'[i]] # "new"
  BY <1>0, <1>1
<1>2. ASSUME NEW r \in Rules, status[r] # "gone" PROVE Kind(OnlyRule(status, r))
  BY <1>2 DEF OnlyRule, RuleStatus, TypeOK
<1>3. CASE CreateWatchRule
  <2>1. PICK r \in FirstChecked :
          /\ status[r] = "new" /\ order' = Append(order, r)
          /\ status' = OnlyRule(status, r) \/ status' = [status EXCEPT ![r] = "active"]
    BY <1>3 DEF CreateWatchRule
  <2>2. r \in Rules
    BY Assumed
  <2>3. Kind(status')
    BY <1>2, <2>1, <2>2 DEF RuleStatus, TypeOK
  <2>4. status'[r] = "active"
    BY <2>1, <2>2 DEF OnlyRule, TypeOK
  <2>5. /\ order' \in Seq(Rules) /\ DOMAIN order' = 1..(Len(order) + 1)
        /\ order'[Len(order) + 1] = r /\ \A i \in 1..Len(order) : order'[i] = order[i] /\ order[i] # r
    BY <1>0, <2>1, <2>2
  <2>6. \A i \in DOMAIN order' : status'[order'[i]] # "new"
    <3>1. \A i \in 1..Len(order) : status'[order[i]] # "new"
      BY <1>0, <2>3
    <3> QED
      BY <1>0, <2>4, <2>5, <3>1
  <2>7. Distinct(order')
    BY <1>0, <2>5 DEF Distinct
  <2> QED
    BY <2>3, <2>5, <2>6, <2>7
<1>4. CASE DeleteWatchRule
  <2>1. PICK r \in Realtime :
          /\ status[r] \in {"active", "paused"}
          /\ status' = [status EXCEPT ![r] = "gone"]
          /\ order' = Only(order, Rules \ {r})
          /\ alerts' = [i \in DOMAIN alerts |->
             IF alerts[i].rule = r THEN [alerts[i] EXCEPT !.status = "removed"] ELSE alerts[i]]
    BY <1>4 DEF DeleteWatchRule
  <2>2. r \in Rules
    BY Assumed
  <2>3. Kind(status')
    BY <2>1, <2>2 DEF RuleStatus, TypeOK
  <2>4. /\ order' \in Seq(Rules) /\ Distinct(order')
        /\ \A i \in DOMAIN order' : \E j \in DOMAIN order : order[j] = order'[i]
    BY <1>0, <2>1, <2>2, DeleteDoes
  <2>5. \A i \in DOMAIN order' : status'[order'[i]] # "new"
    BY <1>0, <2>3, <2>4
  <2> QED
    BY <2>3, <2>4, <2>5
<1>5. CASE SetFreeWatchRule
  <2>1. PICK r \in Realtime : status[r] \in {"active", "paused"} /\ status' = OnlyRule(status, r)
    BY <1>5 DEF SetFreeWatchRule
  <2>2. Kind(status') /\ UNCHANGED order
    BY <1>2, <1>5, <2>1, Assumed DEF SetFreeWatchRule
  <2> QED
    BY <1>1, <2>2
<1>6. CASE PauseUserWatchRules
  <2>1. Kind(status') /\ UNCHANGED order
    BY <1>6 DEF PauseUserWatchRules, TypeOK, RuleStatus
  <2> QED
    BY <1>1, <2>1
<1>7. CASE ReconcileUserEntitlements
  <2>1. Kind(status') /\ UNCHANGED order
    BY <1>7 DEF ReconcileUserEntitlements, TypeOK, RuleStatus
  <2> QED
    BY <1>1, <2>1
<1> QED
  BY <1>3, <1>4, <1>5, <1>6, <1>7 DEF User

LEMMA TypeStep ==
  ASSUME TypeOK, QueuesFit, RowsInOrder, [Next]_vars
  PROVE  TypeOK'
<1> USE DEF rows, sent, bounds
<1>1. ASSUME NEW w \in Workers, Cycle(w) PROVE TypeOK'
  BY <1>1, TypeCycle
<1>2. ASSUME NEW w \in Workers, Crash(w) PROVE TypeOK'
  <2>1. work' \in [Workers -> Entry]
    BY <1>2, IdleDoes DEF Crash
  <2> QED
    BY <1>2, <2>1 DEF Crash, TypeOK
<1>3. ASSUME NEW w \in Workers, LoseLock(w) PROVE TypeOK'
  BY <1>3 DEF LoseLock, TypeOK
<1>4. CASE User
  <2>1. status' \in [Rules -> RuleStatus] /\ order' \in Seq(Rules)
    BY <1>4, UserDoes
  <2>2. CASE CreateWatchRule
    <3>1. PICK r \in FirstChecked :
            /\ freeRule' \in {r, freeRule}
            /\ work' = [work EXCEPT ![Page] = [Idle EXCEPT !.step = "created",
                                                          !.queue = <<Snapshot(r)>>]]
      BY <2>2 DEF CreateWatchRule
    <3>2. r \in Rules
      BY Assumed
    <3>3. work' \in [Workers -> Entry]
      BY <3>1, <3>2, MadeDoes
    <3> QED
      BY <2>1, <2>2, <3>1, <3>2, <3>3 DEF CreateWatchRule, TypeOK
  <2>3. CASE DeleteWatchRule
    <3>1. alerts' \in Seq(Alert)
      BY <2>3, DeleteDoes, Assumed DEF DeleteWatchRule
    <3> QED
      BY <2>1, <2>3, <3>1 DEF DeleteWatchRule, Change, TypeOK
  <2>4. CASE SetFreeWatchRule
    BY <2>1, <2>4, Assumed DEF SetFreeWatchRule, Change, TypeOK
  <2>5. CASE PauseUserWatchRules
    BY <2>1, <2>5 DEF PauseUserWatchRules, Change, TypeOK, PlanName
  <2>6. CASE ReconcileUserEntitlements
    BY <2>1, <2>6 DEF ReconcileUserEntitlements, Change, TypeOK, PlanName
  <2> QED
    BY <1>4, <2>2, <2>3, <2>4, <2>5, <2>6 DEF User
<1>5. CASE MoveBalance
  BY <1>5 DEF MoveBalance, TypeOK, Value
<1>6. CASE WindowEnds
  <2>1. PICK x \in Sources : window[x] # None /\ window' = [window EXCEPT ![x].over = TRUE]
    BY <1>6 DEF WindowEnds
  <2> DEFINE win == [window[x] EXCEPT !.over = TRUE]
  <2>2. win \in WindowOf(x)
    BY <2>1 DEF TypeOK, WindowOf
  <2>3. win \in Windows
    BY <2>2 DEF Windows
  <2>4. window' = [window EXCEPT ![x] = win]
    BY <2>1
  <2> HIDE DEF win
  <2>5. window' \in [Sources -> Windows] /\ \A y \in Sources : window'[y] \in WindowOf(y) \cup {None}
    BY <2>2, <2>3, <2>4 DEF TypeOK
  <2> QED
    BY <1>6, <2>5 DEF WindowEnds, TypeOK
<1>7. CASE NextDay
  BY <1>7, NextDayDoes DEF NextDay, TypeOK
<1>8. CASE UNCHANGED vars
  BY <1>8 DEF vars, TypeOK
<1> QED
  BY <1>1, <1>2, <1>3, <1>4, <1>5, <1>6, <1>7, <1>8 DEF Next

-----------------------------------------------------------------------------
(* Queues, and the rows in their order *)

(* A step of a worker moves its queue on, or leaves it. *)
LEMMA CycleDoes ==
  ASSUME TypeOK, QueuesFit, NEW w \in Workers, Cycle(w)
  PROVE  /\ \A v \in Workers : v # w => work'[v] = work[v]
         /\ \/ CheckAll(w)
            \/ /\ work'[w].queue = work[w].queue /\ work[w].step \notin {"idle", "send"}
               /\ \/ work'[w].step = "check" /\ work[w].step = "created"
                  \/ work'[w].step \in InHand /\ work[w].queue # <<>> /\ work[w].step # "created"
            \/ /\ work[w].queue # <<>> /\ work[w].step \notin {"idle", "created"}
               /\ work'[w].queue = Tail(work[w].queue) /\ work'[w].step = "check"
            \/ work'[w].queue = <<>> /\ work'[w].step = "idle"
<1> DEFINE Keeps == \A v \in Workers : v # w => work'[v] = work[v]
           Same == /\ work'[w].queue = work[w].queue /\ work[w].step \notin {"idle", "send"}
                   /\ \/ work'[w].step = "check" /\ work[w].step = "created"
                      \/ work'[w].step \in InHand /\ work[w].queue # <<>> /\ work[w].step # "created"
           Moved == /\ work[w].queue # <<>> /\ work[w].step \notin {"idle", "created"}
                    /\ work'[w].queue = Tail(work[w].queue) /\ work'[w].step = "check"
           Ended == work'[w].queue = <<>> /\ work'[w].step = "idle"
<1> USE DEF InHand, At
<1>1. ASSUME Len(alerts) + 1 \notin Nat \/ Len(notices) + 1 \notin Nat PROVE FALSE
  BY <1>1 DEF TypeOK
<1>2. ASSUME work[w].step \in {"check", "count", "record", "send"}, work[w].queue # <<>>, Advance(w)
      PROVE  Keeps /\ Moved
  BY <1>2, AdvanceDoes
<1>3. ASSUME NEW st \in {"record", "count"}, work[w].step \in {"check", "count"},
             work[w].queue # <<>>, Step(w, st)
      PROVE  Keeps /\ Same
  BY <1>3, StepDoes DEF StepName
<1>4. ASSUME NEW n \in Nat, work' = [work EXCEPT ![w].step = "send", ![w].row = n],
             work[w].step = "record", work[w].queue # <<>>
      PROVE  Keeps /\ Same
  BY <1>4, SendDoes
<1>5. ASSUME work' = [work EXCEPT ![w] = Idle] PROVE Keeps /\ Ended
  BY <1>5, IdleDoes
<1>6. CASE CheckAll(w)
  BY <1>6, CheckAllDoes
<1>7. CASE CheckRule(w)
  <2>1. ASSUME Step(w, "check"), At(w, "created") PROVE Keeps /\ Same
    BY <2>1, StepDoes DEF StepName
  <2> QED
    BY <1>5, <1>7, <2>1 DEF CheckRule
<1>8. CASE SkipRule(w)
  BY <1>2, <1>8 DEF SkipRule
<1>9. CASE checkAssetRule(w)
  BY <1>2, <1>3, <1>9 DEF checkAssetRule
<1>10. work[w].step \in InHand => work[w].queue # <<>>
  BY DEF QueuesFit
<1>11. CASE freeDailyLimit(w)
  BY <1>2, <1>3, <1>10, <1>11 DEF freeDailyLimit
<1>12. CASE CreateAlertEvent(w)
  BY <1>1, <1>2, <1>4, <1>10, <1>12 DEF CreateAlertEvent
<1>13. CASE RecordTrigger(w)
  <2>1. /\ work[w].step = "record"
        /\ \/ Advance(w) \/ work' = [work EXCEPT ![w].step = "send", ![w].row = Len(notices) + 1]
    BY <1>13 DEF RecordTrigger
  <2> QED
    BY <1>1, <1>2, <1>4, <1>10, <2>1
<1>14. CASE SendNotification(w)
  BY <1>2, <1>10, <1>14 DEF SendNotification
<1>15. CASE Unlock(w)
  BY <1>5, <1>15 DEF Unlock
<1> QED
  BY <1>6, <1>7, <1>8, <1>9, <1>11, <1>12, <1>13, <1>14, <1>15 DEF Cycle

(* Whose step it is. *)
LEMMA WhoMoves ==
  ASSUME [Next]_vars
  PROVE  \/ \E w \in Workers : Cycle(w) \/ Crash(w)
         \/ CreateWatchRule \/ UNCHANGED work
  BY DEF Next, User, DeleteWatchRule, SetFreeWatchRule, PauseUserWatchRules,
         ReconcileUserEntitlements, MoveBalance, WindowEnds, NextDay, LoseLock, vars

LEMMA QueuesFitStep ==
  ASSUME TypeOK, QueuesFit, [Next]_vars
  PROVE  QueuesFit'
<1> DEFINE Fits(w) == /\ work'[w].step = "idle" => work'[w].queue = <<>>
                      /\ work'[w].step \in InHand => work'[w].queue # <<>>
<1> USE DEF InHand
<1>0. \A w \in Workers : work'[w] = work[w] => Fits(w)
  BY DEF QueuesFit, At
<1>1. ASSUME \A w \in Workers : Fits(w) PROVE QueuesFit'
  BY <1>1 DEF QueuesFit, At
<1>2. ASSUME NEW w \in Workers, Cycle(w) PROVE QueuesFit'
  <2>1. Fits(w)
    BY <1>2, CycleDoes, CheckAllDoes
  <2> QED
    BY <1>0, <1>1, <1>2, <2>1, CycleDoes
<1>3. ASSUME NEW w \in Workers, Crash(w) PROVE QueuesFit'
  BY <1>0, <1>1, <1>3, IdleDoes DEF Crash
<1>4. CASE CreateWatchRule
  <2>1. PICK r \in FirstChecked :
          work' = [work EXCEPT ![Page] = [Idle EXCEPT !.step = "created", !.queue = <<Snapshot(r)>>]]
    BY <1>4 DEF CreateWatchRule
  <2> QED
    BY <1>0, <1>1, <2>1, MadeDoes, Assumed
<1>5. CASE UNCHANGED work
  BY <1>0, <1>1, <1>5
<1> QED
  BY <1>2, <1>3, <1>4, <1>5, WhoMoves

LEMMA NoneNew ==
  ASSUME TypeOK, RowsInOrder, [Next]_vars
  PROVE  \A r \in Rules : /\ status[r] # "new" => status'[r] # "new"
                          /\ status[r] = "gone" => status'[r] = "gone"
<1>1. CASE User
  BY <1>1, UserDoes
<1>2. CASE ~User
  <2>1. UNCHANGED status
    BY <1>2 DEF Next, Cycle, CheckAll, CheckRule, SkipRule, checkAssetRule, freeDailyLimit,
         CreateAlertEvent, RecordTrigger, SendNotification, Unlock, Crash, LoseLock,
         MoveBalance, WindowEnds, NextDay, vars, rows
  <2> QED
    BY <2>1
<1> QED
  BY <1>1, <1>2

LEMMA RowsInOrderStep ==
  ASSUME TypeOK, QueuesFit, RowsInOrder, [Next]_vars
  PROVE  RowsInOrder'
<1> DEFINE Sound(v) == \A i, j \in DOMAIN work'[v].queue :
             /\ status'[work'[v].queue[i].rule] # "new"
             /\ work'[v].queue[i].rule = work'[v].queue[j].rule => i = j
             /\ work'[v].step = "created" => v = Page /\ work'[v].queue[i].last = Nil
           Ordered == /\ Distinct(order')
                      /\ \A i \in DOMAIN order' : status'[order'[i]] # "new"
                      /\ \A r \in Rules : status'[r] = "new" => last'[r] = Nil
<1>1. \A r \in Rules : status[r] # "new" => status'[r] # "new"
  <2>1. \A r \in Rules : /\ status[r] # "new" => status'[r] # "new"
                         /\ status[r] = "gone" => status'[r] = "gone"
    BY NoneNew
  <2> QED
    BY <2>1
<1>2. /\ order \in Seq(Rules) /\ \A i \in DOMAIN order : order[i] \in Rules /\ status[order[i]] # "new"
      /\ Distinct(order) /\ \A r \in Rules : status[r] = "new" => last[r] = Nil
  BY DEF TypeOK, RowsInOrder
<1>3. \A v \in Workers : /\ work[v].queue \in Seq(Seen)
                         /\ \A i, j \in DOMAIN work[v].queue :
                              /\ work[v].queue[i].rule \in Rules
                              /\ status[work[v].queue[i].rule] # "new"
                              /\ work[v].queue[i].rule = work[v].queue[j].rule => i = j
                              /\ work[v].step = "created"
                                   => v = Page /\ work[v].queue[i].last = Nil
  <2>1. \A v \in Workers : /\ work[v].queue \in Seq(Seen)
                           /\ \A i \in DOMAIN work[v].queue : work[v].queue[i].rule \in Rules
    BY EntryFacts, QueueFacts DEF Seen
  <2> QED
    BY <2>1 DEF RowsInOrder, At
<1>4. \A v \in Workers : work'[v] = work[v] => Sound(v)
  BY <1>1, <1>3
<1>5. ASSUME NEW w \in Workers, Cycle(w) PROVE Sound(w)
  <2>1. CASE CheckAll(w)
    <3> DEFINE L == ListEnabledWatchRules
    <3>1. /\ \A i \in DOMAIN L : L[i] \in Rules /\ status[L[i]] # "new"
          /\ Distinct(L)
      BY <1>2, ListedFacts
    <3>2. /\ work'[w].step = "check" /\ DOMAIN work'[w].queue = DOMAIN L
          /\ \A i \in DOMAIN L : work'[w].queue[i] = Snapshot(L[i])
      BY <2>1, CheckAllDoes
    <3> HIDE DEF L
    <3>3. \A i \in DOMAIN L : work'[w].queue[i].rule = L[i]
      <4>1. \A r : Snapshot(r).rule = r
        BY DEF Snapshot
      <4> QED
        BY <3>2, <4>1
    <3>4. \A i, j \in DOMAIN L : /\ status'[L[i]] # "new"
                                 /\ L[i] = L[j] => i = j
      BY <1>1, <3>1 DEF Distinct
    <3>5. \A i, j \in DOMAIN work'[w].queue :
            /\ status'[work'[w].queue[i].rule] # "new"
            /\ work'[w].queue[i].rule = work'[w].queue[j].rule => i = j
      BY <3>2, <3>3, <3>4
    <3>6. work'[w].step # "created"
      BY <3>2
    <3> QED
      BY <3>5, <3>6
  <2>2. CASE work'[w].queue = work[w].queue /\ work'[w].step # "created"
    BY <1>1, <1>3, <2>2
  <2>3. CASE work[w].queue # <<>> /\ work'[w].queue = Tail(work[w].queue) /\ work'[w].step = "check"
    <3>1. \A i \in DOMAIN work'[w].queue : i + 1 \in DOMAIN work[w].queue
                                          /\ i \in Int /\ work'[w].queue[i] = work[w].queue[i + 1]
      BY <1>3, <2>3, QueueFacts
    <3>2. \A i, j \in DOMAIN work'[w].queue :
            /\ status'[work'[w].queue[i].rule] # "new"
            /\ work'[w].queue[i].rule = work'[w].queue[j].rule => i = j
      BY <1>1, <1>3, <3>1
    <3> QED
      BY <2>3, <3>2
  <2>4. CASE work'[w].queue = <<>>
    BY <2>4
  <2> QED
    BY <1>5, <2>1, <2>2, <2>3, <2>4, CycleDoes DEF InHand
<1>6. \A v \in Workers : Sound(v)
  <2>1. ASSUME NEW w \in Workers, Cycle(w) PROVE \A v \in Workers : Sound(v)
    BY <1>4, <1>5, <2>1, CycleDoes
  <2>2. ASSUME NEW w \in Workers, Crash(w) PROVE \A v \in Workers : Sound(v)
    <3>1. work'[w].queue = <<>> /\ \A v \in Workers : v # w => work'[v] = work[v]
      BY <2>2, IdleDoes DEF Crash
    <3> QED
      BY <1>4, <3>1
  <2>3. CASE CreateWatchRule
    <3>1. PICK r \in FirstChecked :
            /\ status[r] = "new"
            /\ status' = OnlyRule(status, r) \/ status' = [status EXCEPT ![r] = "active"]
            /\ work' = [work EXCEPT ![Page] = [Idle EXCEPT !.step = "created", !.queue = <<Snapshot(r)>>]]
      BY <2>3 DEF CreateWatchRule
    <3>2. r \in Rules /\ last[r] = Nil
      BY <1>2, <3>1, Assumed
    <3>3. status'[r] = "active"
      BY <3>1, <3>2 DEF OnlyRule, TypeOK
    <3>4. /\ \A v \in Workers : v # Page => work'[v] = work[v]
          /\ work'[Page].queue = <<Snapshot(r)>> /\ DOMAIN work'[Page].queue = {1}
      BY <3>1, <3>2, MadeDoes
    <3>5. work'[Page].queue[1].rule = r /\ work'[Page].queue[1].last = Nil
      BY <3>2, <3>4 DEF Snapshot
    <3>6. Sound(Page)
      BY <3>3, <3>4, <3>5
    <3> QED
      BY <1>4, <3>4, <3>6
  <2>4. CASE UNCHANGED work
    BY <1>4, <2>4
  <2> QED
    BY <2>1, <2>2, <2>3, <2>4, WhoMoves
<1>7. Ordered
  <2>1. CASE User
    <3>1. UNCHANGED last
      BY <2>1 DEF User, CreateWatchRule, DeleteWatchRule, SetFreeWatchRule,
                  PauseUserWatchRules, ReconcileUserEntitlements
    <3> QED
      BY <1>1, <1>2, <2>1, <3>1, UserDoes
  <2>2. CASE UNCHANGED <<order, last, status>>
    BY <1>2, <2>2
  <2>3. ASSUME NEW w \in Workers, checkAssetRule(w) PROVE Ordered
    <3>1. Rule(w) \in Rules /\ balance[Rule(w)] \in Value /\ status[Rule(w)] # "new"
      <4>1. work[w].queue # <<>>
        BY <2>3 DEF checkAssetRule
      <4>2. Rule(w) \in Rules /\ Item(w) = work[w].queue[1] /\ 1 \in DOMAIN work[w].queue
        BY <1>3, <4>1, EntryFacts, QueueFacts
      <4> QED
        BY <1>3, <4>2 DEF Rule, TypeOK
    <3>2. UNCHANGED status
      BY <2>3 DEF checkAssetRule
    <3>3. CASE UpdateWatchRuleValue(Rule(w), balance[Rule(w)])
      BY <1>2, <3>1, <3>2, <3>3, UpdateDoes
    <3>4. CASE UNCHANGED <<last, order>>
      BY <1>2, <3>2, <3>4
    <3> QED
      BY <2>3, <3>3, <3>4 DEF checkAssetRule
  <2> QED
    BY <2>1, <2>2, <2>3 DEF Next, Cycle, CheckAll, CheckRule, SkipRule, freeDailyLimit,
         CreateAlertEvent, RecordTrigger, SendNotification, Unlock, Crash, LoseLock,
         MoveBalance, WindowEnds, NextDay, vars, rows
<1> QED
  BY <1>6, <1>7 DEF RowsInOrder, At

-----------------------------------------------------------------------------
(* What a stage or a combination announces *)

LEMMA EarnedStep ==
  ASSUME TypeOK, QueuesFit, WindowsInTime, NoticesEarned, [Next]_vars
  PROVE  WindowsInTime' /\ NoticesEarned'
<1>0. /\ notices \in Seq(Notice) /\ DOMAIN notices = 1..Len(notices) /\ Len(notices) \in Nat
      /\ \A i \in DOMAIN notices : \A m \in DOMAIN notices[i].inTime : notices[i].inTime[m] >= Need[m]
  BY DEF TypeOK, NoticesEarned
<1>1. ASSUME /\ DOMAIN notices' = DOMAIN notices
             /\ \A i \in DOMAIN notices : notices'[i].inTime = notices[i].inTime
      PROVE  NoticesEarned'
  BY <1>0, <1>1 DEF NoticesEarned
<1>2. ASSUME \A x \in Sources : window'[x] \in {window[x], None} PROVE WindowsInTime'
  BY <1>2 DEF WindowsInTime
<1>3. ASSUME NEW w \in Workers, RecordTrigger(w) PROVE WindowsInTime' /\ NoticesEarned'
  <2> DEFINE r == Rule(w)
             x == SourceOf(r)
             win == Counted(currentWindow(x), r)
             notice == [source |-> x, status |-> "pending", inTime |-> win.inTime]
             closed == [win EXCEPT !.sent = @ \/ Due(win)]
  <2>1. work[w].queue # <<>> /\ r \notin Realtime
    BY <1>3 DEF RecordTrigger, QueuesFit, InHand, At
  <2>2. r \in Rules /\ x \in Sources /\ r \in PartsOf(x)
    BY <2>1, EntryFacts, SourceFacts
  <2>3. win \in WindowOf(x) /\ win.inTime = win.count
    BY <2>2, WindowFacts
  <2>4. \/ UNCHANGED <<window, notices>>
        \/ /\ window' = [window EXCEPT ![x] = closed]
           /\ notices' = notices \/ (Due(win) /\ notices' = Append(notices, notice))
    BY <1>3 DEF RecordTrigger
  <2> HIDE DEF x, win
  <2>5. closed.inTime = closed.count
    BY <2>3 DEF WindowOf
  <2>6. Due(win) => \A m \in DOMAIN notice.inTime : notice.inTime[m] >= Need[m]
    BY <2>3 DEF Due, allReached
  <2> HIDE DEF notice, closed
  <2>7. WindowsInTime'
    <3>1. \A y \in Sources : window'[y] = window[y] \/ window'[y] = closed
      BY <2>4 DEF TypeOK
    <3> QED
      BY <2>5, <3>1 DEF WindowsInTime
  <2>8. NoticesEarned'
    <3>1. CASE notices' = notices
      BY <1>1, <3>1
    <3>2. CASE Due(win) /\ notices' = Append(notices, notice)
      <4>1. /\ DOMAIN notices' = 1..(Len(notices) + 1) /\ notices'[Len(notices) + 1] = notice
            /\ \A i \in 1..Len(notices) : notices'[i] = notices[i]
        BY <1>0, <3>2
      <4>2. \A i \in DOMAIN notices' : i = Len(notices) + 1 \/ i \in DOMAIN notices
        BY <1>0, <4>1
      <4> QED
        BY <1>0, <2>6, <3>2, <4>1, <4>2 DEF NoticesEarned
    <3> QED
      BY <2>4, <3>1, <3>2
  <2> QED
    BY <2>7, <2>8
<1>4. ASSUME NEW w \in Workers, SendNotification(w) PROVE WindowsInTime' /\ NoticesEarned'
  <2>1. /\ DOMAIN notices' = DOMAIN notices
        /\ \A i \in DOMAIN notices : notices'[i].inTime = notices[i].inTime
    <3> DEFINE n == work[w].row
               q == [notices EXCEPT ![n].status = IF @ = "removed" THEN @ ELSE "done"]
    <3>1. DOMAIN q = DOMAIN notices /\ \A i \in DOMAIN notices : q[i].inTime = notices[i].inTime
      BY <1>0, MarkedIs
    <3>2. notices' = notices \/ notices' = q
      BY <1>4 DEF SendNotification
    <3> HIDE DEF q
    <3> QED
      BY <3>1, <3>2
  <2>2. window' = window
    BY <1>4 DEF SendNotification
  <2> QED
    BY <1>1, <1>2, <2>1, <2>2
<1>5. ASSUME NEW w \in Workers, Unlock(w) PROVE WindowsInTime' /\ NoticesEarned'
  <2>1. CASE CleanupAggregationHistory
    BY <1>1, <1>2, <2>1, CleanupDoes
  <2>2. CASE UNCHANGED <<window, notices>>
    BY <1>1, <1>2, <2>2
  <2> QED
    BY <1>5, <2>1, <2>2 DEF Unlock
<1>6. CASE WindowEnds
  <2>1. PICK x \in Sources : window[x] # None /\ window' = [window EXCEPT ![x].over = TRUE]
    BY <1>6 DEF WindowEnds
  <2>2. window[x] \in WindowOf(x) /\ window[x].inTime = window[x].count
    BY <2>1 DEF TypeOK, WindowsInTime
  <2>3. window'[x].inTime = window'[x].count /\ \A y \in Sources : y # x => window'[y] = window[y]
    BY <2>1, <2>2 DEF TypeOK, WindowOf
  <2>4. WindowsInTime'
    BY <2>3 DEF WindowsInTime
  <2> QED
    BY <1>1, <1>6, <2>4 DEF WindowEnds
<1>7. CASE UNCHANGED <<window, notices>>
  BY <1>1, <1>2, <1>7
<1> QED
  BY <1>3, <1>4, <1>5, <1>6, <1>7
  DEF Next, Cycle, CheckAll, CheckRule, SkipRule, checkAssetRule, freeDailyLimit,
      CreateAlertEvent, User, CreateWatchRule, DeleteWatchRule, SetFreeWatchRule,
      PauseUserWatchRules, ReconcileUserEntitlements, MoveBalance, NextDay, Crash,
      LoseLock, vars, sent

-----------------------------------------------------------------------------
(* The lock, and what was listed under it *)

(* Without a fault nothing crashes and no lock is lost. *)
LEMMA NoFault ==
  ASSUME TypeOK, [Next]_vars, faults' = faults
  PROVE  \A w \in Workers : ~Crash(w) /\ ~LoseLock(w)
  BY DEF Crash, LoseLock, TypeOK

LEMMA FaultsGrow ==
  ASSUME TypeOK, [Next]_vars
  PROVE  faults' \in {faults, faults + 1}
<1>1. ASSUME NEW w \in Workers, Cycle(w) PROVE faults' = faults
  BY <1>1 DEF Cycle, CheckAll, CheckRule, SkipRule, checkAssetRule, freeDailyLimit,
       CreateAlertEvent, RecordTrigger, SendNotification, Unlock, bounds
<1>2. ASSUME NEW w \in Workers, Crash(w) \/ LoseLock(w) PROVE faults' = faults + 1
  BY <1>2 DEF Crash, LoseLock
<1>3. CASE User
  BY <1>3 DEF User, CreateWatchRule, DeleteWatchRule, SetFreeWatchRule,
       PauseUserWatchRules, ReconcileUserEntitlements, bounds
<1>4. CASE MoveBalance \/ WindowEnds \/ NextDay
  BY <1>4 DEF MoveBalance, WindowEnds, NextDay, bounds
<1>5. CASE UNCHANGED vars
  BY <1>5 DEF vars, bounds
<1> QED
  BY <1>1, <1>2, <1>3, <1>4, <1>5 DEF Next

LEMMA LockStep ==
  ASSUME TypeOK, QueuesFit, OneChecker, [Next]_vars, faults' = faults
  PROVE  OneChecker'
<1> DEFINE Free(v) == work'[v].step \in {"idle", "created"}
<1>0. /\ \A v \in Workers : work[v].step \notin {"idle", "created"} => holder = v
      /\ None \notin Workers
  BY Assumed DEF OneChecker, At
<1>1. ASSUME \A v \in Workers : Free(v) \/ holder' = v PROVE OneChecker'
  BY <1>1 DEF OneChecker, At
<1>2. ASSUME NEW w \in Workers, Cycle(w) PROVE OneChecker'
  <2>1. \A v \in Workers : v # w => work'[v] = work[v]
    BY <1>2, CycleDoes
  <2>2. CASE CheckAll(w)
    BY <1>0, <1>1, <2>1, <2>2 DEF CheckAll, LockFree
  <2>3. CASE CheckRule(w)
    <3>1. CASE LockFree(w)
      BY <1>0, <1>1, <2>1, <2>3, <3>1 DEF CheckRule, LockFree
    <3>2. CASE ~LockFree(w)
      <4>1. Free(w) /\ holder' = holder
        BY <2>3, <3>2, IdleDoes DEF CheckRule
      <4> QED
        BY <1>0, <1>1, <2>1, <4>1
    <3> QED
      BY <3>1, <3>2
  <2>4. CASE Unlock(w)
    <3>1. Free(w) /\ holder = w
      BY <1>0, <2>4, IdleDoes DEF Unlock, At
    <3> QED
      BY <1>0, <1>1, <2>1, <3>1
  <2>5. ASSUME work[w].step \notin {"idle", "created"}, holder' = holder PROVE OneChecker'
    BY <1>0, <1>1, <2>1, <2>5
  <2> QED
    BY <1>2, <2>2, <2>3, <2>4, <2>5
    DEF Cycle, SkipRule, checkAssetRule, freeDailyLimit, CreateAlertEvent, RecordTrigger,
        SendNotification, At
<1>3. CASE CreateWatchRule
  <2>1. PICK r \in FirstChecked :
          work' = [work EXCEPT ![Page] = [Idle EXCEPT !.step = "created", !.queue = <<Snapshot(r)>>]]
    BY <1>3 DEF CreateWatchRule
  <2>2. Free(Page) /\ \A v \in Workers : v # Page => work'[v] = work[v]
    BY <2>1, MadeDoes, Assumed
  <2>3. holder' = holder
    BY <1>3 DEF CreateWatchRule
  <2> QED
    BY <1>0, <1>1, <2>2, <2>3
<1>4. CASE UNCHANGED <<work, holder>>
  BY <1>0, <1>1, <1>4
<1> QED
  BY <1>2, <1>3, <1>4, NoFault
  DEF Next, User, DeleteWatchRule, SetFreeWatchRule, PauseUserWatchRules,
      ReconcileUserEntitlements, MoveBalance, WindowEnds, NextDay, vars

LEMMA ListedStep ==
  ASSUME TypeOK, QueuesFit, RowsInOrder, OneChecker, ListedIsLast, [Next]_vars, faults' = faults
  PROVE  ListedIsLast'
<1> DEFINE Fresh(v) == \A i \in DOMAIN work'[v].queue :
             i > 1 \/ work'[v].step \notin InHand
               => \/ work'[v].queue[i].last = last'[work'[v].queue[i].rule]
                  \/ v = Page /\ work'[v].queue[i].last = Nil
<1> USE DEF InHand
<1>1. ASSUME \A v \in Workers : Fresh(v) PROVE ListedIsLast'
  BY <1>1 DEF ListedIsLast
<1>2. \A v \in Workers :
        /\ work[v].queue \in Seq(Seen)
        /\ \A i \in DOMAIN work[v].queue :
             /\ work[v].queue[i].rule \in Rules /\ i \in Nat /\ i >= 1
             /\ i > 1 \/ work[v].step \notin InHand
                  => \/ work[v].queue[i].last = last[work[v].queue[i].rule]
                     \/ v = Page /\ work[v].queue[i].last = Nil
             /\ work[v].step = "created" => v = Page /\ work[v].queue[i].last = Nil
             /\ i > 1 => work[v].queue[i].rule # work[v].queue[1].rule
        /\ work[v].step = "idle" => DOMAIN work[v].queue = {}
        /\ work[v].step \notin {"idle", "created"} => holder = v
  <2> TAKE v \in Workers
  <2>1. /\ work[v].queue \in Seq(Seen) /\ DOMAIN work[v].queue = 1..Len(work[v].queue)
        /\ Len(work[v].queue) \in Nat
        /\ \A i \in DOMAIN work[v].queue : work[v].queue[i].rule \in Rules
    BY EntryFacts, QueueFacts DEF Seen
  <2>2. \A i, j \in DOMAIN work[v].queue :
          work[v].queue[i].rule = work[v].queue[j].rule => i = j
    BY DEF RowsInOrder
  <2>3. \A i \in DOMAIN work[v].queue :
          /\ i > 1 => work[v].queue[i].rule # work[v].queue[1].rule
          /\ i \in Nat /\ i >= 1
    BY <2>1, <2>2
  <2>4. \A i \in DOMAIN work[v].queue :
          work[v].step = "created" => v = Page /\ work[v].queue[i].last = Nil
    BY DEF RowsInOrder, At
  <2>5. \A i \in DOMAIN work[v].queue : i > 1 \/ work[v].step \notin InHand
          => \/ work[v].queue[i].last = last[work[v].queue[i].rule]
             \/ v = Page /\ work[v].queue[i].last = Nil
    BY DEF ListedIsLast
  <2>6. work[v].step = "idle" => work[v].queue = <<>>
    BY DEF QueuesFit, At
  <2> QED
    BY <2>1, <2>3, <2>4, <2>5, <2>6 DEF OneChecker, At
<1>3. ASSUME NEW w \in Workers, Cycle(w), UNCHANGED last PROVE ListedIsLast'
  <2>1. \A v \in Workers : v # w => Fresh(v)
    BY <1>2, <1>3, CycleDoes
  <2>2. Fresh(w)
    <3>1. CASE CheckAll(w)
      <4>1. /\ DOMAIN work'[w].queue = DOMAIN ListEnabledWatchRules
            /\ \A i \in DOMAIN ListEnabledWatchRules :
                 work'[w].queue[i] = Snapshot(ListEnabledWatchRules[i])
        BY <3>1, CheckAllDoes
      <4>2. \A r : Snapshot(r).last = last[Snapshot(r).rule]
        BY DEF Snapshot
      <4> QED
        BY <1>3, <4>1, <4>2
    <3>2. CASE /\ work'[w].queue = work[w].queue /\ work[w].step \notin {"idle", "send"}
               /\ \/ work'[w].step = "check" /\ work[w].step = "created"
                  \/ work'[w].step \in InHand /\ work[w].queue # <<>> /\ work[w].step # "created"
      BY <1>2, <1>3, <3>2
    <3>3. CASE work[w].queue # <<>> /\ work'[w].queue = Tail(work[w].queue)
      <4>1. \A i \in DOMAIN work'[w].queue :
              /\ i + 1 \in DOMAIN work[w].queue /\ i \in Nat /\ i + 1 > 1
              /\ work'[w].queue[i] = work[w].queue[i + 1]
        <5>1. work[w].queue \in Seq(Seen)
          BY <1>2
        <5> QED
          BY <5>1, <3>3, QueueFacts
      <4> QED
        BY <1>2, <1>3, <4>1
    <3>4. CASE work'[w].queue = <<>>
      BY <3>4
    <3> QED
      BY <1>3, <3>1, <3>2, <3>3, <3>4, CycleDoes
  <2> QED
    BY <1>1, <2>1, <2>2
<1>4. ASSUME NEW w \in Workers, checkAssetRule(w) PROVE ListedIsLast'
  <2>1. work[w].step = "check" /\ work[w].queue # <<>> /\ Rule(w) \in Rules /\ holder = w
        /\ Rule(w) = work[w].queue[1].rule /\ work[w].queue \in Seq(Seen)
    <3>1. work[w].step = "check" /\ work[w].queue # <<>>
      BY <1>4 DEF checkAssetRule, At
    <3> QED
      BY <1>2, <3>1, EntryFacts DEF Rule
  <2>2. \A r \in Rules : r # Rule(w) => last'[r] = last[r]
    BY <1>4, <2>1 DEF checkAssetRule, UpdateWatchRuleValue, TypeOK
  <2>3. ASSUME NEW v \in Workers, v # w PROVE Fresh(v)
    <3>1. work'[v] = work[v]
      <4>1. Cycle(w)
        BY <1>4 DEF Cycle
      <4> QED
        BY <2>3, <4>1, CycleDoes
    <3>2. work[v].step \in {"idle", "created"}
      BY <1>2, <2>1, <2>3
    <3> QED
      BY <1>2, <3>1, <3>2
  <2>4. Fresh(w)
    <3>1. CASE Advance(w)
      <4>1. work'[w].queue = Tail(work[w].queue)
        BY <2>1, <3>1, AdvanceDoes
      <4>2. \A i \in DOMAIN work'[w].queue :
              /\ i + 1 \in DOMAIN work[w].queue /\ i \in Nat /\ i + 1 > 1
              /\ work'[w].queue[i] = work[w].queue[i + 1]
        BY <2>1, <4>1, QueueFacts
      <4>3. \A i \in DOMAIN work[w].queue :
              i > 1 => \/ work[w].queue[i].last = last'[work[w].queue[i].rule]
                       \/ w = Page /\ work[w].queue[i].last = Nil
        BY <1>2, <2>1, <2>2
      <4> QED
        BY <4>2, <4>3
    <3>2. CASE \E st \in {"record", "count"} : Step(w, st)
      <4>1. work'[w].queue = work[w].queue /\ work'[w].step \in InHand
        BY <3>2, StepDoes DEF StepName
      <4>2. \A i \in DOMAIN work[w].queue :
              i > 1 => \/ work[w].queue[i].last = last'[work[w].queue[i].rule]
                       \/ w = Page /\ work[w].queue[i].last = Nil
        BY <1>2, <2>1, <2>2
      <4> QED
        BY <4>1, <4>2
    <3> QED
      BY <1>4, <3>1, <3>2 DEF checkAssetRule
  <2> QED
    BY <1>1, <2>3, <2>4
<1>5. CASE CreateWatchRule
  <2>1. PICK r \in FirstChecked :
          work' = [work EXCEPT ![Page] = [Idle EXCEPT !.step = "created", !.queue = <<Snapshot(r)>>]]
    BY <1>5 DEF CreateWatchRule
  <2>2. /\ \A v \in Workers : v # Page => work'[v] = work[v]
        /\ work'[Page].queue = <<Snapshot(r)>> /\ DOMAIN work'[Page].queue = {1}
    BY <2>1, MadeDoes, Assumed
  <2>3. UNCHANGED last
    BY <1>5 DEF CreateWatchRule
  <2>4. work'[Page].queue[1].last = last'[work'[Page].queue[1].rule]
    BY <2>2, <2>3 DEF Snapshot
  <2> QED
    BY <1>1, <1>2, <2>2, <2>3, <2>4
<1>6. CASE UNCHANGED <<work, last>>
  BY <1>1, <1>2, <1>6
<1> QED
  BY <1>3, <1>4, <1>5, <1>6, NoFault
  DEF Next, Cycle, CheckAll, CheckRule, SkipRule, freeDailyLimit, CreateAlertEvent,
      RecordTrigger, SendNotification, Unlock, User, DeleteWatchRule, SetFreeWatchRule,
      PauseUserWatchRules, ReconcileUserEntitlements, MoveBalance, WindowEnds, NextDay,
      vars, rows

-----------------------------------------------------------------------------
(* The alerts *)

(* But for the one that records an alert, a step leaves the alerts their rules,
   and none is of today again that was not. *)
LEMMA AlertsKept ==
  ASSUME TypeOK, [Next]_vars, \A w \in Workers : ~CreateAlertEvent(w)
  PROVE  /\ DOMAIN alerts' = DOMAIN alerts
         /\ \A i \in DOMAIN alerts :
              /\ alerts'[i].rule = alerts[i].rule /\ alerts'[i].first = alerts[i].first
              /\ alerts'[i].today /\ Kept(alerts'[i]) =>
                   alerts[i].today /\ Kept(alerts[i]) /\ alerts'[i].plan = alerts[i].plan
<1> USE DEF Kept
<1>1. ASSUME NEW w \in Workers, SendNotification(w)
      PROVE  /\ DOMAIN alerts' = DOMAIN alerts
             /\ \A i \in DOMAIN alerts :
                  /\ alerts'[i].rule = alerts[i].rule /\ alerts'[i].first = alerts[i].first
                  /\ alerts'[i].plan = alerts[i].plan /\ alerts'[i].today = alerts[i].today
                  /\ alerts'[i].status = "removed" <=> alerts[i].status = "removed"
  <2> DEFINE n == work[w].row
             q == [alerts EXCEPT ![n].status = IF @ = "removed" THEN @ ELSE "done"]
  <2>1. /\ DOMAIN q = DOMAIN alerts
        /\ \A i \in DOMAIN alerts :
             /\ q[i].rule = alerts[i].rule /\ q[i].first = alerts[i].first
             /\ q[i].plan = alerts[i].plan /\ q[i].today = alerts[i].today
             /\ q[i].status = "removed" <=> alerts[i].status = "removed"
    <3>1. alerts \in Seq(Alert)
      BY DEF TypeOK
    <3> QED
      BY <3>1, MarkedIs
  <2>2. alerts' = alerts \/ alerts' = q
    BY <1>1 DEF SendNotification
  <2> HIDE DEF q
  <2> QED
    BY <2>1, <2>2
<1>2. CASE DeleteWatchRule
  <2>1. PICK r \in Realtime :
          /\ order' = Only(order, Rules \ {r})
          /\ alerts' = [i \in DOMAIN alerts |->
             IF alerts[i].rule = r THEN [alerts[i] EXCEPT !.status = "removed"] ELSE alerts[i]]
    BY <1>2 DEF DeleteWatchRule
  <2>2. r \in Rules
    BY Assumed
  <2> QED
    BY <2>1, <2>2, DeleteDoes
<1>3. CASE NextDay
  BY <1>3, NextDayDoes
<1>4. CASE UNCHANGED alerts
  BY <1>4
<1> QED
  BY <1>1, <1>2, <1>3, <1>4
  DEF Next, Cycle, CheckAll, CheckRule, SkipRule, checkAssetRule, freeDailyLimit,
      RecordTrigger, Unlock, User, CreateWatchRule, SetFreeWatchRule, PauseUserWatchRules,
      ReconcileUserEntitlements, MoveBalance, WindowEnds, Crash, LoseLock, vars, sent

LEMMA Sets ==
  ASSUME TypeOK
  PROVE  /\ IsFiniteSet(Today) /\ Cardinality(Today) \in Nat
         /\ IsFiniteSet(FreeToday) /\ Cardinality(FreeToday) \in Nat
         /\ FreeToday \subseteq Today /\ Cardinality(FreeToday) <= Cardinality(Today)
         /\ \A r : /\ IsFiniteSet(Again(r)) /\ Cardinality(Again(r)) \in Nat
                   /\ IsFiniteSet(First(r)) /\ Cardinality(First(r)) \in Nat
<1>1. DOMAIN alerts = 1..Len(alerts) /\ Len(alerts) \in Nat
  BY DEF TypeOK
<1>2. IsFiniteSet(DOMAIN alerts)
  BY <1>1, FS_Interval
<1>3. Today \in SUBSET DOMAIN alerts /\ FreeToday \in SUBSET Today
      /\ \A r : Again(r) \in SUBSET DOMAIN alerts /\ First(r) \in SUBSET DOMAIN alerts
  BY DEF Today, FreeToday, Again, First
<1> QED
  BY <1>2, <1>3, FS_Subset, FS_CardinalityType

LEMMA LimitStep ==
  ASSUME TypeOK, TypeOK', QueuesFit, OneChecker, RoomForOne,
         Cardinality(FreeToday) <= DailyLimit, [Next]_vars, faults' = faults
  PROVE  RoomForOne' /\ Cardinality(FreeToday') <= DailyLimit
<1> DEFINE Room(v) == work'[v].step = "record" /\ Head(work'[v].queue).plan = "free"
                        => Cardinality(Today') < DailyLimit
<1>0. /\ DailyLimit \in Nat
      /\ \A v \in Workers : work[v].step \notin {"idle", "created"} => holder = v
      /\ \A v \in Workers : work[v].step = "record" /\ Item(v).plan = "free"
                            => Cardinality(Today) < DailyLimit
  BY Assumed DEF OneChecker, At, RoomForOne
<1>1. ASSUME \A v \in Workers : Room(v) PROVE RoomForOne'
  BY <1>1 DEF RoomForOne, At, Item
<1>2. /\ IsFiniteSet(Today) /\ Cardinality(Today) \in Nat
      /\ IsFiniteSet(FreeToday) /\ Cardinality(FreeToday) \in Nat
      /\ FreeToday \subseteq Today /\ Cardinality(FreeToday) <= Cardinality(Today)
  BY Sets
<1>3. /\ IsFiniteSet(Today') /\ Cardinality(Today') \in Nat
      /\ IsFiniteSet(FreeToday') /\ Cardinality(FreeToday') \in Nat
  <2>1. DOMAIN alerts' = 1..Len(alerts') /\ Len(alerts') \in Nat
    BY DEF TypeOK
  <2>2. IsFiniteSet(DOMAIN alerts')
    BY <2>1, FS_Interval
  <2>3. Today' \in SUBSET DOMAIN alerts' /\ FreeToday' \in SUBSET DOMAIN alerts'
    BY DEF Today, FreeToday
  <2> QED
    BY <2>2, <2>3, FS_Subset, FS_CardinalityType
<1>4. ASSUME \A w \in Workers : ~CreateAlertEvent(w)
      PROVE  /\ Cardinality(Today') <= Cardinality(Today)
             /\ Cardinality(FreeToday') <= DailyLimit
  <2>1. Today' \subseteq Today /\ FreeToday' \subseteq FreeToday
    BY <1>4, AlertsKept DEF Today, FreeToday
  <2>2. Cardinality(Today') <= Cardinality(Today) /\ Cardinality(FreeToday') <= Cardinality(FreeToday)
    BY <1>2, <2>1, FS_Subset
  <2> QED
    BY <1>0, <1>2, <1>3, <2>2
<1>5. ASSUME NEW v \in Workers, work'[v] = work[v], \A w \in Workers : ~CreateAlertEvent(w)
      PROVE  Room(v)
  BY <1>0, <1>2, <1>3, <1>4, <1>5 DEF Item
<1>6. ASSUME NEW w \in Workers, Cycle(w), ~CreateAlertEvent(w)
      PROVE  (\A v \in Workers : ~CreateAlertEvent(v)) /\ (\A v \in Workers : v # w => Room(v))
  <2>1. \A v \in Workers : v # w => work'[v] = work[v]
    BY <1>6, CycleDoes
  <2>2. \A v \in Workers : ~CreateAlertEvent(v)
    <3> SUFFICES ASSUME NEW v \in Workers, v # w, CreateAlertEvent(v) PROVE FALSE
      BY <1>6
    <3>1. work[v].step = "record" /\ work'[v] = work[v] /\ work[v].queue # <<>>
      BY <2>1 DEF CreateAlertEvent, At, QueuesFit, InHand
    <3>2. work'[v].step # "record"
      <4>1. Len(alerts) + 1 \in Nat
        BY DEF TypeOK
      <4> QED
        BY <3>1, <4>1, AdvanceDoes, SendDoes DEF CreateAlertEvent
    <3> QED
      BY <3>1, <3>2
  <2> QED
    BY <1>5, <2>1, <2>2
<1>7. ASSUME NEW w \in Workers, CreateAlertEvent(w)
      PROVE  RoomForOne' /\ Cardinality(FreeToday') <= DailyLimit
  <2>1. work[w].step = "record" /\ work[w].queue # <<>> /\ holder = w /\ Cycle(w)
    BY <1>0, <1>7 DEF CreateAlertEvent, At, QueuesFit, InHand, Cycle
  <2>2. work'[w].step # "record"
    <3>1. Len(alerts) + 1 \in Nat
      BY DEF TypeOK
    <3> QED
      BY <1>7, <2>1, <3>1, AdvanceDoes, SendDoes DEF CreateAlertEvent
  <2>3. \A v \in Workers : v # w => work'[v] = work[v] /\ work[v].step # "record"
    BY <1>0, <2>1, CycleDoes
  <2>4. RoomForOne'
    BY <1>1, <2>2, <2>3
  <2> DEFINE a == [rule |-> Rule(w), first |-> Item(w).last = Nil, plan |-> Item(w).plan,
                   status |-> "pending", today |-> TRUE]
             k == Len(alerts) + 1
  <2>5. alerts' = alerts \/ alerts' = Append(alerts, a)
    BY <1>7 DEF CreateAlertEvent
  <2>6. a.plan = Item(w).plan
    OBVIOUS
  <2> HIDE DEF a
  <2>7. alerts \in Seq(Alert) /\ Len(alerts) \in Nat /\ DOMAIN alerts = 1..Len(alerts)
    BY DEF TypeOK
  <2>8. CASE alerts' = alerts
    <3>1. FreeToday' = FreeToday
      BY <2>8 DEF FreeToday, Today
    <3> QED
      BY <2>4, <3>1
  <2>9. CASE alerts' = Append(alerts, a)
    <3>1. DOMAIN alerts' = DOMAIN alerts \cup {k} /\ alerts'[k] = a
          /\ \A i \in DOMAIN alerts : alerts'[i] = alerts[i]
      BY <2>7, <2>9
    <3>2. FreeToday' \subseteq FreeToday \cup {k}
          /\ (a.plan # "free" => FreeToday' \subseteq FreeToday)
      BY <3>1 DEF FreeToday, Today
    <3>3. CASE a.plan # "free"
      <4>1. Cardinality(FreeToday') <= Cardinality(FreeToday)
        BY <1>2, <3>2, <3>3, FS_Subset
      <4> QED
        BY <1>0, <1>2, <1>3, <2>4, <4>1
    <3>4. CASE a.plan = "free"
      <4>1. Cardinality(FreeToday \cup {k}) <= Cardinality(FreeToday) + 1
            /\ IsFiniteSet(FreeToday \cup {k}) /\ Cardinality(FreeToday \cup {k}) \in Nat
        <5> HIDE DEF k
        <5>1. IsFiniteSet(FreeToday)
          BY <1>2
        <5>2. IsFiniteSet(FreeToday \cup {k})
              /\ Cardinality(FreeToday \cup {k}) \in {Cardinality(FreeToday), Cardinality(FreeToday) + 1}
          BY <5>1, FS_AddElement
        <5> QED
          BY <1>2, <5>2
      <4>2. Cardinality(FreeToday') <= Cardinality(FreeToday \cup {k})
        BY <3>2, <4>1, FS_Subset
      <4>3. Cardinality(FreeToday) < DailyLimit
        <5>1. Cardinality(Today) < DailyLimit
          BY <1>0, <2>1, <2>6, <3>4
        <5> QED
          BY <1>0, <1>2, <5>1
      <4> QED
        BY <1>0, <1>2, <1>3, <2>4, <4>1, <4>2, <4>3
    <3> QED
      BY <3>3, <3>4
  <2> QED
    BY <2>5, <2>8, <2>9
<1>8. ASSUME NEW w \in Workers, Cycle(w), ~CreateAlertEvent(w)
      PROVE  RoomForOne' /\ Cardinality(FreeToday') <= DailyLimit
  <2>1. Cardinality(FreeToday') <= DailyLimit /\ Cardinality(Today') <= Cardinality(Today)
        /\ \A v \in Workers : v # w => Room(v)
    BY <1>4, <1>6, <1>8
  <2>2. Room(w)
    <3>1. CASE freeDailyLimit(w)
      <4>1. work[w].queue # <<>>
        BY <3>1 DEF freeDailyLimit, At, QueuesFit, InHand
      <4>2. CASE BelowLimit(CountDailyAlertEvents)
        <5>1. CountDailyAlertEvents = Cardinality(Today)
          BY DEF CountDailyAlertEvents, Today
        <5> QED
          BY <1>0, <1>2, <1>3, <2>1, <4>2, <5>1 DEF BelowLimit
      <4>3. CASE ~BelowLimit(CountDailyAlertEvents)
        BY <3>1, <4>1, <4>3, AdvanceDoes DEF freeDailyLimit
      <4> QED
        BY <4>2, <4>3
    <3>2. CASE checkAssetRule(w)
      <4>1. work[w].queue # <<>>
        BY <3>2 DEF checkAssetRule
      <4>2. CASE Advance(w)
        BY <4>1, <4>2, AdvanceDoes
      <4>3. CASE Step(w, IF Item(w).plan = "professional" THEN "record" ELSE "count")
        BY <4>3, StepDoes DEF StepName, Item
      <4> QED
        BY <3>2, <4>2, <4>3 DEF checkAssetRule
    <3>3. CASE RecordTrigger(w)
      <4>1. work[w].queue # <<>> /\ Len(notices) + 1 \in Nat
        BY <3>3 DEF RecordTrigger, At, QueuesFit, InHand, TypeOK
      <4>2. Advance(w) \/ work' = [work EXCEPT ![w].step = "send", ![w].row = Len(notices) + 1]
        BY <3>3 DEF RecordTrigger
      <4> QED
        BY <4>1, <4>2, AdvanceDoes, SendDoes
    <3>4. CASE CheckAll(w) \/ CheckRule(w) \/ SkipRule(w) \/ SendNotification(w) \/ Unlock(w)
      <4>1. work'[w].step \in {"check", "idle"}
        <5>1. CASE CheckAll(w)
          BY <5>1, CheckAllDoes
        <5>2. CASE CheckRule(w)
          BY <5>2, StepDoes, IdleDoes DEF CheckRule, StepName
        <5>3. CASE SkipRule(w)
          BY <5>3, AdvanceDoes DEF SkipRule
        <5>4. CASE SendNotification(w)
          BY <5>4, AdvanceDoes DEF SendNotification, QueuesFit, InHand, At
        <5>5. CASE Unlock(w)
          BY <5>5, IdleDoes DEF Unlock
        <5> QED
          BY <3>4, <5>1, <5>2, <5>3, <5>4, <5>5
      <4> QED
        BY <4>1
    <3> QED
      BY <1>8, <3>1, <3>2, <3>3, <3>4 DEF Cycle
  <2> QED
    BY <1>1, <2>1, <2>2
<1>9. CASE CreateWatchRule
  <2>1. PICK r \in FirstChecked :
          work' = [work EXCEPT ![Page] = [Idle EXCEPT !.step = "created", !.queue = <<Snapshot(r)>>]]
    BY <1>9 DEF CreateWatchRule
  <2>2. /\ \A v \in Workers : v # Page => work'[v] = work[v]
        /\ work'[Page].step = "created" /\ work[Page].step = "idle"
    BY <1>9, <2>1, MadeDoes, Assumed DEF CreateWatchRule, At
  <2>3. alerts' = alerts
    BY <1>9 DEF CreateWatchRule, sent
  <2>4. Today' = Today /\ FreeToday' = FreeToday
    BY <2>3 DEF Today, FreeToday
  <2>5. \A v \in Workers : Room(v)
    BY <1>0, <2>2, <2>4 DEF Item
  <2> QED
    BY <1>1, <2>4, <2>5
<1>10. ASSUME UNCHANGED work, \A w \in Workers : ~CreateAlertEvent(w)
      PROVE  RoomForOne' /\ Cardinality(FreeToday') <= DailyLimit
  BY <1>1, <1>4, <1>5, <1>10
<1>11. ASSUME NEW w \in Workers, CreateAlertEvent(w) PROVE Cycle(w)
  BY <1>11 DEF Cycle
<1> QED
  BY <1>7, <1>8, <1>9, <1>10, <1>11, NoFault, WhoMoves

(* What a worker is about to announce, a check of its own has found. *)
LEMMA AnnouncedByCheck ==
  ASSUME TypeOK, QueuesFit, NEW w \in Workers, Cycle(w), ~checkAssetRule(w),
         ~CreateAlertEvent(w), work'[w].step \in {"count", "record"}
  PROVE  work[w].step \in {"count", "record"} /\ work'[w].queue = work[w].queue
<1>1. work[w].step \in InHand => work[w].queue # <<>>
  BY DEF QueuesFit, At
<1>2. CASE freeDailyLimit(w)
  <2>1. work[w].step = "count" /\ work[w].queue # <<>>
    BY <1>1, <1>2 DEF freeDailyLimit, At, InHand
  <2> QED
    BY <1>2, <2>1, AdvanceDoes, StepDoes DEF freeDailyLimit, StepName
<1>3. CASE RecordTrigger(w)
  <2>1. work[w].queue # <<>> /\ Len(notices) + 1 \in Nat
    BY <1>1, <1>3 DEF RecordTrigger, At, InHand, TypeOK
  <2>2. Advance(w) \/ work' = [work EXCEPT ![w].step = "send", ![w].row = Len(notices) + 1]
    BY <1>3 DEF RecordTrigger
  <2> QED
    BY <2>1, <2>2, AdvanceDoes, SendDoes
<1>4. CASE CheckAll(w)
  BY <1>4, CheckAllDoes
<1>5. CASE CheckRule(w)
  BY <1>5, StepDoes, IdleDoes DEF CheckRule, StepName
<1>6. CASE SkipRule(w)
  BY <1>6, AdvanceDoes DEF SkipRule
<1>7. CASE SendNotification(w)
  <2>1. work[w].queue # <<>>
    BY <1>1, <1>7 DEF SendNotification, At, InHand
  <2> QED
    BY <1>7, <2>1, AdvanceDoes DEF SendNotification
<1>8. CASE Unlock(w)
  BY <1>8, IdleDoes DEF Unlock
<1> QED
  BY <1>2, <1>3, <1>4, <1>5, <1>6, <1>7, <1>8 DEF Cycle

(* An alert after the first needs a fall of the balance: what is owed for a rule
   is its alerts, the one about to be recorded and the fall no check has seen. *)
LEMMA FallsStep ==
  ASSUME TypeOK, TypeOK', QueuesFit, QueuesFit', RowsInOrder, OneChecker, ListedIsLast,
         FallsPaid, [Next]_vars, faults' = faults
  PROVE  FallsPaid'
<1> SUFFICES ASSUME NEW r \in Thresholds
             PROVE  Cardinality(Again(r)') + (IF Announcing(r)' THEN 1 ELSE 0)
                      + (IF Unseen(r)' THEN 1 ELSE 0) <= falls'[r]
  BY DEF FallsPaid
<1> DEFINE ann  == IF Announcing(r) THEN 1 ELSE 0
           ann1 == IF Announcing(r)' THEN 1 ELSE 0
           uns  == IF Unseen(r) THEN 1 ELSE 0
           uns1 == IF Unseen(r)' THEN 1 ELSE 0
           n    == Cardinality(Again(r))
           n1   == Cardinality(Again(r)')
<1>0. /\ r \in Rules /\ r \in Realtime /\ Type[r] = "balance_threshold" /\ Threshold[r] \in Int
      /\ falls[r] \in Nat /\ falls'[r] \in Nat
      /\ last[r] \in Int /\ balance[r] \in Int /\ last'[r] \in Int /\ balance'[r] \in Int
  <2>1. r \in Rules /\ r \in Realtime /\ Type[r] = "balance_threshold" /\ Threshold[r] \in Int
    BY Assumed DEF Thresholds
  <2>2. Stored \subseteq Int /\ Value \subseteq Int
    BY Assumed DEF Stored, Value, Nil
  <2>3. falls[r] \in Nat /\ last[r] \in Stored /\ balance[r] \in Value
    BY <2>1 DEF TypeOK
  <2>4. falls'[r] \in Nat /\ last'[r] \in Stored /\ balance'[r] \in Value
    BY <2>1 DEF TypeOK
  <2> QED
    BY <2>1, <2>2, <2>3, <2>4
<1>1. n \in Nat /\ n1 \in Nat /\ IsFiniteSet(Again(r)) /\ IsFiniteSet(Again(r)')
      /\ n + ann + uns <= falls[r]
  <2>1. DOMAIN alerts' = 1..Len(alerts') /\ Len(alerts') \in Nat
    BY DEF TypeOK
  <2>2. IsFiniteSet(DOMAIN alerts')
    BY <2>1, FS_Interval
  <2>3. Again(r)' \subseteq DOMAIN alerts'
    BY DEF Again
  <2>4. IsFiniteSet(Again(r)') /\ n1 \in Nat
    BY <2>2, <2>3, FS_Subset, FS_CardinalityType
  <2> QED
    BY <2>4, Sets DEF FallsPaid
<1>2. ann \in {0, 1} /\ ann1 \in {0, 1} /\ uns \in {0, 1} /\ uns1 \in {0, 1}
  OBVIOUS
<1>3. \A v \in Workers : /\ work[v].step \notin {"idle", "created"} => holder = v
                         /\ work[v].step \in InHand => work[v].queue # <<>>
  BY DEF OneChecker, QueuesFit, At
<1>4. status[r] = "gone" => status'[r] = "gone"
  BY <1>0, NoneNew
<1> HIDE DEF ann, ann1, uns, uns1, n, n1
<1>5. ASSUME \A w \in Workers : ~CreateAlertEvent(w) PROVE n1 = n
  <2>1. Again(r)' = Again(r)
    BY <1>5, AlertsKept DEF Again
  <2> QED
    BY <2>1 DEF n, n1
<1>6. ASSUME NEW w \in Workers, Cycle(w), ~checkAssetRule(w)
      PROVE  uns1 = uns /\ falls'[r] = falls[r]
  <2>1. UNCHANGED <<last, balance, falls>>
    BY <1>6 DEF Cycle, CheckAll, CheckRule, SkipRule, freeDailyLimit, CreateAlertEvent,
         RecordTrigger, SendNotification, Unlock, rows
  <2> QED
    BY <2>1 DEF Unseen, uns, uns1
(* An announcement is not made by anything but a check. *)
<1>7. ASSUME NEW v \in Workers, work'[v].step \in {"count", "record"},
             Head(work'[v].queue).rule = r, Head(work'[v].queue).last # Nil,
             status'[r] # "gone", work[v].step \in {"count", "record"},
             work'[v].queue = work[v].queue
      PROVE  ann = 1
  BY <1>4, <1>7 DEF Announcing, ann, Rule, Item
<1>8. ASSUME \A v \in Workers : work'[v].step \in {"count", "record"}
                => work[v].step \in {"count", "record"} /\ work'[v].queue = work[v].queue
      PROVE  ann1 <= ann
  <2>1. CASE ~Announcing(r)'
    BY <1>2, <2>1 DEF ann1
  <2>2. CASE Announcing(r)'
    <3>1. \E v \in Workers : /\ work'[v].step \in {"count", "record"}
                             /\ Head(work'[v].queue).rule = r /\ Head(work'[v].queue).last # Nil
                             /\ status'[r] # "gone"
      BY <2>2 DEF Announcing, Rule, Item
    <3> QED
      BY <1>2, <1>7, <1>8, <3>1
  <2> QED
    BY <2>1, <2>2
<1>9. ASSUME NEW w \in Workers, checkAssetRule(w)
      PROVE  n1 + ann1 + uns1 <= falls'[r]
  <2>1. /\ work[w].step = "check" /\ work[w].queue # <<>> /\ Cycle(w) /\ holder = w
        /\ \A v \in Workers : ~CreateAlertEvent(v)
    <3>1. work[w].step = "check" /\ work[w].queue # <<>> /\ Cycle(w) /\ alerts' = alerts
      BY <1>9 DEF checkAssetRule, At, Cycle, sent
    <3>2. \A v \in Workers : v # w => work'[v] = work[v]
      BY <3>1, CycleDoes
    <3>3. ASSUME NEW v \in Workers, CreateAlertEvent(v) PROVE FALSE
      <4>1. work[v].step = "record" /\ v # w /\ holder = v
        BY <1>3, <3>1, <3>3 DEF CreateAlertEvent, At
      <4> QED
        BY <1>3, <3>1, <4>1
    <3> QED
      BY <1>3, <3>1, <3>3
  <2>2. n1 = n /\ falls'[r] = falls[r] /\ balance'[r] = balance[r]
    BY <1>5, <1>9, <2>1 DEF checkAssetRule
  <2>3. \A v \in Workers : v # w => work'[v] = work[v] /\ work'[v].step \notin {"count", "record"}
    BY <1>3, <2>1, CycleDoes
  <2> DEFINE it == Item(w)
  <2>4. it = work[w].queue[1] /\ it \in Seen /\ Rule(w) = it.rule /\ it.rule \in Rules
        /\ 1 \in DOMAIN work[w].queue
    BY <2>1, EntryFacts, QueueFacts DEF Rule
  <2>5. it.last = last[it.rule] \/ (w = Page /\ it.last = Nil)
    BY <2>1, <2>4 DEF ListedIsLast, InHand
  <2>6. CASE it.rule # r
    <3>1. last'[r] = last[r]
      BY <1>0, <1>9, <2>4, <2>6 DEF checkAssetRule, UpdateWatchRuleValue, TypeOK
    <3>2. uns1 = uns
      BY <2>2, <3>1 DEF uns, uns1, Unseen
    <3>3. work'[w].step \in {"count", "record"} => Head(work'[w].queue).rule = it.rule
      BY <2>1, CycleDoes, CheckAllDoes DEF Item
    <3>4. ann1 = 0
      <4>1. ~Announcing(r)'
        BY <2>3, <2>6, <3>3 DEF Announcing, Rule, Item
      <4> QED
        BY <4>1 DEF ann1
    <3> QED
      BY <1>0, <1>1, <1>2, <2>2, <3>2, <3>4
  <2>7. CASE it.rule = r /\ status[r] = "gone"
    <3>1. last'[r] = last[r]
      BY <1>9, <2>4, <2>7 DEF checkAssetRule
    <3>2. uns1 = uns
      BY <2>2, <3>1 DEF uns, uns1, Unseen
    <3>3. ann1 = 0
      <4>1. ~Announcing(r)'
        BY <1>4, <2>7 DEF Announcing
      <4> QED
        BY <4>1 DEF ann1
    <3> QED
      BY <1>0, <1>1, <1>2, <2>2, <3>2, <3>3
  <2>8. CASE it.rule = r /\ status[r] # "gone"
    <3>1. last'[r] = balance[r]
      BY <1>0, <1>9, <2>4, <2>8 DEF checkAssetRule, UpdateWatchRuleValue, TypeOK
    <3>2. uns1 = 0
      <4>1. ~Unseen(r)'
        BY <1>0, <2>2, <3>1 DEF Unseen
      <4> QED
        BY <4>1 DEF uns1
    <3>3. CASE ann1 = 0
      BY <1>0, <1>1, <1>2, <2>2, <3>2, <3>3
    <3>4. CASE ann1 = 1
      <4>1. /\ work'[w].step \in {"count", "record"}
            /\ Head(work'[w].queue).last # Nil
        <5>1. Announcing(r)'
          BY <3>4 DEF ann1
        <5> QED
          BY <2>3, <5>1 DEF Announcing, Rule, Item
      <4>2. it.last # Nil
        BY <2>1, <4>1, CycleDoes, CheckAllDoes DEF Item
      <4>3. Matches(r, it.last, balance[r])
        <5>1. ~Advance(w)
          BY <2>1, <4>1, AdvanceDoes
        <5> QED
          BY <1>9, <2>4, <2>8, <5>1 DEF checkAssetRule
      <4>4. FellBelow(r, last[r], balance[r])
        BY <1>0, <2>5, <2>8, <4>2, <4>3 DEF Matches, shouldAlertAsset
      <4>5. uns = 1
        <5>1. Unseen(r)
          BY <2>5, <2>8, <4>2, <4>4 DEF Unseen, FellBelow
        <5> QED
          BY <5>1 DEF uns
      <4> QED
        BY <1>0, <1>1, <1>2, <2>2, <3>2, <3>4, <4>5
    <3> QED
      BY <1>2, <3>3, <3>4
  <2> QED
    BY <2>6, <2>7, <2>8
<1>10. ASSUME NEW w \in Workers, CreateAlertEvent(w)
       PROVE  n1 + ann1 + uns1 <= falls'[r]
  <2>1. work[w].step = "record" /\ work[w].queue # <<>> /\ holder = w /\ Cycle(w)
        /\ Len(alerts) + 1 \in Nat
    <3>1. work[w].step = "record"
      BY <1>10 DEF CreateAlertEvent, At
    <3>2. Cycle(w)
      BY <1>10 DEF Cycle
    <3>3. Len(alerts) + 1 \in Nat
      BY DEF TypeOK
    <3> QED
      BY <1>3, <3>1, <3>2, <3>3 DEF InHand
  <2>2. work'[w].step \in {"check", "send"}
    BY <1>10, <2>1, AdvanceDoes, SendDoes DEF CreateAlertEvent
  <2>3. \A v \in Workers : work'[v].step \notin {"count", "record"}
    BY <1>3, <2>1, <2>2, CycleDoes
  <2>4. ann1 = 0
    <3>1. ~Announcing(r)'
      BY <2>3 DEF Announcing
    <3> QED
      BY <3>1 DEF ann1
  <2>5. uns1 = uns /\ falls'[r] = falls[r]
    <3>1. ~checkAssetRule(w)
      BY <2>1 DEF checkAssetRule, At
    <3> QED
      BY <1>6, <2>1, <3>1
  <2> DEFINE a == [rule |-> Rule(w), first |-> Item(w).last = Nil, plan |-> Item(w).plan,
                   status |-> "pending", today |-> TRUE]
             k == Len(alerts) + 1
  <2>6. \/ alerts' = alerts
        \/ status[Rule(w)] # "gone" /\ alerts' = Append(alerts, a)
    BY <1>10 DEF CreateAlertEvent
  <2>7. a.rule = Rule(w) /\ a.first = (Item(w).last = Nil)
    OBVIOUS
  <2> HIDE DEF a
  <2>8. alerts \in Seq(Alert) /\ Len(alerts) \in Nat /\ DOMAIN alerts = 1..Len(alerts)
    BY DEF TypeOK
  <2>9. CASE alerts' = alerts
    <3>1. n1 = n
      BY <2>9 DEF n, n1, Again
    <3> QED
      BY <1>0, <1>1, <1>2, <2>4, <2>5, <3>1
  <2>10. CASE status[Rule(w)] # "gone" /\ alerts' = Append(alerts, a)
    <3>1. DOMAIN alerts' = DOMAIN alerts \cup {k} /\ alerts'[k] = a /\ k \notin DOMAIN alerts
          /\ \A i \in DOMAIN alerts : alerts'[i] = alerts[i]
      BY <2>8, <2>10
    <3> HIDE DEF k
    <3>2. CASE a.rule = r /\ ~a.first
      <4>1. Again(r)' = Again(r) \cup {k}
        BY <3>1, <3>2 DEF Again
      <4>2. n1 \in {n, n + 1}
        BY <1>1, <4>1, FS_AddElement DEF n, n1
      <4>3. Announcing(r)
        BY <2>1, <2>7, <2>10, <3>2 DEF Announcing
      <4>4. ann = 1
        BY <4>3 DEF ann
      <4> QED
        BY <1>0, <1>1, <1>2, <2>4, <2>5, <4>2, <4>4
    <3>3. CASE ~(a.rule = r /\ ~a.first)
      <4>1. Again(r)' = Again(r)
        BY <3>1, <3>3 DEF Again
      <4>2. n1 = n
        BY <4>1 DEF n, n1
      <4> QED
        BY <1>0, <1>1, <1>2, <2>4, <2>5, <4>2
    <3> QED
      BY <3>2, <3>3
  <2> QED
    BY <2>6, <2>9, <2>10
<1>11. ASSUME NEW w \in Workers, Cycle(w), ~checkAssetRule(w), ~CreateAlertEvent(w)
       PROVE  n1 + ann1 + uns1 <= falls'[r]
  <2>1. \A v \in Workers : v # w => work'[v] = work[v]
    BY <1>11, CycleDoes
  <2>2. \A v \in Workers : ~CreateAlertEvent(v)
    <3> SUFFICES ASSUME NEW v \in Workers, v # w, CreateAlertEvent(v) PROVE FALSE
      BY <1>11
    <3>1. work[v].step = "record" /\ work'[v] = work[v] /\ work[v].queue # <<>>
          /\ Len(alerts) + 1 \in Nat
      BY <1>3, <2>1 DEF CreateAlertEvent, At, InHand, TypeOK
    <3>2. work'[v].step # "record"
      BY <3>1, AdvanceDoes, SendDoes DEF CreateAlertEvent
    <3> QED
      BY <3>1, <3>2
  <2>3. work'[w].step \in {"count", "record"}
          => work[w].step \in {"count", "record"} /\ work'[w].queue = work[w].queue
    BY <1>11, AnnouncedByCheck
  <2>4. ann1 <= ann /\ n1 = n /\ uns1 = uns /\ falls'[r] = falls[r]
    BY <1>5, <1>6, <1>8, <1>11, <2>1, <2>2, <2>3
  <2> QED
    BY <1>0, <1>1, <1>2, <2>4
<1>12. ASSUME MoveBalance PROVE n1 + ann1 + uns1 <= falls'[r]
  <2>1. PICK x \in Rules \ Unreadable, v \in 0..MaxBalance :
          /\ balance' = [balance EXCEPT ![x] = v]
          /\ falls' = [falls EXCEPT ![x] =
               @ + (IF Type[x] = "balance_threshold" /\ FellBelow(x, balance[x], v) THEN 1 ELSE 0)]
    BY <1>12 DEF MoveBalance
  <2>2. UNCHANGED <<last, alerts, work, status>>
    BY <1>12 DEF MoveBalance, rows, sent
  <2>3. n1 = n
    BY <2>2 DEF n, n1, Again
  <2>4. ann1 <= ann
    BY <1>2, <1>8, <2>2
  <2>5. CASE x # r
    <3>1. balance'[r] = balance[r] /\ falls'[r] = falls[r]
      BY <1>0, <2>1, <2>5 DEF TypeOK
    <3>2. uns1 = uns
      BY <2>2, <3>1 DEF uns, uns1, Unseen
    <3> QED
      BY <1>0, <1>1, <1>2, <2>3, <2>4, <3>1, <3>2
  <2>6. CASE x = r
    <3>1. balance'[r] = v
          /\ falls'[r] = falls[r] + (IF FellBelow(r, balance[r], v) THEN 1 ELSE 0)
      BY <1>0, <2>1, <2>6 DEF TypeOK
    <3>2. uns1 = 1 => uns = 1 \/ FellBelow(r, balance[r], v)
      <4>1. Unseen(r)' => Unseen(r) \/ FellBelow(r, balance[r], v)
        BY <1>0, <2>2, <3>1 DEF Unseen, FellBelow
      <4> QED
        BY <4>1 DEF uns, uns1
    <3>3. falls'[r] >= falls[r] /\ (FellBelow(r, balance[r], v) => falls'[r] = falls[r] + 1)
      BY <1>0, <3>1
    <3> QED
      BY <1>0, <1>1, <1>2, <2>3, <2>4, <3>2, <3>3
  <2> QED
    BY <2>5, <2>6
<1>13. ASSUME CreateWatchRule PROVE n1 + ann1 + uns1 <= falls'[r]
  <2>1. PICK x \in FirstChecked :
          work' = [work EXCEPT ![Page] = [Idle EXCEPT !.step = "created", !.queue = <<Snapshot(x)>>]]
    BY <1>13 DEF CreateWatchRule
  <2>2. /\ \A v \in Workers : v # Page => work'[v] = work[v]
        /\ work'[Page].step = "created"
    BY <2>1, MadeDoes, Assumed
  <2>3. UNCHANGED <<last, alerts, balance, falls>>
    BY <1>13 DEF CreateWatchRule, sent
  <2>4. n1 = n /\ uns1 = uns
    BY <2>3 DEF n, n1, Again, uns, uns1, Unseen
  <2>5. ann1 <= ann
    BY <1>8, <2>2
  <2> QED
    BY <1>0, <1>1, <1>2, <2>3, <2>4, <2>5
<1>14. ASSUME UNCHANGED <<work, last, balance, falls>>, \A w \in Workers : ~CreateAlertEvent(w)
       PROVE  n1 + ann1 + uns1 <= falls'[r]
  <2>1. n1 = n /\ ann1 <= ann
    BY <1>5, <1>8, <1>14
  <2>2. uns1 = uns
    BY <1>14 DEF uns, uns1, Unseen
  <2> QED
    BY <1>0, <1>1, <1>2, <1>14, <2>1, <2>2
<1>15. n1 + ann1 + uns1 <= falls'[r]
  <2>1. ASSUME NEW w \in Workers, CreateAlertEvent(w) PROVE Cycle(w)
    BY <2>1 DEF Cycle
  <2>2. \/ \E w \in Workers : Cycle(w)
        \/ CreateWatchRule \/ MoveBalance \/ UNCHANGED <<work, last, balance, falls>>
    BY NoFault
    DEF Next, User, DeleteWatchRule, SetFreeWatchRule, PauseUserWatchRules,
        ReconcileUserEntitlements, WindowEnds, NextDay, vars, rows
  <2> QED
    BY <1>9, <1>10, <1>11, <1>12, <1>13, <1>14, <2>1, <2>2
<1> QED
  BY <1>15 DEF n1, ann1, uns1

(* An alert with nothing to compare with is one that was still to come: the
   request's own, or that of the one cycle that found no value stored. *)
LEMMA FirstsStep ==
  ASSUME TypeOK, TypeOK', QueuesFit, QueuesFit', RowsInOrder, OneChecker, ListedIsLast,
         FirstsPaid, [Next]_vars, faults' = faults
  PROVE  FirstsPaid'
<1> SUFFICES ASSUME NEW r \in Thresholds
             PROVE  Cardinality(First(r)') + (IF PageOwes(r)' THEN 1 ELSE 0)
                      + (IF Unchecked(r)' THEN 1 ELSE 0) + (IF Opening(r)' THEN 1 ELSE 0)
                      <= IF r \in FirstChecked THEN 2 ELSE 0
  BY DEF FirstsPaid
<1> DEFINE page  == IF PageOwes(r) THEN 1 ELSE 0
           page1 == IF PageOwes(r)' THEN 1 ELSE 0
           nil   == IF Unchecked(r) THEN 1 ELSE 0
           nil1  == IF Unchecked(r)' THEN 1 ELSE 0
           ann   == IF Opening(r) THEN 1 ELSE 0
           ann1  == IF Opening(r)' THEN 1 ELSE 0
           n     == Cardinality(First(r))
           n1    == Cardinality(First(r)')
           max   == IF r \in FirstChecked THEN 2 ELSE 0
<1>0. /\ r \in Rules /\ r \in Realtime /\ Page \in Workers /\ Page \notin Instances
      /\ Instances \subseteq Workers
  BY Assumed, WatchMonitorAssumption DEF Thresholds
<1>1. n \in Nat /\ n1 \in Nat /\ IsFiniteSet(First(r)) /\ IsFiniteSet(First(r)')
      /\ n + page + nil + ann <= max
  <2>1. DOMAIN alerts' = 1..Len(alerts') /\ Len(alerts') \in Nat
    BY DEF TypeOK
  <2>2. IsFiniteSet(DOMAIN alerts')
    BY <2>1, FS_Interval
  <2>3. First(r)' \subseteq DOMAIN alerts'
    BY DEF First
  <2>4. IsFiniteSet(First(r)') /\ n1 \in Nat
    BY <2>2, <2>3, FS_Subset, FS_CardinalityType
  <2> QED
    BY <2>4, Sets DEF FirstsPaid
<1>2. /\ page \in {0, 1} /\ page1 \in {0, 1} /\ nil \in {0, 1} /\ nil1 \in {0, 1}
      /\ ann \in {0, 1} /\ ann1 \in {0, 1} /\ max \in {0, 2}
      /\ (PageOwes(r)' => PageOwes(r)) => page1 <= page
      /\ (Unchecked(r)' => Unchecked(r)) => nil1 <= nil
      /\ (Opening(r)' => Opening(r)) => ann1 <= ann
      /\ PageOwes(r) => page = 1
      /\ Unchecked(r) => nil = 1
      /\ Opening(r) => ann = 1
      /\ ~PageOwes(r)' => page1 = 0
      /\ ~Unchecked(r)' => nil1 = 0
      /\ ~Opening(r)' => ann1 = 0
  OBVIOUS
<1>3. \A v \in Workers : /\ work[v].step \notin {"idle", "created"} => holder = v
                         /\ work[v].step \in InHand => work[v].queue # <<>>
                         /\ work[v].step = "idle" => work[v].queue = <<>>
                         /\ work[v].queue \in Seq(Seen)
  BY EntryFacts DEF OneChecker, QueuesFit, At
<1>4. status[r] = "gone" => status'[r] = "gone"
  BY <1>0, NoneNew
<1>5. status'[r] = "new" => status[r] = "new"
  BY <1>0, NoneNew
<1> HIDE DEF page, page1, nil, nil1, ann, ann1, n, n1, max
<1>6. ASSUME \A w \in Workers : ~CreateAlertEvent(w) PROVE n1 = n
  <2>1. First(r)' = First(r)
    BY <1>6, AlertsKept DEF First
  <2> QED
    BY <2>1 DEF n, n1
<1>7. ASSUME last'[r] = last[r] PROVE nil1 <= nil
  BY <1>2, <1>4, <1>7 DEF Unchecked
(* The request's own is owed while the row is new or in its queue. *)
<1>8. ASSUME work'[Page] = work[Page] PROVE page1 <= page
  BY <1>2, <1>5, <1>8 DEF PageOwes, At
<1>9. ASSUME NEW w \in Workers, Cycle(w) PROVE page1 <= page
  <2>1. CASE w # Page
    BY <1>0, <1>8, <1>9, <2>1, CycleDoes
  <2>2. CASE w = Page
    <3>1. ~CheckAll(w)
      BY <1>0, <2>2 DEF CheckAll
    <3>2. CASE /\ work'[w].queue = work[w].queue /\ work[w].step \notin {"idle", "send"}
      BY <1>2, <1>5, <2>2, <3>2 DEF PageOwes, At
    <3>3. CASE work[w].queue # <<>> /\ work'[w].queue = Tail(work[w].queue)
      <4>1. \A i \in DOMAIN work'[w].queue :
              /\ i + 1 \in DOMAIN work[w].queue /\ i + 1 > 1
              /\ work'[w].queue[i] = work[w].queue[i + 1]
        BY <1>3, <3>3, QueueFacts
      <4>2. ASSUME NEW i \in DOMAIN work'[Page].queue, work'[Page].queue[i].rule = r
            PROVE  PageOwes(r)
        <5>1. /\ i + 1 \in DOMAIN work[Page].queue /\ i + 1 > 1
              /\ work[Page].queue[i + 1].rule = r
          BY <2>2, <4>1, <4>2
        <5> QED
          BY <5>1 DEF PageOwes
      <4>3. PageOwes(r)' => PageOwes(r)
        BY <1>5, <4>2 DEF PageOwes
      <4> QED
        BY <1>2, <4>3
    <3>4. CASE work'[w].queue = <<>>
      BY <1>2, <1>5, <2>2, <3>4 DEF PageOwes
    <3> QED
      BY <1>9, <3>1, <3>2, <3>3, <3>4, CycleDoes
  <2> QED
    BY <2>1, <2>2
<1>10. ASSUME \A v \in Instances : work'[v].step \in {"count", "record"}
                => work[v].step \in {"count", "record"} /\ work'[v].queue = work[v].queue
       PROVE  ann1 <= ann
  <2>1. Opening(r)' => Opening(r)
    BY <1>4, <1>10 DEF Opening, Rule, Item
  <2> QED
    BY <1>2, <2>1
<1>11. ASSUME NEW w \in Workers, checkAssetRule(w)
       PROVE  n1 + page1 + nil1 + ann1 <= max
  <2>1. /\ work[w].step = "check" /\ work[w].queue # <<>> /\ Cycle(w) /\ holder = w
        /\ \A v \in Workers : ~CreateAlertEvent(v)
    <3>1. work[w].step = "check" /\ work[w].queue # <<>> /\ Cycle(w)
      BY <1>11 DEF checkAssetRule, At, Cycle
    <3>2. ASSUME NEW v \in Workers, CreateAlertEvent(v) PROVE FALSE
      <4>1. work[v].step = "record" /\ holder = v /\ holder = w
        BY <1>3, <3>1, <3>2 DEF CreateAlertEvent, At
      <4> QED
        BY <3>1, <4>1
    <3> QED
      BY <1>3, <3>1, <3>2
  <2>2. n1 = n /\ page1 <= page
    BY <1>6, <1>9, <2>1
  <2>3. \A v \in Workers : v # w => work'[v] = work[v] /\ work'[v].step \notin {"count", "record"}
    BY <1>3, <2>1, CycleDoes
  <2> DEFINE it == Item(w)
  <2>4. it = work[w].queue[1] /\ it \in Seen /\ Rule(w) = it.rule /\ it.rule \in Rules
        /\ 1 \in DOMAIN work[w].queue
    BY <2>1, EntryFacts, QueueFacts DEF Rule
  <2>5. it.last = last[it.rule] \/ (w = Page /\ it.last = Nil)
    BY <2>1, <2>4 DEF ListedIsLast, InHand
  <2>6. nil1 <= nil
    <3>1. last'[r] = last[r] \/ last'[r] = balance[r]
      BY <1>0, <1>11, <2>4 DEF checkAssetRule, UpdateWatchRuleValue, TypeOK
    <3>2. balance[r] # Nil
      BY <1>0, Assumed DEF TypeOK, Value, Nil
    <3> QED
      BY <1>2, <1>7, <3>1, <3>2 DEF Unchecked
  <2>7. CASE ~Opening(r)'
    BY <1>1, <1>2, <2>2, <2>6, <2>7
  <2>8. CASE Opening(r)'
    <3>1. /\ w \in Instances /\ status'[r] # "gone"
          /\ Head(work'[w].queue).rule = r /\ Head(work'[w].queue).last = Nil
          /\ work'[w].step \in {"count", "record"}
      BY <1>0, <2>3, <2>8 DEF Opening, Rule, Item
    <3>2. it.rule = r /\ it.last = Nil
      BY <2>1, <3>1, CycleDoes, CheckAllDoes DEF Item
    <3>3. Unchecked(r)
      BY <1>0, <1>4, <2>5, <3>1, <3>2 DEF Unchecked
    <3>4. last'[r] = balance[r]
      BY <1>0, <1>4, <1>11, <2>4, <3>1, <3>2 DEF checkAssetRule, UpdateWatchRuleValue, TypeOK
    <3>5. ~Unchecked(r)'
      BY <1>0, <3>4, Assumed DEF Unchecked, TypeOK, Value, Nil
    <3> QED
      BY <1>1, <1>2, <2>2, <3>3, <3>5
  <2> QED
    BY <2>7, <2>8
<1>12. ASSUME NEW w \in Workers, CreateAlertEvent(w)
       PROVE  n1 + page1 + nil1 + ann1 <= max
  <2>1. work[w].step = "record" /\ work[w].queue # <<>> /\ holder = w /\ Cycle(w)
        /\ Len(alerts) + 1 \in Nat
    <3>1. work[w].step = "record" /\ Cycle(w)
      BY <1>12 DEF CreateAlertEvent, At, Cycle
    <3>2. Len(alerts) + 1 \in Nat
      BY DEF TypeOK
    <3> QED
      BY <1>3, <3>1, <3>2 DEF InHand
  <2>2. \/ work'[w].step = "check" /\ alerts' = alerts
        \/ work'[w].step = "send" /\ work'[w].queue = work[w].queue /\ status[Rule(w)] # "gone"
    BY <1>12, <2>1, AdvanceDoes, SendDoes DEF CreateAlertEvent
  <2>3. \A v \in Workers : work'[v].step \notin {"count", "record"}
    BY <1>3, <2>1, <2>2, CycleDoes
  <2>4. ann1 = 0
    BY <1>0, <1>2, <2>3 DEF Opening
  <2>5. nil1 <= nil /\ page1 <= page
    <3>1. last'[r] = last[r]
      BY <1>12 DEF CreateAlertEvent, rows
    <3> QED
      BY <1>7, <1>9, <2>1, <3>1
  <2> DEFINE a == [rule |-> Rule(w), first |-> Item(w).last = Nil, plan |-> Item(w).plan,
                   status |-> "pending", today |-> TRUE]
             k == Len(alerts) + 1
  <2>6. alerts' = alerts \/ (work'[w].step = "send" /\ alerts' = Append(alerts, a))
    BY <1>12, <2>1, SendDoes DEF CreateAlertEvent
  <2>7. a.rule = Rule(w) /\ a.first = (Item(w).last = Nil)
    OBVIOUS
  <2> HIDE DEF a
  <2>8. alerts \in Seq(Alert) /\ Len(alerts) \in Nat /\ DOMAIN alerts = 1..Len(alerts)
    BY DEF TypeOK
  <2>9. CASE alerts' = alerts
    <3>1. n1 = n
      BY <2>9 DEF n, n1, First
    <3> QED
      BY <1>1, <1>2, <2>4, <2>5, <3>1
  <2>10. CASE work'[w].step = "send" /\ alerts' = Append(alerts, a)
    <3>1. DOMAIN alerts' = DOMAIN alerts \cup {k} /\ alerts'[k] = a /\ k \notin DOMAIN alerts
          /\ \A i \in DOMAIN alerts : alerts'[i] = alerts[i]
      BY <2>8, <2>10
    <3> HIDE DEF k
    <3>2. CASE a.rule = r /\ a.first
      <4>1. First(r)' = First(r) \cup {k}
        BY <3>1, <3>2 DEF First
      <4>2. n1 \in {n, n + 1}
        BY <1>1, <4>1, FS_AddElement DEF n, n1
      <4>3. Item(w) = work[w].queue[1] /\ 1 \in DOMAIN work[w].queue
            /\ Rule(w) = Item(w).rule /\ Item(w).rule = r /\ Item(w).last = Nil
        BY <1>3, <2>1, <2>7, <3>2, EntryFacts, QueueFacts DEF Rule
      <4>4. CASE w \in Instances
        <5>1. Opening(r)
          BY <2>1, <2>2, <2>10, <4>3, <4>4 DEF Opening
        <5> QED
          BY <1>1, <1>2, <2>4, <2>5, <4>2, <5>1
      <4>5. CASE w = Page
        <5>1. PageOwes(r)
          BY <2>1, <4>3, <4>5 DEF PageOwes, At
        <5>2. work'[Page].queue = work[Page].queue /\ work'[Page].step = "send"
          BY <2>2, <2>10, <4>5
        <5>3. \A i \in DOMAIN work[Page].queue : work[Page].queue[i].rule = r => i = 1
          BY <1>0, <4>3, <4>5 DEF RowsInOrder
        <5>4. status'[r] # "new"
          BY <1>0, <1>5, <4>3, <4>5 DEF RowsInOrder
        <5>5. ~PageOwes(r)'
          BY <5>2, <5>3, <5>4 DEF PageOwes, At
        <5> QED
          BY <1>1, <1>2, <2>4, <2>5, <4>2, <5>1, <5>5
      <4> QED
        BY <4>4, <4>5 DEF Workers
    <3>3. CASE ~(a.rule = r /\ a.first)
      <4>1. First(r)' = First(r)
        BY <3>1, <3>3 DEF First
      <4>2. n1 = n
        BY <4>1 DEF n, n1
      <4> QED
        BY <1>1, <1>2, <2>4, <2>5, <4>2
    <3> QED
      BY <3>2, <3>3
  <2> QED
    BY <2>6, <2>9, <2>10
<1>13. ASSUME NEW w \in Workers, Cycle(w), ~checkAssetRule(w), ~CreateAlertEvent(w)
       PROVE  n1 + page1 + nil1 + ann1 <= max
  <2>1. \A v \in Workers : v # w => work'[v] = work[v]
    BY <1>13, CycleDoes
  <2>2. \A v \in Workers : ~CreateAlertEvent(v)
    <3> SUFFICES ASSUME NEW v \in Workers, v # w, CreateAlertEvent(v) PROVE FALSE
      BY <1>13
    <3>1. work[v].step = "record" /\ work'[v] = work[v] /\ work[v].queue # <<>>
          /\ Len(alerts) + 1 \in Nat
      BY <1>3, <2>1 DEF CreateAlertEvent, At, InHand, TypeOK
    <3>2. work'[v].step # "record"
      BY <3>1, AdvanceDoes, SendDoes DEF CreateAlertEvent
    <3> QED
      BY <3>1, <3>2
  <2>3. \A v \in Instances : work'[v].step \in {"count", "record"}
          => work[v].step \in {"count", "record"} /\ work'[v].queue = work[v].queue
    BY <1>0, <1>13, <2>1, AnnouncedByCheck
  <2>4. last'[r] = last[r]
    BY <1>13 DEF Cycle, CheckAll, CheckRule, SkipRule, freeDailyLimit, RecordTrigger,
         SendNotification, Unlock, rows
  <2> QED
    BY <1>1, <1>2, <1>6, <1>7, <1>9, <1>10, <1>13, <2>2, <2>3, <2>4
<1>14. ASSUME CreateWatchRule PROVE n1 + page1 + nil1 + ann1 <= max
  <2>1. PICK x \in FirstChecked :
          /\ status[x] = "new" /\ At(Page, "idle")
          /\ work' = [work EXCEPT ![Page] = [Idle EXCEPT !.step = "created", !.queue = <<Snapshot(x)>>]]
    BY <1>14 DEF CreateWatchRule
  <2>2. /\ \A v \in Workers : v # Page => work'[v] = work[v]
        /\ work'[Page].queue = <<Snapshot(x)>> /\ DOMAIN work'[Page].queue = {1}
    BY <2>1, MadeDoes, Assumed
  <2>3. UNCHANGED <<last, alerts>>
    BY <1>14 DEF CreateWatchRule, sent
  <2>4. n1 = n
    BY <2>3 DEF n, n1, First
  <2>5. ann1 <= ann
    BY <1>0, <1>10, <2>2
  <2>6. page1 <= page
    <3>1. work'[Page].queue[1].rule = x
      BY <2>2 DEF Snapshot
    <3>2. ASSUME NEW i \in DOMAIN work'[Page].queue, work'[Page].queue[i].rule = r
          PROVE  status[r] = "new"
      <4>1. i = 1
        BY <2>2
      <4> QED
        BY <2>1, <3>1, <3>2, <4>1
    <3>3. PageOwes(r)' => PageOwes(r)
      BY <1>5, <3>2 DEF PageOwes
    <3> QED
      BY <1>2, <3>3
  <2> QED
    BY <1>1, <1>2, <1>7, <2>3, <2>4, <2>5, <2>6
<1>15. ASSUME UNCHANGED <<work, last>>, \A w \in Workers : ~CreateAlertEvent(w)
       PROVE  n1 + page1 + nil1 + ann1 <= max
  BY <1>1, <1>2, <1>6, <1>7, <1>8, <1>10, <1>15
<1>16. n1 + page1 + nil1 + ann1 <= max
  <2>1. ASSUME NEW w \in Workers, CreateAlertEvent(w) PROVE Cycle(w)
    BY <2>1 DEF Cycle
  <2>2. \/ \E w \in Workers : Cycle(w)
        \/ CreateWatchRule \/ UNCHANGED <<work, last>>
    BY NoFault
    DEF Next, User, DeleteWatchRule, SetFreeWatchRule, PauseUserWatchRules, MoveBalance,
        ReconcileUserEntitlements, WindowEnds, NextDay, vars, rows
  <2> QED
    BY <1>11, <1>12, <1>13, <1>14, <1>15, <2>1, <2>2
<1> QED
  BY <1>16 DEF n1, page1, nil1, ann1, max

-----------------------------------------------------------------------------
(* The theorems *)

LEMMA InvInit == Init => Inv
<1> SUFFICES ASSUME Init PROVE Inv
  OBVIOUS
<1>1. TypeOK
  BY TypeInit
<1>2. \A w \in Workers : work[w].step = "idle" /\ work[w].queue = <<>>
  BY DEF Init, Idle
<1>3. QueuesFit /\ OneChecker /\ ListedIsLast /\ RoomForOne
  BY <1>2 DEF QueuesFit, OneChecker, ListedIsLast, RoomForOne, At, InHand
<1>4. WindowsInTime /\ NoticesEarned
  BY DEF Init, WindowsInTime, NoticesEarned
<1>5. RowsInOrder
  <2>1. Distinct(order) /\ \A i \in DOMAIN order : order[i] \in Rules \ FirstChecked
    BY FirstOrder DEF Init
  <2>2. \A r \in Rules : /\ r \notin FirstChecked => status[r] # "new"
                         /\ r \in FirstChecked => last[r] = Nil
    BY DEF Init
  <2> QED
    BY <1>2, <2>1, <2>2 DEF RowsInOrder
<1>6. \A r : Again(r) = {} /\ FreeToday = {}
  BY DEF Init, Again, FreeToday, Today
<1>7. Cardinality(FreeToday) <= DailyLimit
  BY <1>6, FS_EmptySet, Assumed
<1>8. FallsPaid
  <2> SUFFICES ASSUME NEW r \in Thresholds
               PROVE  Cardinality(Again(r)) + (IF Announcing(r) THEN 1 ELSE 0)
                        + (IF Unseen(r) THEN 1 ELSE 0) <= falls[r]
    BY DEF FallsPaid
  <2>1. r \in Rules /\ falls[r] = 0 /\ Threshold[r] \in Int /\ MaxBalance \in Int
    BY Assumed DEF Thresholds, Init
  <2>2. ~Announcing(r)
    BY <1>2 DEF Announcing
  <2>3. ~Unseen(r)
    BY <2>1 DEF Init, Unseen
  <2>4. Cardinality(Again(r)) = 0
    BY <1>6, FS_EmptySet
  <2> QED
    BY <2>1, <2>2, <2>3, <2>4
<1>9. FirstsPaid
  <2> SUFFICES ASSUME NEW r \in Thresholds
               PROVE  Cardinality(First(r)) + (IF PageOwes(r) THEN 1 ELSE 0)
                        + (IF Unchecked(r) THEN 1 ELSE 0) + (IF Opening(r) THEN 1 ELSE 0)
                        <= IF r \in FirstChecked THEN 2 ELSE 0
    BY DEF FirstsPaid
  <2>1. r \in Rules /\ Page \in Workers /\ Instances \subseteq Workers /\ MaxBalance # Nil
    BY Assumed DEF Thresholds, Nil
  <2>2. First(r) = {}
    BY DEF Init, First
  <2>3. Cardinality(First(r)) = 0
    BY <2>2, FS_EmptySet
  <2>4. ~Opening(r)
    BY <1>2, <2>1 DEF Opening
  <2>5. r \notin FirstChecked => ~PageOwes(r) /\ ~Unchecked(r)
    BY <1>2, <2>1 DEF Init, PageOwes, Unchecked
  <2> QED
    BY <2>3, <2>4, <2>5
<1> QED
  BY <1>1, <1>3, <1>4, <1>5, <1>7, <1>8, <1>9 DEF Inv

LEMMA InvStep == Inv /\ [Next]_vars => Inv'
<1> SUFFICES ASSUME Inv, [Next]_vars PROVE Inv'
  OBVIOUS
<1>1. TypeOK /\ QueuesFit /\ WindowsInTime /\ NoticesEarned /\ RowsInOrder
  BY DEF Inv
<1>2. TypeOK' /\ QueuesFit' /\ WindowsInTime' /\ NoticesEarned' /\ RowsInOrder'
  BY <1>1, TypeStep, QueuesFitStep, EarnedStep, RowsInOrderStep
<1>3. ASSUME faults' = 0
      PROVE  /\ OneChecker' /\ ListedIsLast' /\ FallsPaid' /\ FirstsPaid' /\ RoomForOne'
             /\ Cardinality(FreeToday') <= DailyLimit
  <2>1. faults = 0
    BY <1>1, <1>3, FaultsGrow DEF TypeOK
  <2>2. /\ OneChecker /\ ListedIsLast /\ FallsPaid /\ FirstsPaid /\ RoomForOne
        /\ Cardinality(FreeToday) <= DailyLimit /\ faults' = faults
    BY <1>3, <2>1 DEF Inv
  <2> QED
    BY <1>1, <1>2, <2>2, LockStep, ListedStep, FallsStep, FirstsStep, LimitStep
<1> QED
  BY <1>2, <1>3 DEF Inv

LEMMA Invariance == Spec => []Inv
<1> QED
  BY InvInit, InvStep, PTL DEF Spec

(* Every variable of the monitor keeps its type, with any number of instances,
   rules, changes and faults. *)
THEOREM TypeCorrect == Spec => []TypeOK
<1>1. Inv => TypeOK
  BY DEF Inv
<1> QED
  BY <1>1, Invariance, PTL

(* Without a fault a rule on a balance threshold has at most one alert for each
   fall of the balance, and at most two, told by the request's first check and by
   one cycle, that found the balance low with nothing to compare it with; a rule
   that no request checks has none of these. *)
THEOREM NothingIsRepeated == Spec => []NoRepeatedAlert
<1>1. Inv => NoRepeatedAlert
  <2> SUFFICES ASSUME Inv, faults = 0, NEW r \in {x \in Realtime : Type[x] = "balance_threshold"}
               PROVE  /\ Alerts(LAMBDA a : a.rule = r /\ ~a.first) <= falls[r]
                      /\ Alerts(LAMBDA a : a.rule = r /\ a.first)
                           <= IF r \in FirstChecked THEN 2 ELSE 0
    BY DEF NoRepeatedAlert
  <2>1. /\ Alerts(LAMBDA a : a.rule = r /\ ~a.first) = Cardinality(Again(r))
        /\ Alerts(LAMBDA a : a.rule = r /\ a.first) = Cardinality(First(r))
    BY DEF Alerts, Again, First
  <2>2. /\ r \in Thresholds /\ TypeOK
        /\ Cardinality(Again(r)) + (IF Announcing(r) THEN 1 ELSE 0)
             + (IF Unseen(r) THEN 1 ELSE 0) <= falls[r]
    BY DEF Inv, FallsPaid, Thresholds
  <2>3. Cardinality(First(r)) + (IF PageOwes(r) THEN 1 ELSE 0)
          + (IF Unchecked(r) THEN 1 ELSE 0) + (IF Opening(r) THEN 1 ELSE 0)
          <= IF r \in FirstChecked THEN 2 ELSE 0
    BY <2>2 DEF Inv, FirstsPaid
  <2>4. Cardinality(Again(r)) \in Nat /\ Cardinality(First(r)) \in Nat /\ falls[r] \in Nat
    BY <2>2, Sets, Assumed DEF TypeOK, Thresholds
  <2>5. Cardinality(Again(r)) <= falls[r]
    BY <2>2, <2>4
  <2>6. Cardinality(First(r)) <= IF r \in FirstChecked THEN 2 ELSE 0
    BY <2>3, <2>4
  <2> QED
    BY <2>1, <2>5, <2>6
<1> QED
  BY <1>1, Invariance, PTL

(* A user of the free plan is sent no more than the daily number of alerts,
   though the count and the insertion are two statements. *)
THEOREM TheDayIsLimited == Spec => []DailyLimitKept
<1>1. Inv => DailyLimitKept
  <2> SUFFICES ASSUME Inv, faults = 0
               PROVE  Alerts(LAMBDA a : a.today /\ Kept(a) /\ a.plan = "free") <= DailyLimit
    BY DEF DailyLimitKept
  <2>1. FreeToday = {i \in DOMAIN alerts : alerts[i].today /\ Kept(alerts[i]) /\ alerts[i].plan = "free"}
    BY DEF FreeToday, Today
  <2>2. Alerts(LAMBDA a : a.today /\ Kept(a) /\ a.plan = "free") = Cardinality(FreeToday)
    BY <2>1 DEF Alerts
  <2> QED
    BY <2>2 DEF Inv
<1> QED
  BY <1>1, Invariance, PTL

(* What a stage or a combination announces was reached within one window's time,
   whatever crashes and whoever holds the lock. *)
THEOREM NoticesAreEarned == Spec => []NoticesEarned
<1>1. Inv => NoticesEarned
  BY DEF Inv
<1> QED
  BY <1>1, Invariance, PTL
=============================================================================
