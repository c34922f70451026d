------------------------- MODULE EntitlementsProofs ------------------------
(***************************************************************************)
(* Theorems about what a user may run, for any items, quotas, requests in  *)
(* progress, calls and periods.                                            *)
(***************************************************************************)
EXTENDS Entitlements, FiniteSetTheorems, SequenceTheorems, WellFoundedInduction,
        TLAPS

-----------------------------------------------------------------------------
(* The inductive invariant *)

(* A request about to commit was decided for a plan its kind is meant for: a
   watch rule is chosen on the free plan and restored on another. *)
RequestsFit ==
  \A c \in Callers :
    call[c].step = "run" =>
      /\ call[c].op = "choose" => call[c].plan = "free"
      /\ call[c].op = "restore" /\ call[c].item \in WatchRules => call[c].plan # "free"

Archives == {"user_archived", "project_archived"}
Watched  == WatchRules \cup MemberRules \cup Combos

(* Only projects and what belongs to them are archived. *)
NothingWatchedArchived == \A r \in Watched : run[r] \notin Archives

Inv == TypeOK /\ MembersFollowCombination /\ RequestsFit /\ NothingWatchedArchived

Status == {"new", "active", "gone"} \cup Paused

-----------------------------------------------------------------------------
(* Plans and items *)

LEMMA RankOf ==
  /\ Rank("free") = 1 /\ Rank("standard") = 2 /\ Rank("professional") = 3
<1>1. /\ Plans[1] = "free" /\ Plans[2] = "standard" /\ Plans[3] = "professional"
      /\ 1 .. 3 = {1, 2, 3}
  BY DEF Plans
<1> QED
  BY <1>1 DEF Rank

LEMMA PlanInForce ==
  ASSUME TypeOK
  PROVE  effectivePlanCode \in Plan
<1>1. InForce \subseteq Plan
  BY EntitlementsAssumption DEF TypeOK, InForce
<1>2. ASSUME InForce # {}
      PROVE  \E p \in InForce : \A q \in InForce : Rank(q) <= Rank(p)
  <2>1. \A p \in InForce : Rank(p) \in 1 .. 3 /\ Rank(p) \in Int
    BY <1>1, RankOf DEF Plan
  <2>2. CASE \E p \in InForce : \A q \in InForce : q = p
    BY <2>1, <2>2
  <2>3. CASE \A p \in InForce : \E q \in InForce : q # p
    <3>1. InForce \subseteq {paid.plan, PermanentPlan}
      BY DEF InForce
    <3>2. InForce = {paid.plan, PermanentPlan}
      BY <1>2, <2>3, <3>1
    <3> QED
      BY <2>1, <3>2
  <2> QED
    BY <2>2, <2>3
<1> QED
  BY <1>1, <1>2 DEF effectivePlanCode, Plan

(* What each plan covers. *)
LEMMA Covered ==
  ASSUME NEW p \in Plan
  PROVE  /\ p # "free" => \A q \in Projects : Allows(p, q)
         /\ \A d \in Combos : Allows(p, d) => \A m \in Members[d] : Allows(p, m)
         /\ \A r \in MarketRules \cup MarketCombos \cup Combos : Allows(p, r) => p # "free"
<1>1. /\ \A q \in Projects : Tier[q] = "standard"
      /\ \A r \in Combos \cup MarketCombos : Tier[r] = "professional"
      /\ \A r \in Items : Tier[r] \in Plan
      /\ \A r \in MarketRules : Tier[r] # "free"
      /\ \A d \in Combos : Members[d] \subseteq Items
  BY EntitlementsAssumption DEF Items
<1>2. \A r \in Plan : Rank(r) \in Int /\ Rank(r) <= 3 /\ Rank(r) >= 1
                     /\ (Rank(r) = 1 => r = "free") /\ (Rank(r) = 2 => r = "standard")
                     /\ (Rank(r) = 3 => r = "professional")
  BY RankOf DEF Plan
<1>3. p # "free" => \A q \in Projects : Allows(p, q)
  BY <1>1, <1>2, RankOf DEF Allows, Plan
<1>4. \A d \in Combos : Allows(p, d) => \A m \in Members[d] : Allows(p, m)
  <2> TAKE d \in Combos
  <2> HAVE Allows(p, d)
  <2> TAKE m \in Members[d]
  <2>1. Rank(p) >= 3
    BY <1>1, <1>2, RankOf DEF Allows
  <2>2. Rank(Tier[m]) <= 3 /\ Rank(Tier[m]) \in Int
    BY <1>1, <1>2
  <2> QED
    BY <1>2, <2>1, <2>2 DEF Allows
<1>5. ASSUME NEW r \in MarketRules \cup MarketCombos \cup Combos, Allows(p, r), p = "free"
      PROVE  FALSE
  <2>1. Tier[r] \in Plan /\ Tier[r] # "free"
    BY <1>1 DEF Items
  <2>2. Rank(Tier[r]) <= 1
    BY <1>5, RankOf DEF Allows
  <2> QED
    BY <1>2, <2>1, <2>2
<1> QED
  BY <1>3, <1>4, <1>5

LEMMA Kinds ==
  /\ \A d \in Combos : /\ Members[d] \subseteq MemberRules
                       /\ \A e \in Combos : e # d => Members[d] \cap Members[e] = {}
  /\ \A m \in MemberRules : \E d \in Combos : m \in Members[d]
  /\ \A r \in Items \ Combos : MembersOf(r) = {}
  /\ \A r \in Items : MembersOf(r) \subseteq Items
<1> QED
  BY EntitlementsAssumption DEF MembersOf, Items

-----------------------------------------------------------------------------
(* What starting and pausing do *)

LEMMA StartedDoes ==
  ASSUME NEW s \in [Items -> Status], NEW r \in Items
  PROVE  /\ Started(s, r) \in [Items -> Status]
         /\ \A x \in Items : Started(s, r)[x] = IF x = r \/ x \in MembersOf(r)
                                                THEN "active" ELSE s[x]
<1> QED
  BY DEF Started, Status

(* Combinations and members run together in the statuses s. *)
Together(s) ==
  \A d \in Combos : \A m \in Members[d] :
    (s[d] = "active") = (s[m] = "active") /\ Exists(s, d) = Exists(s, m)

LEMMA StartedTogether ==
  ASSUME NEW s \in [Items -> Status], NEW r \in Items \ MemberRules, Together(s)
  PROVE  Together(Started(s, r))
<1> SUFFICES ASSUME NEW d \in Combos, NEW m \in Members[d]
             PROVE  /\ (Started(s, r)[d] = "active") = (Started(s, r)[m] = "active")
                    /\ Exists(Started(s, r), d) = Exists(Started(s, r), m)
  BY DEF Together
<1>1. d \in Items /\ m \in Items /\ m \in MemberRules /\ m # r
  BY Kinds DEF Items
<1>2. CASE r = d
  <2>1. m \in MembersOf(r)
    BY <1>2 DEF MembersOf
  <2> QED
    BY <1>1, <1>2, <2>1, StartedDoes DEF Exists
<1>3. CASE r # d
  <2>1. m \notin MembersOf(r)
    BY <1>3, Kinds DEF MembersOf
  <2>2. d \notin MembersOf(r)
    BY Kinds, EntitlementsAssumption DEF MembersOf
  <2>3. Started(s, r)[d] = s[d] /\ Started(s, r)[m] = s[m]
    BY <1>1, <1>3, <2>1, <2>2, StartedDoes
  <2> QED
    BY <2>3 DEF Together, Exists
<1> QED
  BY <1>2, <1>3

(* Pausing all but a rule that is no member keeps them together. *)
LEMMA PausedDoes ==
  ASSUME NEW s \in [Items -> Status], NEW keep \in WatchRules \cup {None}, Together(s)
  PROVE  LET t == pauseExpiredUserResources(s, keep)
         IN /\ t \in [Items -> Status] /\ Together(t)
            /\ \A x \in Items : \/ t[x] = s[x]
                                \/ s[x] = "active" /\ t[x] = "subscription_expired"
<1> DEFINE t == pauseExpiredUserResources(s, keep)
<1>1. \A x \in Items : t[x] = IF s[x] = "active" /\ x # keep
                             THEN "subscription_expired" ELSE s[x]
  BY DEF pauseExpiredUserResources
<1>2. t \in [Items -> Status]
  BY <1>1 DEF pauseExpiredUserResources, Status, Paused
<1>3. \A d \in Combos : \A m \in Members[d] : d \in Items /\ m \in Items /\ d # keep /\ m # keep
  BY Kinds, EntitlementsAssumption DEF Items
<1>4. Together(t)
  BY <1>1, <1>3 DEF Together, Exists
<1> QED
  BY <1>1, <1>2, <1>4

(* A choice starts the chosen rule, and nothing else watches after it. *)
LEMMA ChosenDoes ==
  ASSUME NEW s \in [Items -> Status], NEW w \in WatchRules, Together(s)
  PROVE  LET t == setFreeWatchRule(s, w)
         IN /\ t \in [Items -> Status] /\ Together(t)
            /\ t[w] = "active"
            /\ \A x \in Items \ {w} : t[x] = s[x] \/ (x \in Watched /\ t[x] = "free_plan")
            /\ Running(t, Watched) = {w}
<1> DEFINE t == setFreeWatchRule(s, w)
<1>0. /\ w \in Items /\ w \notin Combos /\ w \notin MemberRules
      /\ \A d \in Combos : d \notin WatchRules \cup MemberRules /\ d \in Items
      /\ WatchRules \cup MemberRules \subseteq Items
  BY EntitlementsAssumption DEF Items
<1>1. /\ t[w] = "active"
      /\ \A x \in (WatchRules \cup MemberRules) \ {w} :
           t[x] = IF Exists(s, x) THEN "free_plan" ELSE s[x]
      /\ \A x \in Combos : t[x] = IF s[x] = "active" THEN "free_plan" ELSE s[x]
      /\ \A x \in Items \ Watched : t[x] = s[x]
  BY <1>0 DEF setFreeWatchRule, Watched
<1>2. t \in [Items -> Status]
  BY DEF setFreeWatchRule, Status, Paused
<1> HIDE DEF t
<1>3. Together(t)
  <2> SUFFICES ASSUME NEW d \in Combos, NEW m \in Members[d]
               PROVE  (t[d] = "active") = (t[m] = "active") /\ Exists(t, d) = Exists(t, m)
    BY DEF Together
  <2>1. m \in (WatchRules \cup MemberRules) \ {w}
    BY <1>0, Kinds
  <2>2. (s[d] = "active") = (s[m] = "active") /\ Exists(s, d) = Exists(s, m)
    BY DEF Together
  <2>3. /\ t[m] = IF Exists(s, m) THEN "free_plan" ELSE s[m]
        /\ t[d] = IF s[d] = "active" THEN "free_plan" ELSE s[d]
    BY <1>1, <2>1
  <2> QED
    BY <2>2, <2>3 DEF Exists
<1>4. \A x \in Items \ {w} : t[x] = s[x] \/ (x \in Watched /\ t[x] = "free_plan")
  BY <1>1 DEF Watched
<1>5. \A x \in Watched : t[x] = "active" <=> x = w
  BY <1>0, <1>1 DEF Watched, Exists
<1>6. Running(t, Watched) = {w}
  BY <1>0, <1>5 DEF Running, Watched
<1> QED
  BY <1>1, <1>2, <1>3, <1>4, <1>6 DEF t

-----------------------------------------------------------------------------
(* What is restored *)

(* A set of numbers up to n that has 0 and is closed under the next has all. *)
LEMMA UpTo ==
  ASSUME NEW n \in Nat, NEW Good, 0 \in Good,
         \A k \in 1..n : k - 1 \in Good => k \in Good
  PROVE  \A k \in 0..n : k \in Good
<1> DEFINE Bad == {k \in 0..n : k \notin Good}
           Below == {0..k : k \in Bad}
<1> SUFFICES ASSUME Bad # {} PROVE FALSE
  OBVIOUS
<1>1. IsWellFoundedOn(StrictSubsetOrdering(0..n), SUBSET (0..n))
  <2>1. IsFiniteSet(0..n)
    BY FS_Interval
  <2> QED
    BY <2>1, FS_FiniteSubsetsOfFinite, FS_StrictSubsetOrderingWellFounded
<1>2. Below \in SUBSET (SUBSET (0..n)) /\ Below # {}
  <2>1. \A k \in Bad : 0..k \in SUBSET (0..n)
    OBVIOUS
  <2> QED
    BY <2>1
<1>3. PICK B \in Below : \A C \in Below : <<C, B>> \notin StrictSubsetOrdering(0..n)
  BY <1>1, <1>2, WFMin
<1>4. PICK k \in Bad : B = 0..k
  BY <1>3
<1>5. k \in 1..n /\ k - 1 \in 0..n
  BY <1>4
<1>6. k - 1 \in Bad
  BY <1>4, <1>5
<1>7. <<0..(k - 1), B>> \in StrictSubsetOrdering(0..n)
  <2>1. 0..(k - 1) \subseteq 0..k /\ k \in 0..k /\ k \notin 0..(k - 1)
    BY <1>5
  <2>2. 0..(k - 1) \subseteq 0..n /\ 0..k \subseteq 0..n
    BY <1>5
  <2> QED
    BY <1>4, <2>1, <2>2 DEF StrictSubsetOrdering
<1> QED
  BY <1>3, <1>6, <1>7

(* Revive is what its recursion says: a chain of values of run, each what the
   one before is after the next item. *)
LEMMA ReviveDef ==
  ASSUME NEW s, NEW kind, NEW p
  PROVE  \E f : /\ f = [n \in 0..Len(CreationOrder) |->
                    IF n = 0 THEN s
                    ELSE IF CreationOrder[n] \in kind /\ MayRevive(f[n - 1], CreationOrder[n], p)
                         THEN Started(f[n - 1], CreationOrder[n]) ELSE f[n - 1]]
                /\ Revive(s, kind, p) = f[Len(CreationOrder)]
<1> DEFINE n0 == Len(CreationOrder)
           Next1(t, n) == IF CreationOrder[n] \in kind /\ MayRevive(t, CreationOrder[n], p)
                          THEN Started(t, CreationOrder[n]) ELSE t
           Is(g, k) == g = [n \in 0..k |-> IF n = 0 THEN s ELSE Next1(g[n - 1], n)]
           Good == {k \in 0..n0 : \E g : Is(g, k)}
<1>0. n0 \in Nat
  BY EntitlementsAssumption
<1> DEFINE G == CHOOSE g : Is(g, n0)
<1>5. Revive(s, kind, p) = G[n0]
  BY DEF Revive
<1>6. ASSUME \E g : Is(g, n0) PROVE Is(G, n0)
  BY <1>6
<1> HIDE DEF Next1
<1>1. 0 \in Good
  <2>1. Is([n \in 0..0 |-> s], 0)
    OBVIOUS
  <2>2. 0 \in 0..n0
    BY <1>0
  <2> QED
    BY <2>1, <2>2
<1>2. ASSUME NEW k \in 1..n0, k - 1 \in Good PROVE k \in Good
  <2>1. PICK g : Is(g, k - 1)
    BY <1>2
  <2> DEFINE h == [n \in 0..k |-> IF n = k THEN Next1(g[k - 1], k) ELSE g[n]]
  <2>0. k \in Nat /\ k > 0
    BY <1>0
  <2>2. \A n \in 0..(k - 1) : h[n] = g[n]
    BY <2>0
  <2>3. \A n \in 0..k : h[n] = IF n = 0 THEN s ELSE Next1(h[n - 1], n)
    <3> TAKE n \in 0..k
    <3>1. CASE n = k
      <4>1. h[n] = Next1(g[k - 1], k) /\ k - 1 \in 0..(k - 1) /\ n # 0
        BY <3>1, <2>0
      <4> QED
        BY <3>1, <2>2, <4>1
    <3>2. CASE n # k
      <4>1. n \in 0..(k - 1) /\ (n = 0 \/ n - 1 \in 0..(k - 1))
        BY <3>2, <2>0
      <4> HIDE DEF h
      <4> QED
        BY <4>1, <2>1, <2>2
    <3> QED
      BY <3>1, <3>2
  <2>4. h = [n \in 0..k |-> h[n]]
    OBVIOUS
  <2> HIDE DEF h
  <2>5. Is(h, k)
    BY <2>3, <2>4
  <2> QED
    BY <2>5
<1>3. \E g : Is(g, n0)
  <2> HIDE DEF Good
  <2>1. \A k \in 1..n0 : k - 1 \in Good => k \in Good
    BY <1>2
  <2>2. \A k \in 0..n0 : k \in Good
    BY <1>0, <1>1, <2>1, UpTo
  <2>3. n0 \in Good
    BY <1>0, <2>2
  <2> QED
    BY <2>3 DEF Good
<1>4. Is(G, n0)
  BY <1>3, <1>6
<1> HIDE DEF G
<1> QED
  BY <1>4, <1>5 DEF Next1

(* From s to t items start that plan p covers, within its quotas. *)
Grown(s, t, p) ==
  /\ t \in [Items -> Status] /\ Together(t)
  /\ \A x \in Items : t[x] = s[x] \/ (t[x] = "active" /\ Allows(p, x))
  /\ \/ Running(t, Projects) = Running(s, Projects)
     \/ Cardinality(Running(t, Projects)) <= ProjectLimit[p]
  /\ \/ Running(t, Items \ Projects) = Running(s, Items \ Projects)
     \/ Cardinality(Running(t, Items \ Projects)) <= RuleLimit[p]

LEMMA GrownOn ==
  ASSUME NEW s, NEW t, NEW u, NEW p, Grown(s, t, p), Grown(t, u, p)
  PROVE  Grown(s, u, p)
<1>1. \A x \in Items : u[x] = s[x] \/ (u[x] = "active" /\ Allows(p, x))
  BY DEF Grown
<1> QED
  BY <1>1 DEF Grown

LEMMA Finite ==
  /\ \A S \in SUBSET Items : IsFiniteSet(S) /\ Cardinality(S) \in Nat
  /\ \A S, T \in SUBSET Items :
       /\ Cardinality(S \cup T) <= Cardinality(S) + Cardinality(T)
       /\ S \subseteq T => Cardinality(S) <= Cardinality(T)
  /\ \A r \in Items : Cardinality({r}) = 1
<1>1. \A S \in SUBSET Items : IsFiniteSet(S) /\ Cardinality(S) \in Nat
  BY EntitlementsAssumption, FS_Subset, FS_CardinalityType
<1>2. ASSUME NEW S \in SUBSET Items, NEW T \in SUBSET Items
      PROVE  /\ Cardinality(S \cup T) <= Cardinality(S) + Cardinality(T)
             /\ S \subseteq T => Cardinality(S) <= Cardinality(T)
  <2>1. Cardinality(S \cup T) = Cardinality(S) + Cardinality(T) - Cardinality(S \cap T)
    BY <1>1, FS_Union
  <2>2. Cardinality(S \cap T) \in Nat
    BY <1>1
  <2> QED
    BY <1>1, <2>1, <2>2, FS_Subset
<1>3. \A r \in Items : Cardinality({r}) = 1
  BY FS_Singleton
<1> QED
  BY <1>1, <1>2, <1>3

(* An item that fits. *)
LEMMA StartGrows ==
  ASSUME NEW s \in [Items -> Status], Together(s), NEW r \in Items \ MemberRules,
         NEW p \in Plan, Allows(p, r),
         r \in Projects => Cardinality(Running(s, Projects \ {r})) < ProjectLimit[p],
         r \notin Projects => FitsSlots(s, r, p)
  PROVE  /\ Grown(s, Started(s, r), p)
         /\ \A x \in Items : x # r /\ x \notin MembersOf(r) => Started(s, r)[x] = s[x]
<1> DEFINE t == Started(s, r)
<1>1. /\ t \in [Items -> Status] /\ Together(t)
      /\ \A x \in Items : t[x] = IF x = r \/ x \in MembersOf(r) THEN "active" ELSE s[x]
  BY StartedDoes, StartedTogether
<1> HIDE DEF t
<1>2. \A x \in MembersOf(r) : Allows(p, x) /\ x \in Items \ Projects
  BY Covered, Kinds, EntitlementsAssumption DEF MembersOf, Items
<1>3. \A x \in Items : t[x] = s[x] \/ (t[x] = "active" /\ Allows(p, x))
  BY <1>1, <1>2
<1>4. /\ ProjectLimit[p] \in Nat /\ RuleLimit[p] \in Nat
      /\ Projects \subseteq Items
      /\ MembersOf(r) \subseteq Items
  BY EntitlementsAssumption, Kinds DEF Items
<1>5. CASE r \in Projects
  <2>1. Running(t, Projects) \subseteq Running(s, Projects \ {r}) \cup {r}
    BY <1>1, <1>2, <1>4 DEF Running
  <2>2. /\ Running(t, Projects) \in SUBSET Items /\ {r} \in SUBSET Items
        /\ Running(s, Projects \ {r}) \in SUBSET Items
        /\ Running(s, Projects \ {r}) \cup {r} \in SUBSET Items
    BY <1>4 DEF Running
  <2> DEFINE A == Running(s, Projects \ {r})
             B == Running(t, Projects)
  <2>3. /\ Cardinality(A) < ProjectLimit[p] /\ Cardinality({r}) = 1
        /\ Cardinality(A) \in Nat /\ Cardinality(B) \in Nat
        /\ Cardinality(A \cup {r}) \in Nat
    BY <1>5, <2>2, Finite
  <2>4. Cardinality(B) <= Cardinality(A \cup {r})
    BY <2>1, <2>2, Finite
  <2>5. Cardinality(A \cup {r}) <= Cardinality(A) + Cardinality({r})
    BY <2>2, Finite
  <2> HIDE DEF A, B
  <2>6. Cardinality(B) <= ProjectLimit[p]
    BY <1>4, <2>3, <2>4, <2>5
  <2>7. Running(t, Items \ Projects) = Running(s, Items \ Projects)
    <3>1. MembersOf(r) = {}
      BY <1>5, EntitlementsAssumption DEF MembersOf
    <3> QED
      BY <1>1, <1>5, <3>1 DEF Running
  <2> QED
    BY <1>1, <1>3, <2>6, <2>7 DEF Grown, B, t
<1>6. CASE r \notin Projects
  <2>1. Running(t, Items \ Projects)
          \subseteq Running(s, Items \ Projects) \cup ({r} \cup MembersOf(r))
    BY <1>1 DEF Running
  <2> DEFINE A == Running(s, Items \ Projects)
             B == Running(t, Items \ Projects)
             M == MembersOf(r)
  <2>2. /\ A \in SUBSET Items /\ B \in SUBSET Items /\ M \in SUBSET Items
        /\ {r} \in SUBSET Items /\ {r} \cup M \in SUBSET Items
        /\ A \cup ({r} \cup M) \in SUBSET Items
    BY <1>4 DEF Running
  <2>3. Cardinality(A) + (1 + Cardinality(M)) <= RuleLimit[p]
    BY <1>6 DEF FitsSlots, countActiveRuleSlots, SlotCost
  <2>4. B \subseteq A \cup ({r} \cup M)
    BY <2>1
  <2>8. Running(t, Projects) = Running(s, Projects)
    BY <1>1, <1>2, <1>4, <1>6 DEF Running
  <2> HIDE DEF A, B, M
  <2>5. /\ Cardinality(B) <= Cardinality(A \cup ({r} \cup M))
        /\ Cardinality(A \cup ({r} \cup M)) <= Cardinality(A) + Cardinality({r} \cup M)
        /\ Cardinality({r} \cup M) <= Cardinality({r}) + Cardinality(M)
    BY <2>2, <2>4, Finite
  <2>6. /\ Cardinality({r}) = 1 /\ Cardinality(A) \in Nat /\ Cardinality(B) \in Nat
        /\ Cardinality(M) \in Nat /\ Cardinality({r} \cup M) \in Nat
        /\ Cardinality(A \cup ({r} \cup M)) \in Nat
    BY <2>2, Finite
  <2>7. Cardinality(B) <= RuleLimit[p]
    BY <1>4, <2>3, <2>5, <2>6
  <2> QED
    BY <1>1, <1>3, <2>7, <2>8 DEF Grown, B, t
<1>7. \A x \in Items : x # r /\ x \notin MembersOf(r) => t[x] = s[x]
  BY <1>1
<1> QED
  BY <1>5, <1>6, <1>7 DEF t

(* Whatever kind is restored, what the user stopped stays as it is. *)
Spared(s, t) == \A x \in Items : s[x] \in Archives => t[x] = s[x]

LEMMA ReviveOne ==
  ASSUME NEW s \in [Items -> Status], Together(s), NEW p \in Plan \ {"free"},
         \A x \in Watched : s[x] \notin Archives,
         NEW r \in Items, MayRevive(s, r, p)
  PROVE  LET t == Started(s, r)
         IN Grown(s, t, p) /\ Spared(s, t) /\ \A x \in Watched : t[x] \notin Archives
<1>1. /\ r \notin MemberRules
      /\ r \in Projects \/ r \in WatchRules \/ r \in Combos \/ r \in MarketRules \/ r \in MarketCombos
      /\ s[r] \notin Archives
  BY EntitlementsAssumption
     DEF MayRevive, ReviveProject, ReviveWatchRule, ReviveCombination, ReviveMarketRule,
         ReviveMarketCombination, ByExpiry, Archives
<1>2. r \in Projects => Cardinality(Running(s, Projects \ {r})) < ProjectLimit[p]
  <2> HAVE r \in Projects
  <2>1. Cardinality(Running(s, Projects)) < ProjectLimit[p]
    BY EntitlementsAssumption
       DEF MayRevive, ReviveProject, ReviveWatchRule, ReviveCombination, ReviveMarketRule,
           ReviveMarketCombination
  <2>2. /\ Running(s, Projects \ {r}) \in SUBSET Items /\ Running(s, Projects) \in SUBSET Items
        /\ Running(s, Projects \ {r}) \subseteq Running(s, Projects)
        /\ ProjectLimit[p] \in Nat
    BY EntitlementsAssumption DEF Running, Items
  <2>3. /\ Cardinality(Running(s, Projects \ {r})) <= Cardinality(Running(s, Projects))
        /\ Cardinality(Running(s, Projects \ {r})) \in Nat
        /\ Cardinality(Running(s, Projects)) \in Nat
    BY <2>2, Finite
  <2> QED
    BY <2>1, <2>2, <2>3
<1>3. r \notin Projects => FitsSlots(s, r, p)
  BY DEF MayRevive, ReviveProject, ReviveWatchRule, ReviveCombination, ReviveMarketRule,
         ReviveMarketCombination, FitsWatchRule, requireRestoredCombinationQuota,
         FitsMarketRule
<1>4. Allows(p, r)
  BY Covered DEF MayRevive, ReviveProject, ReviveWatchRule, ReviveCombination, ReviveMarketRule,
         ReviveMarketCombination, FitsWatchRule, FitsMarketRule
<1>5. /\ Grown(s, Started(s, r), p)
      /\ \A x \in Items : x # r /\ x \notin MembersOf(r) => Started(s, r)[x] = s[x]
  BY <1>1, <1>2, <1>3, <1>4, StartGrows
<1>6. \A x \in MembersOf(r) : s[x] \notin Archives
  BY Kinds DEF MembersOf, Watched
<1>7. \A x \in Items : Started(s, r)[x] \in Archives => s[x] = Started(s, r)[x]
  BY <1>5 DEF Grown, Archives
<1>8. Watched \subseteq Items
  BY DEF Watched, Items
<1> QED
  BY <1>1, <1>5, <1>6, <1>7, <1>8 DEF Spared

(* What a restoration may make of the statuses s. *)
Restored(s, t, p) ==
  Grown(s, t, p) /\ Spared(s, t) /\ \A x \in Watched : t[x] \notin Archives

LEMMA RestoredOn ==
  ASSUME NEW s, NEW t, NEW u, NEW p, Restored(s, t, p), Restored(t, u, p)
  PROVE  Restored(s, u, p)
<1>1. Grown(s, u, p)
  BY GrownOn DEF Restored
<1>2. Spared(s, u)
  BY DEF Restored, Spared
<1> QED
  BY <1>1, <1>2 DEF Restored

LEMMA ReviveDoes ==
  ASSUME NEW s \in [Items -> Status], Together(s), NEW p \in Plan \ {"free"}, NEW kind,
         \A x \in Watched : s[x] \notin Archives
  PROVE  Restored(s, Revive(s, kind, p), p)
<1>1. PICK f : /\ f = [n \in 0..Len(CreationOrder) |->
                    IF n = 0 THEN s
                    ELSE IF CreationOrder[n] \in kind /\ MayRevive(f[n - 1], CreationOrder[n], p)
                         THEN Started(f[n - 1], CreationOrder[n]) ELSE f[n - 1]]
               /\ Revive(s, kind, p) = f[Len(CreationOrder)]
  BY ReviveDef
<1> DEFINE n0 == Len(CreationOrder)
           Good == {n \in 0..n0 : Restored(s, f[n], p)}
<1>0. n0 \in Nat /\ DOMAIN CreationOrder = 1..n0 /\ \A n \in 1..n0 : CreationOrder[n] \in Items
  BY EntitlementsAssumption
<1>2. /\ f[0] = s
      /\ \A n \in 1..n0 :
           f[n] = IF CreationOrder[n] \in kind /\ MayRevive(f[n - 1], CreationOrder[n], p)
                  THEN Started(f[n - 1], CreationOrder[n]) ELSE f[n - 1]
  <2>1. \A n \in 0..n0 :
           f[n] = IF n = 0 THEN s
                  ELSE IF CreationOrder[n] \in kind /\ MayRevive(f[n - 1], CreationOrder[n], p)
                       THEN Started(f[n - 1], CreationOrder[n]) ELSE f[n - 1]
    BY <1>1
  <2> QED
    BY <1>0, <2>1
<1>3. 0 \in Good
  BY <1>0, <1>2 DEF Restored, Grown, Spared
<1>4. ASSUME NEW n \in 1..n0, n - 1 \in Good PROVE n \in Good
  <2> DEFINE t == f[n - 1]
             r == CreationOrder[n]
  <2>1. Restored(s, t, p) /\ n \in 0..n0 /\ r \in Items
    BY <1>0, <1>4
  <2>2. t \in [Items -> Status] /\ Together(t) /\ \A x \in Watched : t[x] \notin Archives
    BY <2>1 DEF Restored, Grown
  <2>3. f[n] = t \/ (MayRevive(t, r, p) /\ f[n] = Started(t, r))
    BY <1>2
  <2> HIDE DEF t, r
  <2>4. CASE f[n] = t
    BY <2>1, <2>4
  <2>5. CASE MayRevive(t, r, p) /\ f[n] = Started(t, r)
    <3>1. Restored(t, Started(t, r), p)
      BY <2>1, <2>2, <2>5, ReviveOne DEF Restored
    <3>2. Restored(s, Started(t, r), p)
      BY <2>1, <3>1, RestoredOn
    <3> QED
      BY <2>1, <2>5, <3>2
  <2> QED
    BY <2>3, <2>4, <2>5
<1>5. n0 \in Good
  <2> HIDE DEF Good
  <2>1. \A k \in 1..n0 : k - 1 \in Good => k \in Good
    BY <1>4
  <2>2. \A k \in 0..n0 : k \in Good
    BY <1>0, <1>3, <2>1, UpTo
  <2> QED
    BY <1>0, <2>2
<1> QED
  BY <1>1, <1>5

LEMMA ReconcileDoes ==
  ASSUME NEW s \in [Items -> Status], Together(s), NEW p \in Plan,
         \A x \in Watched : s[x] \notin Archives
  PROVE  Restored(s, ReconcileUserEntitlements(s, p), p)
<1>1. CASE p = "free"
  BY <1>1 DEF ReconcileUserEntitlements, Restored, Grown, Spared
<1>2. CASE p # "free"
  <2> DEFINE s1 == Revive(s, Projects, p)
             s2 == Revive(s1, WatchRules, p)
             s3 == Revive(s2, Combos, p)
             s4 == Revive(s3, MarketRules, p)
             s5 == Revive(s4, MarketCombos, p)
  <2>1. ReconcileUserEntitlements(s, p) = s5
    BY <1>2 DEF ReconcileUserEntitlements
  <2>2. p \in Plan \ {"free"}
    BY <1>2
  <2>3. ASSUME NEW t, Restored(s, t, p), NEW kind PROVE Restored(s, Revive(t, kind, p), p)
    <3>1. t \in [Items -> Status] /\ Together(t) /\ \A x \in Watched : t[x] \notin Archives
      BY <2>3 DEF Restored, Grown
    <3>2. Restored(t, Revive(t, kind, p), p)
      BY <2>2, <3>1, ReviveDoes
    <3> QED
      BY <2>3, <3>2, RestoredOn
  <2>4. Restored(s, s, p)
    BY DEF Restored, Grown, Spared
  <2>5. Restored(s, s1, p)
    BY <2>3, <2>4
  <2> HIDE DEF s1
  <2>6. Restored(s, s2, p)
    BY <2>3, <2>5
  <2> HIDE DEF s2
  <2>7. Restored(s, s3, p)
    BY <2>3, <2>6
  <2> HIDE DEF s3
  <2>8. Restored(s, s4, p)
    BY <2>3, <2>7
  <2> HIDE DEF s4
  <2>9. Restored(s, s5, p)
    BY <2>3, <2>8
  <2> QED
    BY <2>1, <2>9
<1> QED
  BY <1>1, <1>2

-----------------------------------------------------------------------------
(* What a step does to what the user has running *)

RunSound ==
  /\ run' \in [Items -> Status] /\ Together(run')
  /\ \A x \in Watched : run'[x] \notin Archives
  /\ StartsFit
  /\ \A x \in Items : run[x] \in Archives /\ run'[x] = "active"
       => \E c \in Callers : call[c].op = "restore" /\ call[c].item = x

LEMMA InvFacts ==
  ASSUME Inv
  PROVE  /\ run \in [Items -> Status] /\ Together(run)
         /\ \A x \in Watched : run[x] \notin Archives
         /\ effectivePlanCode \in Plan
         /\ freeRule \in WatchRules \cup {None}
<1> QED
  BY PlanInForce DEF Inv, TypeOK, Status, MembersFollowCombination, Together,
                     NothingWatchedArchived

(* A step that starts nothing. *)
LEMMA QuietSound ==
  ASSUME run' \in [Items -> Status], Together(run'),
         \A x \in Watched : run'[x] \notin Archives,
         \A x \in Items : run'[x] = "active" => run[x] = "active"
  PROVE  RunSound
<1>1. Running(run', Items) \ Running(run, Items) = {}
  BY DEF Running
<1>2. StartsFit
  BY <1>1 DEF StartsFit
<1> QED
  BY <1>2 DEF RunSound, Archives

LEMMA GrownFits ==
  ASSUME Grown(run, run', effectivePlanCode), effectivePlanCode # "free"
  PROVE  StartsFit
<1> DEFINE started == Running(run', Items) \ Running(run, Items)
           p == effectivePlanCode
<1>1. \A r \in started : Allows(p, r)
  BY DEF Grown, Running
<1>2. Cardinality(Running(run', Projects)) <= ProjectLimit[p] \/ started \cap Projects = {}
  BY DEF Grown, Running
<1>3. Cardinality(Running(run', Items \ Projects)) <= RuleLimit[p] \/ started \subseteq Projects
  BY DEF Grown, Running
<1> QED
  BY <1>1, <1>2, <1>3 DEF StartsFit

(* An item that fits the plan in force, which is not the free one, is started. *)
LEMMA StartSound ==
  ASSUME Inv, NEW r \in Items \ MemberRules, effectivePlanCode # "free",
         Allows(effectivePlanCode, r),
         r \in Projects =>
           Cardinality(Running(run, Projects \ {r})) < ProjectLimit[effectivePlanCode],
         r \notin Projects => FitsSlots(run, r, effectivePlanCode),
         run[r] \in Archives
           => \E c \in Callers : call[c].op = "restore" /\ call[c].item = r,
         run' = Started(run, r)
  PROVE  RunSound
<1> DEFINE p == effectivePlanCode
<1>1. /\ run \in [Items -> Status] /\ Together(run) /\ p \in Plan
      /\ \A x \in Watched : run[x] \notin Archives
  BY InvFacts
<1>2. /\ Grown(run, run', p)
      /\ \A x \in Items : x # r /\ x \notin MembersOf(r) => run'[x] = run[x]
  BY <1>1, StartGrows
<1>3. StartsFit
  BY <1>2, GrownFits
<1>4. \A x \in Items : run[x] \in Archives /\ run'[x] = "active"
        => \E c \in Callers : call[c].op = "restore" /\ call[c].item = x
  <2> TAKE x \in Items
  <2> HAVE run[x] \in Archives /\ run'[x] = "active"
  <2>1. x \notin MembersOf(r)
    BY <1>1, Kinds DEF MembersOf, Watched
  <2>2. x = r
    BY <1>2, <2>1 DEF Archives
  <2> QED
    BY <2>2
<1>5. \A x \in Watched : run'[x] \notin Archives
  BY <1>1, <1>2 DEF Grown, Archives, Watched, Items
<1> QED
  BY <1>2, <1>3, <1>4, <1>5 DEF RunSound, Grown

(* A rule is chosen, on the free plan. *)
LEMMA ChoiceSound ==
  ASSUME Inv, NEW w \in WatchRules, effectivePlanCode = "free",
         Allows("free", w), NEW s \in [Items -> Status], Together(s),
         \A x \in Items \ {w} : s[x] = run[x],
         run' = setFreeWatchRule(s, w)
  PROVE  RunSound
<1>1. /\ run \in [Items -> Status] /\ Together(run)
      /\ \A x \in Watched : run[x] \notin Archives
      /\ w \in Watched /\ w \in Items /\ Watched \subseteq Items
      /\ Watched = WatchRules \cup MemberRules \cup Combos
      /\ Watched \cap Projects = {}
  BY InvFacts, EntitlementsAssumption DEF Watched, Items
<1>2. /\ run' \in [Items -> Status] /\ Together(run')
      /\ run'[w] = "active"
      /\ \A x \in Items \ {w} : run'[x] = s[x] \/ (x \in Watched /\ run'[x] = "free_plan")
      /\ Running(run', Watched) = {w}
  BY ChosenDoes
<1>3. \A x \in Items \ {w} : run'[x] = run[x] \/ (x \in Watched /\ run'[x] = "free_plan")
  BY <1>2
<1>4. Running(run', Items) \ Running(run, Items) \subseteq {w}
  BY <1>3 DEF Running
<1>5. Running(run', WatchRules \cup MemberRules \cup Combos) = {w}
  BY <1>1, <1>2
<1>6. StartsFit
  BY <1>1, <1>4, <1>5 DEF StartsFit
<1>7. \A x \in Watched : run'[x] \notin Archives
  BY <1>1, <1>2, <1>3 DEF Archives
<1>8. \A x \in Items : run[x] \in Archives /\ run'[x] = "active" => FALSE
  BY <1>1, <1>3 DEF Archives
<1> QED
  BY <1>2, <1>6, <1>7, <1>8 DEF RunSound

(* The transactions of requests. *)
LEMMA CreateFacts ==
  ASSUME Inv, NEW c \in Callers, NEW kind, Creates(c, kind), kind \subseteq Items
  PROVE  /\ call[c].item \in kind /\ call[c].plan = effectivePlanCode
         /\ run[call[c].item] \notin Archives /\ run[call[c].item] # "active"
         /\ call[c].op = "create"
<1> QED
  BY DEF Creates, Commits, Ready, requirePolicyPlan, Archives

LEMMA RestoreFacts ==
  ASSUME Inv, NEW c \in Callers, NEW kind, Restores(c, kind), kind \subseteq Items
  PROVE  /\ call[c].item \in kind /\ call[c].plan = effectivePlanCode
         /\ call[c].op = "restore" /\ call[c].step = "run"
         /\ run' = Started(run, call[c].item) /\ freeRule' = freeRule
<1> QED
  BY DEF Restores, Commits, Ready, requirePolicyPlan, Start

LEMMA ProjectFits ==
  ASSUME Inv, NEW q \in Projects, NEW p \in Plan, FitsProject(run, q, p)
  PROVE  /\ Cardinality(Running(run, Projects \ {q})) < ProjectLimit[p]
         /\ p # "free" /\ Allows(p, q)
<1> DEFINE A == Running(run, Projects \ {q})
           B == {r \in Projects \ {q} : Exists(run, r) /\ run[r] # "user_archived"}
<1>1. A \subseteq B
  BY DEF Running, Exists
<1>2. A \in SUBSET Items /\ B \in SUBSET Items
  BY DEF Running, Items
<1>3. Cardinality(A) <= Cardinality(B) /\ Cardinality(A) \in Nat /\ Cardinality(B) \in Nat
  BY <1>1, <1>2, Finite
<1>4. Cardinality(B) < ProjectLimit[p]
  BY DEF FitsProject
<1>5. ProjectLimit[p] \in Nat /\ ProjectLimit["free"] = 0
  BY EntitlementsAssumption
<1> HIDE DEF A, B
<1>6. Cardinality(A) < ProjectLimit[p] /\ p # "free"
  BY <1>3, <1>4, <1>5
<1> QED
  BY <1>6, Covered DEF A

LEMMA CommitSound ==
  ASSUME Inv, NEW c \in Callers, Commit(c)
  PROVE  /\ RunSound
         /\ freeRule' \in WatchRules \cup {None}
<1> DEFINE r == call[c].item
           p == effectivePlanCode
<1>0. /\ WatchRules \subseteq Items \ MemberRules /\ Combos \subseteq Items \ MemberRules
      /\ Projects \subseteq Items \ MemberRules /\ MarketRules \subseteq Items \ MemberRules
      /\ MarketCombos \subseteq Items \ MemberRules
      /\ (WatchRules \cup Combos \cup MarketRules \cup MarketCombos) \cap Projects = {}
  BY EntitlementsAssumption DEF Items
<1>1. /\ run \in [Items -> Status] /\ Together(run) /\ p \in Plan
      /\ freeRule \in WatchRules \cup {None}
  BY InvFacts
<1>2. CASE CreateWatchRuleWithinQuota(c)
  <2>1. /\ Creates(c, WatchRules) /\ FitsWatchRule(run, r, call[c].plan)
        /\ IF call[c].plan = "free"
           THEN run' = setFreeWatchRule(Started(run, r), r) /\ freeRule' = r
           ELSE Start(r) /\ UNCHANGED freeRule
    BY <1>2 DEF CreateWatchRuleWithinQuota
  <2>2. /\ r \in WatchRules /\ call[c].plan = p
        /\ run[r] \notin Archives /\ run[r] # "active" /\ call[c].op = "create"
        /\ r \in Items \ MemberRules /\ r \notin Projects
    BY <1>0, <2>1, CreateFacts
  <2>3. Allows(p, r) /\ FitsSlots(run, r, p)
    BY <2>1, <2>2 DEF FitsWatchRule
  <2>4. CASE p = "free"
    <3> DEFINE s == Started(run, r)
    <3>1. s \in [Items -> Status] /\ Together(s)
      BY <1>1, <2>2, StartedDoes, StartedTogether
    <3>2. MembersOf(r) = {}
      BY <2>2, EntitlementsAssumption DEF MembersOf
    <3>3. \A x \in Items \ {r} : s[x] = run[x]
      BY <1>1, <2>2, <3>2, StartedDoes
    <3>4. run' = setFreeWatchRule(s, r) /\ freeRule' = r
      BY <2>1, <2>2, <2>4
    <3> HIDE DEF s
    <3>5. RunSound
      BY <2>2, <2>3, <2>4, <3>1, <3>3, <3>4, ChoiceSound
    <3> QED
      BY <2>2, <3>4, <3>5
  <2>5. CASE p # "free"
    <3>1. run' = Started(run, r) /\ freeRule' = freeRule
      BY <2>1, <2>2, <2>5 DEF Start
    <3>2. RunSound
      BY <2>2, <2>3, <2>5, <3>1, StartSound
    <3> QED
      BY <1>1, <3>1, <3>2
  <2> QED
    BY <2>4, <2>5
<1>3. CASE CreateCombinationRuleWithinQuota(c)
  <2>1. /\ Creates(c, Combos) /\ Allows(call[c].plan, r) /\ FitsSlots(run, r, call[c].plan)
        /\ Start(r) /\ UNCHANGED freeRule
    BY <1>3 DEF CreateCombinationRuleWithinQuota
  <2>2. /\ r \in Combos /\ call[c].plan = p /\ run[r] \notin Archives
        /\ r \in Items \ MemberRules /\ r \notin Projects
    BY <1>0, <2>1, CreateFacts
  <2>3. p # "free"
    BY <1>1, <2>1, <2>2, Covered
  <2> QED
    BY <1>1, <2>1, <2>2, <2>3, StartSound DEF Start
<1>4. CASE CreateMarketProjectWithinQuota(c)
  <2>1. /\ Creates(c, Projects) /\ FitsProject(run, r, call[c].plan)
        /\ Start(r) /\ UNCHANGED freeRule
    BY <1>4 DEF CreateMarketProjectWithinQuota
  <2>2. /\ r \in Projects /\ call[c].plan = p /\ run[r] \notin Archives
        /\ r \in Items \ MemberRules
    BY <1>0, <2>1, CreateFacts
  <2>3. /\ Cardinality(Running(run, Projects \ {r})) < ProjectLimit[p]
        /\ p # "free" /\ Allows(p, r)
    BY <1>1, <2>1, <2>2, ProjectFits
  <2> QED
    BY <1>1, <2>1, <2>2, <2>3, StartSound DEF Start
<1>5. CASE CreateMarketRuleWithinQuota(c)
  <2>1. /\ Creates(c, MarketRules) /\ FitsMarketRule(run, r, call[c].plan)
        /\ Start(r) /\ UNCHANGED freeRule
    BY <1>5 DEF CreateMarketRuleWithinQuota
  <2>2. /\ r \in MarketRules /\ call[c].plan = p /\ run[r] \notin Archives
        /\ r \in Items \ MemberRules /\ r \notin Projects
    BY <1>0, <2>1, CreateFacts
  <2>3. Allows(p, r) /\ FitsSlots(run, r, p) /\ p # "free"
    BY <1>1, <2>1, <2>2, Covered DEF FitsMarketRule
  <2> QED
    BY <1>1, <2>1, <2>2, <2>3, StartSound DEF Start
<1>6. CASE CreateMarketCombinationWithinQuota(c)
  <2>1. /\ Creates(c, MarketCombos) /\ FitsMarketCombination(run, r, call[c].plan)
        /\ Start(r) /\ UNCHANGED freeRule
    BY <1>6 DEF CreateMarketCombinationWithinQuota
  <2>2. /\ r \in MarketCombos /\ call[c].plan = p /\ run[r] \notin Archives
        /\ r \in Items \ MemberRules /\ r \notin Projects
    BY <1>0, <2>1, CreateFacts
  <2>3. Allows(p, r) /\ FitsSlots(run, r, p) /\ p # "free"
    BY <1>1, <2>1, <2>2, Covered DEF FitsMarketCombination
  <2> QED
    BY <1>1, <2>1, <2>2, <2>3, StartSound DEF Start
<1>7. CASE RestoreWatchRuleWithinQuota(c)
  <2>1. Restores(c, WatchRules) /\ FitsWatchRule(run, r, call[c].plan)
    BY <1>7 DEF RestoreWatchRuleWithinQuota
  <2>2. /\ r \in WatchRules /\ call[c].plan = p /\ call[c].op = "restore"
        /\ call[c].step = "run" /\ run' = Started(run, r) /\ freeRule' = freeRule
        /\ r \in Items \ MemberRules /\ r \notin Projects
    BY <1>0, <2>1, RestoreFacts
  <2>3. p # "free"
    BY <2>2 DEF Inv, RequestsFit
  <2>4. Allows(p, r) /\ FitsSlots(run, r, p)
    BY <2>1, <2>2 DEF FitsWatchRule
  <2> QED
    BY <1>1, <2>2, <2>3, <2>4, StartSound
<1>8. CASE RestoreCombinationRuleWithinQuota(c)
  <2>1. /\ Restores(c, Combos) /\ Allows(call[c].plan, r)
        /\ requireRestoredCombinationQuota(run, r, call[c].plan)
    BY <1>8 DEF RestoreCombinationRuleWithinQuota
  <2>2. /\ r \in Combos /\ call[c].plan = p /\ call[c].op = "restore"
        /\ run' = Started(run, r) /\ freeRule' = freeRule
        /\ r \in Items \ MemberRules /\ r \notin Projects
    BY <1>0, <2>1, RestoreFacts
  <2>3. Allows(p, r) /\ FitsSlots(run, r, p) /\ p # "free"
    BY <1>1, <2>1, <2>2, Covered DEF requireRestoredCombinationQuota
  <2> QED
    BY <1>1, <2>2, <2>3, StartSound
<1>9. CASE RestoreMarketProjectWithinQuota(c)
  <2>1. Restores(c, Projects) /\ FitsProject(run, r, call[c].plan)
    BY <1>9 DEF RestoreMarketProjectWithinQuota
  <2>2. /\ r \in Projects /\ call[c].plan = p /\ call[c].op = "restore"
        /\ run' = Started(run, r) /\ freeRule' = freeRule /\ r \in Items \ MemberRules
    BY <1>0, <2>1, RestoreFacts
  <2>3. /\ Cardinality(Running(run, Projects \ {r})) < ProjectLimit[p]
        /\ p # "free" /\ Allows(p, r)
    BY <1>1, <2>1, <2>2, ProjectFits
  <2> QED
    BY <1>1, <2>2, <2>3, StartSound
<1>10. CASE RestoreMarketRuleWithinQuota(c)
  <2>1. Restores(c, MarketRules) /\ FitsMarketRule(run, r, call[c].plan)
    BY <1>10 DEF RestoreMarketRuleWithinQuota
  <2>2. /\ r \in MarketRules /\ call[c].plan = p /\ call[c].op = "restore"
        /\ run' = Started(run, r) /\ freeRule' = freeRule
        /\ r \in Items \ MemberRules /\ r \notin Projects
    BY <1>0, <2>1, RestoreFacts
  <2>3. Allows(p, r) /\ FitsSlots(run, r, p) /\ p # "free"
    BY <1>1, <2>1, <2>2, Covered DEF FitsMarketRule
  <2> QED
    BY <1>1, <2>2, <2>3, StartSound
<1>11. CASE RestoreMarketCombinationWithinQuota(c)
  <2>1. Restores(c, MarketCombos) /\ FitsMarketCombination(run, r, call[c].plan)
    BY <1>11 DEF RestoreMarketCombinationWithinQuota
  <2>2. /\ r \in MarketCombos /\ call[c].plan = p /\ call[c].op = "restore"
        /\ run' = Started(run, r) /\ freeRule' = freeRule
        /\ r \in Items \ MemberRules /\ r \notin Projects
    BY <1>0, <2>1, RestoreFacts
  <2>3. Allows(p, r) /\ FitsSlots(run, r, p) /\ p # "free"
    BY <1>1, <2>1, <2>2, Covered DEF FitsMarketCombination
  <2> QED
    BY <1>1, <2>2, <2>3, StartSound
<1>12. CASE SetFreeWatchRule(c)
  <2>1. /\ r \in WatchRules /\ Tier[r] = "free" /\ call[c].op = "choose"
        /\ call[c].step = "run" /\ call[c].plan = p
        /\ run' = setFreeWatchRule(run, r) /\ freeRule' = r
    BY <1>12 DEF SetFreeWatchRule, Commits, Ready, requirePolicyPlan
  <2>2. p = "free"
    BY <2>1 DEF Inv, RequestsFit
  <2>3. Allows("free", r)
    BY <2>1, RankOf DEF Allows
  <2> QED
    BY <1>1, <2>1, <2>2, <2>3, ChoiceSound
<1> QED
  BY <1>2, <1>3, <1>4, <1>5, <1>6, <1>7, <1>8, <1>9, <1>10, <1>11, <1>12 DEF Commit

LEMMA ReconcileSound ==
  ASSUME Inv, NEW c \in Callers, ReconcileActivePlan(c)
  PROVE  RunSound
<1> DEFINE p == effectivePlanCode
<1>1. /\ run \in [Items -> Status] /\ Together(run) /\ p \in Plan
      /\ \A x \in Watched : run[x] \notin Archives
  BY InvFacts
<1>2. run' = ReconcileUserEntitlements(run, p)
  BY DEF ReconcileActivePlan, Commits, requirePolicyPlan
<1>3. Restored(run, run', p)
  BY <1>1, <1>2, ReconcileDoes
<1>4. StartsFit
  <2>1. CASE p = "free"
    <3>1. run' = run
      BY <1>2, <2>1 DEF ReconcileUserEntitlements
    <3> QED
      BY <3>1 DEF StartsFit
  <2>2. CASE p # "free"
    BY <1>3, <2>2, GrownFits DEF Restored
  <2> QED
    BY <2>1, <2>2
<1> QED
  BY <1>3, <1>4 DEF Restored, Grown, Spared, RunSound, Archives

(* Everything but the rule kept is paused. *)
LEMMA PauseSound ==
  ASSUME Inv, NEW keep \in WatchRules \cup {None},
         run' = run \/ run' = pauseExpiredUserResources(run, keep)
  PROVE  RunSound
<1>1. /\ run \in [Items -> Status] /\ Together(run)
      /\ \A x \in Watched : run[x] \notin Archives
      /\ Watched \subseteq Items
  BY InvFacts DEF Watched, Items
<1>2. CASE run' = run
  BY <1>1, <1>2, QuietSound
<1>3. CASE run' = pauseExpiredUserResources(run, keep)
  <2>1. /\ run' \in [Items -> Status] /\ Together(run')
        /\ \A x \in Items : \/ run'[x] = run[x]
                            \/ run[x] = "active" /\ run'[x] = "subscription_expired"
    BY <1>1, <1>3, PausedDoes
  <2>2. /\ \A x \in Watched : run'[x] \notin Archives
        /\ \A x \in Items : run'[x] = "active" => run[x] = "active"
    BY <1>1, <2>1 DEF Archives
  <2> QED
    BY <2>1, <2>2, QuietSound
<1> QED
  BY <1>2, <1>3

(* A deletion takes a combination with its members, or neither. *)
LEMMA GoneSound ==
  ASSUME Inv, NEW S, Gone(S), \A d \in Combos : \A m \in Members[d] : d \in S <=> m \in S
  PROVE  RunSound
<1>1. /\ run \in [Items -> Status] /\ Together(run)
      /\ \A x \in Watched : run[x] \notin Archives
      /\ Watched \subseteq Items
      /\ \A d \in Combos : \A m \in Members[d] : d \in Items /\ m \in Items
  BY InvFacts, Kinds DEF Watched, Items
<1>2. /\ run' \in [Items -> Status]
      /\ \A x \in Items : run'[x] = IF x \in S THEN "gone" ELSE run[x]
  BY <1>1 DEF Gone, Status
<1>3. Together(run')
  BY <1>1, <1>2 DEF Together, Exists
<1>4. /\ \A x \in Watched : run'[x] \notin Archives
      /\ \A x \in Items : run'[x] = "active" => run[x] = "active"
  BY <1>1, <1>2 DEF Archives
<1> QED
  BY <1>2, <1>3, <1>4, QuietSound

(* Archiving touches only projects and what belongs to them. *)
LEMMA ArchiveSound ==
  ASSUME Inv, run' \in [Items -> Status],
         \A x \in Items : run'[x] = run[x] \/ (x \notin Watched /\ run'[x] # "active")
  PROVE  RunSound
<1>1. /\ run \in [Items -> Status] /\ Together(run)
      /\ \A x \in Watched : run[x] \notin Archives
      /\ Watched \subseteq Items
      /\ \A d \in Combos : \A m \in Members[d] : d \in Watched /\ m \in Watched
  BY InvFacts, Kinds DEF Watched, Items
<1>2. \A x \in Watched : run'[x] = run[x]
  BY <1>1
<1>3. Together(run')
  BY <1>1, <1>2 DEF Together, Exists
<1> QED
  BY <1>1, <1>2, <1>3, QuietSound

LEMMA DeletingSound ==
  ASSUME Inv, Deleting
  PROVE  RunSound
<1>0. /\ Watched = WatchRules \cup MemberRules \cup Combos
      /\ (Projects \cup MarketRules \cup MarketCombos) \cap Watched = {}
      /\ WatchRules \cap (Combos \cup MemberRules) = {}
      /\ run \in [Items -> Status]
      /\ \A d \in Combos : d \notin MemberRules
  BY InvFacts, EntitlementsAssumption DEF Watched
<1>1. CASE DeleteWatchRule
  <2>1. PICK w \in WatchRules : Gone({w})
    BY <1>1 DEF DeleteWatchRule
  <2>2. \A d \in Combos : \A m \in Members[d] : d \in {w} <=> m \in {w}
    BY <1>0, Kinds
  <2> QED
    BY <2>1, <2>2, GoneSound
<1>2. CASE DeletePausedWatchRules
  <2> DEFINE S == {w \in WatchRules : run[w] \in Paused}
  <2>1. Gone(S)
    BY <1>2 DEF DeletePausedWatchRules
  <2>2. \A d \in Combos : \A m \in Members[d] : d \in S <=> m \in S
    BY <1>0, Kinds
  <2> HIDE DEF S
  <2> QED
    BY <2>1, <2>2, GoneSound
<1>3. CASE DeleteCombinationRule
  <2>1. PICK e \in Combos : Gone({e} \cup Members[e])
    BY <1>3 DEF DeleteCombinationRule
  <2> DEFINE S == {e} \cup Members[e]
  <2>2. \A d \in Combos : \A m \in Members[d] : d \in S <=> m \in S
    <3> TAKE d \in Combos
    <3> TAKE m \in Members[d]
    <3>1. d \notin Members[e] /\ m # e /\ m \in MemberRules
      BY <1>0, Kinds
    <3>2. d # e => m \notin Members[e]
      BY Kinds
    <3> QED
      BY <3>1, <3>2
  <2> HIDE DEF S
  <2> QED
    BY <2>1, <2>2, GoneSound DEF S
<1>4. CASE DeleteMarketRule
  <2>1. PICK r \in MarketRules : Gone({r})
    BY <1>4 DEF DeleteMarketRule
  <2>2. \A d \in Combos : \A m \in Members[d] : d \in {r} <=> m \in {r}
    BY <1>0, Kinds
  <2> QED
    BY <2>1, <2>2, GoneSound
<1>5. CASE ArchiveMarketCombinationRule
  <2>1. PICK x \in MarketCombos : run' = [run EXCEPT ![x] = "user_archived"]
    BY <1>5 DEF ArchiveMarketCombinationRule
  <2>2. /\ run' \in [Items -> Status]
        /\ \A y \in Items : run'[y] = run[y] \/ (y \notin Watched /\ run'[y] # "active")
    BY <1>0, <2>1 DEF Status, Paused, Items
  <2> QED
    BY <2>2, ArchiveSound
<1>6. CASE ArchiveMarketProject
  <2>1. PICK q \in Projects :
          run' = [x \in Items |->
            CASE x = q -> "user_archived"
              [] /\ run[x] = "active"
                 /\ x \in OfProject(q) \/ (x \in MarketRules /\ ProjectOf[x] = q)
                   -> "project_archived"
              [] OTHER -> run[x]]
    BY <1>6 DEF ArchiveMarketProject
  <2>2. OfProject(q) \subseteq MarketCombos
    BY DEF OfProject
  <2> DEFINE Of == OfProject(q)
  <2> HIDE DEF Of
  <2>3. \A x \in Items : run'[x] = CASE x = q -> "user_archived"
              [] /\ run[x] = "active"
                 /\ x \in Of \/ (x \in MarketRules /\ ProjectOf[x] = q)
                   -> "project_archived"
              [] OTHER -> run[x]
    BY <2>1 DEF Of
  <2>4. \A x \in Items :
          \/ x = q /\ run'[x] = "user_archived"
          \/ (x \in Of \/ x \in MarketRules) /\ run'[x] = "project_archived"
          \/ run'[x] = run[x]
    BY <2>3
  <2>5. Of \subseteq MarketCombos
    BY <2>2 DEF Of
  <2>6. \A x \in Items : run'[x] = run[x] \/ (x \notin Watched /\ run'[x] # "active")
    BY <1>0, <2>4, <2>5
  <2>7. DOMAIN run' = Items /\ run' = [x \in Items |-> run'[x]]
    BY <2>1
  <2>8. \A x \in Items : run'[x] \in Status
    BY <1>0, <2>4 DEF Status, Paused
  <2>9. run' \in [Items -> Status]
    BY <2>7, <2>8
  <2> QED
    BY <2>6, <2>9, ArchiveSound
<1>7. CASE DeleteArchivedMarketProject
  <2>1. PICK q \in Projects :
          Gone({q} \cup {x \in MarketRules : ProjectOf[x] = q /\ Exists(run, x)}
                \cup {x \in MarketCombos : /\ Exists(run, x)
                        /\ \E r \in Parts[x] \cap MarketRules : ProjectOf[r] = q})
    BY <1>7 DEF DeleteArchivedMarketProject
  <2> DEFINE S == {q} \cup {x \in MarketRules : ProjectOf[x] = q /\ Exists(run, x)}
                \cup {x \in MarketCombos : /\ Exists(run, x)
                        /\ \E r \in Parts[x] \cap MarketRules : ProjectOf[r] = q}
  <2>2. S \cap Watched = {}
    BY <1>0
  <2>3. Gone(S)
    BY <2>1
  <2> HIDE DEF S
  <2>4. \A d \in Combos : \A m \in Members[d] : d \in S <=> m \in S
    BY <1>0, <2>2, Kinds
  <2> QED
    BY <2>3, <2>4, GoneSound
<1> QED
  BY <1>1, <1>2, <1>3, <1>4, <1>5, <1>6, <1>7 DEF Deleting

LEMMA KeepTyped ==
  ASSUME Inv
  PROVE  /\ net.keep \in WatchRules \cup {None}
         /\ \A c \in Callers : call[c].keep \in WatchRules \cup {None}
<1> QED
  BY DEF Inv, TypeOK, Call

LEMMA RunStep ==
  ASSUME Inv, [Next]_vars
  PROVE  RunSound
<1>0. ASSUME run' = run PROVE RunSound
  BY <1>0, PauseSound
<1>1. CASE UNCHANGED vars
  BY <1>0, <1>1 DEF vars
<1>2. ASSUME NEW c \in Callers, Requests(c) PROVE RunSound
  <2>1. CASE Commit(c)
    BY <2>1, CommitSound
  <2>2. CASE ReconcileActivePlan(c)
    BY <2>2, ReconcileSound
  <2>3. CASE Visit(c)
    BY <2>3, KeepTyped, PauseSound DEF Visit, ApplyPaidExpiryFallback
  <2>4. CASE Deadlock(c)
    <3>1. PauseExpired \/ ApplyPaidExpiryFallback(c)
      BY <2>4 DEF Deadlock
    <3> QED
      BY <3>1, KeepTyped, PauseSound DEF PauseExpired, ApplyPaidExpiryFallback
  <2>5. CASE Refused(c)
    BY <1>0, <2>5 DEF Refused
  <2>6. CASE \/ CreateWatchRule(c) \/ CreateCombinationRule(c) \/ CreateMarketProject(c)
             \/ CreateMarketRule(c) \/ CreateMarketCombination(c) \/ RestorePausedWatchRule(c)
             \/ RestoreCombinationRule(c) \/ RestoreMarketProject(c) \/ RestoreMarketRule(c)
             \/ RestoreMarketCombination(c) \/ ChooseFreeWatchRule(c) \/ Entitlement(c)
    <3>1. run' = run
      BY <2>6 DEF CreateWatchRule, CreateCombinationRule, CreateMarketProject,
        CreateMarketRule, CreateMarketCombination, RestorePausedWatchRule,
        RestoreCombinationRule, RestoreMarketProject, RestoreMarketRule,
        RestoreMarketCombination, ChooseFreeWatchRule, Entitlement, RequestCreate,
        RequestRestore, Begin
    <3> QED
      BY <1>0, <3>1
  <2>7. CASE ReadBefore(c) \/ PlanChanged(c) \/ Abandon(c)
    BY <1>0, <2>7 DEF ReadBefore, PlanChanged, Abandon
  <2> QED
    BY <1>2, <2>1, <2>2, <2>3, <2>4, <2>5, <2>6, <2>7 DEF Requests
<1>3. ASSUME NEW c \in Callers, Subscribing(c) PROVE RunSound
  <2>1. CASE Pay(c)
    <3>1. PICK p \in Plan \ {"free"} : activateSubscription(c, p)
      BY <2>1 DEF Pay
    <3>2. run' = run \/ run' = pauseExpiredUserResources(run, freeRule)
      BY <3>1 DEF activateSubscription
    <3> QED
      BY <3>2, InvFacts, PauseSound
  <2>2. CASE BindPermanentPlan(c) \/ RebindPermanentPlan(c)
    BY <1>0, <2>2 DEF BindPermanentPlan, RebindPermanentPlan
  <2> QED
    BY <1>3, <2>1, <2>2 DEF Subscribing
<1>4. CASE Lapse
  BY <1>0, <1>4 DEF Lapse
<1>5. CASE SafetyNet
  <2>1. CASE ListExpired
    BY <1>0, <2>1 DEF ListExpired
  <2>2. CASE PauseExpired
    BY <2>2, KeepTyped, PauseSound DEF PauseExpired
  <2> QED
    BY <1>5, <2>1, <2>2 DEF SafetyNet
<1>6. CASE Deleting
  BY <1>6, DeletingSound
<1> QED
  BY <1>1, <1>2, <1>3, <1>4, <1>5, <1>6 DEF Next

-----------------------------------------------------------------------------
(* What a step does to the rest *)

Fit(e) ==
  e.step = "run" =>
    /\ e.op = "choose" => e.plan = "free"
    /\ e.op = "restore" /\ e.item \in WatchRules => e.plan # "free"

Rest ==
  /\ paid' \in [plan : Plan \ {"free"}, state : {"none", "running", "lapsed", "expired"}]
  /\ perm' \in {"none", "active", "revoked"}
  /\ freeRule' \in WatchRules \cup {None}
  /\ net' \in [step : {"idle", "listed"}, keep : WatchRules \cup {None}, rows : BOOLEAN]
  /\ calls' \in 0 .. MaxCalls /\ periods' \in 0 .. MaxPeriods

Calling == call' \in [Callers -> Call] /\ RequestsFit'

LEMMA CallParts ==
  ASSUME NEW e \in Call
  PROVE  /\ e.op \in {"idle", "create", "restore", "choose", "visit", "reconcile"}
         /\ e.item \in Items \cup {None} /\ e.keep \in WatchRules \cup {None}
         /\ e.attempt \in 1 .. 2 /\ e.plan \in Plan
         /\ LET n == [e EXCEPT !.attempt = 2, !.step = "read"]
            IN n \in Call /\ n.step = "read"
         /\ \A k \in WatchRules \cup {None} :
              LET n == [e EXCEPT !.step = "run", !.keep = k] IN n \in Call /\ n.op = e.op
         /\ \A p \in Plan :
              LET n == [e EXCEPT !.step = "run", !.plan = p]
              IN n \in Call /\ n.op = e.op /\ n.item = e.item /\ n.plan = p
<1>1. \A a \in 1 .. 2 : LET n == [e EXCEPT !.attempt = a, !.step = "read"]
                       IN n \in Call /\ n.step = "read"
  BY DEF Call
<1>2. LET n == [e EXCEPT !.attempt = 2, !.step = "read"] IN n \in Call /\ n.step = "read"
  <2>1. 2 \in 1 .. 2
    OBVIOUS
  <2> QED
    BY <1>1, <2>1
<1>3. \A k \in WatchRules \cup {None} :
        LET n == [e EXCEPT !.step = "run", !.keep = k] IN n \in Call /\ n.op = e.op
  BY DEF Call
<1>4. \A p \in Plan :
        LET n == [e EXCEPT !.step = "run", !.plan = p]
        IN n \in Call /\ n.op = e.op /\ n.item = e.item /\ n.plan = p
  BY DEF Call
<1>5. /\ e.op \in {"idle", "create", "restore", "choose", "visit", "reconcile"}
      /\ e.item \in Items \cup {None} /\ e.keep \in WatchRules \cup {None}
      /\ e.attempt \in 1 .. 2 /\ e.plan \in Plan
  BY DEF Call
<1> QED
  BY <1>2, <1>3, <1>4, <1>5

LEMMA Begun ==
  /\ NoCall \in Call /\ NoCall.step = "read" /\ Fit(NoCall)
  /\ \A op \in {"idle", "create", "restore", "choose", "visit", "reconcile"} :
       \A r \in Items \cup {None} :
         LET n == [NoCall EXCEPT !.op = op, !.item = r] IN n \in Call /\ Fit(n)
<1>1. NoCall \in Call /\ NoCall.step = "read"
  BY DEF NoCall, Call, Plan
<1> HIDE DEF NoCall
<1>2. ASSUME NEW op \in {"idle", "create", "restore", "choose", "visit", "reconcile"},
             NEW r \in Items \cup {None}
      PROVE  LET n == [NoCall EXCEPT !.op = op, !.item = r] IN n \in Call /\ n.step = "read"
  BY <1>1 DEF Call
<1> QED
  BY <1>1, <1>2 DEF Fit

LEMMA CallSet ==
  ASSUME Inv, NEW c \in Callers, NEW e \in Call, Fit(e), call' = [call EXCEPT ![c] = e]
  PROVE  Calling
<1>1. call \in [Callers -> Call]
  BY DEF Inv, TypeOK
<1>2. call' \in [Callers -> Call]
  BY <1>1
<1>3. \A d \in Callers : call'[d] = e \/ call'[d] = call[d]
  BY <1>1
<1>4. \A d \in Callers : Fit(call[d])
  BY DEF Inv, RequestsFit, Fit
<1>5. \A d \in Callers : Fit(call'[d])
  BY <1>3, <1>4
<1> QED
  BY <1>2, <1>5 DEF Calling, RequestsFit, Fit

LEMMA CallKept ==
  ASSUME Inv, call' = call
  PROVE  Calling
<1> QED
  BY DEF Inv, TypeOK, RequestsFit, Calling

LEMMA CallDone ==
  ASSUME Inv, NEW c \in Callers, Done(c) \/ ThenVisit(c) \/ ThenReconcile(c)
  PROVE  Calling
<1>1. NoCall \in Call /\ Fit(NoCall)
  BY DEF NoCall, Call, Fit, Plan
<1>2. /\ [NoCall EXCEPT !.op = "visit"] \in Call /\ Fit([NoCall EXCEPT !.op = "visit"])
      /\ [NoCall EXCEPT !.op = "reconcile"] \in Call
      /\ Fit([NoCall EXCEPT !.op = "reconcile"])
  BY DEF NoCall, Call, Fit, Plan
<1> QED
  BY <1>1, <1>2, CallSet DEF Done, ThenVisit, ThenReconcile

LEMMA BeginDoes ==
  ASSUME Inv, NEW c \in Callers, NEW r \in Items \cup {None},
         NEW op \in {"create", "restore", "choose", "visit"}, Begin(c, op, r)
  PROVE  Calling /\ Rest
<1> DEFINE e == [NoCall EXCEPT !.op = op, !.item = r]
<1>1. e \in Call /\ Fit(e)
  BY Begun
<1>2. call' = [call EXCEPT ![c] = e]
  BY DEF Begin
<1> HIDE DEF e
<1>3. Calling
  BY <1>1, <1>2, CallSet
<1>4. Rest
  BY EntitlementsAssumption DEF Begin, Rest, Inv, TypeOK, bounds
<1> QED
  BY <1>3, <1>4

LEMMA ReadDoes ==
  ASSUME Inv, NEW c \in Callers, ReadBefore(c)
  PROVE  Calling
<1>0. call[c] \in Call /\ freeRule \in WatchRules \cup {None} /\ effectivePlanCode \in Plan
  BY InvFacts DEF Inv, TypeOK
<1> DEFINE old == call[c]
           p == effectivePlanCode
<1> HIDE DEF p
<1>1. \E e : /\ call' = [call EXCEPT ![c] = e]
             /\ \/ old.op = "visit" /\ e = [old EXCEPT !.step = "run", !.keep = freeRule]
                \/ e = [NoCall EXCEPT !.op = "choose", !.item = old.item]
                \/ e = NoCall
                \/ /\ e = [old EXCEPT !.step = "run", !.plan = p]
                   /\ ~(old.op = "restore" /\ old.item \in WatchRules /\ p = "free")
                   /\ ~(old.op = "choose" /\ p # "free")
  <2> DEFINE chosen == old.op = "restore" /\ old.item \in WatchRules /\ p = "free"
             e == IF old.op = "visit" THEN [old EXCEPT !.step = "run", !.keep = freeRule]
                  ELSE IF chosen THEN [NoCall EXCEPT !.op = "choose", !.item = old.item]
                  ELSE IF old.op = "choose" /\ p # "free" THEN NoCall
                  ELSE [old EXCEPT !.step = "run", !.plan = p]
  <2>1. call' = [call EXCEPT ![c] = e]
    <3>1. call \in [Callers -> Call]
      BY DEF Inv, TypeOK
    <3> QED
      BY <3>1 DEF ReadBefore, p
  <2> WITNESS e
  <2> QED
    BY <2>1
<1>2. PICK e : /\ call' = [call EXCEPT ![c] = e]
               /\ \/ old.op = "visit" /\ e = [old EXCEPT !.step = "run", !.keep = freeRule]
                  \/ e = [NoCall EXCEPT !.op = "choose", !.item = old.item]
                  \/ e = NoCall
                  \/ /\ e = [old EXCEPT !.step = "run", !.plan = p]
                     /\ ~(old.op = "restore" /\ old.item \in WatchRules /\ p = "free")
                     /\ ~(old.op = "choose" /\ p # "free")
  BY <1>1
<1>3. e \in Call /\ Fit(e)
  <2>1. p \in Plan
    BY <1>0 DEF p
  <2>2. old \in Call
    BY <1>0
  <2> HIDE DEF old
  <2>3. CASE old.op = "visit" /\ e = [old EXCEPT !.step = "run", !.keep = freeRule]
    BY <1>0, <2>2, <2>3, CallParts DEF Fit
  <2>4. CASE e = [NoCall EXCEPT !.op = "choose", !.item = old.item]
    <3>1. old.item \in Items \cup {None}
      BY <2>2, CallParts
    <3> QED
      BY <2>4, <3>1, Begun
  <2>5. CASE e = NoCall
    BY <2>5, Begun
  <2>6. CASE /\ e = [old EXCEPT !.step = "run", !.plan = p]
             /\ ~(old.op = "restore" /\ old.item \in WatchRules /\ p = "free")
             /\ ~(old.op = "choose" /\ p # "free")
    <3>1. e \in Call /\ e.op = old.op /\ e.item = old.item /\ e.plan = p
      BY <2>1, <2>2, <2>6, CallParts
    <3> QED
      BY <2>6, <3>1 DEF Fit
  <2> QED
    BY <1>2, <2>3, <2>4, <2>5, <2>6
<1> QED
  BY <1>2, <1>3, CallSet

LEMMA ChangedDoes ==
  ASSUME Inv, NEW c \in Callers, PlanChanged(c)
  PROVE  Calling
<1>0. call[c] \in Call /\ call \in [Callers -> Call]
  BY DEF Inv, TypeOK
<1> DEFINE e == IF call[c].attempt = 1 /\ call[c].op # "reconcile"
                THEN [call[c] EXCEPT !.attempt = 2, !.step = "read"] ELSE NoCall
<1>1. call' = [call EXCEPT ![c] = e]
  BY <1>0 DEF PlanChanged
<1>2. e \in Call /\ Fit(e)
  <2>1. CASE e = NoCall
    BY <2>1, Begun
  <2>2. CASE e = [call[c] EXCEPT !.attempt = 2, !.step = "read"]
    BY <1>0, <2>2, CallParts DEF Fit
  <2> QED
    BY <2>1, <2>2
<1> HIDE DEF e
<1> QED
  BY <1>1, <1>2, CallSet

LEMMA RestStep ==
  ASSUME Inv, [Next]_vars
  PROVE  Calling /\ Rest
<1>0. ASSUME UNCHANGED <<paid, perm, freeRule, net, bounds>> PROVE Rest
  BY <1>0 DEF Inv, TypeOK, Rest, bounds
<1>1. CASE UNCHANGED vars
  <2>1. call' = call /\ UNCHANGED <<paid, perm, freeRule, net, bounds>>
    BY <1>1 DEF vars
  <2> QED
    BY <1>0, <2>1, CallKept
<1>2. ASSUME NEW c \in Callers, Requests(c) PROVE Calling /\ Rest
  <2>1. CASE Commit(c)
    <3>1. Done(c) \/ ThenVisit(c)
      BY <2>1 DEF Commit
    <3>2. UNCHANGED <<paid, perm, net, bounds>>
      BY <2>1 DEF Commit
    <3>3. freeRule' \in WatchRules \cup {None}
      BY <2>1, CommitSound
    <3>4. Rest
      BY <3>2, <3>3 DEF Inv, TypeOK, Rest, bounds
    <3> QED
      BY <3>1, <3>4, CallDone
  <2>2. CASE ReconcileActivePlan(c)
    BY <1>0, <2>2, CallDone DEF ReconcileActivePlan
  <2>3. CASE Visit(c)
    <3>1. Done(c) /\ expireSubscriptions /\ UNCHANGED <<perm, freeRule, net, bounds>>
      BY <2>3 DEF Visit, ApplyPaidExpiryFallback
    <3>2. Rest
      BY <3>1 DEF Inv, TypeOK, Rest, bounds, expireSubscriptions
    <3> QED
      BY <3>1, <3>2, CallDone
  <2>4. CASE Deadlock(c)
    <3>1. /\ Done(c) /\ UNCHANGED <<perm, freeRule, bounds>> /\ net' = NoNet
          /\ expireSubscriptions \/ UNCHANGED paid
      BY <2>4 DEF Deadlock, PauseExpired, ApplyPaidExpiryFallback
    <3>2. Rest
      BY <3>1 DEF Inv, TypeOK, Rest, bounds, expireSubscriptions, NoNet
    <3> QED
      BY <3>1, <3>2, CallDone
  <2>5. CASE Refused(c)
    BY <1>0, <2>5, CallDone DEF Refused
  <2>6. CASE \/ CreateWatchRule(c) \/ CreateCombinationRule(c) \/ CreateMarketProject(c)
             \/ CreateMarketRule(c) \/ CreateMarketCombination(c) \/ RestorePausedWatchRule(c)
             \/ RestoreCombinationRule(c) \/ RestoreMarketProject(c) \/ RestoreMarketRule(c)
             \/ RestoreMarketCombination(c) \/ ChooseFreeWatchRule(c) \/ Entitlement(c)
    <3>1. \E r \in Items \cup {None}, op \in {"create", "restore", "choose", "visit"} :
            Begin(c, op, r)
      BY <2>6 DEF CreateWatchRule, CreateCombinationRule, CreateMarketProject,
        CreateMarketRule, CreateMarketCombination, RestorePausedWatchRule,
        RestoreCombinationRule, RestoreMarketProject, RestoreMarketRule,
        RestoreMarketCombination, ChooseFreeWatchRule, Entitlement, RequestCreate,
        RequestRestore, Items
    <3> QED
      BY <3>1, BeginDoes
  <2>7. CASE ReadBefore(c)
    <3>1. UNCHANGED <<paid, perm, freeRule, net, bounds>>
      BY <2>7 DEF ReadBefore
    <3> QED
      BY <1>0, <2>7, <3>1, ReadDoes
  <2>8. CASE PlanChanged(c)
    <3>1. UNCHANGED <<paid, perm, freeRule, net, bounds>>
      BY <2>8 DEF PlanChanged
    <3> QED
      BY <1>0, <2>8, <3>1, ChangedDoes
  <2>9. CASE Abandon(c)
    BY <1>0, <2>9, CallDone DEF Abandon
  <2> QED
    BY <1>2, <2>1, <2>2, <2>3, <2>4, <2>5, <2>6, <2>7, <2>8, <2>9 DEF Requests
<1>3. ASSUME NEW c \in Callers, Subscribing(c) PROVE Calling /\ Rest
  <2>1. ThenReconcile(c)
    BY <1>3 DEF Subscribing, Pay, activateSubscription, BindPermanentPlan, RebindPermanentPlan
  <2>2. CASE Pay(c)
    <3>1. PICK p \in Plan \ {"free"} : activateSubscription(c, p)
      BY <2>2 DEF Pay
    <3>2. /\ periods < MaxPeriods /\ paid' = [plan |-> p, state |-> "running"]
          /\ periods' = periods + 1 /\ UNCHANGED <<perm, freeRule, net, calls>>
      BY <3>1 DEF activateSubscription
    <3>3. Rest
      BY <3>2, EntitlementsAssumption DEF Inv, TypeOK, Rest
    <3> QED
      BY <2>1, <3>3, CallDone
  <2>3. CASE BindPermanentPlan(c)
    <3>1. Rest
      BY <2>3, EntitlementsAssumption DEF BindPermanentPlan, Inv, TypeOK, Rest
    <3> QED
      BY <2>1, <3>1, CallDone
  <2>4. CASE RebindPermanentPlan(c)
    <3>1. Rest
      BY <2>4 DEF RebindPermanentPlan, Inv, TypeOK, Rest, bounds
    <3> QED
      BY <2>1, <3>1, CallDone
  <2> QED
    BY <1>3, <2>2, <2>3, <2>4 DEF Subscribing
<1>4. CASE Lapse
  <2>1. Rest
    BY <1>4 DEF Lapse, Inv, TypeOK, Rest, bounds
  <2> QED
    BY <1>4, <2>1, CallKept DEF Lapse
<1>5. CASE SafetyNet
  <2>1. /\ call' = call /\ UNCHANGED <<perm, freeRule, bounds>>
        /\ expireSubscriptions \/ UNCHANGED paid
        /\ net' = NoNet \/ net' = [step |-> "listed", keep |-> freeRule, rows |-> paid.state = "lapsed"]
    BY <1>5 DEF SafetyNet, ListExpired, PauseExpired
  <2> DEFINE lapsed == paid.state = "lapsed"
  <2>2. lapsed \in BOOLEAN
    OBVIOUS
  <2>3. freeRule \in WatchRules \cup {None}
    BY InvFacts
  <2>4. net' = NoNet \/ net' = [step |-> "listed", keep |-> freeRule, rows |-> lapsed]
    BY <2>1
  <2> HIDE DEF lapsed
  <2>5. net' \in [step : {"idle", "listed"}, keep : WatchRules \cup {None}, rows : BOOLEAN]
    <3> DEFINE N == [step : {"idle", "listed"}, keep : WatchRules \cup {None}, rows : BOOLEAN]
    <3>1. NoNet \in N
      BY DEF NoNet
    <3>2. /\ [step |-> "listed", keep |-> freeRule, rows |-> TRUE] \in N
          /\ [step |-> "listed", keep |-> freeRule, rows |-> FALSE] \in N
      BY <2>3
    <3> HIDE DEF N
    <3>3. lapsed = TRUE \/ lapsed = FALSE
      BY <2>2
    <3>4. ASSUME lapsed = TRUE PROVE net' \in N
      BY <2>4, <3>1, <3>2, <3>4, Zenon
    <3>5. ASSUME lapsed = FALSE PROVE net' \in N
      BY <2>4, <3>1, <3>2, <3>5, Zenon
    <3> QED
      BY <3>3, <3>4, <3>5 DEF N
  <2>6. Rest
    BY <2>1, <2>5 DEF Inv, TypeOK, Rest, bounds, expireSubscriptions
  <2> QED
    BY <2>1, <2>6, CallKept
<1>6. CASE Deleting
  <2>1. /\ call' = call /\ UNCHANGED <<paid, perm, net, bounds>>
        /\ freeRule' = freeRule \/ freeRule' = None
    BY <1>6 DEF Deleting, DeleteWatchRule, DeletePausedWatchRules, DeleteCombinationRule,
                DeleteMarketRule, ArchiveMarketCombinationRule, ArchiveMarketProject,
                DeleteArchivedMarketProject, Forget
  <2>2. Rest
    BY <2>1 DEF Inv, TypeOK, Rest, bounds
  <2> QED
    BY <2>1, <2>2, CallKept
<1> QED
  BY <1>1, <1>2, <1>3, <1>4, <1>5, <1>6 DEF Next

-----------------------------------------------------------------------------
LEMMA InvInit == Init => Inv
<1> SUFFICES ASSUME Init PROVE Inv
  OBVIOUS
<1>1. NoCall \in Call
  BY DEF NoCall, Call, Plan
<1>2. \A d \in Combos : \A m \in Members[d] : run[d] = "new" /\ run[m] = "new"
  BY Kinds DEF Init, Items
<1>3. MembersFollowCombination
  BY <1>2 DEF MembersFollowCombination, Exists
<1>4. RequestsFit
  BY DEF Init, RequestsFit, NoCall
<1>5. NothingWatchedArchived
  BY DEF Init, NothingWatchedArchived, Watched, Items, Archives
<1>6. TypeOK
  BY <1>1, EntitlementsAssumption DEF Init, TypeOK, NoNet, Plan
<1> QED
  BY <1>3, <1>4, <1>5, <1>6 DEF Inv

LEMMA InvStep == Inv /\ [Next]_vars => Inv'
<1> SUFFICES ASSUME Inv, [Next]_vars PROVE Inv'
  OBVIOUS
<1>1. RunSound /\ Calling /\ Rest
  BY RunStep, RestStep
<1>2. TypeOK'
  BY <1>1 DEF RunSound, Calling, Rest, TypeOK, Status
<1>3. MembersFollowCombination'
  BY <1>1 DEF RunSound, MembersFollowCombination, Together
<1>4. NothingWatchedArchived'
  BY <1>1 DEF RunSound, NothingWatchedArchived
<1> QED
  BY <1>1, <1>2, <1>3, <1>4 DEF Calling, Inv

LEMMA Invariance == Spec => []Inv
<1> QED
  BY InvInit, InvStep, PTL DEF Spec

(* Every variable keeps its type, whatever the user buys, loses and asks for. *)
THEOREM TypeCorrect == Spec => []TypeOK
<1>1. Inv => TypeOK
  BY DEF Inv
<1> QED
  BY <1>1, Invariance, PTL

(* A combination and its members, rows of two tables, run and are paused
   together, through every creation, choice of a free rule, expiry, restoration
   and deletion. *)
THEOREM MembersFollow == Spec => []MembersFollowCombination
<1>1. Inv => MembersFollowCombination
  BY DEF Inv
<1> QED
  BY <1>1, Invariance, PTL

(* Whatever starts a rule or a project, the plan then in force covers it and its
   quota holds what runs afterwards, although the plan was read in a transaction
   of its own. *)
THEOREM StartsWithinPlan == Spec => ActivationsWithinPlan
<1>1. Inv /\ [Next]_vars => [StartsFit]_vars
  BY RunStep DEF RunSound
<1> QED
  BY <1>1, Invariance, PTL DEF Spec, ActivationsWithinPlan

(* What the user archived, and what was paused with it, comes back by a request
   of the user's only. *)
THEOREM PausesSurvive == Spec => UserPausesSurvive
<1> DEFINE Asked == \A r \in Items :
             run[r] \in {"user_archived", "project_archived"} /\ run'[r] = "active"
               => \E c \in Callers : call[c].op = "restore" /\ call[c].item = r
<1>1. Inv /\ [Next]_vars => [Asked]_vars
  BY RunStep DEF RunSound, Archives
<1> QED
  BY <1>1, Invariance, PTL DEF Spec, UserPausesSurvive
=============================================================================
