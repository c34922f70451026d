------------------------ MODULE MarketServicesProofs -----------------------
(***************************************************************************)
(* Theorems about parts of a market project that share no state with the   *)
(* alert pipeline: the pools that it watches, the assets its contracts     *)
(* belong to, its rules on market snapshots and the ranking of its         *)
(* holders, for any number of each, under the assumptions of Services.  A  *)
(* step of the services is a step of one part and a stutter of the others: *)
(* PartsStep, which comes first.                                           *)
(***************************************************************************)
EXTENDS Services, TLAPS, FiniteSetTheorems

-----------------------------------------------------------------------------
(* The parts. *)

LEMMA PartsBegin ==
  ServicesInit => /\ Summary!Init /\ Bot!Init /\ Login!Init /\ Assets!Init
                  /\ Pools!Init /\ Crossings!Init /\ Ranks!Init
BY DEF ServicesInit

LEMMA PartsStep ==
  ASSUME [ServicesNext]_servicesVars
  PROVE  /\ [Summary!Next]_summaryVars
         /\ [Bot!Next]_botVars
         /\ [Login!Next]_loginVars
         /\ [Assets!Next]_assetVars
         /\ [Pools!Next]_poolVars
         /\ [Crossings!Next]_ruleVars
         /\ [Ranks!Next]_rankVars
<1> USE DEF userVars, marketVars
<1>1. CASE UNCHANGED servicesVars
  BY <1>1 DEF servicesVars
<1>2. CASE OnlyScanner \/ OnlyWebhook
  BY <1>2 DEF OnlyScanner, OnlyWebhook
<1>3. CASE OnlySummary /\ Summary!Next
  BY <1>3 DEF OnlySummary
<1>4. CASE OnlyBot /\ Bot!Next
  BY <1>4 DEF OnlyBot
<1>5. CASE OnlyLogin /\ Login!Next
  BY <1>5 DEF OnlyLogin
<1>6. CASE OnlyAssets /\ Assets!Next
  BY <1>6 DEF OnlyAssets
<1>7. CASE OnlyPools /\ Pools!Next
  BY <1>7 DEF OnlyPools
<1>8. CASE OnlyCrossings /\ Crossings!Next
  BY <1>8 DEF OnlyCrossings
<1>9. CASE OnlyRanks /\ Ranks!Next
  BY <1>9 DEF OnlyRanks
<1> QED
  BY <1>1, <1>2, <1>3, <1>4, <1>5, <1>6, <1>7, <1>8, <1>9 DEF ServicesNext

-----------------------------------------------------------------------------
(* PoolSelection. *)

PoolLink == [linked : BOOLEAN, selected : BOOLEAN, primary : BOOLEAN]
PoolTypes ==
  /\ plan \in {"standard", "professional"}
  /\ wasProfessional \in BOOLEAN
  /\ status \in {"none", "active", "archived"}
  /\ chains \in {{}, Deployment}
  /\ link \in [Pool -> PoolLink]
  /\ default \in [Deployment -> Pool \cup {NoPool}]
  /\ main \in Pool \cup {NoPool}
  /\ setup \in [pools : Seq(Pool), wanted : SUBSET Pool, primarySet : BOOLEAN]
  /\ imposed \subseteq Pool

(* Before its creation a project has no pools; what is selected is linked; *)
LinksInOrder ==
  /\ status = "none" => /\ chains = {} /\ setup = Pools!NoSetup
                        /\ \A p \in Pool : link[p] = Pools!Unlinked
  /\ \A p \in Pool : link[p].selected \/ link[p].primary => link[p].linked

(* a default is a pool of its chain, and the main pool one of the project's own. *)
DefaultsInPlace ==
  /\ \A d \in chains : default[d] # NoPool => PoolOn[default[d]] = d
  /\ main # NoPool => PoolOn[main] = Own

OncePerChain == \A p, q \in Pool :
  link[p].selected /\ link[q].selected /\ Pools!LinkGroup(p) = Pools!LinkGroup(q) => p = q

PoolInv ==
  /\ PoolTypes /\ LinksInOrder /\ DefaultsInPlace
  /\ ~wasProfessional => plan = "standard" /\ OncePerChain
  /\ MainPoolsAreWatched

LEMMA LinkPoolSound ==
  ASSUME PoolInv, status # "none",
         NEW p \in Pool, NEW selected \in BOOLEAN, NEW primary \in BOOLEAN,
         Pools!LinkPool(p, selected, primary),
         UNCHANGED <<plan, status, chains, wasProfessional>>,
         setup' \in [pools : Seq(Pool), wanted : SUBSET Pool, primarySet : BOOLEAN]
  PROVE  PoolInv'
<1> DEFINE sel == selected \/ primary
           clears == sel /\ plan = "standard"
           prim == primary \/ clears
           Near(q) == q \in Pools!Peers(p)
<1>0. /\ PoolTypes /\ LinksInOrder /\ DefaultsInPlace
      /\ ~wasProfessional => plan = "standard" /\ OncePerChain
      /\ MainPoolsAreWatched
  BY DEF PoolInv
<1>1. /\ sel \in BOOLEAN /\ clears \in BOOLEAN /\ prim \in BOOLEAN
      /\ prim => sel
      /\ clears => prim
  BY <1>0 DEF PoolTypes
<1>2. /\ \A q \in Pool : Near(q) <=> q # p /\ link[q].linked /\ Pools!LinkGroup(q) = Pools!LinkGroup(p)
      /\ \A q \in Pool : Pools!LinkGroup(q)' = Pools!LinkGroup(q)
  BY DEF Pools!Peers, Pools!LinkGroup
<1>3. /\ link' = [q \in Pool |->
          CASE q = p -> [linked |-> TRUE, selected |-> sel, primary |-> prim]
            [] q \in Pools!Peers(p) /\ clears -> [linked |-> TRUE, selected |-> FALSE, primary |-> FALSE]
            [] q \in Pools!Peers(p) /\ ~clears /\ prim -> [link[q] EXCEPT !.primary = FALSE]
            [] OTHER -> link[q]]
      /\ Pools!Matches(p)
  BY DEF Pools!LinkPool, Pools!Linked, Pools!ClearsOthers, Pools!SinglePool
<1>4. /\ link'[p] = [linked |-> TRUE, selected |-> sel, primary |-> prim]
      /\ \A q \in Pool \ {p} : Near(q) /\ clears =>
           link'[q] = [linked |-> TRUE, selected |-> FALSE, primary |-> FALSE]
      /\ \A q \in Pool \ {p} : Near(q) /\ ~clears /\ prim => link'[q] = [link[q] EXCEPT !.primary = FALSE]
      /\ \A q \in Pool \ {p} : ~Near(q) \/ ~prim => link'[q] = link[q]
  <2> HIDE DEF sel, prim, clears
  <2>0. \A q \in Pools!Peers(p) : q # p
    BY DEF Pools!Peers
  <2>1. link'[p] = [linked |-> TRUE, selected |-> sel, primary |-> prim]
    BY <1>3, <2>0
  <2>2. \A q \in Pool \ {p} : Near(q) /\ clears =>
           link'[q] = [linked |-> TRUE, selected |-> FALSE, primary |-> FALSE]
    BY <1>3, <2>0
  <2>3. \A q \in Pool \ {p} : Near(q) /\ ~clears /\ prim => link'[q] = [link[q] EXCEPT !.primary = FALSE]
    BY <1>3, <2>0
  <2>4. \A q \in Pool \ {p} : ~Near(q) \/ ~prim => link'[q] = link[q]
    BY <1>1, <1>3, <2>0
  <2> QED
    BY <2>1, <2>2, <2>3, <2>4
<1>5. /\ default' = [d \in Deployment |->
          IF d \in chains /\ PoolOn[p] = d
          THEN IF prim THEN p ELSE IF ~sel /\ default[d] = p THEN NoPool ELSE default[d]
          ELSE default[d]]
      /\ main' = IF prim THEN (IF PoolOn[p] = Own THEN p ELSE main)
                 ELSE IF ~sel /\ main = p THEN NoPool ELSE main
      /\ imposed' = imposed \ {p}
  BY DEF Pools!LinkPool, Pools!ClearsOthers, Pools!SinglePool
<1> HIDE DEF sel, clears, prim, Near
<1>6. /\ link' \in [Pool -> PoolLink]
      /\ \A q \in Pool \ {p} : /\ (link'[q].linked <=> link[q].linked)
                               /\ (link'[q].selected <=> link[q].selected /\ ~(Near(q) /\ clears))
                               /\ (link'[q].primary <=> link[q].primary /\ ~(Near(q) /\ prim))
      /\ link'[p].linked /\ (link'[p].selected <=> sel) /\ (link'[p].primary <=> prim)
  <2>1. \A q \in Pool : link[q] \in PoolLink
    BY <1>0 DEF PoolTypes
  <2>2. \A q \in Pool \ {p} : /\ link'[q] \in PoolLink
                              /\ (link'[q].linked <=> link[q].linked)
                              /\ (link'[q].selected <=> link[q].selected /\ ~(Near(q) /\ clears))
                              /\ (link'[q].primary <=> link[q].primary /\ ~(Near(q) /\ prim))
    <3> TAKE q \in Pool \ {p}
    <3>1. link[q].selected \/ link[q].primary => link[q].linked
      BY <1>0 DEF LinksInOrder
    <3>2. Near(q) => link[q].linked
      BY <1>2
    <3>3. CASE Near(q) /\ clears
      <4>1. link'[q] = [linked |-> TRUE, selected |-> FALSE, primary |-> FALSE]
        BY <3>3, <1>4
      <4>2. link[q].linked /\ Near(q) /\ clears /\ prim
        BY <3>3, <3>2, <1>1
      <4> QED
        BY <4>1, <4>2 DEF PoolLink
    <3>4. CASE Near(q) /\ ~clears /\ prim
      <4>1. link'[q] = [link[q] EXCEPT !.primary = FALSE]
        BY <3>4, <1>4
      <4>2. link[q] \in PoolLink
        BY <2>1
      <4>3. /\ link'[q] \in PoolLink /\ link'[q].linked = link[q].linked
            /\ link'[q].selected = link[q].selected /\ ~link'[q].primary
        BY <4>1, <4>2 DEF PoolLink
      <4> QED
        BY <4>3, <3>4
    <3>5. CASE ~Near(q) \/ ~prim
      <4>1. link'[q] = link[q]
        BY <3>5, <1>4
      <4>2. ~(Near(q) /\ clears) /\ ~(Near(q) /\ prim)
        BY <3>5, <1>1
      <4> QED
        BY <4>1, <4>2, <2>1
    <3> QED
      BY <3>3, <3>4, <3>5
  <2>3. link'[p] \in PoolLink /\ link'[p].linked /\ (link'[p].selected <=> sel) /\ (link'[p].primary <=> prim)
    BY <1>4, <1>1 DEF PoolLink
  <2>4. link' \in [Pool -> PoolLink]
    <3>1. \A q \in Pool : link'[q] \in PoolLink
      BY <2>2, <2>3
    <3>2. link' = [q \in Pool |-> link'[q]]
      BY <1>3
    <3> QED
      BY <3>1, <3>2
  <2> QED
    BY <2>2, <2>3, <2>4
<1>7. /\ default' \in [Deployment -> Pool \cup {NoPool}]
      /\ main' \in Pool \cup {NoPool}
      /\ \A d \in chains : default'[d] = IF PoolOn[p] = d
           THEN IF prim THEN p ELSE IF ~sel /\ default[d] = p THEN NoPool ELSE default[d]
           ELSE default[d]
      /\ chains \subseteq Deployment
  BY <1>0, <1>5 DEF PoolTypes
<1>8. PoolTypes'
  BY <1>0, <1>5, <1>6, <1>7 DEF PoolTypes
<1>9. LinksInOrder'
  BY <1>0, <1>1, <1>6 DEF LinksInOrder
<1>10. DefaultsInPlace'
  BY <1>0, <1>5, <1>7 DEF DefaultsInPlace
<1>11. (~wasProfessional => plan = "standard" /\ OncePerChain)'
  BY <1>0, <1>1, <1>2, <1>6 DEF OncePerChain, LinksInOrder, clears
<1>12. MainPoolsAreWatched'
  <2>1. /\ \A d \in chains : default[d] \notin imposed \cup {NoPool} => link[default[d]].selected
        /\ main \notin imposed \cup {NoPool} => link[main].selected
        /\ \A r, q \in Pool :
             link[r].primary => /\ link[r].selected
                                /\ link[q].primary /\ Pools!LinkGroup(r) = Pools!LinkGroup(q) => r = q
    BY <1>0 DEF MainPoolsAreWatched, Pools!MainPoolsAreWatched
  <2>2. \A r, q \in Pool :
             link'[r].primary => /\ link'[r].selected
                                 /\ link'[q].primary /\ Pools!LinkGroup(r)' = Pools!LinkGroup(q)' => r = q
    BY <2>1, <1>0, <1>1, <1>2, <1>6 DEF LinksInOrder
  <2>3. ASSUME NEW d \in chains, default'[d] \notin imposed' \cup {NoPool}
        PROVE  link'[default'[d]].selected
    <3>1. CASE default'[d] = p
      <4>1. CASE prim
        BY <4>1, <3>1, <1>1, <1>6
      <4>2. CASE ~prim
        <5>1. default[d] = p /\ PoolOn[p] = d
          BY <4>2, <3>1, <1>0, <1>7, <2>3, PoolAssumption DEF DefaultsInPlace
        <5>2. sel
          BY <5>1, <4>2, <1>7, <2>3
        <5> QED
          BY <5>2, <3>1, <1>6
      <4> QED
        BY <4>1, <4>2
    <3>2. CASE default'[d] # p
      <4>1. default'[d] = default[d] /\ default[d] \in Pool \ {p}
        BY <3>2, <1>7, <2>3, <1>8 DEF PoolTypes
      <4>2. link[default[d]].selected
        BY <4>1, <2>1, <2>3, <1>5
      <4>3. ~(Near(default[d]) /\ clears)
        <5>1. PoolOn[default[d]] = d /\ chains # {}
          BY <4>1, <2>3, <1>0 DEF DefaultsInPlace
        <5>2. Near(default[d]) => PoolOn[p] = d
          BY <5>1, <4>1, <1>2 DEF Pools!LinkGroup
        <5>3. PoolOn[p] = d /\ clears => default'[d] = p
          BY <1>1, <1>7, <2>3
        <5> QED
          BY <5>2, <5>3, <3>2
      <4> QED
        BY <4>1, <4>2, <4>3, <1>6
    <3> QED
      BY <3>1, <3>2
  <2>4. ASSUME main' \notin imposed' \cup {NoPool}
        PROVE  link'[main'].selected
    <3>1. CASE main' = p
      BY <3>1, <1>1, <1>5, <1>6, <2>4
    <3>2. CASE main' # p
      <4>1. main' = main /\ main \in Pool \ {p}
        BY <3>2, <1>5, <2>4, <1>8 DEF PoolTypes
      <4>2. link[main].selected
        BY <4>1, <2>1, <2>4, <1>5
      <4>3. ~(Near(main) /\ clears)
        <5>1. PoolOn[main] = Own
          BY <4>1, <2>4, <1>0 DEF DefaultsInPlace
        <5>2. Near(main) => PoolOn[p] = Own
          BY <5>1, <4>1, <1>2, <1>3 DEF Pools!LinkGroup, Pools!Matches
        <5>3. PoolOn[p] = Own /\ clears => main' = p
          BY <1>1, <1>5
        <5> QED
          BY <5>2, <5>3, <3>2
      <4> QED
        BY <4>1, <4>2, <4>3, <1>6
    <3> QED
      BY <3>1, <3>2
  <2> QED
    BY <2>2, <2>3, <2>4 DEF MainPoolsAreWatched, Pools!MainPoolsAreWatched
<1> QED
  BY <1>8, <1>9, <1>10, <1>11, <1>12 DEF PoolInv

LEMMA CreationSound ==
  ASSUME PoolInv, Pools!CreateMultiChainProject
  PROVE  PoolInv'
<1>0. /\ PoolTypes /\ LinksInOrder /\ DefaultsInPlace
      /\ ~wasProfessional => plan = "standard"
  BY DEF PoolInv
<1>1. PICK found \in SUBSET Pool, first \in [Deployment -> Pool],
           selected \in SUBSET Pool :
        /\ selected \subseteq found
        /\ \A d \in Deployment : PoolOn[first[d]] = d /\ first[d] \in selected
        /\ plan = "standard" => selected = {first[d] : d \in Deployment}
        /\ link' = [p \in Pool |-> IF p \notin found THEN Pools!Unlinked
                     ELSE Pools!Linked(p \in selected, p = first[PoolOn[p]])]
        /\ default' = first
        /\ main' = first[Own]
  BY DEF Pools!CreateMultiChainProject, Pools!SinglePool
<1>2. /\ chains' = Deployment /\ status' = "active"
      /\ UNCHANGED <<plan, setup, choices, wasProfessional, imposed>>
  BY DEF Pools!CreateMultiChainProject
<1>3. \A p \in Pool : PoolOn[p] \in Deployment /\ Pools!LinkGroup(p)' = PoolOn[p]
  BY <1>2, PoolAssumption DEF Pools!LinkGroup
<1>4. /\ link' \in [Pool -> PoolLink]
      /\ \A p \in Pool : /\ link'[p].linked <=> p \in found
                         /\ link'[p].selected <=> p \in selected
                         /\ link'[p].primary <=> p \in found /\ p = first[PoolOn[p]]
  <2>1. \A p \in Pool : link'[p] = IF p \notin found THEN Pools!Unlinked
                     ELSE Pools!Linked(p \in selected, p = first[PoolOn[p]])
    BY <1>1
  <2>2. ASSUME NEW p \in Pool
        PROVE  /\ link'[p] \in PoolLink
               /\ link'[p].linked <=> p \in found
               /\ link'[p].selected <=> p \in selected
               /\ link'[p].primary <=> p \in found /\ p = first[PoolOn[p]]
    <3>1. CASE p \notin found
      BY <3>1, <2>1, <1>1 DEF Pools!Unlinked, PoolLink
    <3>2. CASE p \in found
      <4> DEFINE a == p \in selected
                 b == p = first[PoolOn[p]]
      <4>1. a \in BOOLEAN /\ b \in BOOLEAN
        OBVIOUS
      <4>2. link'[p] = [linked |-> TRUE, selected |-> a, primary |-> b]
        BY <3>2, <2>1 DEF Pools!Linked
      <4> HIDE DEF a, b
      <4>3. /\ link'[p] \in PoolLink /\ link'[p].linked
            /\ (link'[p].selected <=> a) /\ (link'[p].primary <=> b)
        BY <4>1, <4>2 DEF PoolLink
      <4> QED
        BY <4>3, <3>2 DEF a, b
    <3> QED
      BY <3>1, <3>2
  <2>3. link' = [p \in Pool |-> link'[p]]
    BY <1>1
  <2>4. link' \in [Pool -> PoolLink]
    BY <2>2, <2>3
  <2> QED
    BY <2>2, <2>4
<1>5. PoolTypes'
  BY <1>0, <1>1, <1>2, <1>4, PoolAssumption DEF PoolTypes
<1>6. LinksInOrder'
  BY <1>1, <1>2, <1>4 DEF LinksInOrder
<1>7. DefaultsInPlace'
  BY <1>1, <1>2, PoolAssumption DEF DefaultsInPlace
<1>8. (~wasProfessional => plan = "standard" /\ OncePerChain)'
  BY <1>0, <1>1, <1>2, <1>3, <1>4 DEF OncePerChain
<1>9. MainPoolsAreWatched'
  <2>1. \A d \in Deployment : link'[first[d]].selected
    BY <1>1, <1>4
  <2>2. \A p, q \in Pool :
             link'[p].primary => /\ link'[p].selected
                                 /\ link'[q].primary /\ Pools!LinkGroup(p)' = Pools!LinkGroup(q)' => p = q
    BY <1>1, <1>3, <1>4
  <2> QED
    BY <2>1, <2>2, <1>1, <1>2, PoolAssumption DEF MainPoolsAreWatched, Pools!MainPoolsAreWatched
<1> QED
  BY <1>5, <1>6, <1>7, <1>8, <1>9 DEF PoolInv

LEMMA DiscoverySound ==
  ASSUME PoolInv, NEW p \in Pool, Pools!EnsureMarketProjectPool(p)
  PROVE  PoolInv'
<1> DEFINE pick == p \in Supported /\ Pools!NoneSelected(p)
<1>0. /\ PoolTypes /\ LinksInOrder /\ DefaultsInPlace
      /\ ~wasProfessional => plan = "standard" /\ OncePerChain
      /\ MainPoolsAreWatched
  BY DEF PoolInv
<1>1. /\ status # "none" /\ Pools!Matches(p)
      /\ link' = IF link[p].linked THEN link ELSE [link EXCEPT ![p] = Pools!Linked(pick, pick)]
      /\ default' = IF pick /\ PoolOn[p] \in chains THEN [default EXCEPT ![PoolOn[p]] = p] ELSE default
      /\ main' = IF pick /\ main = NoPool /\ PoolOn[p] = Own THEN p ELSE main
      /\ imposed' = IF pick /\ link[p].linked THEN imposed \cup {p} ELSE imposed
      /\ UNCHANGED <<plan, status, chains, setup, choices, wasProfessional>>
  BY DEF Pools!EnsureMarketProjectPool
<1>2. /\ pick \in BOOLEAN
      /\ pick => \A q \in Pool : q = p \/ (link[q].linked /\ Pools!LinkGroup(q) = Pools!LinkGroup(p))
                                 => ~link[q].selected
      /\ \A q \in Pool : Pools!LinkGroup(q)' = Pools!LinkGroup(q)
  BY <1>1 DEF Pools!NoneSelected, Pools!Peers, Pools!LinkGroup
<1> HIDE DEF pick
<1>3. /\ link' \in [Pool -> PoolLink]
      /\ \A q \in Pool \ {p} : link'[q] = link[q]
      /\ link[p].linked => link' = link
      /\ ~link[p].linked => /\ link'[p].linked
                            /\ link'[p].selected <=> pick
                            /\ link'[p].primary <=> pick
  <2>1. link \in [Pool -> PoolLink]
    BY <1>0 DEF PoolTypes
  <2>2. Pools!Linked(pick, pick) \in PoolLink
    BY <1>2 DEF Pools!Linked, PoolLink
  <2>3. CASE link[p].linked
    BY <2>1, <2>3, <1>1
  <2>4. CASE ~link[p].linked
    <3>1. link' = [link EXCEPT ![p] = Pools!Linked(pick, pick)]
      BY <2>4, <1>1
    <3>2. link' \in [Pool -> PoolLink] /\ link'[p] = Pools!Linked(pick, pick)
          /\ \A q \in Pool \ {p} : link'[q] = link[q]
      BY <3>1, <2>1, <2>2
    <3> QED
      BY <3>2, <2>4 DEF Pools!Linked
  <2> QED
    BY <2>3, <2>4
<1>4. PoolTypes'
  BY <1>0, <1>1, <1>3 DEF PoolTypes
<1>5. LinksInOrder'
  BY <1>0, <1>1, <1>3 DEF LinksInOrder
<1>6. /\ DOMAIN default' = Deployment
      /\ \A d \in Deployment : default'[d] = IF pick /\ PoolOn[p] = d /\ d \in chains THEN p ELSE default[d]
  BY <1>0, <1>1 DEF PoolTypes
<1>7. DefaultsInPlace'
  <2>1. \A d \in chains : d \in Deployment
    BY <1>0 DEF PoolTypes
  <2> QED
    BY <2>1, <1>0, <1>1, <1>6 DEF DefaultsInPlace
<1>8. (~wasProfessional => plan = "standard" /\ OncePerChain)'
  <2>1. \A q \in Pool : link[q].selected => link[q].linked
    BY <1>0 DEF LinksInOrder
  <2> QED
    BY <2>1, <1>0, <1>1, <1>2, <1>3 DEF OncePerChain
<1>9. MainPoolsAreWatched'
  <2>1. /\ \A d \in chains : default[d] \notin imposed \cup {NoPool} => link[default[d]].selected
        /\ main \notin imposed \cup {NoPool} => link[main].selected
        /\ \A r, q \in Pool :
             link[r].primary => /\ link[r].selected
                                /\ link[q].primary /\ Pools!LinkGroup(r) = Pools!LinkGroup(q) => r = q
    BY <1>0 DEF MainPoolsAreWatched, Pools!MainPoolsAreWatched
  <2>2. \A q \in Pool : link[q].selected => link[q].linked /\ link'[q].selected
    BY <1>0, <1>3 DEF LinksInOrder
  <2>3. \A r, q \in Pool :
             link'[r].primary => /\ link'[r].selected
                                 /\ link'[q].primary /\ Pools!LinkGroup(r)' = Pools!LinkGroup(q)' => r = q
    BY <2>1, <2>2, <1>2, <1>3
  <2>4. p \in imposed' \/ ~pick \/ link'[p].selected
    BY <1>1, <1>3
  <2>5. ASSUME NEW d \in chains, default'[d] \notin imposed' \cup {NoPool}
        PROVE  link'[default'[d]].selected
    <3>1. d \in Deployment /\ default[d] \in Pool \cup {NoPool}
      BY <1>0 DEF PoolTypes
    <3>2. CASE default'[d] = default[d]
      BY <3>1, <3>2, <2>1, <2>2, <2>5, <1>1
    <3>3. CASE pick /\ default'[d] = p
      BY <3>3, <2>4, <2>5
    <3> QED
      BY <3>1, <3>2, <3>3, <1>6
  <2>6. ASSUME main' \notin imposed' \cup {NoPool}
        PROVE  link'[main'].selected
    <3>1. main \in Pool \cup {NoPool}
      BY <1>0 DEF PoolTypes
    <3>2. CASE main' = main
      BY <3>1, <3>2, <2>1, <2>2, <2>6, <1>1
    <3>3. CASE pick /\ main' = p
      BY <3>3, <2>4, <2>6
    <3> QED
      BY <3>2, <3>3, <1>1
  <2> QED
    BY <2>3, <2>5, <2>6, <1>1 DEF MainPoolsAreWatched, Pools!MainPoolsAreWatched
<1> QED
  BY <1>1, <1>4, <1>5, <1>7, <1>8, <1>9 DEF PoolInv

LEMMA PoolsStart == Pools!Init => PoolInv
<1> SUFFICES ASSUME Pools!Init PROVE PoolInv
  OBVIOUS
<1>1. /\ plan \in {"standard", "professional"}
      /\ status = "none" /\ chains = {}
      /\ link = [p \in Pool |-> Pools!Unlinked]
      /\ default = [d \in Deployment |-> NoPool]
      /\ main = NoPool /\ setup = Pools!NoSetup /\ imposed = {}
      /\ wasProfessional = (plan = "professional")
  BY DEF Pools!Init
<1>2. PoolTypes
  <2>1. wasProfessional \in BOOLEAN
    BY <1>1
  <2> QED
    BY <2>1, <1>1 DEF PoolTypes, Pools!Unlinked, PoolLink, Pools!NoSetup
<1>3. LinksInOrder /\ DefaultsInPlace
  BY <1>1 DEF LinksInOrder, DefaultsInPlace, Pools!Unlinked
<1>4. OncePerChain /\ MainPoolsAreWatched
  BY <1>1 DEF OncePerChain, MainPoolsAreWatched, Pools!MainPoolsAreWatched, Pools!Unlinked
<1> QED
  BY <1>1, <1>2, <1>3, <1>4 DEF PoolInv

LEMMA PoolsStep == PoolInv /\ [Pools!Next]_poolVars => PoolInv'
<1> SUFFICES ASSUME PoolInv, [Pools!Next]_poolVars PROVE PoolInv'
  OBVIOUS
<1>0. /\ PoolTypes /\ LinksInOrder /\ DefaultsInPlace
      /\ ~wasProfessional => plan = "standard" /\ OncePerChain
      /\ MainPoolsAreWatched
  BY DEF PoolInv
<1>1. ASSUME UNCHANGED <<chains, link, default, main, imposed>>, PoolTypes',
             status' = "none" => status = "none" /\ setup' = setup,
             wasProfessional' \/ UNCHANGED <<plan, wasProfessional>>
      PROVE  PoolInv'
  <2>1. LinksInOrder' /\ DefaultsInPlace'
    BY <1>0, <1>1 DEF LinksInOrder, DefaultsInPlace
  <2>2. OncePerChain => OncePerChain'
    BY <1>1 DEF OncePerChain, Pools!LinkGroup
  <2>3. MainPoolsAreWatched'
    BY <1>0, <1>1 DEF MainPoolsAreWatched, Pools!MainPoolsAreWatched, Pools!LinkGroup
  <2> QED
    BY <2>1, <2>2, <2>3, <1>0, <1>1 DEF PoolInv
<1>2. CASE UNCHANGED poolVars
  BY <1>0, <1>1, <1>2 DEF poolVars, PoolTypes
<1>3. CASE Pools!CreateProject
  <2>1. UNCHANGED <<plan, chains, link, default, main, choices, wasProfessional, imposed>>
    BY <1>3 DEF Pools!CreateProject
  <2>2. /\ status' \in {"active", "archived"}
        /\ setup' \in [pools : Seq(Pool), wanted : SUBSET Pool, primarySet : BOOLEAN]
    <3>1. PICK n \in 0..Pools!Cardinality(Pool) :
            \E pools \in [1..n -> Pool], asked \in SUBSET Pool :
              LET found == {pools[i] : i \in 1..n}
                  usable == {i \in 1..n : pools[i] \in Supported}
                  wanted1 == IF asked # {} THEN asked
                             ELSE {pools[i] : i \in {j \in usable : \A k \in usable : j <= k}}
              IN /\ \A i, j \in 1..n : pools[i] = pools[j] => i = j
                 /\ \A p \in found : PoolOn[p] = Own
                 /\ IF wanted1 # {} /\ found \cap wanted1 \cap Supported = {}
                    THEN status' = "archived" /\ UNCHANGED setup
                    ELSE /\ status' = "active"
                         /\ setup' = [pools |-> pools, wanted |-> wanted1 \cap Supported,
                                      primarySet |-> FALSE]
      BY <1>3, Zenon DEF Pools!CreateProject
    <3>a. PICK pools \in [1..n -> Pool], asked \in SUBSET Pool :
              LET usable == {i \in 1..n : pools[i] \in Supported}
                  wanted1 == IF asked # {} THEN asked
                             ELSE {pools[i] : i \in {j \in usable : \A k \in usable : j <= k}}
              IN \/ status' = "archived" /\ UNCHANGED setup
                 \/ /\ status' = "active"
                    /\ setup' = [pools |-> pools, wanted |-> wanted1 \cap Supported,
                                 primarySet |-> FALSE]
      BY <3>1, Zenon
    <3> DEFINE usable == {i \in 1..n : pools[i] \in Supported}
               chosen == IF asked # {} THEN asked
                         ELSE {pools[i] : i \in {j \in usable : \A k \in usable : j <= k}}
    <3>2. pools \in Seq(Pool) /\ \A i \in 1..n : pools[i] \in Pool
      BY n \in Nat
    <3>3. chosen \cap Supported \in SUBSET Pool
      BY <3>2
    <3>4. \/ status' = "archived" /\ UNCHANGED setup
          \/ /\ status' = "active"
             /\ setup' = [pools |-> pools, wanted |-> chosen \cap Supported, primarySet |-> FALSE]
      BY <3>a
    <3> HIDE DEF chosen
    <3>5. setup \in [pools : Seq(Pool), wanted : SUBSET Pool, primarySet : BOOLEAN]
      BY <1>0 DEF PoolTypes
    <3>6. CASE status' = "archived" /\ UNCHANGED setup
      BY <3>5, <3>6
    <3>7. CASE /\ status' = "active"
               /\ setup' = [pools |-> pools, wanted |-> chosen \cap Supported, primarySet |-> FALSE]
      <4> DEFINE w == chosen \cap Supported
      <4>1. w \in SUBSET Pool
        BY <3>3
      <4>2. setup' = [pools |-> pools, wanted |-> w, primarySet |-> FALSE]
        BY <3>7
      <4> HIDE DEF w
      <4> QED
        BY <3>2, <3>7, <4>1, <4>2
    <3> QED
      BY <3>4, <3>6, <3>7
  <2>3. PoolTypes'
    BY <2>1, <2>2, <1>0 DEF PoolTypes
  <2> QED
    BY <2>1, <2>2, <2>3, <1>1
<1>4. CASE Pools!LinkFoundPool
  <2> DEFINE p == Head(setup.pools)
             w == p \in setup.wanted
  <2>1. /\ setup.pools # <<>>
        /\ Pools!LinkPool(p, w, w /\ ~setup.primarySet)
        /\ setup' = IF Len(setup.pools) = 1 THEN Pools!NoSetup
                    ELSE [setup EXCEPT !.pools = Tail(@), !.primarySet = @ \/ w]
        /\ UNCHANGED <<plan, status, chains, choices, wasProfessional>>
    BY <1>4 DEF Pools!LinkFoundPool
  <2>2. setup \in [pools : Seq(Pool), wanted : SUBSET Pool, primarySet : BOOLEAN]
    BY <1>0 DEF PoolTypes
  <2>3. p \in Pool /\ Tail(setup.pools) \in Seq(Pool)
    BY <2>1, <2>2
  <2>4. w \in BOOLEAN /\ (w /\ ~setup.primarySet) \in BOOLEAN /\ (setup.primarySet \/ w) \in BOOLEAN
    BY <2>2
  <2>5. setup' \in [pools : Seq(Pool), wanted : SUBSET Pool, primarySet : BOOLEAN]
    <3> HIDE DEF p, w
    <3>1. CASE Len(setup.pools) = 1
      BY <3>1, <2>1 DEF Pools!NoSetup
    <3>2. CASE Len(setup.pools) # 1
      BY <3>2, <2>1, <2>2, <2>3, <2>4
    <3> QED
      BY <3>1, <3>2
  <2>6. status # "none"
    BY <2>1, <1>0 DEF LinksInOrder, Pools!NoSetup
  <2> HIDE DEF p, w
  <2> DEFINE first == w /\ ~setup.primarySet
  <2>7. first \in BOOLEAN /\ Pools!LinkPool(p, w, first)
    BY <2>1, <2>4
  <2> HIDE DEF first
  <2> QED
    BY <2>1, <2>3, <2>4, <2>5, <2>6, <2>7, LinkPoolSound
<1>5. CASE Pools!SetupFails
  <2>1. PoolTypes'
    BY <1>0, <1>5 DEF PoolTypes, Pools!SetupFails, Pools!NoSetup
  <2> QED
    BY <2>1, <1>1, <1>5 DEF Pools!SetupFails
<1>6. ASSUME NEW p \in Pool, NEW selected \in BOOLEAN, NEW primary \in BOOLEAN,
             Pools!SelectPool(p, selected, primary)
      PROVE  PoolInv'
  <2>1. setup' \in [pools : Seq(Pool), wanted : SUBSET Pool, primarySet : BOOLEAN]
    BY <1>0, <1>6 DEF PoolTypes, Pools!SelectPool
  <2> QED
    BY <2>1, <1>6, LinkPoolSound DEF Pools!SelectPool
<1>7. CASE Pools!ChangePlan
  <2>1. PoolTypes'
    BY <1>0, <1>7 DEF PoolTypes, Pools!ChangePlan, Pools!SinglePool
  <2> QED
    BY <2>1, <1>1, <1>7 DEF Pools!ChangePlan
<1> QED
  BY <1>2, <1>3, <1>4, <1>5, <1>6, <1>7, CreationSound, DiscoverySound DEF Pools!Next

(* A project whose plan was never professional has at most one selected pool on
   each chain, whatever it linked, chose or unlinked. *)
THEOREM StandardWatchesOnePoolCorrect == ServicesSpec => []StandardWatchesOnePool
<1>1. PoolInv => StandardWatchesOnePool
  BY DEF PoolInv, OncePerChain, StandardWatchesOnePool, Pools!StandardWatchesOnePool
<1> QED
  BY <1>1, PartsBegin, PartsStep, PoolsStart, PoolsStep, PTL DEF ServicesSpec

(* The main pool of a project is one that it watches, and so is the default of
   each chain. *)
THEOREM MainPoolsAreWatchedCorrect == ServicesSpec => []MainPoolsAreWatched
<1>1. PoolInv => MainPoolsAreWatched
  BY DEF PoolInv
<1> QED
  BY <1>1, PartsBegin, PartsStep, PoolsStart, PoolsStep, PTL DEF ServicesSpec

-----------------------------------------------------------------------------
(* MarketAssets. *)

(* The row of market_asset_deployments of a contract at an asset. *)
Holds(a, t) == [asset |-> a, token |-> t] \in deployment

AssetTypes ==
  /\ \E n \in Nat : DOMAIN asset = 1..n
  /\ deployment \subseteq [asset : DOMAIN asset, token : Token]
  /\ evidence \subseteq [asset : DOMAIN asset, key : (Assets!Identities \cup Token) \X Token,
                         token : Token]
  /\ project \subseteq [user : User, asset : DOMAIN asset,
                        chains : SUBSET {Chain[t] : t \in Token}, chosen : SUBSET Token]

(* A contract stands on one asset, *)
TokenHasOneAsset ==
  \A a, b \in DOMAIN asset, t \in Token : Holds(a, t) /\ Holds(b, t) => a = b

(* whose contracts the catalog lists under one identity. *)
HeldTogether ==
  \A a \in DOMAIN asset, t, u \in Token :
    Holds(a, t) /\ Holds(a, u) /\ t # u => Listing[t] = Listing[u] /\ Listing[t] # Unlisted

(* An asset named for an identity holds contracts of that identity only, one named
   for a contract holds it. *)
NamesAreRight ==
  \A a \in DOMAIN asset :
    /\ asset[a] \in Assets!Identities => \A t \in Token : Holds(a, t) => Listing[t] = asset[a]
    /\ asset[a] \in Token => Holds(a, asset[a])

(* A project's chains are those of its contracts, which are what its asset has there. *)
ChosenAreHeld ==
  \A p \in project :
    /\ p.chains = {Chain[t] : t \in p.chosen}
    /\ \A t \in Token : t \in p.chosen <=> Holds(p.asset, t) /\ Chain[t] \in p.chains

(* The evidence for a contract has it in its key; a project that spans chains has it
   for each of its contracts. *)
EvidenceIsKept ==
  /\ \A e \in evidence : e.key[2] = e.token
  /\ \A p \in project : Assets!Cardinality(p.chosen) > 1 =>
       \A t \in p.chosen : \E e \in evidence : e.asset = p.asset /\ e.token = t

AssetInv == /\ AssetTypes
            /\ TokenHasOneAsset /\ HeldTogether /\ NamesAreRight
            /\ ChosenAreHeld /\ EvidenceIsKept

LEMMA CardinalityOfAssets == \A S : Assets!Cardinality(S) = Cardinality(S)
BY DEF Assets!Cardinality, Cardinality

LEMMA TokensOfAsset ==
  ASSUME AssetTypes, NEW a
  PROVE  \A t : t \in Assets!TokensOf(a) <=> t \in Token /\ Holds(a, t)
<1>1. \A d \in deployment : d = [asset |-> d.asset, token |-> d.token] /\ d.token \in Token
  BY DEF AssetTypes
<1>2. ASSUME NEW t \in Assets!TokensOf(a) PROVE t \in Token /\ Holds(a, t)
  <2>1. PICK d \in deployment : d.asset = a /\ d.token = t
    BY <1>2 DEF Assets!TokensOf
  <2> QED
    BY <2>1, <1>1 DEF Holds
<1>3. ASSUME NEW t \in Token, Holds(a, t) PROVE t \in Assets!TokensOf(a)
  BY <1>3 DEF Holds, Assets!TokensOf
<1> QED
  BY <1>2, <1>3

(* Two contracts of an asset are on two chains: the catalog names one for each. *)
LEMMA OneChainEach ==
  ASSUME HeldTogether, NEW a \in DOMAIN asset, NEW t \in Token, NEW u \in Token,
         Holds(a, t), Holds(a, u), Chain[t] = Chain[u]
  PROVE  t = u
BY CatalogAssumption DEF HeldTogether

(* What the creation of a project takes over: the assets that hold its contracts. *)
Takes(tokens, target, sources) ==
  /\ sources = Assets!Holders(tokens) \ {target}
  /\ deployment' = Assets!Upserted({IF d.asset \in sources THEN Assets!Row(target, d.token) ELSE d :
                                      d \in deployment}, target, tokens)

LEMMA TargetIsKnown ==
  ASSUME AssetInv, NEW tokens \in SUBSET Token, NEW id \in Assets!Identities \cup Token,
         Assets!Accepted(tokens, id), NEW target \in Assets!Targets(tokens, id)
  PROVE  /\ \E n \in Nat : DOMAIN asset \cup {target} = 1..n
         /\ Assets!Holders(tokens) \subseteq DOMAIN asset
         /\ \A a \in Assets!Holders(tokens) : \E t \in tokens : Holds(a, t)
         /\ \A a \in DOMAIN asset, t \in tokens : Holds(a, t) => a \in Assets!Holders(tokens)
         /\ target \notin DOMAIN asset =>
              Assets!Canonical(id) = {} /\ Assets!Holders(tokens) = {}
         /\ target \in DOMAIN asset => asset[target] = id \/ target \in Assets!Holders(tokens)
<1>0. AssetTypes /\ NamesAreRight
  BY DEF AssetInv
<1>1. PICK n \in Nat : DOMAIN asset = 1..n
  BY <1>0 DEF AssetTypes
<1>2. Assets!Cardinality(DOMAIN asset) = n
  <2>1. Cardinality(1..n) = n
    BY FS_Interval
  <2> QED
    BY <1>1, <2>1, CardinalityOfAssets
<1>3. \A d \in deployment :
        /\ d = [asset |-> d.asset, token |-> d.token]
        /\ d.token \in Token /\ d.asset \in DOMAIN asset
  BY <1>0 DEF AssetTypes
<1>4. Assets!Holders(tokens) \subseteq DOMAIN asset
  BY <1>3 DEF Assets!Holders
<1>5. \A a \in Assets!Holders(tokens) : \E t \in tokens : Holds(a, t)
  <2> SUFFICES ASSUME NEW a \in Assets!Holders(tokens) PROVE \E t \in tokens : Holds(a, t)
    OBVIOUS
  <2>1. PICK d \in deployment : d.token \in tokens /\ a = d.asset
    BY DEF Assets!Holders
  <2> QED
    BY <2>1, <1>3 DEF Holds
<1>6. \A a \in DOMAIN asset, t \in tokens : Holds(a, t) => a \in Assets!Holders(tokens)
  BY DEF Holds, Assets!Holders
<1>7. \/ target \in Assets!Canonical(id)
      \/ target \in Assets!Holders(tokens)
      \/ /\ Assets!Canonical(id) = {} /\ Assets!Holders(tokens) = {}
         /\ target = n + 1
  BY <1>2 DEF Assets!Targets
<1>8. target \in DOMAIN asset \/ target = n + 1
  BY <1>4, <1>7 DEF Assets!Canonical
<1>9. \E m \in Nat : DOMAIN asset \cup {target} = 1..m
  <2>1. CASE target \in DOMAIN asset
    BY <1>1, <2>1
  <2>2. CASE target = n + 1
    <3>1. DOMAIN asset \cup {target} = 1..(n + 1)
      BY <1>1, <2>2
    <3> QED
      BY <3>1
  <2> QED
    BY <1>8, <2>1, <2>2
<1>10. target \in DOMAIN asset => asset[target] = id \/ target \in Assets!Holders(tokens)
  BY <1>1, <1>7 DEF Assets!Canonical
<1>11. target \notin DOMAIN asset => Assets!Canonical(id) = {} /\ Assets!Holders(tokens) = {}
  BY <1>4, <1>7 DEF Assets!Canonical
<1> QED
  BY <1>4, <1>5, <1>6, <1>9, <1>10, <1>11

(* The contracts of a request for an identity, and of the assets it takes over,
   are all of that identity; a request for one contract finds it on its asset, or
   nowhere, and takes nothing over. *)
LEMMA WhatIsMerged ==
  ASSUME AssetInv, NEW tokens \in SUBSET Token, NEW id \in Assets!Identities \cup Token,
         Assets!Accepted(tokens, id), NEW target \in Assets!Targets(tokens, id),
         NEW a \in (Assets!Holders(tokens) \cup {target}) \cap DOMAIN asset
  PROVE  /\ id \in Assets!Identities =>
              /\ \A t \in Token : Holds(a, t) => Listing[t] = id
              /\ \A t \in tokens : Listing[t] = id
         /\ id \notin Assets!Identities => tokens = {id} /\ a = target /\ Holds(a, id)
<1>0. AssetTypes /\ TokenHasOneAsset /\ HeldTogether /\ NamesAreRight
  BY DEF AssetInv
<1>1. /\ Assets!Holders(tokens) \subseteq DOMAIN asset
      /\ \A b \in Assets!Holders(tokens) : \E t \in tokens : Holds(b, t)
      /\ target \in DOMAIN asset => asset[target] = id \/ target \in Assets!Holders(tokens)
      /\ target \notin DOMAIN asset => Assets!Holders(tokens) = {}
  BY TargetIsKnown
<1>2. ASSUME id \in Assets!Identities PROVE \A t \in tokens : Listing[t] = id
  BY <1>2, CatalogAssumption DEF Assets!Accepted, Assets!VerifyCrossChainIdentity, Assets!Identities
<1>3. ASSUME id \in Assets!Identities, NEW t \in Token, Holds(a, t) PROVE Listing[t] = id
  <2>1. CASE a \in Assets!Holders(tokens)
    <3>1. PICK u \in tokens : Holds(a, u)
      BY <1>1, <2>1
    <3> QED
      BY <3>1, <1>0, <1>2, <1>3 DEF HeldTogether
  <2>2. CASE asset[a] = id
    BY <2>2, <1>0, <1>3 DEF NamesAreRight
  <2> QED
    BY <1>1, <2>1, <2>2
<1>4. ASSUME id \notin Assets!Identities PROVE tokens = {id} /\ a = target /\ Holds(a, id)
  <2>1. tokens = {id} /\ id \in Token
    BY <1>4 DEF Assets!Accepted
  <2>2. \A b \in Assets!Holders(tokens) : Holds(b, id)
    BY <1>1, <2>1
  <2>3. target \in DOMAIN asset => Holds(target, id)
    BY <1>0, <1>1, <2>1, <2>2 DEF NamesAreRight
  <2>4. Holds(a, id)
    BY <2>2, <2>3
  <2>5. a = target
    BY <1>0, <1>1, <2>1, <2>3, <2>4 DEF TokenHasOneAsset
  <2> QED
    BY <2>1, <2>4, <2>5
<1> QED
  BY <1>2, <1>3, <1>4

(* The upsert loses no contract: what it replaces on a chain of the request is the
   same contract. *)
LEMMA RowsAfter ==
  ASSUME AssetInv, NEW tokens \in SUBSET Token, NEW id \in Assets!Identities \cup Token,
         Assets!Accepted(tokens, id), NEW target \in Assets!Targets(tokens, id),
         NEW sources, Takes(tokens, target, sources)
  PROVE  /\ deployment' \subseteq [asset : DOMAIN asset \cup {target}, token : Token]
         /\ \A t \in Token : Holds(target, t)' <=>
              t \in tokens \/ \E a \in sources \cup {target} : Holds(a, t)
         /\ \A a \in DOMAIN asset \ {target}, t \in Token :
              Holds(a, t)' <=> a \notin sources /\ Holds(a, t)
<1>0. AssetTypes
  BY DEF AssetInv
<1>1. sources = Assets!Holders(tokens) \ {target} /\ sources \subseteq DOMAIN asset
  BY TargetIsKnown DEF Takes
<1> DEFINE rows == {IF d.asset \in sources THEN Assets!Row(target, d.token) ELSE d :
                      d \in deployment}
<1>2. \A d \in deployment :
        /\ d = [asset |-> d.asset, token |-> d.token]
        /\ d.asset \in DOMAIN asset /\ d.token \in Token
  BY <1>0 DEF AssetTypes
<1>3. \A a, t : [asset |-> a, token |-> t] \in rows <=>
        \/ a = target /\ \E s \in sources : Holds(s, t)
        \/ a \notin sources /\ Holds(a, t)
  <2> SUFFICES ASSUME NEW a, NEW t
               PROVE  [asset |-> a, token |-> t] \in rows <=>
                        \/ a = target /\ \E s \in sources : Holds(s, t)
                        \/ a \notin sources /\ Holds(a, t)
    OBVIOUS
  <2>1. ASSUME [asset |-> a, token |-> t] \in rows
        PROVE  \/ a = target /\ \E s \in sources : Holds(s, t)
               \/ a \notin sources /\ Holds(a, t)
    <3>1. PICK d \in deployment :
            [asset |-> a, token |-> t] = IF d.asset \in sources THEN Assets!Row(target, d.token) ELSE d
      BY <2>1
    <3>2. CASE d.asset \in sources
      BY <3>1, <3>2, <1>2 DEF Assets!Row, Holds
    <3>3. CASE d.asset \notin sources
      BY <3>1, <3>3, <1>2 DEF Holds
    <3> QED
      BY <3>2, <3>3
  <2>2. ASSUME NEW s \in sources, Holds(s, t) PROVE [asset |-> target, token |-> t] \in rows
    <3> DEFINE d == [asset |-> s, token |-> t]
    <3>1. d \in deployment /\ d.asset \in sources /\ d.token = t
      BY <2>2 DEF Holds
    <3> QED
      BY <3>1 DEF Assets!Row
  <2>3. ASSUME a \notin sources, Holds(a, t) PROVE [asset |-> a, token |-> t] \in rows
    <3> DEFINE d == [asset |-> a, token |-> t]
    <3>1. d \in deployment /\ d.asset \notin sources
      BY <2>3 DEF Holds
    <3> QED
      BY <3>1
  <2> QED
    BY <2>1, <2>2, <2>3
<1>4. \A d \in rows : /\ d = [asset |-> d.asset, token |-> d.token]
                      /\ d.asset \in DOMAIN asset \cup {target} /\ d.token \in Token
  BY <1>2 DEF Assets!Row
<1>5. deployment' = {d \in rows : ~(d.asset = target /\ \E t \in tokens : Chain[t] = Chain[d.token])}
                      \cup {Assets!Row(target, t) : t \in tokens}
  BY DEF Takes, Assets!Upserted
<1>6. target \notin sources /\ tokens \subseteq Token
  BY <1>1
<1> HIDE DEF rows
<1>7. deployment' \subseteq [asset : DOMAIN asset \cup {target}, token : Token]
  BY <1>4, <1>5, <1>6 DEF Assets!Row
<1>8. ASSUME NEW t \in Token, NEW u \in tokens, NEW a \in sources \cup {target},
             Holds(a, t), Chain[u] = Chain[t]
      PROVE  u = t
  <2>1. a \in (Assets!Holders(tokens) \cup {target}) \cap DOMAIN asset
    BY <1>0, <1>1, <1>2, <1>8 DEF Holds
  <2>2. CASE id \in Assets!Identities
    <3>1. /\ \A x \in Token : Holds(a, x) => Listing[x] = id
          /\ \A x \in tokens : Listing[x] = id
      BY <2>1, <2>2, WhatIsMerged
    <3>2. Listing[t] = id /\ Listing[u] = id /\ id # Unlisted
      BY <2>2, <3>1, <1>8 DEF Assets!Identities
    <3> QED
      BY <3>2, <1>8, CatalogAssumption
  <2>3. CASE id \notin Assets!Identities
    <3>1. tokens = {id} /\ Holds(a, id)
      BY <2>1, <2>3, WhatIsMerged
    <3> QED
      BY <3>1, <2>1, <1>8, OneChainEach DEF AssetInv
  <2> QED
    BY <2>2, <2>3
<1>9. ASSUME NEW t \in Token
      PROVE  Holds(target, t)' <=> t \in tokens \/ \E a \in sources \cup {target} : Holds(a, t)
  <2> DEFINE d == [asset |-> target, token |-> t]
  <2>1. d.asset = target /\ d.token = t /\ d = Assets!Row(target, t)
    BY DEF Assets!Row
  <2>2. \A u \in tokens : d = Assets!Row(target, u) <=> u = t
    BY DEF Assets!Row
  <2>3. d \in rows <=> \E a \in sources \cup {target} : Holds(a, t)
    BY <1>3, <1>6
  <2>4. Holds(target, t)' <=> d \in deployment'
    BY DEF Holds
  <2>5. d \in rows => t \in tokens \/ ~\E u \in tokens : Chain[u] = Chain[t]
    BY <2>3, <1>8
  <2> HIDE DEF d
  <2> QED
    BY <2>1, <2>2, <2>3, <2>4, <2>5, <1>5
<1>10. ASSUME NEW a \in DOMAIN asset \ {target}, NEW t \in Token
       PROVE  Holds(a, t)' <=> a \notin sources /\ Holds(a, t)
  <2> DEFINE d == [asset |-> a, token |-> t]
  <2>1. d.asset = a /\ \A u \in tokens : d # Assets!Row(target, u)
    BY <1>10 DEF Assets!Row
  <2>2. d \in rows <=> a \notin sources /\ Holds(a, t)
    BY <1>3, <1>10
  <2>3. Holds(a, t)' <=> d \in deployment'
    BY DEF Holds
  <2> HIDE DEF d
  <2> QED
    BY <2>1, <2>2, <2>3, <1>5
<1> QED
  BY <1>7, <1>9, <1>10

(* Evidence that is moved, or displaced, leaves evidence for its contract on the
   asset it goes to. *)
LEMMA EvidenceAfter ==
  ASSUME AssetInv, NEW tokens \in SUBSET Token, NEW id \in Assets!Identities \cup Token,
         NEW target, NEW sources, target \notin sources,
         LET kept == Assets!MoveEvidence(sources, target)
             new == Assets!NewEvidence(target, tokens, id)
         IN evidence' = {e \in kept : ~\E n \in new : n.asset = e.asset /\ n.key = e.key} \cup new
  PROVE  /\ evidence' \subseteq [asset : DOMAIN asset \cup {target},
                                 key : (Assets!Identities \cup Token) \X Token, token : Token]
         /\ \A e \in evidence' : e.key[2] = e.token
         /\ \A e \in evidence : \E f \in evidence' :
              /\ f.token = e.token
              /\ f.asset = IF e.asset \in sources THEN target ELSE e.asset
         /\ Assets!Cardinality(tokens) > 1 =>
              \A t \in tokens : \E f \in evidence' : f.asset = target /\ f.token = t
<1> DEFINE A == DOMAIN asset \cup {target}
           Evidence == [asset : A, key : (Assets!Identities \cup Token) \X Token, token : Token]
           kept == Assets!MoveEvidence(sources, target)
           new == Assets!NewEvidence(target, tokens, id)
           Moved(e) == [e EXCEPT !.asset = target]
<1>1. \A e \in evidence : e \in Evidence /\ e.key[2] = e.token
  BY DEF AssetInv, AssetTypes, EvidenceIsKept
<1>2. \A e \in Evidence : /\ Moved(e) \in Evidence /\ Moved(e).asset = target
                          /\ Moved(e).key = e.key /\ Moved(e).token = e.token
  OBVIOUS
<1>3. \A e \in kept : e \in Evidence /\ e.key[2] = e.token
  BY <1>1, <1>2 DEF Assets!MoveEvidence
<1>4. ASSUME NEW e \in new PROVE e \in Evidence /\ e.asset = target /\ e.key[2] = e.token
  <2>1. PICK t \in tokens : e = [asset |-> target, key |-> <<id, t>>, token |-> t]
    BY <1>4 DEF Assets!NewEvidence
  <2> QED
    BY <2>1
<1>5. ASSUME NEW e \in evidence
      PROVE  \E f \in kept : /\ f.token = e.token
                             /\ f.asset = IF e.asset \in sources THEN target ELSE e.asset
  <2>1. CASE e.asset \notin sources
    <3>1. e \in kept
      BY <2>1 DEF Assets!MoveEvidence
    <3> QED
      BY <3>1, <2>1
  <2>2. CASE e.asset \in sources /\ \E x \in evidence : x.asset = target /\ x.key = e.key
    <3>1. PICK x \in evidence : x.asset = target /\ x.key = e.key
      BY <2>2
    <3>2. x \in kept /\ x.token = e.token
      BY <3>1, <1>1 DEF Assets!MoveEvidence
    <3> QED
      BY <3>1, <3>2, <2>2
  <2>3. CASE e.asset \in sources /\ ~\E x \in evidence : x.asset = target /\ x.key = e.key
    <3>1. Moved(e) \in kept
      BY <2>3 DEF Assets!MoveEvidence
    <3> QED
      BY <3>1, <2>3, <1>1, <1>2
  <2> QED
    BY <2>1, <2>2, <2>3
<1>6. Assets!Cardinality(tokens) > 1 => \A t \in tokens : \E f \in new : f.asset = target /\ f.token = t
  <2> SUFFICES ASSUME Assets!Cardinality(tokens) > 1, NEW t \in tokens
               PROVE  \E f \in new : f.asset = target /\ f.token = t
    OBVIOUS
  <2> DEFINE f == [asset |-> target, key |-> <<id, t>>, token |-> t]
  <2>1. f \in new /\ f.asset = target /\ f.token = t
    BY DEF Assets!NewEvidence
  <2> QED
    BY <2>1
<1>7. evidence' = {e \in kept : ~\E n \in new : n.asset = e.asset /\ n.key = e.key} \cup new
  OBVIOUS
<1> HIDE DEF kept, new, Evidence
<1>8. \A e \in kept : \E f \in evidence' : f.token = e.token /\ f.asset = e.asset
  <2> SUFFICES ASSUME NEW e \in kept
               PROVE  \E f \in evidence' : f.token = e.token /\ f.asset = e.asset
    OBVIOUS
  <2>1. CASE \E n \in new : n.asset = e.asset /\ n.key = e.key
    BY <2>1, <1>3, <1>4, <1>7
  <2>2. CASE ~\E n \in new : n.asset = e.asset /\ n.key = e.key
    BY <2>2, <1>7
  <2> QED
    BY <2>1, <2>2
<1>9. evidence' \subseteq Evidence /\ \A e \in evidence' : e.key[2] = e.token
  BY <1>3, <1>4, <1>7
<1>10. \A e \in evidence : \E f \in evidence' :
         /\ f.token = e.token
         /\ f.asset = IF e.asset \in sources THEN target ELSE e.asset
  BY <1>5, <1>8
<1>11. Assets!Cardinality(tokens) > 1 =>
         \A t \in tokens : \E f \in evidence' : f.asset = target /\ f.token = t
  BY <1>6, <1>7
<1> QED
  BY <1>9, <1>10, <1>11 DEF Evidence

LEMMA CreateProjectStep ==
  ASSUME AssetInv, NEW u \in User, NEW tokens \in SUBSET Token,
         NEW id \in Assets!Identities \cup Token,
         Assets!CreateMultiChainMarketProject(u, tokens, id)
  PROVE  AssetInv'
<1>0. /\ AssetTypes /\ TokenHasOneAsset /\ HeldTogether
      /\ NamesAreRight /\ ChosenAreHeld /\ EvidenceIsKept
  BY DEF AssetInv
<1>1. Assets!Accepted(tokens, id)
  BY DEF Assets!CreateMultiChainMarketProject
<1>2. PICK target \in Assets!Targets(tokens, id) :
        LET sources == Assets!Holders(tokens) \ {target}
            moved == {Assets!MoveProjects(sources, target, p) : p \in project}
            rows == {IF d.asset \in sources THEN Assets!Row(target, d.token) ELSE d : d \in deployment}
        IN /\ asset' = [a \in DOMAIN asset \cup {target} |-> IF a = target THEN id
                        ELSE IF a \in sources THEN Unlisted ELSE asset[a]]
           /\ deployment' = Assets!Upserted(rows, target, tokens)
           /\ LET kept == Assets!MoveEvidence(sources, target)
                  new == Assets!NewEvidence(target, tokens, id)
              IN evidence' = {e \in kept : ~\E n \in new : n.asset = e.asset /\ n.key = e.key} \cup new
           /\ project' = moved \cup
                {[user |-> u, asset |-> target,
                  chains |-> {Chain[t] : t \in tokens}, chosen |-> tokens]}
  BY Zenon DEF Assets!CreateMultiChainMarketProject
<1> DEFINE sources == Assets!Holders(tokens) \ {target}
           A == DOMAIN asset \cup {target}
           Goes(a) == IF a \in sources THEN target ELSE a
           new == [user |-> u, asset |-> target,
                   chains |-> {Chain[t] : t \in tokens}, chosen |-> tokens]
<1>3. /\ \E n \in Nat : A = 1..n
      /\ sources \subseteq DOMAIN asset
      /\ target \notin DOMAIN asset => Assets!Canonical(id) = {} /\ sources = {}
      /\ \A a \in DOMAIN asset, t \in tokens : Holds(a, t) => a \in sources \cup {target}
  BY <1>1, TargetIsKnown
<1>4. /\ DOMAIN asset' = A /\ asset'[target] = id
      /\ \A a \in DOMAIN asset \ {target} :
           asset'[a] = IF a \in sources THEN Unlisted ELSE asset[a]
  BY <1>2
<1>5. Takes(tokens, target, sources)
  BY <1>2 DEF Takes
<1>6. target \notin sources
  OBVIOUS
<1>7. /\ evidence' \subseteq [asset : A, key : (Assets!Identities \cup Token) \X Token, token : Token]
      /\ \A e \in evidence' : e.key[2] = e.token
      /\ \A e \in evidence : \E f \in evidence' : f.token = e.token /\ f.asset = Goes(e.asset)
      /\ Assets!Cardinality(tokens) > 1 =>
           \A t \in tokens : \E f \in evidence' : f.asset = target /\ f.token = t
  <2>1. LET kept == Assets!MoveEvidence(sources, target)
            n == Assets!NewEvidence(target, tokens, id)
        IN evidence' = {e \in kept : ~\E x \in n : x.asset = e.asset /\ x.key = e.key} \cup n
    BY <1>2
  <2> HIDE DEF sources
  <2> QED
    BY <1>6, <2>1, EvidenceAfter
<1>8. /\ deployment' \subseteq [asset : A, token : Token]
      /\ \A t \in Token : Holds(target, t)' <=>
           t \in tokens \/ \E a \in sources \cup {target} : Holds(a, t)
      /\ \A a \in DOMAIN asset \ {target}, t \in Token :
           Holds(a, t)' <=> a \notin sources /\ Holds(a, t)
  <2> HIDE DEF sources
  <2> QED
    BY <1>1, <1>5, RowsAfter
<1>9. \A p \in project : /\ p \in [user : User, asset : DOMAIN asset,
                                   chains : SUBSET {Chain[t] : t \in Token}, chosen : SUBSET Token]
                         /\ Assets!MoveProjects(sources, target, p) \in
                              [user : User, asset : A,
                               chains : SUBSET {Chain[t] : t \in Token}, chosen : SUBSET Token]
                         /\ Assets!MoveProjects(sources, target, p).asset = Goes(p.asset)
                         /\ Assets!MoveProjects(sources, target, p).chains = p.chains
                         /\ Assets!MoveProjects(sources, target, p).chosen = p.chosen
  <2> SUFFICES ASSUME NEW p \in project
               PROVE  /\ p \in [user : User, asset : DOMAIN asset,
                                chains : SUBSET {Chain[t] : t \in Token}, chosen : SUBSET Token]
                      /\ Assets!MoveProjects(sources, target, p) \in
                           [user : User, asset : A,
                            chains : SUBSET {Chain[t] : t \in Token}, chosen : SUBSET Token]
                      /\ Assets!MoveProjects(sources, target, p).asset = Goes(p.asset)
                      /\ Assets!MoveProjects(sources, target, p).chains = p.chains
                      /\ Assets!MoveProjects(sources, target, p).chosen = p.chosen
    OBVIOUS
  <2>1. p \in [user : User, asset : DOMAIN asset,
               chains : SUBSET {Chain[t] : t \in Token}, chosen : SUBSET Token]
    BY <1>0 DEF AssetTypes
  <2> HIDE DEF sources
  <2> QED
    BY <2>1 DEF Assets!MoveProjects
<1>10. project' = {Assets!MoveProjects(sources, target, p) : p \in project} \cup {new}
  BY <1>2
<1> HIDE DEF sources
<1>11. AssetTypes'
  <2>1. new \in [user : User, asset : A,
                 chains : SUBSET {Chain[t] : t \in Token}, chosen : SUBSET Token]
    OBVIOUS
  <2>2. project' \subseteq [user : User, asset : A,
                            chains : SUBSET {Chain[t] : t \in Token}, chosen : SUBSET Token]
    <3> HIDE DEF new
    <3> QED
      BY <1>9, <1>10, <2>1
  <2>3. Assets!Identities' = Assets!Identities
    BY DEF Assets!Identities
  <2> QED
    BY <1>3, <1>4, <1>7, <1>8, <2>2, <2>3 DEF AssetTypes
<1>12. \A a, t : Holds(a, t) => a \in DOMAIN asset /\ t \in Token
  BY <1>0 DEF AssetTypes, Holds
<1>13. \A a \in (sources \cup {target}) \cap DOMAIN asset :
         a \in (Assets!Holders(tokens) \cup {target}) \cap DOMAIN asset
  BY DEF sources
<1>14. ASSUME id \in Assets!Identities
       PROVE  \A t \in Token : Holds(target, t)' => Listing[t] = id /\ id # Unlisted
  <2> SUFFICES ASSUME NEW t \in Token, Holds(target, t)' PROVE Listing[t] = id
    BY <1>14 DEF Assets!Identities
  <2>1. CASE t \in tokens
    BY <1>1, <1>14, <2>1, CatalogAssumption
       DEF Assets!Accepted, Assets!VerifyCrossChainIdentity, Assets!Identities
  <2>2. ASSUME NEW a \in sources \cup {target}, Holds(a, t) PROVE Listing[t] = id
    <3>1. a \in (Assets!Holders(tokens) \cup {target}) \cap DOMAIN asset
      BY <2>2, <1>12, <1>13
    <3>2. \A x \in Token : Holds(a, x) => Listing[x] = id
      BY <3>1, <1>1, <1>14, WhatIsMerged
    <3> QED
      BY <3>2, <2>2
  <2> QED
    BY <2>1, <2>2, <1>8
<1>15. ASSUME id \notin Assets!Identities
       PROVE  /\ tokens = {id} /\ id \in Token /\ Holds(target, id)'
              /\ \A t \in Token : Holds(target, t)' => t = id \/ (Holds(target, id) /\ Holds(target, t))
  <2>1. tokens = {id} /\ id \in Token
    BY <1>1, <1>15 DEF Assets!Accepted
  <2>2. \A a \in (sources \cup {target}) \cap DOMAIN asset : a = target /\ Holds(a, id)
    BY <1>1, <1>13, <1>15, WhatIsMerged
  <2>3. \A a \in sources \cup {target}, t \in Token : Holds(a, t) => a = target /\ Holds(target, id)
    BY <2>2, <1>12
  <2> QED
    BY <2>1, <2>3, <1>8
<1>16. HeldTogether'
  <2> SUFFICES ASSUME NEW a \in A, NEW t \in Token, NEW v \in Token,
                      Holds(a, t)', Holds(a, v)', t # v
               PROVE  Listing[t] = Listing[v] /\ Listing[t] # Unlisted
    BY <1>4 DEF HeldTogether
  <2>1. CASE a # target
    BY <2>1, <1>0, <1>8 DEF HeldTogether
  <2>2. CASE a = target /\ id \in Assets!Identities
    BY <2>2, <1>14
  <2>3. CASE a = target /\ id \notin Assets!Identities
    <3>1. Holds(target, t) /\ Holds(target, v)
      BY <2>3, <1>15
    <3> QED
      BY <3>1, <1>0, <1>12 DEF HeldTogether
  <2> QED
    BY <2>1, <2>2, <2>3
<1>17. TokenHasOneAsset'
  <2>1. ASSUME NEW b \in DOMAIN asset \ {target}, NEW t \in Token, Holds(target, t)', Holds(b, t)'
        PROVE  FALSE
    <3>1. b \notin sources /\ Holds(b, t)
      BY <2>1, <1>8
    <3>2. CASE t \in tokens
      BY <2>1, <3>1, <3>2, <1>3
    <3>3. ASSUME NEW s \in sources \cup {target}, Holds(s, t) PROVE FALSE
      BY <2>1, <3>1, <3>3, <1>0, <1>12 DEF TokenHasOneAsset
    <3> QED
      BY <2>1, <3>2, <3>3, <1>8
  <2>2. ASSUME NEW a \in DOMAIN asset \ {target}, NEW b \in DOMAIN asset \ {target}, NEW t \in Token,
               Holds(a, t)', Holds(b, t)'
        PROVE  a = b
    BY <2>2, <1>0, <1>8 DEF TokenHasOneAsset
  <2> QED
    BY <2>1, <2>2, <1>4 DEF TokenHasOneAsset
<1>18. NamesAreRight'
  <2>1. ASSUME NEW a \in DOMAIN asset \ {target}
        PROVE  /\ asset'[a] \in Assets!Identities =>
                    \A t \in Token : Holds(a, t)' => Listing[t] = asset'[a]
               /\ asset'[a] \in Token => Holds(a, asset[a])'
    <3>1. CASE a \in sources
      BY <2>1, <3>1, <1>4, CatalogAssumption DEF Assets!Identities
    <3>2. CASE a \notin sources
      BY <2>1, <3>2, <1>0, <1>4, <1>8 DEF NamesAreRight
    <3> QED
      BY <3>1, <3>2
  <2>2. /\ id \in Assets!Identities => \A t \in Token : Holds(target, t)' => Listing[t] = id
        /\ id \in Token => Holds(target, id)'
    BY <1>14, <1>15, CatalogAssumption DEF Assets!Identities
  <2>3. Assets!Identities' = Assets!Identities
    BY DEF Assets!Identities
  <2> QED
    BY <2>1, <2>2, <2>3, <1>4 DEF NamesAreRight
<1>19. ASSUME NEW chosen \in SUBSET Token, \A t \in chosen : Holds(target, t)',
              NEW t \in Token, Holds(target, t)', Chain[t] \in {Chain[v] : v \in chosen}
       PROVE  t \in chosen
  <2>1. PICK v \in chosen : Chain[v] = Chain[t]
    BY <1>19
  <2> QED
    BY <2>1, <1>4, <1>16, <1>19, CatalogAssumption DEF HeldTogether
<1>20. ChosenAreHeld'
  <2>1. ASSUME NEW p \in project
        PROVE  /\ p.chains = {Chain[t] : t \in p.chosen}
               /\ \A a, t : a = Goes(p.asset) /\ t \in Token =>
                    (t \in p.chosen <=> Holds(a, t)' /\ Chain[t] \in p.chains)
    <3>1. /\ p.chains = {Chain[t] : t \in p.chosen}
          /\ \A t \in Token : t \in p.chosen <=> Holds(p.asset, t) /\ Chain[t] \in p.chains
          /\ p.asset \in DOMAIN asset /\ p.chosen \in SUBSET Token
      BY <1>0, <1>9 DEF ChosenAreHeld
    <3>2. CASE p.asset \notin sources \cup {target}
      BY <3>1, <3>2, <1>8
    <3>3. CASE p.asset \in sources \cup {target}
      <4>1. Goes(p.asset) = target
        BY <3>3
      <4>2. \A t \in p.chosen : Holds(target, t)' /\ Chain[t] \in p.chains
        BY <3>1, <3>3, <1>8
      <4>3. \A t \in Token : Holds(target, t)' /\ Chain[t] \in p.chains => t \in p.chosen
        BY <3>1, <4>2, <1>19
      <4> QED
        BY <3>1, <4>1, <4>2, <4>3
    <3> QED
      BY <3>2, <3>3
  <2>2. \A t \in Token : t \in tokens <=> Holds(target, t)' /\ Chain[t] \in {Chain[v] : v \in tokens}
    <3>1. \A t \in tokens : Holds(target, t)'
      BY <1>8
    <3>2. \A t \in Token : Holds(target, t)' /\ Chain[t] \in {Chain[v] : v \in tokens} => t \in tokens
      BY <3>1, <1>19
    <3> QED
      BY <3>1, <3>2
  <2>3. new.asset = target /\ new.chains = {Chain[t] : t \in tokens} /\ new.chosen = tokens
    OBVIOUS
  <2> HIDE DEF new
  <2> SUFFICES ASSUME NEW q \in project'
               PROVE  /\ q.chains = {Chain[t] : t \in q.chosen}
                      /\ \A t \in Token : t \in q.chosen <=> Holds(q.asset, t)' /\ Chain[t] \in q.chains
    BY DEF ChosenAreHeld
  <2>4. CASE q = new
    BY <2>2, <2>3, <2>4
  <2>5. ASSUME NEW p \in project, q = Assets!MoveProjects(sources, target, p)
        PROVE  /\ q.chains = {Chain[t] : t \in q.chosen}
               /\ \A t \in Token : t \in q.chosen <=> Holds(q.asset, t)' /\ Chain[t] \in q.chains
    <3>1. q.asset = Goes(p.asset) /\ q.chains = p.chains /\ q.chosen = p.chosen
      BY <2>5, <1>9
    <3> QED
      BY <2>1, <3>1
  <2> QED
    BY <2>4, <2>5, <1>10
<1>21. EvidenceIsKept'
  <2>1. new.asset = target /\ new.chosen = tokens
    OBVIOUS
  <2> HIDE DEF new
  <2>2. ASSUME NEW q \in project', Assets!Cardinality(q.chosen) > 1, NEW t \in q.chosen
        PROVE  \E e \in evidence' : e.asset = q.asset /\ e.token = t
    <3>1. CASE q = new
      BY <2>1, <2>2, <3>1, <1>7
    <3>2. ASSUME NEW p \in project, q = Assets!MoveProjects(sources, target, p)
          PROVE  \E e \in evidence' : e.asset = q.asset /\ e.token = t
      <4>1. q.asset = Goes(p.asset) /\ q.chosen = p.chosen
        BY <3>2, <1>9
      <4>2. PICK e \in evidence : e.asset = p.asset /\ e.token = t
        BY <4>1, <2>2, <1>0 DEF EvidenceIsKept
      <4> QED
        BY <4>1, <4>2, <1>7
    <3> QED
      BY <3>1, <3>2, <1>10
  <2> QED
    BY <2>2, <1>7, CardinalityOfAssets DEF EvidenceIsKept
<1> QED
  BY <1>11, <1>16, <1>17, <1>18, <1>20, <1>21 DEF AssetInv

LEMMA AssetsStart == Assets!Init => AssetInv
<1> SUFFICES ASSUME Assets!Init PROVE AssetInv
  OBVIOUS
<1>1. DOMAIN asset = 1..0 /\ deployment = {} /\ evidence = {} /\ project = {}
  BY DEF Assets!Init
<1> QED
  BY <1>1 DEF AssetInv, AssetTypes, TokenHasOneAsset, HeldTogether, NamesAreRight,
              ChosenAreHeld, EvidenceIsKept, Holds

LEMMA AssetsStep == AssetInv /\ [Assets!Next]_assetVars => AssetInv'
<1> SUFFICES ASSUME AssetInv, [Assets!Next]_assetVars PROVE AssetInv'
  OBVIOUS
<1> USE DEF AssetInv, AssetTypes, TokenHasOneAsset, HeldTogether, NamesAreRight,
            ChosenAreHeld, EvidenceIsKept, Holds, Assets!Identities
<1>1. CASE UNCHANGED assetVars
  BY <1>1, CardinalityOfAssets DEF assetVars
<1>2. ASSUME NEW p \in project, Assets!DeleteMarketProject(p) PROVE AssetInv'
  <2>1. project' \subseteq project /\ UNCHANGED <<asset, deployment, evidence>>
    BY <1>2 DEF Assets!DeleteMarketProject
  <2> QED
    BY <2>1, CardinalityOfAssets
<1> QED
  BY <1>1, <1>2, CreateProjectStep DEF Assets!Next

(* docs/cross-chain-identity-verification.md: however the creations of projects
   rename, extend and merge the assets they share, two contracts of one asset have
   one identity in the catalog. *)
THEOREM AssetsAreVerifiedCorrect == ServicesSpec => []AssetsAreVerified
<1>1. AssetInv => AssetsAreVerified
  BY TokensOfAsset DEF AssetInv, HeldTogether, AssetsAreVerified, Assets!AssetsAreVerified
<1> QED
  BY <1>1, PartsBegin, PartsStep, AssetsStart, AssetsStep, PTL DEF ServicesSpec

(* A project keeps the contracts its user chose, and the evidence for them, through
   all that others create. *)
THEOREM ProjectsKeepTheirTokensCorrect == ServicesSpec => []ProjectsKeepTheirTokens
<1>1. ASSUME AssetInv PROVE ProjectsKeepTheirTokens
  <2> SUFFICES ASSUME NEW p \in project PROVE Assets!Current(p) = p.chosen
    BY <1>1 DEF AssetInv, EvidenceIsKept, ProjectsKeepTheirTokens, Assets!ProjectsKeepTheirTokens
  <2>1. p.chosen \subseteq Token
    BY <1>1 DEF AssetInv, AssetTypes
  <2>2. \A t : t \in Assets!TokensOf(p.asset) <=> t \in Token /\ Holds(p.asset, t)
    BY <1>1, TokensOfAsset DEF AssetInv
  <2> QED
    BY <1>1, <2>1, <2>2 DEF AssetInv, ChosenAreHeld, Assets!Current
<1> QED
  BY <1>1, PartsBegin, PartsStep, AssetsStart, AssetsStep, PTL DEF ServicesSpec

-----------------------------------------------------------------------------
(* SnapshotRules. *)

TargetState == [last : Nat, active : BOOLEAN, pending : BOOLEAN, alertedAt : Int]
RuleResult == [last : Nat, active : BOOLEAN, pending : BOOLEAN, trigger : BOOLEAN]
PassPlace == [pc : {"idle", "evaluate", "announce", "save"}, at : Int, alertedAt : Int,
              created : BOOLEAN, total : BOOLEAN, result : RuleResult]
AlertRow == [pool : Crossings!Pools, snapshot : Nat, at : Int]

RuleTypes ==
  /\ clock \in Nat
  /\ latest \in [Crossings!Pools -> [id : Nat, met : BOOLEAN]]
  /\ states \in [Crossings!Pools -> TargetState]
  /\ ruleAlertedAt \in Int
  /\ pass \in PassPlace
  /\ stops \in Nat
  /\ alertRows \subseteq AlertRow
  /\ run \in [Crossings!Pools -> SUBSET Nat]

(* A pool is being evaluated: its result is not saved yet; or its alert is, and its
   state is not. *)
Evaluating == pass.pc \in {"announce", "save"}
Announcing(p) == pass.pc = "save" /\ pass.result.trigger /\ p = Crossings!Current

(* A snapshot is evaluated once and for all: a newer one has a higher id. *)
StatesAreOfSnapshots ==
  \A p \in Crossings!Pools :
    /\ states[p].last <= latest[p].id
    /\ states[p].last = latest[p].id => (latest[p].met <=> states[p].active)
ResultIsOfSnapshot ==
  Evaluating =>
    LET p == Crossings!Current
        e == pass.result
    IN /\ pass.at \in DOMAIN RulePools
       /\ states[p].last <= e.last /\ e.last <= latest[p].id
       /\ e.last = states[p].last => (e.active <=> states[p].active)
       /\ e.last = latest[p].id => (latest[p].met <=> e.active)

(* What the evaluation decides from the state it found. *)
ResultFollows ==
  Evaluating =>
    LET p == Crossings!Current
        e == pass.result
    IN /\ e.trigger \/ e.pending => e.active
       /\ ~(e.trigger /\ e.pending)
       /\ e.active /\ ~e.pending /\ ~e.trigger => states[p].active /\ ~states[p].pending
       /\ ~Repeats /\ (e.trigger \/ e.pending) => states[p].pending \/ ~states[p].active
       /\ pass.pc = "announce" => e.trigger
       /\ pass.pc = "save" /\ e.trigger => Crossings!Announced(p, e.last)

(* The run of a condition begins with the snapshot in which it came true. *)
RunsAreOfConditions ==
  \A p \in Crossings!Pools :
    /\ IF states[p].active THEN states[p].last \in run[p] ELSE run[p] = {}
    /\ states[p].pending => states[p].active

RunIsAnnounced ==
  \A p \in Crossings!Pools : states[p].active /\ ~states[p].pending =>
    \E a \in alertRows : a.pool = p /\ a.snapshot \in run[p]

(* Of a snapshot there is one alert; without cut passes, of one the state has seen,
   and one in a run unless the rule repeats, none while the run waits. *)
OneAlertASnapshot ==
  \A a, b \in alertRows : a.pool = b.pool /\ a.snapshot = b.snapshot => a = b
AlertsAreSaved ==
  stops = 0 => \A a \in alertRows :
    \/ a.snapshot <= states[a.pool].last
    \/ Announcing(a.pool) /\ a.snapshot = pass.result.last
OneAlertARun ==
  stops = 0 /\ ~Repeats =>
    /\ \A a, b \in alertRows :
         a.pool = b.pool /\ a.snapshot \in run[a.pool] /\ b.snapshot \in run[a.pool] => a = b
    /\ \A a \in alertRows : a.snapshot \in run[a.pool] /\ states[a.pool].pending =>
         Announcing(a.pool) /\ a.snapshot = pass.result.last

(* The times of alerts are known where the cooldown is looked up, or about to be. *)
AlertTimesAreKnown ==
  stops = 0 => \A a \in alertRows :
    /\ a.at <= clock
    /\ CooldownScope = "chain" => \/ a.at <= states[a.pool].alertedAt
                                  \/ pass.created /\ a.pool = Crossings!Current
    /\ CooldownScope = "project" => IF pass.pc = "idle" THEN a.at <= ruleAlertedAt
                                    ELSE a.at <= pass.alertedAt \/ pass.created
PassKnowsRule ==
  /\ pass.created => pass.pc = "save"
  /\ pass.pc # "idle" /\ ~pass.total /\ CooldownScope = "project" => pass.alertedAt = ruleAlertedAt
CooldownIsOver == pass.pc = "announce" => Crossings!LastAlert(Crossings!Current) + Cooldown <= clock

RuleInv == /\ RuleTypes
           /\ StatesAreOfSnapshots /\ ResultIsOfSnapshot /\ ResultFollows
           /\ RunsAreOfConditions /\ RunIsAnnounced
           /\ OneAlertASnapshot /\ AlertsAreSaved /\ OneAlertARun
           /\ AlertTimesAreKnown /\ PassKnowsRule /\ CooldownIsOver
           /\ Crossings!CooldownKept

LEMMA CurrentIsAPool ==
  ASSUME pass.at \in DOMAIN RulePools
  PROVE  Crossings!Current \in Crossings!Pools
BY DEF Crossings!Current, Crossings!Pools

LEMMA IdleIsAPlace ==
  Crossings!PassIdle \in PassPlace /\ Crossings!PassIdle.pc = "idle" /\ Crossings!PassIdle.at = 1
  /\ ~Crossings!PassIdle.created /\ ~Crossings!PassIdle.total
BY SnapshotAssumption DEF Crossings!PassIdle, PassPlace, RuleResult, Crossings!Never

LEMMA RulesStart == Crossings!Init => RuleInv
<1> SUFFICES ASSUME Crossings!Init PROVE RuleInv
  OBVIOUS
<1>1. /\ pass \in PassPlace /\ pass.pc = "idle" /\ ~pass.created
      /\ stops = 0 /\ clock = 0 /\ alertRows = {}
  BY IdleIsAPlace DEF Crossings!Init
<1>2. /\ Crossings!NoState \in TargetState /\ Crossings!NoState.last = 0
      /\ ~Crossings!NoState.active /\ ~Crossings!NoState.pending
  BY SnapshotAssumption DEF Crossings!NoState, TargetState, Crossings!Never
<1>3. \A p \in Crossings!Pools : states[p] = Crossings!NoState /\ latest[p] = Crossings!NoSnapshot
                                 /\ run[p] = {}
  BY DEF Crossings!Init
<1>4. RuleTypes
  BY <1>1, <1>2, SnapshotAssumption
     DEF Crossings!Init, RuleTypes, Crossings!NoSnapshot, Crossings!Never
<1>5. StatesAreOfSnapshots
  BY <1>2, <1>3 DEF StatesAreOfSnapshots, Crossings!NoSnapshot
<1>6. RunsAreOfConditions /\ RunIsAnnounced
  BY <1>2, <1>3 DEF RunsAreOfConditions, RunIsAnnounced
<1> QED
  BY <1>1, <1>4, <1>5, <1>6
     DEF RuleInv, Evaluating, ResultIsOfSnapshot, ResultFollows, OneAlertASnapshot,
         AlertsAreSaved, OneAlertARun, AlertTimesAreKnown, PassKnowsRule, CooldownIsOver,
         Crossings!CooldownKept

(* A pass that is given up leaves the states and the alerts that it has written. *)
LEMMA StopStep ==
  ASSUME RuleInv, Crossings!StopPass
  PROVE  RuleInv'
<1>1. /\ stops' \in Nat /\ stops' # 0 /\ pass' = Crossings!PassIdle
      /\ UNCHANGED <<clock, latest, states, ruleAlertedAt, alertRows, run>>
  BY DEF RuleInv, RuleTypes, Crossings!StopPass
<1>2. pass' \in PassPlace /\ pass'.pc = "idle" /\ ~pass'.created
  BY <1>1, IdleIsAPlace
<1>3. RuleTypes'
  BY <1>1, <1>2 DEF RuleInv, RuleTypes, Crossings!Pools, AlertRow
<1> QED
  BY <1>1, <1>2, <1>3
     DEF RuleInv, StatesAreOfSnapshots, ResultIsOfSnapshot, ResultFollows, Evaluating,
         RunsAreOfConditions, RunIsAnnounced, OneAlertASnapshot, AlertsAreSaved, OneAlertARun,
         AlertTimesAreKnown, PassKnowsRule, CooldownIsOver, Crossings!CooldownKept,
         Crossings!Pools

LEMMA CaptureStep ==
  ASSUME RuleInv, Crossings!CaptureSnapshot
  PROVE  RuleInv'
<1>1. PICK p \in Crossings!Pools, id \in 1..MaxSnapshots, met \in BOOLEAN :
        /\ \A q \in Crossings!Pools : latest[q].id < id
        /\ latest' = [latest EXCEPT ![p] = [id |-> id, met |-> met]]
  BY DEF Crossings!CaptureSnapshot
<1>2. UNCHANGED <<clock, states, ruleAlertedAt, pass, stops, alertRows, run>>
  BY DEF Crossings!CaptureSnapshot
<1>3. /\ latest' \in [Crossings!Pools -> [id : Nat, met : BOOLEAN]]
      /\ \A q \in Crossings!Pools : latest'[q] = latest[q] \/ latest[q].id < latest'[q].id
  BY <1>1 DEF RuleInv, RuleTypes
<1>4. \A q \in Crossings!Pools : latest[q].id \in Nat /\ latest'[q].id \in Nat
  BY <1>3 DEF RuleInv, RuleTypes
<1>5. RuleTypes'
  BY <1>2, <1>3 DEF RuleInv, RuleTypes, Crossings!Pools, AlertRow
<1>6. StatesAreOfSnapshots'
  <2>1. \A q \in Crossings!Pools : states[q].last \in Nat
    BY DEF RuleInv, RuleTypes, TargetState
  <2> QED
    BY <2>1, <1>2, <1>3, <1>4 DEF RuleInv, StatesAreOfSnapshots, Crossings!Pools
<1>7. ResultIsOfSnapshot'
  <2> SUFFICES ASSUME Evaluating
               PROVE  LET q == Crossings!Current
                          e == pass.result
                      IN /\ pass.at \in DOMAIN RulePools
                         /\ states[q].last <= e.last /\ e.last <= latest'[q].id
                         /\ e.last = states[q].last => (e.active <=> states[q].active)
                         /\ e.last = latest'[q].id => (latest'[q].met <=> e.active)
    BY <1>2 DEF ResultIsOfSnapshot, Evaluating, Crossings!Current
  <2>1. Crossings!Current \in Crossings!Pools /\ pass.result.last \in Nat
    BY CurrentIsAPool DEF RuleInv, ResultIsOfSnapshot, RuleTypes, PassPlace, RuleResult
  <2> QED
    BY <2>1, <1>3, <1>4 DEF RuleInv, ResultIsOfSnapshot
<1> QED
  BY <1>2, <1>5, <1>6, <1>7
     DEF RuleInv, ResultFollows, Evaluating, Crossings!Current, Crossings!Announced,
         RunsAreOfConditions, RunIsAnnounced, OneAlertASnapshot, AlertsAreSaved, OneAlertARun,
         AlertTimesAreKnown, PassKnowsRule, CooldownIsOver, Crossings!CooldownKept,
         Crossings!Pools, Crossings!LastAlert, Announcing

LEMMA TickStep ==
  ASSUME RuleInv, Crossings!Tick
  PROVE  RuleInv'
<1>1. /\ clock \in Nat /\ clock' = clock + 1
      /\ UNCHANGED <<latest, states, ruleAlertedAt, pass, stops, alertRows, run>>
  BY DEF RuleInv, RuleTypes, Crossings!Tick
<1>2. RuleTypes'
  BY <1>1 DEF RuleInv, RuleTypes, Crossings!Pools, AlertRow
<1>3. AlertTimesAreKnown'
  <2>1. \A a \in alertRows : a.at \in Int
    BY DEF RuleInv, RuleTypes, AlertRow
  <2> QED
    BY <2>1, <1>1 DEF RuleInv, AlertTimesAreKnown, Crossings!Current
<1>4. CooldownIsOver'
  <2> SUFFICES ASSUME pass.pc = "announce"
               PROVE  Crossings!LastAlert(Crossings!Current) + Cooldown <= clock'
    BY <1>1 DEF CooldownIsOver, Crossings!LastAlert, Crossings!Current
  <2>1. Crossings!Current \in Crossings!Pools
    BY CurrentIsAPool DEF RuleInv, ResultIsOfSnapshot, Evaluating
  <2>2. Crossings!LastAlert(Crossings!Current) \in Int /\ Cooldown \in Int
    BY <2>1, SnapshotAssumption DEF RuleInv, RuleTypes, TargetState, PassPlace, Crossings!LastAlert
  <2> QED
    BY <2>2, <1>1 DEF RuleInv, CooldownIsOver
<1> QED
  BY <1>1, <1>2, <1>3, <1>4
     DEF RuleInv, StatesAreOfSnapshots, ResultIsOfSnapshot, ResultFollows, Evaluating,
         Crossings!Current, Crossings!Announced, RunsAreOfConditions, RunIsAnnounced,
         OneAlertASnapshot, AlertsAreSaved, OneAlertARun, PassKnowsRule,
         Crossings!CooldownKept, Crossings!Pools, Announcing

LEMMA StartStep ==
  ASSUME RuleInv, Crossings!StartPass
  PROVE  RuleInv'
<1> DEFINE place == [Crossings!PassIdle EXCEPT !.pc = "evaluate", !.alertedAt = ruleAlertedAt]
<1>1. /\ pass.pc = "idle" /\ pass' = place
      /\ UNCHANGED <<clock, latest, states, ruleAlertedAt, stops, alertRows, run>>
  BY DEF Crossings!StartPass
<1>2. /\ place \in PassPlace /\ place.pc = "evaluate" /\ ~place.created
      /\ place.alertedAt = ruleAlertedAt
  BY IdleIsAPlace DEF RuleInv, RuleTypes, PassPlace
<1> HIDE DEF place
<1>3. RuleTypes'
  BY <1>1, <1>2 DEF RuleInv, RuleTypes, Crossings!Pools, AlertRow
<1>4. ~pass.created
  BY <1>1 DEF RuleInv, PassKnowsRule
<1>5. AlertTimesAreKnown'
  BY <1>1, <1>2, <1>4 DEF RuleInv, AlertTimesAreKnown, PassKnowsRule, RuleTypes, PassPlace
<1>6. AlertsAreSaved' /\ OneAlertARun'
  BY <1>1 DEF RuleInv, AlertsAreSaved, OneAlertARun, Announcing
<1> QED
  BY <1>1, <1>2, <1>3, <1>5, <1>6
     DEF RuleInv, StatesAreOfSnapshots, ResultIsOfSnapshot, ResultFollows, Evaluating,
         RunsAreOfConditions, RunIsAnnounced, OneAlertASnapshot, PassKnowsRule,
         CooldownIsOver, Crossings!CooldownKept, Crossings!Pools

(* What the evaluation of a pool makes of its state and its latest snapshot. *)
LEMMA EvaluationIs ==
  ASSUME RuleTypes, StatesAreOfSnapshots, RunsAreOfConditions, NEW p \in Crossings!Pools
  PROVE  LET e == Crossings!Evaluation(p)
             s == states[p]
         IN /\ e \in RuleResult
            /\ s.last <= e.last /\ e.last <= latest[p].id
            /\ e.last = s.last => (e.active <=> s.active)
            /\ e.last = latest[p].id => (latest[p].met <=> e.active)
            /\ e.trigger => e.active /\ ~e.pending
            /\ e.pending => e.active
            /\ e.active /\ ~e.pending /\ ~e.trigger => s.active /\ ~s.pending
            /\ ~Repeats /\ (e.trigger \/ e.pending) => s.pending \/ ~s.active
            /\ e.trigger => Crossings!LastAlert(p) + Cooldown <= clock
<1> DEFINE e == Crossings!Evaluation(p)
           s == states[p]
           crossing == Crossings!PendingCrossing(p)
           cool == Crossings!CooldownActive(Crossings!LastAlert(p))
           due == crossing /\ ~cool
           waits == crossing /\ ~due
           met == Crossings!Met(p)
<1>1. /\ s \in TargetState /\ latest[p] \in [id : Nat, met : BOOLEAN]
      /\ s.last <= latest[p].id
      /\ s.last = latest[p].id => (latest[p].met <=> s.active)
      /\ s.pending => s.active
  BY DEF RuleTypes, StatesAreOfSnapshots, RunsAreOfConditions
<1>2. CASE latest[p] = Crossings!NoSnapshot
  <2>1. e = [last |-> s.last, active |-> s.active, pending |-> s.pending, trigger |-> FALSE]
    BY <1>2 DEF Crossings!Evaluation
  <2>2. latest[p].id = 0 /\ ~latest[p].met
    BY <1>2 DEF Crossings!NoSnapshot
  <2>3. /\ e \in RuleResult /\ e.last = s.last /\ (e.active <=> s.active)
        /\ (e.pending <=> s.pending) /\ ~e.trigger
    BY <2>1, <1>1 DEF RuleResult, TargetState
  <2>4. s.last = 0 /\ s.last \in Nat
    BY <1>1, <2>2 DEF TargetState
  <2> HIDE DEF e
  <2> QED
    BY <2>2, <2>3, <2>4, <1>1 DEF e
<1>3. CASE latest[p] # Crossings!NoSnapshot
  <2>1. e = [last |-> latest[p].id, active |-> met, pending |-> waits, trigger |-> due]
    BY <1>3 DEF Crossings!Evaluation
  <2>2. met \in BOOLEAN /\ waits \in BOOLEAN /\ due \in BOOLEAN
    BY <1>1 DEF Crossings!Met
  <2>3. /\ crossing => met
        /\ met /\ ~crossing => s.active /\ ~s.pending
        /\ ~Repeats /\ crossing => s.pending \/ ~s.active
    BY DEF Crossings!PendingCrossing, Crossings!Crossed, Crossings!RepeatReady
  <2>4. met <=> latest[p].met
    BY DEF Crossings!Met
  <2>5. ~cool => Crossings!LastAlert(p) + Cooldown <= clock
    <3>1. Crossings!LastAlert(p) \in Int /\ Cooldown \in Int /\ clock \in Int
      BY <1>1, SnapshotAssumption
         DEF RuleTypes, PassPlace, TargetState, Crossings!LastAlert
    <3> QED
      BY <3>1 DEF Crossings!CooldownActive
  <2> HIDE DEF met, crossing, cool
  <2>6. /\ e \in RuleResult /\ e.last = latest[p].id /\ (e.active <=> met)
        /\ (e.pending <=> waits) /\ (e.trigger <=> due)
    <3> HIDE DEF e, waits, due
    <3> QED
      BY <2>1, <2>2, <1>1 DEF RuleResult
  <2>7. latest[p].id \in Nat /\ s.last \in Nat
    BY <1>1 DEF TargetState
  <2> HIDE DEF e
  <2> QED
    BY <2>3, <2>4, <2>5, <2>6, <2>7, <1>1 DEF e
<1> QED
  BY <1>2, <1>3

LEMMA EvaluateStep ==
  ASSUME RuleInv, Crossings!Evaluate
  PROVE  RuleInv'
<1> DEFINE p == Crossings!Current
           e == Crossings!Evaluation(p)
           pc == IF e.trigger THEN "announce" ELSE "save"
           place == [pass EXCEPT !.pc = pc, !.result = e]
<1>1. /\ pass.pc = "evaluate" /\ pass.at \in DOMAIN RulePools
      /\ pass' = place
      /\ UNCHANGED <<clock, latest, states, ruleAlertedAt, stops, alertRows, run>>
  BY DEF Crossings!Evaluate
<1>2. p \in Crossings!Pools
  BY <1>1, CurrentIsAPool
<1>3. /\ e \in RuleResult
      /\ states[p].last <= e.last /\ e.last <= latest[p].id
      /\ e.last = states[p].last => (e.active <=> states[p].active)
      /\ e.last = latest[p].id => (latest[p].met <=> e.active)
      /\ e.trigger => e.active /\ ~e.pending
      /\ e.pending => e.active
      /\ e.active /\ ~e.pending /\ ~e.trigger => states[p].active /\ ~states[p].pending
      /\ ~Repeats /\ (e.trigger \/ e.pending) => states[p].pending \/ ~states[p].active
      /\ e.trigger => Crossings!LastAlert(p) + Cooldown <= clock
  BY <1>2, EvaluationIs DEF RuleInv
<1> HIDE DEF e
<1>4. /\ place \in PassPlace /\ place.pc = pc /\ place.result = e /\ place.at = pass.at
      /\ place.alertedAt = pass.alertedAt /\ (place.created <=> pass.created)
      /\ (place.total <=> pass.total)
  BY <1>3 DEF RuleInv, RuleTypes, PassPlace
<1> HIDE DEF place
<1>5. Crossings!Current' = p /\ ~pass.created
  BY <1>1, <1>4 DEF Crossings!Current, RuleInv, PassKnowsRule
<1>6. RuleTypes'
  BY <1>1, <1>4 DEF RuleInv, RuleTypes, Crossings!Pools, AlertRow
<1>7. ResultIsOfSnapshot' /\ ResultFollows'
  <2>1. ResultIsOfSnapshot'
    BY <1>1, <1>3, <1>4, <1>5 DEF ResultIsOfSnapshot
  <2>2. ResultFollows'
    <3>1. pc = "announce" <=> e.trigger
      OBVIOUS
    <3> QED
      BY <3>1, <1>1, <1>3, <1>4, <1>5 DEF ResultFollows, Evaluating
  <2> QED
    BY <2>1, <2>2
<1>8. \A q : ~Announcing(q) /\ ~Announcing(q)'
  BY <1>1, <1>4 DEF Announcing
<1>9. AlertsAreSaved' /\ OneAlertARun'
  BY <1>1, <1>8 DEF RuleInv, AlertsAreSaved, OneAlertARun
<1>10. AlertTimesAreKnown' /\ PassKnowsRule'
  BY <1>1, <1>4, <1>5 DEF RuleInv, AlertTimesAreKnown, PassKnowsRule
<1>11. CooldownIsOver'
  <2>1. Crossings!LastAlert(p)' = Crossings!LastAlert(p)
    BY <1>1, <1>4, <1>5 DEF Crossings!LastAlert
  <2> QED
    BY <2>1, <1>1, <1>3, <1>4, <1>5 DEF CooldownIsOver, Crossings!LastAlert
<1> QED
  BY <1>1, <1>6, <1>7, <1>9, <1>10, <1>11
     DEF RuleInv, StatesAreOfSnapshots, RunsAreOfConditions, RunIsAnnounced,
         OneAlertASnapshot, Crossings!CooldownKept, Crossings!Pools

LEMMA AnnounceStep ==
  ASSUME RuleInv, Crossings!Announce
  PROVE  RuleInv'
<1> DEFINE p == Crossings!Current
           e == pass.result
           new == ~Crossings!Announced(p, e.last)
           alert == [pool |-> p, snapshot |-> e.last, at |-> clock]
           place == [pass EXCEPT !.pc = "save", !.created = new]
<1>0. /\ RuleTypes /\ ResultIsOfSnapshot /\ ResultFollows /\ RunsAreOfConditions
      /\ RunIsAnnounced /\ OneAlertASnapshot /\ AlertsAreSaved /\ OneAlertARun
      /\ AlertTimesAreKnown /\ PassKnowsRule /\ CooldownIsOver /\ Crossings!CooldownKept
  BY DEF RuleInv
<1>1. /\ pass.pc = "announce" /\ Evaluating
      /\ alertRows' = IF new THEN alertRows \cup {alert} ELSE alertRows
      /\ pass' = place
      /\ UNCHANGED <<clock, latest, states, ruleAlertedAt, stops, run>>
  BY DEF Crossings!Announce, Evaluating
<1>2. /\ p \in Crossings!Pools /\ e \in RuleResult /\ e.trigger /\ ~pass.created
      /\ clock \in Nat
  BY <1>0, <1>1, CurrentIsAPool
     DEF RuleTypes, PassPlace, ResultIsOfSnapshot, ResultFollows, PassKnowsRule
<1>3. /\ alert \in AlertRow /\ alert.pool = p /\ alert.snapshot = e.last /\ alert.at = clock
  BY <1>2 DEF AlertRow, RuleResult
<1>4. new \in BOOLEAN
  OBVIOUS
<1> DEFINE made == new
<1>5. made <=> new
  OBVIOUS
<1> HIDE DEF made
<1>6. /\ place \in PassPlace /\ place.pc = "save" /\ (place.created <=> new)
      /\ place.at = pass.at /\ place.result = e
      /\ place.alertedAt = pass.alertedAt /\ (place.total <=> pass.total)
  <2> HIDE DEF new
  <2> QED
    BY <1>0, <1>4 DEF RuleTypes, PassPlace
<1> HIDE DEF place, alert
<1>7. Crossings!Current' = p
  BY <1>1, <1>6 DEF Crossings!Current
<1>8. /\ alertRows \subseteq alertRows' /\ alertRows' \subseteq AlertRow
      /\ \A a \in alertRows' : a \in alertRows \/ (new /\ a = alert)
      /\ new => alert \in alertRows'
  BY <1>0, <1>1, <1>3 DEF RuleTypes
<1>9. RuleTypes'
  BY <1>0, <1>1, <1>6, <1>8 DEF RuleTypes, Crossings!Pools, AlertRow
<1>10. Crossings!Announced(p, e.last)'
  <2>1. \A x, s : x = p /\ s = e.last => \E a \in alertRows' : a.pool = x /\ a.snapshot = s
    <3>1. CASE new
      BY <3>1, <1>3, <1>8
    <3>2. CASE ~new
      BY <3>2, <1>8 DEF Crossings!Announced
    <3> QED
      BY <3>1, <3>2
  <2> QED
    BY <2>1, <1>1, <1>6, <1>7 DEF Crossings!Announced
<1>11. ResultIsOfSnapshot' /\ ResultFollows'
  <2>1. ResultIsOfSnapshot'
    BY <1>0, <1>1, <1>6, <1>7 DEF ResultIsOfSnapshot
  <2>2. \E a \in alertRows' : a.pool = p /\ a.snapshot = e.last
    BY <1>3, <1>8 DEF Crossings!Announced
  <2>3. ResultFollows'
    BY <2>2, <1>0, <1>1, <1>6, <1>7 DEF ResultFollows, Evaluating, Crossings!Announced
  <2> QED
    BY <2>1, <2>3
<1>12. RunsAreOfConditions' /\ RunIsAnnounced'
  BY <1>0, <1>1, <1>8 DEF RunsAreOfConditions, RunIsAnnounced, Crossings!Pools
<1>13. OneAlertASnapshot'
  BY <1>0, <1>3, <1>8 DEF OneAlertASnapshot, Crossings!Announced
<1>14. \A q : ~Announcing(q) /\ (Announcing(q)' <=> q = p)
  BY <1>1, <1>2, <1>6, <1>7 DEF Announcing
<1>15. AlertsAreSaved'
  BY <1>0, <1>1, <1>3, <1>6, <1>8, <1>14 DEF AlertsAreSaved
<1>16. OneAlertARun'
  <2> SUFFICES ASSUME stops = 0, ~Repeats
               PROVE  /\ \A a, b \in alertRows' :
                           a.pool = b.pool /\ a.snapshot \in run[a.pool] /\ b.snapshot \in run[a.pool] => a = b
                      /\ \A a \in alertRows' : a.snapshot \in run[a.pool] /\ states[a.pool].pending =>
                           Announcing(a.pool)' /\ a.snapshot = e.last
    BY <1>1, <1>6 DEF OneAlertARun
  <2>1. \A a \in alertRows : a.pool = p => a.snapshot \notin run[p]
    BY <1>0, <1>1, <1>2, <1>14 DEF OneAlertARun, ResultFollows, RunsAreOfConditions
  <2>2. \A a \in alertRows : a.snapshot \in run[a.pool] => ~states[a.pool].pending
    BY <1>0, <1>14 DEF OneAlertARun
  <2>3. \A a, b \in alertRows : a.pool = b.pool /\ a.snapshot \in run[a.pool]
                                /\ b.snapshot \in run[a.pool] => a = b
    BY <1>0 DEF OneAlertARun
  <2>5. \A a, b \in alertRows' :
          a.pool = b.pool /\ a.snapshot \in run[a.pool] /\ b.snapshot \in run[a.pool] => a = b
    BY <2>1, <2>3, <1>3, <1>8
  <2>6. \A a \in alertRows' : a.snapshot \in run[a.pool] /\ states[a.pool].pending =>
          Announcing(a.pool)' /\ a.snapshot = e.last
    BY <2>2, <1>3, <1>8, <1>14
  <2> QED
    BY <2>5, <2>6
<1>17. AlertTimesAreKnown'
  BY <1>0, <1>1, <1>2, <1>3, <1>6, <1>7, <1>8 DEF AlertTimesAreKnown
<1>18. PassKnowsRule' /\ CooldownIsOver'
  BY <1>0, <1>1, <1>6 DEF PassKnowsRule, CooldownIsOver
<1>19. Crossings!CooldownKept'
  <2>1. ASSUME stops = 0, NEW b \in alertRows, CooldownScope = "project" \/ b.pool = p
        PROVE  b.at + Cooldown <= clock
    <3>1. b.at <= Crossings!LastAlert(p)
      BY <2>1, <1>0, <1>1, <1>2, SnapshotAssumption DEF AlertTimesAreKnown, Crossings!LastAlert
    <3>2. Crossings!LastAlert(p) \in Int /\ b.at \in Int /\ Cooldown \in Int
      BY <1>0, <1>2, SnapshotAssumption
         DEF RuleTypes, AlertRow, TargetState, PassPlace, Crossings!LastAlert
    <3>3. Crossings!LastAlert(p) + Cooldown <= clock
      BY <1>0, <1>1 DEF CooldownIsOver
    <3> QED
      BY <3>1, <3>2, <3>3, <1>2
  <2> QED
    BY <2>1, <1>0, <1>1, <1>3, <1>8 DEF Crossings!CooldownKept
<1> QED
  BY <1>0, <1>1, <1>9, <1>11, <1>12, <1>13, <1>15, <1>16, <1>17, <1>18, <1>19
     DEF RuleInv, StatesAreOfSnapshots, Crossings!Pools

LEMMA SaveStateStep ==
  ASSUME RuleInv, Crossings!SaveTargetState
  PROVE  RuleInv'
<1> DEFINE p == Crossings!Current
           e == pass.result
           s == states[p]
           alertedAt == IF pass.created THEN clock ELSE s.alertedAt
           state == [last |-> e.last, active |-> e.active, pending |-> e.pending,
                     alertedAt |-> alertedAt]
           runs == IF e.active THEN run[p] \cup {e.last} ELSE {}
           known == IF pass.created /\ CooldownScope = "project" THEN clock ELSE pass.alertedAt
           place == [pass EXCEPT !.pc = "evaluate", !.at = @ + 1, !.created = FALSE,
                       !.result = Crossings!PassIdle.result, !.total = @ \/ pass.created,
                       !.alertedAt = known]
<1>0. /\ RuleTypes /\ StatesAreOfSnapshots /\ ResultIsOfSnapshot /\ ResultFollows
      /\ RunsAreOfConditions
      /\ RunIsAnnounced /\ OneAlertASnapshot /\ AlertsAreSaved /\ OneAlertARun
      /\ AlertTimesAreKnown /\ PassKnowsRule /\ CooldownIsOver /\ Crossings!CooldownKept
  BY DEF RuleInv
<1>1. /\ pass.pc = "save" /\ Evaluating
      /\ states' = [states EXCEPT ![p] = state]
      /\ run' = [run EXCEPT ![p] = runs]
      /\ pass' = place
      /\ UNCHANGED <<clock, latest, ruleAlertedAt, stops, alertRows>>
  BY DEF Crossings!SaveTargetState, Evaluating
<1>2. /\ p \in Crossings!Pools /\ e \in RuleResult /\ clock \in Nat /\ s \in TargetState
      /\ run[p] \subseteq Nat /\ pass \in PassPlace /\ pass.created \in BOOLEAN
      /\ pass.total \in BOOLEAN /\ pass.at \in Int /\ pass.alertedAt \in Int
  BY <1>0, <1>1, CurrentIsAPool DEF RuleTypes, PassPlace, ResultIsOfSnapshot
<1>3. /\ alertedAt \in Int /\ runs \subseteq Nat /\ known \in Int
      /\ (pass.total \/ pass.created) \in BOOLEAN
      /\ e.last \in Nat /\ e.active \in BOOLEAN /\ e.pending \in BOOLEAN
  BY <1>2 DEF TargetState, RuleResult
<1>4. /\ state \in TargetState /\ state.last = e.last /\ (state.active <=> e.active)
      /\ (state.pending <=> e.pending) /\ state.alertedAt = alertedAt
  <2> HIDE DEF alertedAt
  <2> QED
    BY <1>3 DEF TargetState
<1>5. /\ place \in PassPlace /\ place.pc = "evaluate" /\ ~place.created
      /\ (place.total <=> pass.total \/ pass.created) /\ place.alertedAt = known
  <2>1. Crossings!PassIdle.result \in RuleResult
    BY IdleIsAPlace DEF PassPlace
  <2> DEFINE total == pass.total \/ pass.created
  <2>2. place = [pass EXCEPT !.pc = "evaluate", !.at = pass.at + 1, !.created = FALSE,
                   !.result = Crossings!PassIdle.result, !.total = total, !.alertedAt = known]
    BY <1>2 DEF PassPlace
  <2>3. total \in BOOLEAN /\ (total <=> pass.total \/ pass.created)
    BY <1>3
  <2> DEFINE idle == Crossings!PassIdle.result
  <2>4. pass.at + 1 \in Int /\ idle \in RuleResult
    BY <1>2, <2>1
  <2> HIDE DEF known, total, idle, place
  <2>5. place = [pass EXCEPT !.pc = "evaluate", !.at = pass.at + 1, !.created = FALSE,
                   !.result = idle, !.total = total, !.alertedAt = known]
    BY <2>2 DEF idle
  <2>6. place \in PassPlace
    BY <1>2, <1>3, <2>3, <2>4, <2>5 DEF PassPlace
  <2>7. /\ place.pc = "evaluate" /\ place.created = FALSE
        /\ place.total = total /\ place.alertedAt = known
    BY <1>2, <2>5 DEF PassPlace
  <2> QED
    BY <2>3, <2>6, <2>7
<1> HIDE DEF place, state
<1>6. /\ states' \in [Crossings!Pools -> TargetState] /\ states'[p] = state
      /\ \A q \in Crossings!Pools : q # p => states'[q] = states[q]
      /\ run' \in [Crossings!Pools -> SUBSET Nat] /\ run'[p] = runs
      /\ \A q \in Crossings!Pools : q # p => run'[q] = run[q]
  <2> HIDE DEF runs
  <2> QED
    BY <1>0, <1>1, <1>2, <1>3, <1>4 DEF RuleTypes
<1>7. RuleTypes'
  BY <1>0, <1>1, <1>5, <1>6 DEF RuleTypes, Crossings!Pools, AlertRow
<1>8. /\ s.last <= e.last /\ e.last <= latest[p].id
      /\ e.last = s.last => (e.active <=> s.active)
      /\ e.last = latest[p].id => (latest[p].met <=> e.active)
      /\ e.trigger \/ e.pending => e.active
      /\ ~(e.trigger /\ e.pending)
      /\ e.active /\ ~e.pending /\ ~e.trigger => s.active /\ ~s.pending
      /\ ~Repeats /\ (e.trigger \/ e.pending) => s.pending \/ ~s.active
      /\ e.trigger => Crossings!Announced(p, e.last)
  BY <1>0, <1>1 DEF ResultIsOfSnapshot, ResultFollows
<1>9. StatesAreOfSnapshots' /\ RunsAreOfConditions'
  <2>1. StatesAreOfSnapshots'
    BY <1>0, <1>1, <1>4, <1>6, <1>8 DEF StatesAreOfSnapshots, Crossings!Pools
  <2>2. RunsAreOfConditions'
    BY <1>0, <1>4, <1>6, <1>8 DEF RunsAreOfConditions, Crossings!Pools
  <2> QED
    BY <2>1, <2>2
<1>10. RunIsAnnounced'
  <2> SUFFICES ASSUME NEW q \in Crossings!Pools, states'[q].active, ~states'[q].pending
               PROVE  \E a \in alertRows : a.pool = q /\ a.snapshot \in run'[q]
    BY <1>1 DEF RunIsAnnounced, Crossings!Pools
  <2>1. CASE q # p
    BY <2>1, <1>0, <1>6 DEF RunIsAnnounced
  <2>2. CASE q = p /\ e.trigger
    <3>1. PICK a \in alertRows : a.pool = p /\ a.snapshot = e.last
      BY <2>2, <1>8 DEF Crossings!Announced
    <3> QED
      BY <3>1, <2>2, <1>6, <1>8
  <2>3. CASE q = p /\ ~e.trigger
    <3>1. e.active /\ s.active /\ ~s.pending
      BY <2>3, <1>4, <1>6, <1>8
    <3>2. PICK a \in alertRows : a.pool = p /\ a.snapshot \in run[p]
      BY <3>1, <1>0, <1>2 DEF RunIsAnnounced
    <3> QED
      BY <3>1, <3>2, <2>3, <1>6
  <2> QED
    BY <2>1, <2>2, <2>3
<1>11. /\ \A q : ~Announcing(q)'
       /\ \A q : Announcing(q) <=> q = p /\ e.trigger
  BY <1>1, <1>5 DEF Announcing
<1>12. \A a \in alertRows : a.pool \in Crossings!Pools /\ a.snapshot \in Nat /\ a.at \in Int
  BY <1>0 DEF RuleTypes, AlertRow
<1>13. s.last \in Nat
  BY <1>2 DEF TargetState
<1>14. AlertsAreSaved'
  <2> SUFFICES ASSUME stops = 0, NEW a \in alertRows PROVE a.snapshot <= states'[a.pool].last
    BY <1>1 DEF AlertsAreSaved
  <2>1. CASE a.pool # p
    BY <2>1, <1>0, <1>6, <1>11, <1>12 DEF AlertsAreSaved
  <2>2. CASE a.pool = p
    <3>1. a.snapshot <= s.last \/ a.snapshot = e.last
      BY <2>2, <1>0 DEF AlertsAreSaved
    <3> QED
      BY <3>1, <2>2, <1>3, <1>4, <1>6, <1>8, <1>12, <1>13
  <2> QED
    BY <2>1, <2>2
<1>15. OneAlertARun'
  <2> SUFFICES ASSUME stops = 0, ~Repeats
               PROVE  /\ \A a, b \in alertRows :
                           a.pool = b.pool /\ a.snapshot \in run'[a.pool] /\ b.snapshot \in run'[a.pool] => a = b
                      /\ \A a \in alertRows : ~(a.snapshot \in run'[a.pool] /\ states'[a.pool].pending)
    BY <1>1 DEF OneAlertARun
  <2>1. ASSUME NEW a \in alertRows, NEW b \in alertRows, a.pool # p, b.pool = a.pool
        PROVE  /\ a.snapshot \in run'[a.pool] /\ b.snapshot \in run'[a.pool] => a = b
               /\ ~(a.snapshot \in run'[a.pool] /\ states'[a.pool].pending)
    BY <2>1, <1>0, <1>6, <1>11, <1>12 DEF OneAlertARun
  <2>2. CASE e.trigger
    <3>1. \A a \in alertRows : a.pool = p /\ a.snapshot \in run[p] => a.snapshot = e.last
      BY <2>2, <1>0, <1>2, <1>8 DEF OneAlertARun, RunsAreOfConditions
    <3>2. \A a \in alertRows : a.pool = p /\ a.snapshot \in run'[p] => a.snapshot = e.last
      BY <3>1, <1>6
    <3>3. \A a, b \in alertRows : a.pool = p /\ b.pool = p /\ a.snapshot \in run'[p]
                                  /\ b.snapshot \in run'[p] => a = b
      BY <3>2, <1>0 DEF OneAlertASnapshot
    <3>4. ~states'[p].pending
      BY <2>2, <1>4, <1>6, <1>8
    <3> QED
      BY <2>1, <3>3, <3>4
  <2>3. CASE ~e.trigger
    <3>1. ASSUME NEW a \in alertRows, a.pool = p, a.snapshot \in run'[p]
          PROVE  a.snapshot \in run[p] /\ e.active
      <4>1. e.active /\ (a.snapshot \in run[p] \/ a.snapshot = e.last)
        BY <3>1, <1>6
      <4>2. a.snapshot <= s.last
        BY <2>3, <3>1, <1>0, <1>11 DEF AlertsAreSaved
      <4>3. CASE a.snapshot = e.last
        <5>1. e.last = s.last
          BY <4>2, <4>3, <1>3, <1>8, <1>13
        <5>2. s.active
          BY <5>1, <4>1, <1>8
        <5> QED
          BY <4>1, <4>3, <5>1, <5>2, <1>0, <1>2 DEF RunsAreOfConditions
      <4> QED
        BY <4>1, <4>3
    <3>2. \A a, b \in alertRows : a.pool = p /\ b.pool = p /\ a.snapshot \in run'[p]
                                  /\ b.snapshot \in run'[p] => a = b
      BY <3>1, <1>0 DEF OneAlertARun
    <3>3. \A a \in alertRows : a.pool = p /\ a.snapshot \in run'[p] => ~e.pending
      BY <2>3, <3>1, <1>0, <1>2, <1>8, <1>11 DEF OneAlertARun, RunsAreOfConditions
    <3> QED
      BY <2>1, <3>2, <3>3, <1>4, <1>6
  <2> QED
    BY <2>2, <2>3
<1>16. AlertTimesAreKnown'
  <2> SUFFICES ASSUME stops = 0, NEW a \in alertRows
               PROVE  /\ a.at <= clock
                      /\ CooldownScope = "chain" => a.at <= states'[a.pool].alertedAt
                      /\ CooldownScope = "project" => a.at <= known
    BY <1>1, <1>5 DEF AlertTimesAreKnown
  <2>1. /\ a.at <= clock
        /\ CooldownScope = "chain" => a.at <= states[a.pool].alertedAt \/ (pass.created /\ a.pool = p)
        /\ CooldownScope = "project" => a.at <= pass.alertedAt \/ pass.created
    BY <1>0, <1>1 DEF AlertTimesAreKnown
  <2>2. CooldownScope = "chain" => a.at <= states'[a.pool].alertedAt
    <3>1. CASE a.pool # p
      BY <2>1, <3>1, <1>6, <1>12
    <3>2. CASE a.pool = p
      BY <2>1, <3>2, <1>4, <1>6
    <3> QED
      BY <3>1, <3>2
  <2> QED
    BY <2>1, <2>2
<1>17. PassKnowsRule' /\ CooldownIsOver'
  BY <1>0, <1>1, <1>5 DEF PassKnowsRule, CooldownIsOver
<1> QED
  BY <1>0, <1>1, <1>5, <1>7, <1>9, <1>10, <1>14, <1>15, <1>16, <1>17
     DEF RuleInv, ResultIsOfSnapshot, ResultFollows, Evaluating, OneAlertASnapshot,
         Crossings!CooldownKept

LEMMA SaveRuleStep ==
  ASSUME RuleInv, Crossings!SaveRule
  PROVE  RuleInv'
<1>1. /\ pass.pc = "evaluate" /\ pass' = Crossings!PassIdle
      /\ ruleAlertedAt' = IF pass.total THEN clock ELSE ruleAlertedAt
      /\ UNCHANGED <<clock, latest, states, stops, alertRows, run>>
  BY DEF Crossings!SaveRule
<1>2. pass' \in PassPlace /\ pass'.pc = "idle" /\ ~pass'.created /\ ~pass.created
  BY <1>1, IdleIsAPlace DEF RuleInv, PassKnowsRule
<1>3. ruleAlertedAt' \in Int
  BY <1>1 DEF RuleInv, RuleTypes
<1>4. RuleTypes'
  BY <1>1, <1>2, <1>3 DEF RuleInv, RuleTypes, Crossings!Pools, AlertRow
<1>5. AlertTimesAreKnown'
  BY <1>1, <1>2 DEF RuleInv, AlertTimesAreKnown, PassKnowsRule
<1>6. AlertsAreSaved' /\ OneAlertARun'
  BY <1>1 DEF RuleInv, AlertsAreSaved, OneAlertARun, Announcing
<1> QED
  BY <1>1, <1>2, <1>4, <1>5, <1>6
     DEF RuleInv, StatesAreOfSnapshots, ResultIsOfSnapshot, ResultFollows, Evaluating,
         RunsAreOfConditions, RunIsAnnounced, OneAlertASnapshot, PassKnowsRule,
         CooldownIsOver, Crossings!CooldownKept, Crossings!Pools

LEMMA RulesStep == RuleInv /\ [Crossings!Next]_ruleVars => RuleInv'
<1> SUFFICES ASSUME RuleInv, [Crossings!Next]_ruleVars PROVE RuleInv'
  OBVIOUS
<1>1. CASE UNCHANGED ruleVars
  BY <1>1 DEF ruleVars, RuleInv, RuleTypes, StatesAreOfSnapshots, ResultIsOfSnapshot,
     ResultFollows, Evaluating, Announcing, RunsAreOfConditions, RunIsAnnounced,
     OneAlertASnapshot, AlertsAreSaved, OneAlertARun, AlertTimesAreKnown, PassKnowsRule,
     CooldownIsOver, Crossings!CooldownKept, Crossings!Pools, Crossings!Current,
     Crossings!LastAlert, Crossings!Announced, AlertRow
<1> QED
  BY <1>1, CaptureStep, TickStep, StartStep, EvaluateStep, AnnounceStep, SaveStateStep,
     SaveRuleStep, StopStep DEF Crossings!Next, Crossings!PassStep

(* A condition that holds and does not wait for a cooldown was announced since it
   came to hold, wherever a pass was cut short; once, and a cooldown after the last
   alert of its scope, unless a pass was cut short. *)
THEOREM AlertsFollowCrossingsCorrect == ServicesSpec => []AlertsFollowCrossings
<1>1. ASSUME RuleInv PROVE AlertsFollowCrossings
  <2>1. DOMAIN states = Crossings!Pools
    BY <1>1 DEF RuleInv, RuleTypes
  <2> DEFINE Now(p) == {a \in alertRows : a.pool = p /\ a.snapshot \in run[p]}
  <2>2. ASSUME NEW p \in Crossings!Pools, states[p].active, ~states[p].pending
        PROVE  Now(p) # {}
    BY <1>1, <2>2 DEF RuleInv, RunIsAnnounced
  <2>3. ASSUME NEW p \in Crossings!Pools, stops = 0, ~Repeats
        PROVE  Crossings!Cardinality(Now(p)) <= 1
    <3>1. \A a, b \in Now(p) : a = b
      BY <1>1, <2>3 DEF RuleInv, OneAlertARun
    <3>2. Now(p) = {} \/ \E a : Now(p) = {a}
      BY <3>1
    <3> HIDE DEF Now
    <3>3. Cardinality(Now(p)) \in {0, 1}
      BY <3>2, FS_EmptySet, FS_Singleton
    <3>4. \A S : Crossings!Cardinality(S) = Cardinality(S)
      BY DEF Crossings!Cardinality, Cardinality
    <3> QED
      BY <3>3, <3>4
  <2>4. Crossings!CrossingsAnnounced
    BY <2>1, <2>2, <2>3 DEF Crossings!CrossingsAnnounced
  <2> QED
    BY <1>1, <2>4 DEF RuleInv, AlertsFollowCrossings, Crossings!AlertsFollowCrossings
<1> QED
  BY <1>1, PartsBegin, PartsStep, RulesStart, RulesStep, PTL DEF ServicesSpec

-----------------------------------------------------------------------------
(* HolderRanks. *)

HolderRow == [balance : Nat, rank : Int]
Candidate == [address : Holder, balance : Nat]
RefreshPlace == [pc : {"idle", "upsert", "balance", "rank"}, todo : Seq(Candidate),
                 current : SUBSET Holder, left : SUBSET Holder, old : [Holder -> HolderRow]]

RankTypes ==
  /\ holding \in [Holder -> Nat]
  /\ holderRows \in [Holder -> HolderRow]
  /\ refresh \in RefreshPlace
  /\ cutShort \in Nat
  /\ holderEvents \in [Holder -> Seq({"increase", "decrease", "entered", "exited"})]
  /\ ranked \subseteq Holder

(* The holder whose row was written and whose events were not yet. *)
Halfway(h) == refresh.pc \in {"balance", "rank"} /\ h = Ranks!At
(* The events say that it is in the ranking. *)
SaysRanked(h) == Ranks!Last(h, "entered")
RankType == {"entered", "exited"}

(* The candidates are distinct, come once and are no more than the ranking holds. *)
CandidatesAreDistinct ==
  /\ \A i, j \in DOMAIN refresh.todo : i < j => refresh.todo[i].address # refresh.todo[j].address
  /\ \A i \in DOMAIN refresh.todo :
       refresh.todo[i].address \in refresh.current
         <=> i = 1 /\ refresh.pc \in {"balance", "rank"}
  /\ refresh.pc \in {"balance", "rank"} => refresh.todo # <<>>
RanksAreInBounds ==
  /\ IsFiniteSet(refresh.current)
  /\ Cardinality(refresh.current) + Len(refresh.todo)
       <= RankLimit + (IF refresh.pc \in {"balance", "rank"} THEN 1 ELSE 0)

(* A refresh changes the rows of the candidates it has taken, into ranked ones. *)
RowsChangeInTurn ==
  refresh.pc # "idle" =>
    \A h \in Holder : IF h \in refresh.current THEN Ranks!InRanking(holderRows[h])
                      ELSE holderRows[h] = refresh.old[h]

(* Who is said to be ranked is, whatever was cut short; and was before the refresh
   that is about to announce it. *)
SaidIsRanked ==
  /\ \A h \in Holder : SaysRanked(h) => Ranks!InRanking(holderRows[h])
  /\ \A h \in Holder : Halfway(h) /\ SaysRanked(h) => Ranks!InRanking(refresh.old[h])
  /\ \A h \in refresh.left : ~SaysRanked(h) /\ h \notin refresh.current
  /\ refresh.todo # <<>> => refresh.left = {}
(* Whoever has no row has no event. *)
EventsHaveRows ==
  /\ \A h \in Holder : holderRows[h] = Ranks!NoHolderRow =>
       h \notin ranked /\ holderEvents[h] = <<>>
  /\ refresh.pc \in {"balance", "rank"} => ~Ranks!InitialBaseline(refresh.old)

(* Unless a refresh was cut short, who is ranked is said to be, too, except for what
   the refresh has not come to. *)
RankedIsSaid ==
  cutShort = 0 =>
    \A h \in Holder :
      IF refresh.pc = "idle" \/ (h \in refresh.current /\ ~Halfway(h))
      THEN Ranks!InRanking(holderRows[h]) => SaysRanked(h)
      ELSE h \notin refresh.left => (Ranks!InRanking(refresh.old[h]) => SaysRanked(h))

EventsAlternate ==
  \A h \in Holder :
    /\ ~Ranks!Repeated(h, "entered")
    /\ cutShort = 0 => ~Ranks!Repeated(h, "exited")

RankInv ==
  /\ RankTypes /\ CandidatesAreDistinct /\ RanksAreInBounds /\ RowsChangeInTurn
  /\ SaidIsRanked /\ EventsHaveRows /\ RankedIsSaid /\ EventsAlternate

-----------------------------------------------------------------------------
(* What an event, and the baseline, make of what is said of an address. *)

LEMMA EventsStay ==
  ASSUME UNCHANGED <<holderEvents, ranked>>
  PROVE  /\ \A h : SaysRanked(h)' <=> SaysRanked(h)
         /\ \A h, type : Ranks!Repeated(h, type)' <=> Ranks!Repeated(h, type)
BY DEF SaysRanked, Ranks!Last, Ranks!Repeated, Ranks!NoneOfRank, Ranks!Event, Ranks!Numbers

LEMMA EventIsAppended ==
  ASSUME RankTypes, NEW h \in Holder,
         NEW type \in {"increase", "decrease", "entered", "exited"},
         Ranks!Emit(h, type), UNCHANGED ranked
  PROVE  /\ holderEvents' \in [Holder -> Seq({"increase", "decrease", "entered", "exited"})]
         /\ \E n \in Nat : /\ Len(holderEvents[h]) = n /\ Len(holderEvents'[h]) = n + 1
                          /\ \A i \in 0..n : Ranks!Event(h, i)' = Ranks!Event(h, i)
                          /\ Ranks!Event(h, n + 1)' = type
         /\ \A g \in Holder : g # h => holderEvents'[g] = holderEvents[g]
<1> DEFINE events == Append(holderEvents[h], type)
<1>0. PICK n \in Nat : n = Len(holderEvents[h])
  BY DEF RankTypes
<1>1. /\ holderEvents \in [Holder -> Seq({"increase", "decrease", "entered", "exited"})]
      /\ holderEvents[h] \in Seq({"increase", "decrease", "entered", "exited"})
  BY DEF RankTypes
<1>2. /\ events \in Seq({"increase", "decrease", "entered", "exited"})
      /\ Len(events) = n + 1 /\ events[n + 1] = type
      /\ \A i \in 1..n : events[i] = holderEvents[h][i]
  BY <1>0, <1>1
<1>3. holderEvents' = [holderEvents EXCEPT ![h] = events]
  BY DEF Ranks!Emit
<1> HIDE DEF events
<1>4. /\ holderEvents' \in [Holder -> Seq({"increase", "decrease", "entered", "exited"})]
      /\ holderEvents'[h] = events
      /\ \A g \in Holder : g # h => holderEvents'[g] = holderEvents[g]
  BY <1>1, <1>2, <1>3
<1>5. \A i \in 0..n : Ranks!Event(h, i)' = Ranks!Event(h, i)
  BY <1>2, <1>4 DEF Ranks!Event
<1>6. Ranks!Event(h, n + 1)' = type
  BY <1>2, <1>4 DEF Ranks!Event
<1> QED
  BY <1>0, <1>2, <1>4, <1>5, <1>6

LEMMA EventCounts ==
  ASSUME RankTypes, NEW h \in Holder,
         NEW type \in {"increase", "decrease", "entered", "exited"},
         Ranks!Emit(h, type), UNCHANGED ranked
  PROVE  /\ holderEvents' \in [Holder -> Seq({"increase", "decrease", "entered", "exited"})]
         /\ \A g \in Holder : g # h => holderEvents'[g] = holderEvents[g]
         /\ \A g \in Holder : g # h => (SaysRanked(g)' <=> SaysRanked(g))
         /\ \A g \in Holder, t \in RankType :
              g # h => (Ranks!Repeated(g, t)' <=> Ranks!Repeated(g, t))
         /\ type \notin RankType => (SaysRanked(h)' <=> SaysRanked(h))
         /\ type = "entered" => SaysRanked(h)'
         /\ type = "exited" => ~SaysRanked(h)'
         /\ \A t \in RankType :
              Ranks!Repeated(h, t)' => Ranks!Repeated(h, t) \/ (type = t /\ Ranks!Last(h, t))
<1>1. PICK n \in Nat :
        /\ holderEvents' \in [Holder -> Seq({"increase", "decrease", "entered", "exited"})]
        /\ Len(holderEvents[h]) = n /\ Len(holderEvents'[h]) = n + 1
        /\ \A i \in 0..n : Ranks!Event(h, i)' = Ranks!Event(h, i)
        /\ Ranks!Event(h, n + 1)' = type
        /\ \A g \in Holder : g # h => holderEvents'[g] = holderEvents[g]
  BY EventIsAppended
<1>2. ASSUME NEW g \in Holder, g # h
      PROVE  /\ SaysRanked(g)' <=> SaysRanked(g)
             /\ \A t : Ranks!Repeated(g, t)' <=> Ranks!Repeated(g, t)
  <2>1. holderEvents'[g] = holderEvents[g]
    BY <1>1, <1>2
  <2>2. \A i : Ranks!Event(g, i)' = Ranks!Event(g, i)
    BY <2>1 DEF Ranks!Event
  <2>3. \A i, j : Ranks!NoneOfRank(g, i, j)' <=> Ranks!NoneOfRank(g, i, j)
    BY <2>2 DEF Ranks!NoneOfRank
  <2> QED
    BY <2>1, <2>2, <2>3 DEF SaysRanked, Ranks!Last, Ranks!Repeated, Ranks!Numbers
<1>3. \A i \in Nat, j \in 0..n : Ranks!NoneOfRank(h, i, j)' <=> Ranks!NoneOfRank(h, i, j)
  BY <1>1 DEF Ranks!NoneOfRank
<1>4. \A i \in Nat : Ranks!NoneOfRank(h, i, n + 1)' <=>
        i > n + 1 \/ (Ranks!NoneOfRank(h, i, n) /\ type \notin RankType)
  BY <1>1 DEF Ranks!NoneOfRank, RankType
<1>5. \A t \in RankType : Ranks!Last(h, t)' <=>
        type = t \/ (type \notin RankType /\ Ranks!Last(h, t))
  <2>1. ASSUME NEW t \in RankType, Ranks!Last(h, t)'
        PROVE  type = t \/ (type \notin RankType /\ Ranks!Last(h, t))
    <3>1. PICK i \in 0..n + 1 : Ranks!Event(h, i)' = t /\ Ranks!NoneOfRank(h, i + 1, n + 1)'
      BY <2>1, <1>1 DEF Ranks!Last, Ranks!Numbers
    <3>2. CASE i = n + 1
      BY <3>1, <3>2, <1>1
    <3>3. CASE i # n + 1
      <4>1. i \in 0..n /\ i + 1 \in Nat /\ ~(i + 1 > n + 1)
        BY <3>3, <1>1
      <4> QED
        BY <4>1, <3>1, <1>1, <1>4 DEF Ranks!Last, Ranks!Numbers
    <3> QED
      BY <3>2, <3>3
  <2>2. ASSUME NEW t \in RankType, type = t
        PROVE  Ranks!Last(h, t)'
    <3>1. n + 1 \in 0..n + 1 /\ (n + 1) + 1 \in Nat /\ (n + 1) + 1 > n + 1
      BY <1>1
    <3>2. Ranks!NoneOfRank(h, (n + 1) + 1, n + 1)'
      BY <3>1, <1>4
    <3> QED
      BY <3>1, <3>2, <2>2, <1>1 DEF Ranks!Last, Ranks!Numbers
  <2>3. ASSUME NEW t \in RankType, type \notin RankType, Ranks!Last(h, t)
        PROVE  Ranks!Last(h, t)'
    <3>1. PICK i \in 0..n : Ranks!Event(h, i) = t /\ Ranks!NoneOfRank(h, i + 1, n)
      BY <2>3, <1>1 DEF Ranks!Last, Ranks!Numbers
    <3>2. i \in 0..n + 1 /\ i + 1 \in Nat
      BY <1>1
    <3>3. Ranks!Event(h, i)' = t /\ Ranks!NoneOfRank(h, i + 1, n + 1)'
      BY <3>1, <3>2, <2>3, <1>1, <1>4
    <3> QED
      BY <3>2, <3>3, <1>1 DEF Ranks!Last, Ranks!Numbers
  <2> QED
    BY <2>1, <2>2, <2>3
<1>6. ASSUME NEW t \in RankType, Ranks!Repeated(h, t)'
      PROVE  Ranks!Repeated(h, t) \/ (type = t /\ Ranks!Last(h, t))
  <2>1. PICK i \in 0..n + 1, j \in 0..n + 1 :
          /\ i < j /\ Ranks!NoneOfRank(h, i + 1, j - 1)'
          /\ Ranks!Event(h, i)' = t /\ Ranks!Event(h, j)' = t
    BY <1>6, <1>1 DEF Ranks!Repeated, Ranks!Numbers
  <2>2. i \in 0..n /\ i + 1 \in Nat /\ j - 1 \in 0..n
    BY <2>1, <1>1
  <2>3. Ranks!Event(h, i) = t /\ Ranks!NoneOfRank(h, i + 1, j - 1)
    BY <2>1, <2>2, <1>1, <1>3
  <2>4. CASE j = n + 1
    <3>1. j - 1 = n /\ type = t
      BY <2>1, <2>4, <1>1
    <3> QED
      BY <3>1, <2>2, <2>3, <1>1 DEF Ranks!Last, Ranks!Numbers
  <2>5. CASE j # n + 1
    <3>1. j \in 0..n
      BY <2>5, <1>1
    <3>2. Ranks!Event(h, j) = t
      BY <3>1, <2>1, <1>1
    <3> QED
      BY <3>1, <3>2, <2>1, <2>2, <2>3, <1>1 DEF Ranks!Repeated, Ranks!Numbers
  <2> QED
    BY <2>4, <2>5
<1> QED
  BY <1>1, <1>2, <1>5, <1>6 DEF SaysRanked, RankType

(* The order in which equal holders are listed: finite sets can be numbered. *)
LEMMA ListedIsAnOrder == Ranks!Listed \in [Holder -> Int]
<1>1. IsFiniteSet(Holder)
  BY HolderAssumption
<1>2. \A S : Ranks!Cardinality(S) = Cardinality(S)
  BY DEF Ranks!Cardinality, Cardinality
<1>3. PICK n \in Nat : n = Cardinality(Holder) /\ ExistsBijection(1..n, Holder)
  BY <1>1, FS_CardinalityType
<1>4. PICK f \in Bijection(1..n, Holder) : TRUE
  BY <1>3 DEF ExistsBijection
<1> DEFINE at == [h \in Holder |-> CHOOSE i \in 1..n : f[i] = h]
<1>5. \A h \in Holder : at[h] \in 1..n /\ f[at[h]] = h
  BY <1>4 DEF Bijection, Surjection
<1>6. at \in [Holder -> 1..n] /\ \A g, h \in Holder : g # h => at[g] # at[h]
  BY <1>5
<1>7. Ranks!Listed \in [Holder -> 1..n]
  BY <1>2, <1>3, <1>6 DEF Ranks!Listed
<1> QED
  BY <1>7

(* An address that has no event enters with the baseline. *)
LEMMA BaselineCounts ==
  ASSUME RankTypes, NEW h \in Holder, holderEvents[h] = <<>>,
         ranked' = ranked \cup {h}, UNCHANGED holderEvents
  PROVE  /\ SaysRanked(h)' /\ \A t : ~Ranks!Repeated(h, t)'
         /\ \A g \in Holder : g # h => (SaysRanked(g)' <=> SaysRanked(g))
         /\ \A g \in Holder : \A t : g # h => (Ranks!Repeated(g, t)' <=> Ranks!Repeated(g, t))
<1>1. Len(holderEvents[h]) = 0 /\ h \in ranked'
  OBVIOUS
<1>2. SaysRanked(h)'
  BY <1>1 DEF SaysRanked, Ranks!Last, Ranks!Numbers, Ranks!NoneOfRank, Ranks!Event
<1>3. \A t : ~Ranks!Repeated(h, t)'
  BY <1>1 DEF Ranks!Repeated, Ranks!Numbers
<1>4. ASSUME NEW g \in Holder, g # h
      PROVE  /\ SaysRanked(g)' <=> SaysRanked(g)
             /\ \A t : Ranks!Repeated(g, t)' <=> Ranks!Repeated(g, t)
  <2>1. \A i : Ranks!Event(g, i)' = Ranks!Event(g, i)
    BY <1>4 DEF Ranks!Event
  <2>2. \A i, j : Ranks!NoneOfRank(g, i, j)' <=> Ranks!NoneOfRank(g, i, j)
    BY <2>1 DEF Ranks!NoneOfRank
  <2> QED
    BY <2>1, <2>2 DEF SaysRanked, Ranks!Last, Ranks!Repeated, Ranks!Numbers
<1> QED
  BY <1>2, <1>3, <1>4

(* What is said last is said alone: who is said to be ranked did not exit last. *)
LEMMA LastIsOne ==
  ASSUME RankTypes, NEW h \in Holder, SaysRanked(h)
  PROVE  ~Ranks!Last(h, "exited")
<1> SUFFICES ASSUME Ranks!Last(h, "exited") PROVE FALSE
  OBVIOUS
<1>1. PICK n \in Nat : n = Len(holderEvents[h])
  BY DEF RankTypes
<1>2. PICK i \in 0..n : Ranks!Event(h, i) = "entered" /\ Ranks!NoneOfRank(h, i + 1, n)
  BY <1>1 DEF SaysRanked, Ranks!Last, Ranks!Numbers
<1>3. PICK j \in 0..n : Ranks!Event(h, j) = "exited" /\ Ranks!NoneOfRank(h, j + 1, n)
  BY <1>1 DEF Ranks!Last, Ranks!Numbers
<1>4. i # j
  BY <1>2, <1>3
<1>5. i \in j + 1..n \/ j \in i + 1..n
  BY <1>4
<1> QED
  BY <1>2, <1>3, <1>5 DEF Ranks!NoneOfRank

-----------------------------------------------------------------------------
(* The ranking: distinct holders, no more than the limit. *)
LEMMA RankingIsDistinct ==
  ASSUME RankTypes, NEW page \in Ranks!Rankings
  PROVE  LET todo == Ranks!Candidates(page) IN
         /\ todo \in Seq(Candidate) /\ Len(todo) <= RankLimit
         /\ \A i, j \in DOMAIN todo : i < j => todo[i].address # todo[j].address
<1> DEFINE holders == {h \in Holder : holding[h] > 0}
           todo == Ranks!Candidates(page)
<1>1. IsFiniteSet(holders) /\ Cardinality(holders) \in Nat
  <2>1. IsFiniteSet(Holder)
    BY HolderAssumption
  <2>2. holders \subseteq Holder
    OBVIOUS
  <2> QED
    BY <2>1, <2>2, FS_Subset, FS_CardinalityType
<1>2. \A S : Ranks!Cardinality(S) = Cardinality(S)
  BY DEF Ranks!Cardinality, Cardinality
<1>3. PICK n \in Nat : /\ n <= RankLimit /\ page \in [1..n -> holders]
                       /\ \A i, j \in 1..n : i < j => Ranks!Above(page[i], page[j])
  <2> DEFINE c == Cardinality(holders)
             n == IF c < RankLimit THEN c ELSE RankLimit
  <2>1. /\ page \in [1..n -> holders]
        /\ \A i, j \in 1..n : i < j => Ranks!Above(page[i], page[j])
    BY <1>2 DEF Ranks!Rankings
  <2>2. n \in Nat /\ n <= RankLimit
    BY <1>1, HolderAssumption
  <2> QED
    BY <2>1, <2>2
<1>4. \A h \in Holder : ~Ranks!Above(h, h)
  <2>1. Ranks!Listed \in [Holder -> Int]
    BY ListedIsAnOrder
  <2> QED
    BY <2>1 DEF Ranks!Above, RankTypes
<1>5. \A i \in 1..n : page[i] \in Holder /\ holding[page[i]] \in Nat
  BY <1>3 DEF RankTypes
<1>6. todo = [i \in 1..n |-> [address |-> page[i], balance |-> holding[page[i]]]]
  BY <1>3 DEF Ranks!Candidates
<1>7. /\ todo \in Seq(Candidate) /\ Len(todo) = n /\ DOMAIN todo = 1..n
      /\ \A i \in 1..n : todo[i].address = page[i]
  <2> HIDE DEF todo, holders
  <2>1. \A i \in 1..n : [address |-> page[i], balance |-> holding[page[i]]] \in Candidate
    BY <1>5 DEF Candidate
  <2> QED
    BY <2>1, <1>6
<1>8. \A i, j \in 1..n : i < j => page[i] # page[j]
  BY <1>3, <1>4, <1>5
<1> HIDE DEF todo
<1> QED
  BY <1>3, <1>7, <1>8 DEF todo

-----------------------------------------------------------------------------
(* The steps. *)

LEMMA IdleRefresh ==
  /\ Ranks!RefreshIdle \in RefreshPlace /\ Ranks!RefreshIdle.pc = "idle"
  /\ Ranks!RefreshIdle.todo = <<>> /\ Ranks!RefreshIdle.left = {}
  /\ Ranks!RefreshIdle.current = {}
  /\ Ranks!NoHolderRow \in HolderRow /\ ~Ranks!InRanking(Ranks!NoHolderRow)
<1>1. Ranks!NoHolderRow \in HolderRow /\ ~Ranks!InRanking(Ranks!NoHolderRow)
  BY HolderAssumption DEF Ranks!NoHolderRow, HolderRow, Ranks!InRanking
<1> QED
  BY <1>1 DEF Ranks!RefreshIdle, RefreshPlace

LEMMA RanksStart == Ranks!Init => RankInv
<1> SUFFICES ASSUME Ranks!Init PROVE RankInv
  OBVIOUS
<1>1. /\ holding \in [Holder -> {0, MaxHolding}]
      /\ holderRows = [h \in Holder |-> Ranks!NoHolderRow]
      /\ refresh = Ranks!RefreshIdle /\ cutShort = 0
      /\ holderEvents = [h \in Holder |-> <<>>] /\ ranked = {}
  BY DEF Ranks!Init
<1>2. RankTypes
  BY <1>1, IdleRefresh, HolderAssumption DEF RankTypes
<1>3. \A h \in Holder : ~SaysRanked(h) /\ \A t : ~Ranks!Repeated(h, t)
  <2> SUFFICES ASSUME NEW h \in Holder PROVE ~SaysRanked(h) /\ \A t : ~Ranks!Repeated(h, t)
    OBVIOUS
  <2>1. Len(holderEvents[h]) = 0 /\ h \notin ranked
    BY <1>1
  <2> QED
    BY <2>1 DEF SaysRanked, Ranks!Last, Ranks!Repeated, Ranks!Event, Ranks!Numbers
<1>4. \A h \in Holder : ~Ranks!InRanking(holderRows[h])
  BY <1>1, IdleRefresh
<1>5. CandidatesAreDistinct /\ RowsChangeInTurn
  BY <1>1, IdleRefresh DEF CandidatesAreDistinct, RowsChangeInTurn
<1>6. RanksAreInBounds
  BY <1>1, IdleRefresh, HolderAssumption, FS_EmptySet DEF RanksAreInBounds
<1>7. SaidIsRanked /\ EventsHaveRows
  BY <1>1, <1>3, IdleRefresh DEF SaidIsRanked, EventsHaveRows
<1>8. RankedIsSaid /\ EventsAlternate
  BY <1>1, <1>3, <1>4, IdleRefresh DEF RankedIsSaid, EventsAlternate, RankType
<1> QED
  BY <1>2, <1>5, <1>6, <1>7, <1>8 DEF RankInv

(* A refresh starts from the rows as they are. *)
LEMMA FetchStep == RankInv /\ Ranks!FetchHolders => RankInv'
<1> SUFFICES ASSUME RankInv, Ranks!FetchHolders PROVE RankInv'
  OBVIOUS
<1>1. PICK page \in Ranks!Rankings :
        refresh' = [Ranks!RefreshIdle EXCEPT !.pc = "upsert", !.todo = Ranks!Candidates(page),
                                             !.old = holderRows]
  BY DEF Ranks!FetchHolders
<1>2. /\ refresh.pc = "idle"
      /\ UNCHANGED <<holding, holderRows, cutShort, holderEvents, ranked>>
  BY DEF Ranks!FetchHolders
<1>3. RankTypes /\ SaidIsRanked /\ EventsHaveRows /\ RankedIsSaid /\ EventsAlternate
  BY DEF RankInv
<1> DEFINE todo == Ranks!Candidates(page)
<1>4. /\ todo \in Seq(Candidate) /\ Len(todo) <= RankLimit
      /\ \A i, j \in DOMAIN todo : i < j => todo[i].address # todo[j].address
  BY <1>3, RankingIsDistinct
<1> HIDE DEF todo
<1>5. /\ refresh' \in RefreshPlace /\ refresh'.pc = "upsert" /\ refresh'.todo = todo
      /\ refresh'.current = {} /\ refresh'.left = {} /\ refresh'.old = holderRows
  BY <1>1, <1>3, <1>4, IdleRefresh DEF todo, RankTypes, RefreshPlace
<1>6. RankTypes'
  BY <1>2, <1>3, <1>5 DEF RankTypes
<1>7. /\ \A h : SaysRanked(h)' <=> SaysRanked(h)
      /\ \A h, type : Ranks!Repeated(h, type)' <=> Ranks!Repeated(h, type)
      /\ \A h : ~Halfway(h)'
  BY <1>2, <1>5, EventsStay DEF Halfway
<1>8. CandidatesAreDistinct'
  BY <1>4, <1>5 DEF CandidatesAreDistinct
<1>9. RanksAreInBounds'
  <2>1. Cardinality({}) = 0 /\ IsFiniteSet({}) /\ Len(todo) \in Nat
    BY <1>4, FS_EmptySet
  <2> QED
    BY <2>1, <1>4, <1>5, HolderAssumption DEF RanksAreInBounds
<1>10. RowsChangeInTurn'
  BY <1>2, <1>5 DEF RowsChangeInTurn
<1>11. SaidIsRanked' /\ EventsHaveRows'
  BY <1>2, <1>3, <1>5, <1>7 DEF SaidIsRanked, EventsHaveRows, Ranks!InRanking
<1>12. RankedIsSaid'
  BY <1>2, <1>3, <1>5, <1>7 DEF RankedIsSaid, Ranks!InRanking
<1>13. EventsAlternate'
  BY <1>2, <1>3, <1>7 DEF EventsAlternate
<1> QED
  BY <1>6, <1>8, <1>9, <1>10, <1>11, <1>12, <1>13 DEF RankInv

(* A refresh that stops leaves rows in the ranking that nothing was said of. *)
LEMMA CutShortStep == RankInv /\ Ranks!CutShort => RankInv'
<1> SUFFICES ASSUME RankInv, Ranks!CutShort PROVE RankInv'
  OBVIOUS
<1>1. /\ refresh' = Ranks!RefreshIdle /\ cutShort' = cutShort + 1
      /\ UNCHANGED <<holding, holderRows, holderEvents, ranked>>
  BY DEF Ranks!CutShort
<1>2. RankTypes /\ SaidIsRanked /\ EventsHaveRows /\ EventsAlternate
  BY DEF RankInv
<1>3. RankTypes' /\ cutShort' # 0
  BY <1>1, <1>2, IdleRefresh DEF RankTypes
<1>4. /\ \A h : SaysRanked(h)' <=> SaysRanked(h)
      /\ \A h, type : Ranks!Repeated(h, type)' <=> Ranks!Repeated(h, type)
      /\ \A h : ~Halfway(h)'
  BY <1>1, IdleRefresh, EventsStay DEF Halfway
<1>5. CandidatesAreDistinct' /\ RowsChangeInTurn' /\ RankedIsSaid'
  BY <1>1, <1>3, IdleRefresh DEF CandidatesAreDistinct, RowsChangeInTurn, RankedIsSaid
<1>6. RanksAreInBounds'
  BY <1>1, IdleRefresh, HolderAssumption, FS_EmptySet DEF RanksAreInBounds
<1>7. SaidIsRanked' /\ EventsHaveRows' /\ EventsAlternate'
  BY <1>1, <1>2, <1>3, <1>4, IdleRefresh
     DEF SaidIsRanked, EventsHaveRows, EventsAlternate, Ranks!InRanking
<1> QED
  BY <1>3, <1>5, <1>6, <1>7 DEF RankInv

(* What the holders do meanwhile does not matter. *)
LEMMA HoldingStep ==
  ASSUME RankInv, holding' \in [Holder -> Nat],
         UNCHANGED <<holderRows, refresh, cutShort, holderEvents, ranked>>
  PROVE  RankInv'
<1>1. /\ \A h : SaysRanked(h)' <=> SaysRanked(h)
      /\ \A h, type : Ranks!Repeated(h, type)' <=> Ranks!Repeated(h, type)
      /\ \A h : Halfway(h)' <=> Halfway(h)
  BY EventsStay DEF Halfway, Ranks!At
<1>2. RankTypes' /\ CandidatesAreDistinct' /\ RanksAreInBounds'
  BY DEF RankInv, RankTypes, CandidatesAreDistinct, RanksAreInBounds
<1>3. RowsChangeInTurn' /\ SaidIsRanked' /\ EventsHaveRows'
  BY <1>1 DEF RankInv, RowsChangeInTurn, SaidIsRanked, EventsHaveRows, Ranks!InRanking,
              Ranks!InitialBaseline, Ranks!Stored
<1>4. RankedIsSaid' /\ EventsAlternate'
  BY <1>1 DEF RankInv, RankedIsSaid, EventsAlternate, Ranks!InRanking
<1> QED
  BY <1>2, <1>3, <1>4 DEF RankInv

(* The candidates that are left when the first is done. *)
LEMMA CandidatesAdvance ==
  ASSUME RankTypes, refresh.todo # <<>>
  PROVE  /\ Ranks!At \in Holder /\ refresh.todo[1] \in Candidate
         /\ 1 \in DOMAIN refresh.todo
         /\ Tail(refresh.todo) \in Seq(Candidate)
         /\ Len(Tail(refresh.todo)) = Len(refresh.todo) - 1
         /\ Len(refresh.todo) \in Nat \ {0}
         /\ \A i \in DOMAIN Tail(refresh.todo) :
              /\ i \in Nat \ {0} /\ i + 1 \in DOMAIN refresh.todo
              /\ Tail(refresh.todo)[i] = refresh.todo[i + 1]
<1>1. refresh.todo \in Seq(Candidate)
  BY DEF RankTypes, RefreshPlace
<1>2. refresh.todo[1] \in Candidate /\ Len(refresh.todo) \in Nat \ {0}
  BY <1>1
<1> QED
  BY <1>1, <1>2 DEF Ranks!At, Candidate

(* A candidate's row is written, and it is a ranked one. *)
LEMMA UpsertStep == RankInv /\ Ranks!UpsertMarketHolder => RankInv'
<1> SUFFICES ASSUME RankInv, Ranks!UpsertMarketHolder PROVE RankInv'
  OBVIOUS
<1> DEFINE row0 == Ranks!NextRow
           first == Ranks!InitialBaseline(refresh.old)
<1>0. /\ RankTypes /\ CandidatesAreDistinct /\ RanksAreInBounds /\ RowsChangeInTurn
      /\ SaidIsRanked /\ EventsHaveRows /\ RankedIsSaid /\ EventsAlternate
  BY DEF RankInv
<1>a. refresh.pc = "upsert" /\ refresh.todo # <<>>
  BY DEF Ranks!UpsertMarketHolder
<1>b. PICK at \in Holder : at = Ranks!At
  BY <1>0, <1>a, CandidatesAdvance
<1>1. /\ refresh.pc = "upsert" /\ refresh.todo # <<>>
      /\ holderRows' = [holderRows EXCEPT ![at] = row0]
      /\ IF first
         THEN /\ ranked' = ranked \cup {at}
              /\ refresh' = [refresh EXCEPT !.todo = Tail(@), !.current = @ \cup {at}]
         ELSE /\ refresh' = [refresh EXCEPT !.pc = "balance", !.current = @ \cup {at}]
              /\ UNCHANGED ranked
      /\ UNCHANGED <<holding, cutShort, holderEvents>>
  BY <1>b DEF Ranks!UpsertMarketHolder
<1>2. /\ at \in Holder /\ refresh.todo[1] \in Candidate /\ 1 \in DOMAIN refresh.todo
      /\ at = refresh.todo[1].address
      /\ Tail(refresh.todo) \in Seq(Candidate)
      /\ Len(Tail(refresh.todo)) = Len(refresh.todo) - 1
      /\ Len(refresh.todo) \in Nat \ {0}
      /\ \A i \in DOMAIN Tail(refresh.todo) :
           /\ i \in Nat \ {0} /\ i + 1 \in DOMAIN refresh.todo
           /\ Tail(refresh.todo)[i] = refresh.todo[i + 1]
  BY <1>0, <1>1, <1>b, CandidatesAdvance DEF Ranks!At
<1>3. at \notin refresh.current /\ at \notin refresh.left /\ refresh.left = {}
  BY <1>0, <1>1, <1>2 DEF CandidatesAreDistinct, SaidIsRanked
<1>4. /\ Cardinality(refresh.current) \in Nat /\ IsFiniteSet(refresh.current)
      /\ IsFiniteSet(refresh.current \cup {at})
      /\ Cardinality(refresh.current \cup {at}) = Cardinality(refresh.current) + 1
  BY <1>0, <1>3, FS_CardinalityType, FS_AddElement DEF RanksAreInBounds
<1>5. row0 \in HolderRow /\ Ranks!InRanking(row0) /\ row0 # Ranks!NoHolderRow
  <2>1. Ranks!Cardinality(refresh.current) = Cardinality(refresh.current)
    BY DEF Ranks!Cardinality, Cardinality
  <2>2. row0 = [balance |-> refresh.todo[1].balance, rank |-> Cardinality(refresh.current) + 1]
    BY <2>1 DEF Ranks!NextRow
  <2>3. Cardinality(refresh.current) + 1 \in 1..RankLimit
    BY <1>0, <1>1, <1>2, <1>4, HolderAssumption DEF RanksAreInBounds
  <2> QED
    BY <2>2, <2>3, <1>2 DEF HolderRow, Candidate, Ranks!InRanking, Ranks!NoHolderRow
<1>6. \A h \in Holder : IF h \in refresh.current THEN Ranks!InRanking(holderRows[h])
                        ELSE holderRows[h] = refresh.old[h]
  BY <1>0, <1>1 DEF RowsChangeInTurn
<1> HIDE DEF row0, first
<1>7. /\ holderRows' \in [Holder -> HolderRow] /\ holderRows'[at] = row0
      /\ \A h \in Holder : h # at => holderRows'[h] = holderRows[h]
  BY <1>0, <1>1, <1>2, <1>5 DEF RankTypes
<1>8. /\ refresh' \in RefreshPlace /\ refresh'.current = refresh.current \cup {at}
      /\ refresh'.left = {} /\ refresh'.old = refresh.old
      /\ first => refresh'.pc = "upsert" /\ refresh'.todo = Tail(refresh.todo)
      /\ ~first => refresh'.pc = "balance" /\ refresh'.todo = refresh.todo
  <2> DEFINE rest == Tail(refresh.todo)
             taken == refresh.current \cup {at}
  <2>1. /\ refresh \in RefreshPlace /\ taken \in SUBSET Holder /\ rest \in Seq(Candidate)
        /\ first => refresh' = [refresh EXCEPT !.todo = rest, !.current = taken]
        /\ ~first => refresh' = [refresh EXCEPT !.pc = "balance", !.current = taken]
    BY <1>0, <1>1, <1>2 DEF RankTypes, RefreshPlace
  <2> HIDE DEF rest, taken
  <2>2. CASE first
    BY <2>1, <2>2, <1>1, <1>3 DEF RefreshPlace, rest, taken
  <2>3. CASE ~first
    BY <2>1, <2>3, <1>3 DEF RefreshPlace, taken
  <2> QED
    BY <2>2, <2>3
<1>9. RankTypes'
  BY <1>0, <1>1, <1>2, <1>7, <1>8 DEF RankTypes
<1>10. CandidatesAreDistinct'
  <2>1. /\ \A i \in DOMAIN refresh.todo : i \in Nat \ {0}
        /\ \A i, j \in DOMAIN refresh.todo : i < j =>
             refresh.todo[i].address # refresh.todo[j].address
        /\ \A i \in DOMAIN refresh.todo : refresh.todo[i].address \notin refresh.current
    BY <1>0, <1>1 DEF RankTypes, RefreshPlace, CandidatesAreDistinct
  <2>2. \A i \in DOMAIN refresh.todo : refresh.todo[i].address = at <=> i = 1
    BY <2>1, <1>2
  <2>3. CASE first
    <3> DEFINE rest == Tail(refresh.todo)
    <3>1. ASSUME NEW i \in DOMAIN rest, NEW j \in DOMAIN rest, i < j
          PROVE  rest[i].address # rest[j].address
      <4>1. /\ i + 1 \in DOMAIN refresh.todo /\ j + 1 \in DOMAIN refresh.todo /\ i + 1 < j + 1
            /\ rest[i] = refresh.todo[i + 1] /\ rest[j] = refresh.todo[j + 1]
        BY <3>1, <1>2
      <4> QED
        BY <4>1, <2>1
    <3>2. \A i \in DOMAIN rest : rest[i].address \notin refresh.current \cup {at}
      BY <2>1, <2>2, <1>2
    <3> HIDE DEF rest
    <3>3. refresh'.todo = rest /\ refresh'.pc = "upsert"
      BY <2>3, <1>8 DEF rest
    <3> QED
      BY <3>1, <3>2, <3>3, <1>8 DEF CandidatesAreDistinct
  <2>4. CASE ~first
    <3>1. refresh'.todo = refresh.todo /\ refresh'.pc = "balance"
      BY <2>4, <1>8
    <3> QED
      BY <3>1, <2>1, <2>2, <1>1, <1>8 DEF CandidatesAreDistinct
  <2> QED
    BY <2>3, <2>4
<1>11. RanksAreInBounds'
  <2>1. Cardinality(refresh.current) + Len(refresh.todo) <= RankLimit /\ RankLimit \in Nat
    BY <1>0, <1>1, HolderAssumption DEF RanksAreInBounds
  <2>2. CASE first
    <3>1. /\ refresh'.pc = "upsert" /\ Len(refresh'.todo) = Len(refresh.todo) - 1
          /\ refresh'.current = refresh.current \cup {at}
      BY <2>2, <1>2, <1>8
    <3> QED
      BY <3>1, <2>1, <1>2, <1>4 DEF RanksAreInBounds
  <2>3. CASE ~first
    BY <2>1, <2>3, <1>2, <1>4, <1>8 DEF RanksAreInBounds
  <2> QED
    BY <2>2, <2>3
<1>12. RowsChangeInTurn'
  BY <1>5, <1>6, <1>7, <1>8 DEF RowsChangeInTurn, Ranks!InRanking
<1>13. /\ SaysRanked(at) => Ranks!InRanking(refresh.old[at])
       /\ cutShort = 0 /\ Ranks!InRanking(refresh.old[at]) => SaysRanked(at)
  BY <1>0, <1>1, <1>2, <1>3, <1>6 DEF SaidIsRanked, RankedIsSaid
<1>14. ASSUME \A h \in Holder : h # at => (SaysRanked(h)' <=> SaysRanked(h)),
              \A h \in Holder, t \in RankType :
                h # at => (Ranks!Repeated(h, t)' <=> Ranks!Repeated(h, t)),
              first => SaysRanked(at)' /\ \A t : ~Ranks!Repeated(at, t)',
              first => refresh.old[at] = Ranks!NoHolderRow,
              ~first => /\ SaysRanked(at)' <=> SaysRanked(at)
                        /\ \A t \in RankType : Ranks!Repeated(at, t)' <=> Ranks!Repeated(at, t)
       PROVE  RankInv'
  <2>1. \A h \in Holder : Halfway(h)' <=> ~first /\ h = at
    BY <1>1, <1>2, <1>8 DEF Halfway, Ranks!At
  <2>2. SaidIsRanked'
    <3>1. \A h \in Holder : SaysRanked(h)' => Ranks!InRanking(holderRows'[h])
      BY <1>0, <1>5, <1>7, <1>14 DEF SaidIsRanked
    <3>2. \A h \in Holder : Halfway(h)' /\ SaysRanked(h)' => Ranks!InRanking(refresh.old[h])
      BY <2>1, <1>13, <1>14
    <3> QED
      BY <3>1, <3>2, <1>8 DEF SaidIsRanked, Ranks!InRanking
  <2>3. EventsHaveRows'
    BY <1>0, <1>1, <1>5, <1>7, <1>8
       DEF EventsHaveRows, Ranks!NoHolderRow, first, Ranks!InitialBaseline, Ranks!Stored
  <2>4. RankedIsSaid'
    <3> SUFFICES ASSUME cutShort = 0, NEW h \in Holder
                 PROVE  /\ h \in refresh'.current /\ ~Halfway(h)' => SaysRanked(h)'
                        /\ h \notin refresh'.current \/ Halfway(h)' =>
                             (Ranks!InRanking(refresh.old[h]) => SaysRanked(h)')
      BY <1>1, <1>8 DEF RankedIsSaid, Ranks!InRanking
    <3>1. CASE h = at
      BY <3>1, <2>1, <1>8, <1>13, <1>14
    <3>2. CASE h # at
      <4>1. /\ h \in refresh.current => SaysRanked(h)
            /\ h \notin refresh.current => (Ranks!InRanking(refresh.old[h]) => SaysRanked(h))
        BY <3>2, <1>0, <1>1, <1>3, <1>6 DEF RankedIsSaid, Halfway
      <4> QED
        BY <4>1, <3>2, <2>1, <1>8, <1>14
    <3> QED
      BY <3>1, <3>2
  <2>5. EventsAlternate'
    BY <1>0, <1>1, <1>14 DEF EventsAlternate, RankType
  <2> QED
    BY <2>2, <2>3, <2>4, <2>5, <1>9, <1>10, <1>11, <1>12 DEF RankInv
<1>15. CASE first
  <2>1. \A h \in Holder : refresh.old[h] = Ranks!NoHolderRow
    BY <1>15 DEF first, Ranks!InitialBaseline, Ranks!Stored
  <2>2. holderEvents[at] = <<>>
    BY <2>1, <1>0, <1>2, <1>3, <1>6 DEF EventsHaveRows
  <2>3. ranked' = ranked \cup {at} /\ UNCHANGED holderEvents
    BY <1>1, <1>15
  <2> QED
    BY <2>1, <2>2, <2>3, <1>0, <1>14, <1>15, BaselineCounts
<1>16. CASE ~first
  <2>1. UNCHANGED <<holderEvents, ranked>>
    BY <1>1, <1>16
  <2> QED
    BY <2>1, <1>14, <1>16, EventsStay
<1> QED
  BY <1>15, <1>16

(* A change of its balance says nothing of an address's rank. *)
LEMMA BalanceStep == RankInv /\ Ranks!RecordHolderBalanceChange => RankInv'
<1> SUFFICES ASSUME RankInv, Ranks!RecordHolderBalanceChange PROVE RankInv'
  OBVIOUS
<1>0. /\ RankTypes /\ CandidatesAreDistinct /\ RanksAreInBounds /\ RowsChangeInTurn
      /\ SaidIsRanked /\ EventsHaveRows /\ RankedIsSaid /\ EventsAlternate
  BY DEF RankInv
<1>1. /\ refresh.pc = "balance" /\ refresh' = [refresh EXCEPT !.pc = "rank"]
      /\ UNCHANGED <<holding, holderRows, cutShort, ranked>>
  BY DEF Ranks!RecordHolderBalanceChange
<1>2. refresh.todo # <<>>
  BY <1>0, <1>1 DEF CandidatesAreDistinct
<1>3. PICK at \in Holder : at = Ranks!At
  BY <1>0, <1>2, CandidatesAdvance
<1>4. /\ holderEvents' \in [Holder -> Seq({"increase", "decrease", "entered", "exited"})]
      /\ \A h \in Holder : SaysRanked(h)' <=> SaysRanked(h)
      /\ \A h \in Holder, t \in RankType : Ranks!Repeated(h, t)' => Ranks!Repeated(h, t)
      /\ \A h \in Holder : holderEvents[h] # <<>> \/ h = at \/ holderEvents'[h] = <<>>
  <2>1. CASE UNCHANGED holderEvents
    BY <2>1, <1>0, <1>1, EventsStay DEF RankTypes
  <2>2. CASE ~UNCHANGED holderEvents
    <3>1. /\ holderRows[at].balance # refresh.old[at].balance
          /\ Ranks!Emit(at, Ranks!BalanceEvent(at))
      BY <2>2, <1>3 DEF Ranks!RecordHolderBalanceChange
    <3>2. holderRows[at].balance \in Nat /\ refresh.old[at].balance \in Nat
      BY <1>0 DEF RankTypes, RefreshPlace, HolderRow
    <3>3. Ranks!BalanceEvent(at) \in {"increase", "decrease"}
      BY <3>1, <3>2 DEF Ranks!BalanceEvent
    <3>4. PICK type \in {"increase", "decrease"} : Ranks!Emit(at, type)
      BY <3>1, <3>3
    <3>5. type \notin RankType /\ type \in {"increase", "decrease", "entered", "exited"}
      BY DEF RankType
    <3> QED
      BY <3>4, <3>5, <1>0, <1>1, EventCounts
  <2> QED
    BY <2>1, <2>2
<1>5. /\ refresh' \in RefreshPlace /\ refresh'.pc = "rank" /\ refresh'.todo = refresh.todo
      /\ refresh'.current = refresh.current /\ refresh'.left = refresh.left
      /\ refresh'.old = refresh.old
  BY <1>0, <1>1 DEF RankTypes, RefreshPlace
<1>6. RankTypes'
  BY <1>0, <1>1, <1>4, <1>5 DEF RankTypes
<1>7. \A h \in Holder : Halfway(h)' <=> Halfway(h)
  BY <1>1, <1>5 DEF Halfway, Ranks!At
<1>8. CandidatesAreDistinct' /\ RanksAreInBounds' /\ RowsChangeInTurn'
  BY <1>0, <1>1, <1>5
     DEF CandidatesAreDistinct, RanksAreInBounds, RowsChangeInTurn, Ranks!InRanking
<1>9. SaidIsRanked'
  BY <1>0, <1>1, <1>4, <1>5, <1>7 DEF SaidIsRanked, Ranks!InRanking, RankTypes, RefreshPlace
<1>10. EventsHaveRows'
  <2>1. holderRows[at] # Ranks!NoHolderRow
    <3>1. at = refresh.todo[1].address /\ 1 \in DOMAIN refresh.todo
      BY <1>0, <1>2, <1>3, CandidatesAdvance DEF Ranks!At
    <3>2. Ranks!InRanking(holderRows[at])
      BY <3>1, <1>0, <1>1, <1>3 DEF CandidatesAreDistinct, RowsChangeInTurn
    <3> QED
      BY <3>2, IdleRefresh
  <2> QED
    BY <2>1, <1>0, <1>1, <1>4, <1>5
       DEF EventsHaveRows, Ranks!InitialBaseline, Ranks!Stored, Ranks!NoHolderRow
<1>11. RankedIsSaid'
  BY <1>0, <1>1, <1>4, <1>5, <1>7 DEF RankedIsSaid, Ranks!InRanking
<1>12. EventsAlternate'
  BY <1>0, <1>1, <1>4 DEF EventsAlternate, RankType
<1> QED
  BY <1>6, <1>8, <1>9, <1>10, <1>11, <1>12 DEF RankInv

(* A candidate is announced that was not in the ranking, so that it was not said to
   be in it. *)
LEMMA EnteredStep == RankInv /\ Ranks!RecordHolderRankEntered => RankInv'
<1> SUFFICES ASSUME RankInv, Ranks!RecordHolderRankEntered PROVE RankInv'
  OBVIOUS
<1>0. /\ RankTypes /\ CandidatesAreDistinct /\ RanksAreInBounds /\ RowsChangeInTurn
      /\ SaidIsRanked /\ EventsHaveRows /\ RankedIsSaid /\ EventsAlternate
  BY DEF RankInv
<1>1. /\ refresh.pc = "rank"
      /\ refresh' = [refresh EXCEPT !.pc = "upsert", !.todo = Tail(@)]
      /\ UNCHANGED <<holding, holderRows, cutShort, ranked>>
  BY DEF Ranks!RecordHolderRankEntered
<1>2. refresh.todo # <<>>
  BY <1>0, <1>1 DEF CandidatesAreDistinct
<1>3. PICK at \in Holder : at = Ranks!At
  BY <1>0, <1>2, CandidatesAdvance
<1> DEFINE rest == Tail(refresh.todo)
<1>4. /\ at = refresh.todo[1].address /\ 1 \in DOMAIN refresh.todo
      /\ rest \in Seq(Candidate) /\ Len(rest) = Len(refresh.todo) - 1
      /\ Len(refresh.todo) \in Nat \ {0}
      /\ \A i \in DOMAIN rest : /\ i \in Nat \ {0} /\ i + 1 \in DOMAIN refresh.todo
                                /\ rest[i] = refresh.todo[i + 1]
  BY <1>0, <1>2, <1>3, CandidatesAdvance DEF Ranks!At
<1> HIDE DEF rest
<1>5. /\ refresh' \in RefreshPlace /\ refresh'.pc = "upsert" /\ refresh'.todo = rest
      /\ refresh'.current = refresh.current /\ refresh'.left = refresh.left
      /\ refresh'.old = refresh.old /\ refresh.left = {}
  <2>1. refresh' = [refresh EXCEPT !.pc = "upsert", !.todo = rest]
    BY <1>1 DEF rest
  <2> QED
    BY <2>1, <1>0, <1>2, <1>4 DEF RankTypes, RefreshPlace, SaidIsRanked
<1>6. /\ \A h \in Holder : Halfway(h) <=> h = at
      /\ \A h \in Holder : ~Halfway(h)'
  BY <1>1, <1>3, <1>5 DEF Halfway
<1>7. /\ at \in refresh.current /\ Ranks!InRanking(holderRows[at])
      /\ SaysRanked(at) => Ranks!InRanking(refresh.old[at])
      /\ cutShort = 0 => (Ranks!InRanking(refresh.old[at]) => SaysRanked(at))
  <2>1. at \in refresh.current
    BY <1>0, <1>1, <1>4 DEF CandidatesAreDistinct
  <2> QED
    BY <2>1, <1>0, <1>1, <1>5, <1>6 DEF RowsChangeInTurn, SaidIsRanked, RankedIsSaid
<1>8. /\ holderEvents' \in [Holder -> Seq({"increase", "decrease", "entered", "exited"})]
      /\ \A h \in Holder : h # at => (SaysRanked(h)' <=> SaysRanked(h))
      /\ cutShort = 0 => SaysRanked(at)'
      /\ \A h \in Holder, t \in RankType : Ranks!Repeated(h, t)' => Ranks!Repeated(h, t)
      /\ \A h \in Holder : holderEvents[h] # <<>> \/ h = at \/ holderEvents'[h] = <<>>
  <2>1. CASE Ranks!InRanking(refresh.old[at])
    <3>1. UNCHANGED holderEvents
      BY <2>1, <1>3 DEF Ranks!RecordHolderRankEntered, Ranks!Enters
    <3> QED
      BY <2>1, <3>1, <1>0, <1>1, <1>7, EventsStay DEF RankTypes
  <2>2. CASE ~Ranks!InRanking(refresh.old[at])
    <3>1. Ranks!Emit(at, "entered") /\ ~Ranks!Last(at, "entered")
      BY <2>2, <1>3, <1>7 DEF Ranks!RecordHolderRankEntered, Ranks!Enters, SaysRanked
    <3> QED
      BY <3>1, <1>0, <1>1, EventCounts
  <2> QED
    BY <2>1, <2>2
<1>9. RankTypes'
  BY <1>0, <1>1, <1>5, <1>8 DEF RankTypes
<1>10. CandidatesAreDistinct'
  <2>1. ASSUME NEW i \in DOMAIN rest PROVE rest[i].address \notin refresh.current
    <3>1. i + 1 \in DOMAIN refresh.todo /\ rest[i] = refresh.todo[i + 1] /\ i + 1 # 1
      BY <1>4
    <3> QED
      BY <3>1, <1>0 DEF CandidatesAreDistinct
  <2>2. ASSUME NEW i \in DOMAIN rest, NEW j \in DOMAIN rest, i < j
        PROVE  rest[i].address # rest[j].address
    <3>1. /\ i + 1 \in DOMAIN refresh.todo /\ j + 1 \in DOMAIN refresh.todo /\ i + 1 < j + 1
          /\ rest[i] = refresh.todo[i + 1] /\ rest[j] = refresh.todo[j + 1]
      BY <2>2, <1>4
    <3> QED
      BY <3>1, <1>0 DEF CandidatesAreDistinct
  <2> QED
    BY <2>1, <2>2, <1>5 DEF CandidatesAreDistinct
<1>11. RanksAreInBounds'
  <2>1. /\ Cardinality(refresh.current) + Len(refresh.todo) <= RankLimit + 1
        /\ IsFiniteSet(refresh.current) /\ Cardinality(refresh.current) \in Nat
        /\ RankLimit \in Nat
    BY <1>0, <1>1, HolderAssumption, FS_CardinalityType DEF RanksAreInBounds
  <2>2. Len(refresh'.todo) = Len(refresh.todo) - 1
    BY <1>4, <1>5
  <2> QED
    BY <2>1, <2>2, <1>4, <1>5 DEF RanksAreInBounds
<1>12. RowsChangeInTurn'
  BY <1>0, <1>1, <1>5 DEF RowsChangeInTurn, Ranks!InRanking
<1>13. SaidIsRanked'
  BY <1>0, <1>1, <1>5, <1>6, <1>7, <1>8 DEF SaidIsRanked, Ranks!InRanking
<1>14. EventsHaveRows'
  BY <1>0, <1>1, <1>5, <1>7, <1>8, IdleRefresh
     DEF EventsHaveRows, Ranks!NoHolderRow
<1>15. RankedIsSaid'
  <2> SUFFICES ASSUME cutShort = 0, NEW h \in Holder
               PROVE  /\ h \in refresh.current => SaysRanked(h)'
                      /\ h \notin refresh.current =>
                           (Ranks!InRanking(refresh.old[h]) => SaysRanked(h)')
    BY <1>1, <1>5, <1>6 DEF RankedIsSaid, Ranks!InRanking
  <2>1. CASE h = at
    BY <2>1, <1>7, <1>8
  <2>2. CASE h # at
    <3>1. /\ h \in refresh.current => SaysRanked(h)
          /\ h \notin refresh.current => (Ranks!InRanking(refresh.old[h]) => SaysRanked(h))
      BY <2>2, <1>0, <1>1, <1>5, <1>6 DEF RankedIsSaid, RowsChangeInTurn
    <3> QED
      BY <3>1, <2>2, <1>8
  <2> QED
    BY <2>1, <2>2
<1>16. EventsAlternate'
  BY <1>0, <1>1, <1>8 DEF EventsAlternate, RankType
<1> QED
  BY <1>9, <1>10, <1>11, <1>12, <1>13, <1>14, <1>15, <1>16 DEF RankInv

(* Who has left the ranking is announced once; without refreshes cut short it was
   said to be in it. *)
LEMMA ExitedStep == RankInv /\ Ranks!RecordHolderRankExited => RankInv'
<1> SUFFICES ASSUME RankInv, Ranks!RecordHolderRankExited PROVE RankInv'
  OBVIOUS
<1>0. /\ RankTypes /\ CandidatesAreDistinct /\ RanksAreInBounds /\ RowsChangeInTurn
      /\ SaidIsRanked /\ EventsHaveRows /\ RankedIsSaid /\ EventsAlternate
  BY DEF RankInv
<1>1. /\ refresh.pc = "upsert" /\ refresh.todo = <<>>
      /\ UNCHANGED <<holding, holderRows, cutShort, ranked>>
  BY DEF Ranks!RecordHolderRankExited
<1>2. PICK x \in Ranks!Exiting : /\ Ranks!Emit(x, "exited")
                                 /\ refresh' = [refresh EXCEPT !.left = @ \cup {x}]
  BY DEF Ranks!RecordHolderRankExited
<1>3. /\ x \in Holder /\ x \notin refresh.current /\ x \notin refresh.left
      /\ Ranks!InRanking(refresh.old[x])
  BY <1>2 DEF Ranks!Exiting
<1>4. holderRows[x] = refresh.old[x]
  BY <1>0, <1>1, <1>3 DEF RowsChangeInTurn
<1>5. cutShort = 0 => SaysRanked(x) /\ ~Ranks!Last(x, "exited")
  BY <1>0, <1>1, <1>3, LastIsOne DEF RankedIsSaid
<1>6. /\ holderEvents' \in [Holder -> Seq({"increase", "decrease", "entered", "exited"})]
      /\ \A h \in Holder : h # x => holderEvents'[h] = holderEvents[h]
      /\ \A h \in Holder : h # x => (SaysRanked(h)' <=> SaysRanked(h))
      /\ ~SaysRanked(x)'
      /\ \A h \in Holder, t \in RankType : Ranks!Repeated(h, t)' =>
           Ranks!Repeated(h, t) \/ (t = "exited" /\ cutShort # 0)
  BY <1>0, <1>1, <1>2, <1>3, <1>5, EventCounts
<1>7. /\ refresh' \in RefreshPlace /\ refresh'.pc = "upsert" /\ refresh'.todo = <<>>
      /\ refresh'.current = refresh.current /\ refresh'.left = refresh.left \cup {x}
      /\ refresh'.old = refresh.old
  <2> DEFINE left == refresh.left \cup {x}
  <2>1. left \in SUBSET Holder /\ refresh \in RefreshPlace
    BY <1>0, <1>3 DEF RankTypes, RefreshPlace
  <2> HIDE DEF left
  <2>2. refresh' = [refresh EXCEPT !.left = left]
    BY <1>2 DEF left
  <2> QED
    BY <2>1, <2>2, <1>1 DEF RefreshPlace, left
<1>8. RankTypes'
  BY <1>0, <1>1, <1>6, <1>7 DEF RankTypes
<1>9. /\ \A h \in Holder : ~Halfway(h)
      /\ \A h \in Holder : ~Halfway(h)'
  BY <1>1, <1>7 DEF Halfway
<1>10. CandidatesAreDistinct' /\ RanksAreInBounds' /\ RowsChangeInTurn'
  BY <1>0, <1>1, <1>7
     DEF CandidatesAreDistinct, RanksAreInBounds, RowsChangeInTurn, Ranks!InRanking
<1>11. SaidIsRanked'
  <2>1. \A h \in Holder : SaysRanked(h)' => SaysRanked(h)
    BY <1>6
  <2>2. refresh.left \subseteq Holder
    BY <1>0 DEF RankTypes, RefreshPlace
  <2> QED
    BY <2>1, <2>2, <1>0, <1>1, <1>3, <1>6, <1>7, <1>9 DEF SaidIsRanked, Ranks!InRanking
<1>12. EventsHaveRows'
  BY <1>0, <1>1, <1>3, <1>4, <1>6, <1>7, IdleRefresh DEF EventsHaveRows, Ranks!NoHolderRow
<1>13. RankedIsSaid'
  <2> SUFFICES ASSUME cutShort = 0, NEW h \in Holder
               PROVE  /\ h \in refresh.current => SaysRanked(h)'
                      /\ h \notin refresh.current /\ h \notin refresh.left /\ h # x =>
                           (Ranks!InRanking(refresh.old[h]) => SaysRanked(h)')
    BY <1>1, <1>7, <1>9 DEF RankedIsSaid, Ranks!InRanking
  <2>1. /\ h \in refresh.current => SaysRanked(h)
        /\ h \notin refresh.current /\ h \notin refresh.left =>
             (Ranks!InRanking(refresh.old[h]) => SaysRanked(h))
    BY <1>0, <1>1, <1>9 DEF RankedIsSaid, RowsChangeInTurn
  <2> QED
    BY <2>1, <1>3, <1>6
<1>14. EventsAlternate'
  BY <1>0, <1>1, <1>6 DEF EventsAlternate, RankType
<1> QED
  BY <1>8, <1>10, <1>11, <1>12, <1>13, <1>14 DEF RankInv

(* Whoever is cleared was announced, or was not ranked before the refresh. *)
LEMMA ClearStep == RankInv /\ Ranks!ClearMarketHolderRanksOutsideSnapshot => RankInv'
<1> SUFFICES ASSUME RankInv, Ranks!ClearMarketHolderRanksOutsideSnapshot PROVE RankInv'
  OBVIOUS
<1> DEFINE cleared == {h \in Holder \ refresh.current : holderRows[h].rank > 0}
           Row(h) == IF h \in cleared THEN [holderRows[h] EXCEPT !.rank = 0]
                     ELSE holderRows[h]
<1>0. /\ RankTypes /\ CandidatesAreDistinct /\ RanksAreInBounds /\ RowsChangeInTurn
      /\ SaidIsRanked /\ EventsHaveRows /\ RankedIsSaid /\ EventsAlternate
  BY DEF RankInv
<1>1. /\ refresh.pc = "upsert" /\ refresh.todo = <<>> /\ Ranks!Exiting = {}
      /\ holderRows' = [h \in Holder |-> Row(h)]
      /\ refresh' = Ranks!RefreshIdle
      /\ UNCHANGED <<holding, cutShort, holderEvents, ranked>>
  BY DEF Ranks!ClearMarketHolderRanksOutsideSnapshot, Ranks!Unranked
<1>2. ASSUME NEW h \in Holder
      PROVE  /\ Row(h) \in HolderRow
             /\ h \in refresh.current => Row(h) = holderRows[h]
             /\ h \notin refresh.current => ~Ranks!InRanking(Row(h))
             /\ Row(h) = Ranks!NoHolderRow => holderRows[h] = Ranks!NoHolderRow
  <2>1. holderRows[h] \in HolderRow
    BY <1>0, <1>2 DEF RankTypes
  <2>2. CASE h \in cleared
    BY <2>1, <2>2, HolderAssumption DEF HolderRow, Ranks!InRanking, Ranks!NoHolderRow
  <2>3. CASE h \notin cleared
    BY <2>1, <2>3, HolderAssumption DEF HolderRow, Ranks!InRanking
  <2> QED
    BY <2>2, <2>3
<1> HIDE DEF Row, cleared
<1>3. /\ holderRows' \in [Holder -> HolderRow]
      /\ \A h \in Holder : holderRows'[h] = Row(h)
  BY <1>1, <1>2
<1>4. /\ \A h : SaysRanked(h)' <=> SaysRanked(h)
      /\ \A h, type : Ranks!Repeated(h, type)' <=> Ranks!Repeated(h, type)
      /\ \A h \in Holder : ~Halfway(h) /\ ~Halfway(h)'
  BY <1>1, EventsStay, IdleRefresh DEF Halfway
<1>5. RankTypes'
  BY <1>0, <1>1, <1>3, IdleRefresh DEF RankTypes
<1>6. CandidatesAreDistinct' /\ RowsChangeInTurn'
  BY <1>1, IdleRefresh DEF CandidatesAreDistinct, RowsChangeInTurn
<1>7. RanksAreInBounds'
  BY <1>1, IdleRefresh, HolderAssumption, FS_EmptySet DEF RanksAreInBounds
<1>8. \A h \in Holder \ refresh.current : ~SaysRanked(h)
  <2> SUFFICES ASSUME NEW h \in Holder \ refresh.current PROVE ~SaysRanked(h)
    OBVIOUS
  <2>1. h \in refresh.left \/ ~Ranks!InRanking(refresh.old[h])
    BY <1>1 DEF Ranks!Exiting
  <2>2. holderRows[h] = refresh.old[h]
    BY <1>0, <1>1 DEF RowsChangeInTurn
  <2> QED
    BY <2>1, <2>2, <1>0 DEF SaidIsRanked
<1>9. SaidIsRanked'
  <2>1. \A h \in Holder : SaysRanked(h) => Ranks!InRanking(Row(h))
    BY <1>0, <1>2, <1>8 DEF SaidIsRanked
  <2> QED
    BY <2>1, <1>1, <1>3, <1>4, IdleRefresh DEF SaidIsRanked, Ranks!InRanking
<1>10. EventsHaveRows'
  BY <1>0, <1>1, <1>2, <1>3, IdleRefresh DEF EventsHaveRows, Ranks!NoHolderRow
<1>11. RankedIsSaid'
  <2> SUFFICES ASSUME cutShort = 0, NEW h \in Holder, Ranks!InRanking(Row(h))
               PROVE  SaysRanked(h)
    BY <1>1, <1>3, <1>4, IdleRefresh DEF RankedIsSaid, Ranks!InRanking
  <2>1. h \in refresh.current /\ Row(h) = holderRows[h]
    BY <1>2
  <2> QED
    BY <2>1, <1>0, <1>1, <1>4 DEF RankedIsSaid
<1>12. EventsAlternate'
  BY <1>0, <1>1, <1>4 DEF EventsAlternate
<1> QED
  BY <1>5, <1>6, <1>7, <1>9, <1>10, <1>11, <1>12 DEF RankInv

LEMMA RanksStep == RankInv /\ [Ranks!Next]_rankVars => RankInv'
<1> SUFFICES ASSUME RankInv, [Ranks!Next]_rankVars PROVE RankInv'
  OBVIOUS
<1>1. holding \in [Holder -> Nat]
  BY DEF RankInv, RankTypes
<1>2. CASE UNCHANGED rankVars
  BY <1>1, <1>2, HoldingStep DEF rankVars
<1>3. CASE Ranks!RefreshStep
  BY <1>3, FetchStep, UpsertStep, BalanceStep, EnteredStep, ExitedStep, ClearStep
     DEF Ranks!RefreshStep
<1>4. CASE Ranks!CutShort
  BY <1>4, CutShortStep
<1>5. CASE Ranks!Trade
  <2>1. PICK h \in Holder, n \in 0..MaxHolding : holding' = [holding EXCEPT ![h] = n]
    BY <1>5 DEF Ranks!Trade
  <2>2. n \in Nat
    BY HolderAssumption
  <2>3. holding' \in [Holder -> Nat]
    BY <2>1, <2>2, <1>1
  <2> QED
    BY <2>3, <1>5, HoldingStep DEF Ranks!Trade
<1>6. CASE Ranks!IntervalPasses
  BY <1>1, <1>6, HoldingStep DEF Ranks!IntervalPasses
<1> QED
  BY <1>2, <1>3, <1>4, <1>5, <1>6 DEF Ranks!Next

(* Nobody is announced to enter the ranking twice in a row, whatever refreshes were
   cut short between two of their calls; and if none was, nobody leaves twice in a
   row, and whoever entered and has not left is who the rows rank. *)
THEOREM RankEventsMatchCorrect == ServicesSpec => []RankEventsMatch
<1>1. ASSUME RankInv PROVE RankEventsMatch
  <2>1. ASSUME NEW h \in Holder, cutShort = 0, refresh.pc = "idle"
        PROVE  Ranks!InRanking(holderRows[h]) <=> Ranks!Last(h, "entered")
    BY <1>1, <2>1 DEF RankInv, SaidIsRanked, RankedIsSaid, SaysRanked
  <2>2. EventsAlternate
    BY <1>1 DEF RankInv
  <2> QED
    BY <2>1, <2>2 DEF EventsAlternate, RankEventsMatch, Ranks!RankEventsMatch
<1> QED
  BY <1>1, PartsBegin, PartsStep, RanksStart, RanksStep, PTL DEF ServicesSpec
=============================================================================
