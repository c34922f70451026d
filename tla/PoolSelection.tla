----------------------------- MODULE PoolSelection ----------------------------
(* The pools of one market project.  Which are watched, and which is the main one *)
(* of each chain, is written by the creation of the project (marketview/          *)
(* service.go, pool by pool for a project of one chain), by its user's choice     *)
(* (linkMarketProjectPool) and by discovery, which looks for pools all the time   *)
(* (EnsureMarketProjectPool), while the plan changes.  Each is one transaction    *)
(* that holds the project's row.                                                  *)
EXTENDS Integers, FiniteSets, Sequences

CONSTANTS
  Pool,
  Deployment,   \* the chains of the project's asset
  Own,          \* the one the project's own columns name
  PoolOn,       \* [Pool -> Deployment]
  Supported,    \* pools whose events can be parsed
  NoPool,
  MaxChoices    \* bound: the user's choices and changes of the plan

VARIABLES
  plan,         \* "standard" or "professional"
  status,       \* market_projects.status
  chains,       \* market_project_deployments; none for a project of one chain
  link,         \* market_project_pools: "none", or selected and primary
  default,      \* market_project_deployments.default_market_pool_id
  main,         \* market_projects.main_pool_id
  setup,        \* CreateProject: the pools still to be linked, and its choice
  choices,      \* bound
  wasProfessional, \* history: whether the plan ever was professional
  imposed       \* history: pools that discovery made the default of a chain
                \* although the user had switched them off

poolVars == <<plan, status, chains, link, default, main, setup, choices,
              wasProfessional, imposed>>

-----------------------------------------------------------------------------
Unlinked == [linked |-> FALSE, selected |-> FALSE, primary |-> FALSE]
Linked(sel, prim) == [linked |-> TRUE, selected |-> sel, primary |-> prim]
NoSetup == [pools |-> <<>>, wanted |-> {}, primarySet |-> FALSE]

(* market_project_deployment_id of a link. *)
LinkGroup(p) == IF chains = {} THEN "single chain" ELSE PoolOn[p]
Peers(p) == {q \in Pool \ {p} : link[q].linked /\ LinkGroup(q) = LinkGroup(p)}
Matches(p) == PoolOn[p] \in chains \/ (chains = {} /\ PoolOn[p] = Own)
SinglePool == plan = "standard"

-----------------------------------------------------------------------------
(* linkMarketProjectPool. *)

(* Variant: the other pools stay selected on a standard plan. *)
OthersStay(sel) == FALSE
ClearsOthers(sel) == sel /\ SinglePool

LinkPool(p, selected, primary) ==
  LET sel == selected \/ primary
      prim == primary \/ ClearsOthers(sel)
  IN /\ Matches(p)                            \* ErrMarketPoolMismatch
     /\ link' = [q \in Pool |->
          CASE q = p -> Linked(sel, prim)
            [] q \in Peers(p) /\ ClearsOthers(sel) -> Linked(FALSE, FALSE)
            [] q \in Peers(p) /\ ~ClearsOthers(sel) /\ prim -> [link[q] EXCEPT !.primary = FALSE]
            [] OTHER -> link[q]]
     /\ default' = [d \in Deployment |->
          IF d \in chains /\ PoolOn[p] = d
          THEN IF prim THEN p
               ELSE IF ~sel /\ default[d] = p THEN NoPool ELSE default[d]
          ELSE default[d]]
     /\ main' = IF prim THEN (IF PoolOn[p] = Own THEN p ELSE main)
                ELSE IF ~sel /\ main = p THEN NoPool ELSE main
     /\ imposed' = imposed \ {p}

(* EnsureMarketProjectPool: a pool that is known keeps its columns; a pool is
   chosen if its chain has no selected one. *)

(* Variant: whatever is selected. *)
NothingElse(p) == TRUE
NoneSelected(p) == ~\E q \in Peers(p) \cup {p} : link[q].selected
EnsureMarketProjectPool(p) ==
  /\ status # "none" /\ Matches(p)
  /\ LET pick == p \in Supported /\ NoneSelected(p)
     IN /\ link' = IF link[p].linked THEN link ELSE [link EXCEPT ![p] = Linked(pick, pick)]
        /\ default' = IF pick /\ PoolOn[p] \in chains THEN [default EXCEPT ![PoolOn[p]] = p]
                      ELSE default
        /\ main' = IF pick /\ main = NoPool /\ PoolOn[p] = Own THEN p ELSE main
        /\ imposed' = IF pick /\ link[p].linked THEN imposed \cup {p} ELSE imposed
  /\ UNCHANGED <<plan, status, chains, setup, choices, wasProfessional>>

-----------------------------------------------------------------------------
(* CreateMultiChainMarketProjectWithinQuota: for each chain the pools found, some
   of them selected, one of these primary; standard plans select one. *)
CreateMultiChainProject ==
  /\ status = "none"
  /\ chains' = Deployment
  /\ \E found \in SUBSET Pool, first \in [Deployment -> Pool] :
     \E selected \in SUBSET (found \cap Supported) :
        /\ \A d \in Deployment : PoolOn[first[d]] = d /\ first[d] \in selected
        /\ SinglePool => selected = {first[d] : d \in Deployment}
        /\ link' = [p \in Pool |-> IF p \notin found THEN Unlinked
                     ELSE Linked(p \in selected, p = first[PoolOn[p]])]
        /\ default' = first
        /\ main' = first[Own]
  /\ status' = "active"
  /\ UNCHANGED <<plan, setup, choices, wasProfessional, imposed>>

(* CreateProject: a project of one chain, with the pools found on it in some
   order, and those the user wants or the first supported one. *)
CreateProject ==
  /\ status = "none"
  /\ \E n \in 0..Cardinality(Pool) : \E pools \in [1..n -> Pool], asked \in SUBSET Pool :
     LET found == {pools[i] : i \in 1..n}
         usable == {i \in 1..n : pools[i] \in Supported}
         wanted == IF asked # {} THEN asked
                   ELSE {pools[i] : i \in {j \in usable : \A k \in usable : j <= k}}
     IN /\ \A i, j \in 1..n : pools[i] = pools[j] => i = j
        /\ \A p \in found : PoolOn[p] = Own
        /\ IF wanted # {} /\ found \cap wanted \cap Supported = {}
           THEN status' = "archived" /\ UNCHANGED setup
           ELSE /\ status' = "active"
                /\ setup' = [pools |-> pools, wanted |-> wanted \cap Supported,
                             primarySet |-> FALSE]
  /\ UNCHANGED <<plan, chains, link, default, main, choices, wasProfessional, imposed>>

(* ... which it links one after the other. *)
LinkFoundPool ==
  /\ setup.pools # <<>>
  /\ LET p == Head(setup.pools)
         wanted == p \in setup.wanted
     IN /\ LinkPool(p, wanted, wanted /\ ~setup.primarySet)
        /\ setup' = IF Len(setup.pools) = 1 THEN NoSetup
                    ELSE [setup EXCEPT !.pools = Tail(@),
                                       !.primarySet = @ \/ wanted]
  /\ UNCHANGED <<plan, status, chains, choices, wasProfessional>>

(* A pool cannot be stored or linked, and the project is archived; or the process
   ends, and it stays as it is. *)
SetupFails ==
  /\ setup.pools # <<>>
  /\ status' \in {"active", "archived"}
  /\ setup' = NoSetup
  /\ UNCHANGED <<plan, chains, link, default, main, choices, wasProfessional, imposed>>

-----------------------------------------------------------------------------
(* The user. *)
SelectPool(p, selected, primary) ==
  /\ status # "none" /\ choices < MaxChoices
  /\ LinkPool(p, selected, primary)
  /\ choices' = choices + 1
  /\ UNCHANGED <<plan, status, chains, setup, wasProfessional>>

ChangePlan ==
  /\ choices < MaxChoices
  /\ plan' = IF SinglePool THEN "professional" ELSE "standard"
  /\ wasProfessional' = TRUE
  /\ choices' = choices + 1
  /\ UNCHANGED <<status, chains, link, default, main, setup, imposed>>

-----------------------------------------------------------------------------
Init ==
  /\ plan \in {"standard", "professional"}
  /\ status = "none" /\ chains = {}
  /\ link = [p \in Pool |-> Unlinked]
  /\ default = [d \in Deployment |-> NoPool]
  /\ main = NoPool
  /\ setup = NoSetup
  /\ choices = 0
  /\ wasProfessional = (plan = "professional")
  /\ imposed = {}

Next ==
  \/ CreateMultiChainProject \/ CreateProject \/ LinkFoundPool \/ SetupFails
  \/ \E p \in Pool : EnsureMarketProjectPool(p)
  \/ \E p \in Pool, selected, primary \in BOOLEAN : SelectPool(p, selected, primary)
  \/ ChangePlan

Spec == Init /\ [][Next]_poolVars

-----------------------------------------------------------------------------
(* On a plan that always was standard one pool of each chain is watched at most,
   however the creation, the user and discovery take turns. *)
StandardWatchesOnePool ==
  ~wasProfessional =>
    \A p, q \in Pool : link[p].selected /\ link[q].selected /\ LinkGroup(p) = LinkGroup(q) => p = q

(* The main pool of a chain is watched: it is selected, as is the primary link,
   and there is one of that.  Exempt is a pool that discovery imposes: it finds a
   pool the user has switched off, and its link stays switched off. *)
MainPoolsAreWatched ==
  /\ \A d \in chains : default[d] \notin imposed \cup {NoPool} => link[default[d]].selected
  /\ main \notin imposed \cup {NoPool} => link[main].selected
  /\ \A p, q \in Pool :
       link[p].primary => /\ link[p].selected
                          /\ link[q].primary /\ LinkGroup(p) = LinkGroup(q) => p = q
=============================================================================
