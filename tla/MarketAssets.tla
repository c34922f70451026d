----------------------------- MODULE MarketAssets -----------------------------
(* Assets and the projects on them (internal/store/market_multichain.go).  An     *)
(* asset gathers the contracts of one token on several chains.  It is shared: the *)
(* projects of different users on the same contracts stand on one asset, and the  *)
(* creation of a project may rename, extend and merge the assets of others.  Each *)
(* creation is one transaction, which finds its contracts verified beforehand.    *)
EXTENDS Integers, FiniteSets

CONSTANTS
  User,
  Token,         \* contracts
  Chain,         \* [Token -> chain]
  Listing,       \* external: CoinGecko's identity of each contract, or Unlisted
  Unlisted,
  ProjectLimit,  \* plan.MarketProjectLimit
  MaxProjects    \* bound: projects ever created

VARIABLES
  asset,       \* market_assets: the identity of each row
  deployment,  \* market_asset_deployments: the contract of an asset on a chain
  evidence,    \* market_asset_identity_evidence
  project,     \* market_projects with their market_project_deployments
  created      \* bound: projects ever created

assetVars == <<asset, deployment, evidence, project, created>>

-----------------------------------------------------------------------------
(* A row of market_asset_deployments is known by its asset and chain; a project
   holds the rows of its asset on its chains. *)
Row(a, t) == [asset |-> a, token |-> t]
ChainsOf(a) == {Chain[d.token] : d \in {x \in deployment : x.asset = a}}
TokensOf(a) == {d.token : d \in {x \in deployment : x.asset = a}}
Current(p) == {t \in TokensOf(p.asset) : Chain[t] \in p.chains}
Identities == {Listing[t] : t \in Token} \ {Unlisted}
OneChainEach(tokens) == \A t, u \in tokens : Chain[t] = Chain[u] => t = u

-----------------------------------------------------------------------------
(* createMultiChainProject.  Several contracts need the identity that the request
   names confirmed for every one of them; a single contract is looked up if an
   identity is named, and stands for itself otherwise. *)

(* Variant: one contract of that identity suffices. *)
SomeContractListed(tokens, id) == \E t \in tokens : Listing[t] = id
VerifyCrossChainIdentity(tokens, id) == \A t \in tokens : Listing[t] = id

Accepted(tokens, id) ==
  /\ tokens # {} /\ OneChainEach(tokens)
  /\ \/ id \in Identities /\ VerifyCrossChainIdentity(tokens, id)
     \/ tokens = {id}                      \* SourceOnChain

(* upsertMarketAsset: the row of the request's identity or of one of its
   contracts; whatever other rows hold its contracts is merged into that one. *)
Holders(tokens) == {d.asset : d \in {x \in deployment : x.token \in tokens}}
Canonical(id) == {a \in DOMAIN asset : asset[a] = id}
Targets(tokens, id) ==
  IF Canonical(id) # {} THEN Canonical(id)
  ELSE IF Holders(tokens) # {} THEN Holders(tokens)
  ELSE {Cardinality(DOMAIN asset) + 1}

(* mergeMarketAssets refuses two contracts on one chain. *)
Mergeable(assets) == \A a, b \in assets : a = b \/ ChainsOf(a) \cap ChainsOf(b) = {}

MoveProjects(sources, target, p) == IF p.asset \in sources THEN [p EXCEPT !.asset = target] ELSE p
(* Variant: the evidence goes with the asset's row. *)
EvidenceIsDropped(sources, target) == {e \in evidence : e.asset \notin sources}
(* Evidence with the key of one the target has is dropped, the rest moves. *)
MoveEvidence(sources, target) ==
  LET moved == {e \in evidence : e.asset \in sources}
      known == {e.key : e \in {x \in evidence : x.asset = target}}
  IN (evidence \ moved) \cup {[e EXCEPT !.asset = target] : e \in {x \in moved : x.key \notin known}}

(* upsertMarketAssetDeployment: ON CONFLICT (asset, chain) the contract changes. *)
Upserted(rows, target, tokens) ==
  {d \in rows : ~(d.asset = target /\ \E t \in tokens : Chain[t] = Chain[d.token])}
    \cup {Row(target, t) : t \in tokens}

(* upsertMarketAssetEvidence: for requests that were verified across chains. *)
NewEvidence(target, tokens, id) ==
  IF Cardinality(tokens) > 1
  THEN {[asset |-> target, key |-> <<id, t>>, token |-> t] : t \in tokens} ELSE {}

(* CreateMultiChainMarketProjectWithinQuota: nothing is left of a refused one. *)
CreateMultiChainMarketProject(u, tokens, id) ==
  /\ created < MaxProjects
  /\ Accepted(tokens, id)
  /\ \E target \in Targets(tokens, id) :
     LET sources == Holders(tokens) \ {target}
         moved == {MoveProjects(sources, target, p) : p \in project}
         rows == {IF d.asset \in sources THEN Row(target, d.token) ELSE d : d \in deployment}
     IN /\ Mergeable(sources \cup {target})
        /\ ~\E p \in moved : p.user = u /\ p.asset = target   \* ErrMarketProjectExists
        /\ Cardinality({p \in project : p.user = u}) < ProjectLimit
        (* a merged row is removed; Unlisted marks its id as gone *)
        /\ asset' = [a \in DOMAIN asset \cup {target} |-> IF a = target THEN id
                     ELSE IF a \in sources THEN Unlisted ELSE asset[a]]
        /\ deployment' = Upserted(rows, target, tokens)
        /\ LET kept == MoveEvidence(sources, target)
               new == NewEvidence(target, tokens, id)
           IN evidence' = {e \in kept : ~\E n \in new : n.asset = e.asset /\ n.key = e.key} \cup new
        /\ created' = created + 1
        /\ project' = moved \cup
             {[user |-> u, asset |-> target,
               chains |-> {Chain[t] : t \in tokens}, chosen |-> tokens]}

(* DeleteArchivedMarketProject leaves the asset. *)
DeleteMarketProject(p) ==
  /\ project' = project \ {p}
  /\ UNCHANGED <<asset, deployment, evidence, created>>

-----------------------------------------------------------------------------
Init ==
  /\ asset = <<>>
  /\ deployment = {} /\ evidence = {} /\ project = {}
  /\ created = 0

Next ==
  \/ \E u \in User, tokens \in SUBSET Token, id \in Identities \cup Token :
       CreateMultiChainMarketProject(u, tokens, id)
  \/ \E p \in project : DeleteMarketProject(p)

Spec == Init /\ [][Next]_assetVars

-----------------------------------------------------------------------------
(* docs/cross-chain-identity-verification.md: a missing or conflicting mapping
   never becomes a cross-chain identity.  However assets were renamed, extended
   and merged, two contracts of one asset have one identity in the catalog. *)
AssetsAreVerified ==
  \A a \in DOMAIN asset : \A t, u \in TokensOf(a) :
    t # u => Listing[t] = Listing[u] /\ Listing[t] # Unlisted

(* A project keeps the contracts its user chose, whatever others create; and, if
   it spans chains, the evidence for each of them, on its asset. *)
ProjectsKeepTheirTokens ==
  \A p \in project :
    /\ Current(p) = p.chosen
    /\ Cardinality(p.chosen) > 1 =>
         \A t \in p.chosen : \E e \in evidence : e.asset = p.asset /\ e.token = t
=============================================================================
