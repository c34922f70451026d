------------------------------ MODULE MCServices ------------------------------
(* Model values for the run of Services. *)
EXTENDS Services, TLC

CONSTANTS
  t1, t2,                          \* transactions
  e1, e2,                          \* processes
  g1,                              \* groups
  r1, r2, c1, c2,                  \* requests, challenges
  u1, u2,                          \* users
  a1, b1, b2, d1,                  \* contracts, named for their chains
  G, H,                            \* identities in the catalog
  p1, p2, p3, p4,                  \* pools
  h1, h2,                          \* holders
  token0, token1, token2           \* tokens; the webhook begins with token0

MCChain == a1 :> "a" @@ b1 :> "b" @@ b2 :> "b" @@ d1 :> "d"
MCListing == a1 :> G @@ b1 :> G @@ b2 :> H @@ d1 :> G
MCPoolOn == p1 :> 1 @@ p2 :> 1 @@ p3 :> 2 @@ p4 :> 1
MCRulePools == <<p1, p2>>
=============================================================================
