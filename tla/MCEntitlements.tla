--------------------------- MODULE MCEntitlements --------------------------
(* Two watch rules with a wallet each, a combination of two members, two
   projects, a market rule and a market combination of it and a watch rule;
   quotas that a professional user can fill and a standard user cannot hold. *)
EXTENDS Entitlements

CONSTANTS a, w1, w2, m1, m2, c1, p1, p2, k1, x1

MembersDef   == [d \in {c1} |-> {m1, m2}]
PartsDef     == [x \in {x1} |-> {w1, k1}]
ProjectOfDef == [k \in {k1} |-> p1]
TierDef == [r \in Items |-> CASE r \in {w1} -> "free"
                              [] r \in {w2, p1, p2, k1} -> "standard"
                              [] OTHER -> "professional"]
WalletDef == [r \in {w1, w2, m1, m2} |-> IF r \in {w2, m2} THEN "b" ELSE "a"]
OrderDef  == <<w1, w2, c1, p1, p2, k1, x1>>
RuleLimitDef    == [p \in Plan |-> CASE p = "free" -> 1 [] p = "standard" -> 2 [] OTHER -> 5]
WalletLimitDef  == [p \in Plan |-> IF p = "professional" THEN 2 ELSE 1]
ProjectLimitDef == [p \in Plan |-> CASE p = "free" -> 0 [] p = "standard" -> 1 [] OTHER -> 2]
=============================================================================
