--------------------------- MODULE MCWatchMonitor --------------------------
(* Two realtime rules, one of them made by a request, a
   combination of two members and a rule the chain never answers for. *)
EXTENDS WatchMonitor

CONSTANTS t, m1, m2, b, c, i

MembersDef   == [x \in Combos |-> {m1, m2}]
TypeDef      == [r \in Rules |-> CASE r = t -> "balance_threshold"
                                   [] r = m1 -> "outgoing" [] r = m2 -> "approval_change"
                                   [] OTHER -> "balance_threshold"]
ThresholdDef == [r \in Rules |-> 0]
NeedDef      == [r \in Rules |-> 1]
=============================================================================
