-------------------------- MODULE MCMarketDelivery -------------------------
(* Values for TLC, and a symmetry that is sound for a run of safety properties
   only: workers are interchangeable. *)
EXTENDS MarketDelivery, TLC

CONSTANTS w1, w2, r1, r2

NoThreshold == [r \in {} |-> 1]
ThresholdTwo == [r \in StagedRule |-> 2]
Workers == Permutations(Worker)

(* Joint bounds, as action constraints of the runs: three failures, retractions
   and plan changes altogether ...  Fairness obliges none of the steps they cut
   off, so the workers and the clock keep theirs. *)
ThreeTroubles == faults' + reorgs' + expiries' <= 3

(* ... and a third event only where nothing is retracted and no plan expires. *)
QuietThird == reorgs' + expiries' = 0 \/ event'[3] = "absent"
============================================================================
