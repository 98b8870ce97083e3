----------------------------- MODULE MCTracker -----------------------------
(* Values of the constants of TrackerCalls for TLC: amounts that tell the  *)
(* transactions and the two fields of a balance apart.                     *)
EXTENDS TrackerCalls

MCTxids == {1, 2}
MCFunded == [t \in MCTxids |-> IF t = 1 THEN 5 ELSE 3]
MCSpent == [t \in MCTxids |-> IF t = 1 THEN 0 ELSE 7]
=============================================================================
