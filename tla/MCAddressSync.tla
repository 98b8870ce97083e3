--------------------------- MODULE MCAddressSync ---------------------------
(* Values of the constants of AddressSync for TLC: two transactions.       *)
EXTENDS AddressSync

MCTxids == {1, 2}
MCFunded == [t \in MCTxids |-> t]
MCSpent == [t \in MCTxids |-> t - 1]
=============================================================================
