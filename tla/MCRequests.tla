----------------------------- MODULE MCRequests -----------------------------
(* Requests with four transactions, of different amounts, on the server.   *)
EXTENDS Requests

MCTxids == 1..4
MCAmounts == [t \in MCTxids |-> t]
=============================================================================
