-------------------------- MODULE MCWalletLifecycle --------------------------
(* Two calls of connect, numbered in the order in which they are made.     *)
EXTENDS WalletLifecycle

TwoSessions == 1..2
=============================================================================
