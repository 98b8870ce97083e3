------------------------------- MODULE MCWallet -------------------------------
(***************************************************************************)
(* An instance of Wallet for TLC: two calls that concern the same address, *)
(* one of them a second address as well.                                   *)
(***************************************************************************)
EXTENDS Wallet

CONSTANTS c1, c2, s1, s2

TwoCalls ==
    {<<c1, "watch", {s1, s2}>>, <<c1, "get_and_watch", {s1}>>,
     <<c2, "unwatch", {s1}>>, <<c2, "get_and_watch", {s1}>>, <<c2, "get_state", {s1, s2}>>}
=============================================================================
