---------------------------- MODULE MCConnection ----------------------------
(* Values of the constants of Connection for TLC.                          *)
EXTENDS Connection

AllFaults == {"broken", "ended", "silent"}
Breaking == {"broken"}
NoFaults == {}
=============================================================================
