------------------------ MODULE ConnectionLifecycle ------------------------
(***************************************************************************)
(* What the connection state machine promises (the comments on Status and  *)
(* on the arms of connection::Manager::start): the order in which the      *)
(* statuses follow each other, and that the threads of one connection are  *)
(* gone before another one is attempted and before the manager returns.    *)
(***************************************************************************)
VARIABLES
    status,   \* the current Status, or "Ended" once start() has returned
    serving   \* some thread of a connection is alive
vars == <<status, serving>>

Init == status = "Ready" /\ serving = FALSE

(* Ready => Connecting *)
Attempt == status = "Ready" /\ status' = "Connecting" /\ UNCHANGED serving

(* Connecting => Connected | Disconnected *)
Open ==
    /\ status = "Connecting" /\ ~serving
    /\ status' = "Connected"
    /\ serving' = TRUE

Refused ==
    /\ status = "Connecting" /\ ~serving
    /\ status' = "Disconnected"
    /\ UNCHANGED serving

(* Connected => Disconnected, Connected => Offline *)
Leave ==
    /\ status = "Connected"
    /\ status' \in {"Disconnected", "Offline"}
    /\ UNCHANGED serving

ThreadsExit == serving /\ serving' = FALSE /\ UNCHANGED status

(* Disconnected => Ready *)
Retry ==
    /\ status = "Disconnected" /\ ~serving
    /\ status' = "Ready"
    /\ UNCHANGED serving

(* Offline => exit *)
Exit ==
    /\ status = "Offline" /\ ~serving
    /\ status' = "Ended"
    /\ UNCHANGED serving

Next == Attempt \/ Open \/ Refused \/ Leave \/ ThreadsExit \/ Retry \/ Exit

Spec == Init /\ [][Next]_vars
=============================================================================
