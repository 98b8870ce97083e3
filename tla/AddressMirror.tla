--------------------------- MODULE AddressMirror ---------------------------
(***************************************************************************)
(* What the synchronisation of an address promises (README.md:5-7 and      *)
(* 49-50): the wallet mirrors the server.  What the wallet is going to show*)
(* of an address, its outlook, changes only with the server or towards it: *)
(* a change of the server is heard or missed, an answer to a fetch brings  *)
(* all that was missed, and the wallet follows the server only when nothing*)
(* is missing.  How, is not said: there is no link, no queue, no lock and  *)
(* no limit of a fetch here.                                               *)
(*                                                                         *)
(* The promise has exceptions, and they are here as well: transactions that*)
(* are in doubt, about which nothing is said.                              *)
(***************************************************************************)
CONSTANTS
    Txids,      \* the transactions that may involve the address
    Statuses,   \* what may be known of one: a height, unconfirmed, or Absent
    Absent

VARIABLES
    server,     \* server[t]: status of t at the server
    outlook,    \* outlook[t]: status of t once all that is known took effect
    watched,    \* the wallet has the address
    following,  \* and nothing keeps it from hearing what the server pushes
    doubtful    \* the transactions that are in doubt
vars == <<server, outlook, watched, following, doubtful>>

Views == [Txids -> Statuses]

Init ==
    /\ server = [t \in Txids |-> Absent]
    /\ outlook = server
    /\ watched = FALSE
    /\ following = FALSE
    /\ doubtful = {}

Agreed == \A t \in Txids \ doubtful : outlook[t] = server[t]

(* The server's view changes, and the event that says so is under way.     *)
Hear(t, status) ==
    /\ server' = [server EXCEPT ![t] = status]
    /\ outlook' = [outlook EXCEPT ![t] = status]
    /\ UNCHANGED <<watched, following, doubtful>>

(* It changes and no event will come: never while it is followed.          *)
Miss(t, status) ==
    /\ ~following
    /\ server' = [server EXCEPT ![t] = status]
    /\ doubtful' \in {doubtful, doubtful \cup {t}}
    /\ UNCHANGED <<outlook, watched, following>>

(* The channel of the events overflows, maybe with one about a change.     *)
Overflow ==
    /\ doubtful' = Txids
    /\ \/ UNCHANGED server
       \/ \E t \in Txids, status \in Statuses :
            server' = [server EXCEPT ![t] = status]
    /\ outlook' \in Views
    /\ following' \in BOOLEAN
    /\ UNCHANGED watched

(* A fetch is answered: a transaction is now as the server has it; or it is*)
(* not, because of an older event that waits, and then the answer did not  *)
(* change it and it is in doubt.                                           *)
Fetch ==
    /\ watched /\ ~following
    /\ UNCHANGED <<server, watched, following>>
    /\ LET next == outlook'
       IN /\ next \in Views
          /\ \A t \in Txids \ doubtful : next[t] = server[t] \/ next[t] = outlook[t]
          /\ doubtful' = doubtful \cup {t \in Txids : next[t] # server[t]}

(* The wallet begins to follow the server, or ceases to.                   *)
Follow ==
    /\ watched /\ ~following
    /\ following' = TRUE
    /\ Agreed
    /\ UNCHANGED <<server, watched, doubtful, outlook>>

Unfollow ==
    /\ following
    /\ following' = FALSE
    /\ UNCHANGED <<server, outlook, watched, doubtful>>

(* The address is watched; until then the events about it are dropped.     *)
Watch ==
    /\ ~watched
    /\ watched' = TRUE
    /\ UNCHANGED <<server, following, doubtful, outlook>>

Ignore(t) ==
    /\ ~watched
    /\ UNCHANGED <<server, watched, following, doubtful>>
    /\ outlook' = [outlook EXCEPT ![t] = Absent]

Next ==
    \/ \E t \in Txids, status \in Statuses : Hear(t, status) \/ Miss(t, status)
    \/ Overflow
    \/ Fetch \/ Follow \/ Unfollow
    \/ Watch \/ \E t \in Txids : Ignore(t)

Spec == Init /\ [][Next]_vars
=============================================================================
