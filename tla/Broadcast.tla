----------------------------- MODULE Broadcast -----------------------------
(***************************************************************************)
(* One receiver of a tokio::sync::broadcast channel, as src/ uses it.      *)
(* The library is external: it is modelled by what its callers rely on.    *)
(* A channel keeps the last cap messages.  A receiver that falls further   *)
(* behind loses the oldest ones, and its next receive reports the loss     *)
(* (RecvError::Lagged) instead of a message.  A message that is sent       *)
(* before the receiver subscribed never reaches it.                        *)
(***************************************************************************)
EXTENDS Naturals, Sequences

(* A receiver right after subscribe(): it sees only what is sent later.    *)
Subscribed == [buf |-> <<>>, lagged |-> FALSE]

(* Seeded fault: the channel retains everything.                           *)
DeliverUnbounded(rx, msg, cap) == [rx EXCEPT !.buf = Append(@, msg)]

(* A message reaches a subscribed receiver of a channel of capacity cap.   *)
Deliver(rx, msg, cap) ==
    IF Len(rx.buf) < cap
    THEN [rx EXCEPT !.buf = Append(@, msg)]
    ELSE [buf |-> Append(Tail(rx.buf), msg), lagged |-> TRUE]

(* recv() has something to return.                                         *)
CanReceive(rx) == rx.lagged \/ rx.buf # <<>>

(* The next receive returns a message, and not the report of a loss.       *)
HasMessage(rx) == ~rx.lagged /\ rx.buf # <<>>

(* The receiver after one receive: the report of a loss comes first and    *)
(* leaves the messages that are still retained.                            *)
Received(rx) ==
    IF rx.lagged THEN [rx EXCEPT !.lagged = FALSE]
                 ELSE [rx EXCEPT !.buf = Tail(@)]

(* The type of a receiver of messages Msg on a channel of capacity cap.    *)
Receivers(Msg, cap) ==
    [buf : {s \in Seq(Msg) : Len(s) <= cap}, lagged : BOOLEAN]
=============================================================================
