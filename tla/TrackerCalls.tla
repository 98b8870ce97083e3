---------------------------- MODULE TrackerCalls ----------------------------
(***************************************************************************)
(* One tracker whose public methods are called in any order, and one       *)
(* subscriber of its event_sender.  The subscriber maintains mirror, its   *)
(* own copy of the transactions, from the events it receives, in the way   *)
(* the README suggests.                                                    *)
(***************************************************************************)
EXTENDS Tracker

CONSTANT MaxQueue   \* bound: events that wait in the queue

VARIABLES tracker, mirror
vars == <<tracker, mirror>>

(* Server events carry a status that fits their list; a removal carries    *)
(* that of the version it removes, confirmed or not.                       *)
ServerEvent ==
    {e \in Event : \/ e.kind = "Removed"
                   \/ e.kind = "Confirmed" <=> Confirmed(e.tx)}

Become(next) ==
    /\ tracker' = next
    /\ mirror' = EffectOfAll(mirror, next.sent)

Call == [tracker EXCEPT !.sent = <<>>]

Init ==
    /\ \E saved \in SUBSET {tx \in Tx : tx.height \in {Unconfirmed, 1}} :
        /\ \A a, b \in saved : a.txid = b.txid => a = b
        /\ tracker = FromState(saved)
    /\ mirror = tracker.transactions

Realtime(e) ==
    /\ tracker.loading => Len(tracker.queue) < MaxQueue
    /\ Become(ProcessEvent(Call, e, TRUE))

FromHistory(e) == Become(ProcessEvent(Call, e, FALSE))

StartLoading == Become(SetLoading(Call, TRUE))

FinishLoading == Become(SetLoading(Call, FALSE))

Next ==
    \/ \E e \in ServerEvent : Realtime(e)
    \/ \E e \in ServerEvent : FromHistory(e)
    \/ StartLoading
    \/ FinishLoading

Spec == Init /\ [][Next]_vars

-----------------------------------------------------------------------------
(* The tracker stays within its type; the u64 balances never underflow.    *)
TypeOK ==
    /\ tracker \in Trackers
    /\ mirror \in [Txids -> Heights \cup {Absent}]

(* The balance the code maintains with += and -= is at any time the sum    *)
(* over the transactions the tracker holds, on each side, however the      *)
(* transactions were added, re-added with another status and removed       *)
(* (address/mod.rs add_transaction, remove_transaction).                   *)
BalanceMatchesTransactions == BalanceIsSum(tracker)

(* No event is stranded: once the tracker is live its queue is empty, and  *)
(* a realtime event can never be applied ahead of one that came before it. *)
NothingQueuedWhenLive == ~tracker.loading => tracker.queue = <<>>

(* What the transactions will be once the queue is drained.                *)
Pending(tr) == EffectOfAll(tr.transactions, tr.queue)

(* Realtime events take effect in the order they arrived: a new one acts   *)
(* on top of all those before it, and the end of loading changes nothing   *)
(* that was not already implied by the events received.                    *)
ArrivalOrderKept ==
    [][/\ \A e \in ServerEvent :
            Realtime(e) => Pending(tracker') = Effect(Pending(tracker), e)
       /\ FinishLoading => Pending(tracker') = Pending(tracker)]_vars

(* A subscriber that follows the events holds the current version of every *)
(* transaction the tracker holds.                                          *)
SubscriberIsCurrent ==
    \A t \in Txids : tracker.transactions[t] # Absent =>
        mirror[t] = tracker.transactions[t]

(* README.md: Event::Removed tells the subscriber that the transaction was *)
(* dropped; so its copy is the tracker's.                                  *)
SubscriberMirrorsTracker == mirror = tracker.transactions
=============================================================================
