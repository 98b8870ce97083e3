------------------------------ MODULE Tracker ------------------------------
(***************************************************************************)
(* The tracker of one address (src/src/wallet/address/mod.rs): the         *)
(* transactions it holds, the balance it maintains incrementally, and the  *)
(* queue that delays realtime events while the history is loading.         *)
(*                                                                         *)
(* A transaction is its txid and its status; the amounts it pays to and    *)
(* takes from the address are fixed by the txid (a txid commits to inputs  *)
(* and outputs), so they are constants.  Txids are numbers because the     *)
(* code compares them when it sorts.                                       *)
(*                                                                         *)
(* The operators are the methods, from a tracker to a tracker.  The state  *)
(* machine TrackerCalls calls the public ones in any order; AddressSync    *)
(* calls them the way Wallet does.                                         *)
(***************************************************************************)
EXTENDS Integers, FiniteSets, Sequences

CONSTANTS
    Txids,      \* the transactions that may involve the address
    Funded,     \* Funded[t]: sum of the outputs of t that pay the address
    Spent,      \* Spent[t]: sum of the known prevouts of t that are the address's
    MaxHeight   \* bound: the highest block

ASSUME TrackerAssumption ==
    /\ Txids \subseteq Nat /\ IsFiniteSet(Txids)
    /\ Funded \in [Txids -> Nat] /\ Spent \in [Txids -> Nat]
    /\ MaxHeight \in Nat

Absent == -1        \* the tracker has no copy of the transaction
Unconfirmed == 0    \* status.confirmed is false, block_height is None
Heights == Unconfirmed..MaxHeight

Tx == [txid : Txids, height : Heights]
Confirmed(tx) == tx.height > Unconfirmed

AddressKinds == {"Removed", "Mempool", "Confirmed"}
Event == [kind : AddressKinds, tx : Tx]

(* The fields are u64: a value below 0 would be an underflow.              *)
Balance == [funded : Nat, spent : Nat]
Balances == [mempool : Balance, confirmed : Balance]
NoBalance == [funded |-> 0, spent |-> 0]

(* sent is what event_sender has broadcast during the current call.        *)
Trackers == [transactions : [Txids -> Heights \cup {Absent}],
             balance      : Balances,
             queue        : Seq(Event),
             loading      : BOOLEAN,
             sent         : Seq(Event)]

NewTracker ==
    [transactions |-> [t \in Txids |-> Absent],
     balance      |-> [mempool |-> NoBalance, confirmed |-> NoBalance],
     queue        |-> <<>>,
     loading      |-> TRUE,
     sent         |-> <<>>]

-----------------------------------------------------------------------------
(* The two balances: which one a version of a transaction counts in, and   *)
(* the balance after its amounts were added (sign 1) or undone (sign -1).  *)
Side(height) == IF height = Unconfirmed THEN "mempool" ELSE "confirmed"

Account(balance, tx, sign) ==
    [balance EXCEPT ![Side(tx.height)] =
        [funded |-> @.funded + sign * Funded[tx.txid],
         spent  |-> @.spent + sign * Spent[tx.txid]]]

(* Seeded fault: the amounts of the dropped copy are not undone.           *)
RemoveWithoutUndo(tr, t) == [tr EXCEPT !.transactions[t] = Absent]

(* Seeded fault: the undo always takes the amounts from one side.          *)
RemoveFromMempool(tr, t) ==
    IF tr.transactions[t] = Absent
    THEN tr
    ELSE [tr EXCEPT !.transactions[t] = Absent,
                    !.balance = Account(@, [txid |-> t, height |-> Unconfirmed], -1)]

RemoveTransaction(tr, t) ==
    LET held == [txid |-> t, height |-> tr.transactions[t]]
    IN IF held.height = Absent
       THEN tr
       ELSE [tr EXCEPT !.transactions[t] = Absent,
                       !.balance = Account(@, held, -1)]

(* A copy that is already held is undone before the new one counts.        *)
AddTransaction(tr, tx) ==
    LET cleared == RemoveTransaction(tr, tx.txid)
    IN [cleared EXCEPT !.transactions[tx.txid] = tx.height,
                       !.balance = Account(@, tx, 1)]

(* What process_event broadcasts for an event it applies: a removal is     *)
(* announced with the constructor Event::Confirmed.                        *)
Announcement(e) ==
    IF e.kind = "Removed" THEN [e EXCEPT !.kind = "Confirmed"] ELSE e

(* Seeded fault: events that are drained from the queue are not announced. *)
ProcessQuietly(tr, e, realtime) ==
    IF realtime /\ tr.loading
    THEN [tr EXCEPT !.queue = Append(@, e)]
    ELSE IF e.kind = "Removed" THEN RemoveTransaction(tr, e.tx.txid)
    ELSE IF realtime
    THEN [AddTransaction(tr, e.tx) EXCEPT !.sent = Append(@, Announcement(e))]
    ELSE AddTransaction(tr, e.tx)

ProcessEvent(tr, e, realtime) ==
    IF realtime /\ tr.loading
    THEN [tr EXCEPT !.queue = Append(@, e)]
    ELSE [(IF e.kind = "Removed" THEN RemoveTransaction(tr, e.tx.txid)
                                 ELSE AddTransaction(tr, e.tx))
            EXCEPT !.sent = Append(@, Announcement(e))]

(* process_event(e, false) for each event of es, in order.                 *)
ProcessAll(tr, es) ==
    LET after[n \in 0..Len(es)] ==
            IF n = 0 THEN tr ELSE ProcessEvent(after[n - 1], es[n], FALSE)
    IN after[Len(es)]

(* Seeded fault: the queue is emptied from its back.                       *)
DrainBackwards(tr) ==
    ProcessAll([tr EXCEPT !.queue = <<>>],
               [i \in 1..Len(tr.queue) |-> tr.queue[Len(tr.queue) + 1 - i]])

DrainQueue(tr) == ProcessAll([tr EXCEPT !.queue = <<>>], tr.queue)

(* Seeded fault: loading ends and the queue is left alone.                 *)
SetLoadingOnly(tr, loading) == [tr EXCEPT !.loading = loading]

SetLoading(tr, loading) ==
    [(IF tr.loading /\ ~loading THEN DrainQueue(tr) ELSE tr)
        EXCEPT !.loading = loading]

-----------------------------------------------------------------------------
(* The transactions a tracker holds, and the order get_state returns them  *)
(* in (oldest first): TxBefore is cmp_tx_time = Less.                      *)
Held(tr) ==
    {[txid |-> t, height |-> tr.transactions[t]] :
        t \in {u \in Txids : tr.transactions[u] # Absent}}

TxBefore(a, b) ==
    IF (Confirmed(a) \/ Confirmed(b)) /\ a.height # b.height
    THEN Confirmed(a) /\ (Confirmed(b) => a.height < b.height)
    ELSE a.txid < b.txid

(* Tracker::from: a new tracker to which the saved transactions are added. *)
FromState(saved) ==
    LET after[S \in SUBSET saved] ==
            IF S = {} THEN NewTracker
            ELSE LET tx == CHOOSE x \in S : TRUE
                 IN AddTransaction(after[S \ {tx}], tx)
    IN after[saved]

-----------------------------------------------------------------------------
(* What one event says about the transactions of the address; one of       *)
(* another kind (Connected, Disconnected) says nothing.                    *)
Effect(view, e) ==
    IF e.kind \in AddressKinds
    THEN [view EXCEPT ![e.tx.txid] =
            IF e.kind = "Removed" THEN Absent ELSE e.tx.height]
    ELSE view

(* What a list of events says about them, one after the other.             *)
EffectOfAll(view, es) ==
    LET after[n \in 0..Len(es)] ==
            IF n = 0 THEN view ELSE Effect(after[n - 1], es[n])
    IN after[Len(es)]

-----------------------------------------------------------------------------
(* Sum of amount[t] over the transactions held on one side.                *)
SumOver(S, amount) ==
    LET sum[T \in SUBSET S] ==
            IF T = {} THEN 0
            ELSE LET t == CHOOSE x \in T : TRUE IN amount[t] + sum[T \ {t}]
    IN sum[S]

HeldOn(tr, side) ==
    {t \in Txids : /\ tr.transactions[t] # Absent
                   /\ Side(tr.transactions[t]) = side}

(* What the balance of a tracker has to be: what adding up its             *)
(* transactions afresh would give.                                         *)
BalanceIsSum(tr) ==
    \A side \in {"mempool", "confirmed"} :
        tr.balance[side] = [funded |-> SumOver(HeldOn(tr, side), Funded),
                            spent  |-> SumOver(HeldOn(tr, side), Spent)]
=============================================================================
