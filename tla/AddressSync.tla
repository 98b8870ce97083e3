---------------------------- MODULE AddressSync ----------------------------
(***************************************************************************)
(* One watched address and the server: how Wallet combines the history it  *)
(* fetches over REST with the events that are pushed over the websocket    *)
(* (src/src/wallet/mod.rs), around one tracker.                            *)
(*                                                                         *)
(* Three tasks act: the user's call of watch, the wallet's event loop, and *)
(* the connection.  The connection is reduced to what the wallet sees of   *)
(* it; Connection models its inside, and WalletLifecycle the Offline that  *)
(* ends a session: here the session goes on.  The server is external; a    *)
(* reorg of it replaces its best block.                                    *)
(*                                                                         *)
(* The tracker's lock is held from the start of a sync to its end, across  *)
(* the fetch; it is the fact that somebody is syncing.  The loop holds the *)
(* map's lock as well from init_addresses on, until it receives again.     *)
(***************************************************************************)
EXTENDS History, Broadcast

CONSTANTS
    MaxConnections,   \* bound: attempts to connect
    MaxFailures,      \* bound: fetches that fail
    MaxChanges,       \* bound: changes of the server's view of the address
    InboxCap,         \* capacity of the websocket event channel (256)
    PromptSubscribe,  \* a subscription that was sent takes effect before a
                      \* REST request that was sent after it is answered
    Reorgs            \* a confirmed transaction may be dropped by a reorg

ASSUME AddressSyncAssumption ==
    /\ {MaxConnections, MaxFailures, MaxChanges} \subseteq Nat
    /\ InboxCap \in Nat \ {0}
    /\ {PromptSubscribe, Reorgs} \subseteq BOOLEAN

VARIABLES
    server,       \* server[t]: status of t at the server
    tip,          \* height of the server's best block
    link,         \* "down", "up", or "dead": broken and not yet noticed
    tracked,      \* the server pushes the address's events on this link
    pending,      \* a Subscribe waits in the control channel of this link
    snapshot,     \* history: a fetch was answered since this link came up
    inbox,        \* the event loop's receiver
    watched,      \* addresses contains the address
    tracker,      \* its tracker
    user,         \* where the call of watch is
    loop,         \* where the event loop is
    reply,        \* the answer the running sync has received, or NoReply
    spent,        \* what is used up of the bounds, and failedOn: which
                  \* attempt to connect was the last before a fetch failed
    unsure        \* history: transactions the code cannot be right about any
                  \* more: one changed between snapshot and subscription,
                  \* an event that waits is older than the answer of a fetch,
                  \* a reorg dropped one unseen, or the inbox overflowed
vars == <<server, tip, link, tracked, pending, snapshot, inbox, watched, tracker,
          user, loop, reply, spent, unsure>>
serverVars == <<server, tip>>
linkVars == <<link, tracked, pending, snapshot>>
walletVars == <<watched, tracker, user, loop, reply>>

NoReply == [answered |-> FALSE, txs |-> <<>>]

(* WebsocketEvent: only its address events carry a transaction.            *)
ConnectedEvent == [kind |-> "Connected"]
DisconnectedEvent == [kind |-> "Disconnected"]
ErrorEvent == [kind |-> "Error"]
WebsocketEvent == {ConnectedEvent, DisconnectedEvent, ErrorEvent} \cup Event

AddressEvent(kind, t, height) ==
    [kind |-> kind, tx |-> [txid |-> t, height |-> height]]

Spend(what) == spent' = [spent EXCEPT ![what] = @ + 1]

Syncing == user = "syncing" \/ loop = "syncing"

Init ==
    /\ server = [t \in Txids |-> Absent]
    /\ tip = 0
    /\ link = "down" /\ tracked = FALSE /\ pending = FALSE /\ snapshot = FALSE
    /\ inbox = Subscribed
    /\ watched = FALSE
    /\ tracker = NewTracker
    /\ user = "idle"
    /\ loop = "receive"
    /\ reply = NoReply
    /\ spent = [connections |-> 0, failures |-> 0, changes |-> 0, failedOn |-> 0]
    /\ unsure = {}

-----------------------------------------------------------------------------
(* An event reaches the inbox, which may overflow.                         *)
Enqueue(e) ==
    /\ inbox' = Deliver(inbox, e, InboxCap)
    /\ unsure' = IF Len(inbox.buf) = InboxCap THEN Txids ELSE unsure

(* The server (external).  A change is pushed as soon as it happens when   *)
(* the address is tracked on a working link; otherwise nobody hears of it. *)
Change(t, height, e) ==
    /\ spent.changes < MaxChanges
    /\ Spend("changes")
    /\ server' = [server EXCEPT ![t] = height]
    /\ IF tracked /\ link = "up"
       THEN Enqueue(e)
       ELSE /\ unsure' = IF \/ e.kind = "Removed" /\ Confirmed(e.tx)
                            \/ link = "up" /\ snapshot
                         THEN unsure \cup {t} ELSE unsure
            /\ UNCHANGED inbox
    /\ UNCHANGED <<linkVars, walletVars>>

Appear(t) ==
    /\ server[t] = Absent
    /\ Change(t, Unconfirmed, AddressEvent("Mempool", t, Unconfirmed))
    /\ UNCHANGED tip

Evict(t) ==
    /\ server[t] = Unconfirmed
    /\ Change(t, Absent, AddressEvent("Removed", t, Unconfirmed))
    /\ UNCHANGED tip

(* A block confirms t: a new best block, or the best block once more, for  *)
(* it may confirm several transactions.                                    *)
Mine(t) ==
    /\ server[t] = Unconfirmed
    /\ tip' \in {tip, tip + 1} /\ tip' \in 1..MaxHeight
    /\ Change(t, tip', AddressEvent("Confirmed", t, tip'))

(* A reorg replaces the best block by one that conflicts with t.           *)
Reorg(t) ==
    /\ Reorgs
    /\ server[t] = tip /\ tip > 0
    /\ Change(t, Absent, AddressEvent("Removed", t, tip))
    /\ UNCHANGED tip

-----------------------------------------------------------------------------
(* The connection, as the wallet sees it.                                  *)
Connect ==
    /\ link = "down"
    /\ spent.connections < MaxConnections
    /\ Spend("connections")
    /\ link' = "up"
    /\ snapshot' = FALSE
    /\ Enqueue(ConnectedEvent)
    /\ UNCHANGED <<serverVars, tracked, pending, walletVars>>

(* No connection: the manager joins nobody and reports Disconnected next.  *)
ConnectFails ==
    /\ link = "down"
    /\ spent.connections < MaxConnections
    /\ Spend("connections")
    /\ link' = "dead"
    /\ Enqueue(ErrorEvent)
    /\ UNCHANGED <<serverVars, tracked, pending, snapshot, walletVars>>

Die ==
    /\ link = "up"
    /\ link' = "dead"
    /\ tracked' = FALSE
    /\ UNCHANGED <<serverVars, pending, snapshot, inbox, walletVars, spent, unsure>>

(* The threads are joined: what waits in the control channel is lost.      *)
Disconnect ==
    /\ link = "dead"
    /\ link' = "down"
    /\ pending' = FALSE
    /\ Enqueue(DisconnectedEvent)
    /\ UNCHANGED <<serverVars, tracked, snapshot, walletVars, spent>>

(* The control thread forwards the subscription and the server acts on it. *)
Track ==
    /\ link = "up" /\ pending
    /\ tracked' = TRUE
    /\ pending' = FALSE
    /\ UNCHANGED <<serverVars, link, snapshot, inbox, walletVars, spent, unsure>>

(* track_scriptpubkeys: without a connection nobody receives the Subscribe.*)
TrackScriptpubkeys == pending' = (pending \/ link # "down")

-----------------------------------------------------------------------------
(* The wallet's event loop, and handle_address_event.                      *)
NextIs(kinds) == HasMessage(inbox) /\ Head(inbox.buf).kind \in kinds

(* The report of a loss is only logged.                                    *)
LoopLagged ==
    /\ loop = "receive"
    /\ inbox.lagged
    /\ inbox' = Received(inbox)
    /\ UNCHANGED <<serverVars, linkVars, walletVars, spent, unsure>>

(* Disconnected is passed on to the subscribers, Error is logged.          *)
LoopDisconnected ==
    /\ loop = "receive"
    /\ NextIs({"Disconnected", "Error"})
    /\ inbox' = Received(inbox)
    /\ UNCHANGED <<serverVars, linkVars, walletVars, spent, unsure>>

(* An event of an address that is not in the map is dropped; one of an     *)
(* address that is being synced waits for the tracker's lock.              *)
HandleAddressEvent ==
    /\ loop = "receive"
    /\ NextIs(AddressKinds)
    /\ watched => ~Syncing
    /\ inbox' = Received(inbox)
    /\ tracker' = IF watched
                  THEN [ProcessEvent(tracker, Head(inbox.buf), TRUE) EXCEPT !.sent = <<>>]
                  ELSE tracker
    /\ UNCHANGED <<serverVars, linkVars, watched, user, loop, reply, unsure, spent>>

(* Seeded fault: a reconnection subscribes the address and does not sync it.*)
InitWithoutSync ==
    /\ loop = "receive"
    /\ NextIs({"Connected"})
    /\ inbox' = Received(inbox)
    /\ IF watched THEN TrackScriptpubkeys ELSE UNCHANGED pending
    /\ UNCHANGED <<serverVars, link, tracked, snapshot, watched, tracker, user, loop,
                   reply, spent, unsure>>

(* init_addresses, up to the sync of the address.                          *)
InitAddresses ==
    /\ loop = "receive"
    /\ NextIs({"Connected"})
    /\ inbox' = Received(inbox)
    /\ IF watched
       THEN TrackScriptpubkeys /\ loop' = "initialising"
       ELSE UNCHANGED <<pending, loop>>
    /\ UNCHANGED <<serverVars, link, tracked, snapshot, watched, tracker, user,
                   reply, spent, unsure>>

-----------------------------------------------------------------------------
(* The user's call of watch: it subscribes, inserts the tracker under the  *)
(* lock of the map, syncs it, and takes that lock again for the result.    *)
WatchSubscribe ==
    /\ user = "idle"
    /\ user' = "subscribed"
    /\ TrackScriptpubkeys
    /\ UNCHANGED <<serverVars, link, tracked, snapshot, inbox, watched, tracker,
                   loop, reply, unsure, spent>>

WatchInsert ==
    /\ user = "subscribed" /\ loop = "receive"
    /\ user' = "inserted"
    /\ watched' = TRUE
    /\ UNCHANGED <<serverVars, linkVars, inbox, tracker, loop, reply, unsure, spent>>

WatchReturn ==
    /\ user = "synced" /\ loop = "receive"
    /\ user' = "done"
    /\ UNCHANGED <<serverVars, linkVars, inbox, watched, tracker, loop, reply,
                   unsure, spent>>

-----------------------------------------------------------------------------
(* sync_address_history, called by watch or by init_addresses.             *)
SyncBegin ==
    /\ ~Syncing
    /\ \/ user = "inserted" /\ user' = "syncing" /\ UNCHANGED loop
       \/ loop = "initialising" /\ loop' = "syncing" /\ UNCHANGED user
    /\ tracker' = SetLoading(tracker, TRUE)
    /\ UNCHANGED <<serverVars, linkVars, inbox, watched, reply, unsure, spent>>

(* The newest confirmed transaction a tracker holds limits the fetch.      *)
LastConfirmed(tr) ==
    LET confirmed == {tx \in Held(tr) : Confirmed(tx)}
    IN IF confirmed = {}
       THEN [txid |-> NoTxid, height |-> NoHeight]
       ELSE CHOOSE tx \in confirmed :
                \A other \in confirmed \ {tx} : TxBefore(other, tx)

(* The events that are still to take effect, oldest first, and the status  *)
(* that every transaction will have once they did.                         *)
Waiting == tracker.queue \o inbox.buf
Expected == EffectOfAll(tracker.transactions, Waiting)

(* The transactions about which an event waits that is older than the      *)
(* server's present view, and will be applied on top of it.                *)
Contradicted ==
    {t \in Txids : /\ Expected[t] # server[t]
                   /\ \E i \in DOMAIN Waiting :
                        /\ Waiting[i].kind \in AddressKinds
                        /\ Waiting[i].tx.txid = t}

KnownToServer ==
    {[txid |-> t, height |-> server[t]] :
        t \in {u \in Txids : server[u] # Absent}}

(* External: the REST request is answered from the server's present view.  *)
Respond ==
    /\ Syncing /\ ~reply.answered
    /\ PromptSubscribe => ~(pending /\ link = "up")
    /\ reply' = [answered |-> TRUE,
                 txs |-> LET limit == LastConfirmed(tracker)
                         IN FetchAddressHistory(NewestFirst(KnownToServer),
                                                limit.txid, limit.height)]
    /\ snapshot' = (snapshot \/ link = "up")
    /\ unsure' = unsure \cup Contradicted
    /\ UNCHANGED <<serverVars, link, tracked, pending, inbox, watched, tracker,
                   user, loop, spent>>

SyncEnds ==
    /\ user' = IF user = "syncing" THEN "synced" ELSE user
    /\ loop' = IF loop = "syncing" THEN "receive" ELSE loop
    /\ reply' = NoReply

(* The fetch fails: the early return leaves the tracker loading.           *)
FetchFails ==
    /\ Syncing /\ ~reply.answered
    /\ spent.failures < MaxFailures
    /\ spent' = [spent EXCEPT !.failures = @ + 1, !.failedOn = spent.connections]
    /\ SyncEnds
    /\ UNCHANGED <<serverVars, linkVars, inbox, watched, tracker, unsure>>

(* The transactions that the removal pass reports, in its order: from the  *)
(* newest, while unconfirmed or above the last confirmed height, those the *)
(* reply does not have.                                                    *)
Missing(tr, txs) ==
    LET limit == LastConfirmed(tr).height
    IN NewestFirst({tx \in Held(tr) :
           /\ ~Confirmed(tx) \/ limit = NoHeight \/ tx.height > limit
           /\ \A i \in DOMAIN txs : txs[i].txid # tx.txid})

FetchedEvent(tx) ==
    [kind |-> IF Confirmed(tx) THEN "Confirmed" ELSE "Mempool", tx |-> tx]

(* Seeded fault: what the server does not know any more is kept.           *)
ApplyWithoutRemoval(tr, txs) ==
    ProcessAll(tr, [i \in DOMAIN txs |-> FetchedEvent(txs[i])])

(* What the reply does to the tracker before the queue is drained.         *)
ApplyReply(tr, txs) ==
    LET missing == Missing(tr, txs)
    IN ProcessAll(tr,
           [i \in DOMAIN missing |-> [kind |-> "Removed", tx |-> missing[i]]]
           \o [i \in DOMAIN txs |-> FetchedEvent(txs[i])])

SyncEnd ==
    /\ Syncing /\ reply.answered
    /\ tracker' = [SetLoading(ApplyReply(tracker, reply.txs), FALSE) EXCEPT !.sent = <<>>]
    /\ SyncEnds
    /\ UNCHANGED <<serverVars, linkVars, inbox, watched, unsure, spent>>

-----------------------------------------------------------------------------
ServerStep == \E t \in Txids : Appear(t) \/ Evict(t) \/ Mine(t) \/ Reorg(t)
LoopStep == LoopLagged \/ LoopDisconnected \/ HandleAddressEvent \/ InitAddresses
WatchStep == WatchInsert \/ WatchReturn
SyncStep == SyncBegin \/ Respond \/ FetchFails \/ SyncEnd

Next ==
    \/ ServerStep
    \/ Connect \/ ConnectFails \/ Die \/ Disconnect \/ Track
    \/ LoopStep
    \/ WatchSubscribe \/ WatchStep
    \/ SyncStep

Spec == Init /\ [][Next]_vars

-----------------------------------------------------------------------------
(* The variables keep their types: the balances of the tracker, which are  *)
(* unsigned, never underflow, whatever is synced, pushed and drained.      *)
TypeOK ==
    /\ server \in [Txids -> Heights \cup {Absent}]
    /\ tip \in 0..MaxHeight
    /\ link \in {"down", "up", "dead"}
    /\ {tracked, pending, snapshot} \subseteq BOOLEAN
    /\ inbox.lagged \in BOOLEAN /\ Len(inbox.buf) <= InboxCap
    /\ \A i \in DOMAIN inbox.buf : inbox.buf[i] \in WebsocketEvent
    /\ watched \in BOOLEAN
    /\ tracker.transactions \in [Txids -> Heights \cup {Absent}]
    /\ tracker.balance \in Balances
    /\ user \in {"idle", "subscribed", "inserted", "syncing", "synced", "done"}
    /\ loop \in {"receive", "initialising", "syncing"}
    /\ unsure \subseteq Txids

(* The link is up and subscribed, and its Connected was dealt with.        *)
Following ==
    /\ link = "up" /\ tracked
    /\ loop = "receive"
    /\ ~\E i \in DOMAIN inbox.buf : inbox.buf[i] = ConnectedEvent

(* Whatever the interleaving of the fetch, the pushed events and the       *)
(* reconnections: as long as the address is followed and its tracker is    *)
(* loaded, what the tracker holds together with the events still under way *)
(* is exactly what the server knows.  Nothing is missed and nothing counted*)
(* that the server dropped, except for the transactions in unsure, which   *)
(* are all those that ReadyMeansSynced can fail for                        *)
(* (wallet/mod.rs watch, init_addresses, sync_address_history).            *)
NothingMissed ==
    Following /\ watched /\ ~tracker.loading =>
        \A t \in Txids \ unsure : Expected[t] = server[t]

(* What the tracker is going to hold: what it holds now, or what the answer*)
(* that has arrived will make of it; and that, once everything that waits  *)
(* in its queue and in the inbox took effect.                              *)
Ahead(tr, rp) ==
    IF rp.answered THEN ApplyReply(tr, rp.txs).transactions ELSE tr.transactions

Outlook(tr, rp, buf) == EffectOfAll(Ahead(tr, rp), tr.queue \o buf)

Upshot == Outlook(tracker, reply, inbox.buf)

(* The wallet mirrors the server: no step of the wallet, the connection or *)
(* the server changes what the tracker is going to hold other than with the*)
(* server or towards it, so no event is applied twice, late, out of order  *)
(* or on top of an answer that has it already (sync_address_history,       *)
(* handle_address_event, set_loading).                                     *)
Mirror == INSTANCE AddressMirror
            WITH Statuses  <- Heights \cup {Absent},
                 outlook   <- Upshot,
                 following <- Following /\ watched /\ ~tracker.loading,
                 doubtful  <- unsure

MirrorsServer == Mirror!Spec

(* README.md:49-50: AddressReady means that the address is synced with the *)
(* server.  Once it was sent, and nothing is under way, the tracker holds  *)
(* what the server knows.                                                  *)
ReadyMeansSynced ==
    /\ Following /\ watched /\ ~tracker.loading
    /\ ~pending /\ ~CanReceive(inbox) /\ user = "done"
    => tracker.transactions = server

(* A fetch failed since this link came up.                                 *)
FailedOnThisLink == spent.failures > 0 /\ spent.failedOn = spent.connections

(* Once watch has returned and nothing is under way any more, the tracker  *)
(* has caught up with the server, also after a fetch that failed, if it    *)
(* failed before the present link came up: the sync of a reconnection makes*)
(* up for what the early return of sync_address_history left behind        *)
(* (wallet/mod.rs:288).  Without a reconnection nothing does, and the      *)
(* tracker stays loading: the only exception besides unsure.               *)
CatchesUp ==
    Following /\ user = "done" /\ ~CanReceive(inbox) =>
        \/ FailedOnThisLink /\ tracker.loading
        \/ \A t \in Txids \ unsure : tracker.transactions[t] = server[t]
=============================================================================
