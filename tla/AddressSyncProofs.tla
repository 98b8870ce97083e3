------------------------- MODULE AddressSyncProofs -------------------------
(***************************************************************************)
(* The synchronisation of an address, for any number of transactions,      *)
(* changes, connections and failures, and any page size: the variables     *)
(* keep their types, and nothing that the server knows is missed.          *)
(***************************************************************************)
EXTENDS AddressSync, HistoryLemmas

-----------------------------------------------------------------------------
(* The types.  What TypeOK leaves open about the tracker and the reply is  *)
(* needed for a step: the balance of the tracker is the sum over what it   *)
(* holds, and the reply is a list of transactions.                         *)
TypeInv ==
    /\ server \in Views
    /\ tip \in 0..MaxHeight
    /\ link \in {"down", "up", "dead"}
    /\ tracked \in BOOLEAN /\ pending \in BOOLEAN /\ snapshot \in BOOLEAN
    /\ inbox \in Receivers(WebsocketEvent, InboxCap)
    /\ watched \in BOOLEAN
    /\ tracker \in Balanced
    /\ user \in {"idle", "subscribed", "inserted", "syncing", "synced", "done"}
    /\ loop \in {"receive", "initialising", "syncing"}
    /\ reply \in [answered : BOOLEAN, txs : Seq(Tx)]
    /\ unsure \subseteq Txids

(* The messages of the connection.                                         *)
LEMMA MessageType ==
  /\ Speaks(WebsocketEvent)
  /\ {ConnectedEvent, DisconnectedEvent, ErrorEvent} \subseteq WebsocketEvent
  /\ ConnectedEvent.kind = "Connected" /\ DisconnectedEvent.kind = "Disconnected"
  /\ ErrorEvent.kind = "Error"
  /\ Event \subseteq WebsocketEvent
  /\ \A m \in WebsocketEvent : m.kind = "Connected" <=> m = ConnectedEvent
  /\ \A m \in WebsocketEvent : m \in Event <=> m.kind \in AddressKinds
  <1>1. /\ ConnectedEvent.kind = "Connected" /\ DisconnectedEvent.kind = "Disconnected"
        /\ ErrorEvent.kind = "Error"
        /\ \A e \in Event : e.kind \in AddressKinds
        /\ "Connected" \notin AddressKinds /\ "Disconnected" \notin AddressKinds
        /\ "Error" \notin AddressKinds
    BY DEF ConnectedEvent, DisconnectedEvent, ErrorEvent, Event, AddressKinds
  <1> QED BY <1>1 DEF Speaks, WebsocketEvent

LEMMA AddressEventType ==
  ASSUME NEW kind \in AddressKinds, NEW t \in Txids, NEW height \in Heights
  PROVE  LET e == AddressEvent(kind, t, height)
         IN /\ e \in Event /\ e.kind = kind /\ e.tx.txid = t /\ e.tx.height = height
            /\ e \in WebsocketEvent
  BY MessageType DEF AddressEvent, Event, Tx

(* The versions of a transaction are numbers.                              *)
LEMMA VersionOrder ==
  \A h \in Version : /\ h \in Int
                     /\ h # Absent => h \in Heights
                     /\ h > Unconfirmed => h \in Heights /\ h # Absent
                     /\ h = Absent \/ h = Unconfirmed \/ h > Unconfirmed
  <1>1. Absent \in Int /\ ~(Absent > Unconfirmed) /\ Unconfirmed \in Int
    BY DEF Absent, Unconfirmed
  <1>2. \A h \in Heights : h \in Nat /\ (h = Unconfirmed \/ h > Unconfirmed)
    BY VersionType DEF Unconfirmed
  <1> QED BY <1>1, <1>2 DEF Version

LEMMA HeightIsNumber ==
  /\ \A tx \in Tx : tx.height \in Int
  /\ \A e \in Event : e.tx.height \in Int
  <1>1. \A h \in Heights : h \in Int
    BY VersionType
  <1> QED BY <1>1 DEF Tx, Event

(* The limit of a fetch: the tracker has nothing confirmed, and there is   *)
(* none, or it has a confirmed transaction and none above it.              *)
LEMMA LastConfirmedIsLast ==
  ASSUME NEW tr, tr.transactions \in Views
  PROVE  /\ LastConfirmed(tr).height \in Int
         /\ \/ /\ LastConfirmed(tr).height = NoHeight /\ LastConfirmed(tr).txid = NoTxid
               /\ \A t \in Txids : ~(tr.transactions[t] > Unconfirmed)
            \/ /\ LastConfirmed(tr).height > Unconfirmed
               /\ \E t \in Txids : tr.transactions[t] = LastConfirmed(tr).height
               /\ \A t \in Txids : tr.transactions[t] <= LastConfirmed(tr).height
  <1> DEFINE view == tr.transactions
             confirmed == {tx \in Held(tr) : Confirmed(tx)}
             newest == CHOOSE tx \in confirmed :
                          \A other \in confirmed \ {tx} : TxBefore(other, tx)
  <1>1. /\ Held(tr) = Shown(view)
        /\ Held(tr) \in SUBSET Tx /\ IsFiniteSet(Held(tr))
        /\ \A tx \in Tx : tx \in Held(tr) <=> view[tx.txid] = tx.height
    <2>1. Held(tr) = Shown(view)
      BY DEF Held, Shown
    <2> HIDE DEF view
    <2> QED BY <2>1, ShownFinite DEF view
  <1>2. confirmed \in SUBSET Tx /\ IsFiniteSet(confirmed)
    BY <1>1, FS_Subset
  <1>3. \A t \in Txids : view[t] \in Int /\ (view[t] > Unconfirmed => view[t] \in Heights)
    BY VersionOrder DEF Views
  <1>4. \A t \in Txids : view[t] > Unconfirmed =>
          [txid |-> t, height |-> view[t]] \in confirmed
    <2> SUFFICES ASSUME NEW t \in Txids, view[t] > Unconfirmed
                 PROVE  [txid |-> t, height |-> view[t]] \in confirmed
      OBVIOUS
    <2> DEFINE tx == [txid |-> t, height |-> view[t]]
    <2>1. tx \in Tx /\ tx.txid = t /\ tx.height = view[t] /\ Confirmed(tx)
      BY <1>3 DEF Tx, Confirmed
    <2> HIDE DEF tx, view
    <2>2. tx \in Held(tr)
      BY <1>1, <2>1
    <2> QED BY <2>1, <2>2 DEF tx
  <1>5. LastConfirmed(tr) = IF confirmed = {}
                        THEN [txid |-> NoTxid, height |-> NoHeight] ELSE newest
    BY DEF LastConfirmed
  <1>6. CASE confirmed = {}
    <2>1. LastConfirmed(tr).height = NoHeight /\ LastConfirmed(tr).txid = NoTxid
      BY <1>5, <1>6
    <2>2. \A t \in Txids : ~(view[t] > Unconfirmed)
      BY <1>4, <1>6
    <2>3. NoHeight \in Int
      BY DEF NoHeight
    <2> QED BY <2>1, <2>2, <2>3
  <1>7. CASE confirmed # {}
    <2> DEFINE list == NewestFirst(confirmed)
    <2>1. IsNewestFirst(list, confirmed)
      <3> HIDE DEF confirmed
      <3> QED BY <1>2, NewestFirstSorts
    <2> HIDE DEF list
    <2>2. 1 \in 1..Len(list) /\ Len(list) \in Nat /\ list[1] \in confirmed
      BY <1>7, <2>1 DEF IsNewestFirst
    <2>3. \A other \in confirmed \ {list[1]} : TxBefore(other, list[1])
      <3> SUFFICES ASSUME NEW other \in confirmed \ {list[1]}
                   PROVE  TxBefore(other, list[1])
        OBVIOUS
      <3>1. PICK i \in 1..Len(list) : list[i] = other
        BY <2>1 DEF IsNewestFirst
      <3>2. 1 < i
        BY <2>2, <3>1
      <3> QED BY <2>1, <2>2, <3>1, <3>2 DEF IsNewestFirst
    <2>4. /\ newest \in confirmed
          /\ \A other \in confirmed \ {newest} : TxBefore(other, newest)
      <3> HIDE DEF confirmed
      <3> QED BY <2>2, <2>3
    <2>5. LastConfirmed(tr) = newest
      BY <1>5, <1>7
    <2> HIDE DEF newest
    <2>6. /\ newest \in Tx /\ Confirmed(newest) /\ newest.txid \in Txids
          /\ newest.height \in Nat /\ view[newest.txid] = newest.height
      BY <1>1, <2>4, VersionType DEF Tx
    <2>7. newest.height > Unconfirmed
      BY <2>6 DEF Confirmed
    <2>8. \A t \in Txids : view[t] <= newest.height
      <3> SUFFICES ASSUME NEW t \in Txids, view[t] > Unconfirmed
                   PROVE  view[t] <= newest.height
        BY <1>3, <2>6, <2>7 DEF Unconfirmed
      <3> DEFINE tx == [txid |-> t, height |-> view[t]]
      <3>1. tx \in confirmed /\ tx.height = view[t]
        BY <1>4
      <3> HIDE DEF tx, confirmed
      <3>2. tx = newest \/ TxBefore(tx, newest)
        BY <2>4, <3>1
      <3> QED BY <1>3, <2>6, <3>1, <3>2 DEF TxBefore, Confirmed
    <2> QED BY <2>5, <2>6, <2>7, <2>8
  <1> QED BY <1>6, <1>7

-----------------------------------------------------------------------------
(* What the answer of a fetch does to the tracker.                         *)
InReply(txs, t) == \E i \in 1..Len(txs) : txs[i].txid = t

(* The removal pass reports what is unconfirmed and not in the reply: no   *)
(* confirmed transaction is above the newest one.                          *)
LEMMA MissingIsUnconfirmed ==
  ASSUME NEW tr, tr.transactions \in Views, NEW txs \in Seq(Tx)
  PROVE  LET missing == Missing(tr, txs)
         IN /\ missing \in Seq(Tx)
            /\ \A t \in Txids :
                 (\E i \in 1..Len(missing) : missing[i].txid = t)
                   <=> tr.transactions[t] = Unconfirmed /\ ~InReply(txs, t)
  <1> DEFINE missing == Missing(tr, txs)
             view == tr.transactions
             limit == LastConfirmed(tr)
             gone == {tx \in Held(tr) :
                        /\ \/ ~Confirmed(tx)
                           \/ limit.height = NoHeight
                           \/ tx.height > limit.height
                        /\ \A i \in DOMAIN txs : txs[i].txid # tx.txid}
  <1>1. /\ Held(tr) \in SUBSET Tx /\ IsFiniteSet(Held(tr))
        /\ \A tx \in Tx : tx \in Held(tr) <=> view[tx.txid] = tx.height
    <2>1. Held(tr) = Shown(view)
      BY DEF Held, Shown
    <2> HIDE DEF view
    <2> QED BY <2>1, ShownFinite DEF view
  <1>2. /\ limit.height \in Int
        /\ \/ /\ limit.height = NoHeight
              /\ \A t \in Txids : ~(view[t] > Unconfirmed)
           \/ \A t \in Txids : view[t] <= limit.height
        /\ limit.height = NoHeight \/ limit.height > Unconfirmed
    BY LastConfirmedIsLast
  <1>3. DOMAIN txs = 1..Len(txs)
    OBVIOUS
  <1> HIDE DEF limit, view
  <1>4. \A tx \in Held(tr) : /\ tx \in Tx /\ tx.txid \in Txids /\ tx.height \in Nat
                                  /\ view[tx.txid] = tx.height
    BY <1>1, VersionType DEF Tx
  <1>5. \A tx \in Held(tr) :
          tx \in gone <=> tx.height = Unconfirmed /\ ~InReply(txs, tx.txid)
    <2> SUFFICES ASSUME NEW tx \in Held(tr)
                 PROVE  (\/ ~Confirmed(tx)
                         \/ limit.height = NoHeight
                         \/ tx.height > limit.height)
                          <=> tx.height = Unconfirmed
      BY <1>3 DEF InReply
    <2>1. tx.height \in Nat /\ tx.txid \in Txids /\ view[tx.txid] = tx.height
      BY <1>4
    <2> QED BY <1>2, <2>1 DEF Confirmed, Unconfirmed, NoHeight
  <1>6. missing = NewestFirst(gone)
    BY DEF Missing, limit
  <1>7. gone \in SUBSET Tx /\ IsFiniteSet(gone)
    <2>1. gone \in SUBSET Held(tr)
      OBVIOUS
    <2> HIDE DEF gone
    <2> QED BY <1>1, <2>1, FS_Subset
  <1>8. gone \subseteq Held(tr)
    OBVIOUS
  <1> HIDE DEF gone
  <1>9. IsNewestFirst(missing, gone)
    BY <1>6, <1>7, NewestFirstSorts
  <1>10. /\ missing \in Seq(gone)
         /\ \A tx \in gone : \E i \in 1..Len(missing) : missing[i] = tx
         /\ \A i \in 1..Len(missing) : missing[i] \in gone
    BY <1>9 DEF IsNewestFirst
  <1>11. ASSUME NEW t \in Txids, view[t] = Unconfirmed, ~InReply(txs, t)
         PROVE  \E i \in 1..Len(missing) : missing[i].txid = t
    <2> DEFINE tx == [txid |-> t, height |-> view[t]]
    <2>1. tx.txid = t /\ tx.height = Unconfirmed /\ tx \in Tx
      BY <1>11, TrackerAssumption DEF Tx, Heights, Unconfirmed
    <2>2. tx.height = view[tx.txid]
      BY <1>11, <2>1
    <2> HIDE DEF tx
    <2>3. tx \in gone
      BY <1>1, <1>5, <1>11, <2>1, <2>2
    <2> QED BY <1>10, <2>1, <2>3
  <1>12. ASSUME NEW i \in 1..Len(missing)
         PROVE  LET t == missing[i].txid IN view[t] = Unconfirmed /\ ~InReply(txs, t)
    <2>1. missing[i] \in gone /\ missing[i] \in Held(tr)
      BY <1>8, <1>10
    <2> QED BY <1>4, <1>5, <2>1
  <1>13. missing \in Seq(Tx)
    BY <1>7, <1>10
  <1> QED BY <1>11, <1>12, <1>13 DEF view

(* A transaction that is in the reply is taken over from it; one that is   *)
(* not is dropped if it is unconfirmed, and else stays.                    *)
LEMMA AppliedReply ==
  ASSUME NEW tr \in Balanced, NEW txs \in Seq(Tx)
  PROVE  /\ ApplyReply(tr, txs) \in Balanced
         /\ ApplyReply(tr, txs).queue = tr.queue
         /\ ApplyReply(tr, txs).loading = tr.loading
         /\ ApplyReply(tr, txs).transactions \in Views
         /\ \A t \in Txids :
              IF InReply(txs, t)
              THEN \E i \in 1..Len(txs) :
                      /\ txs[i].txid = t
                      /\ ApplyReply(tr, txs).transactions[t] = txs[i].height
              ELSE ApplyReply(tr, txs).transactions[t]
                      = IF tr.transactions[t] = Unconfirmed
                        THEN Absent ELSE tr.transactions[t]
  <1> DEFINE missing == Missing(tr, txs)
             removals == [i \in DOMAIN missing |-> [kind |-> "Removed", tx |-> missing[i]]]
             fetched == [i \in DOMAIN txs |-> FetchedEvent(txs[i])]
             es == removals \o fetched
             R == Len(missing)
             F == Len(txs)
             view == tr.transactions
  <1>1. view \in Views
    BY DEF Balanced, Trackers, Views, Version
  <1>2. /\ missing \in Seq(Tx)
        /\ \A t \in Txids : (\E i \in 1..R : missing[i].txid = t)
                               <=> view[t] = Unconfirmed /\ ~InReply(txs, t)
    BY <1>1, MissingIsUnconfirmed
  <1>3. /\ R \in Nat /\ DOMAIN missing = 1..R /\ \A i \in 1..R : missing[i] \in Tx
        /\ F \in Nat /\ DOMAIN txs = 1..F /\ \A i \in 1..F : txs[i] \in Tx
    BY <1>2
  <1>4. /\ removals \in Seq(Event) /\ Len(removals) = R
        /\ \A i \in 1..R : removals[i].kind = "Removed" /\ removals[i].tx = missing[i]
    <2>1. \A i \in 1..R : [kind |-> "Removed", tx |-> missing[i]] \in Event
      BY <1>3 DEF Event, AddressKinds
    <2> HIDE DEF R
    <2> QED BY <1>3, <2>1
  <1>5. \A tx \in Tx : /\ FetchedEvent(tx) \in Event
                       /\ FetchedEvent(tx).tx = tx /\ FetchedEvent(tx).kind # "Removed"
                       /\ FetchedEvent(tx).kind \in AddressKinds
    BY DEF FetchedEvent, Event, AddressKinds
  <1>6. /\ fetched \in Seq(Event) /\ Len(fetched) = F
        /\ \A i \in 1..F : fetched[i] = FetchedEvent(txs[i])
    <2> HIDE DEF F
    <2> QED BY <1>3, <1>5
  <1> HIDE DEF removals, fetched, R, F
  <1>7. /\ es \in Seq(Event) /\ Len(es) = R + F
        /\ \A i \in 1..R : es[i] = removals[i]
        /\ \A i \in 1..F : es[R + i] = fetched[i]
    <2>1. es \in Seq(Event) /\ Len(es) = R + F
      <3>1. removals \in Seq(Event) /\ fetched \in Seq(Event)
        BY <1>4, <1>6
      <3>2. es \in Seq(Event) /\ Len(es) = Len(removals) + Len(fetched)
        BY <3>1
      <3> QED BY <1>4, <1>6, <3>2
    <2>2. \A i \in 1..R : es[i] = removals[i]
      BY <1>3, <1>4, <1>6
    <2>3. \A i \in 1..F : es[R + i] = fetched[i]
      <3>1. \A i \in 1..F : R + i \in 1..(R + F) /\ R + i > R /\ (R + i) - R = i
        BY <1>3
      <3> QED BY <1>3, <1>4, <1>6, <3>1
    <2> QED BY <2>1, <2>2, <2>3
  <1>8. ApplyReply(tr, txs) = ProcessAll(tr, es)
    BY DEF ApplyReply, removals, fetched
  <1> HIDE DEF es, view, missing
  <1>9. /\ ApplyReply(tr, txs) \in Balanced
        /\ ApplyReply(tr, txs).queue = tr.queue
        /\ ApplyReply(tr, txs).loading = tr.loading
    BY <1>7, <1>8, ProcessAllEffect
  <1>10. ApplyReply(tr, txs).transactions = EffectOfAll(view, es)
    BY <1>7, <1>8, ProcessAllIsEffect DEF view
  <1>11. ApplyReply(tr, txs).transactions \in Views
    BY <1>1, <1>7, <1>10, EventSpeaks, EffectOfAllType
  <1>12. ASSUME NEW t \in Txids
         PROVE  IF InReply(txs, t)
                THEN \E i \in 1..F : /\ txs[i].txid = t
                                     /\ ApplyReply(tr, txs).transactions[t] = txs[i].height
                ELSE ApplyReply(tr, txs).transactions[t] = IF view[t] = Unconfirmed
                                                  THEN Absent ELSE view[t]
    <2> DEFINE result == ApplyReply(tr, txs).transactions[t]
    <2>1. LastAbout(view, es, t, result)
      BY <1>1, <1>7, <1>10, EventSpeaks, EffectIsLast
    <2>2. \A i \in 1..R : About(es[i], t) <=> missing[i].txid = t
      BY <1>4, <1>7 DEF About, AddressKinds
    <2>3. \A i \in 1..F : About(es[R + i], t) <=> txs[i].txid = t
      BY <1>3, <1>5, <1>6, <1>7 DEF About
    <2>4. \A i \in 1..R : Outcome(es[i]) = Absent
      BY <1>4, <1>7 DEF Outcome
    <2>5. \A i \in 1..F : Outcome(es[R + i]) = txs[i].height
      BY <1>3, <1>5, <1>6, <1>7 DEF Outcome
    <2>6. InReply(txs, t) <=> \E i \in 1..F : txs[i].txid = t
      BY DEF InReply, F
    <2>7. \A i \in 1..(R + F) : i \in 1..R \/ (i - R \in 1..F /\ R + (i - R) = i)
      BY <1>3
    <2>8. \A i \in 1..F : R + i \in 1..(R + F)
      BY <1>3
    <2> HIDE DEF result
    <2>9. CASE \A i \in 1..Len(es) : ~About(es[i], t)
      <3>1. result = view[t]
        BY <2>1, <2>9 DEF LastAbout
      <3>2. ~InReply(txs, t)
        BY <1>7, <2>3, <2>6, <2>8, <2>9
      <3>3. \A i \in 1..R : missing[i].txid # t
        BY <1>3, <1>7, <2>2, <2>9
      <3>4. view[t] # Unconfirmed
        BY <1>2, <3>2, <3>3 DEF R
      <3> QED BY <3>1, <3>2, <3>4 DEF result
    <2>10. ASSUME NEW i \in 1..Len(es), About(es[i], t), result = Outcome(es[i]),
                  \A j \in (i + 1)..Len(es) : ~About(es[j], t)
           PROVE  IF InReply(txs, t)
                  THEN \E k \in 1..F : txs[k].txid = t /\ result = txs[k].height
                  ELSE result = IF view[t] = Unconfirmed THEN Absent ELSE view[t]
      <3>1. CASE i \in 1..R
        <4>1. missing[i].txid = t /\ result = Absent
          BY <2>2, <2>4, <2>10, <3>1
        <4>2. view[t] = Unconfirmed /\ ~InReply(txs, t)
          BY <1>2, <3>1, <4>1 DEF R
        <4> QED BY <4>1, <4>2
      <3>2. CASE i - R \in 1..F /\ R + (i - R) = i
        <4>1. txs[i - R].txid = t /\ result = txs[i - R].height
          BY <2>3, <2>5, <2>10, <3>2
        <4> QED BY <2>6, <3>2, <4>1
      <3> QED BY <1>7, <2>7, <3>1, <3>2
    <2> QED BY <2>1, <2>9, <2>10 DEF LastAbout, result
  <1> QED BY <1>9, <1>11, <1>12 DEF F, view

(* A tracker whose announcements have been sent.                           *)
Quiet(tr) == [tr EXCEPT !.sent = <<>>]

LEMMA QuietBalanced ==
  ASSUME NEW tr \in Balanced
  PROVE  /\ Quiet(tr) \in Balanced
         /\ Quiet(tr).transactions = tr.transactions
         /\ Quiet(tr).queue = tr.queue
         /\ Quiet(tr).loading = tr.loading
  <1>1. tr \in Trackers /\ <<>> \in Seq(Event)
    BY DEF Balanced
  <1>2. /\ Quiet(tr) \in Trackers
        /\ Quiet(tr).transactions = tr.transactions
        /\ Quiet(tr).balance = tr.balance
        /\ Quiet(tr).queue = tr.queue
        /\ Quiet(tr).loading = tr.loading
    BY <1>1 DEF Quiet, Trackers
  <1>3. BalanceIsSum(Quiet(tr))
    BY <1>2, BalanceKept DEF Balanced
  <1> QED BY <1>2, <1>3 DEF Balanced

(* The end of a sync: the answer takes effect, then what waited.           *)
SyncedTracker(tr, txs) == [SetLoading(ApplyReply(tr, txs), FALSE) EXCEPT !.sent = <<>>]

LEMMA FinishedSync ==
  ASSUME NEW tr \in Balanced, tr.loading, NEW txs \in Seq(Tx)
  PROVE  /\ SyncedTracker(tr, txs) \in Balanced
         /\ SyncedTracker(tr, txs).transactions
              = EffectOfAll(ApplyReply(tr, txs).transactions, tr.queue)
         /\ SyncedTracker(tr, txs).queue = <<>>
         /\ ~ SyncedTracker(tr, txs).loading
  <1> DEFINE applied == ApplyReply(tr, txs)
             drained == DrainQueue(applied)
             live == SetLoading(applied, FALSE)
             empty == [applied EXCEPT !.queue = <<>>]
  <1>1. /\ applied \in Balanced /\ applied.queue = tr.queue
        /\ applied.loading
    BY AppliedReply
  <1> HIDE DEF applied
  <1>2. /\ drained \in Balanced /\ drained.queue = <<>>
        /\ empty \in Balanced /\ applied.queue \in Seq(Event)
    BY <1>1, DrainEffect
  <1>3. drained = ProcessAll(empty, applied.queue)
    BY DEF DrainQueue
  <1>4. empty.transactions = applied.transactions
    BY <1>1 DEF Balanced, Trackers
  <1> HIDE DEF empty
  <1>5. drained.transactions = EffectOfAll(applied.transactions, applied.queue)
    BY <1>2, <1>3, <1>4, ProcessAllIsEffect
  <1>6. /\ live \in Balanced
        /\ live.transactions = drained.transactions
        /\ live.queue = drained.queue
        /\ live.loading = FALSE
    <2>1. FALSE \in BOOLEAN
      OBVIOUS
    <2> HIDE DEF live, drained
    <2> QED BY <1>1, <2>1, SetLoadingEffect DEF live, drained
  <1> HIDE DEF live, drained
  <1>7. SyncedTracker(tr, txs) = [live EXCEPT !.sent = <<>>]
    BY DEF SyncedTracker, live, applied
  <1>8. /\ SyncedTracker(tr, txs) \in Balanced
        /\ SyncedTracker(tr, txs).transactions = live.transactions
        /\ SyncedTracker(tr, txs).queue = live.queue
        /\ SyncedTracker(tr, txs).loading = live.loading
    BY <1>6, <1>7, QuietBalanced DEF Quiet
  <1> QED BY <1>1, <1>2, <1>5, <1>6, <1>8 DEF applied

-----------------------------------------------------------------------------
(* Types and locks.  Only a task that holds the tracker's lock has an      *)
(* answer, and it has the tracker loading; until watch inserted it the     *)
(* tracker is new.                                                         *)
LockInv ==
    /\ Syncing => watched /\ tracker.loading
    /\ ~(user = "syncing" /\ loop = "syncing")
    /\ ~Syncing => ~reply.answered
    /\ ~watched => /\ tracker = NewTracker
                   /\ user \in {"idle", "subscribed"} /\ loop = "receive"
    /\ ~tracker.loading => tracker.queue = <<>>

(* A message reaches the inbox; one that is full loses its oldest.         *)
LEMMA EnqueueType ==
  ASSUME TypeInv, NEW m \in WebsocketEvent, Enqueue(m)
  PROVE  /\ inbox' \in Receivers(WebsocketEvent, InboxCap)
         /\ unsure' \subseteq Txids
         /\ \/ inbox'.buf = Append(inbox.buf, m) /\ unsure' = unsure
            \/ unsure' = Txids
  <1>1. /\ inbox.buf \in Seq(WebsocketEvent) /\ Len(inbox.buf) <= InboxCap
        /\ inbox.lagged \in BOOLEAN /\ unsure \subseteq Txids
        /\ InboxCap \in Nat \ {0}
    BY AddressSyncAssumption DEF TypeInv, Receivers
  <1>2. CASE Len(inbox.buf) < InboxCap
    <2>1. inbox' = [inbox EXCEPT !.buf = Append(@, m)] /\ unsure' = unsure
      BY <1>1, <1>2 DEF Enqueue, Deliver
    <2>2. inbox \in Receivers(WebsocketEvent, InboxCap)
      BY DEF TypeInv
    <2> DEFINE longer == Append(inbox.buf, m)
    <2>3. longer \in Seq(WebsocketEvent) /\ Len(longer) <= InboxCap
      BY <1>1, <1>2
    <2>4. inbox' = [inbox EXCEPT !.buf = longer]
      BY <2>1
    <2> HIDE DEF longer
    <2>5. inbox' \in Receivers(WebsocketEvent, InboxCap) /\ inbox'.buf = longer
      BY <2>2, <2>3, <2>4 DEF Receivers
    <2> QED BY <1>1, <2>1, <2>5 DEF longer
  <1>3. CASE ~(Len(inbox.buf) < InboxCap)
    <2>1. /\ inbox' = [buf |-> Append(Tail(inbox.buf), m), lagged |-> TRUE]
          /\ unsure' = Txids
      BY <1>1, <1>3 DEF Enqueue, Deliver
    <2>2. Tail(inbox.buf) \in Seq(WebsocketEvent) /\ Len(Tail(inbox.buf)) = Len(inbox.buf) - 1
      BY <1>1, <1>3
    <2> QED BY <1>1, <2>1, <2>2 DEF Receivers
  <1> QED BY <1>2, <1>3

(* The event loop takes the oldest message from the inbox.                 *)
LEMMA ReceiveType ==
  ASSUME TypeInv, HasMessage(inbox), inbox' = Received(inbox)
  PROVE  /\ Head(inbox.buf) \in WebsocketEvent
         /\ inbox.buf # <<>> /\ inbox'.buf = Tail(inbox.buf)
         /\ inbox' \in Receivers(WebsocketEvent, InboxCap)
  <1>1. /\ inbox.buf \in Seq(WebsocketEvent) /\ Len(inbox.buf) <= InboxCap
        /\ inbox.buf # <<>> /\ ~inbox.lagged
        /\ InboxCap \in Nat \ {0}
    BY AddressSyncAssumption DEF TypeInv, HasMessage, Receivers
  <1>2. inbox' = [inbox EXCEPT !.buf = Tail(@)]
    BY <1>1 DEF Received
  <1>3. /\ Tail(inbox.buf) \in Seq(WebsocketEvent)
        /\ Len(Tail(inbox.buf)) = Len(inbox.buf) - 1
        /\ Head(inbox.buf) \in WebsocketEvent
    BY <1>1
  <1>4. inbox \in Receivers(WebsocketEvent, InboxCap)
    BY DEF TypeInv
  <1> QED BY <1>1, <1>2, <1>3, <1>4 DEF Receivers

(* An event that is handled waits while the tracker is loading, and else   *)
(* takes effect at once.                                                   *)
LEMMA HandledEvent ==
  ASSUME tracker \in Balanced, NEW e \in Event
  PROVE  LET next == [ProcessEvent(tracker, e, TRUE) EXCEPT !.sent = <<>>]
         IN /\ next \in Balanced
            /\ next.loading = tracker.loading
            /\ tracker.loading => /\ next.transactions = tracker.transactions
                                  /\ next.queue = Append(tracker.queue, e)
            /\ ~tracker.loading => /\ next.transactions = Effect(tracker.transactions, e)
                                   /\ next.queue = tracker.queue
  <1> DEFINE handled == ProcessEvent(tracker, e, TRUE)
  <1>1. tracker.transactions \in Views
    BY DEF Balanced, Trackers, Views, Version
  <1>2. CASE tracker.loading
    <2>1. /\ handled \in Balanced /\ handled.loading = tracker.loading
          /\ handled.transactions = tracker.transactions
          /\ handled.queue = Append(tracker.queue, e)
      BY <1>2, QueueEffect
    <2> HIDE DEF handled
    <2>2. /\ Quiet(handled) \in Balanced
          /\ Quiet(handled).loading = handled.loading
          /\ Quiet(handled).transactions = handled.transactions
          /\ Quiet(handled).queue = handled.queue
      BY <2>1, QuietBalanced
    <2> QED BY <1>2, <2>1, <2>2 DEF Quiet, handled
  <1>3. CASE ~tracker.loading
    <2>1. TRUE \in BOOLEAN /\ ~(TRUE /\ tracker.loading)
      BY <1>3
    <2>2. /\ handled \in Balanced /\ handled.loading = tracker.loading
          /\ handled.transactions = [tracker.transactions EXCEPT ![e.tx.txid] = Outcome(e)]
          /\ handled.queue = tracker.queue
      BY <2>1, ApplyEffect
    <2>3. handled.transactions = Effect(tracker.transactions, e)
      BY <1>1, <2>2, EffectType
    <2> HIDE DEF handled
    <2>4. /\ Quiet(handled) \in Balanced
          /\ Quiet(handled).loading = handled.loading
          /\ Quiet(handled).transactions = handled.transactions
          /\ Quiet(handled).queue = handled.queue
      BY <2>2, QuietBalanced
    <2> QED BY <1>3, <2>2, <2>3, <2>4 DEF Quiet, handled
  <1> QED BY <1>2, <1>3

(* A sync that begins leaves everything but the flag.                      *)
LEMMA BegunSync ==
  ASSUME tracker \in Balanced
  PROVE  LET next == SetLoading(tracker, TRUE)
         IN /\ next \in Balanced
            /\ next.transactions = tracker.transactions
            /\ next.queue = tracker.queue
            /\ next.loading
  <1> DEFINE next == SetLoading(tracker, TRUE)
  <1>1. TRUE \in BOOLEAN /\ ~(tracker.loading /\ ~TRUE)
    OBVIOUS
  <1>2. /\ next \in Balanced
        /\ next.transactions = tracker.transactions
        /\ next.queue = tracker.queue
        /\ next.loading = TRUE
    <2> HIDE DEF next
    <2> QED BY <1>1, SetLoadingEffect DEF next
  <1> HIDE DEF next
  <1> QED BY <1>2 DEF next

(* The limit is one and the answer is a list of transactions.              *)
LEMMA FetchedReply ==
  ASSUME TypeInv
  PROVE  LET limit == LastConfirmed(tracker)
         IN IsReply(FetchAddressHistory(NewestFirst(KnownToServer), limit.txid, limit.height),
                    KnownToServer, limit.txid, limit.height)
  <1>1. server \in Views /\ tracker.transactions \in Views
    BY DEF TypeInv, Balanced, Trackers, Views, Version
  <1>2. KnownToServer = Shown(server)
    BY DEF KnownToServer, Shown
  <1>3. KnownToServer \in SUBSET Tx /\ IsFiniteSet(KnownToServer)
    BY <1>1, <1>2, ShownFinite
  <1>4. LastConfirmed(tracker).height \in Int
    BY <1>1, LastConfirmedIsLast
  <1> QED BY <1>3, <1>4, FetchReturns

(* Every step keeps the types and the rules of the locks.                  *)
Sound == TypeInv /\ LockInv

LEMMA InitSound == Init => Sound
  <1> SUFFICES ASSUME Init PROVE Sound
    OBVIOUS
  <1>1. inbox \in Receivers(WebsocketEvent, InboxCap)
    BY AddressSyncAssumption DEF Init, Subscribed, Receivers
  <1>2. /\ tracker \in Balanced /\ tracker.loading /\ tracker = NewTracker
        /\ tracker.queue = <<>>
    BY NewTrackerBalanced DEF Init, NewTracker
  <1>3. server \in Views /\ tip \in 0..MaxHeight
    BY TrackerAssumption DEF Init, Views, Version
  <1>4. reply \in [answered : BOOLEAN, txs : Seq(Tx)] /\ ~reply.answered
    BY DEF Init, NoReply
  <1>5. TypeInv
    BY <1>1, <1>2, <1>3, <1>4 DEF Init, TypeInv
  <1>6. LockInv
    BY <1>2, <1>4 DEF Init, LockInv, Syncing
  <1> QED BY <1>5, <1>6 DEF Sound

LEMMA StepSound == Sound /\ [Next]_vars => Sound'
  <1> SUFFICES ASSUME Sound, [Next]_vars PROVE Sound'
    OBVIOUS
  <1> USE DEF Sound
  <1>1. ASSUME NEW t \in Txids, NEW height \in Version, NEW e \in WebsocketEvent,
               Change(t, height, e), tip' \in 0..MaxHeight
        PROVE  Sound'
    <2>1. server' \in Views /\ UNCHANGED <<linkVars, walletVars>>
      BY <1>1 DEF Change, TypeInv, Views
    <2>2. inbox' \in Receivers(WebsocketEvent, InboxCap) /\ unsure' \subseteq Txids
      BY <1>1, EnqueueType DEF Change, TypeInv
    <2>3. TypeInv'
      BY <1>1, <2>1, <2>2 DEF TypeInv, linkVars, walletVars
    <2>4. LockInv'
      BY <2>1 DEF LockInv, walletVars, Syncing
    <2> QED BY <2>3, <2>4
  <1>2. ASSUME NEW t \in Txids, Appear(t) \/ Evict(t) \/ Mine(t) \/ Reorg(t)
        PROVE  Sound'
    <2>1. /\ tip \in 0..MaxHeight /\ MaxHeight \in Nat /\ Absent \in Version
          /\ \A h \in 0..MaxHeight : h \in Heights /\ h \in Version
          /\ Unconfirmed \in Heights /\ Unconfirmed \in Version
      BY TrackerAssumption DEF TypeInv, Version, Heights, Unconfirmed
    <2>2. CASE Appear(t)
      <3>1. AddressEvent("Mempool", t, Unconfirmed) \in WebsocketEvent
        BY <2>1, AddressEventType DEF AddressKinds
      <3> QED BY <1>1, <2>1, <2>2, <3>1 DEF Appear
    <2>3. CASE Evict(t)
      <3>1. AddressEvent("Removed", t, Unconfirmed) \in WebsocketEvent
        BY <2>1, AddressEventType DEF AddressKinds
      <3> QED BY <1>1, <2>1, <2>3, <3>1 DEF Evict
    <2>4. CASE Mine(t)
      <3>1. tip' \in 0..MaxHeight
        BY <2>1, <2>4 DEF Mine
      <3>2. AddressEvent("Confirmed", t, tip') \in WebsocketEvent
        BY <2>1, <3>1, AddressEventType DEF AddressKinds
      <3>3. Change(t, tip', AddressEvent("Confirmed", t, tip'))
        BY <2>4 DEF Mine
      <3> DEFINE h == tip'
                 e == AddressEvent("Confirmed", t, tip')
      <3>4. h \in Version /\ e \in WebsocketEvent /\ Change(t, h, e)
        BY <2>1, <3>1, <3>2, <3>3
      <3> HIDE DEF h, e
      <3> QED BY <1>1, <3>1, <3>4
    <2>5. CASE Reorg(t)
      <3>1. AddressEvent("Removed", t, tip) \in WebsocketEvent
        BY <2>1, AddressEventType DEF AddressKinds
      <3> QED BY <1>1, <2>1, <2>5, <3>1 DEF Reorg
    <2> QED BY <1>2, <2>2, <2>3, <2>4, <2>5
  <1>3. CASE Connect
    <2>1. inbox' \in Receivers(WebsocketEvent, InboxCap) /\ unsure' \subseteq Txids
      BY <1>3, EnqueueType, MessageType DEF Connect
    <2>2. TypeInv'
      BY <1>3, <2>1 DEF Connect, TypeInv, serverVars, walletVars
    <2>3. LockInv'
      BY <1>3 DEF Connect, LockInv, walletVars, Syncing
    <2> QED BY <2>2, <2>3
  <1>20. CASE ConnectFails
    <2>1. inbox' \in Receivers(WebsocketEvent, InboxCap) /\ unsure' \subseteq Txids
      BY <1>20, EnqueueType, MessageType DEF ConnectFails
    <2>2. TypeInv'
      BY <1>20, <2>1 DEF ConnectFails, TypeInv, serverVars, walletVars
    <2>3. LockInv'
      BY <1>20 DEF ConnectFails, LockInv, walletVars, Syncing
    <2> QED BY <2>2, <2>3
  <1>4. CASE Die
    <2>1. TypeInv'
      BY <1>4 DEF Die, TypeInv, serverVars, walletVars
    <2>2. LockInv'
      BY <1>4 DEF Die, LockInv, walletVars, Syncing
    <2> QED BY <2>1, <2>2
  <1>5. CASE Disconnect
    <2>1. inbox' \in Receivers(WebsocketEvent, InboxCap) /\ unsure' \subseteq Txids
      BY <1>5, EnqueueType, MessageType DEF Disconnect
    <2>2. TypeInv'
      BY <1>5, <2>1 DEF Disconnect, TypeInv, serverVars, walletVars
    <2>3. LockInv'
      BY <1>5 DEF Disconnect, LockInv, walletVars, Syncing
    <2> QED BY <2>2, <2>3
  <1>6. CASE Track
    <2>1. TypeInv'
      BY <1>6 DEF Track, TypeInv, serverVars, walletVars
    <2>2. LockInv'
      BY <1>6 DEF Track, LockInv, walletVars, Syncing
    <2> QED BY <2>1, <2>2
  <1>7. CASE LoopLagged
    <2>1. inbox' \in Receivers(WebsocketEvent, InboxCap)
      BY <1>7 DEF LoopLagged, Received, TypeInv, Receivers
    <2>2. TypeInv'
      BY <1>7, <2>1 DEF LoopLagged, TypeInv, serverVars, linkVars, walletVars
    <2>3. LockInv'
      BY <1>7 DEF LoopLagged, LockInv, walletVars, Syncing
    <2> QED BY <2>2, <2>3
  <1>8. CASE LoopDisconnected
    <2>1. inbox' \in Receivers(WebsocketEvent, InboxCap)
      BY <1>8, ReceiveType DEF LoopDisconnected, NextIs
    <2>2. TypeInv'
      BY <1>8, <2>1 DEF LoopDisconnected, TypeInv, serverVars, linkVars, walletVars
    <2>3. LockInv'
      BY <1>8 DEF LoopDisconnected, LockInv, walletVars, Syncing
    <2> QED BY <2>2, <2>3
  <1>9. CASE HandleAddressEvent
    <2>1. /\ inbox' \in Receivers(WebsocketEvent, InboxCap)
          /\ Head(inbox.buf) \in WebsocketEvent
          /\ Head(inbox.buf).kind \in AddressKinds
      BY <1>9, ReceiveType DEF HandleAddressEvent, NextIs
    <2>2. Head(inbox.buf) \in Event
      BY <2>1, MessageType
    <2>3. /\ tracker' \in Balanced /\ tracker'.loading = tracker.loading
          /\ ~tracker.loading => tracker'.queue = tracker.queue
          /\ ~watched => tracker' = tracker
      <3>1. CASE watched
        <4>1. tracker' = [ProcessEvent(tracker, Head(inbox.buf), TRUE) EXCEPT !.sent = <<>>]
          BY <1>9, <3>1 DEF HandleAddressEvent
        <4> QED BY <2>2, <3>1, <4>1, HandledEvent DEF TypeInv
      <3>2. CASE ~watched
        BY <1>9, <3>2 DEF HandleAddressEvent, TypeInv
      <3> QED BY <3>1, <3>2
    <2>4. TypeInv'
      BY <1>9, <2>1, <2>3 DEF HandleAddressEvent, TypeInv, serverVars, linkVars
    <2>5. LockInv'
      BY <1>9, <2>3 DEF HandleAddressEvent, LockInv, Syncing
    <2> QED BY <2>4, <2>5
  <1>10. CASE InitAddresses
    <2>1. inbox' \in Receivers(WebsocketEvent, InboxCap)
      BY <1>10, ReceiveType DEF InitAddresses, NextIs
    <2>2. pending' \in BOOLEAN /\ loop' \in {"receive", "initialising", "syncing"}
      BY <1>10 DEF InitAddresses, TrackScriptpubkeys, TypeInv
    <2>3. TypeInv'
      BY <1>10, <2>1, <2>2 DEF InitAddresses, TypeInv, serverVars
    <2>4. LockInv'
      BY <1>10 DEF InitAddresses, LockInv, Syncing
    <2> QED BY <2>3, <2>4
  <1>11. CASE WatchSubscribe
    <2>1. TypeInv'
      BY <1>11 DEF WatchSubscribe, TrackScriptpubkeys, TypeInv, serverVars
    <2>2. LockInv'
      BY <1>11 DEF WatchSubscribe, LockInv, Syncing
    <2> QED BY <2>1, <2>2
  <1>12. CASE WatchInsert
    <2>1. TypeInv'
      BY <1>12 DEF WatchInsert, TypeInv, serverVars, linkVars
    <2>2. LockInv'
      BY <1>12 DEF WatchInsert, LockInv, Syncing
    <2> QED BY <2>1, <2>2
  <1>13. CASE WatchReturn
    <2>1. TypeInv'
      BY <1>13 DEF WatchReturn, TypeInv, serverVars, linkVars
    <2>2. LockInv'
      BY <1>13 DEF WatchReturn, LockInv, Syncing
    <2> QED BY <2>1, <2>2
  <1>14. CASE SyncBegin
    <2>1. /\ tracker' \in Balanced /\ tracker'.loading
          /\ tracker'.queue = tracker.queue
      BY <1>14, BegunSync DEF SyncBegin, TypeInv
    <2>2. TypeInv'
      BY <1>14, <2>1 DEF SyncBegin, TypeInv, serverVars, linkVars
    <2>3. LockInv'
      BY <1>14, <2>1 DEF SyncBegin, LockInv, Syncing
    <2> QED BY <2>2, <2>3
  <1>15. CASE Respond
    <2> DEFINE limit == LastConfirmed(tracker)
               txs == FetchAddressHistory(NewestFirst(KnownToServer),
                                          limit.txid, limit.height)
    <2>1. txs \in Seq(Tx)
      BY FetchedReply DEF IsReply
    <2>2. reply' = [answered |-> TRUE, txs |-> txs]
      BY <1>15 DEF Respond
    <2> HIDE DEF txs
    <2>3. reply' \in [answered : BOOLEAN, txs : Seq(Tx)]
      BY <2>1, <2>2
    <2>4. snapshot' \in BOOLEAN /\ unsure' \subseteq Txids
      BY <1>15 DEF Respond, TypeInv, Contradicted
    <2>5. TypeInv'
      BY <1>15, <2>3, <2>4 DEF Respond, TypeInv, serverVars
    <2>6. LockInv'
      BY <1>15 DEF Respond, LockInv, Syncing
    <2> QED BY <2>5, <2>6
  <1>16. ASSUME SyncEnds, Syncing,
                tracker' \in Balanced, ~tracker'.loading => tracker'.queue = <<>>,
                UNCHANGED <<serverVars, linkVars, inbox, watched, unsure>>
         PROVE  Sound'
    <2>1. reply' \in [answered : BOOLEAN, txs : Seq(Tx)] /\ ~reply'.answered
      BY <1>16 DEF SyncEnds, NoReply
    <2>2. TypeInv'
      BY <1>16, <2>1 DEF SyncEnds, TypeInv, serverVars, linkVars
    <2>3. LockInv'
      BY <1>16, <2>1 DEF SyncEnds, LockInv, Syncing
    <2> QED BY <2>2, <2>3
  <1>17. CASE FetchFails
    <2>1. tracker' = tracker /\ tracker \in Balanced /\ ~tracker'.loading => tracker'.queue = <<>>
      BY <1>17 DEF FetchFails, TypeInv, LockInv
    <2> QED BY <1>16, <1>17, <2>1 DEF FetchFails, TypeInv
  <1>18. CASE SyncEnd
    <2>1. tracker' = SyncedTracker(tracker, reply.txs)
      BY <1>18 DEF SyncEnd, SyncedTracker
    <2>2. tracker' \in Balanced /\ tracker'.queue = <<>>
      <3>1. tracker \in Balanced /\ tracker.loading /\ reply.txs \in Seq(Tx)
        BY <1>18 DEF SyncEnd, TypeInv, LockInv
      <3> QED BY <2>1, <3>1, FinishedSync
    <2> QED BY <1>16, <1>18, <2>2 DEF SyncEnd
  <1>19. CASE UNCHANGED vars
    BY <1>19 DEF vars, TypeInv, LockInv, Syncing
  <1> QED
    BY <1>2, <1>3, <1>4, <1>5, <1>6, <1>7, <1>8, <1>9, <1>10, <1>11, <1>12, <1>13,
       <1>14, <1>15, <1>17, <1>18, <1>19, <1>20
    DEF Next, ServerStep, LoopStep, WatchStep, SyncStep

(* The variables keep their types; in particular the balances of the       *)
(* tracker, which are unsigned, never go below 0, whatever is synced,      *)
(* pushed and drained (sync_address_history, process_event).               *)
THEOREM TypeCorrect == Spec => []TypeOK
  <1>1. Sound => TypeOK
    <2> SUFFICES ASSUME Sound PROVE TypeOK
      OBVIOUS
    <2>1. /\ inbox.lagged \in BOOLEAN /\ Len(inbox.buf) <= InboxCap
          /\ \A i \in DOMAIN inbox.buf : inbox.buf[i] \in WebsocketEvent
      BY DEF Sound, TypeInv, Receivers
    <2>2. tracker.transactions \in [Txids -> Heights \cup {Absent}]
          /\ tracker.balance \in Balances
      BY DEF Sound, TypeInv, Balanced, Trackers
    <2> QED BY <2>1, <2>2 DEF Sound, TypeInv, TypeOK, Views, Version
  <1> QED BY <1>1, InitSound, StepSound, PTL DEF Spec

-----------------------------------------------------------------------------
(* What the tracker is going to hold is a view of the transactions.        *)
LEMMA OutlookType ==
  ASSUME NEW tr \in Balanced, NEW rp \in [answered : BOOLEAN, txs : Seq(Tx)],
         NEW buf \in Seq(WebsocketEvent)
  PROVE  /\ Ahead(tr, rp) \in Views
         /\ tr.queue \in Seq(WebsocketEvent)
         /\ EffectOfAll(Ahead(tr, rp), tr.queue) \in Views
         /\ Outlook(tr, rp, buf) = EffectOfAll(EffectOfAll(Ahead(tr, rp), tr.queue), buf)
         /\ Outlook(tr, rp, buf) \in Views
  <1>1. tr.transactions \in Views /\ tr.queue \in Seq(Event)
    BY DEF Balanced, Trackers, Views, Version
  <1>2. rp.txs \in Seq(Tx)
    OBVIOUS
  <1>3. ApplyReply(tr, rp.txs).transactions \in Views
    BY <1>2, AppliedReply
  <1>4. Ahead(tr, rp) \in Views
    BY <1>1, <1>3 DEF Ahead
  <1>5. Speaks(WebsocketEvent)
    BY MessageType
  <1>6. tr.queue \in Seq(WebsocketEvent)
    BY <1>1, MessageType
  <1>7. EffectOfAll(Ahead(tr, rp), tr.queue) \in Views
    BY <1>4, <1>5, <1>6, EffectOfAllType
  <1>8. Outlook(tr, rp, buf) = EffectOfAll(EffectOfAll(Ahead(tr, rp), tr.queue), buf)
    BY <1>4, <1>5, <1>6, EffectOfBoth DEF Outlook
  <1>9. Outlook(tr, rp, buf) \in Views
    BY <1>5, <1>7, <1>8, EffectOfAllType
  <1> QED BY <1>4, <1>6, <1>7, <1>8, <1>9

(* One message more, or the first message handled.                         *)
LEMMA OutlookOfMore ==
  ASSUME NEW tr \in Balanced, NEW rp \in [answered : BOOLEAN, txs : Seq(Tx)],
         NEW buf \in Seq(WebsocketEvent), NEW m \in WebsocketEvent
  PROVE  \A t \in Txids : Outlook(tr, rp, Append(buf, m))[t]
            = IF About(m, t) THEN Outcome(m) ELSE Outlook(tr, rp, buf)[t]
  <1> DEFINE view == EffectOfAll(Ahead(tr, rp), tr.queue)
             more == Append(buf, m)
  <1>1. /\ view \in Views
        /\ Outlook(tr, rp, buf) = EffectOfAll(view, buf)
        /\ Outlook(tr, rp, buf) \in Views
    BY OutlookType
  <1>2. more \in Seq(WebsocketEvent)
    OBVIOUS
  <1> HIDE DEF more, view
  <1>3. Outlook(tr, rp, more) = EffectOfAll(view, more)
    BY <1>2, OutlookType DEF view
  <1>4. EffectOfAll(view, more) = Effect(EffectOfAll(view, buf), m)
    BY <1>1, MessageType, EffectOfMore DEF more
  <1>5. Outlook(tr, rp, more) = Effect(Outlook(tr, rp, buf), m)
    BY <1>1, <1>3, <1>4
  <1>6. \A t \in Txids : Outlook(tr, rp, more)[t]
            = IF About(m, t) THEN Outcome(m) ELSE Outlook(tr, rp, buf)[t]
    <2> DEFINE before == Outlook(tr, rp, buf)
    <2>1. before \in Views
      BY <1>1
    <2> HIDE DEF before
    <2>2. \A t \in Txids : Effect(before, m)[t] = IF About(m, t) THEN Outcome(m) ELSE before[t]
      BY <2>1, MessageType, MessageEffect
    <2> QED BY <1>5, <2>2 DEF before
  <1> QED BY <1>6 DEF more

LEMMA OutlookOfFirst ==
  ASSUME NEW tr \in Balanced, NEW rp \in [answered : BOOLEAN, txs : Seq(Tx)],
         NEW buf \in Seq(WebsocketEvent), buf # <<>>
  PROVE  LET view == EffectOfAll(Ahead(tr, rp), tr.queue)
         IN Outlook(tr, rp, buf) = EffectOfAll(Effect(view, Head(buf)), Tail(buf))
  <1> DEFINE view == EffectOfAll(Ahead(tr, rp), tr.queue)
  <1>1. /\ view \in Views
        /\ Outlook(tr, rp, buf) = EffectOfAll(view, buf)
    BY OutlookType
  <1> HIDE DEF view
  <1>2. EffectOfAll(view, buf) = EffectOfAll(Effect(view, Head(buf)), Tail(buf))
    BY <1>1, MessageType, EffectOfFirst
  <1> QED BY <1>1, <1>2 DEF view

-----------------------------------------------------------------------------
(* What a step does to the upshot.                                         *)
LEMMA UpshotType ==
  ASSUME TypeInv
  PROVE  /\ tracker \in Balanced /\ tracker.transactions \in Views
         /\ reply \in [answered : BOOLEAN, txs : Seq(Tx)]
         /\ inbox.buf \in Seq(WebsocketEvent)
         /\ Ahead(tracker, reply) \in Views /\ Upshot \in Views
  <1>1. /\ tracker \in Balanced /\ reply \in [answered : BOOLEAN, txs : Seq(Tx)]
        /\ inbox.buf \in Seq(WebsocketEvent)
    BY DEF TypeInv, Receivers
  <1>2. tracker.transactions \in Views
    BY <1>1 DEF Balanced, Trackers, Views, Version
  <1>3. Ahead(tracker, reply) \in Views /\ Upshot \in Views
    BY <1>1, OutlookType DEF Upshot
  <1> QED BY <1>1, <1>2, <1>3

(* A step that leaves the tracker's transactions, what waits, and the      *)
(* answer, or has none.                                                    *)
LEMMA UpshotIdle ==
  ASSUME tracker'.transactions = tracker.transactions,
         tracker'.queue = tracker.queue, inbox'.buf = inbox.buf,
         \/ tracker' = tracker /\ reply' = reply
         \/ ~reply.answered /\ ~reply'.answered
  PROVE  Ahead(tracker', reply') = Ahead(tracker, reply) /\ Upshot' = Upshot
  <1>1. Ahead(tracker', reply') = Ahead(tracker, reply)
    BY DEF Ahead
  <1> QED BY <1>1 DEF Upshot, Outlook

(* A message reaches the inbox.                                            *)
LEMMA UpshotOfMore ==
  ASSUME TypeInv, TypeInv', NEW m \in WebsocketEvent,
         tracker' = tracker, reply' = reply, inbox'.buf = Append(inbox.buf, m)
  PROVE  /\ m \in Event => Upshot' = [Upshot EXCEPT ![m.tx.txid] = Outcome(m)]
         /\ m.kind \notin AddressKinds => Upshot' = Upshot
  <1>1. /\ Upshot \in Views /\ Upshot' \in Views
        /\ tracker \in Balanced /\ reply \in [answered : BOOLEAN, txs : Seq(Tx)]
        /\ inbox.buf \in Seq(WebsocketEvent)
    <2>1. Upshot' \in Views
      BY UpshotType, OutlookType DEF Upshot, TypeInv, Receivers
    <2> QED BY <2>1, UpshotType
  <1>2. \A t \in Txids : Upshot'[t] = IF About(m, t) THEN Outcome(m) ELSE Upshot[t]
    <2>1. \A t \in Txids : Outlook(tracker, reply, Append(inbox.buf, m))[t]
             = IF About(m, t) THEN Outcome(m) ELSE Outlook(tracker, reply, inbox.buf)[t]
      BY <1>1, OutlookOfMore
    <2> QED BY <2>1 DEF Upshot
  <1>3. ASSUME m \in Event PROVE Upshot' = [Upshot EXCEPT ![m.tx.txid] = Outcome(m)]
    <2>1. \A t \in Txids : About(m, t) <=> t = m.tx.txid
      BY <1>3, MessageType DEF About
    <2> QED BY <1>1, <1>2, <2>1 DEF Views
  <1>4. ASSUME m.kind \notin AddressKinds PROVE Upshot' = Upshot
    <2>1. \A t \in Txids : ~About(m, t)
      BY <1>4 DEF About
    <2> QED BY <1>1, <1>2, <2>1 DEF Views
  <1> QED BY <1>3, <1>4

(* The event loop takes a message that is about no address.                *)
LEMMA UpshotDropped ==
  ASSUME TypeInv, HasMessage(inbox), inbox' = Received(inbox),
         Head(inbox.buf).kind \notin AddressKinds,
         tracker' = tracker, reply' = reply
  PROVE  Upshot' = Upshot
  <1> DEFINE view == EffectOfAll(Ahead(tracker, reply), tracker.queue)
             rest == Tail(inbox.buf)
  <1>1. /\ tracker \in Balanced /\ reply \in [answered : BOOLEAN, txs : Seq(Tx)]
        /\ inbox.buf \in Seq(WebsocketEvent) /\ inbox.buf # <<>>
        /\ inbox'.buf = rest /\ rest \in Seq(WebsocketEvent)
    <2>1. inbox.buf # <<>> /\ inbox'.buf = rest /\ inbox.buf \in Seq(WebsocketEvent)
      BY ReceiveType, UpshotType
    <2>2. rest \in Seq(WebsocketEvent)
      BY <2>1
    <2> QED BY <2>1, <2>2, UpshotType
  <1>2. Upshot = EffectOfAll(Effect(view, Head(inbox.buf)), rest)
    BY <1>1, OutlookOfFirst DEF Upshot
  <1>3. Effect(view, Head(inbox.buf)) = view
    BY DEF Effect
  <1> HIDE DEF rest
  <1>4. Outlook(tracker, reply, rest) = EffectOfAll(view, rest)
    BY <1>1, OutlookType
  <1> QED BY <1>1, <1>2, <1>3, <1>4 DEF Upshot

(* An event of the address is handled: it waits for the history, or takes  *)
(* effect, or is dropped because the address is not watched yet.           *)
LEMMA UpshotHandled ==
  ASSUME Sound, Sound', HandleAddressEvent
  PROVE  /\ watched => Upshot' = Upshot
         /\ ~watched => Upshot' \in {Upshot, [Upshot EXCEPT ![Head(inbox.buf).tx.txid] = Absent]}
  <1> DEFINE e == Head(inbox.buf)
             rest == Tail(inbox.buf)
             view == EffectOfAll(Ahead(tracker, reply), tracker.queue)
  <1>1. /\ reply' = reply /\ HasMessage(inbox) /\ inbox' = Received(inbox)
        /\ e.kind \in AddressKinds /\ TypeInv /\ TypeInv'
    BY DEF HandleAddressEvent, NextIs, Sound
  <1>2. /\ tracker \in Balanced /\ reply \in [answered : BOOLEAN, txs : Seq(Tx)]
        /\ tracker' \in Balanced /\ tracker.transactions \in Views
        /\ inbox.buf \in Seq(WebsocketEvent) /\ inbox.buf # <<>>
        /\ inbox'.buf = rest /\ rest \in Seq(WebsocketEvent)
        /\ e \in WebsocketEvent /\ e \in Event /\ e.tx.txid \in Txids
    <2>1. e \in WebsocketEvent /\ inbox.buf # <<>> /\ inbox'.buf = rest
      BY <1>1, ReceiveType
    <2>2. e \in Event /\ e.tx.txid \in Txids
      BY <1>1, <2>1, MessageType, EventType
    <2>3. inbox.buf \in Seq(WebsocketEvent)
      BY <1>1, UpshotType
    <2>4. rest \in Seq(WebsocketEvent)
      BY <2>1, <2>3
    <2>5. tracker' \in Balanced
      BY <1>1 DEF TypeInv
    <2> QED BY <1>1, <2>1, <2>2, <2>3, <2>4, <2>5, UpshotType
  <1>3. ~reply.answered
    BY DEF HandleAddressEvent, Sound, LockInv
  <1>4. /\ view \in Views
        /\ Upshot = EffectOfAll(Effect(view, e), rest)
    BY <1>2, OutlookType, OutlookOfFirst DEF Upshot
  <1>5. Ahead(tracker, reply) = tracker.transactions
        /\ Ahead(tracker', reply') = tracker'.transactions
    BY <1>1, <1>3 DEF Ahead
  <1>6. Upshot' = EffectOfAll(EffectOfAll(tracker'.transactions, tracker'.queue), rest)
    <2>1. Outlook(tracker', reply, rest)
             = EffectOfAll(EffectOfAll(Ahead(tracker', reply), tracker'.queue), rest)
      BY <1>2, OutlookType
    <2> QED BY <1>1, <1>2, <1>5, <2>1 DEF Upshot
  <1> HIDE DEF rest, view
  <1>7. CASE watched /\ tracker.loading
    <2>1. /\ tracker'.transactions = tracker.transactions
          /\ tracker'.queue = Append(tracker.queue, e)
      BY <1>2, <1>7, HandledEvent DEF HandleAddressEvent
    <2> HIDE DEF e
    <2>2. EffectOfAll(tracker'.transactions, tracker'.queue) = Effect(view, e)
      <3>1. tracker.queue \in Seq(WebsocketEvent)
        BY <1>2, OutlookType
      <3> QED BY <1>2, <1>5, <2>1, <3>1, MessageType, EffectOfMore DEF view
    <2> QED BY <1>4, <1>6, <1>7, <2>2
  <1>8. CASE watched /\ ~tracker.loading
    <2>1. /\ tracker'.queue = tracker.queue /\ tracker.queue = <<>>
          /\ tracker'.transactions = Effect(tracker.transactions, e)
      BY <1>2, <1>8, HandledEvent DEF HandleAddressEvent, Sound, LockInv
    <2> HIDE DEF e
    <2>2. Effect(tracker.transactions, e) \in Views
      BY <1>2, MessageType, MessageEffect
    <2>3. view = tracker.transactions
      BY <1>2, <1>5, <2>1, EffectOfNone DEF view
    <2>4. EffectOfAll(tracker'.transactions, tracker'.queue) = tracker'.transactions
      BY <2>1, <2>2, EffectOfNone
    <2> QED BY <1>4, <1>6, <1>8, <2>1, <2>3, <2>4
  <1>9. CASE ~watched
    <2>1. /\ tracker' = tracker /\ tracker.queue = <<>>
          /\ tracker.transactions = [t \in Txids |-> Absent]
      BY <1>9 DEF HandleAddressEvent, Sound, LockInv, NewTracker
    <2> HIDE DEF e
    <2>2. /\ view = tracker.transactions
          /\ EffectOfAll(tracker'.transactions, tracker'.queue) = tracker.transactions
      BY <1>2, <1>5, <2>1, EffectOfNone DEF view
    <2>3. Upshot' = EffectOfAll(view, rest)
      BY <1>6, <2>2
    <2>4. /\ Effect(view, e) \in Views
          /\ \A t \in Txids : Effect(view, e)[t]
                = IF About(e, t) THEN Outcome(e) ELSE view[t]
      BY <1>2, <1>4, MessageType, MessageEffect
    <2>5. /\ Upshot \in Views /\ Upshot' \in Views
      BY <1>1, <1>2, <1>4, <2>3, MessageType, EffectOfAllType, UpshotType
    <2>6. ASSUME NEW t \in Txids
          PROVE  /\ t # e.tx.txid => Upshot'[t] = Upshot[t]
                 /\ Upshot'[t] \in {Upshot[t], Absent}
      <3>1. CASE \E i \in 1..Len(rest) : About(rest[i], t)
        BY <1>2, <1>4, <2>3, <2>4, <3>1, MessageType, EffectForgets
      <3>2. CASE \A i \in 1..Len(rest) : ~About(rest[i], t)
        <4>1. /\ EffectOfAll(view, rest)[t] = view[t]
              /\ EffectOfAll(Effect(view, e), rest)[t] = Effect(view, e)[t]
          BY <1>2, <1>4, <2>4, <3>2, MessageType, EffectElsewhere
        <4>2. t # e.tx.txid => ~About(e, t)
          BY DEF About
        <4>3. view[t] = Absent
          BY <2>1, <2>2
        <4> QED BY <1>4, <2>3, <2>4, <4>1, <4>2, <4>3
      <3> QED BY <3>1, <3>2
    <2>7. Upshot' \in {Upshot, [Upshot EXCEPT ![e.tx.txid] = Absent]}
      <3>1. CASE Upshot'[e.tx.txid] = Upshot[e.tx.txid]
        <4>1. Upshot' = Upshot
          BY <1>2, <2>5, <2>6, <3>1 DEF Views
        <4> QED BY <4>1
      <3>2. CASE Upshot'[e.tx.txid] = Absent
        <4>1. Upshot' = [Upshot EXCEPT ![e.tx.txid] = Absent]
          BY <1>2, <2>5, <2>6, <3>2 DEF Views
        <4> QED BY <4>1
      <3> QED BY <1>2, <2>6, <3>1, <3>2
    <2> QED BY <1>9, <2>7 DEF e
  <1> QED BY <1>7, <1>8, <1>9

(* The end of a sync: what was ahead is what the tracker holds.            *)
LEMMA UpshotSynced ==
  ASSUME Sound, Sound', SyncEnd
  PROVE  /\ tracker'.transactions = EffectOfAll(Ahead(tracker, reply), tracker.queue)
         /\ tracker'.queue = <<>> /\ ~reply'.answered /\ reply'.txs = <<>>
         /\ Upshot' = Upshot
  <1> DEFINE view == EffectOfAll(Ahead(tracker, reply), tracker.queue)
  <1>1. /\ inbox' = inbox /\ Syncing /\ reply.answered
        /\ tracker' = SyncedTracker(tracker, reply.txs)
        /\ reply' = NoReply
    BY DEF SyncEnd, SyncEnds, SyncedTracker
  <1>2. /\ tracker \in Balanced /\ tracker.loading /\ reply.txs \in Seq(Tx)
        /\ reply \in [answered : BOOLEAN, txs : Seq(Tx)]
        /\ inbox.buf \in Seq(WebsocketEvent)
    BY <1>1 DEF Sound, LockInv, TypeInv, Receivers
  <1>3. Ahead(tracker, reply) = ApplyReply(tracker, reply.txs).transactions
    BY <1>1 DEF Ahead
  <1>4. tracker'.transactions = view /\ tracker'.queue = <<>>
    BY <1>1, <1>2, <1>3, FinishedSync
  <1>5. Upshot = EffectOfAll(view, inbox.buf)
    BY <1>2, OutlookType DEF Upshot
  <1>6. ~reply'.answered /\ reply'.txs = <<>>
    BY <1>1 DEF NoReply
  <1>7. Upshot' = Upshot
    <2>1. Ahead(tracker', reply') = view
      BY <1>4, <1>6 DEF Ahead
    <2>2. <<>> \o inbox.buf = inbox.buf
      BY <1>2
    <2> HIDE DEF view
    <2> QED BY <1>1, <1>4, <1>5, <2>1, <2>2 DEF Upshot, Outlook
  <1> QED BY <1>4, <1>6, <1>7

-----------------------------------------------------------------------------
(* Nothing is missed.                                                      *)

(* The event loop applies the next event on top of the history, now or as  *)
(* soon as the running sync, which has its answer, lets go of the tracker. *)
Settled == \/ ~tracker.loading /\ loop = "receive"
           \/ reply.answered /\ loop # "initialising"

NoConnected(buf, n) == \A i \in 1..n : buf[i] # ConnectedEvent

(* Everything that is going to take effect before the next fetch is at     *)
(* height h or below: that fetch, which is limited by the newest confirmed *)
(* transaction of the tracker, is deep enough to return what is at h.      *)
AtMost(h, view, tr, rp, buf, settled) ==
    /\ \A t \in Txids : view[t] <= h
    /\ rp.answered => \A i \in 1..Len(tr.queue) : tr.queue[i].tx.height <= h
    /\ settled => \A i \in 1..Len(buf) :
                      buf[i].kind \in AddressKinds /\ NoConnected(buf, i)
                        => buf[i].tx.height <= h

Reaches(h) == AtMost(h, Ahead(tracker, reply), tracker, reply, inbox.buf, Settled)

(* A transaction is as the server has it, or the next fetch will mend it:  *)
(* the removal pass will drop it if it is still unconfirmed, and the fetch *)
(* will return it if the server has it confirmed.                          *)
Mendable(t) ==
    \/ Upshot[t] = server[t]
    \/ /\ ~(Upshot[t] > Unconfirmed)
       /\ server[t] > Unconfirmed => Reaches(server[t])

AllMendable == \A t \in Txids \ unsure : Mendable(t)

(* Without a fetch ahead everything is as the server has it.               *)
Current ==
    link = "up" /\ NoConnected(inbox.buf, Len(inbox.buf)) /\ Settled =>
        \/ unsure = Txids
        \/ snapshot /\ \A t \in Txids \ unsure : Upshot[t] = server[t]

(* Nothing is known to be above the best block.                            *)
Depth ==
    /\ \A t \in Txids : server[t] <= tip /\ tracker.transactions[t] <= tip
    /\ \A i \in 1..Len(reply.txs) : reply.txs[i].height <= tip
    /\ \A i \in 1..Len(tracker.queue) : tracker.queue[i].tx.height <= tip
    /\ \A i \in 1..Len(inbox.buf) :
          inbox.buf[i].kind \in AddressKinds => inbox.buf[i].tx.height <= tip

CaughtUp == AllMendable /\ Current /\ Depth

LEMMA InitCaughtUp == Init => CaughtUp
  <1> SUFFICES ASSUME Init PROVE CaughtUp
    OBVIOUS
  <1>1. Sound
    BY InitSound
  <1>2. /\ tracker.transactions = [t \in Txids |-> Absent] /\ tracker.queue = <<>>
        /\ inbox.buf = <<>> /\ ~reply.answered /\ reply.txs = <<>>
        /\ server = [t \in Txids |-> Absent] /\ tip = 0 /\ link = "down"
    BY DEF Init, NewTracker, Subscribed, NoReply
  <1>3. tracker.queue \o inbox.buf = <<>>
    BY <1>2
  <1>4. tracker.transactions \in Views
    BY <1>1 DEF Sound, TypeInv, Balanced, Trackers, Views, Version
  <1>5. Upshot = tracker.transactions
    BY <1>2, <1>3, <1>4, EffectOfNone DEF Upshot, Outlook, Ahead
  <1>6. AllMendable
    BY <1>2, <1>5 DEF AllMendable, Mendable
  <1>7. Current
    BY <1>2 DEF Current
  <1>8. Depth
    BY <1>2 DEF Depth, Absent
  <1> QED BY <1>6, <1>7, <1>8 DEF CaughtUp

(* A step that changes neither what the server has nor what is going to be *)
(* keeps what the invariant says, as long as it settles nothing.           *)
LEMMA CaughtUpKept ==
  ASSUME CaughtUp, server' = server, unsure' = unsure,
         \A t \in Txids : Upshot'[t] = Upshot[t],
         \A h \in Int : h > Unconfirmed /\ Reaches(h) => Reaches(h)',
         \A t \in Txids : server[t] \in Int,
         (link = "up")' /\ NoConnected(inbox.buf, Len(inbox.buf))' /\ Settled'
            => /\ link = "up" /\ NoConnected(inbox.buf, Len(inbox.buf)) /\ Settled
               /\ snapshot' = snapshot,
         Depth'
  PROVE  CaughtUp'
  <1>1. AllMendable'
    <2> SUFFICES ASSUME NEW t \in Txids \ unsure PROVE Mendable(t)'
      BY DEF AllMendable
    <2>1. Mendable(t)
      BY DEF CaughtUp, AllMendable
    <2>2. server[t] \in Int /\ Upshot'[t] = Upshot[t]
      OBVIOUS
    <2>3. server[t] > Unconfirmed /\ Reaches(server[t]) => Reaches(server[t])'
      <3> DEFINE h == server[t]
      <3>1. h \in Int /\ h > Unconfirmed /\ AtMost(h, Ahead(tracker, reply), tracker, reply, inbox.buf, Settled)
              => AtMost(h, Ahead(tracker, reply), tracker, reply, inbox.buf, Settled)'
        BY DEF Reaches
      <3> QED BY <2>2, <3>1 DEF Reaches
    <2> QED BY <2>1, <2>2, <2>3 DEF Mendable
  <1>2. Current'
    BY DEF CaughtUp, Current
  <1> QED BY <1>1, <1>2 DEF CaughtUp

(* A step that leaves the tracker's transactions, what waits, and the      *)
(* answer.                                                                 *)
LEMMA CaughtUpIdle ==
  ASSUME Sound, CaughtUp, server' = server, unsure' = unsure, tip' = tip,
         tracker'.transactions = tracker.transactions,
         tracker'.queue = tracker.queue,
         inbox'.buf = inbox.buf,
         \/ tracker' = tracker /\ reply' = reply
         \/ ~reply.answered /\ ~reply'.answered /\ reply'.txs \in {reply.txs, <<>>},
         Settled' => Settled,
         link' = "up" => link = "up",
         snapshot' = snapshot
  PROVE  CaughtUp'
  <1>1. Ahead(tracker', reply') = Ahead(tracker, reply) /\ Upshot' = Upshot
    BY UpshotIdle
  <1>2. \A h \in Int : h > Unconfirmed /\ Reaches(h) => Reaches(h)'
    BY <1>1 DEF Reaches, AtMost
  <1>3. \A t \in Txids : server[t] \in Int
    BY VersionOrder DEF Sound, TypeInv, Views
  <1>4. Depth'
    BY DEF CaughtUp, Depth
  <1> QED BY <1>1, <1>2, <1>3, <1>4, CaughtUpKept

(* What the inbox holds after a message reached it was there, or is it.    *)
LEMMA EnqueueFrom ==
  ASSUME TypeInv, NEW m \in WebsocketEvent, Enqueue(m)
  PROVE  \A i \in 1..Len(inbox'.buf) :
            \/ inbox'.buf[i] = m
            \/ \E j \in 1..Len(inbox.buf) : inbox'.buf[i] = inbox.buf[j]
  <1>1. /\ inbox.buf \in Seq(WebsocketEvent) /\ Len(inbox.buf) \in Nat
        /\ Len(inbox.buf) <= InboxCap /\ InboxCap \in Nat \ {0}
    BY AddressSyncAssumption DEF TypeInv, Receivers
  <1>2. CASE Len(inbox.buf) < InboxCap
    <2>1. inbox' = [inbox EXCEPT !.buf = Append(@, m)]
      BY <1>1, <1>2 DEF Enqueue, Deliver
    <2>2. inbox'.buf = Append(inbox.buf, m)
      BY <2>1 DEF TypeInv, Receivers
    <2> QED BY <1>1, <2>2
  <1>3. CASE ~(Len(inbox.buf) < InboxCap)
    <2> DEFINE rest == Tail(inbox.buf)
    <2>1. inbox'.buf = Append(rest, m)
      BY <1>1, <1>3 DEF Enqueue, Deliver
    <2>2. /\ rest \in Seq(WebsocketEvent) /\ Len(rest) = Len(inbox.buf) - 1
          /\ \A i \in 1..Len(rest) : rest[i] = inbox.buf[i + 1] /\ i + 1 \in 1..Len(inbox.buf)
      BY <1>1, <1>3
    <2> HIDE DEF rest
    <2> QED BY <2>1, <2>2
  <1> QED BY <1>2, <1>3

(* What is not above the best block is not above a later one.              *)
LEMMA DepthUpTo ==
  ASSUME TypeInv, Depth, NEW n \in Int, tip <= n
  PROVE  /\ \A t \in Txids : server[t] <= n /\ tracker.transactions[t] <= n
         /\ \A i \in 1..Len(reply.txs) : reply.txs[i].height <= n
         /\ \A i \in 1..Len(tracker.queue) : tracker.queue[i].tx.height <= n
         /\ \A i \in 1..Len(inbox.buf) :
               inbox.buf[i].kind \in AddressKinds => inbox.buf[i].tx.height <= n
  <1>1. tip \in Int
    BY DEF TypeInv
  <1>2. \A h \in Int : h <= tip => h <= n
    BY <1>1
  <1>3. \A t \in Txids : server[t] \in Int /\ tracker.transactions[t] \in Int
    BY VersionOrder DEF TypeInv, Balanced, Trackers, Views, Version
  <1>4. \A i \in 1..Len(reply.txs) : reply.txs[i].height \in Int
    <2>1. \A i \in 1..Len(reply.txs) : reply.txs[i] \in Tx
      BY DEF TypeInv
    <2> QED BY <2>1, HeightIsNumber
  <1>5. \A i \in 1..Len(tracker.queue) : tracker.queue[i].tx.height \in Int
    <2>1. \A i \in 1..Len(tracker.queue) : tracker.queue[i] \in Event
      BY DEF TypeInv, Balanced, Trackers
    <2> QED BY <2>1, HeightIsNumber
  <1>6. \A i \in 1..Len(inbox.buf) :
           inbox.buf[i].kind \in AddressKinds => inbox.buf[i].tx.height \in Int
    <2>1. \A i \in 1..Len(inbox.buf) : inbox.buf[i] \in WebsocketEvent
      BY DEF TypeInv, Receivers
    <2> QED BY <2>1, MessageType, HeightIsNumber DEF Speaks
  <1> QED BY <1>2, <1>3, <1>4, <1>5, <1>6 DEF Depth

LEMMA EnqueueDepth ==
  ASSUME TypeInv, TypeInv', Depth, NEW m \in WebsocketEvent, Enqueue(m),
         UNCHANGED walletVars, tip <= tip',
         \A t \in Txids : server'[t] <= tip',
         m.kind \in AddressKinds => m.tx.height <= tip'
  PROVE  Depth'
  <1>1. tip' \in Int /\ tracker' = tracker /\ reply' = reply
    BY DEF TypeInv, walletVars
  <1>2. ASSUME NEW i \in 1..Len(inbox'.buf), inbox'.buf[i].kind \in AddressKinds
        PROVE  inbox'.buf[i].tx.height <= tip'
    <2>1. \/ inbox'.buf[i] = m
          \/ \E j \in 1..Len(inbox.buf) : inbox'.buf[i] = inbox.buf[j]
      BY EnqueueFrom
    <2>2. \A j \in 1..Len(inbox.buf) :
             inbox.buf[j].kind \in AddressKinds => inbox.buf[j].tx.height <= tip'
      BY <1>1, DepthUpTo
    <2> QED BY <1>2, <2>1, <2>2
  <1> QED BY <1>1, <1>2, DepthUpTo DEF Depth

(* The inbox overflowed, and the code may miss anything from now on.       *)
LEMMA CaughtUpLost ==
  ASSUME unsure' = Txids, Depth'
  PROVE  CaughtUp'
  BY DEF CaughtUp, AllMendable, Current

(* A connection comes up or goes down.                                     *)
LEMMA CaughtUpNoted ==
  ASSUME Sound, Sound', CaughtUp, NEW m \in {ConnectedEvent, DisconnectedEvent, ErrorEvent},
         Enqueue(m), UNCHANGED <<serverVars, walletVars>>,
         link' = "up" => m = ConnectedEvent
  PROVE  CaughtUp'
  <1>1. /\ m \in WebsocketEvent /\ m.kind \notin AddressKinds
        /\ TypeInv /\ TypeInv' /\ Depth
    <2>1. m \in WebsocketEvent
      BY MessageType
    <2>2. m.kind \notin AddressKinds
      BY MessageType DEF AddressKinds
    <2> QED BY <2>1, <2>2 DEF Sound, CaughtUp
  <1>2. /\ server' = server /\ tip' = tip /\ tracker' = tracker /\ reply' = reply
        /\ loop' = loop /\ UNCHANGED walletVars
    BY DEF serverVars, walletVars
  <1>3. Depth'
    <2>1. tip <= tip' /\ \A t \in Txids : server'[t] <= tip'
      BY <1>1, <1>2 DEF TypeInv, Depth
    <2> QED BY <1>1, <1>2, <2>1, EnqueueDepth
  <1>4. CASE unsure' = Txids
    BY <1>3, <1>4, CaughtUpLost
  <1>5. CASE inbox'.buf = Append(inbox.buf, m) /\ unsure' = unsure
    <2>1. /\ tracker \in Balanced /\ reply \in [answered : BOOLEAN, txs : Seq(Tx)]
          /\ inbox.buf \in Seq(WebsocketEvent) /\ server \in Views
      BY <1>1 DEF TypeInv, Receivers
    <2>2. Upshot' = Upshot
      BY <1>1, <1>2, <1>5, UpshotOfMore
    <2>3. /\ Len(inbox'.buf) = Len(inbox.buf) + 1 /\ Len(inbox.buf) \in Nat
          /\ inbox'.buf[Len(inbox.buf) + 1] = m
          /\ \A i \in 1..Len(inbox.buf) : inbox'.buf[i] = inbox.buf[i]
      BY <1>5, <2>1
    <2>4. Settled' = Settled
      BY <1>2 DEF Settled
    <2>5. ASSUME NEW h \in Int, Reaches(h) PROVE Reaches(h)'
      <3>1. ASSUME Settled, NEW i \in 1..Len(inbox'.buf),
                   inbox'.buf[i].kind \in AddressKinds, NoConnected(inbox'.buf, i)
            PROVE  inbox'.buf[i].tx.height <= h
        <4>1. i # Len(inbox.buf) + 1
          BY <1>1, <2>3, <3>1
        <4>2. i \in 1..Len(inbox.buf) /\ inbox'.buf[i] = inbox.buf[i]
          BY <2>3, <4>1
        <4>3. NoConnected(inbox.buf, i)
          BY <2>3, <3>1, <4>2 DEF NoConnected
        <4> QED BY <2>5, <3>1, <4>2, <4>3 DEF Reaches, AtMost
      <3> QED BY <1>2, <2>4, <2>5, <3>1 DEF Reaches, AtMost
    <2>6. ~((link = "up")' /\ NoConnected(inbox.buf, Len(inbox.buf))')
      BY <2>3 DEF NoConnected
    <2>7. \A t \in Txids : server[t] \in Int
      BY <2>1, VersionOrder DEF Views
    <2> QED BY <1>2, <1>3, <1>5, <2>2, <2>5, <2>6, <2>7, CaughtUpKept
  <1> QED BY <1>1, <1>4, <1>5, EnqueueType

(* The answer of a fetch does not reach above the best block either.       *)
LEMMA AheadDepth ==
  ASSUME Sound, Depth
  PROVE  \A t \in Txids : Ahead(tracker, reply)[t] <= tip
  <1>1. /\ tracker \in Balanced /\ reply.txs \in Seq(Tx) /\ tip \in Nat
        /\ reply \in [answered : BOOLEAN, txs : Seq(Tx)]
        /\ tracker.transactions \in Views
    BY DEF Sound, TypeInv, Balanced, Trackers, Views, Version
  <1>2. CASE ~reply.answered
    BY <1>2 DEF Ahead, Depth
  <1>3. CASE reply.answered
    <2> SUFFICES ASSUME NEW t \in Txids
                 PROVE  ApplyReply(tracker, reply.txs).transactions[t] <= tip
      BY <1>3 DEF Ahead
    <2>1. IF InReply(reply.txs, t)
          THEN \E i \in 1..Len(reply.txs) :
                  /\ reply.txs[i].txid = t
                  /\ ApplyReply(tracker, reply.txs).transactions[t] = reply.txs[i].height
          ELSE ApplyReply(tracker, reply.txs).transactions[t]
                  = IF tracker.transactions[t] = Unconfirmed
                    THEN Absent ELSE tracker.transactions[t]
      BY <1>1, AppliedReply
    <2>2. Absent <= tip
      BY <1>1 DEF Absent
    <2> QED BY <2>1, <2>2 DEF Depth
  <1> QED BY <1>2, <1>3

(* The server's view changes, and nobody hears of it: then nothing is      *)
(* followed, or the transaction becomes unsure.  A transaction that is     *)
(* confirmed by this block lies above all that is known.                   *)
LEMMA CaughtUpUnheard ==
  ASSUME Sound, CaughtUp, NEW t \in Txids, NEW height \in Version,
         NEW e \in Event, Change(t, height, e), ~(tracked /\ link = "up"),
         tip' \in Int, tip <= tip', height <= tip',
         server[t] > Unconfirmed => e.kind = "Removed" /\ Confirmed(e.tx),
         height > Unconfirmed => height = tip'
  PROVE  CaughtUp'
  <1>1. /\ server' = [server EXCEPT ![t] = height] /\ inbox' = inbox
        /\ unsure' = IF \/ e.kind = "Removed" /\ Confirmed(e.tx)
                        \/ link = "up" /\ snapshot
                     THEN unsure \cup {t} ELSE unsure
        /\ link' = link /\ snapshot' = snapshot
        /\ tracker' = tracker /\ loop' = loop /\ reply' = reply
    BY DEF Change, linkVars, walletVars
  <1>2. /\ server \in Views /\ tip \in Nat /\ unsure \subseteq Txids
        /\ Ahead(tracker, reply) \in Views /\ Upshot \in Views
    <2>1. /\ tracker \in Balanced /\ reply \in [answered : BOOLEAN, txs : Seq(Tx)]
          /\ inbox.buf \in Seq(WebsocketEvent)
      BY DEF Sound, TypeInv, Receivers
    <2>2. Ahead(tracker, reply) \in Views /\ Upshot \in Views
      BY <2>1, OutlookType DEF Upshot
    <2> QED BY <2>2 DEF Sound, TypeInv
  <1>3. Upshot' = Upshot /\ Settled' = Settled
    BY <1>1 DEF Upshot, Settled
  <1>4. \A h : Reaches(h)' <=> Reaches(h)
    BY <1>1, <1>3 DEF Reaches
  <1>5. \A u \in Txids \ {t} : server'[u] = server[u]
    BY <1>1, <1>2 DEF Views
  <1>6. server'[t] = height
    BY <1>1, <1>2 DEF Views
  <1>7. Reaches(tip')
    <2>1. \A u \in Txids : Ahead(tracker, reply)[u] <= tip'
      <3> SUFFICES ASSUME NEW u \in Txids PROVE Ahead(tracker, reply)[u] <= tip'
        OBVIOUS
      <3>1. Ahead(tracker, reply)[u] <= tip
        BY AheadDepth DEF CaughtUp
      <3>2. Ahead(tracker, reply)[u] \in Int
        BY <1>2, VersionOrder DEF Views
      <3> QED BY <1>2, <3>1, <3>2
    <2> QED BY <1>2, <2>1, DepthUpTo DEF Reaches, AtMost, Sound, CaughtUp
  <1>8. AllMendable'
    <2> SUFFICES ASSUME NEW u \in Txids \ unsure' PROVE Mendable(u)'
      BY DEF AllMendable
    <2>1. u \in Txids \ unsure /\ Mendable(u)
      BY <1>1 DEF CaughtUp, AllMendable
    <2>2. CASE u # t
      BY <1>3, <1>4, <1>5, <2>1, <2>2 DEF Mendable
    <2>3. CASE u = t
      <3>1. ~(server[t] > Unconfirmed)
        BY <1>1, <2>3
      <3>2. ~(Upshot[t] > Unconfirmed)
        BY <2>1, <2>3, <3>1 DEF Mendable
      <3>3. server'[t] > Unconfirmed => Reaches(server'[t])
        BY <1>6, <1>7
      <3>4. server'[t] > Unconfirmed => Reaches(server[t])'
        BY <1>4, <3>3
      <3> QED BY <1>3, <2>3, <3>2, <3>4 DEF Mendable
    <2> QED BY <2>2, <2>3
  <1>9. Current'
    BY <1>1, <1>2, <1>3, <1>5 DEF CaughtUp, Current
  <1>10. Depth'
    <2>1. TypeInv /\ Depth
      BY DEF Sound, CaughtUp
    <2>2. \A u \in Txids : server'[u] <= tip'
      BY <1>5, <1>6, <2>1, DepthUpTo
    <2> QED BY <1>1, <2>1, <2>2, DepthUpTo DEF Depth
  <1> QED BY <1>8, <1>9, <1>10 DEF CaughtUp

(* The server's view changes, and the event that says so is pushed.        *)
LEMMA CaughtUpHeard ==
  ASSUME Sound, Sound', CaughtUp, NEW t \in Txids, NEW height \in Version,
         NEW e \in Event, Change(t, height, e), tracked /\ link = "up",
         About(e, t), Outcome(e) = height,
         tip <= tip', height <= tip', e.tx.height <= tip'
  PROVE  CaughtUp'
  <1>1. /\ server' = [server EXCEPT ![t] = height] /\ Enqueue(e)
        /\ link' = link /\ snapshot' = snapshot
        /\ tracker' = tracker /\ loop' = loop /\ reply' = reply
        /\ UNCHANGED walletVars
    BY DEF Change, linkVars, walletVars
  <1>2. /\ tracker \in Balanced /\ reply \in [answered : BOOLEAN, txs : Seq(Tx)]
        /\ inbox.buf \in Seq(WebsocketEvent) /\ e \in WebsocketEvent
        /\ server \in Views /\ unsure \subseteq Txids
        /\ TypeInv /\ TypeInv' /\ Depth /\ tip' \in Int
    <2>1. e \in WebsocketEvent
      BY MessageType
    <2> QED BY <2>1 DEF Sound, CaughtUp, TypeInv, Receivers
  <1>3. server'[t] = height /\ \A u \in Txids \ {t} : server'[u] = server[u]
    BY <1>1, <1>2 DEF Views
  <1>4. Depth'
    <2>1. \A u \in Txids : server'[u] <= tip'
      BY <1>2, <1>3, DepthUpTo
    <2> QED BY <1>1, <1>2, <2>1, EnqueueDepth
  <1>5. CASE unsure' = Txids
    BY <1>4, <1>5, CaughtUpLost
  <1>6. CASE inbox'.buf = Append(inbox.buf, e) /\ unsure' = unsure
    <2>1. Upshot'[t] = height /\ \A u \in Txids \ {t} : Upshot'[u] = Upshot[u]
      <3>1. Upshot' = [Upshot EXCEPT ![e.tx.txid] = Outcome(e)]
        BY <1>1, <1>2, <1>6, UpshotOfMore
      <3>2. Upshot \in Views
        BY <1>2, UpshotType
      <3> QED BY <3>1, <3>2 DEF About, Views
    <2>2. /\ Len(inbox'.buf) = Len(inbox.buf) + 1 /\ Len(inbox.buf) \in Nat
          /\ inbox'.buf[Len(inbox.buf) + 1] = e
          /\ \A i \in 1..Len(inbox.buf) : inbox'.buf[i] = inbox.buf[i]
      BY <1>2, <1>6
    <2>3. Settled' = Settled
      BY <1>1 DEF Settled
    <2>4. ASSUME NoConnected(inbox.buf, Len(inbox.buf))', Settled, NEW u \in Txids \ unsure
          PROVE  /\ unsure = Txids \/ snapshot
                 /\ Upshot[u] = server[u]
      <3>1. NoConnected(inbox.buf, Len(inbox.buf))
        BY <2>2, <2>4 DEF NoConnected
      <3> QED BY <2>4, <3>1 DEF CaughtUp, Current
    <2>5. ASSUME NEW u \in Txids \ unsure, u # t, server[u] > Unconfirmed,
                 Upshot[u] # server[u], Reaches(server[u])
          PROVE  Reaches(server[u])'
      <3> DEFINE h == server[u]
      <3>1. h = server'[u]
        BY <1>3, <2>5
      <3>2. AtMost(h, Ahead(tracker, reply), tracker, reply, inbox.buf, Settled)
        BY <2>5 DEF Reaches
      <3> HIDE DEF h
      <3>3. ASSUME Settled, NEW i \in 1..Len(inbox'.buf),
                   inbox'.buf[i].kind \in AddressKinds, NoConnected(inbox'.buf, i)
            PROVE  inbox'.buf[i].tx.height <= h
        <4>1. CASE i = Len(inbox.buf) + 1
          <5>1. NoConnected(inbox.buf, Len(inbox.buf))'
            BY <2>2, <3>3, <4>1
          <5> QED BY <2>4, <2>5, <3>3, <5>1
        <4>2. CASE i # Len(inbox.buf) + 1
          <5>1. i \in 1..Len(inbox.buf) /\ inbox'.buf[i] = inbox.buf[i]
            BY <2>2, <4>2
          <5>2. NoConnected(inbox.buf, i)
            <6> SUFFICES ASSUME NEW j \in 1..i PROVE inbox.buf[j] # ConnectedEvent
              BY DEF NoConnected
            <6>1. j \in 1..Len(inbox.buf)
              BY <2>2, <5>1
            <6>2. inbox'.buf[j] # ConnectedEvent
              BY <3>3 DEF NoConnected
            <6> QED BY <2>2, <6>1, <6>2
          <5> QED BY <3>2, <3>3, <5>1, <5>2 DEF AtMost
        <4> QED BY <4>1, <4>2
      <3>4. AtMost(h, Ahead(tracker, reply), tracker, reply, inbox'.buf, Settled)
        BY <3>2, <3>3 DEF AtMost
      <3> QED BY <1>1, <2>3, <3>1, <3>4 DEF Reaches, h
    <2>6. AllMendable'
      <3> SUFFICES ASSUME NEW u \in Txids \ unsure' PROVE Mendable(u)'
        BY DEF AllMendable
      <3>1. CASE u = t
        BY <1>3, <2>1, <3>1 DEF Mendable
      <3>2. CASE u # t
        <4>1. u \in Txids \ unsure /\ Mendable(u)
          BY <1>6 DEF CaughtUp, AllMendable
        <4> QED BY <1>3, <2>1, <2>5, <3>2, <4>1 DEF Mendable
      <3> QED BY <3>1, <3>2
    <2>7. Current'
      <3> SUFFICES ASSUME NoConnected(inbox.buf, Len(inbox.buf))', Settled', unsure # Txids
                   PROVE  snapshot' /\ \A u \in Txids \ unsure : Upshot'[u] = server'[u]
        BY <1>6 DEF Current
      <3>1. PICK u \in Txids : u \notin unsure
        BY <1>2
      <3>2. snapshot
        BY <2>3, <2>4, <3>1
      <3>3. \A v \in Txids \ unsure : Upshot[v] = server[v]
        BY <2>3, <2>4
      <3> QED BY <1>1, <1>3, <2>1, <3>2, <3>3
    <2> QED BY <1>4, <2>6, <2>7 DEF CaughtUp
  <1> QED BY <1>1, <1>2, <1>5, <1>6, EnqueueType

(* The event loop takes a message from the inbox: what is left of it moves *)
(* up.                                                                     *)
LEMMA ReceiveRest ==
  ASSUME TypeInv, HasMessage(inbox), inbox' = Received(inbox)
  PROVE  /\ inbox.buf[1] = Head(inbox.buf)
         /\ Len(inbox.buf) \in Nat /\ Len(inbox'.buf) = Len(inbox.buf) - 1
         /\ \A i \in 1..Len(inbox'.buf) :
               i + 1 \in 1..Len(inbox.buf) /\ inbox'.buf[i] = inbox.buf[i + 1]
         /\ Head(inbox.buf) # ConnectedEvent =>
               \A i \in 0..Len(inbox'.buf) :
                  NoConnected(inbox'.buf, i) => NoConnected(inbox.buf, i + 1)
  <1> DEFINE buf == inbox.buf
             rest == inbox'.buf
  <1>1. /\ buf \in Seq(WebsocketEvent) /\ buf # <<>> /\ rest = Tail(buf)
    BY ReceiveType DEF TypeInv, Receivers
  <1> HIDE DEF buf, rest
  <1>2. /\ buf[1] = Head(buf)
        /\ Len(buf) \in Nat /\ Len(buf) >= 1 /\ Len(rest) = Len(buf) - 1
        /\ \A i \in 1..Len(rest) : i + 1 \in 1..Len(buf) /\ rest[i] = buf[i + 1]
    BY <1>1
  <1>3. ASSUME Head(buf) # ConnectedEvent, NEW i \in 0..Len(rest), NoConnected(rest, i),
               NEW j \in 1..(i + 1)
        PROVE  buf[j] # ConnectedEvent
    <2>1. CASE j = 1
      BY <1>2, <1>3, <2>1
    <2>2. CASE j # 1
      <3>1. j - 1 \in 1..i /\ j - 1 \in 1..Len(rest) /\ (j - 1) + 1 = j
        BY <1>2, <1>3, <2>2
      <3>2. rest[j - 1] = buf[j]
        BY <1>2, <3>1
      <3> QED BY <1>3, <3>1, <3>2 DEF NoConnected
    <2> QED BY <2>1, <2>2
  <1> QED BY <1>2, <1>3 DEF NoConnected, buf, rest

(* What was to come at h or below still is.                                *)
LEMMA ReachesRest ==
  ASSUME TypeInv, HasMessage(inbox), inbox' = Received(inbox),
         Head(inbox.buf) # ConnectedEvent, NEW h \in Int, Reaches(h), Settled
  PROVE  \A i \in 1..Len(inbox'.buf) :
            inbox'.buf[i].kind \in AddressKinds /\ NoConnected(inbox'.buf, i)
               => inbox'.buf[i].tx.height <= h
  <1> SUFFICES ASSUME NEW i \in 1..Len(inbox'.buf),
                      inbox'.buf[i].kind \in AddressKinds, NoConnected(inbox'.buf, i)
               PROVE  inbox'.buf[i].tx.height <= h
    OBVIOUS
  <1>1. i + 1 \in 1..Len(inbox.buf) /\ inbox'.buf[i] = inbox.buf[i + 1]
    BY ReceiveRest
  <1>2. i \in 0..Len(inbox'.buf)
    OBVIOUS
  <1>3. NoConnected(inbox.buf, i + 1)
    BY <1>2, ReceiveRest
  <1>4. \A j \in 1..Len(inbox.buf) :
           inbox.buf[j].kind \in AddressKinds /\ NoConnected(inbox.buf, j)
             => inbox.buf[j].tx.height <= h
    BY DEF Reaches, AtMost
  <1> QED BY <1>1, <1>3, <1>4

LEMMA ReceiveDepth ==
  ASSUME TypeInv, Depth, HasMessage(inbox), inbox' = Received(inbox)
  PROVE  \A i \in 1..Len(inbox'.buf) :
            inbox'.buf[i].kind \in AddressKinds => inbox'.buf[i].tx.height <= tip
  BY ReceiveRest DEF Depth

(* A message that is about no address.                                     *)
LEMMA CaughtUpDropped ==
  ASSUME Sound, CaughtUp, HasMessage(inbox), inbox' = Received(inbox),
         Head(inbox.buf).kind \notin AddressKinds,
         UNCHANGED <<serverVars, link, snapshot, tracker, reply, unsure>>,
         ~Settled' \/ (Settled /\ Head(inbox.buf) # ConnectedEvent)
  PROVE  CaughtUp'
  <1>1. /\ tracker \in Balanced /\ reply \in [answered : BOOLEAN, txs : Seq(Tx)]
        /\ inbox.buf \in Seq(WebsocketEvent) /\ inbox.buf # <<>>
        /\ inbox'.buf = Tail(inbox.buf) /\ Head(inbox.buf) \in WebsocketEvent
        /\ server \in Views /\ TypeInv /\ Depth
    BY ReceiveType DEF Sound, CaughtUp, TypeInv, Receivers
  <1>2. /\ server' = server /\ tip' = tip /\ tracker' = tracker /\ reply' = reply
        /\ link' = link /\ snapshot' = snapshot /\ unsure' = unsure
    BY DEF serverVars
  <1>3. Upshot' = Upshot
    BY <1>1, <1>2, UpshotDropped
  <1>4. ASSUME NEW h \in Int, Reaches(h) PROVE Reaches(h)'
    <2>1. Settled' => \A i \in 1..Len(inbox'.buf) :
                          inbox'.buf[i].kind \in AddressKinds /\ NoConnected(inbox'.buf, i)
                            => inbox'.buf[i].tx.height <= h
      BY <1>1, <1>4, ReachesRest
    <2> QED BY <1>2, <1>4, <2>1 DEF Reaches, AtMost
  <1>5. NoConnected(inbox.buf, Len(inbox.buf))' /\ Settled'
            => NoConnected(inbox.buf, Len(inbox.buf)) /\ Settled
    <2>1. /\ Len(inbox'.buf) \in 0..Len(inbox'.buf) /\ Len(inbox'.buf) + 1 = Len(inbox.buf)
      BY <1>1, ReceiveRest
    <2> QED BY <1>1, <2>1, ReceiveRest
  <1>6. Depth'
    BY <1>1, <1>2, ReceiveDepth DEF Depth
  <1>7. \A t \in Txids : server[t] \in Int
    BY <1>1, VersionOrder DEF Views
  <1> QED BY <1>2, <1>3, <1>4, <1>5, <1>6, <1>7, CaughtUpKept

(* An event of the address is handled: it waits for the history, takes     *)
(* effect, or is dropped because the address is not watched yet.           *)
LEMMA CaughtUpHandled ==
  ASSUME Sound, Sound', CaughtUp, HandleAddressEvent
  PROVE  CaughtUp'
  <1> DEFINE e == Head(inbox.buf)
             rest == Tail(inbox.buf)
  <1>1. /\ server' = server /\ tip' = tip /\ link' = link /\ snapshot' = snapshot
        /\ unsure' = unsure /\ loop' = loop /\ reply' = reply /\ loop = "receive"
        /\ HasMessage(inbox) /\ inbox' = Received(inbox) /\ e.kind \in AddressKinds
    BY DEF HandleAddressEvent, NextIs, serverVars, linkVars
  <1>2. /\ tracker \in Balanced /\ reply \in [answered : BOOLEAN, txs : Seq(Tx)]
        /\ tracker' \in Balanced /\ tracker.transactions \in Views
        /\ inbox.buf \in Seq(WebsocketEvent) /\ inbox.buf # <<>>
        /\ inbox'.buf = rest /\ rest \in Seq(WebsocketEvent)
        /\ e \in WebsocketEvent /\ e \in Event
        /\ server \in Views /\ TypeInv /\ Depth
    <2>1. e \in WebsocketEvent /\ inbox.buf # <<>> /\ inbox'.buf = rest
      BY <1>1, ReceiveType DEF Sound
    <2>2. e \in Event
      BY <1>1, <2>1, MessageType
    <2>3. inbox.buf \in Seq(WebsocketEvent)
      BY DEF Sound, TypeInv, Receivers
    <2>4. rest \in Seq(WebsocketEvent)
      BY <2>1, <2>3
    <2>5. tracker.transactions \in Views
      BY DEF Sound, TypeInv, Balanced, Trackers, Views, Version
    <2> QED BY <2>1, <2>2, <2>3, <2>4, <2>5 DEF Sound, CaughtUp, TypeInv
  <1>3. e # ConnectedEvent /\ e.tx.height \in Int /\ e.tx.height <= tip
        /\ e.tx.txid \in Txids /\ 1 \in 1..Len(inbox.buf) /\ inbox.buf[1] = e
        /\ NoConnected(inbox.buf, 1)
    <2>1. e # ConnectedEvent
      BY <1>1, MessageType DEF AddressKinds
    <2>2. 1 \in 1..Len(inbox.buf) /\ inbox.buf[1] = e
      BY <1>2
    <2>3. NoConnected(inbox.buf, 1)
      BY <2>1, <2>2 DEF NoConnected
    <2>4. e.tx.height \in Int /\ e.tx.txid \in Txids
      BY <1>2, HeightIsNumber, EventType
    <2>5. e.tx.height <= tip
      BY <1>1, <1>2, <2>2 DEF Depth
    <2> QED BY <2>1, <2>2, <2>3, <2>4, <2>5
  <1>4. \A t \in Txids : server[t] \in Int
    BY <1>2, VersionOrder DEF Views
  <1>5. \A i \in 1..Len(inbox'.buf) :
           inbox'.buf[i].kind \in AddressKinds => inbox'.buf[i].tx.height <= tip
    BY <1>1, <1>2, ReceiveDepth
  <1>6. ~reply.answered
    BY <1>1 DEF HandleAddressEvent, Sound, LockInv
  <1>7. Ahead(tracker, reply) = tracker.transactions
        /\ Ahead(tracker', reply') = tracker'.transactions
    BY <1>1, <1>6 DEF Ahead
  <1> HIDE DEF e, rest
  <1>8. CASE watched /\ tracker.loading
    <2>1. /\ tracker'.loading /\ tracker'.transactions = tracker.transactions
          /\ tracker'.queue = Append(tracker.queue, e)
      BY <1>2, <1>8, HandledEvent DEF HandleAddressEvent, e
    <2>2. ~Settled'
      BY <1>1, <1>6, <2>1 DEF Settled
    <2>3. Upshot' = Upshot
      BY <1>8, UpshotHandled
    <2>4. \A h \in Int : Reaches(h) => Reaches(h)'
      BY <1>1, <1>6, <1>7, <2>1, <2>2 DEF Reaches, AtMost
    <2>5. \A i \in 1..Len(tracker'.queue) : tracker'.queue[i].tx.height <= tip
      <3>1. tracker.queue \in Seq(Event)
        BY <1>2 DEF Balanced, Trackers
      <3>2. \A i \in 1..Len(tracker'.queue) :
               tracker'.queue[i] = e \/ (i \in 1..Len(tracker.queue)
                                         /\ tracker'.queue[i] = tracker.queue[i])
        BY <1>2, <2>1, <3>1
      <3> QED BY <1>2, <1>3, <3>2 DEF Depth
    <2>6. Depth'
      BY <1>1, <1>2, <1>5, <2>1, <2>5 DEF Depth
    <2> QED BY <1>1, <1>4, <2>2, <2>3, <2>4, <2>6, CaughtUpKept
  <1>9. CASE watched /\ ~tracker.loading
    <2>1. /\ ~tracker'.loading /\ tracker'.queue = tracker.queue /\ tracker.queue = <<>>
          /\ tracker'.transactions = Effect(tracker.transactions, e)
      BY <1>2, <1>9, HandledEvent DEF HandleAddressEvent, e, Sound, LockInv
    <2>2. Settled /\ Settled'
      BY <1>1, <1>9, <2>1 DEF Settled
    <2>3. tracker'.transactions \in Views
          /\ \A t \in Txids : tracker'.transactions[t]
                = IF About(e, t) THEN Outcome(e) ELSE tracker.transactions[t]
      <3>1. /\ Effect(tracker.transactions, e) \in Views
            /\ \A t \in Txids : Effect(tracker.transactions, e)[t]
                  = IF About(e, t) THEN Outcome(e) ELSE tracker.transactions[t]
        <4> DEFINE held == tracker.transactions
        <4>1. Speaks(WebsocketEvent) /\ e \in WebsocketEvent /\ held \in Views
          BY <1>2, MessageType
        <4> HIDE DEF held
        <4>2. /\ Effect(held, e) \in Views
              /\ \A t \in Txids : Effect(held, e)[t]
                    = IF About(e, t) THEN Outcome(e) ELSE held[t]
          BY <4>1, MessageEffect
        <4> QED BY <4>2 DEF held
      <3> QED BY <2>1, <3>1
    <2>4. Upshot' = Upshot
      BY <1>9, UpshotHandled
    <2>5. ASSUME NEW h \in Int, h > Unconfirmed, Reaches(h) PROVE Reaches(h)'
      <3>1. /\ e.tx.height <= h
            /\ \A t \in Txids : tracker.transactions[t] <= h
        BY <1>1, <1>3, <1>7, <2>2, <2>5 DEF Reaches, AtMost
      <3>2. Outcome(e) <= h
        BY <2>5, <3>1 DEF Outcome, Absent, Unconfirmed
      <3>3. \A t \in Txids : tracker'.transactions[t] <= h
        BY <2>3, <3>1, <3>2
      <3>4. \A i \in 1..Len(inbox'.buf) :
               inbox'.buf[i].kind \in AddressKinds /\ NoConnected(inbox'.buf, i)
                 => inbox'.buf[i].tx.height <= h
        BY <1>1, <1>2, <1>3, <2>2, <2>5, ReachesRest DEF e
      <3> QED BY <1>1, <1>6, <1>7, <3>3, <3>4 DEF Reaches, AtMost
    <2>6. Depth'
      <3>1. Outcome(e) <= tip
        BY <1>2, <1>3 DEF Outcome, Absent, TypeInv
      <3> QED BY <1>1, <1>2, <1>5, <2>1, <2>3, <3>1 DEF Depth
    <2>7. NoConnected(inbox.buf, Len(inbox.buf))' => NoConnected(inbox.buf, Len(inbox.buf))
      <3>1. /\ Len(inbox'.buf) \in 0..Len(inbox'.buf)
            /\ Len(inbox'.buf) + 1 = Len(inbox.buf)
        BY <1>1, <1>2, ReceiveRest
      <3> QED BY <1>1, <1>2, <1>3, <3>1, ReceiveRest DEF e
    <2> QED BY <1>1, <1>4, <2>2, <2>4, <2>5, <2>6, <2>7, CaughtUpKept
  <1>10. CASE ~watched
    <2>1. /\ tracker' = tracker /\ tracker = NewTracker
      BY <1>10 DEF HandleAddressEvent, Sound, LockInv
    <2>2. /\ tracker.loading /\ tracker.queue = <<>>
          /\ tracker.transactions = [t \in Txids |-> Absent]
      BY <2>1 DEF NewTracker
    <2>3. ~Settled'
      BY <1>1, <1>6, <2>1, <2>2 DEF Settled
    <2>4. ASSUME NEW t \in Txids
          PROVE  Upshot'[t] = Upshot[t] \/ Upshot'[t] = Absent
      <3>1. Upshot \in Views
        BY <1>2, UpshotType
      <3>2. Upshot' \in {Upshot, [Upshot EXCEPT ![e.tx.txid] = Absent]}
        BY <1>10, UpshotHandled DEF e
      <3> QED BY <3>1, <3>2 DEF Views
    <2>5. ASSUME NEW h \in Int, h > Unconfirmed PROVE Reaches(h)'
      <3>1. \A t \in Txids : tracker'.transactions[t] <= h
        BY <2>1, <2>2, <2>5 DEF Absent, Unconfirmed
      <3> QED BY <1>1, <1>6, <1>7, <2>3, <3>1 DEF Reaches, AtMost
    <2>6. AllMendable'
      <3> SUFFICES ASSUME NEW t \in Txids \ unsure PROVE Mendable(t)'
        BY <1>1 DEF AllMendable
      <3>1. server[t] > Unconfirmed => Reaches(server[t])'
        BY <1>1, <1>4, <2>5 DEF Reaches
      <3>2. Mendable(t)
        BY DEF CaughtUp, AllMendable
      <3>3. ~(Absent > Unconfirmed)
        BY DEF Absent, Unconfirmed
      <3> QED BY <1>1, <2>4, <3>1, <3>2, <3>3 DEF Mendable
    <2>7. Current'
      BY <2>3 DEF Current
    <2>8. Depth'
      BY <1>1, <1>2, <1>5, <2>1 DEF Depth
    <2> QED BY <2>6, <2>7, <2>8 DEF CaughtUp
  <1> QED BY <1>8, <1>9, <1>10

(* The answer of a fetch: all that is not unsure now becomes as the server *)
(* has it.  An event that waits about it is the last word; otherwise the   *)
(* answer has it, the removal pass drops it, or it is older than the limit *)
(* and was right already.                                                  *)
LEMMA UpshotAnswered ==
  ASSUME Sound, Sound', CaughtUp, Respond
  PROVE  /\ \A t \in Txids \ unsure' : Upshot'[t] = server[t]
         /\ \A t \in Contradicted : Upshot'[t] = Upshot[t] /\ Upshot[t] # server[t]
         /\ \A i \in 1..Len(reply'.txs) :
               reply'.txs[i] \in Tx /\ reply'.txs[i].height = server[reply'.txs[i].txid]
  <1> DEFINE limit == LastConfirmed(tracker)
             txs == FetchAddressHistory(NewestFirst(KnownToServer), limit.txid, limit.height)
             held == tracker.transactions
             now == Ahead(tracker', reply')
             events == tracker.queue \o inbox.buf
  <1>1. /\ server' = server /\ tip' = tip /\ link' = link /\ loop' = loop
        /\ inbox' = inbox /\ tracker' = tracker /\ ~reply.answered
        /\ snapshot' = (snapshot \/ link = "up")
        /\ unsure' = unsure \cup Contradicted
        /\ reply' = [answered |-> TRUE, txs |-> txs]
    BY DEF Respond, serverVars
  <1>2. /\ tracker \in Balanced /\ held \in Views /\ server \in Views
        /\ reply \in [answered : BOOLEAN, txs : Seq(Tx)]
        /\ reply' \in [answered : BOOLEAN, txs : Seq(Tx)]
        /\ inbox.buf \in Seq(WebsocketEvent) /\ TypeInv /\ Depth
    <2>1. held \in Views
      BY DEF Sound, TypeInv, Balanced, Trackers, Views, Version
    <2> QED BY <2>1 DEF Sound, CaughtUp, TypeInv, Receivers
  <1>3. reply'.answered /\ reply'.txs = txs
    BY <1>1
  <1>4. IsReply(txs, KnownToServer, limit.txid, limit.height)
    BY <1>2, FetchedReply
  <1>5. KnownToServer = Shown(server)
    BY DEF KnownToServer, Shown
  <1>6. /\ \A tx \in KnownToServer : tx \in Tx
        /\ \A tx \in Tx : tx \in KnownToServer <=> server[tx.txid] = tx.height
    BY <1>2, <1>5, ShownFinite
  <1>7. txs \in Seq(Tx) /\ \A i \in 1..Len(txs) : server[txs[i].txid] = txs[i].height
    BY <1>4, <1>6 DEF IsReply
  <1>8. Upshot = EffectOfAll(held, events) /\ Upshot' = EffectOfAll(now, events)
    BY <1>1 DEF Upshot, Outlook, Ahead
  <1>9. now = ApplyReply(tracker, txs).transactions
    BY <1>1, <1>3 DEF Ahead
  <1>10. Expected = Upshot
    BY <1>8 DEF Expected, Waiting
  <1>11. events \in Seq(WebsocketEvent) /\ now \in Views
    <2>1. tracker.queue \in Seq(WebsocketEvent)
      BY <1>2, OutlookType
    <2>2. events \in Seq(WebsocketEvent)
      BY <1>2, <2>1
    <2> QED BY <1>2, <1>7, <1>9, <2>2, AppliedReply
  <1>12. DOMAIN Waiting = 1..Len(events) /\ Waiting = events
    BY <1>11 DEF Waiting
  <1>13. \A t \in Txids : server[t] \in Int /\ held[t] \in Int
    BY <1>2, VersionOrder DEF Views
  <1> HIDE DEF txs, now, events
  <1>14. ASSUME NEW t \in Txids \ unsure, t \notin Contradicted
         PROVE  Upshot'[t] = server[t]
    <2>1. CASE \E i \in 1..Len(events) : About(events[i], t)
      <3>1. Upshot'[t] = Upshot[t]
        BY <1>2, <1>8, <1>11, <2>1, MessageType, EffectForgets
      <3>2. Expected[t] = server[t]
        BY <1>12, <1>14, <2>1 DEF Contradicted, About
      <3> QED BY <1>10, <3>1, <3>2
    <2>2. CASE \A i \in 1..Len(events) : ~About(events[i], t)
      <3>1. Upshot[t] = held[t]
        <4>1. EffectOfAll(held, events)[t] = held[t]
          BY <1>2, <1>11, <2>2, MessageType, EffectElsewhere
        <4> QED BY <1>8, <4>1
      <3>2. Upshot'[t] = now[t]
        <4>1. EffectOfAll(now, events)[t] = now[t]
          BY <1>11, <2>2, MessageType, EffectElsewhere
        <4> QED BY <1>8, <4>1
      <3>3. IF InReply(txs, t)
            THEN \E i \in 1..Len(txs) : txs[i].txid = t /\ now[t] = txs[i].height
            ELSE now[t] = IF held[t] = Unconfirmed THEN Absent ELSE held[t]
        BY <1>2, <1>7, <1>9, AppliedReply
      <3>4. CASE InReply(txs, t)
        BY <1>7, <3>2, <3>3, <3>4
      <3>5. CASE ~InReply(txs, t) /\ server[t] = Absent
        <4>1. ~(held[t] > Unconfirmed)
          BY <1>14, <3>1, <3>5 DEF CaughtUp, AllMendable, Mendable, Absent, Unconfirmed
        <4>2. held[t] = Absent \/ held[t] = Unconfirmed
          BY <1>2, <4>1, VersionOrder DEF Views
        <4> QED BY <3>2, <3>3, <3>5, <4>2 DEF Absent, Unconfirmed
      <3>6. CASE ~InReply(txs, t) /\ server[t] # Absent
        <4> DEFINE tx == [txid |-> t, height |-> server[t]]
        <4>1. tx \in Tx /\ tx.txid = t /\ tx.height = server[t]
          BY <1>2, <3>6, VersionOrder DEF Views, Tx
        <4> HIDE DEF tx
        <4>2. tx \in KnownToServer
          BY <1>6, <4>1
        <4>3. ~ \E i \in 1..Len(txs) : txs[i] = tx
          BY <3>6, <4>1 DEF InReply
        <4>4. /\ limit.txid # NoTxid \/ limit.height # NoHeight
              /\ limit.height = NoHeight \/ (Confirmed(tx) /\ tx.height < limit.height)
          BY <1>4, <4>2, <4>3 DEF IsReply
        <4>5. /\ limit.height \in Int
              /\ \/ limit.height = NoHeight /\ limit.txid = NoTxid
                 \/ limit.height > Unconfirmed /\ \E u \in Txids : held[u] = limit.height
          BY <1>2, LastConfirmedIsLast
        <4> HIDE DEF limit
        <4>6. PICK u \in Txids : held[u] = limit.height /\ limit.height > Unconfirmed
          BY <4>4, <4>5
        <4>7. server[t] > Unconfirmed /\ server[t] < held[u]
          BY <4>1, <4>4, <4>6 DEF NoHeight, Confirmed, Unconfirmed
        <4>8. ~Reaches(server[t])
          <5>1. Ahead(tracker, reply) = held
            BY <1>1 DEF Ahead
          <5> QED BY <1>13, <4>7, <5>1 DEF Reaches, AtMost
        <4>9. held[t] = server[t]
          BY <1>14, <3>1, <4>7, <4>8 DEF CaughtUp, AllMendable, Mendable
        <4>10. held[t] # Unconfirmed
          BY <1>13, <4>7, <4>9 DEF Unconfirmed
        <4> QED BY <3>2, <3>3, <3>6, <4>9, <4>10
      <3> QED BY <3>4, <3>5, <3>6
    <2> QED BY <2>1, <2>2
  <1>15. ASSUME NEW t \in Contradicted
         PROVE  Upshot'[t] = Upshot[t] /\ Upshot[t] # server[t]
    <2>1. t \in Txids /\ Expected[t] # server[t]
      BY DEF Contradicted
    <2>2. \E i \in 1..Len(events) : About(events[i], t)
      BY <1>12 DEF Contradicted, About
    <2>3. Upshot'[t] = Upshot[t]
      BY <1>2, <1>8, <1>11, <2>1, <2>2, MessageType, EffectForgets
    <2> QED BY <1>10, <2>1, <2>3
  <1>16. \A i \in 1..Len(reply'.txs) :
            reply'.txs[i] \in Tx /\ reply'.txs[i].height = server[reply'.txs[i].txid]
    BY <1>3, <1>7
  <1> QED BY <1>1, <1>14, <1>15, <1>16

LEMMA CaughtUpAnswered ==
  ASSUME Sound, Sound', CaughtUp, Respond
  PROVE  CaughtUp'
  <1>1. /\ server' = server /\ tip' = tip /\ link' = link
        /\ inbox' = inbox /\ tracker' = tracker
        /\ snapshot' = (snapshot \/ link = "up")
    BY DEF Respond, serverVars
  <1>2. \A t \in Txids \ unsure' : Upshot'[t] = server'[t]
    BY <1>1, UpshotAnswered
  <1>3. AllMendable'
    BY <1>2 DEF AllMendable, Mendable
  <1>4. Current'
    BY <1>1, <1>2 DEF Current
  <1>5. Depth'
    <2>1. \A i \in 1..Len(reply'.txs) : reply'.txs[i].height <= tip
      BY UpshotAnswered DEF CaughtUp, Depth, Tx
    <2> QED BY <1>1, <2>1 DEF CaughtUp, Depth
  <1> QED BY <1>3, <1>4, <1>5 DEF CaughtUp

(* The end of a sync: nothing new gets into the tracker.                   *)
LEMMA CaughtUpSynced ==
  ASSUME Sound, Sound', CaughtUp, SyncEnd
  PROVE  CaughtUp'
  <1> DEFINE view == EffectOfAll(Ahead(tracker, reply), tracker.queue)
  <1>1. /\ server' = server /\ tip' = tip /\ link' = link /\ unsure' = unsure
        /\ inbox' = inbox /\ snapshot' = snapshot /\ reply.answered /\ SyncEnds
        /\ Syncing
    BY DEF SyncEnd, serverVars, linkVars
  <1>2. /\ tracker.loading /\ server \in Views /\ tip \in Int
        /\ tracker.queue \in Seq(WebsocketEvent)
        /\ Ahead(tracker, reply) \in Views
    <2>1. tracker.queue \in Seq(WebsocketEvent)
      BY UpshotType, OutlookType DEF Sound
    <2> QED BY <1>1, <2>1, UpshotType DEF Sound, LockInv, TypeInv
  <1>3. /\ tracker'.transactions = view /\ tracker'.queue = <<>>
        /\ ~reply'.answered /\ reply'.txs = <<>>
        /\ Upshot' = Upshot
    BY UpshotSynced
  <1> HIDE DEF view
  <1>4. Ahead(tracker', reply') = view
    BY <1>3 DEF Ahead
  <1>5. Settled' => Settled
    BY <1>1, <1>3 DEF Settled, SyncEnds
  <1>6. \A t \in Txids :
            \/ view[t] = Ahead(tracker, reply)[t]
            \/ \E i \in 1..Len(tracker.queue) : view[t] = Outcome(tracker.queue[i])
    BY <1>2, MessageType, EffectFrom DEF view
  <1>7. ASSUME NEW h \in Int, h > Absent,
                \A t \in Txids : Ahead(tracker, reply)[t] <= h,
                \A i \in 1..Len(tracker.queue) : tracker.queue[i].tx.height <= h
         PROVE  \A t \in Txids : view[t] <= h
    <2>1. \A i \in 1..Len(tracker.queue) : Outcome(tracker.queue[i]) <= h
      BY <1>7 DEF Outcome, Absent
    <2> QED BY <1>6, <1>7, <2>1
  <1>8. ASSUME NEW h \in Int, h > Unconfirmed, Reaches(h) PROVE Reaches(h)'
    <2>1. \A t \in Txids : view[t] <= h
      BY <1>1, <1>7, <1>8 DEF Reaches, AtMost, Absent, Unconfirmed
    <2> QED BY <1>1, <1>3, <1>4, <1>5, <1>8, <2>1 DEF Reaches, AtMost
  <1>9. Depth'
    <2>1. \A t \in Txids : Ahead(tracker, reply)[t] <= tip
      BY AheadDepth DEF CaughtUp
    <2>2. tip > Absent
      BY DEF Sound, TypeInv, Absent
    <2>3. \A t \in Txids : view[t] <= tip
      BY <1>2, <1>7, <2>1, <2>2 DEF CaughtUp, Depth
    <2> QED BY <1>1, <1>3, <2>3 DEF CaughtUp, Depth
  <1>10. \A t \in Txids : server[t] \in Int
    BY <1>2, VersionOrder DEF Views
  <1> QED BY <1>1, <1>3, <1>5, <1>8, <1>9, <1>10, CaughtUpKept

(* The four changes of the server's view.                                  *)
LEMMA CaughtUpChanged ==
  ASSUME Sound, Sound', CaughtUp, NEW t \in Txids,
         Appear(t) \/ Evict(t) \/ Mine(t) \/ Reorg(t)
  PROVE  CaughtUp'
  <1>1. ASSUME NEW kind \in AddressKinds, NEW height \in Version, NEW at \in Heights,
               Change(t, height, AddressEvent(kind, t, at)),
               height = IF kind = "Removed" THEN Absent ELSE at,
               tip <= tip', height <= tip', at <= tip',
               server[t] > Unconfirmed => kind = "Removed" /\ at > Unconfirmed,
               height > Unconfirmed => height = tip'
        PROVE  CaughtUp'
    <2> DEFINE e == AddressEvent(kind, t, at)
    <2>1. /\ e \in Event /\ e.kind = kind /\ e.tx.txid = t /\ e.tx.height = at
      BY <1>1, AddressEventType
    <2> HIDE DEF e
    <2>2. About(e, t) /\ Outcome(e) = height /\ (Confirmed(e.tx) <=> at > Unconfirmed)
      BY <1>1, <2>1 DEF About, Outcome, Confirmed
    <2>3. Change(t, height, e)
      BY <1>1 DEF e
    <2>4. tip' \in Int
      BY DEF Sound, TypeInv
    <2>5. CASE tracked /\ link = "up"
      BY <1>1, <2>1, <2>2, <2>3, <2>5, CaughtUpHeard
    <2>6. CASE ~(tracked /\ link = "up")
      BY <1>1, <2>1, <2>2, <2>3, <2>4, <2>6, CaughtUpUnheard
    <2> QED BY <2>5, <2>6
  <1>2. /\ tip \in 0..MaxHeight /\ tip' \in 0..MaxHeight /\ MaxHeight \in Nat
        /\ Absent \in Version /\ Unconfirmed \in Heights
        /\ \A h \in 0..MaxHeight : h \in Heights /\ h \in Version
    BY TrackerAssumption DEF Sound, TypeInv, Version, Heights, Unconfirmed
  <1>3. CASE Appear(t)
    BY <1>1, <1>2, <1>3 DEF Appear, AddressKinds, Unconfirmed, Absent
  <1>4. CASE Evict(t)
    BY <1>1, <1>2, <1>4 DEF Evict, AddressKinds, Unconfirmed, Absent
  <1>5. CASE Mine(t)
    BY <1>1, <1>2, <1>5 DEF Mine, AddressKinds, Unconfirmed
  <1>6. CASE Reorg(t)
    BY <1>1, <1>2, <1>6 DEF Reorg, AddressKinds, Unconfirmed, Absent
  <1> QED BY <1>3, <1>4, <1>5, <1>6

LEMMA StepCaughtUp == Sound /\ Sound' /\ CaughtUp /\ [Next]_vars => CaughtUp'
  <1> SUFFICES ASSUME Sound, Sound', CaughtUp, [Next]_vars PROVE CaughtUp'
    OBVIOUS
  <1>1. ASSUME NEW t \in Txids, Appear(t) \/ Evict(t) \/ Mine(t) \/ Reorg(t)
        PROVE  CaughtUp'
    BY <1>1, CaughtUpChanged
  <1>2. CASE Connect
    BY <1>2, CaughtUpNoted DEF Connect
  <1>18. CASE ConnectFails
    BY <1>18, CaughtUpNoted DEF ConnectFails
  <1>3. CASE Die
    BY <1>3, CaughtUpIdle DEF Die, serverVars, walletVars, Settled
  <1>4. CASE Disconnect
    BY <1>4, CaughtUpNoted DEF Disconnect
  <1>5. CASE Track
    BY <1>5, CaughtUpIdle DEF Track, serverVars, walletVars, Settled
  <1>6. CASE LoopLagged
    <2>1. inbox'.buf = inbox.buf
      BY <1>6 DEF LoopLagged, Received, Sound, TypeInv, Receivers
    <2> QED BY <1>6, <2>1, CaughtUpIdle DEF LoopLagged, serverVars, linkVars, walletVars, Settled
  <1>7. CASE LoopDisconnected
    <2>1. HasMessage(inbox) /\ Head(inbox.buf).kind \in {"Disconnected", "Error"}
      BY <1>7 DEF LoopDisconnected, NextIs
    <2>2. Head(inbox.buf) # ConnectedEvent /\ Head(inbox.buf).kind \notin AddressKinds
      BY <2>1, MessageType DEF AddressKinds
    <2>3. Settled' = Settled
      BY <1>7 DEF LoopDisconnected, walletVars, Settled
    <2> QED BY <1>7, <2>1, <2>2, <2>3, CaughtUpDropped
            DEF LoopDisconnected, linkVars, walletVars
  <1>8. CASE HandleAddressEvent
    BY <1>8, CaughtUpHandled
  <1>9. CASE InitAddresses
    <2>1. HasMessage(inbox) /\ Head(inbox.buf).kind = "Connected"
      BY <1>9 DEF InitAddresses, NextIs
    <2>2. Head(inbox.buf).kind \notin AddressKinds
      BY <2>1 DEF AddressKinds
    <2>3. ~Settled'
      <3>1. CASE watched
        BY <1>9, <3>1 DEF InitAddresses, Settled
      <3>2. CASE ~watched
        <4>1. tracker.loading /\ ~reply.answered
          BY <3>2, <1>9 DEF Sound, LockInv, NewTracker, Syncing, InitAddresses
        <4> QED BY <1>9, <4>1 DEF InitAddresses, Settled
      <3> QED BY <3>1, <3>2
    <2>4. /\ inbox' = Received(inbox)
          /\ UNCHANGED <<serverVars, link, snapshot, tracker, reply, unsure>>
      BY <1>9 DEF InitAddresses
    <2> QED BY <2>1, <2>2, <2>3, <2>4, CaughtUpDropped
  <1>10. CASE WatchSubscribe
    BY <1>10, CaughtUpIdle DEF WatchSubscribe, serverVars, Settled
  <1>11. CASE WatchInsert
    BY <1>11, CaughtUpIdle DEF WatchInsert, serverVars, linkVars, Settled
  <1>12. CASE WatchReturn
    BY <1>12, CaughtUpIdle DEF WatchReturn, serverVars, linkVars, Settled
  <1>13. CASE SyncBegin
    <2>1. /\ tracker'.transactions = tracker.transactions
          /\ tracker'.queue = tracker.queue /\ tracker'.loading
      BY <1>13, BegunSync DEF SyncBegin, Sound, TypeInv
    <2>2. ~reply.answered /\ reply' = reply
      BY <1>13 DEF SyncBegin, Sound, LockInv
    <2> QED BY <1>13, <2>1, <2>2, CaughtUpIdle DEF SyncBegin, serverVars, linkVars, Settled
  <1>14. CASE Respond
    BY <1>14, CaughtUpAnswered
  <1>15. CASE FetchFails
    <2>1. ~reply.answered /\ ~reply'.answered /\ reply'.txs = <<>> /\ tracker' = tracker
      BY <1>15 DEF FetchFails, SyncEnds, NoReply
    <2>2. tracker.loading
      BY <1>15 DEF FetchFails, Sound, LockInv
    <2> QED BY <1>15, <2>1, <2>2, CaughtUpIdle
            DEF FetchFails, serverVars, linkVars, Settled
  <1>16. CASE SyncEnd
    BY <1>16, CaughtUpSynced
  <1>17. CASE UNCHANGED vars
    BY <1>17, CaughtUpIdle DEF vars, Settled
  <1> QED
    BY <1>1, <1>2, <1>3, <1>4, <1>5, <1>6, <1>7, <1>8, <1>9, <1>10, <1>11, <1>12,
       <1>13, <1>14, <1>15, <1>16, <1>17, <1>18
    DEF Next, ServerStep, LoopStep, WatchStep, SyncStep

(* Whatever the interleaving of the fetch, the pushed events and the       *)
(* reconnections: while the address is followed and its history is loaded, *)
(* what its tracker holds, with the events that still wait, is what the    *)
(* server has, for every transaction that is not unsure (watch,            *)
(* init_addresses, sync_address_history, handle_address_event).            *)
THEOREM NothingMissedCorrect == Spec => []NothingMissed
  <1> DEFINE Inv == Sound /\ CaughtUp
  <1>1. Init => Inv
    BY InitSound, InitCaughtUp
  <1>2. Inv /\ [Next]_vars => Inv'
    BY StepSound, StepCaughtUp
  <1>3. Inv => NothingMissed
    <2> SUFFICES ASSUME Inv, Following, watched, ~tracker.loading,
                        NEW t \in Txids \ unsure
                 PROVE  Expected[t] = server[t]
      BY DEF NothingMissed
    <2>1. Settled
      BY DEF Following, Settled
    <2>2. NoConnected(inbox.buf, Len(inbox.buf))
      <3>1. DOMAIN inbox.buf = 1..Len(inbox.buf)
        BY DEF Sound, TypeInv, Receivers
      <3> QED BY <3>1 DEF Following, NoConnected
    <2>3. Upshot[t] = server[t]
      BY <2>1, <2>2 DEF Following, CaughtUp, Current
    <2>4. ~reply.answered
      BY DEF Sound, LockInv
    <2>5. Expected = Upshot
      BY <2>4 DEF Expected, Waiting, Upshot, Outlook, Ahead
    <2> QED BY <2>3, <2>5
  <1> QED BY <1>1, <1>2, <1>3, PTL DEF Spec

-----------------------------------------------------------------------------
(* The tracker catches up.                                                 *)
SpentType == [connections : Nat, failures : Nat, changes : Nat, failedOn : Nat]

(* Nobody is going to sync a watched address on this link any more, and its*)
(* tracker is loading.                                                     *)
GivenUp ==
    /\ watched /\ tracker.loading
    /\ user \in {"synced", "done"} /\ loop = "receive"
    /\ link = "up" /\ NoConnected(inbox.buf, Len(inbox.buf))

(* Only a fetch that failed on this link, or a Connected that was lost     *)
(* with other events, leaves it so.                                        *)
Excused ==
    /\ spent \in SpentType
    /\ GivenUp => FailedOnThisLink \/ unsure = Txids

LEMMA InitExcused == Init => Excused
  BY DEF Init, Excused, GivenUp, SpentType

(* A message that arrives is no excuse, nor does it take one away.         *)
LEMMA ExcusedEnqueued ==
  ASSUME Sound, Excused, NEW m \in WebsocketEvent, Enqueue(m), UNCHANGED walletVars,
         spent' \in SpentType,
         spent'.failures = spent.failures, spent'.failedOn = spent.failedOn,
         link' = "up" => \/ m = ConnectedEvent
                         \/ link = "up" /\ spent'.connections = spent.connections
  PROVE  Excused'
  <1> SUFFICES ASSUME GivenUp' PROVE FailedOnThisLink' \/ unsure' = Txids
    BY DEF Excused
  <1>1. \/ inbox'.buf = Append(inbox.buf, m) /\ unsure' = unsure
        \/ unsure' = Txids
    BY EnqueueType DEF Sound
  <1>2. SUFFICES ASSUME inbox'.buf = Append(inbox.buf, m), unsure' = unsure
                 PROVE  FailedOnThisLink' \/ unsure = Txids
    BY <1>1
  <1> DEFINE buf == inbox.buf
  <1>3. buf \in Seq(WebsocketEvent)
    BY DEF Sound, TypeInv, Receivers
  <1>4. /\ Len(inbox'.buf) = Len(buf) + 1 /\ Len(buf) \in Nat
        /\ inbox'.buf[Len(buf) + 1] = m
        /\ \A i \in 1..Len(buf) : inbox'.buf[i] = buf[i]
    <2> HIDE DEF buf
    <2>1. inbox'.buf = Append(buf, m)
      BY <1>2 DEF buf
    <2> QED BY <1>3, <2>1
  <1> HIDE DEF buf
  <1>5. \A i \in 1..(Len(buf) + 1) : inbox'.buf[i] # ConnectedEvent
    BY <1>4 DEF GivenUp, NoConnected
  <1>6. m # ConnectedEvent /\ NoConnected(buf, Len(buf))
    BY <1>4, <1>5 DEF NoConnected
  <1>7. link' = "up" /\ link = "up" /\ spent'.connections = spent.connections
    BY <1>6 DEF GivenUp
  <1>8. GivenUp
    BY <1>6, <1>7 DEF GivenUp, walletVars, buf
  <1> QED BY <1>7, <1>8 DEF Excused, FailedOnThisLink

(* Nor does one that is received, unless it is a Connected.                *)
LEMMA ExcusedReceived ==
  ASSUME Sound, Excused, HasMessage(inbox), inbox' = Received(inbox),
         Head(inbox.buf).kind # "Connected",
         UNCHANGED <<link, watched, user, loop, spent, unsure>>,
         watched => tracker'.loading = tracker.loading
  PROVE  Excused'
  <1> SUFFICES ASSUME GivenUp' PROVE FailedOnThisLink' \/ unsure' = Txids
    BY DEF Excused
  <1> DEFINE buf == inbox.buf
  <1>1. buf \in Seq(WebsocketEvent) /\ buf # <<>> /\ inbox'.buf = Tail(buf)
    BY ReceiveType DEF Sound, TypeInv, Receivers
  <1>2. buf[1] # ConnectedEvent
    BY <1>1, MessageType
  <1>3. /\ Len(inbox'.buf) = Len(buf) - 1 /\ Len(buf) \in Nat \ {0}
        /\ \A i \in 1..Len(inbox'.buf) : inbox'.buf[i] = buf[i + 1]
    <2> HIDE DEF buf
    <2> QED BY <1>1
  <1> HIDE DEF buf
  <1>4. ASSUME NEW i \in 1..Len(buf) PROVE buf[i] # ConnectedEvent
    <2>1. CASE i = 1
      BY <1>2, <2>1
    <2>2. CASE i # 1
      <3>1. i - 1 \in 1..Len(inbox'.buf) /\ (i - 1) + 1 = i
        BY <1>3, <2>2
      <3>2. inbox'.buf[i - 1] # ConnectedEvent
        BY <3>1 DEF GivenUp, NoConnected
      <3> QED BY <1>3, <3>1, <3>2
    <2> QED BY <2>1, <2>2
  <1>5. GivenUp
    BY <1>4 DEF GivenUp, NoConnected, buf
  <1> QED BY <1>5 DEF Excused, FailedOnThisLink

(* Nor does a change at the server.                                        *)
LEMMA ExcusedChanged ==
  ASSUME Sound, Sound', Excused, NEW t \in Txids, NEW height, NEW e \in WebsocketEvent,
         Change(t, height, e)
  PROVE  Excused'
  <1>1. /\ spent' \in SpentType /\ spent'.connections = spent.connections
        /\ spent'.failures = spent.failures /\ spent'.failedOn = spent.failedOn
    BY DEF Change, Spend, Excused, SpentType
  <1>2. UNCHANGED <<linkVars, walletVars>>
    BY DEF Change
  <1>3. CASE tracked /\ link = "up"
    <2>1. Enqueue(e)
      BY <1>3 DEF Change
    <2> QED BY <1>1, <1>2, <1>3, <2>1, ExcusedEnqueued
  <1>4. CASE ~(tracked /\ link = "up")
    <2>1. inbox' = inbox /\ unsure \subseteq unsure' /\ unsure' \subseteq Txids
      BY <1>4 DEF Change, Sound, TypeInv
    <2> QED BY <1>1, <1>2, <2>1
            DEF Excused, GivenUp, NoConnected, FailedOnThisLink, linkVars, walletVars
  <1> QED BY <1>3, <1>4

LEMMA StepExcused == Sound /\ Sound' /\ Excused /\ [Next]_vars => Excused'
  <1> SUFFICES ASSUME Sound, Sound', Excused, [Next]_vars PROVE Excused'
    OBVIOUS
  (* Steps after which the tracker is not given up.                        *)
  <1>1. ~GivenUp' /\ spent' = spent => Excused'
    BY DEF Excused
  (* Steps that leave all that matters.                                    *)
  <1>2. ASSUME UNCHANGED <<link, watched, loop, spent, unsure>>, inbox'.buf = inbox.buf,
               tracker'.loading = tracker.loading,
               user' \in {"synced", "done"} => user \in {"synced", "done"}
        PROVE  Excused'
    BY <1>2 DEF Excused, GivenUp, NoConnected, FailedOnThisLink
  <1>3. ASSUME NEW t \in Txids, Appear(t) \/ Evict(t) \/ Mine(t) \/ Reorg(t)
        PROVE  Excused'
    <2>1. \A h \in 0..MaxHeight : h \in Heights
      BY TrackerAssumption DEF Heights, Unconfirmed
    <2>2. Unconfirmed \in Heights /\ tip \in Heights /\ tip' \in Heights
      BY <2>1, TrackerAssumption DEF Sound, TypeInv, Heights, Unconfirmed
    <2>3. CASE Appear(t)
      <3>1. AddressEvent("Mempool", t, Unconfirmed) \in WebsocketEvent
        BY <2>2, AddressEventType DEF AddressKinds
      <3> QED BY <2>3, <3>1, ExcusedChanged DEF Appear
    <2>4. CASE Evict(t)
      <3>1. AddressEvent("Removed", t, Unconfirmed) \in WebsocketEvent
        BY <2>2, AddressEventType DEF AddressKinds
      <3> QED BY <2>4, <3>1, ExcusedChanged DEF Evict
    <2>5. CASE Mine(t)
      <3> DEFINE e == AddressEvent("Confirmed", t, tip')
      <3>1. e \in WebsocketEvent
        BY <2>2, AddressEventType DEF AddressKinds
      <3>2. Change(t, tip', e)
        BY <2>5 DEF Mine
      <3> HIDE DEF e
      <3> QED BY <3>1, <3>2, ExcusedChanged
    <2>6. CASE Reorg(t)
      <3>1. AddressEvent("Removed", t, tip) \in WebsocketEvent
        BY <2>2, AddressEventType DEF AddressKinds
      <3> QED BY <2>6, <3>1, ExcusedChanged DEF Reorg
    <2> QED BY <1>3, <2>3, <2>4, <2>5, <2>6
  <1>4. CASE Connect
    <2>1. spent' \in SpentType /\ spent'.failures = spent.failures
            /\ spent'.failedOn = spent.failedOn
      BY <1>4 DEF Connect, Spend, Excused, SpentType
    <2> QED BY <1>4, <2>1, MessageType, ExcusedEnqueued DEF Connect
  <1>5. CASE ConnectFails
    <2>1. spent' \in SpentType /\ spent'.failures = spent.failures
            /\ spent'.failedOn = spent.failedOn
      BY <1>5 DEF ConnectFails, Spend, Excused, SpentType
    <2> QED BY <1>5, <2>1, MessageType, ExcusedEnqueued DEF ConnectFails
  <1>6. CASE Die
    BY <1>1, <1>6 DEF Die, GivenUp
  <1>7. CASE Disconnect
    <2>1. spent' = spent /\ spent' \in SpentType
      BY <1>7 DEF Disconnect, Excused
    <2> QED BY <1>7, <2>1, MessageType, ExcusedEnqueued DEF Disconnect
  <1>8. CASE Track
    BY <1>2, <1>8 DEF Track, walletVars
  <1>9. CASE LoopLagged
    <2>1. inbox'.buf = inbox.buf
      BY <1>9 DEF LoopLagged, Received, Sound, TypeInv, Receivers
    <2> QED BY <1>2, <1>9, <2>1 DEF LoopLagged, linkVars, walletVars
  <1>10. CASE LoopDisconnected
    <2>1. HasMessage(inbox) /\ Head(inbox.buf).kind # "Connected"
      BY <1>10 DEF LoopDisconnected, NextIs
    <2> QED BY <1>10, <2>1, ExcusedReceived DEF LoopDisconnected, linkVars, walletVars
  <1>11. CASE HandleAddressEvent
    <2>1. /\ HasMessage(inbox) /\ inbox' = Received(inbox)
          /\ Head(inbox.buf).kind \in AddressKinds
          /\ UNCHANGED <<link, watched, user, loop, spent, unsure>>
      BY <1>11 DEF HandleAddressEvent, NextIs, linkVars
    <2>2. Head(inbox.buf).kind # "Connected"
      BY <2>1 DEF AddressKinds
    <2>3. ASSUME watched PROVE tracker'.loading = tracker.loading
      <3>1. Head(inbox.buf) \in Event
        BY <2>1, ReceiveType, MessageType DEF Sound
      <3>2. tracker' = [ProcessEvent(tracker, Head(inbox.buf), TRUE) EXCEPT !.sent = <<>>]
        BY <1>11, <2>3 DEF HandleAddressEvent
      <3> QED BY <3>1, <3>2, HandledEvent DEF Sound, TypeInv
    <2> QED BY <2>1, <2>2, <2>3, ExcusedReceived
  <1>12. CASE InitAddresses
    BY <1>1, <1>12 DEF InitAddresses, GivenUp
  <1>13. CASE WatchSubscribe
    BY <1>1, <1>13 DEF WatchSubscribe, GivenUp
  <1>14. CASE WatchInsert
    BY <1>1, <1>14 DEF WatchInsert, GivenUp
  <1>15. CASE WatchReturn
    BY <1>2, <1>15 DEF WatchReturn, linkVars
  <1>16. CASE SyncBegin
    <2>1. user' = "syncing" \/ loop' = "syncing"
      BY <1>16 DEF SyncBegin
    <2>2. ~GivenUp'
      BY <2>1 DEF GivenUp
    <2> QED BY <1>1, <1>16, <2>2 DEF SyncBegin
  <1>17. CASE Respond
    <2>1. user' = "syncing" \/ loop' = "syncing"
      BY <1>17 DEF Respond, Syncing
    <2>2. ~GivenUp'
      BY <2>1 DEF GivenUp
    <2> QED BY <1>1, <1>17, <2>2 DEF Respond
  <1>18. CASE FetchFails
    <2>1. spent \in SpentType
          /\ spent' = [spent EXCEPT !.failures = @ + 1, !.failedOn = spent.connections]
      BY <1>18 DEF FetchFails, Excused
    <2>2. /\ spent.failures \in Nat /\ spent.connections \in Nat
          /\ DOMAIN spent = {"connections", "failures", "changes", "failedOn"}
      BY <2>1 DEF SpentType
    <2>3. /\ spent'.failures = spent.failures + 1 /\ spent'.failedOn = spent.connections
          /\ spent'.connections = spent.connections
      BY <2>1, <2>2
    <2>4. spent' \in SpentType
      <3>1. spent' = [connections |-> spent.connections, failures |-> spent.failures + 1,
                      changes |-> spent.changes, failedOn |-> spent.connections]
        BY <2>1 DEF SpentType
      <3>2. spent.failures + 1 \in Nat /\ spent.changes \in Nat
        BY <2>1, <2>2 DEF SpentType
      <3> QED BY <2>2, <3>1, <3>2 DEF SpentType
    <2> QED BY <2>2, <2>3, <2>4 DEF Excused, FailedOnThisLink
  <1>19. CASE SyncEnd
    <2>1. tracker' = SyncedTracker(tracker, reply.txs) /\ spent' = spent
      BY <1>19 DEF SyncEnd, SyncedTracker
    <2>2. tracker \in Balanced /\ tracker.loading /\ reply.txs \in Seq(Tx)
      BY <1>19 DEF SyncEnd, Sound, LockInv, TypeInv
    <2>3. ~tracker'.loading
      BY <2>1, <2>2, FinishedSync
    <2> QED BY <1>1, <2>1, <2>3 DEF GivenUp
  <1>20. CASE UNCHANGED vars
    BY <1>2, <1>20 DEF vars
  <1> QED
    BY <1>3, <1>4, <1>5, <1>6, <1>7, <1>8, <1>9, <1>10, <1>11, <1>12, <1>13, <1>14,
       <1>15, <1>16, <1>17, <1>18, <1>19, <1>20
    DEF Next, ServerStep, LoopStep, WatchStep, SyncStep

(* Once watch has returned and nothing is under way any more, the tracker  *)
(* holds what the server has, but for transactions in doubt, unless it is  *)
(* left loading by a fetch that failed on this very link (watch,           *)
(* init_addresses, sync_address_history).                                  *)
THEOREM CatchesUpCorrect == Spec => []CatchesUp
  <1> DEFINE Inv == Sound /\ CaughtUp /\ Excused
  <1>1. Init => Inv
    BY InitSound, InitCaughtUp, InitExcused
  <1>2. Inv /\ [Next]_vars => Inv'
    BY StepSound, StepCaughtUp, StepExcused
  <1>3. Inv => CatchesUp
    <2> SUFFICES ASSUME Inv, Following, user = "done", ~CanReceive(inbox),
                        ~(FailedOnThisLink /\ tracker.loading),
                        NEW t \in Txids \ unsure
                 PROVE  tracker.transactions[t] = server[t]
      BY DEF CatchesUp
    <2>1. watched
      BY DEF Sound, LockInv
    <2>2. NoConnected(inbox.buf, Len(inbox.buf))
      <3>1. DOMAIN inbox.buf = 1..Len(inbox.buf)
        BY DEF Sound, TypeInv, Receivers
      <3> QED BY <3>1 DEF Following, NoConnected
    <2>3. ~tracker.loading
      <3>1. GivenUp => FailedOnThisLink \/ unsure = Txids
        BY DEF Excused
      <3> QED BY <2>1, <2>2, <3>1 DEF GivenUp, Following
    <2>4. Settled
      BY <2>3 DEF Following, Settled
    <2>5. Upshot[t] = server[t]
      BY <2>2, <2>4 DEF Following, CaughtUp, Current
    <2>6. ~reply.answered /\ tracker.queue = <<>>
      BY <2>3 DEF Sound, LockInv
    <2>7. inbox.buf = <<>>
      BY DEF CanReceive, Sound, TypeInv, Receivers
    <2>8. tracker.transactions \in Views
      BY DEF Sound, TypeInv, Balanced, Trackers, Views, Version
    <2>9. tracker.queue \o inbox.buf = <<>>
      BY <2>6, <2>7
    <2> QED BY <2>5, <2>6, <2>8, <2>9, EffectOfNone DEF Upshot, Outlook, Ahead
  <1> QED BY <1>1, <1>2, <1>3, PTL DEF Spec

-----------------------------------------------------------------------------
(* The wallet mirrors the server.                                          *)
Followed == Following /\ watched /\ ~tracker.loading

(* A step that leaves the upshot: the address may be followed from now on, *)
(* or no longer.                                                           *)
LEMMA MirrorKept ==
  ASSUME Sound, Sound', CaughtUp, CaughtUp',
         server' = server, unsure' = unsure, watched' = watched, Upshot' = Upshot
  PROVE  [Mirror!Next]_(Mirror!vars)
  <1>1. CASE Followed' = Followed
    BY <1>1 DEF Mirror!vars, Followed
  <1>2. CASE Followed /\ ~Followed'
    BY <1>2 DEF Mirror!Next, Mirror!Unfollow, Followed
  <1>3. CASE ~Followed /\ Followed'
    <2>1. \A t \in Txids \ unsure : Upshot[t] = server[t]
      <3>1. Settled' /\ link' = "up"
        BY <1>3 DEF Followed, Following, Settled
      <3>2. NoConnected(inbox.buf, Len(inbox.buf))'
        <4>1. DOMAIN inbox'.buf = 1..Len(inbox'.buf)
          BY DEF Sound, TypeInv, Receivers
        <4> QED BY <1>3, <4>1 DEF Followed, Following, NoConnected
      <3> QED BY <3>1, <3>2 DEF CaughtUp, Current
    <2>2. watched
      BY <1>3 DEF Followed
    <2> QED BY <1>3, <2>1, <2>2 DEF Mirror!Next, Mirror!Follow, Mirror!Agreed, Followed
  <1>4. Followed \in BOOLEAN /\ Followed' \in BOOLEAN
    BY DEF Followed, Following, Sound, TypeInv
  <1> QED BY <1>1, <1>2, <1>3, <1>4

(* The inbox overflows.                                                    *)
LEMMA MirrorLost ==
  ASSUME Sound', unsure' = Txids, watched' = watched,
         \/ server' = server
         \/ \E t \in Txids, status \in Version : server' = [server EXCEPT ![t] = status]
  PROVE  Mirror!Next
  <1>1. Upshot' \in [Txids -> Heights \cup {Absent}]
    BY UpshotType, OutlookType DEF Sound, TypeInv, Receivers, Upshot, Views, Version
  <1>2. Followed' \in BOOLEAN
    BY DEF Followed, Following, Sound, TypeInv
  <1> QED BY <1>1, <1>2 DEF Mirror!Next, Mirror!Overflow, Mirror!Views, Version, Followed

(* A connection comes up or goes down, and is told to the event loop.      *)
LEMMA MirrorNoted ==
  ASSUME Sound, Sound', CaughtUp, CaughtUp',
         NEW m \in {ConnectedEvent, DisconnectedEvent, ErrorEvent},
         Enqueue(m), UNCHANGED <<serverVars, walletVars>>
  PROVE  [Mirror!Next]_(Mirror!vars)
  <1>1. /\ server' = server /\ watched' = watched /\ tracker' = tracker /\ reply' = reply
        /\ TypeInv /\ TypeInv'
    BY DEF serverVars, walletVars, Sound
  <1>2. m \in WebsocketEvent /\ m.kind \notin AddressKinds
    <2>1. m.kind \in {"Connected", "Disconnected", "Error"} /\ m \in WebsocketEvent
      BY MessageType
    <2> QED BY <2>1 DEF AddressKinds
  <1>3. CASE unsure' = Txids
    BY <1>1, <1>3, MirrorLost
  <1>4. CASE inbox'.buf = Append(inbox.buf, m) /\ unsure' = unsure
    <2>1. Upshot' = Upshot
      BY <1>1, <1>2, <1>4, UpshotOfMore
    <2> QED BY <1>1, <1>4, <2>1, MirrorKept
  <1> QED BY <1>1, <1>2, <1>3, <1>4, EnqueueType

(* The server's view changes.                                              *)
LEMMA MirrorHeard ==
  ASSUME Sound, Sound', NEW t \in Txids, NEW height \in Version,
         NEW e \in Event, Change(t, height, e), tracked /\ link = "up",
         e.tx.txid = t, Outcome(e) = height
  PROVE  Mirror!Next
  <1>1. /\ server' = [server EXCEPT ![t] = height] /\ Enqueue(e)
        /\ link' = link /\ tracked' = tracked /\ watched' = watched
        /\ tracker' = tracker /\ loop' = loop /\ reply' = reply
        /\ TypeInv /\ TypeInv'
    BY DEF Change, linkVars, walletVars, Sound
  <1>2. e \in WebsocketEvent /\ e # ConnectedEvent
    <2>1. e \in WebsocketEvent /\ e.kind \in AddressKinds
      BY MessageType
    <2> QED BY <2>1, MessageType DEF AddressKinds
  <1>3. CASE unsure' = Txids
    BY <1>1, <1>3, MirrorLost
  <1>4. CASE inbox'.buf = Append(inbox.buf, e) /\ unsure' = unsure
    <2>1. Upshot' = [Upshot EXCEPT ![t] = height]
      BY <1>1, <1>2, <1>4, UpshotOfMore
    <2>2. (\E i \in DOMAIN inbox'.buf : inbox'.buf[i] = ConnectedEvent)
             <=> \E i \in DOMAIN inbox.buf : inbox.buf[i] = ConnectedEvent
      <3> DEFINE buf == inbox.buf
      <3>1. buf \in Seq(WebsocketEvent) /\ inbox'.buf = Append(buf, e)
        BY <1>1, <1>4, UpshotType
      <3> HIDE DEF buf
      <3>2. /\ DOMAIN buf = 1..Len(buf) /\ Len(buf) \in Nat
            /\ DOMAIN inbox'.buf = 1..(Len(buf) + 1)
            /\ inbox'.buf[Len(buf) + 1] = e
            /\ \A i \in 1..Len(buf) : inbox'.buf[i] = buf[i]
        BY <1>2, <3>1
      <3> QED BY <1>2, <3>2 DEF buf
    <2>3. Followed' = Followed
      BY <1>1, <2>2 DEF Followed, Following
    <2>4. Mirror!Hear(t, height)
      BY <1>1, <1>4, <2>1, <2>3 DEF Mirror!Hear, Followed
    <2> QED BY <2>4 DEF Mirror!Next, Version
  <1> QED BY <1>1, <1>2, <1>3, <1>4, EnqueueType

LEMMA MirrorUnheard ==
  ASSUME NEW t \in Txids, NEW height \in Version, NEW e,
         Change(t, height, e), ~(tracked /\ link = "up")
  PROVE  Mirror!Next
  <1>1. /\ server' = [server EXCEPT ![t] = height] /\ inbox' = inbox
        /\ unsure' \in {unsure, unsure \cup {t}}
        /\ link' = link /\ tracked' = tracked /\ watched' = watched
        /\ tracker' = tracker /\ loop' = loop /\ reply' = reply
    BY DEF Change, linkVars, walletVars
  <1>2. Upshot' = Upshot
    BY <1>1 DEF Upshot
  <1>3. ~Followed /\ Followed' = Followed
    BY <1>1 DEF Followed, Following
  <1>4. Mirror!Miss(t, height)
    BY <1>1, <1>2, <1>3 DEF Mirror!Miss, Followed
  <1> QED BY <1>4 DEF Mirror!Next, Version

LEMMA MirrorChanged ==
  ASSUME Sound, Sound', NEW t \in Txids, Appear(t) \/ Evict(t) \/ Mine(t) \/ Reorg(t)
  PROVE  Mirror!Next
  <1>1. ASSUME NEW kind \in AddressKinds, NEW height \in Version, NEW at \in Heights,
               Change(t, height, AddressEvent(kind, t, at)),
               height = IF kind = "Removed" THEN Absent ELSE at
        PROVE  Mirror!Next
    <2> DEFINE e == AddressEvent(kind, t, at)
    <2>1. e \in Event /\ e.kind = kind /\ e.tx.txid = t /\ e.tx.height = at
      BY <1>1, AddressEventType
    <2>2. Change(t, height, e)
      BY <1>1
    <2> HIDE DEF e
    <2>3. Outcome(e) = height
      BY <1>1, <2>1 DEF Outcome
    <2>4. CASE tracked /\ link = "up"
      BY <1>1, <2>1, <2>2, <2>3, <2>4, MirrorHeard
    <2>5. CASE ~(tracked /\ link = "up")
      BY <1>1, <2>2, <2>5, MirrorUnheard
    <2> QED BY <2>4, <2>5
  <1>2. /\ tip \in 0..MaxHeight /\ tip' \in 0..MaxHeight /\ MaxHeight \in Nat
        /\ Absent \in Version /\ Unconfirmed \in Heights
        /\ \A h \in 0..MaxHeight : h \in Heights /\ h \in Version
    BY TrackerAssumption DEF Sound, TypeInv, Version, Heights, Unconfirmed
  <1>3. CASE Appear(t)
    BY <1>1, <1>2, <1>3 DEF Appear, AddressKinds, Unconfirmed
  <1>4. CASE Evict(t)
    BY <1>1, <1>2, <1>4 DEF Evict, AddressKinds
  <1>5. CASE Mine(t)
    BY <1>1, <1>2, <1>5 DEF Mine, AddressKinds
  <1>6. CASE Reorg(t)
    BY <1>1, <1>2, <1>6 DEF Reorg, AddressKinds
  <1> QED BY <1>3, <1>4, <1>5, <1>6

(* An answer brings what was missed.                                       *)
LEMMA MirrorAnswered ==
  ASSUME Sound, Sound', CaughtUp, Respond
  PROVE  Mirror!Next
  <1>1. /\ server' = server /\ watched' = watched /\ tracker' = tracker
        /\ unsure' = unsure \cup Contradicted /\ Syncing
    BY DEF Respond, serverVars
  <1>2. watched /\ ~Followed /\ ~Followed'
    BY <1>1 DEF Sound, LockInv, Followed
  <1>3. Upshot' \in [Txids -> Heights \cup {Absent}]
    BY UpshotType, OutlookType DEF Sound, TypeInv, Receivers, Upshot, Views, Version
  <1>4. unsure' = unsure \cup {t \in Txids : Upshot'[t] # server[t]}
    <2>1. Contradicted \subseteq Txids
      BY DEF Contradicted
    <2>2. \A t \in Contradicted : Upshot'[t] # server[t]
      BY UpshotAnswered
    <2>3. \A t \in Txids : Upshot'[t] # server[t] => t \in unsure'
      BY UpshotAnswered
    <2> QED BY <1>1, <2>1, <2>2, <2>3
  <1>5. \A t \in Txids \ unsure : Upshot'[t] \in {Upshot[t], server[t]}
    BY <1>1, UpshotAnswered
  <1>6. Mirror!Fetch
    BY <1>1, <1>2, <1>3, <1>4, <1>5 DEF Mirror!Fetch, Mirror!Views, Followed
  <1> QED BY <1>6 DEF Mirror!Next

(* An event of the address is handled.                                     *)
LEMMA MirrorHandled ==
  ASSUME Sound, Sound', CaughtUp, CaughtUp', HandleAddressEvent
  PROVE  [Mirror!Next]_(Mirror!vars)
  <1>1. /\ server' = server /\ watched' = watched /\ unsure' = unsure
    BY DEF HandleAddressEvent, serverVars
  <1>2. CASE watched
    <2>1. Upshot' = Upshot
      BY <1>2, UpshotHandled
    <2> QED BY <1>1, <2>1, MirrorKept
  <1>3. CASE ~watched
    <2> DEFINE t == Head(inbox.buf).tx.txid
    <2>1. t \in Txids
      <3>1. Head(inbox.buf) \in WebsocketEvent /\ Head(inbox.buf).kind \in AddressKinds
        BY ReceiveType DEF HandleAddressEvent, NextIs, Sound
      <3> QED BY <3>1, MessageType, EventType
    <2>2. Upshot' \in {Upshot, [Upshot EXCEPT ![t] = Absent]}
      BY <1>3, UpshotHandled
    <2> HIDE DEF t
    <2>3. CASE Upshot' = Upshot
      BY <1>1, <2>3, MirrorKept
    <2>4. CASE Upshot' = [Upshot EXCEPT ![t] = Absent]
      <3>1. ~Followed /\ ~Followed'
        BY <1>1, <1>3 DEF Followed
      <3>2. Mirror!Ignore(t)
        BY <1>1, <1>3, <2>4, <3>1 DEF Mirror!Ignore, Followed
      <3> QED BY <2>1, <3>2 DEF Mirror!Next
    <2> QED BY <2>2, <2>3, <2>4
  <1> QED BY <1>2, <1>3

(* Every step of the wallet, the connection and the server is one of       *)
(* AddressMirror, or none.                                                 *)
LEMMA StepMirrored ==
  Sound /\ Sound' /\ CaughtUp /\ CaughtUp' /\ [Next]_vars => [Mirror!Next]_(Mirror!vars)
  <1> SUFFICES ASSUME Sound, Sound', CaughtUp, CaughtUp', [Next]_vars
               PROVE  [Mirror!Next]_(Mirror!vars)
    OBVIOUS
  <1>1. ASSUME NEW t \in Txids, Appear(t) \/ Evict(t) \/ Mine(t) \/ Reorg(t)
        PROVE  Mirror!Next
    BY <1>1, MirrorChanged
  <1>2. CASE Connect
    BY <1>2, MirrorNoted DEF Connect
  <1>18. CASE ConnectFails
    BY <1>18, MirrorNoted DEF ConnectFails
  <1>3. CASE Die
    <2>1. Upshot' = Upshot
      BY <1>3 DEF Die, walletVars, Upshot
    <2> QED BY <1>3, <2>1, MirrorKept DEF Die, serverVars, walletVars
  <1>4. CASE Disconnect
    BY <1>4, MirrorNoted DEF Disconnect
  <1>5. CASE Track
    <2>1. Upshot' = Upshot
      BY <1>5 DEF Track, walletVars, Upshot
    <2> QED BY <1>5, <2>1, MirrorKept DEF Track, serverVars, walletVars
  <1>6. CASE LoopLagged
    <2>1. inbox'.buf = inbox.buf
      BY <1>6 DEF LoopLagged, Received, Sound, TypeInv, Receivers
    <2>2. Upshot' = Upshot
      BY <1>6, <2>1 DEF LoopLagged, walletVars, Upshot
    <2> QED BY <1>6, <2>2, MirrorKept DEF LoopLagged, serverVars, walletVars
  <1>7. CASE LoopDisconnected
    <2>1. /\ HasMessage(inbox) /\ Head(inbox.buf).kind \notin AddressKinds
          /\ inbox' = Received(inbox) /\ tracker' = tracker /\ reply' = reply
      BY <1>7 DEF LoopDisconnected, NextIs, walletVars, AddressKinds
    <2>2. Upshot' = Upshot
      BY <2>1, UpshotDropped DEF Sound
    <2> QED BY <1>7, <2>2, MirrorKept DEF LoopDisconnected, serverVars, walletVars
  <1>8. CASE HandleAddressEvent
    BY <1>8, MirrorHandled
  <1>9. CASE InitAddresses
    <2>1. /\ HasMessage(inbox) /\ Head(inbox.buf).kind \notin AddressKinds
          /\ inbox' = Received(inbox) /\ tracker' = tracker /\ reply' = reply
      BY <1>9 DEF InitAddresses, NextIs, AddressKinds
    <2>2. Upshot' = Upshot
      BY <2>1, UpshotDropped DEF Sound
    <2> QED BY <1>9, <2>2, MirrorKept DEF InitAddresses, serverVars
  <1>10. CASE WatchSubscribe
    <2>1. Upshot' = Upshot
      BY <1>10 DEF WatchSubscribe, Upshot
    <2> QED BY <1>10, <2>1, MirrorKept DEF WatchSubscribe, serverVars
  <1>11. CASE WatchInsert
    <2>1. /\ server' = server /\ unsure' = unsure /\ tracker' = tracker
          /\ watched' = TRUE /\ Upshot' = Upshot
      BY <1>11 DEF WatchInsert, serverVars, Upshot
    <2>2. CASE watched
      BY <2>1, <2>2, MirrorKept DEF Sound, TypeInv
    <2>3. CASE ~watched
      <3>1. tracker.loading
        BY <2>3 DEF Sound, LockInv, NewTracker
      <3>2. ~Followed /\ ~Followed'
        BY <2>1, <2>3, <3>1 DEF Followed
      <3>3. Mirror!Watch
        BY <2>1, <2>3, <3>2 DEF Mirror!Watch, Followed
      <3> QED BY <3>3 DEF Mirror!Next
    <2> QED BY <2>2, <2>3
  <1>12. CASE WatchReturn
    <2>1. Upshot' = Upshot
      BY <1>12 DEF WatchReturn, Upshot
    <2> QED BY <1>12, <2>1, MirrorKept DEF WatchReturn, serverVars
  <1>13. CASE SyncBegin
    <2>1. /\ tracker'.transactions = tracker.transactions
          /\ tracker'.queue = tracker.queue
      BY <1>13, BegunSync DEF SyncBegin, Sound, TypeInv
    <2>2. ~reply.answered /\ reply' = reply /\ inbox' = inbox
      BY <1>13 DEF SyncBegin, Sound, LockInv
    <2>3. Upshot' = Upshot
      BY <2>1, <2>2, UpshotIdle
    <2> QED BY <1>13, <2>3, MirrorKept DEF SyncBegin, serverVars
  <1>14. CASE Respond
    BY <1>14, MirrorAnswered
  <1>15. CASE FetchFails
    <2>1. ~reply.answered /\ ~reply'.answered /\ tracker' = tracker /\ inbox' = inbox
      BY <1>15 DEF FetchFails, SyncEnds, NoReply
    <2>2. Upshot' = Upshot
      BY <2>1, UpshotIdle
    <2> QED BY <1>15, <2>2, MirrorKept DEF FetchFails, serverVars
  <1>16. CASE SyncEnd
    <2>1. Upshot' = Upshot
      BY <1>16, UpshotSynced
    <2> QED BY <1>16, <2>1, MirrorKept DEF SyncEnd, serverVars
  <1>17. CASE UNCHANGED vars
    <2>1. Upshot' = Upshot
      BY <1>17 DEF vars, Upshot
    <2> QED BY <1>17, <2>1, MirrorKept DEF vars
  <1> QED
    BY <1>1, <1>2, <1>3, <1>4, <1>5, <1>6, <1>7, <1>8, <1>9, <1>10, <1>11, <1>12,
       <1>13, <1>14, <1>15, <1>16, <1>17, <1>18
    DEF Next, ServerStep, LoopStep, WatchStep, SyncStep

(* The synchronisation keeps the promise of AddressMirror: what the wallet *)
(* is going to show changes only with the server or towards it, and it     *)
(* follows the server only when nothing is missing, but for transactions in*)
(* doubt (sync_address_history, handle_address_event, watch,               *)
(* init_addresses).                                                        *)
THEOREM MirrorsServerCorrect == Spec => MirrorsServer
  <1> DEFINE Inv == Sound /\ CaughtUp
  <1>1. Init => Inv
    BY InitSound, InitCaughtUp
  <1>2. Inv /\ [Next]_vars => Inv'
    BY StepSound, StepCaughtUp
  <1>3. Init => Mirror!Init
    <2> SUFFICES ASSUME Init PROVE Mirror!Init
      OBVIOUS
    <2>1. /\ tracker.transactions = [t \in Txids |-> Absent] /\ tracker.queue = <<>>
          /\ inbox.buf = <<>> /\ ~reply.answered /\ tracker.loading
      BY DEF Init, NewTracker, Subscribed, NoReply
    <2>2. tracker.transactions \in Views
      BY <2>1 DEF Views, Version
    <2>3. Upshot = tracker.transactions
      <3>1. tracker.queue \o inbox.buf = <<>>
        BY <2>1
      <3> QED BY <2>1, <2>2, <3>1, EffectOfNone DEF Upshot, Outlook, Ahead
    <2> QED BY <2>1, <2>3 DEF Init, Mirror!Init
  <1>4. Inv /\ Inv' /\ [Next]_vars => [Mirror!Next]_(Mirror!vars)
    BY StepMirrored
  <1> QED BY <1>1, <1>2, <1>3, <1>4, PTL DEF Spec, MirrorsServer, Mirror!Spec
=============================================================================
