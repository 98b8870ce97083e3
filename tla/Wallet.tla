-------------------------------- MODULE Wallet --------------------------------
(***************************************************************************)
(* The wallet as a whole (src/src/wallet/mod.rs): a map from address to    *)
(* tracker, calls of its methods that run concurrently, and its event      *)
(* loop.  The map and each tracker have a lock of their own.               *)
(*                                                                         *)
(* AddressSync is about what one tracker holds; here a tracker is reduced  *)
(* to whether it is loaded, and the questions are about the map: which     *)
(* tracker a call reads, who waits for whom, and whether the subscription  *)
(* of the control thread (src/src/socket/control.rs) follows the map.      *)
(*                                                                         *)
(* A lock is not a variable: who holds it follows from where the tasks are.*)
(***************************************************************************)
EXTENDS Naturals

CONSTANTS
    Spks,        \* the addresses
    Calls,       \* the calls users make, each in a task of its own
    Requests,    \* what they may ask for: <<call, kind, addresses>>
    Loop,        \* the event loop's task
    Nobody,      \* for an address that is not in the map, or no tracker
    MaxBacklog   \* bound: Connected events that wait for the event loop

(* The methods of Wallet that users call.                                  *)
Kinds == {"watch", "unwatch", "get_and_watch", "get_state", "get_address_state"}

ASSUME WalletAssumption ==
    /\ Loop \notin Calls /\ Nobody \notin Calls
    /\ Nobody \notin Calls \X Spks
    /\ MaxBacklog \in Nat
    /\ Requests \subseteq Calls \X Kinds \X SUBSET Spks
    /\ \A r \in Requests :
          /\ r[2] \in {"get_and_watch", "get_address_state"} => \E s \in Spks : r[3] = {s}
          /\ r[2] = "get_state" => r[3] = Spks

VARIABLES
    addresses,  \* addresses[s]: the call that inserted the tracker of s
    tracker,    \* tracker[t]: how far tracker t is
    task,       \* task[k]: where task k is
    link,       \* "up" or "down", as the manager sees the websocket
    activeSpks, \* active_spks of the control thread, once it has received
                \* what waits for it in the control channel
    deaf,       \* the control channel overran, and the thread receives no more
    backlog,    \* Connected events the event loop has yet to receive
    fetched,    \* history: trackers whose last fetch was answered on this link
    overtaken,  \* history: trackers whose insertion came after the event
                \* that undid their Subscribe
    announced,  \* addresses of the Subscribes that the control channel took on
                \* this link, which an overrun may lose
    lost        \* history: addresses of the events that it lost on this link
controlVars == <<activeSpks, deaf, announced, lost>>
linkVars == <<link, backlog, controlVars>>
vars == <<addresses, tracker, task, linkVars, fetched, overtaken>>

Tasks == Calls \cup {Loop}

(* A tracker is named by the call that inserts it and its address.         *)
Trackers == Calls \X Spks

(* "failed": a fetch failed, and left the tracker loading.                 *)
TrackerStates == {"new", "loading", "failed", "loaded"}

Places == {"idle", "lock", "subscribe", "insert", "syncing", "fetching", "applying",
           "collecting", "reading", "handling", "panicked", "done"}

(* todo: the trackers the task has yet to sync or to read; at: the one it  *)
(* has locked, or waits for with the map's lock in its hands.              *)
TaskRecords ==
    [kind : Kinds \cup {"none"}, pc : Places,
     spks : SUBSET Spks, todo : SUBSET Trackers, at : Trackers \cup {Nobody}]

NewTask == [kind |-> "none", pc |-> "idle", spks |-> {}, todo |-> {}, at |-> Nobody]

Init ==
    /\ addresses = [s \in Spks |-> Nobody]
    /\ tracker = [t \in Trackers |-> "new"]
    /\ task = [k \in Tasks |-> NewTask]
    /\ link = "down" /\ activeSpks = {} /\ backlog = 0
    /\ fetched = {} /\ overtaken = {}
    /\ deaf = FALSE /\ announced = {} /\ lost = {}

-----------------------------------------------------------------------------
(* The locks.                                                              *)
(* Seeded fault: watch keeps the map's lock during its syncs.              *)
HoldsMapInSync(k) ==
    task[k].pc \in {"collecting", "handling", "syncing", "fetching", "applying"}

HoldsMap(k) ==
    \/ task[k].pc \in {"collecting", "handling"}
    \/ k = Loop /\ task[k].pc \in {"syncing", "fetching", "applying"}
MapFree == \A k \in Tasks : ~HoldsMap(k)

Holds(k, t) == task[k].at = t /\ task[k].pc \in {"fetching", "applying"}
Unlocked(t) == \A k \in Tasks : ~Holds(k, t)

InMap == {s \in Spks : addresses[s] # Nobody}
TrackerOf(s) == <<addresses[s], s>>

(* Seeded fault: addresses that are not in the map are looked up as well.  *)
TrackersOfAny(spks) == {TrackerOf(s) : s \in spks}

TrackersOf(spks) == {TrackerOf(s) : s \in spks \cap InMap}

(* track_scriptpubkeys and untrack_scriptpubkeys.  While the control thread*)
(* receives, what it will make of an event is decided when the event is    *)
(* sent; without a connection nobody receives it, and once the channel has *)
(* overrun it is lost, with the link still up.                             *)
Receives == link = "up" /\ ~deaf
Track(spks) ==
    /\ activeSpks' = IF Receives THEN activeSpks \cup spks ELSE activeSpks
    /\ announced' = IF Receives THEN announced \cup spks ELSE announced
    /\ lost' = IF deaf THEN lost \cup spks ELSE lost
    /\ UNCHANGED deaf
Untrack(spks) ==
    /\ activeSpks' = IF Receives THEN activeSpks \ spks ELSE activeSpks
    /\ lost' = IF deaf THEN lost \cup spks ELSE lost
    /\ UNCHANGED <<deaf, announced>>

(* The trackers of these addresses that a watch is about to insert.        *)
Inserting(spks) ==
    {t \in Trackers : task[t[1]].pc = "insert" /\ t[2] \in task[t[1]].spks \cap spks}

(* Task k goes on at pc; the rest of its record is kept.                   *)
Move(k, pc, todo, at) ==
    task' = [task EXCEPT ![k] = [@ EXCEPT !.pc = pc, !.todo = todo, !.at = at]]
Goto(k, pc) == Move(k, pc, task[k].todo, task[k].at)

-----------------------------------------------------------------------------
(* A user makes a call.  watch begins with its Subscribe, all others with  *)
(* the lock of the map.                                                    *)
Call(c, kind, spks) ==
    /\ task[c].pc = "idle"
    /\ task' = [task EXCEPT ![c] =
                   [kind |-> kind, pc |-> IF kind = "watch" THEN "subscribe" ELSE "lock",
                    spks |-> spks, todo |-> {}, at |-> Nobody]]
    /\ UNCHANGED <<addresses, tracker, linkVars, fetched, overtaken>>

(* get_and_watch looks the address up and gives the lock back, before it   *)
(* waits for the tracker or calls watch.                                   *)
LookUp(c) ==
    /\ task[c].pc = "lock" /\ task[c].kind = "get_and_watch"
    /\ MapFree
    /\ \E s \in task[c].spks :
           IF s \in InMap THEN Move(c, "reading", {TrackerOf(s)}, Nobody)
                          ELSE Goto(c, "subscribe")
    /\ UNCHANGED <<addresses, tracker, linkVars, fetched, overtaken>>

WatchSubscribe(c) ==
    /\ task[c].pc = "subscribe"
    /\ Track(task[c].spks)
    /\ Goto(c, "insert")
    /\ UNCHANGED <<addresses, tracker, link, backlog, fetched, overtaken>>

WatchInsert(c) ==
    /\ task[c].pc = "insert"
    /\ MapFree
    /\ LET new == task[c].spks \ InMap
       IN /\ addresses' = [s \in Spks |-> IF s \in new THEN c ELSE addresses[s]]
          /\ Move(c, "syncing", {c} \X new, Nobody)
    /\ UNCHANGED <<tracker, linkVars, fetched, overtaken>>

(* Seeded fault: the syncs are started and not awaited.                    *)
WatchCollectEarly(c) ==
    /\ task[c].pc = "syncing" /\ c # Loop
    /\ MapFree
    /\ Move(c, "collecting", TrackersOf(task[c].spks), Nobody)
    /\ UNCHANGED <<addresses, tracker, linkVars, fetched, overtaken>>

(* The lock of the map is taken again for the result.                      *)
WatchCollect(c) ==
    /\ task[c].pc = "syncing" /\ task[c].todo = {} /\ c # Loop
    /\ MapFree
    /\ Move(c, "collecting", TrackersOf(task[c].spks), Nobody)
    /\ UNCHANGED <<addresses, tracker, linkVars, fetched, overtaken>>

Panics(c) == task[c].kind \in {"watch", "get_and_watch"} /\ ~(task[c].spks \subseteq InMap)

(* The expect of watch: one of its addresses is not in the map any more.   *)
WatchPanics(c) ==
    /\ task[c].pc = "collecting" /\ Panics(c)
    /\ Move(c, "panicked", {}, Nobody)
    /\ UNCHANGED <<addresses, tracker, linkVars, fetched, overtaken>>

(* get_state and get_address_state.                                        *)
GetState(c) ==
    /\ task[c].pc = "lock" /\ task[c].kind \in {"get_state", "get_address_state"}
    /\ MapFree
    /\ Move(c, "collecting", TrackersOf(task[c].spks), Nobody)
    /\ UNCHANGED <<addresses, tracker, linkVars, fetched, overtaken>>

(* A tracker is locked, read and unlocked, by a call that holds the map or *)
(* by get_and_watch, which does not.                                       *)
Read(c, t) ==
    /\ task[c].pc \in {"collecting", "reading"}
    /\ t \in task[c].todo /\ Unlocked(t)
    /\ Move(c, task[c].pc, task[c].todo \ {t}, Nobody)
    /\ UNCHANGED <<addresses, tracker, linkVars, fetched, overtaken>>

Return(c) ==
    /\ task[c].pc \in {"collecting", "reading"}
    /\ task[c].todo = {} /\ (task[c].pc = "collecting" => ~Panics(c))
    /\ Move(c, "done", {}, Nobody)
    /\ UNCHANGED <<addresses, tracker, linkVars, fetched, overtaken>>

(* Seeded fault: what is being synced is removed, and stays subscribed.    *)
UnwatchQuietly(c) ==
    /\ task[c].pc = "lock" /\ task[c].kind = "unwatch"
    /\ MapFree
    /\ addresses' = [s \in Spks |-> IF s \in task[c].spks THEN Nobody ELSE addresses[s]]
    /\ Untrack({s \in task[c].spks \cap InMap : Unlocked(TrackerOf(s))})
    /\ overtaken' = (overtaken \ TrackersOf(task[c].spks)) \cup Inserting(task[c].spks)
    /\ Goto(c, "done")
    /\ fetched' = fetched \ TrackersOf(task[c].spks)
    /\ UNCHANGED <<tracker, link, backlog>>

(* The Unsubscribe is sent before the lock is given back.                  *)
Unwatch(c) ==
    /\ task[c].pc = "lock" /\ task[c].kind = "unwatch"
    /\ MapFree
    /\ addresses' = [s \in Spks |-> IF s \in task[c].spks THEN Nobody ELSE addresses[s]]
    /\ Untrack(task[c].spks)
    /\ overtaken' = (overtaken \ TrackersOf(task[c].spks)) \cup Inserting(task[c].spks)
    /\ Goto(c, "done")
    /\ fetched' = fetched \ TrackersOf(task[c].spks)
    /\ UNCHANGED <<tracker, link, backlog>>

-----------------------------------------------------------------------------
(* sync_address_history, called by watch and by init_addresses: it holds   *)
(* the tracker's lock across the fetch.                                    *)
SyncBegin(k, t) ==
    /\ task[k].pc = "syncing"
    /\ t \in task[k].todo /\ Unlocked(t)
    /\ Move(k, "fetching", task[k].todo \ {t}, t)
    /\ tracker' = [tracker EXCEPT ![t] = "loading"]
    /\ fetched' = fetched \ {t}
    /\ UNCHANGED <<addresses, linkVars, overtaken>>

(* External: the REST request is answered.                                 *)
FetchAnswered(k) ==
    /\ task[k].pc = "fetching"
    /\ Goto(k, "applying")
    /\ fetched' = fetched \cup {task[k].at}
    /\ UNCHANGED <<addresses, tracker, linkVars, overtaken>>

SyncEnds(k, state) ==
    /\ Move(k, "syncing", task[k].todo, Nobody)
    /\ tracker' = [tracker EXCEPT ![task[k].at] = state]
    /\ UNCHANGED <<addresses, linkVars, fetched, overtaken>>

(* Seeded fault: an address whose fetch fails is taken out of the map.     *)
FetchFailsAndRemoves(k) ==
    /\ task[k].pc = "fetching"
    /\ Move(k, "syncing", task[k].todo, Nobody)
    /\ tracker' = [tracker EXCEPT ![task[k].at] = "failed"]
    /\ addresses' = [addresses EXCEPT ![task[k].at[2]] = Nobody]
    /\ UNCHANGED <<linkVars, fetched, overtaken>>

(* The early return: nobody takes the tracker's loading flag back.         *)
FetchFails(k) == task[k].pc = "fetching" /\ SyncEnds(k, "failed")

SyncEnd(k) == task[k].pc = "applying" /\ SyncEnds(k, "loaded")

-----------------------------------------------------------------------------
(* The event loop.                                                         *)
LoopConnected ==
    /\ task[Loop].pc = "idle" /\ backlog > 0
    /\ backlog' = backlog - 1
    /\ Goto(Loop, "lock")
    /\ UNCHANGED <<addresses, tracker, link, controlVars, fetched, overtaken>>

(* Seeded fault: only trackers that are not loaded yet are subscribed.     *)
InitUnloaded ==
    /\ task[Loop].pc = "lock"
    /\ MapFree
    /\ Track({s \in InMap : tracker[TrackerOf(s)] # "loaded"})
    /\ Move(Loop, "syncing", TrackersOf(Spks), Nobody)
    /\ overtaken' = overtaken \ TrackersOf(Spks)
    /\ UNCHANGED <<addresses, tracker, link, backlog, fetched>>

(* Seeded fault: a tracker that is just being synced is passed over.       *)
InitUnlocked ==
    /\ task[Loop].pc = "lock"
    /\ MapFree
    /\ Track(InMap)
    /\ Move(Loop, "syncing", {t \in TrackersOf(Spks) : Unlocked(t)}, Nobody)
    /\ overtaken' = overtaken \ TrackersOf(Spks)
    /\ UNCHANGED <<addresses, tracker, link, backlog, fetched>>

(* init_addresses, up to the first sync.                                   *)
InitAddresses ==
    /\ task[Loop].pc = "lock"
    /\ MapFree
    /\ Track(InMap)
    /\ Move(Loop, "syncing", TrackersOf(Spks), Nobody)
    /\ overtaken' = overtaken \ TrackersOf(Spks)
    /\ UNCHANGED <<addresses, tracker, link, backlog, fetched>>

InitAddressesEnd ==
    /\ task[Loop].pc = "syncing" /\ task[Loop].todo = {}
    /\ Goto(Loop, "idle")
    /\ UNCHANGED <<addresses, tracker, linkVars, fetched, overtaken>>

(* An address event of s; one of an address that is not in the map is      *)
(* dropped.  The map's lock is held while the loop waits for the tracker's.*)
LoopAddressEvent(s) ==
    /\ task[Loop].pc = "idle"
    /\ MapFree
    /\ s \in InMap
    /\ Move(Loop, "handling", {}, TrackerOf(s))
    /\ UNCHANGED <<addresses, tracker, linkVars, fetched, overtaken>>

HandleAddressEvent ==
    /\ task[Loop].pc = "handling" /\ Unlocked(task[Loop].at)
    /\ Move(Loop, "idle", {}, Nobody)
    /\ UNCHANGED <<addresses, tracker, linkVars, fetched, overtaken>>

-----------------------------------------------------------------------------
(* The connection, as the wallet sees it, and the control thread's set.    *)
Connect ==
    /\ link = "down" /\ backlog < MaxBacklog
    /\ link' = "up"
    /\ backlog' = backlog + 1
    /\ fetched' = {}
    /\ overtaken' = overtaken \cup Inserting(Spks)
    /\ UNCHANGED <<addresses, tracker, task, controlVars>>

(* The control thread ends, and what it had received or not is gone.       *)
Disconnect ==
    /\ link = "up"
    /\ link' = "down" /\ activeSpks' = {}
    /\ deaf' = FALSE /\ announced' = {} /\ lost' = {}
    /\ UNCHANGED <<addresses, tracker, task, backlog, fetched, overtaken>>

(* Too many events, pings among them, wait while the control thread sends: *)
(* recv fails with Lagged, which its select does not match, and it waits   *)
(* for the disconnect signal only.  Some addresses lose the events that    *)
(* they waited for, and stay as they were before: without the Subscribe, or*)
(* with the Unsubscribe still to come.                                     *)
ControlLags ==
    /\ Receives
    /\ deaf' = TRUE
    /\ \E missed \in SUBSET announced :
          /\ lost' = missed
          /\ activeSpks' = (activeSpks \ missed) \cup (missed \ activeSpks)
    /\ announced' = {}
    /\ UNCHANGED <<addresses, tracker, task, link, backlog, fetched, overtaken>>

-----------------------------------------------------------------------------
CallStep(c) ==
    \/ LookUp(c) \/ WatchSubscribe(c) \/ WatchInsert(c) \/ WatchCollect(c)
    \/ WatchPanics(c) \/ GetState(c) \/ Return(c) \/ Unwatch(c)
    \/ \E t \in Trackers : Read(c, t)

SyncStep(k) ==
    \/ FetchAnswered(k) \/ FetchFails(k) \/ SyncEnd(k)
    \/ \E t \in Trackers : SyncBegin(k, t)

LoopStep == LoopConnected \/ InitAddresses \/ InitAddressesEnd \/ HandleAddressEvent

Next ==
    \/ \E r \in Requests : Call(r[1], r[2], r[3])
    \/ \E c \in Calls : CallStep(c)
    \/ \E k \in Tasks : SyncStep(k)
    \/ LoopStep
    \/ \E s \in Spks : LoopAddressEvent(s)
    \/ Connect \/ Disconnect \/ ControlLags

Spec == Init /\ [][Next]_vars

(* Tasks are scheduled, requests end, and the mutexes are FIFO, so that a  *)
(* task whose turn comes up again and again gets it: strong fairness.      *)
Fairness ==
    /\ \A c \in Calls : SF_vars(CallStep(c) \/ SyncStep(c))
    /\ SF_vars(LoopStep \/ SyncStep(Loop))

FairSpec == Spec /\ Fairness
-----------------------------------------------------------------------------
TypeOK ==
    /\ addresses \in [Spks -> Calls \cup {Nobody}]
    /\ tracker \in [Trackers -> TrackerStates]
    /\ task \in [Tasks -> TaskRecords]
    /\ link \in {"up", "down"} /\ backlog \in 0..MaxBacklog
    /\ activeSpks \subseteq Spks /\ deaf \in BOOLEAN
    /\ announced \subseteq Spks /\ lost \subseteq Spks
    /\ fetched \subseteq Trackers /\ overtaken \subseteq Trackers

(* No address stays subscribed that nobody watches, however watch, unwatch *)
(* and reconnections interleave (Wallet::watch, unwatch, init_addresses):  *)
(* a subscription is owed to the map, to a watch about to insert, or to an *)
(* event about this very address that an overrun channel lost              *)
(* (control.rs:65).                                                        *)
NoStraySubscription ==
    \A s \in activeSpks :
        \/ s \in InMap \/ s \in lost
        \/ \E c \in Calls : task[c].pc = "insert" /\ s \in task[c].spks

(* Conversely, once the Connected of a link was dealt with, every address  *)
(* in the map is subscribed on it, unless the last event about it was lost,*)
(* or watch was overtaken between its Subscribe and its insertion, by a new*)
(* connection or by an unwatch.                                            *)
Settled == link = "up" /\ backlog = 0 /\ task[Loop].pc # "lock"
WatchedIsSubscribed ==
    Settled =>
        \A s \in InMap : s \in activeSpks \/ s \in lost \/ TrackerOf(s) \in overtaken

(* What a loaded tracker in the map holds was fetched on the present link  *)
(* once init_addresses is through: no snapshot of an earlier link survives *)
(* it, not even one that a call of watch is applying meanwhile.            *)
LoadedIsCurrent ==
    Settled /\ task[Loop].pc \in {"idle", "handling"} =>
        \A s \in InMap : tracker[TrackerOf(s)] = "loaded" => TrackerOf(s) \in fetched

(* watch reads a tracker that it inserted only after its sync has ended or *)
(* failed, although it gives every lock back in between; a tracker that    *)
(* another call inserted it may read before that.                          *)
OwnTrackersSynced ==
    \A c \in Calls : task[c].pc = "collecting" =>
        \A s \in Spks : <<c, s>> \in task[c].todo => tracker[<<c, s>>] # "new"

(* wallet/mod.rs:208, "spk should exist in addresses, since we just        *)
(* inserted it": watch panics only when an unwatch of one of its addresses *)
(* has ended.                                                              *)
PanicsOnlyWhenUnwatched ==
    \A c \in Calls : task[c].pc = "panicked" =>
        \E u \in Calls : /\ task[u].kind = "unwatch" /\ task[u].pc = "done"
                         /\ task[u].spks \cap task[c].spks # {}

(* Every call ends, whoever holds which lock across which request: there   *)
(* comes a time when none is under way, and each task makes one call.      *)
CallsEnd == []<>(\A c \in Calls : task[c].pc \in {"idle", "done", "panicked"})

(* The event loop comes back to receive (Wallet::connect), after it waited *)
(* for a tracker with the map's lock in its hands.                         *)
LoopReturns == []<>(task[Loop].pc = "idle")
=============================================================================
