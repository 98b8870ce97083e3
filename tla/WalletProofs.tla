----------------------------- MODULE WalletProofs -----------------------------
(***************************************************************************)
(* Theorems about Wallet, for every set of addresses, of calls and of      *)
(* requests.                                                               *)
(***************************************************************************)
EXTENDS Wallet, TLAPS

(* A call has inserted its trackers.                                       *)
Inserted(c) == task[c].pc \notin {"idle", "lock", "subscribe", "insert"}

(* What the states of a task mean: a task that syncs knows which tracker,  *)
(* the loop goes on syncing only inside init_addresses, only the loop      *)
(* handles events and only calls read.                                     *)
PlacesOK ==
    /\ \A k \in Tasks : task[k].pc \in {"fetching", "applying", "handling"} =>
                            task[k].at \in Trackers
    /\ task[Loop].pc \in {"idle", "lock", "syncing", "fetching", "applying", "handling"}
    /\ task[Loop].pc \in {"idle", "lock", "handling"} => task[Loop].todo = {}
    /\ \A c \in Calls : task[c].pc # "handling"

TypeInv == TypeOK /\ PlacesOK

LEMMA InitTypes == Init => TypeInv
  <1> SUFFICES ASSUME Init PROVE TypeInv
    OBVIOUS
  <1>1. TypeOK
    <2>1. NewTask \in TaskRecords
      BY DEF NewTask, TaskRecords, Places
    <2>2. /\ addresses \in [Spks -> Calls \cup {Nobody}]
          /\ tracker \in [Trackers -> TrackerStates]
          /\ task \in [Tasks -> TaskRecords]
      BY <2>1 DEF Init, TrackerStates
    <2>3. /\ link \in {"up", "down"} /\ backlog \in 0..MaxBacklog
          /\ activeSpks \subseteq Spks /\ announced \subseteq Spks /\ lost \subseteq Spks
          /\ fetched \subseteq Trackers /\ overtaken \subseteq Trackers
      BY WalletAssumption DEF Init
    <2>4. deaf \in BOOLEAN
      BY DEF Init
    <2> QED
      BY <2>2, <2>3, <2>4 DEF TypeOK
  <1>2. PlacesOK
    BY WalletAssumption DEF Init, PlacesOK, NewTask, Tasks
  <1> QED
    BY <1>1, <1>2 DEF TypeInv

LEMMA TrackersOfTypes ==
  ASSUME TypeOK, NEW spks \in SUBSET Spks
  PROVE  TrackersOf(spks) \subseteq Trackers
  BY WalletAssumption DEF TypeOK, TrackersOf, TrackerOf, InMap, Trackers

LEMMA TrackTypes ==
  ASSUME TypeOK, NEW spks \in SUBSET Spks, Track(spks) \/ Untrack(spks)
  PROVE  /\ activeSpks' \subseteq Spks /\ deaf' \in BOOLEAN
         /\ announced' \subseteq Spks /\ lost' \subseteq Spks
  BY DEF TypeOK, Track, Untrack

(* A task that moves keeps its kind and its addresses; the others stay.    *)
Moved(k, pc, todo, at) ==
    /\ \A j \in Tasks : j # k => task'[j] = task[j]
    /\ task'[k].kind = task[k].kind /\ task'[k].spks = task[k].spks
    /\ task'[k].pc = pc /\ task'[k].todo = todo /\ task'[k].at = at

LEMMA MoveEffect ==
  ASSUME TypeOK, NEW k \in Tasks, NEW pc, NEW todo, NEW at, Move(k, pc, todo, at)
  PROVE  Moved(k, pc, todo, at)
  <1> DEFINE r == [task[k] EXCEPT !.pc = pc, !.todo = todo, !.at = at]
  <1>1. task[k] \in TaskRecords
    BY DEF TypeOK
  <1>2. /\ r.kind = task[k].kind /\ r.spks = task[k].spks
        /\ r.pc = pc /\ r.todo = todo /\ r.at = at
    BY <1>1 DEF TaskRecords
  <1>3. task' = [task EXCEPT ![k] = r]
    BY DEF Move
  <1> HIDE DEF r
  <1> QED
    BY <1>2, <1>3 DEF TypeOK, Moved

LEMMA MoveTypes ==
  ASSUME TypeOK, NEW k \in Tasks, NEW pc \in Places, NEW todo \in SUBSET Trackers,
         NEW at \in Trackers \cup {Nobody}, Move(k, pc, todo, at)
  PROVE  task' \in [Tasks -> TaskRecords]
  <1> DEFINE r == [task[k] EXCEPT !.pc = pc, !.todo = todo, !.at = at]
  <1>1. task[k] \in TaskRecords
    BY DEF TypeOK
  <1>2. r \in TaskRecords
    BY <1>1 DEF TaskRecords
  <1>3. task' = [task EXCEPT ![k] = r]
    BY DEF Move
  <1> HIDE DEF r
  <1> QED
    BY <1>2, <1>3 DEF TypeOK

(* A call that is made, and no other task, gets its kind and addresses.    *)
LEMMA CallEffect ==
  ASSUME TypeOK, NEW c \in Calls, NEW kind \in Kinds, NEW spks \in SUBSET Spks,
         Call(c, kind, spks)
  PROVE  /\ task' \in [Tasks -> TaskRecords]
         /\ \A j \in Tasks : j # c => task'[j] = task[j]
         /\ task[c].pc = "idle" /\ task'[c].kind = kind /\ task'[c].spks = spks
         /\ task'[c].pc = (IF kind = "watch" THEN "subscribe" ELSE "lock")
         /\ task'[c].todo = {}
  <1> DEFINE r == [kind |-> kind, pc |-> IF kind = "watch" THEN "subscribe" ELSE "lock",
                   spks |-> spks, todo |-> {}, at |-> Nobody]
  <1>1. r \in TaskRecords
    BY DEF TaskRecords, Places
  <1>2. task' = [task EXCEPT ![c] = r]
    BY DEF Call
  <1>3. /\ r.kind = kind /\ r.spks = spks /\ r.todo = {}
        /\ r.pc = (IF kind = "watch" THEN "subscribe" ELSE "lock")
    OBVIOUS
  <1>4. c \in Tasks /\ task[c].pc = "idle"
    BY DEF Tasks, Call
  <1> HIDE DEF r
  <1> QED
    BY <1>1, <1>2, <1>3, <1>4 DEF TypeOK

(* Every action keeps the types and the places.                            *)
LEMMA TypeStep == TypeInv /\ [Next]_vars => TypeInv'
  <1> SUFFICES ASSUME TypeInv, [Next]_vars PROVE TypeInv'
    OBVIOUS
  <1>0. TypeOK /\ PlacesOK
    BY DEF TypeInv
  <1>t. Loop \in Tasks /\ \A c \in Calls : c \in Tasks /\ c # Loop
    BY WalletAssumption DEF Tasks
  <1>1. ASSUME NEW r \in Requests, Call(r[1], r[2], r[3]) PROVE TypeInv'
    <2>0. r[1] \in Calls /\ r[2] \in Kinds /\ r[3] \in SUBSET Spks
      BY WalletAssumption
    <2>1. /\ task' \in [Tasks -> TaskRecords]
          /\ \A j \in Tasks : j # r[1] => task'[j] = task[j]
          /\ task'[r[1]].pc \in {"subscribe", "lock"}
      BY <1>0, <1>1, <2>0, CallEffect
    <2>2. TypeOK'
      BY <1>0, <1>1, <2>1 DEF Call, TypeOK, linkVars, controlVars
    <2>3. PlacesOK'
      BY <1>0, <1>t, <2>0, <2>1 DEF PlacesOK
    <2> QED
      BY <2>2, <2>3 DEF TypeInv
  <1>2. ASSUME NEW c \in Calls, LookUp(c) PROVE TypeInv'
    <2>1. PICK s \in Spks : IF s \in InMap THEN Move(c, "reading", {TrackerOf(s)}, Nobody)
                                          ELSE Goto(c, "subscribe")
      BY <1>0, <1>t, <1>2 DEF LookUp, TypeOK, TaskRecords
    <2>2. s \in InMap => TrackerOf(s) \in Trackers
      BY <1>0 DEF TypeOK, InMap, TrackerOf, Trackers
    <2>3. CASE s \in InMap
      <3>1. task' \in [Tasks -> TaskRecords]
        BY <1>0, <1>t, <2>1, <2>2, <2>3, MoveTypes DEF Places
      <3>2. Moved(c, "reading", {TrackerOf(s)}, Nobody)
        BY <1>0, <1>t, <2>1, <2>3, MoveEffect
      <3> QED
        BY <1>0, <1>t, <1>2, <3>1, <3>2 DEF LookUp, TypeInv, TypeOK, PlacesOK, Moved, linkVars, controlVars
    <2>4. CASE s \notin InMap
      <3>1. task[c].todo \in SUBSET Trackers /\ task[c].at \in Trackers \cup {Nobody}
        BY <1>0, <1>t DEF TypeOK, TaskRecords
      <3>2. Move(c, "subscribe", task[c].todo, task[c].at)
        BY <2>1, <2>4 DEF Goto
      <3>3. task' \in [Tasks -> TaskRecords]
        BY <1>0, <1>t, <3>1, <3>2, MoveTypes DEF Places
      <3>4. Moved(c, "subscribe", task[c].todo, task[c].at)
        BY <1>0, <1>t, <3>2, MoveEffect
      <3> QED
        BY <1>0, <1>t, <1>2, <3>3, <3>4 DEF LookUp, TypeInv, TypeOK, PlacesOK, Moved, linkVars, controlVars
    <2> QED
      BY <2>3, <2>4
  <1>3. ASSUME NEW c \in Calls, WatchSubscribe(c) PROVE TypeInv'
    <2>1. Move(c, "insert", task[c].todo, task[c].at)
      BY <1>3 DEF WatchSubscribe, Goto
    <2>3. task[c].todo \in SUBSET Trackers /\ task[c].at \in Trackers \cup {Nobody}
      BY <1>0, <1>t DEF TypeOK, TaskRecords
    <2>4. task' \in [Tasks -> TaskRecords]
      BY <1>0, <1>t, <2>1, <2>3, MoveTypes DEF Places
    <2>5. Moved(c, "insert", task[c].todo, task[c].at)
      BY <1>0, <1>t, <2>1, MoveEffect
    <2>6. /\ activeSpks' \subseteq Spks /\ deaf' \in BOOLEAN
         /\ announced' \subseteq Spks /\ lost' \subseteq Spks
      BY <1>0, <1>t, <1>3, TrackTypes DEF WatchSubscribe, TypeOK, TaskRecords
    <2>7. TypeOK'
      BY <1>0, <1>3, <2>4, <2>6 DEF WatchSubscribe, TypeOK, linkVars, controlVars
    <2>8. PlacesOK'
      BY <1>0, <1>t, <2>5 DEF PlacesOK, Moved
    <2> QED
      BY <2>7, <2>8 DEF TypeInv
  <1>4. ASSUME NEW c \in Calls, WatchInsert(c) PROVE TypeInv'
    <2>0. {c} \X (task[c].spks \ InMap) \in SUBSET Trackers
      BY <1>0, <1>t DEF TypeOK, TaskRecords, Trackers
    <2>1. Move(c, "syncing", {c} \X (task[c].spks \ InMap), Nobody)
      BY <1>4 DEF WatchInsert
    <2>4. task' \in [Tasks -> TaskRecords]
      BY <1>0, <1>t, <2>0, <2>1, MoveTypes DEF Places
    <2>5. Moved(c, "syncing", {c} \X (task[c].spks \ InMap), Nobody)
      BY <1>0, <1>t, <2>1, MoveEffect
    <2>7. TypeOK'
      BY <1>0, <1>4, <2>0, <2>4 DEF WatchInsert, TypeOK, linkVars, controlVars
    <2>8. PlacesOK'
      BY <1>0, <1>t, <2>0, <2>5 DEF PlacesOK, Moved
    <2> QED
      BY <2>7, <2>8 DEF TypeInv
  <1>5. ASSUME NEW c \in Calls, WatchCollect(c) PROVE TypeInv'
    <2>0. TrackersOf(task[c].spks) \in SUBSET Trackers
      BY <1>0, <1>t, TrackersOfTypes DEF TypeOK, TaskRecords
    <2>1. Move(c, "collecting", TrackersOf(task[c].spks), Nobody)
      BY <1>5 DEF WatchCollect
    <2>4. task' \in [Tasks -> TaskRecords]
      BY <1>0, <1>t, <2>0, <2>1, MoveTypes DEF Places
    <2>5. Moved(c, "collecting", TrackersOf(task[c].spks), Nobody)
      BY <1>0, <1>t, <2>1, MoveEffect
    <2>7. TypeOK'
      BY <1>0, <1>5, <2>0, <2>4 DEF WatchCollect, TypeOK, linkVars, controlVars
    <2>8. PlacesOK'
      BY <1>0, <1>t, <2>0, <2>5 DEF PlacesOK, Moved
    <2> QED
      BY <2>7, <2>8 DEF TypeInv
  <1>6. ASSUME NEW c \in Calls, WatchPanics(c) PROVE TypeInv'
    <2>1. Move(c, "panicked", {}, Nobody)
      BY <1>6 DEF WatchPanics
    <2>4. task' \in [Tasks -> TaskRecords]
      BY <1>0, <1>t, <2>1, MoveTypes DEF Places
    <2>5. Moved(c, "panicked", {}, Nobody)
      BY <1>0, <1>t, <2>1, MoveEffect
    <2>7. TypeOK'
      BY <1>0, <1>6, <2>4 DEF WatchPanics, TypeOK, linkVars, controlVars
    <2>8. PlacesOK'
      BY <1>0, <1>t, <2>5 DEF PlacesOK, Moved
    <2> QED
      BY <2>7, <2>8 DEF TypeInv
  <1>7. ASSUME NEW c \in Calls, GetState(c) PROVE TypeInv'
    <2>0. TrackersOf(task[c].spks) \in SUBSET Trackers
      BY <1>0, <1>t, TrackersOfTypes DEF TypeOK, TaskRecords
    <2>1. Move(c, "collecting", TrackersOf(task[c].spks), Nobody)
      BY <1>7 DEF GetState
    <2>4. task' \in [Tasks -> TaskRecords]
      BY <1>0, <1>t, <2>0, <2>1, MoveTypes DEF Places
    <2>5. Moved(c, "collecting", TrackersOf(task[c].spks), Nobody)
      BY <1>0, <1>t, <2>1, MoveEffect
    <2>7. TypeOK'
      BY <1>0, <1>7, <2>0, <2>4 DEF GetState, TypeOK, linkVars, controlVars
    <2>8. PlacesOK'
      BY <1>0, <1>t, <2>0, <2>5 DEF PlacesOK, Moved
    <2> QED
      BY <2>7, <2>8 DEF TypeInv
  <1>8. ASSUME NEW c \in Calls, NEW t \in Trackers, Read(c, t) PROVE TypeInv'
    <2>1. Move(c, task[c].pc, task[c].todo \ {t}, Nobody)
      BY <1>8 DEF Read
    <2>2. task[c].pc \in {"collecting", "reading"}
      BY <1>0, <1>8 DEF Read, PlacesOK
    <2>3. task[c].pc \in Places /\ task[c].todo \ {t} \in SUBSET Trackers
      BY <1>0, <1>t DEF TypeOK, TaskRecords
    <2>4. task' \in [Tasks -> TaskRecords]
      BY <1>0, <1>t, <2>1, <2>3, MoveTypes DEF Places
    <2>5. Moved(c, task[c].pc, task[c].todo \ {t}, Nobody)
      BY <1>0, <1>t, <2>1, MoveEffect
    <2>7. TypeOK'
      BY <1>0, <1>8, <2>4 DEF Read, TypeOK, linkVars, controlVars
    <2>8. PlacesOK'
      BY <1>0, <1>t, <2>2, <2>5 DEF PlacesOK, Moved
    <2> QED
      BY <2>7, <2>8 DEF TypeInv
  <1>9. ASSUME NEW c \in Calls, Return(c) PROVE TypeInv'
    <2>1. Move(c, "done", {}, Nobody)
      BY <1>9 DEF Return
    <2>4. task' \in [Tasks -> TaskRecords]
      BY <1>0, <1>t, <2>1, MoveTypes DEF Places
    <2>5. Moved(c, "done", {}, Nobody)
      BY <1>0, <1>t, <2>1, MoveEffect
    <2>7. TypeOK'
      BY <1>0, <1>9, <2>4 DEF Return, TypeOK, linkVars, controlVars
    <2>8. PlacesOK'
      BY <1>0, <1>t, <2>5 DEF PlacesOK, Moved
    <2> QED
      BY <2>7, <2>8 DEF TypeInv
  <1>10. ASSUME NEW c \in Calls, Unwatch(c) PROVE TypeInv'
    <2>1. Move(c, "done", task[c].todo, task[c].at)
      BY <1>10 DEF Unwatch, Goto
    <2>3. task[c].todo \in SUBSET Trackers /\ task[c].at \in Trackers \cup {Nobody}
      BY <1>0, <1>t DEF TypeOK, TaskRecords
    <2>4. task' \in [Tasks -> TaskRecords]
      BY <1>0, <1>t, <2>1, <2>3, MoveTypes DEF Places
    <2>5. Moved(c, "done", task[c].todo, task[c].at)
      BY <1>0, <1>t, <2>1, MoveEffect
    <2>6. /\ activeSpks' \subseteq Spks /\ deaf' \in BOOLEAN
         /\ announced' \subseteq Spks /\ lost' \subseteq Spks
      BY <1>0, <1>t, <1>10, TrackTypes DEF Unwatch, TypeOK, TaskRecords
    <2>9. overtaken' \subseteq Trackers
      BY <1>0, <1>10 DEF Unwatch, TypeOK, Inserting
    <2>7. TypeOK'
      BY <1>0, <1>10, <2>4, <2>6, <2>9 DEF Unwatch, TypeOK, linkVars, controlVars
    <2>8. PlacesOK'
      BY <1>0, <1>t, <2>5 DEF PlacesOK, Moved
    <2> QED
      BY <2>7, <2>8 DEF TypeInv
  <1>11. ASSUME NEW k \in Tasks, NEW t \in Trackers, SyncBegin(k, t) PROVE TypeInv'
    <2>1. Move(k, "fetching", task[k].todo \ {t}, t)
      BY <1>11 DEF SyncBegin
    <2>2. task[k].pc = "syncing"
      BY <1>0, <1>11 DEF SyncBegin, PlacesOK
    <2>3. task[k].todo \ {t} \in SUBSET Trackers
      BY <1>0, <1>t DEF TypeOK, TaskRecords
    <2>4. task' \in [Tasks -> TaskRecords]
      BY <1>0, <1>t, <2>1, <2>3, MoveTypes DEF Places
    <2>5. Moved(k, "fetching", task[k].todo \ {t}, t)
      BY <1>0, <1>t, <2>1, MoveEffect
    <2>7. TypeOK'
      BY <1>0, <1>11, <2>4 DEF SyncBegin, TypeOK, TrackerStates, linkVars, controlVars
    <2>8. PlacesOK'
      BY <1>0, <1>t, <2>2, <2>5 DEF PlacesOK, Moved
    <2> QED
      BY <2>7, <2>8 DEF TypeInv
  <1>12. ASSUME NEW k \in Tasks, FetchAnswered(k) PROVE TypeInv'
    <2>1. Move(k, "applying", task[k].todo, task[k].at)
      BY <1>12 DEF FetchAnswered, Goto
    <2>2. task[k].pc = "fetching" /\ task[k].at \in Trackers
      BY <1>0, <1>12 DEF FetchAnswered, PlacesOK
    <2>3. task[k].todo \in SUBSET Trackers /\ task[k].at \in Trackers \cup {Nobody}
      BY <1>0, <1>t DEF TypeOK, TaskRecords
    <2>4. task' \in [Tasks -> TaskRecords]
      BY <1>0, <1>t, <2>1, <2>3, MoveTypes DEF Places
    <2>5. Moved(k, "applying", task[k].todo, task[k].at)
      BY <1>0, <1>t, <2>1, MoveEffect
    <2>6. fetched' \subseteq Trackers
      BY <1>0, <1>12, <2>2 DEF FetchAnswered, TypeOK
    <2>7. TypeOK'
      BY <1>0, <1>12, <2>4, <2>6 DEF FetchAnswered, TypeOK, linkVars, controlVars
    <2>8. PlacesOK'
      BY <1>0, <1>t, <2>2, <2>5 DEF PlacesOK, Moved
    <2> QED
      BY <2>7, <2>8 DEF TypeInv
  <1>13. ASSUME NEW k \in Tasks, FetchFails(k) PROVE TypeInv'
    <2>1. Move(k, "syncing", task[k].todo, Nobody)
      BY <1>13 DEF FetchFails, SyncEnds
    <2>2. task[k].pc = "fetching" /\ task[k].at \in Trackers
      BY <1>0, <1>13 DEF FetchFails, PlacesOK
    <2>3. task[k].todo \in SUBSET Trackers
      BY <1>0, <1>t DEF TypeOK, TaskRecords
    <2>4. task' \in [Tasks -> TaskRecords]
      BY <1>0, <1>t, <2>1, <2>3, MoveTypes DEF Places
    <2>5. Moved(k, "syncing", task[k].todo, Nobody)
      BY <1>0, <1>t, <2>1, MoveEffect
    <2>7. TypeOK'
      BY <1>0, <1>13, <2>4 DEF FetchFails, TypeOK, TrackerStates, SyncEnds, linkVars, controlVars
    <2>8. PlacesOK'
      BY <1>0, <1>t, <2>2, <2>5 DEF PlacesOK, Moved
    <2> QED
      BY <2>7, <2>8 DEF TypeInv
  <1>14. ASSUME NEW k \in Tasks, SyncEnd(k) PROVE TypeInv'
    <2>1. Move(k, "syncing", task[k].todo, Nobody)
      BY <1>14 DEF SyncEnd, SyncEnds
    <2>2. task[k].pc = "applying" /\ task[k].at \in Trackers
      BY <1>0, <1>14 DEF SyncEnd, PlacesOK
    <2>3. task[k].todo \in SUBSET Trackers
      BY <1>0, <1>t DEF TypeOK, TaskRecords
    <2>4. task' \in [Tasks -> TaskRecords]
      BY <1>0, <1>t, <2>1, <2>3, MoveTypes DEF Places
    <2>5. Moved(k, "syncing", task[k].todo, Nobody)
      BY <1>0, <1>t, <2>1, MoveEffect
    <2>7. TypeOK'
      BY <1>0, <1>14, <2>4 DEF SyncEnd, TypeOK, TrackerStates, SyncEnds, linkVars, controlVars
    <2>8. PlacesOK'
      BY <1>0, <1>t, <2>2, <2>5 DEF PlacesOK, Moved
    <2> QED
      BY <2>7, <2>8 DEF TypeInv
  <1>15. ASSUME LoopConnected PROVE TypeInv'
    <2>1. Move(Loop, "lock", task[Loop].todo, task[Loop].at)
      BY <1>15 DEF LoopConnected, Goto
    <2>2. task[Loop].pc = "idle"
      BY <1>0, <1>15 DEF LoopConnected, PlacesOK
    <2>3. task[Loop].todo \in SUBSET Trackers /\ task[Loop].at \in Trackers \cup {Nobody}
      BY <1>0, <1>t DEF TypeOK, TaskRecords
    <2>4. task' \in [Tasks -> TaskRecords]
      BY <1>0, <1>t, <2>1, <2>3, MoveTypes DEF Places
    <2>5. Moved(Loop, "lock", task[Loop].todo, task[Loop].at)
      BY <1>0, <1>t, <2>1, MoveEffect
    <2>6. backlog' \in 0..MaxBacklog
      BY <1>0, <1>15, WalletAssumption DEF LoopConnected, TypeOK
    <2>7. TypeOK'
      BY <1>0, <1>15, <2>4, <2>6 DEF LoopConnected, TypeOK, linkVars, controlVars
    <2>8. PlacesOK'
      BY <1>0, <1>t, <2>2, <2>5 DEF PlacesOK, Moved
    <2> QED
      BY <2>7, <2>8 DEF TypeInv
  <1>16. ASSUME InitAddresses PROVE TypeInv'
    <2>0. TrackersOf(Spks) \in SUBSET Trackers
      BY <1>0, TrackersOfTypes
    <2>1. Move(Loop, "syncing", TrackersOf(Spks), Nobody)
      BY <1>16 DEF InitAddresses
    <2>4. task' \in [Tasks -> TaskRecords]
      BY <1>0, <1>t, <2>0, <2>1, MoveTypes DEF Places
    <2>5. Moved(Loop, "syncing", TrackersOf(Spks), Nobody)
      BY <1>0, <1>t, <2>1, MoveEffect
    <2>6. /\ activeSpks' \subseteq Spks /\ deaf' \in BOOLEAN
         /\ announced' \subseteq Spks /\ lost' \subseteq Spks
      BY <1>0, <1>16, TrackTypes DEF InitAddresses, InMap
    <2>7. TypeOK'
      BY <1>0, <1>16, <2>0, <2>4, <2>6 DEF InitAddresses, TypeOK, linkVars, controlVars
    <2>8. PlacesOK'
      BY <1>0, <1>t, <2>0, <2>5 DEF PlacesOK, Moved
    <2> QED
      BY <2>7, <2>8 DEF TypeInv
  <1>17. ASSUME InitAddressesEnd PROVE TypeInv'
    <2>1. Move(Loop, "idle", task[Loop].todo, task[Loop].at)
      BY <1>17 DEF InitAddressesEnd, Goto
    <2>2. task[Loop].todo = {}
      BY <1>0, <1>17 DEF InitAddressesEnd, PlacesOK
    <2>3. task[Loop].todo \in SUBSET Trackers /\ task[Loop].at \in Trackers \cup {Nobody}
      BY <1>0, <1>t DEF TypeOK, TaskRecords
    <2>4. task' \in [Tasks -> TaskRecords]
      BY <1>0, <1>t, <2>1, <2>3, MoveTypes DEF Places
    <2>5. Moved(Loop, "idle", task[Loop].todo, task[Loop].at)
      BY <1>0, <1>t, <2>1, MoveEffect
    <2>7. TypeOK'
      BY <1>0, <1>17, <2>4 DEF InitAddressesEnd, TypeOK, linkVars, controlVars
    <2>8. PlacesOK'
      BY <1>0, <1>t, <2>2, <2>5 DEF PlacesOK, Moved
    <2> QED
      BY <2>7, <2>8 DEF TypeInv
  <1>18. ASSUME NEW s \in Spks, LoopAddressEvent(s) PROVE TypeInv'
    <2>0. TrackerOf(s) \in Trackers
      BY <1>0, <1>18, WalletAssumption DEF TypeOK, TrackerOf, InMap, Trackers, LoopAddressEvent
    <2>1. Move(Loop, "handling", {}, TrackerOf(s))
      BY <1>18 DEF LoopAddressEvent
    <2>4. task' \in [Tasks -> TaskRecords]
      BY <1>0, <1>t, <2>0, <2>1, MoveTypes DEF Places
    <2>5. Moved(Loop, "handling", {}, TrackerOf(s))
      BY <1>0, <1>t, <2>1, MoveEffect
    <2>7. TypeOK'
      BY <1>0, <1>18, <2>0, <2>4 DEF LoopAddressEvent, TypeOK, linkVars, controlVars
    <2>8. PlacesOK'
      BY <1>0, <1>t, <2>0, <2>5 DEF PlacesOK, Moved
    <2> QED
      BY <2>7, <2>8 DEF TypeInv
  <1>19. ASSUME HandleAddressEvent PROVE TypeInv'
    <2>1. Move(Loop, "idle", {}, Nobody)
      BY <1>19 DEF HandleAddressEvent
    <2>4. task' \in [Tasks -> TaskRecords]
      BY <1>0, <1>t, <2>1, MoveTypes DEF Places
    <2>5. Moved(Loop, "idle", {}, Nobody)
      BY <1>0, <1>t, <2>1, MoveEffect
    <2>7. TypeOK'
      BY <1>0, <1>19, <2>4 DEF HandleAddressEvent, TypeOK, linkVars, controlVars
    <2>8. PlacesOK'
      BY <1>0, <1>t, <2>5 DEF PlacesOK, Moved
    <2> QED
      BY <2>7, <2>8 DEF TypeInv
  <1>20. ASSUME Connect PROVE TypeInv'
    <2>1. backlog' \in 0..MaxBacklog
      BY <1>0, <1>20, WalletAssumption DEF Connect, TypeOK
    <2>2. overtaken' \subseteq Trackers
      BY <1>0, <1>20 DEF Connect, TypeOK, Inserting
    <2> QED
      BY <1>0, <1>20, <2>1, <2>2 DEF Connect, TypeInv, TypeOK, PlacesOK, controlVars
  <1>21. ASSUME Disconnect PROVE TypeInv'
    BY <1>0, <1>21 DEF Disconnect, TypeInv, TypeOK, PlacesOK
  <1>23. ASSUME ControlLags PROVE TypeInv'
    BY <1>0, <1>23 DEF ControlLags, TypeInv, TypeOK, PlacesOK
  <1>22. CASE UNCHANGED vars
    BY <1>0, <1>22 DEF vars, linkVars, controlVars, TypeInv, TypeOK, PlacesOK
  <1> QED
    BY <1>1, <1>2, <1>3, <1>4, <1>5, <1>6, <1>7, <1>8, <1>9, <1>10, <1>11, <1>12, <1>13, <1>14, <1>15, <1>16, <1>17, <1>18, <1>19, <1>20, <1>21, <1>22, <1>23 DEF Next, CallStep, SyncStep, LoopStep

(* Most actions leave the map, the connection and the subscription alone,  *)
(* and no call comes to insert or is through with it.                      *)
Quiet ==
    /\ UNCHANGED <<addresses, link, activeSpks, deaf, lost, backlog, overtaken>>
    /\ \A c \in Calls : /\ task'[c].pc = "insert" <=> task[c].pc = "insert"
                        /\ task[c].pc = "insert" => task'[c].spks = task[c].spks
                        /\ Inserted(c) => Inserted(c)'
    /\ task[Loop].pc = "lock" => task'[Loop].pc = "lock"

LEMMA QuietSteps ==
  ASSUME TypeInv, [Next]_vars
  PROVE  \/ Quiet
         \/ \E c \in Calls : WatchSubscribe(c) \/ WatchInsert(c) \/ Unwatch(c)
         \/ LoopConnected \/ InitAddresses \/ Connect \/ Disconnect \/ ControlLags
  <1>0. TypeOK /\ PlacesOK
    BY DEF TypeInv
  <1>t. Loop \in Tasks /\ \A c \in Calls : c \in Tasks /\ c # Loop
    BY WalletAssumption DEF Tasks
  <1>1. ASSUME NEW r \in Requests, Call(r[1], r[2], r[3]) PROVE Quiet
    <2>0. r[1] \in Calls /\ r[2] \in Kinds /\ r[3] \in SUBSET Spks
      BY WalletAssumption
    <2>1. /\ \A j \in Tasks : j # r[1] => task'[j] = task[j]
          /\ task[r[1]].pc = "idle" /\ task'[r[1]].pc \in {"subscribe", "lock"}
      BY <1>0, <1>1, <2>0, CallEffect
    <2> QED
      BY <1>t, <1>1, <2>0, <2>1 DEF Call, Quiet, Inserted, linkVars, controlVars
  <1>2. ASSUME NEW c \in Calls, LookUp(c) PROVE Quiet
    <2>1. PICK s \in Spks : IF s \in InMap THEN Move(c, "reading", {TrackerOf(s)}, Nobody)
                                          ELSE Goto(c, "subscribe")
      BY <1>0, <1>t, <1>2 DEF LookUp, TypeOK, TaskRecords
    <2>2. \E pc \in {"reading", "subscribe"} : \E todo, at : Moved(c, pc, todo, at)
      BY <1>0, <1>t, <2>1, MoveEffect DEF Goto
    <2> QED
      BY <1>t, <1>2, <2>2 DEF LookUp, Quiet, Moved, Inserted, linkVars, controlVars
  <1>3. ASSUME NEW c \in Calls, WatchCollect(c) PROVE Quiet
    <2>1. Moved(c, "collecting", TrackersOf(task[c].spks), Nobody)
      BY <1>0, <1>t, <1>3, MoveEffect DEF WatchCollect
    <2>2. task[c].pc = "syncing"
      BY <1>0, <1>3 DEF WatchCollect, PlacesOK
    <2>3. UNCHANGED <<addresses, link, activeSpks, deaf, lost, backlog, overtaken>>
      BY <1>3 DEF WatchCollect, linkVars, controlVars
    <2> QED
      BY <1>t, <2>1, <2>2, <2>3 DEF Quiet, Moved, Inserted
  <1>4. ASSUME NEW c \in Calls, WatchPanics(c) PROVE Quiet
    <2>1. Moved(c, "panicked", {}, Nobody)
      BY <1>0, <1>t, <1>4, MoveEffect DEF WatchPanics
    <2>2. task[c].pc = "collecting"
      BY <1>0, <1>4 DEF WatchPanics, PlacesOK
    <2>3. UNCHANGED <<addresses, link, activeSpks, deaf, lost, backlog, overtaken>>
      BY <1>4 DEF WatchPanics, linkVars, controlVars
    <2> QED
      BY <1>t, <2>1, <2>2, <2>3 DEF Quiet, Moved, Inserted
  <1>5. ASSUME NEW c \in Calls, GetState(c) PROVE Quiet
    <2>1. Moved(c, "collecting", TrackersOf(task[c].spks), Nobody)
      BY <1>0, <1>t, <1>5, MoveEffect DEF GetState
    <2>2. task[c].pc = "lock"
      BY <1>0, <1>5 DEF GetState, PlacesOK
    <2>3. UNCHANGED <<addresses, link, activeSpks, deaf, lost, backlog, overtaken>>
      BY <1>5 DEF GetState, linkVars, controlVars
    <2> QED
      BY <1>t, <2>1, <2>2, <2>3 DEF Quiet, Moved, Inserted
  <1>6. ASSUME NEW c \in Calls, NEW t \in Trackers, Read(c, t) PROVE Quiet
    <2>1. Moved(c, task[c].pc, task[c].todo \ {t}, Nobody)
      BY <1>0, <1>t, <1>6, MoveEffect DEF Read
    <2>2. task[c].pc \in {"collecting", "reading"}
      BY <1>0, <1>6 DEF Read, PlacesOK
    <2>3. UNCHANGED <<addresses, link, activeSpks, deaf, lost, backlog, overtaken>>
      BY <1>6 DEF Read, linkVars, controlVars
    <2> QED
      BY <1>t, <2>1, <2>2, <2>3 DEF Quiet, Moved, Inserted
  <1>7. ASSUME NEW c \in Calls, Return(c) PROVE Quiet
    <2>1. Moved(c, "done", {}, Nobody)
      BY <1>0, <1>t, <1>7, MoveEffect DEF Return
    <2>2. task[c].pc \in {"collecting", "reading"}
      BY <1>0, <1>7 DEF Return, PlacesOK
    <2>3. UNCHANGED <<addresses, link, activeSpks, deaf, lost, backlog, overtaken>>
      BY <1>7 DEF Return, linkVars, controlVars
    <2> QED
      BY <1>t, <2>1, <2>2, <2>3 DEF Quiet, Moved, Inserted
  <1>8. ASSUME NEW k \in Tasks, NEW t \in Trackers, SyncBegin(k, t) PROVE Quiet
    <2>1. Moved(k, "fetching", task[k].todo \ {t}, t)
      BY <1>0, <1>t, <1>8, MoveEffect DEF SyncBegin
    <2>2. task[k].pc = "syncing"
      BY <1>0, <1>8 DEF SyncBegin, PlacesOK
    <2>3. UNCHANGED <<addresses, link, activeSpks, deaf, lost, backlog, overtaken>>
      BY <1>8 DEF SyncBegin, linkVars, controlVars
    <2> QED
      BY <1>t, <2>1, <2>2, <2>3 DEF Quiet, Moved, Inserted
  <1>9. ASSUME NEW k \in Tasks, FetchAnswered(k) PROVE Quiet
    <2>1. Moved(k, "applying", task[k].todo, task[k].at)
      BY <1>0, <1>t, <1>9, MoveEffect DEF FetchAnswered, Goto
    <2>2. task[k].pc = "fetching" /\ task[k].at \in Trackers
      BY <1>0, <1>9 DEF FetchAnswered, PlacesOK
    <2>3. UNCHANGED <<addresses, link, activeSpks, deaf, lost, backlog, overtaken>>
      BY <1>9 DEF FetchAnswered, Goto, linkVars, controlVars
    <2> QED
      BY <1>t, <2>1, <2>2, <2>3 DEF Quiet, Moved, Inserted
  <1>10. ASSUME NEW k \in Tasks, FetchFails(k) PROVE Quiet
    <2>1. Moved(k, "syncing", task[k].todo, Nobody)
      BY <1>0, <1>t, <1>10, MoveEffect DEF FetchFails, SyncEnds
    <2>2. task[k].pc = "fetching" /\ task[k].at \in Trackers
      BY <1>0, <1>10 DEF FetchFails, PlacesOK
    <2>3. UNCHANGED <<addresses, link, activeSpks, deaf, lost, backlog, overtaken>>
      BY <1>10 DEF FetchFails, SyncEnds, linkVars, controlVars
    <2> QED
      BY <1>t, <2>1, <2>2, <2>3 DEF Quiet, Moved, Inserted
  <1>11. ASSUME NEW k \in Tasks, SyncEnd(k) PROVE Quiet
    <2>1. Moved(k, "syncing", task[k].todo, Nobody)
      BY <1>0, <1>t, <1>11, MoveEffect DEF SyncEnd, SyncEnds
    <2>2. task[k].pc = "applying" /\ task[k].at \in Trackers
      BY <1>0, <1>11 DEF SyncEnd, PlacesOK
    <2>3. UNCHANGED <<addresses, link, activeSpks, deaf, lost, backlog, overtaken>>
      BY <1>11 DEF SyncEnd, SyncEnds, linkVars, controlVars
    <2> QED
      BY <1>t, <2>1, <2>2, <2>3 DEF Quiet, Moved, Inserted
  <1>12. ASSUME InitAddressesEnd PROVE Quiet
    <2>1. Moved(Loop, "idle", task[Loop].todo, task[Loop].at)
      BY <1>0, <1>t, <1>12, MoveEffect DEF InitAddressesEnd, Goto
    <2>2. task[Loop].pc = "syncing"
      BY <1>0, <1>12 DEF InitAddressesEnd, PlacesOK
    <2>3. UNCHANGED <<addresses, link, activeSpks, deaf, lost, backlog, overtaken>>
      BY <1>12 DEF InitAddressesEnd, Goto, linkVars, controlVars
    <2> QED
      BY <1>t, <2>1, <2>2, <2>3 DEF Quiet, Moved, Inserted
  <1>13. ASSUME NEW s \in Spks, LoopAddressEvent(s) PROVE Quiet
    <2>1. Moved(Loop, "handling", {}, TrackerOf(s))
      BY <1>0, <1>t, <1>13, MoveEffect DEF LoopAddressEvent
    <2>2. task[Loop].pc = "idle"
      BY <1>0, <1>13 DEF LoopAddressEvent, PlacesOK
    <2>3. UNCHANGED <<addresses, link, activeSpks, deaf, lost, backlog, overtaken>>
      BY <1>13 DEF LoopAddressEvent, linkVars, controlVars
    <2> QED
      BY <1>t, <2>1, <2>2, <2>3 DEF Quiet, Moved, Inserted
  <1>14. ASSUME HandleAddressEvent PROVE Quiet
    <2>1. Moved(Loop, "idle", {}, Nobody)
      BY <1>0, <1>t, <1>14, MoveEffect DEF HandleAddressEvent
    <2>2. task[Loop].pc = "handling"
      BY <1>0, <1>14 DEF HandleAddressEvent, PlacesOK
    <2>3. UNCHANGED <<addresses, link, activeSpks, deaf, lost, backlog, overtaken>>
      BY <1>14 DEF HandleAddressEvent, linkVars, controlVars
    <2> QED
      BY <1>t, <2>1, <2>2, <2>3 DEF Quiet, Moved, Inserted
  <1>15. CASE UNCHANGED vars
    BY <1>15 DEF vars, linkVars, controlVars, Quiet, Inserted
  <1> QED
    BY <1>1, <1>2, <1>3, <1>4, <1>5, <1>6, <1>7, <1>8, <1>9, <1>10, <1>11, <1>12, <1>13, <1>14, <1>15 DEF Next, CallStep, SyncStep, LoopStep

(* The subscription: what is owed to a watch that is about to insert; that *)
(* only a deaf control thread loses events, and none is subscribed without *)
(* a link; and that only a call that has inserted is the owner of a        *)
(* tracker.                                                                *)
Announced ==
    link = "up" => \A c \in Calls : task[c].pc = "insert" =>
        \A s \in task[c].spks : s \in activeSpks \/ s \in lost \/ <<c, s>> \in overtaken
ControlState ==
    /\ link = "down" => activeSpks = {}
    /\ deaf \/ lost = {}
OwnersInserted == \A s \in InMap : Inserted(addresses[s])

SubscriptionInv ==
    NoStraySubscription /\ WatchedIsSubscribed /\ Announced /\ ControlState /\ OwnersInserted

LEMMA SubscriptionStep ==
  ASSUME TypeInv, SubscriptionInv, [Next]_vars
  PROVE  SubscriptionInv'
  <1> USE DEF SubscriptionInv
  <1>0. TypeOK /\ PlacesOK
    BY DEF TypeInv
  <1>t. Loop \in Tasks /\ \A c \in Calls : c \in Tasks /\ c # Loop
    BY WalletAssumption DEF Tasks
  <1>m. \A s \in InMap : s \in Spks /\ addresses[s] \in Calls
    BY <1>0 DEF TypeOK, InMap
  <1>1. CASE Quiet
    <2>1. NoStraySubscription'
      BY <1>1 DEF NoStraySubscription, Quiet, InMap
    <2>2. WatchedIsSubscribed'
      BY <1>1 DEF WatchedIsSubscribed, Settled, Quiet, InMap, TrackerOf
    <2>3. Announced' /\ ControlState'
      BY <1>1 DEF Announced, ControlState, Quiet
    <2>4. OwnersInserted'
      BY <1>1, <1>m DEF OwnersInserted, Quiet, InMap
    <2> QED
      BY <2>1, <2>2, <2>3, <2>4
  <1>2. ASSUME NEW c \in Calls, WatchSubscribe(c) PROVE SubscriptionInv'
    <2>1. Moved(c, "insert", task[c].todo, task[c].at)
      BY <1>0, <1>t, <1>2, MoveEffect DEF WatchSubscribe, Goto
    <2>2. /\ task[c].pc = "subscribe" /\ UNCHANGED <<addresses, link, backlog, overtaken>>
          /\ activeSpks' = IF Receives THEN activeSpks \cup task[c].spks ELSE activeSpks
          /\ lost' = IF deaf THEN lost \cup task[c].spks ELSE lost
          /\ UNCHANGED deaf
      BY <1>2 DEF WatchSubscribe, Track
    <2>3. NoStraySubscription'
      BY <1>t, <2>1, <2>2 DEF NoStraySubscription, Moved, InMap
    <2>4. WatchedIsSubscribed'
      BY <1>t, <2>1, <2>2 DEF WatchedIsSubscribed, Settled, Moved, InMap, TrackerOf
    <2>5. Announced' /\ ControlState'
      BY <1>t, <2>1, <2>2 DEF Announced, ControlState, Receives, Moved
    <2>6. OwnersInserted'
      BY <1>t, <1>m, <2>1, <2>2 DEF OwnersInserted, Moved, Inserted, InMap
    <2> QED
      BY <2>3, <2>4, <2>5, <2>6
  <1>3. ASSUME NEW c \in Calls, WatchInsert(c) PROVE SubscriptionInv'
    <2>1. Moved(c, "syncing", {c} \X (task[c].spks \ InMap), Nobody)
      BY <1>0, <1>t, <1>3, MoveEffect DEF WatchInsert
    <2>2. task[c].pc = "insert" /\ task[c].spks \subseteq Spks
      BY <1>0, <1>t, <1>3 DEF WatchInsert, TypeOK, TaskRecords
    <2>3. /\ UNCHANGED <<link, activeSpks, deaf, lost, backlog, overtaken>>
          /\ addresses' = [s \in Spks |-> IF s \in task[c].spks \ InMap THEN c ELSE addresses[s]]
      BY <1>3 DEF WatchInsert, linkVars, controlVars
    <2>4. /\ InMap' = InMap \cup task[c].spks
          /\ \A s \in InMap : addresses'[s] = addresses[s]
          /\ \A s \in task[c].spks \ InMap : addresses'[s] = c
      BY <2>2, <2>3, WalletAssumption DEF InMap
    <2>5. NoStraySubscription'
      BY <1>t, <2>1, <2>3, <2>4 DEF NoStraySubscription, Moved
    <2>6. WatchedIsSubscribed'
      BY <1>t, <2>1, <2>2, <2>3, <2>4 DEF WatchedIsSubscribed, Announced, Settled, Moved, TrackerOf
    <2>7. Announced' /\ ControlState'
      BY <1>t, <2>1, <2>3 DEF Announced, ControlState, Moved
    <2>8. OwnersInserted'
      BY <1>t, <1>m, <2>1, <2>2, <2>4 DEF OwnersInserted, Moved, Inserted
    <2> QED
      BY <2>5, <2>6, <2>7, <2>8
  <1>4. ASSUME NEW c \in Calls, Unwatch(c) PROVE SubscriptionInv'
    <2>1. Moved(c, "done", task[c].todo, task[c].at)
      BY <1>0, <1>t, <1>4, MoveEffect DEF Unwatch, Goto
    <2>2. task[c].pc = "lock" /\ task[c].spks \subseteq Spks
      BY <1>0, <1>t, <1>4 DEF Unwatch, TypeOK, TaskRecords
    <2>3. /\ UNCHANGED <<link, backlog>>
          /\ activeSpks' = IF Receives THEN activeSpks \ task[c].spks ELSE activeSpks
          /\ lost' = IF deaf THEN lost \cup task[c].spks ELSE lost
          /\ UNCHANGED deaf
          /\ addresses' = [s \in Spks |-> IF s \in task[c].spks THEN Nobody ELSE addresses[s]]
          /\ overtaken' = (overtaken \ TrackersOf(task[c].spks)) \cup Inserting(task[c].spks)
      BY <1>4 DEF Unwatch, Untrack
    <2>4. /\ InMap' = InMap \ task[c].spks
          /\ \A s \in InMap' : addresses'[s] = addresses[s]
      BY <2>2, <2>3 DEF InMap
    <2>5. NoStraySubscription'
      <3>1. CASE Receives
        BY <1>t, <2>1, <2>2, <2>3, <2>4, <3>1 DEF NoStraySubscription, Moved, Receives
      <3>2. CASE deaf
        BY <1>t, <2>1, <2>2, <2>3, <2>4, <3>2 DEF NoStraySubscription, Moved, Receives
      <3>3. CASE link = "down"
        BY <2>3, <3>3 DEF NoStraySubscription, ControlState, Receives
      <3> QED
        BY <1>0, <3>1, <3>2, <3>3 DEF Receives, TypeOK
    <2>6. \A s \in Spks \ task[c].spks : TrackerOf(s) \notin TrackersOf(task[c].spks)
      BY DEF TrackerOf, TrackersOf
    <2>7. WatchedIsSubscribed'
      BY <1>t, <1>m, <2>1, <2>3, <2>4, <2>6 DEF WatchedIsSubscribed, Settled, Moved, TrackerOf
    <2>8. ASSUME NEW d \in Calls, task'[d].pc = "insert", NEW s \in task'[d].spks, link' = "up"
          PROVE  s \in activeSpks' \/ s \in lost' \/ <<d, s>> \in overtaken'
      <3>1. task[d].pc = "insert" /\ s \in task[d].spks
        BY <1>t, <2>1, <2>8 DEF Moved
      <3>2. s \in Spks
        BY <1>0, <1>t, <3>1 DEF TypeOK, TaskRecords
      <3>3. s \in activeSpks \/ s \in lost \/ <<d, s>> \in overtaken
        BY <2>3, <2>8, <3>1 DEF Announced
      <3>4. CASE s \in task[c].spks
        <4>1. <<d, s>> \in Inserting(task[c].spks)
          BY <3>1, <3>2, <3>4 DEF Inserting, Trackers
        <4> QED
          BY <2>3, <4>1
      <3>5. CASE s \notin task[c].spks
        <4>1. <<d, s>> \notin TrackersOf(task[c].spks)
          BY <3>5 DEF TrackersOf, TrackerOf
        <4> QED
          BY <2>3, <3>3, <3>5, <4>1
      <3> QED
        BY <3>4, <3>5
    <2>9. Announced' /\ ControlState'
      BY <2>3, <2>8 DEF Announced, ControlState, Receives
    <2>10. OwnersInserted'
      BY <1>t, <1>m, <2>1, <2>4 DEF OwnersInserted, Moved, Inserted
    <2> QED
      BY <2>5, <2>7, <2>9, <2>10
  <1>5. CASE LoopConnected
    <2>1. Moved(Loop, "lock", task[Loop].todo, task[Loop].at)
      BY <1>0, <1>t, <1>5, MoveEffect DEF LoopConnected, Goto
    <2>2. UNCHANGED <<addresses, link, activeSpks, deaf, lost, overtaken>>
      BY <1>5 DEF LoopConnected, controlVars
    <2>3. NoStraySubscription'
      BY <1>t, <2>1, <2>2 DEF NoStraySubscription, Moved, InMap
    <2>4. WatchedIsSubscribed'
      BY <2>1 DEF WatchedIsSubscribed, Settled, Moved
    <2>5. Announced' /\ ControlState'
      BY <1>t, <2>1, <2>2 DEF Announced, ControlState, Moved
    <2>6. OwnersInserted'
      BY <1>t, <1>m, <2>1, <2>2 DEF OwnersInserted, Moved, Inserted, InMap
    <2> QED
      BY <2>3, <2>4, <2>5, <2>6
  <1>6. CASE InitAddresses
    <2>1. Moved(Loop, "syncing", TrackersOf(Spks), Nobody)
      BY <1>0, <1>t, <1>6, MoveEffect DEF InitAddresses
    <2>2. /\ UNCHANGED <<addresses, link, backlog>> /\ overtaken' = overtaken \ TrackersOf(Spks)
          /\ activeSpks' = IF Receives THEN activeSpks \cup InMap ELSE activeSpks
          /\ lost' = IF deaf THEN lost \cup InMap ELSE lost
          /\ UNCHANGED deaf
      BY <1>6 DEF InitAddresses, Track
    <2>3. NoStraySubscription'
      BY <1>t, <2>1, <2>2 DEF NoStraySubscription, Moved, InMap
    <2>4. WatchedIsSubscribed'
      BY <2>2 DEF WatchedIsSubscribed, Settled, Receives, InMap
    <2>5. ASSUME NEW d \in Calls, task[d].pc = "insert", NEW s
          PROVE  <<d, s>> \notin TrackersOf(Spks)
      <3> SUFFICES ASSUME <<d, s>> \in TrackersOf(Spks) PROVE FALSE
        OBVIOUS
      <3>1. s \in InMap /\ addresses[s] = d
        BY DEF TrackersOf, TrackerOf
      <3> QED
        BY <2>5, <3>1 DEF OwnersInserted, Inserted
    <2>6. Announced' /\ ControlState'
      BY <1>t, <2>1, <2>2, <2>5 DEF Announced, ControlState, Receives, Moved
    <2>7. OwnersInserted'
      BY <1>t, <1>m, <2>1, <2>2 DEF OwnersInserted, Moved, Inserted, InMap
    <2> QED
      BY <2>3, <2>4, <2>6, <2>7
  <1>7. CASE Connect
    <2>1. /\ UNCHANGED <<addresses, task, activeSpks, deaf, lost>> /\ link' = "up"
          /\ overtaken' = overtaken \cup Inserting(Spks)
      BY <1>7 DEF Connect, controlVars
    <2>2. backlog' # 0
      BY <1>0, <1>7, WalletAssumption DEF Connect, TypeOK
    <2>3. NoStraySubscription'
      BY <2>1 DEF NoStraySubscription, InMap
    <2>4. WatchedIsSubscribed'
      BY <2>2 DEF WatchedIsSubscribed, Settled
    <2>5. ASSUME NEW d \in Calls, task[d].pc = "insert", NEW s \in task[d].spks
          PROVE  <<d, s>> \in Inserting(Spks)
      BY <1>0, <1>t, <2>5 DEF TypeOK, TaskRecords, Inserting, Trackers
    <2>6. Announced' /\ ControlState'
      BY <2>1, <2>5 DEF Announced, ControlState
    <2>7. OwnersInserted'
      BY <2>1 DEF OwnersInserted, Inserted, InMap
    <2> QED
      BY <2>3, <2>4, <2>6, <2>7
  <1>8. CASE Disconnect
    <2>1. UNCHANGED <<addresses, task>> /\ link' = "down" /\ activeSpks' = {} /\ lost' = {}
      BY <1>8 DEF Disconnect
    <2> QED
      BY <2>1 DEF NoStraySubscription, WatchedIsSubscribed, Settled, Announced, ControlState,
                  OwnersInserted, Inserted, InMap
  <1>9. CASE ControlLags
    <2>1. /\ UNCHANGED <<addresses, task, link, backlog, overtaken>> /\ link = "up"
          /\ activeSpks' = (activeSpks \ lost') \cup (lost' \ activeSpks) /\ deaf'
      BY <1>9 DEF ControlLags, Receives
    <2>2. \A s : s \in lost' \/ (s \in activeSpks' <=> s \in activeSpks)
      BY <2>1
    <2>3. lost = {}
      BY <1>9 DEF ControlLags, Receives, ControlState
    <2> QED
      BY <2>1, <2>2, <2>3 DEF NoStraySubscription, WatchedIsSubscribed, Settled, Announced,
                        ControlState, OwnersInserted, Inserted, InMap, TrackerOf
  <1> QED
    BY <1>1, <1>2, <1>3, <1>4, <1>5, <1>6, <1>7, <1>8, <1>9, QuietSteps

(* What a call's step between its syncs may do.                            *)
CallMoves(c) ==
    /\ UNCHANGED <<addresses, tracker, link, backlog, fetched>>
    /\ \A j \in Tasks : j # c => task'[j] = task[j]
    /\ Inserted(c) => Inserted(c)'
    /\ task[c].pc \notin {"fetching", "applying", "handling", "done", "panicked"}
    /\ task'[c].pc \notin {"syncing", "fetching", "applying", "handling"}
    /\ task[c].pc = "syncing" => task[c].todo = {}
    /\ task[c].pc # "idle" => task'[c].kind = task[c].kind /\ task'[c].spks = task[c].spks
    /\ \/ /\ task'[c].todo \subseteq task[c].todo
          /\ task'[c].pc = "collecting" => task[c].pc = "collecting"
       \/ /\ task'[c].todo \subseteq TrackersOf(Spks)
          /\ task'[c].pc = "collecting" => task[c].pc \in {"syncing", "lock"}
    /\ task'[c].pc = "collecting" =>
           \/ task[c].pc \in {"syncing", "collecting"}
           \/ task[c].kind \in {"get_state", "get_address_state"}
    /\ task'[c].pc = "panicked" => task[c].pc = "collecting" /\ Panics(c)

(* What a step of the loop outside init_addresses may do.                  *)
LoopMoves ==
    /\ UNCHANGED <<addresses, tracker, link, fetched>>
    /\ \A j \in Tasks : j # Loop => task'[j] = task[j]
    /\ task[Loop].pc \in {"idle", "syncing", "handling"}
    /\ task[Loop].todo = {} /\ task'[Loop].todo = {}
    /\ task'[Loop].pc \in {"idle", "lock", "handling"}
    /\ task'[Loop].pc = "handling" => task'[Loop].at \in TrackersOf(Spks)
    /\ task'[Loop].pc # "lock" => UNCHANGED backlog

LEMMA MoveSteps ==
  ASSUME TypeInv, [Next]_vars
  PROVE  \/ \E c \in Calls : CallMoves(c) \/ WatchInsert(c) \/ Unwatch(c)
         \/ LoopMoves
         \/ \E k \in Tasks : SyncStep(k)
         \/ InitAddresses \/ Connect \/ Disconnect \/ ControlLags
         \/ UNCHANGED vars
  <1>0. TypeOK /\ PlacesOK
    BY DEF TypeInv
  <1>t. Loop \in Tasks /\ \A c \in Calls : c \in Tasks /\ c # Loop
    BY WalletAssumption DEF Tasks
  <1>1. ASSUME NEW r \in Requests, Call(r[1], r[2], r[3]) PROVE CallMoves(r[1])
    <2>0. r[1] \in Calls /\ r[2] \in Kinds /\ r[3] \in SUBSET Spks
      BY WalletAssumption
    <2>1. /\ \A j \in Tasks : j # r[1] => task'[j] = task[j]
          /\ task[r[1]].pc = "idle" /\ task'[r[1]].pc \in {"subscribe", "lock"}
          /\ task'[r[1]].todo = {}
      BY <1>0, <1>1, <2>0, CallEffect
    <2> QED
      BY <1>t, <1>1, <2>0, <2>1 DEF Call, CallMoves, Inserted, linkVars, controlVars
  <1>2. ASSUME NEW c \in Calls, LookUp(c) PROVE CallMoves(c)
    <2>1. PICK s \in Spks : IF s \in InMap THEN Move(c, "reading", {TrackerOf(s)}, Nobody)
                                          ELSE Goto(c, "subscribe")
      BY <1>0, <1>t, <1>2 DEF LookUp, TypeOK, TaskRecords
    <2>2. \/ s \in InMap /\ Moved(c, "reading", {TrackerOf(s)}, Nobody)
          \/ Moved(c, "subscribe", task[c].todo, task[c].at)
      BY <1>0, <1>t, <2>1, MoveEffect DEF Goto
    <2>3. s \in InMap => TrackerOf(s) \in TrackersOf(Spks)
      BY DEF TrackersOf, InMap
    <2>4. task[c].pc = "lock" /\ UNCHANGED <<addresses, tracker, link, backlog, fetched>>
      BY <1>2 DEF LookUp, linkVars, controlVars
    <2> QED
      BY <1>t, <2>2, <2>3, <2>4 DEF CallMoves, Moved, Inserted
  <1>3. ASSUME NEW c \in Calls, WatchSubscribe(c) PROVE CallMoves(c)
    <2>1. Moved(c, "insert", task[c].todo, task[c].at)
      BY <1>0, <1>t, <1>3, MoveEffect DEF WatchSubscribe, Goto
    <2>2. task[c].pc = "subscribe"
      BY <1>0, <1>3 DEF WatchSubscribe, PlacesOK
    <2>3. UNCHANGED <<addresses, tracker, link, backlog, fetched>>
      BY <1>3 DEF WatchSubscribe, Goto, linkVars, controlVars
    <2> QED
      BY <1>t, <2>1, <2>2, <2>3 DEF CallMoves, Moved, Inserted
  <1>4. ASSUME NEW c \in Calls, WatchCollect(c) PROVE CallMoves(c)
    <2>0. TrackersOf(task[c].spks) \subseteq TrackersOf(Spks)
      BY DEF TrackersOf, InMap
    <2>1. Moved(c, "collecting", TrackersOf(task[c].spks), Nobody)
      BY <1>0, <1>t, <1>4, MoveEffect DEF WatchCollect
    <2>2. task[c].pc = "syncing" /\ task[c].todo = {}
      BY <1>0, <1>4 DEF WatchCollect, PlacesOK
    <2>3. UNCHANGED <<addresses, tracker, link, backlog, fetched>>
      BY <1>4 DEF WatchCollect, linkVars, controlVars
    <2> QED
      BY <1>t, <2>0, <2>1, <2>2, <2>3 DEF CallMoves, Moved, Inserted
  <1>5. ASSUME NEW c \in Calls, WatchPanics(c) PROVE CallMoves(c)
    <2>1. Moved(c, "panicked", {}, Nobody)
      BY <1>0, <1>t, <1>5, MoveEffect DEF WatchPanics
    <2>2. task[c].pc = "collecting" /\ Panics(c)
      BY <1>0, <1>5 DEF WatchPanics, PlacesOK
    <2>3. UNCHANGED <<addresses, tracker, link, backlog, fetched>>
      BY <1>5 DEF WatchPanics, linkVars, controlVars
    <2> QED
      BY <1>t, <2>1, <2>2, <2>3 DEF CallMoves, Moved, Inserted
  <1>6. ASSUME NEW c \in Calls, GetState(c) PROVE CallMoves(c)
    <2>0. TrackersOf(task[c].spks) \subseteq TrackersOf(Spks)
      BY DEF TrackersOf, InMap
    <2>1. Moved(c, "collecting", TrackersOf(task[c].spks), Nobody)
      BY <1>0, <1>t, <1>6, MoveEffect DEF GetState
    <2>2. task[c].pc = "lock" /\ task[c].kind \in {"get_state", "get_address_state"}
      BY <1>0, <1>6 DEF GetState, PlacesOK
    <2>3. UNCHANGED <<addresses, tracker, link, backlog, fetched>>
      BY <1>6 DEF GetState, linkVars, controlVars
    <2> QED
      BY <1>t, <2>0, <2>1, <2>2, <2>3 DEF CallMoves, Moved, Inserted
  <1>7. ASSUME NEW c \in Calls, NEW t \in Trackers, Read(c, t) PROVE CallMoves(c)
    <2>1. Moved(c, task[c].pc, task[c].todo \ {t}, Nobody)
      BY <1>0, <1>t, <1>7, MoveEffect DEF Read
    <2>2. task[c].pc \in {"collecting", "reading"}
      BY <1>0, <1>7 DEF Read, PlacesOK
    <2>3. UNCHANGED <<addresses, tracker, link, backlog, fetched>>
      BY <1>7 DEF Read, linkVars, controlVars
    <2> QED
      BY <1>t, <2>1, <2>2, <2>3 DEF CallMoves, Moved, Inserted
  <1>8. ASSUME NEW c \in Calls, Return(c) PROVE CallMoves(c)
    <2>1. Moved(c, "done", {}, Nobody)
      BY <1>0, <1>t, <1>8, MoveEffect DEF Return
    <2>2. task[c].pc \in {"collecting", "reading"}
      BY <1>0, <1>8 DEF Return, PlacesOK
    <2>3. UNCHANGED <<addresses, tracker, link, backlog, fetched>>
      BY <1>8 DEF Return, linkVars, controlVars
    <2> QED
      BY <1>t, <2>1, <2>2, <2>3 DEF CallMoves, Moved, Inserted
  <1>9. ASSUME LoopConnected PROVE LoopMoves
    <2>1. Moved(Loop, "lock", task[Loop].todo, task[Loop].at)
      BY <1>0, <1>t, <1>9, MoveEffect DEF LoopConnected, Goto
    <2>2. task[Loop].pc = "idle" /\ task[Loop].todo = {}
      BY <1>0, <1>9 DEF LoopConnected, PlacesOK
    <2>3. UNCHANGED <<addresses, tracker, link, fetched>>
      BY <1>9 DEF LoopConnected, Goto, linkVars, controlVars
    <2>4. task'[Loop].pc = "lock" /\ task'[Loop].todo = {}
      BY <2>1, <2>2 DEF Moved
    <2> QED
      BY <1>t, <2>1, <2>2, <2>3, <2>4 DEF LoopMoves, Moved
  <1>10. ASSUME InitAddressesEnd PROVE LoopMoves
    <2>1. Moved(Loop, "idle", task[Loop].todo, task[Loop].at)
      BY <1>0, <1>t, <1>10, MoveEffect DEF InitAddressesEnd, Goto
    <2>2. task[Loop].pc = "syncing" /\ task[Loop].todo = {}
      BY <1>0, <1>10 DEF InitAddressesEnd, PlacesOK
    <2>3. UNCHANGED <<addresses, tracker, link, fetched, backlog>>
      BY <1>10 DEF InitAddressesEnd, Goto, linkVars, controlVars
    <2>4. task'[Loop].pc = "idle" /\ task'[Loop].todo = {}
      BY <2>1, <2>2 DEF Moved
    <2> QED
      BY <1>t, <2>1, <2>2, <2>3, <2>4 DEF LoopMoves, Moved
  <1>11. ASSUME NEW s \in Spks, LoopAddressEvent(s) PROVE LoopMoves
    <2>0. TrackerOf(s) \in TrackersOf(Spks)
      BY <1>11 DEF LoopAddressEvent, TrackersOf, InMap
    <2>1. Moved(Loop, "handling", {}, TrackerOf(s))
      BY <1>0, <1>t, <1>11, MoveEffect DEF LoopAddressEvent
    <2>2. task[Loop].pc = "idle" /\ task[Loop].todo = {}
      BY <1>0, <1>11 DEF LoopAddressEvent, PlacesOK
    <2>3. UNCHANGED <<addresses, tracker, link, fetched, backlog>>
      BY <1>11 DEF LoopAddressEvent, linkVars, controlVars
    <2>4. task'[Loop].pc = "handling" /\ task'[Loop].todo = {}
      BY <2>1, <2>2 DEF Moved
    <2> QED
      BY <1>t, <2>0, <2>1, <2>2, <2>3, <2>4 DEF LoopMoves, Moved
  <1>12. ASSUME HandleAddressEvent PROVE LoopMoves
    <2>1. Moved(Loop, "idle", {}, Nobody)
      BY <1>0, <1>t, <1>12, MoveEffect DEF HandleAddressEvent
    <2>2. task[Loop].pc = "handling" /\ task[Loop].todo = {}
      BY <1>0, <1>12 DEF HandleAddressEvent, PlacesOK
    <2>3. UNCHANGED <<addresses, tracker, link, fetched, backlog>>
      BY <1>12 DEF HandleAddressEvent, linkVars, controlVars
    <2>4. task'[Loop].pc = "idle" /\ task'[Loop].todo = {}
      BY <2>1, <2>2 DEF Moved
    <2> QED
      BY <1>t, <2>1, <2>2, <2>3, <2>4 DEF LoopMoves, Moved
  <1> QED
    BY WalletAssumption, <1>1, <1>2, <1>3, <1>4, <1>5, <1>6, <1>7, <1>8, <1>9, <1>10, <1>11, <1>12 DEF Next, CallStep, SyncStep, LoopStep

(* What a step of a sync may do.                                           *)
SyncMoves(k) ==
    /\ UNCHANGED <<addresses, link, backlog>>
    /\ \A j \in Tasks : j # k => task'[j] = task[j]
    /\ task[k].pc \in {"syncing", "fetching", "applying"}
    /\ task'[k].pc \in {"syncing", "fetching", "applying"}
    /\ task'[k].kind = task[k].kind /\ task'[k].spks = task[k].spks
    /\ task'[k].todo \subseteq task[k].todo

LEMMA SyncSteps ==
  ASSUME TypeInv, NEW k \in Tasks, SyncStep(k)
  PROVE  SyncMoves(k)
  <1>0. TypeOK /\ PlacesOK
    BY DEF TypeInv
  <1>t. Loop \in Tasks /\ \A c \in Calls : c \in Tasks /\ c # Loop
    BY WalletAssumption DEF Tasks
  <1>1. ASSUME NEW t \in Trackers, SyncBegin(k, t) PROVE SyncMoves(k)
    <2>1. Moved(k, "fetching", task[k].todo \ {t}, t)
      BY <1>0, <1>1, MoveEffect DEF SyncBegin
    <2>2. task[k].pc = "syncing" /\ UNCHANGED <<addresses, link, backlog>>
      BY <1>1 DEF SyncBegin, linkVars, controlVars
    <2> QED
      BY <2>1, <2>2 DEF SyncMoves, Moved
  <1>2. ASSUME FetchAnswered(k) PROVE SyncMoves(k)
    <2>1. Moved(k, "applying", task[k].todo, task[k].at)
      BY <1>0, <1>2, MoveEffect DEF FetchAnswered, Goto
    <2>2. task[k].pc = "fetching" /\ UNCHANGED <<addresses, link, backlog>>
      BY <1>2 DEF FetchAnswered, Goto, linkVars, controlVars
    <2> QED
      BY <2>1, <2>2 DEF SyncMoves, Moved
  <1>3. ASSUME FetchFails(k) PROVE SyncMoves(k)
    <2>1. Moved(k, "syncing", task[k].todo, Nobody)
      BY <1>0, <1>3, MoveEffect DEF FetchFails, SyncEnds
    <2>2. task[k].pc = "fetching" /\ UNCHANGED <<addresses, link, backlog>>
      BY <1>3 DEF FetchFails, SyncEnds, linkVars, controlVars
    <2> QED
      BY <2>1, <2>2 DEF SyncMoves, Moved
  <1>4. ASSUME SyncEnd(k) PROVE SyncMoves(k)
    <2>1. Moved(k, "syncing", task[k].todo, Nobody)
      BY <1>0, <1>4, MoveEffect DEF SyncEnd, SyncEnds
    <2>2. task[k].pc = "applying" /\ UNCHANGED <<addresses, link, backlog>>
      BY <1>4 DEF SyncEnd, SyncEnds, linkVars, controlVars
    <2> QED
      BY <2>1, <2>2 DEF SyncMoves, Moved
  <1> QED
    BY <1>1, <1>2, <1>3, <1>4 DEF SyncStep

(* What explains a panic: an unwatch of the address has ended.             *)
Unwatched(s) ==
    \E u \in Calls : /\ task[u].kind = "unwatch" /\ task[u].pc = "done"
                    /\ s \in task[u].spks
Watching(c) ==
    /\ task[c].kind \in {"watch", "get_and_watch"}
    /\ task[c].pc \in {"syncing", "fetching", "applying", "collecting"}
MissingUnwatched ==
    \A c \in Calls : Watching(c) => \A s \in task[c].spks \ InMap : Unwatched(s)

PanicInv == PanicsOnlyWhenUnwatched /\ MissingUnwatched

LEMMA PanicStep ==
  ASSUME TypeInv, PanicInv, [Next]_vars
  PROVE  PanicInv'
  <1> USE DEF PanicInv
  <1>0. TypeOK /\ PlacesOK
    BY DEF TypeInv
  <1>t. Loop \in Tasks /\ \A c \in Calls : c \in Tasks /\ c # Loop
    BY WalletAssumption DEF Tasks
  <1>1. ASSUME NEW c \in Calls, CallMoves(c) PROVE PanicInv'
    <2>1. UNCHANGED InMap
      BY <1>1 DEF CallMoves, InMap
    <2>2. \A s \in Spks : Unwatched(s) => Unwatched(s)'
      BY <1>t, <1>1 DEF CallMoves, Unwatched
    <2>3. ASSUME NEW d \in Calls, Watching(d)'
          PROVE  Watching(d) /\ task'[d].spks = task[d].spks
      BY <1>t, <1>1, <2>3 DEF CallMoves, Watching
    <2>4. \A d \in Calls : task[d].spks \subseteq Spks
      BY <1>0, <1>t DEF TypeOK, TaskRecords
    <2>5. MissingUnwatched'
      BY <2>1, <2>2, <2>3, <2>4 DEF MissingUnwatched
    <2>6. ASSUME NEW d \in Calls, task'[d].pc = "panicked"
          PROVE  \E u \in Calls : /\ task'[u].kind = "unwatch" /\ task'[u].pc = "done"
                                 /\ task'[u].spks \cap task'[d].spks # {}
      <3>1. CASE d = c
        <4>1. task[c].pc = "collecting" /\ Panics(c) /\ task'[c].spks = task[c].spks
          BY <1>1, <2>6, <3>1 DEF CallMoves
        <4>2. PICK s \in task[c].spks : s \notin InMap
          BY <4>1 DEF Panics
        <4>3. Unwatched(s)
          BY <3>1, <4>1, <4>2 DEF MissingUnwatched, Watching, Panics
        <4> QED
          BY <2>2, <2>4, <3>1, <4>1, <4>2, <4>3 DEF Unwatched
      <3>2. CASE d # c
        <4>1. task'[d] = task[d]
          BY <1>t, <1>1, <3>2 DEF CallMoves
        <4>2. PICK u \in Calls : /\ task[u].kind = "unwatch" /\ task[u].pc = "done"
                                /\ task[u].spks \cap task[d].spks # {}
          BY <2>6, <4>1 DEF PanicsOnlyWhenUnwatched
        <4>3. task'[u] = task[u]
          BY <1>t, <1>1, <4>2 DEF CallMoves
        <4> QED
          BY <4>1, <4>2, <4>3
      <3> QED
        BY <3>1, <3>2
    <2> QED
      BY <2>5, <2>6 DEF PanicsOnlyWhenUnwatched
  <1>2. ASSUME NEW c \in Calls, WatchInsert(c) PROVE PanicInv'
    <2>1. Moved(c, "syncing", {c} \X (task[c].spks \ InMap), Nobody)
      BY <1>0, <1>t, <1>2, MoveEffect DEF WatchInsert
    <2>2. task[c].pc = "insert" /\ task[c].spks \subseteq Spks
      BY <1>0, <1>t, <1>2 DEF WatchInsert, TypeOK, TaskRecords
    <2>3. addresses' = [s \in Spks |-> IF s \in task[c].spks \ InMap THEN c ELSE addresses[s]]
      BY <1>2 DEF WatchInsert
    <2>4. InMap' = InMap \cup task[c].spks
      BY <2>2, <2>3, WalletAssumption DEF InMap
    <2>5. \A s \in Spks : Unwatched(s) => Unwatched(s)'
      BY <1>t, <2>1, <2>2 DEF Moved, Unwatched
    <2>6. \A d \in Calls : task[d].spks \subseteq Spks
      BY <1>0, <1>t DEF TypeOK, TaskRecords
    <2>7. MissingUnwatched'
      BY <1>t, <2>1, <2>4, <2>5, <2>6 DEF MissingUnwatched, Watching, Moved
    <2>8. PanicsOnlyWhenUnwatched'
      BY <1>t, <2>1, <2>2 DEF PanicsOnlyWhenUnwatched, Moved
    <2> QED
      BY <2>7, <2>8
  <1>3. ASSUME NEW c \in Calls, Unwatch(c) PROVE PanicInv'
    <2>1. Moved(c, "done", task[c].todo, task[c].at)
      BY <1>0, <1>t, <1>3, MoveEffect DEF Unwatch, Goto
    <2>2. task[c].pc = "lock" /\ task[c].kind = "unwatch" /\ task[c].spks \subseteq Spks
      BY <1>0, <1>t, <1>3 DEF Unwatch, TypeOK, TaskRecords
    <2>3. addresses' = [s \in Spks |-> IF s \in task[c].spks THEN Nobody ELSE addresses[s]]
      BY <1>3 DEF Unwatch
    <2>4. InMap' = InMap \ task[c].spks
      BY <2>2, <2>3 DEF InMap
    <2>5. \A s \in Spks : Unwatched(s) \/ s \in task[c].spks => Unwatched(s)'
      BY <1>t, <2>1, <2>2 DEF Moved, Unwatched
    <2>6. \A d \in Calls : task[d].spks \subseteq Spks
      BY <1>0, <1>t DEF TypeOK, TaskRecords
    <2>7. MissingUnwatched'
      BY <1>t, <2>1, <2>2, <2>4, <2>5, <2>6 DEF MissingUnwatched, Watching, Moved
    <2>8. PanicsOnlyWhenUnwatched'
      BY <1>t, <2>1, <2>2 DEF PanicsOnlyWhenUnwatched, Moved
    <2> QED
      BY <2>7, <2>8
  <1>4. ASSUME NEW k \in Tasks, SyncStep(k) PROVE PanicInv'
    <2>1. SyncMoves(k)
      BY <1>4, SyncSteps
    <2>2. UNCHANGED InMap
      BY <2>1 DEF SyncMoves, InMap
    <2>3. \A s \in Spks : Unwatched(s) => Unwatched(s)'
      BY <1>t, <2>1 DEF SyncMoves, Unwatched
    <2>4. \A d \in Calls : task[d].spks \subseteq Spks
      BY <1>0, <1>t DEF TypeOK, TaskRecords
    <2>5. MissingUnwatched'
      BY <1>t, <2>1, <2>2, <2>3, <2>4 DEF MissingUnwatched, Watching, SyncMoves
    <2>6. PanicsOnlyWhenUnwatched'
      BY <1>t, <2>1 DEF PanicsOnlyWhenUnwatched, SyncMoves
    <2> QED
      BY <2>5, <2>6
  <1>5. ASSUME UNCHANGED addresses, \A c \in Calls : task'[c] = task[c]
        PROVE  PanicInv'
    BY <1>5 DEF PanicsOnlyWhenUnwatched, MissingUnwatched, Watching, Unwatched, InMap
  <1>6. CASE LoopMoves
    BY <1>t, <1>5, <1>6 DEF LoopMoves
  <1>7. CASE InitAddresses
    <2>1. Moved(Loop, "syncing", TrackersOf(Spks), Nobody)
      BY <1>0, <1>t, <1>7, MoveEffect DEF InitAddresses
    <2> QED
      BY <1>t, <1>5, <1>7, <2>1 DEF InitAddresses, Moved
  <1>8. CASE Connect \/ Disconnect \/ ControlLags \/ UNCHANGED vars
    BY <1>5, <1>8 DEF Connect, Disconnect, ControlLags, vars, linkVars, controlVars
  <1> QED
    BY <1>1, <1>2, <1>3, <1>4, <1>6, <1>7, <1>8, MoveSteps

(* Who has locked which tracker, which trackers can be touched at all, and *)
(* what is still due to a tracker that init_addresses has passed.          *)
Exclusive ==
    \A j, k \in Tasks : \A t \in Trackers : Holds(j, t) /\ Holds(k, t) => j = k
KnownTrackers ==
    \A t \in Trackers :
        /\ tracker[t] # "new" => Inserted(t[1])
        /\ \A k \in Tasks : t \in task[k].todo \/ Holds(k, t) => Inserted(t[1])
OwnPending ==
    \A c \in Calls : \A s \in Spks :
        addresses[s] = c /\ tracker[<<c, s>>] = "new" =>
            task[c].pc \in {"syncing", "fetching", "applying"} /\ <<c, s>> \in task[c].todo
Applying(t) == \E k \in Tasks : task[k].pc = "applying" /\ task[k].at = t
CurrentOrDue ==
    Settled => \A s \in InMap :
        \/ TrackerOf(s) \in fetched
        \/ TrackerOf(s) \in task[Loop].todo
        \/ tracker[TrackerOf(s)] # "loaded" /\ ~Applying(TrackerOf(s))

SyncInv ==
    /\ OwnersInserted /\ Exclusive /\ KnownTrackers
    /\ OwnTrackersSynced /\ OwnPending /\ CurrentOrDue

LEMMA CurrentFromInv == TypeInv /\ SyncInv => LoadedIsCurrent
  BY DEF TypeInv, PlacesOK, SyncInv, CurrentOrDue, LoadedIsCurrent

LEMMA SyncInvStep ==
  ASSUME TypeInv, SyncInv, OwnersInserted', [Next]_vars
  PROVE  SyncInv'
  <1> USE DEF SyncInv
  <1>0. TypeOK /\ PlacesOK
    BY DEF TypeInv
  <1>t. Loop \in Tasks /\ \A c \in Calls : c \in Tasks /\ c # Loop
    BY WalletAssumption DEF Tasks
  <1>m. \A s \in InMap : s \in Spks /\ addresses[s] \in Calls /\ TrackerOf(s) \in Trackers
    BY <1>0 DEF TypeOK, InMap, TrackerOf, Trackers
  <1>r. \A t \in TrackersOf(Spks) : t \in Trackers /\ Inserted(t[1])
    BY <1>m DEF TrackersOf, OwnersInserted, TrackerOf
  <1>p. \A t \in Trackers : t[1] \in Calls /\ t[2] \in Spks /\ t = <<t[1], t[2]>>
    BY DEF Trackers
  <1>q. \A c \in Calls : \A s \in Spks : <<c, s>> \in Trackers
    BY DEF Trackers
  <1>1. ASSUME NEW c \in Calls, CallMoves(c) PROVE SyncInv'
    <2>1. UNCHANGED <<InMap, addresses, tracker, fetched>> /\ \A s : UNCHANGED TrackerOf(s)
      BY <1>1 DEF CallMoves, InMap, TrackerOf
    <2>2. \A k \in Tasks : \A t : Holds(k, t)' => Holds(k, t)
      BY <1>1 DEF CallMoves, Holds
    <2>3. \A d \in Calls : Inserted(d) => Inserted(d)'
      BY <1>t, <1>1 DEF CallMoves, Inserted
    <2>4. Exclusive'
      BY <2>2 DEF Exclusive
    <2>5. \A k \in Tasks : \A t \in Trackers :
              t \in task'[k].todo => t \in task[k].todo \/ t \in TrackersOf(Spks)
      BY <1>t, <1>1 DEF CallMoves
    <2>6. KnownTrackers'
      BY <1>p, <1>r, <2>1, <2>2, <2>3, <2>5 DEF KnownTrackers
    <2>7. OwnPending'
      BY <1>t, <1>1, <2>1 DEF OwnPending, CallMoves
    <2>8. ASSUME NEW d \in Calls, task'[d].pc = "collecting", NEW s \in Spks,
                 <<d, s>> \in task'[d].todo
          PROVE  tracker'[<<d, s>>] # "new"
      <3>1. CASE d # c
        BY <1>t, <1>1, <2>1, <2>8, <3>1 DEF CallMoves, OwnTrackersSynced
      <3>2. CASE d = c /\ task[c].pc = "collecting" /\ <<c, s>> \in task[c].todo
        BY <2>1, <3>2 DEF OwnTrackersSynced
      <3>3. CASE d = c /\ task[c].pc \in {"syncing", "lock"} /\ <<c, s>> \in TrackersOf(Spks)
        <4>1. addresses[s] = c
          BY <3>3 DEF TrackersOf, TrackerOf
        <4>2. task[c].pc # "lock"
          BY <1>q, <1>r, <3>3 DEF Inserted
        <4>3. task[c].todo = {}
          BY <1>1, <3>3, <4>2 DEF CallMoves
        <4> QED
          BY <2>1, <3>3, <4>1, <4>3 DEF OwnPending
      <3> QED
        BY <1>1, <2>8, <3>1, <3>2, <3>3 DEF CallMoves
    <2>9. OwnTrackersSynced'
      BY <2>8 DEF OwnTrackersSynced
    <2>10. task'[Loop] = task[Loop] /\ (Settled' => Settled)
      BY <1>t, <1>1 DEF CallMoves, Settled
    <2>11. \A t : Applying(t)' => Applying(t)
      BY <1>1 DEF CallMoves, Applying
    <2>12. CurrentOrDue'
      BY <2>1, <2>10, <2>11 DEF CurrentOrDue
    <2> QED
      BY <2>4, <2>6, <2>7, <2>9, <2>12
  <1>2. ASSUME NEW c \in Calls, WatchInsert(c) PROVE SyncInv'
    <2>1. Moved(c, "syncing", {c} \X (task[c].spks \ InMap), Nobody)
      BY <1>0, <1>t, <1>2, MoveEffect DEF WatchInsert
    <2>2. task[c].pc = "insert" /\ task[c].spks \subseteq Spks
      BY <1>0, <1>t, <1>2 DEF WatchInsert, TypeOK, TaskRecords
    <2>3. /\ UNCHANGED <<tracker, link, backlog, fetched>>
          /\ addresses' = [s \in Spks |-> IF s \in task[c].spks \ InMap THEN c ELSE addresses[s]]
      BY <1>2 DEF WatchInsert, linkVars, controlVars
    <2>4. /\ InMap' = InMap \cup task[c].spks
          /\ \A s \in InMap : addresses'[s] = addresses[s] /\ TrackerOf(s)' = TrackerOf(s)
          /\ \A s \in task[c].spks \ InMap : addresses'[s] = c /\ TrackerOf(s)' = <<c, s>>
      BY <2>2, <2>3, WalletAssumption DEF InMap, TrackerOf
    <2>5. \A k \in Tasks : \A t : Holds(k, t)' => Holds(k, t)
      BY <2>1 DEF Moved, Holds
    <2>6. Inserted(c)' /\ \A d \in Calls : Inserted(d) => Inserted(d)'
      BY <1>t, <2>1, <2>2 DEF Moved, Inserted
    <2>7. Exclusive'
      BY <2>5 DEF Exclusive
    <2>8. \A k \in Tasks : \A t \in Trackers :
              t \in task'[k].todo => t \in task[k].todo \/ t[1] = c
      BY <1>t, <2>1 DEF Moved
    <2>9. KnownTrackers'
      BY <1>p, <2>3, <2>5, <2>6, <2>8 DEF KnownTrackers
    <2>10. \A s \in InMap : addresses[s] # c
      BY <2>2 DEF OwnersInserted, Inserted
    <2>11. \A s \in Spks : addresses'[s] = c => <<c, s>> \in task'[c].todo
      BY <2>1, <2>2, <2>3, <2>10, WalletAssumption DEF Moved, InMap
    <2>12. \A d \in Calls, s \in Spks : d # c /\ addresses'[s] = d => addresses[s] = d
      BY <2>3
    <2>13. OwnPending'
      BY <1>t, <2>1, <2>3, <2>11, <2>12 DEF OwnPending, Moved
    <2>14. OwnTrackersSynced'
      BY <1>t, <2>1, <2>3 DEF OwnTrackersSynced, Moved
    <2>15. \A t : Applying(t)' => Applying(t)
      BY <2>1 DEF Moved, Applying
    <2>16. ASSUME NEW s \in task[c].spks
           PROVE  tracker[<<c, s>>] # "loaded" /\ ~Applying(<<c, s>>)
      BY <1>q, <2>2, <2>16 DEF KnownTrackers, Inserted, Applying, Holds
    <2>17. task'[Loop] = task[Loop] /\ (Settled' => Settled)
      BY <1>t, <2>1, <2>3 DEF Moved, Settled
    <2>18. CurrentOrDue'
      BY <2>3, <2>4, <2>15, <2>16, <2>17 DEF CurrentOrDue
    <2> QED
      BY <2>7, <2>9, <2>13, <2>14, <2>18
  <1>3. ASSUME NEW c \in Calls, Unwatch(c) PROVE SyncInv'
    <2>1. Moved(c, "done", task[c].todo, task[c].at)
      BY <1>0, <1>t, <1>3, MoveEffect DEF Unwatch, Goto
    <2>2. task[c].pc = "lock"
      BY <1>3 DEF Unwatch
    <2>3. /\ UNCHANGED <<tracker, link, backlog>> /\ fetched' = fetched \ TrackersOf(task[c].spks)
          /\ addresses' = [s \in Spks |-> IF s \in task[c].spks THEN Nobody ELSE addresses[s]]
      BY <1>3 DEF Unwatch
    <2>4. \A s \in InMap' : /\ s \in InMap /\ s \notin task[c].spks
                            /\ TrackerOf(s)' = TrackerOf(s)
      BY <2>3 DEF InMap, TrackerOf
    <2>5. \A k \in Tasks : \A t : Holds(k, t)' => Holds(k, t)
      BY <2>1 DEF Moved, Holds
    <2>6. \A d \in Calls : Inserted(d) => Inserted(d)'
      BY <1>t, <2>1 DEF Moved, Inserted
    <2>7. Exclusive'
      BY <2>5 DEF Exclusive
    <2>8. \A k \in Tasks : task'[k].todo = task[k].todo
      BY <1>t, <2>1 DEF Moved
    <2>9. KnownTrackers'
      BY <1>p, <2>3, <2>5, <2>6, <2>8 DEF KnownTrackers
    <2>10. \A d \in Calls, s \in Spks : addresses'[s] = d => addresses[s] = d
      BY <2>3, WalletAssumption
    <2>11. OwnPending'
      BY <1>t, <2>1, <2>2, <2>3, <2>10 DEF OwnPending, Moved
    <2>12. OwnTrackersSynced'
      BY <1>t, <2>1, <2>3 DEF OwnTrackersSynced, Moved
    <2>13. \A t : Applying(t)' => Applying(t)
      BY <2>1 DEF Moved, Applying
    <2>14. \A s \in InMap' : TrackerOf(s) \notin TrackersOf(task[c].spks)
      BY <2>4 DEF TrackersOf, TrackerOf
    <2>15. task'[Loop] = task[Loop] /\ (Settled' => Settled)
      BY <1>t, <2>1, <2>3 DEF Moved, Settled
    <2>16. CurrentOrDue'
      BY <2>3, <2>4, <2>13, <2>14, <2>15 DEF CurrentOrDue
    <2> QED
      BY <2>7, <2>9, <2>11, <2>12, <2>16
  <1>4. ASSUME NEW k \in Tasks, NEW u \in Trackers, SyncBegin(k, u) PROVE SyncInv'
    <2>1. Moved(k, "fetching", task[k].todo \ {u}, u)
      BY <1>0, <1>4, MoveEffect DEF SyncBegin
    <2>2. /\ task[k].pc = "syncing" /\ u \in task[k].todo
          /\ \A j \in Tasks : ~Holds(j, u)
      BY <1>4 DEF SyncBegin, Unlocked
    <2>3. /\ UNCHANGED <<addresses, link, backlog>> /\ fetched' = fetched \ {u}
          /\ tracker'[u] = "loading" /\ \A t \in Trackers : t # u => tracker'[t] = tracker[t]
      BY <1>0, <1>4 DEF SyncBegin, linkVars, controlVars, TypeOK
    <2>4. UNCHANGED InMap /\ \A s : UNCHANGED TrackerOf(s)
      BY <2>3 DEF InMap, TrackerOf
    <2>5. \A d \in Calls : Inserted(d) => Inserted(d)'
      BY <1>t, <2>1 DEF Moved, Inserted
    <2>6. \A j \in Tasks, t \in Trackers : Holds(j, t)' => Holds(j, t) \/ (j = k /\ t = u)
      BY <2>1 DEF Moved, Holds
    <2>7. Exclusive'
      BY <2>2, <2>6 DEF Exclusive
    <2>8. \A j \in Tasks : task'[j].todo \subseteq task[j].todo
      BY <2>1 DEF Moved
    <2>9. KnownTrackers'
      BY <1>p, <2>2, <2>3, <2>5, <2>6, <2>8 DEF KnownTrackers
    <2>10. OwnPending'
      BY <1>t, <1>q, <2>1, <2>3 DEF OwnPending, Moved
    <2>11. OwnTrackersSynced'
      BY <1>t, <1>q, <2>1, <2>3 DEF OwnTrackersSynced, Moved
    <2>12. \A t : Applying(t)' => Applying(t)
      BY <2>1 DEF Moved, Applying
    <2>13. ~Applying(u)
      BY <2>2 DEF Applying, Holds
    <2>14. /\ \A t : t \in task[Loop].todo => t \in task'[Loop].todo \/ t = u
           /\ Settled' => Settled
      BY <1>t, <2>1, <2>2, <2>3 DEF Moved, Settled
    <2>15. CurrentOrDue'
      BY <1>m, <2>3, <2>4, <2>12, <2>13, <2>14 DEF CurrentOrDue
    <2> QED
      BY <2>4, <2>7, <2>9, <2>10, <2>11, <2>15
  <1>5. ASSUME NEW k \in Tasks, FetchAnswered(k) PROVE SyncInv'
    <2>1. Moved(k, "applying", task[k].todo, task[k].at)
      BY <1>0, <1>5, MoveEffect DEF FetchAnswered, Goto
    <2>2. task[k].pc = "fetching"
      BY <1>5 DEF FetchAnswered
    <2>3. /\ UNCHANGED <<addresses, tracker, link, backlog>>
          /\ fetched' = fetched \cup {task[k].at}
      BY <1>5 DEF FetchAnswered, linkVars, controlVars
    <2>4. UNCHANGED InMap /\ \A s : UNCHANGED TrackerOf(s)
      BY <2>3 DEF InMap, TrackerOf
    <2>5. \A d \in Calls : Inserted(d) => Inserted(d)'
      BY <1>t, <2>1 DEF Moved, Inserted
    <2>6. \A j \in Tasks, t \in Trackers : Holds(j, t)' => Holds(j, t)
      BY <2>1, <2>2 DEF Moved, Holds
    <2>7. Exclusive'
      BY <2>6 DEF Exclusive
    <2>8. \A j \in Tasks : task'[j].todo = task[j].todo
      BY <2>1 DEF Moved
    <2>9. KnownTrackers'
      BY <1>p, <2>3, <2>5, <2>6, <2>8 DEF KnownTrackers
    <2>10. OwnPending'
      BY <1>t, <2>1, <2>3, <2>8 DEF OwnPending, Moved
    <2>11. OwnTrackersSynced'
      BY <1>t, <2>1, <2>3, <2>8 DEF OwnTrackersSynced, Moved
    <2>12. \A t : Applying(t)' => Applying(t) \/ t = task[k].at
      BY <2>1 DEF Moved, Applying
    <2>13. Settled' => Settled
      BY <1>t, <2>1, <2>2, <2>3 DEF Moved, Settled
    <2>14. CurrentOrDue'
      BY <1>t, <2>3, <2>4, <2>8, <2>12, <2>13 DEF CurrentOrDue
    <2> QED
      BY <2>4, <2>7, <2>9, <2>10, <2>11, <2>14
  <1>6. ASSUME NEW k \in Tasks, NEW state \in {"failed", "loaded"}, SyncEnds(k, state),
               task[k].pc = (IF state = "loaded" THEN "applying" ELSE "fetching")
        PROVE  SyncInv'
    <2>1. Moved(k, "syncing", task[k].todo, Nobody)
      BY <1>0, <1>6, MoveEffect DEF SyncEnds
    <2>2. task[k].pc \in {"fetching", "applying"} /\ task[k].at \in Trackers
      BY <1>0, <1>6 DEF PlacesOK
    <2> DEFINE u == task[k].at
    <2>3. /\ UNCHANGED <<addresses, link, backlog, fetched>>
          /\ tracker'[u] = state /\ \A t \in Trackers : t # u => tracker'[t] = tracker[t]
      BY <1>0, <1>6, <2>2 DEF SyncEnds, linkVars, controlVars, TypeOK
    <2>h. Holds(k, u)
      BY <2>2 DEF Holds
    <2> HIDE DEF u
    <2>4. UNCHANGED InMap /\ \A s : UNCHANGED TrackerOf(s)
      BY <2>3 DEF InMap, TrackerOf
    <2>5. \A d \in Calls : Inserted(d) => Inserted(d)'
      BY <1>t, <2>1 DEF Moved, Inserted
    <2>6. \A j \in Tasks, t \in Trackers : Holds(j, t)' => Holds(j, t)
      BY <2>1 DEF Moved, Holds
    <2>7. Exclusive'
      BY <2>6 DEF Exclusive
    <2>8. \A j \in Tasks : task'[j].todo = task[j].todo
      BY <2>1 DEF Moved
    <2>9. KnownTrackers'
      BY <1>p, <2>3, <2>h, <2>5, <2>6, <2>8 DEF KnownTrackers
    <2>10. \A t \in Trackers : tracker'[t] = "new" => tracker[t] = "new"
      BY <2>3
    <2>11. OwnPending'
      BY <1>t, <1>q, <2>1, <2>3, <2>8, <2>10 DEF OwnPending, Moved
    <2>12. OwnTrackersSynced'
      BY <1>t, <1>q, <2>1, <2>8, <2>10 DEF OwnTrackersSynced, Moved
    <2>13. \A t : Applying(t)' => Applying(t)
      BY <2>1 DEF Moved, Applying
    <2>14. Settled' => Settled
      BY <1>t, <2>1, <2>2, <2>3 DEF Moved, Settled
    <2>15. state = "loaded" => Applying(u)
      BY <1>6 DEF Applying, u
    <2>16. CurrentOrDue'
      BY <1>t, <1>m, <2>3, <2>4, <2>8, <2>13, <2>14, <2>15 DEF CurrentOrDue
    <2> QED
      BY <2>4, <2>7, <2>9, <2>11, <2>12, <2>16
  <1>7. ASSUME UNCHANGED <<addresses, tracker>>,
               \A c \in Calls : task'[c] = task[c],
               \A t \in Trackers : Holds(Loop, t)' => Holds(Loop, t),
               task'[Loop].todo \subseteq task[Loop].todo \cup TrackersOf(Spks),
               CurrentOrDue'
        PROVE  SyncInv'
    <2>1. \A k \in Tasks, t \in Trackers : Holds(k, t)' => Holds(k, t)
      BY <1>7 DEF Tasks, Holds
    <2>2. Exclusive'
      BY <2>1 DEF Exclusive
    <2>3. \A k \in Tasks, t \in Trackers :
              t \in task'[k].todo => t \in task[k].todo \/ t \in TrackersOf(Spks)
      BY <1>7 DEF Tasks
    <2>4. \A d \in Calls : Inserted(d) => Inserted(d)'
      BY <1>7 DEF Inserted
    <2>5. KnownTrackers'
      BY <1>p, <1>r, <1>7, <2>1, <2>3, <2>4 DEF KnownTrackers
    <2>6. OwnPending' /\ OwnTrackersSynced'
      BY <1>7 DEF OwnPending, OwnTrackersSynced
    <2> QED
      BY <1>7, <2>2, <2>5, <2>6
  <1>8. CASE LoopMoves
    <2>1. \A c \in Calls : task'[c] = task[c]
      BY <1>t, <1>8 DEF LoopMoves
    <2>2. \A t \in Trackers : Holds(Loop, t)' => Holds(Loop, t)
      BY <1>8 DEF LoopMoves, Holds
    <2>3. /\ UNCHANGED <<addresses, tracker, fetched>> /\ task'[Loop].todo = task[Loop].todo
          /\ Settled' => Settled
      BY <1>8 DEF LoopMoves, Settled
    <2>4. UNCHANGED InMap /\ \A s : UNCHANGED TrackerOf(s)
      BY <2>3 DEF InMap, TrackerOf
    <2>5. \A t : Applying(t)' => Applying(t)
      BY <2>1, <1>8 DEF LoopMoves, Applying, Tasks
    <2>6. CurrentOrDue'
      BY <2>3, <2>4, <2>5 DEF CurrentOrDue
    <2> QED
      BY <1>7, <2>1, <2>2, <2>3, <2>6
  <1>9. CASE InitAddresses
    <2>1. Moved(Loop, "syncing", TrackersOf(Spks), Nobody)
      BY <1>0, <1>t, <1>9, MoveEffect DEF InitAddresses
    <2>2. UNCHANGED <<addresses, tracker>>
      BY <1>9 DEF InitAddresses
    <2>3. \A c \in Calls : task'[c] = task[c]
      BY <1>t, <2>1 DEF Moved
    <2>4. \A t \in Trackers : ~Holds(Loop, t)'
      BY <2>1 DEF Moved, Holds
    <2>5. InMap' = InMap /\ \A s \in InMap : TrackerOf(s)' \in TrackersOf(Spks)
      BY <2>2 DEF InMap, TrackerOf, TrackersOf
    <2>6. task'[Loop].todo = TrackersOf(Spks)
      BY <2>1 DEF Moved
    <2>7. CurrentOrDue'
      BY <2>5, <2>6 DEF CurrentOrDue
    <2> QED
      BY <1>7, <2>2, <2>3, <2>4, <2>6, <2>7
  <1>10. CASE Connect \/ Disconnect
    <2>1. UNCHANGED <<addresses, tracker, task>> /\ ~Settled'
      BY <1>0, <1>10, WalletAssumption DEF Connect, Disconnect, Settled, TypeOK
    <2>2. CurrentOrDue'
      BY <2>1 DEF CurrentOrDue
    <2> QED
      BY <1>7, <2>1, <2>2 DEF Holds
  <1>11. CASE UNCHANGED vars
    <2>1. CurrentOrDue'
      BY <1>11 DEF vars, linkVars, controlVars, CurrentOrDue, Settled, InMap, TrackerOf, Applying
    <2> QED
      BY <1>7, <1>11, <2>1 DEF vars, linkVars, controlVars, Holds
  <1>13. CASE ControlLags
    <2>1. UNCHANGED <<addresses, tracker, task, link, backlog, fetched>>
      BY <1>13 DEF ControlLags
    <2>2. CurrentOrDue'
      BY <2>1 DEF CurrentOrDue, Settled, InMap, TrackerOf, Applying
    <2> QED
      BY <1>7, <2>1, <2>2 DEF Holds
  <1>12. ASSUME NEW k \in Tasks, SyncStep(k) PROVE SyncInv'
    BY <1>4, <1>5, <1>6, <1>12 DEF SyncStep, FetchFails, SyncEnd
  <1> QED
    BY <1>1, <1>2, <1>3, <1>8, <1>9, <1>10, <1>11, <1>12, <1>13, MoveSteps

(* The inductive invariant.                                                *)
IndInv == TypeInv /\ SubscriptionInv /\ PanicInv /\ SyncInv

LEMMA InitInd == Init => IndInv
  <1> SUFFICES ASSUME Init PROVE IndInv
    OBVIOUS
  <1>1. TypeInv
    BY InitTypes
  <1>2. \A k \in Tasks : task[k].pc = "idle" /\ task[k].todo = {}
    BY DEF Init, NewTask
  <1>3. /\ InMap = {} /\ activeSpks = {} /\ lost = {} /\ link = "down"
        /\ \A t \in Trackers : tracker[t] = "new"
    BY DEF Init, InMap
  <1>4. Loop \in Tasks /\ \A c \in Calls : c \in Tasks
    BY DEF Tasks
  <1>5. SubscriptionInv
    BY <1>2, <1>3, <1>4 DEF SubscriptionInv, NoStraySubscription, WatchedIsSubscribed, Settled,
                            Announced, ControlState, OwnersInserted
  <1>6. PanicInv
    BY <1>2, <1>4 DEF PanicInv, PanicsOnlyWhenUnwatched, MissingUnwatched, Watching
  <1>7. \A k \in Tasks, t \in Trackers : ~Holds(k, t)
    BY <1>2 DEF Holds
  <1>8. OwnPending
    BY WalletAssumption DEF Init, OwnPending
  <1>9. SyncInv
    BY <1>2, <1>3, <1>4, <1>5, <1>7, <1>8 DEF SyncInv, SubscriptionInv, Exclusive, KnownTrackers,
           OwnTrackersSynced, CurrentOrDue, Settled
  <1> QED
    BY <1>1, <1>5, <1>6, <1>9 DEF IndInv

LEMMA StepInd == IndInv /\ [Next]_vars => IndInv'
  <1> SUFFICES ASSUME IndInv, [Next]_vars PROVE IndInv'
    OBVIOUS
  <1>1. TypeInv'
    BY TypeStep DEF IndInv
  <1>2. SubscriptionInv'
    BY SubscriptionStep DEF IndInv
  <1>3. PanicInv'
    BY PanicStep DEF IndInv
  <1>4. SyncInv'
    BY <1>2, SyncInvStep DEF IndInv, SubscriptionInv
  <1> QED
    BY <1>1, <1>2, <1>3, <1>4 DEF IndInv

LEMMA Inductive == Spec => []IndInv
  BY InitInd, StepInd, PTL DEF Spec

(* Every variable keeps its type (the state of src/src/wallet/mod.rs).     *)
THEOREM TypesHold == Spec => []TypeOK
  <1>1. IndInv => TypeOK
    BY DEF IndInv, TypeInv
  <1> QED
    BY <1>1, Inductive, PTL

(* No address stays subscribed that nobody watches (Wallet::watch, unwatch *)
(* and init_addresses in any interleaving), except one whose events were   *)
(* lost when the control channel overran (control.rs:65).                  *)
THEOREM NothingStray == Spec => []NoStraySubscription
  <1>1. IndInv => NoStraySubscription
    BY DEF IndInv, SubscriptionInv
  <1> QED
    BY <1>1, Inductive, PTL

(* Every address in the map is subscribed on a link whose Connected was    *)
(* dealt with, unless its watch was overtaken (wallet/mod.rs:182-198) or   *)
(* its last event was lost when the control channel overran.               *)
THEOREM SubscriptionFollowsMap == Spec => []WatchedIsSubscribed
  <1>1. IndInv => WatchedIsSubscribed
    BY DEF IndInv, SubscriptionInv
  <1> QED
    BY <1>1, Inductive, PTL

(* init_addresses leaves no snapshot of an earlier link behind, whatever   *)
(* calls of watch are syncing meanwhile (wallet/mod.rs:332-343).           *)
THEOREM LoadedAfterReconnect == Spec => []LoadedIsCurrent
  <1>1. IndInv => LoadedIsCurrent
    BY CurrentFromInv DEF IndInv
  <1> QED
    BY <1>1, Inductive, PTL

(* watch reads its own trackers only after their sync (wallet/mod.rs:204). *)
THEOREM OwnTrackersRead == Spec => []OwnTrackersSynced
  <1>1. IndInv => OwnTrackersSynced
    BY DEF IndInv, SyncInv
  <1> QED
    BY <1>1, Inductive, PTL

(* The expect of watch fails only for an address whose unwatch has ended   *)
(* (wallet/mod.rs:208).                                                    *)
THEOREM PanicExplained == Spec => []PanicsOnlyWhenUnwatched
  <1>1. IndInv => PanicsOnlyWhenUnwatched
    BY DEF IndInv, PanicInv
  <1> QED
    BY <1>1, Inductive, PTL

=============================================================================
