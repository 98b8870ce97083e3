--------------------------- MODULE WalletLifecycle ---------------------------
(***************************************************************************)
(* Connecting, disconnecting and connecting again: what one wallet does    *)
(* with several calls of connect (src/src/wallet/mod.rs) and one caller of *)
(* disconnect(true).                                                       *)
(*                                                                         *)
(* Every call of connect is a session: it spawns an event loop and a       *)
(* manager of its own (src/src/socket/mod.rs), and nothing ends those of   *)
(* an earlier session.  All sessions share the channels of the client: each*)
(* manager's events reach every loop, its statuses every waiting caller,   *)
(* and a Close every control thread.                                       *)
(*                                                                         *)
(* The threads of a connection are those of Connection; here they are      *)
(* reduced to whether a control thread would hear a Close.                 *)
(***************************************************************************)
EXTENDS Broadcast

CONSTANTS
    Sessions,      \* the calls of connect
    StatusCap,     \* capacity of the status channel (1)
    MaxAttempts,   \* bound: connection attempts of all managers
    MaxStops,      \* bound: calls of disconnect(true)
    OneUser        \* connect and disconnect are called by one task, in turn

ASSUME LifecycleAssumption ==
    /\ Sessions \subseteq Nat \ {0}
    /\ StatusCap \in Nat \ {0}
    /\ {MaxAttempts, MaxStops} \subseteq Nat
    /\ OneUser \in BOOLEAN

VARIABLES
    caller,     \* caller[i]: where the caller of connect(true) is
    loop,       \* loop[i]: where the event loop of session i is
    inbox,      \* inbox[i]: its websocket events
    manager,    \* manager[i]: where the manager of session i is
    control,    \* control[i]: "none", "listening" or "closing"
    attempts,   \* how often a manager has tried to connect
    stopper,    \* where the caller of disconnect(true) is
    stops,      \* how often it has been called
    statuses,   \* statuses[p]: the status receiver of a caller
    told,       \* history: the loops that were told of manager i's connection
    late        \* history: the waiting who subscribed after what they wait for
vars == <<caller, loop, inbox, manager, control, attempts, stopper, stops, statuses, told, late>>
managerVars == <<manager, control, attempts, told>>
stopVars == <<stopper, stops>>

(* Sessions are numbered from 1.                                           *)
Stopper == 0
Waiters == Sessions \cup {Stopper}

(* Callers pass over Ready, Connecting and Disconnected: all are "Other".  *)
Statuses == {"Connected", "Offline", "Other"}

(* The loop does nothing about Disconnected and Error that concerns it.    *)
Events == {"Connected", "Offline"}

Init ==
    /\ caller = [i \in Sessions |-> "idle"]
    /\ loop = [i \in Sessions |-> "none"]
    /\ inbox = [i \in Sessions |-> <<>>]
    /\ manager = [i \in Sessions |-> "none"]
    /\ control = [i \in Sessions |-> "none"]
    /\ attempts = 0
    /\ stopper = "idle" /\ stops = 0
    /\ statuses = [p \in Waiters |-> Subscribed]
    /\ told = [i \in Sessions |-> {}]
    /\ late = {}

(* status.update(s): all receivers on the one status channel.              *)
UpdateStatus(s) ==
    statuses' = [p \in Waiters |->
        IF (IF p = Stopper THEN stopper ELSE caller[p]) = "waiting"
        THEN Deliver(statuses[p], s, StatusCap) ELSE statuses[p]]

(* self.notify(event): all event loops that have subscribed.               *)
Listeners == {k \in Sessions : loop[k] = "listening"}
Notify(event) ==
    inbox' = [k \in Sessions |->
        IF k \in Listeners THEN Append(inbox[k], event) ELSE inbox[k]]

(* With one user, a call begins when the one before it has returned.       *)
InTurn ==
    OneUser => stopper # "waiting" /\ \A i \in Sessions : caller[i] \in {"idle", "returned"}

-----------------------------------------------------------------------------
(* Wallet::connect(true) and Client::start(true).                          *)
Connect(i) ==
    /\ InTurn
    /\ caller[i] = "idle" /\ \A j \in Sessions : j < i => caller[j] # "idle"
    /\ caller' = [caller EXCEPT ![i] = "subscribing"]
    /\ loop' = [loop EXCEPT ![i] = "spawned"]
    /\ manager' = [manager EXCEPT ![i] = "ready"]
    /\ UNCHANGED <<inbox, control, attempts, told, stopVars, statuses, late>>

(* Only now, with the manager spawned, does start subscribe to the status: *)
(* on another thread the manager may have come far by then.                *)
StartSubscribe(i) ==
    /\ caller[i] = "subscribing"
    /\ caller' = [caller EXCEPT ![i] = "waiting"]
    /\ statuses' = [statuses EXCEPT ![i] = Subscribed]
    /\ late' = late \cup {j \in {i} : manager[j] \in {"connected", "offline", "ended"}}
    /\ UNCHANGED <<loop, inbox, managerVars, stopVars>>

(* Seeded fault: start waits for Connected alone.                          *)
StartReceiveConnected(i) ==
    /\ caller[i] = "waiting" /\ CanReceive(statuses[i])
    /\ caller' = IF HasMessage(statuses[i]) /\ Head(statuses[i].buf) = "Connected"
                 THEN [caller EXCEPT ![i] = "returned"] ELSE caller
    /\ statuses' = [statuses EXCEPT ![i] = IF caller'[i] = "waiting" THEN Received(@) ELSE Subscribed]
    /\ late' = {j \in late : caller'[j] = "waiting"}
    /\ UNCHANGED <<loop, inbox, managerVars, stopVars>>

(* A loss is passed over like any other status.                            *)
StartReceive(i) ==
    /\ caller[i] = "waiting" /\ CanReceive(statuses[i])
    /\ caller' = IF HasMessage(statuses[i]) /\ Head(statuses[i].buf) \in {"Connected", "Offline"}
                 THEN [caller EXCEPT ![i] = "returned"] ELSE caller
    /\ statuses' = [statuses EXCEPT ![i] = IF caller'[i] = "waiting" THEN Received(@) ELSE Subscribed]
    /\ late' = {j \in late : caller'[j] = "waiting"}
    /\ UNCHANGED <<loop, inbox, managerVars, stopVars>>

(* disconnect(true): a Close for every control thread there is, then the   *)
(* wait for a status.  Connection has the two in separate steps.           *)
Stop ==
    /\ InTurn
    /\ stopper # "waiting" /\ stops < MaxStops
    /\ stopper' = "waiting" /\ stops' = stops + 1
    /\ control' = [i \in Sessions |-> IF control[i] = "listening" THEN "closing" ELSE control[i]]
    /\ statuses' = [statuses EXCEPT ![Stopper] = Subscribed]
    /\ UNCHANGED <<caller, loop, inbox, manager, attempts, told, late>>

(* Any error, a loss too, ends the wait.                                   *)
StopReceive ==
    /\ stopper = "waiting" /\ CanReceive(statuses[Stopper])
    /\ stopper' = IF HasMessage(statuses[Stopper]) /\ Head(statuses[Stopper].buf) # "Offline"
                  THEN "waiting" ELSE "returned"
    /\ statuses' = [statuses EXCEPT ![Stopper] = IF stopper' = "waiting" THEN Received(@) ELSE Subscribed]
    /\ UNCHANGED <<caller, loop, inbox, managerVars, stops, late>>

-----------------------------------------------------------------------------
(* The event loop of Wallet::connect subscribes when it first runs.        *)
LoopFirstRun(i) ==
    /\ loop[i] = "spawned"
    /\ loop' = [loop EXCEPT ![i] = "listening"]
    /\ UNCHANGED <<caller, inbox, managerVars, stopVars, statuses, late>>

(* Offline ends it, whichever manager it is from; Connected makes it sync  *)
(* the addresses, as Wallet has it.                                        *)
LoopReceive(i) ==
    /\ loop[i] = "listening" /\ inbox[i] # <<>>
    /\ loop' = IF Head(inbox[i]) = "Offline" THEN [loop EXCEPT ![i] = "ended"] ELSE loop
    /\ inbox' = [inbox EXCEPT ![i] = IF loop'[i] = "ended" THEN <<>> ELSE Tail(@)]
    /\ UNCHANGED <<caller, managerVars, stopVars, statuses, late>>

-----------------------------------------------------------------------------
(* The manager.  Nothing orders it after the first run of the loop, nor    *)
(* after the subscription of the caller that spawned it.                   *)
ManagerStep(i, from, to) ==
    /\ manager[i] = from
    /\ manager' = [manager EXCEPT ![i] = to]
    /\ UNCHANGED <<caller, loop, stopVars, late>>

Ready(i) ==
    /\ ManagerStep(i, "ready", "connecting")
    /\ attempts < MaxAttempts
    /\ attempts' = attempts + 1
    /\ UpdateStatus("Other")
    /\ UNCHANGED <<inbox, control, told>>

(* The websocket is open: the threads are spawned, the wallet is notified, *)
(* then the status follows, without giving way in between.                 *)
ConnectOk(i) ==
    /\ ManagerStep(i, "connecting", "connected")
    /\ control' = [control EXCEPT ![i] = "listening"]
    /\ Notify("Connected")
    /\ told' = [told EXCEPT ![i] = Listeners]
    /\ UpdateStatus("Connected")
    /\ UNCHANGED attempts

ConnectErr(i) ==
    /\ ManagerStep(i, "connecting", "disconnected")
    /\ UpdateStatus("Other")
    /\ UNCHANGED <<inbox, control, attempts, told>>

(* Some thread ends the connection; a Close that only now arrives is lost. *)
Breaks(i) ==
    /\ ManagerStep(i, "connected", "disconnected")
    /\ control' = [control EXCEPT ![i] = "none"]
    /\ UpdateStatus("Other")
    /\ told' = [told EXCEPT ![i] = {}]
    /\ UNCHANGED <<inbox, attempts>>

(* The Close went through the control thread: the status is sent before    *)
(* the threads are told and joined.                                        *)
Closes(i) ==
    /\ control[i] = "closing"
    /\ ManagerStep(i, "connected", "offline")
    /\ control' = [control EXCEPT ![i] = "none"]
    /\ UpdateStatus("Offline")
    /\ told' = [told EXCEPT ![i] = {}]
    /\ UNCHANGED <<inbox, attempts>>

(* Seeded fault: the end of a connection is announced as that of its manager.*)
WakeOffline(i) ==
    /\ ManagerStep(i, "disconnected", "ready")
    /\ Notify("Offline")
    /\ UpdateStatus("Other")
    /\ UNCHANGED <<control, attempts, told>>

(* The threads are joined, and 30 s later the manager is ready again.      *)
Wake(i) ==
    /\ ManagerStep(i, "disconnected", "ready")
    /\ UpdateStatus("Other")
    /\ UNCHANGED <<inbox, control, attempts, told>>

(* Seeded fault: start returns without its last notification.              *)
EndQuietly(i) ==
    /\ ManagerStep(i, "offline", "ended")
    /\ UNCHANGED <<inbox, control, attempts, told, statuses>>

(* The threads are joined, and start returns.                              *)
End(i) ==
    /\ ManagerStep(i, "offline", "ended")
    /\ Notify("Offline")
    /\ UNCHANGED <<control, attempts, told, statuses>>

-----------------------------------------------------------------------------
LoopStep(i) == LoopFirstRun(i) \/ LoopReceive(i)
CallerStep(i) == StartSubscribe(i) \/ StartReceive(i)

(* What a manager does by itself; a connection breaks only by chance.      *)
ManagerGoesOn(i) ==
    \/ Ready(i) \/ ConnectOk(i) \/ ConnectErr(i) \/ Closes(i) \/ Wake(i) \/ End(i)

Next ==
    \/ Stop \/ StopReceive
    \/ \E i \in Sessions :
          Connect(i) \/ CallerStep(i) \/ LoopStep(i) \/ ManagerGoesOn(i) \/ Breaks(i)

Spec == Init /\ [][Next]_vars

(* Every task that can run is scheduled.                                   *)
Fairness ==
    \A i \in Sessions :
        WF_vars(CallerStep(i)) /\ WF_vars(LoopStep(i)) /\ WF_vars(ManagerGoesOn(i))

FairSpec == Spec /\ Fairness
-----------------------------------------------------------------------------
TypeOK ==
    /\ caller \in [Sessions -> {"idle", "subscribing", "waiting", "returned"}]
    /\ loop \in [Sessions -> {"none", "spawned", "listening", "ended"}]
    /\ inbox \in [Sessions -> Seq(Events)]
    /\ manager \in [Sessions -> {"none", "ready", "connecting", "connected", "disconnected",
                                 "offline", "ended"}]
    /\ control \in [Sessions -> {"none", "listening", "closing"}]
    /\ attempts \in 0..MaxAttempts
    /\ stopper \in {"idle", "waiting", "returned"} /\ stops \in 0..MaxStops
    /\ statuses \in [Waiters -> Receivers(Statuses, StatusCap)]
    /\ told \in [Sessions -> SUBSET Sessions]
    /\ late \subseteq Sessions

(* A loop that goes on: no Offline waits for it.                           *)
GoesOn(k) == loop[k] = "listening" /\ \A n \in 1..Len(inbox[k]) : inbox[k][n] # "Offline"

(* The loop of session i lives, but it subscribes inside its own task      *)
(* (wallet/mod.rs:113), and was not there when Connected was sent.         *)
LoopLate(i) == loop[i] \in {"spawned", "listening"} /\ i \notin told[i]

(* README.md:7 and 22-23, after wallet.connect(true): pushed events are    *)
(* used.  While the websocket is connected, an event loop that was told of *)
(* it goes on and handles what it pushes, unless the session's own loop    *)
(* subscribed too late to be told.                                         *)
Heard(i) == manager[i] = "connected" => LoopLate(i) \/ \E k \in told[i] : GoesOn(k)
EveryConnectionHeard == \A i \in Sessions : Heard(i)

(* As long as no other manager of this wallet has gone offline, that is    *)
(* so, in whatever order tasks first run: losses, breaks and reconnections *)
(* never take the loop away, and a loop that was late for one connection   *)
(* is told of the next.                                                    *)
HeardUnlessOtherStopped ==
    \A i \in Sessions :
        Heard(i) \/ \E j \in Sessions \ {i} : manager[j] \in {"offline", "ended"}

(* An event loop that listens when its manager goes offline ends, and lets *)
(* go of its clone of the wallet (wallet/mod.rs:118-121).  One that first  *)
(* runs after that last event waits for ever.                              *)
LoopsEnd ==
    \A i \in Sessions :
        (manager[i] = "offline" /\ loop[i] = "listening") ~> (loop[i] = "ended")

AtRest == \A j \in Sessions : manager[j] \in {"none", "connected", "ended"}
Answered(i) == caller[i] # "waiting" \/ ~AtRest

(* socket/mod.rs:34: start(true) resolves the first time the websocket     *)
(* connects.  Its caller does not wait for ever once every manager is      *)
(* connected or has ended.                                                 *)
StartResolves == \A i \in Sessions : []<>Answered(i)

(* So it is, though the status channel holds one message and all managers  *)
(* write to it, for a caller who subscribed (socket/mod.rs:45) before its  *)
(* manager was connected or offline.                                       *)
StartReturns == \A i \in Sessions : []<>(Answered(i) \/ i \in late)
=============================================================================
