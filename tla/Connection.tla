----------------------------- MODULE Connection -----------------------------
(***************************************************************************)
(* The websocket connection (src/src/socket): the manager's state machine, *)
(* the three threads it spawns for each connection (control, message and   *)
(* ping), and the callers of stop, watch and unwatch.                      *)
(*                                                                         *)
(* The threads share a disconnect channel of capacity 1, which carries     *)
(* only the value true.  A thread subscribes to it when it first runs, and *)
(* the manager when it reaches its select.  The close channel is a oneshot *)
(* from the control thread to the manager.                                 *)
(***************************************************************************)
EXTENDS Broadcast

CONSTANTS
    ControlCap,   \* capacity of the control channel (256)
    Faults,       \* how a socket may fail, out of {"broken", "ended", "silent"}
    MaxSilence,   \* 1: the server answers in time, 2: it may stay silent
    StopWaits,    \* the values stop is called with
    Overrun       \* senders may overrun the control channel

ASSUME ConnectionAssumption ==
    /\ ControlCap \in Nat \ {0}
    /\ Faults \subseteq {"broken", "ended", "silent"}
    /\ MaxSilence \in 0..2
    /\ Overrun \in BOOLEAN
    /\ StopWaits \subseteq BOOLEAN

VARIABLES
    manager,   \* where the manager's loop is
    thread,    \* thread[w]: where the thread w of the last connection is
    signal,    \* signal[w]: the disconnect receiver of w
    missed,    \* history: who had yet to subscribe when the last signal of this
               \* connection was sent
    control,   \* the control thread's receiver of control events
    close,     \* the close channel: "none", "open", "sent", or "dropped"
    socket,    \* "closed", "up", or one of Faults
    silence,   \* time since the last response: 0, above 30 s (1) or 60 s (2)
    pinged,    \* waiting_for_pong
    stopper,   \* where a caller of stop is
    statuses   \* its receiver of status updates (capacity 1)
vars == <<manager, thread, signal, missed, control, close, socket, silence, pinged,
          stopper, statuses>>
socketVars == <<socket, silence>>
stopVars == <<stopper, statuses>>

Workers == {"control", "message", "ping"}

(* Update is a Subscribe or Unsubscribe that changes the subscribed set.   *)
ControlEvent == {"Close", "Ping", "Update"}

Alive(w) == thread[w] \in {"spawned", "running", "deaf"}
AllExited == \A w \in Workers : ~Alive(w)

(* Who has subscribed to the disconnect channel and still listens.         *)
Listening(w) ==
    IF w = "manager" THEN manager = "select" ELSE thread[w] \in {"running", "deaf"}

Listeners == Workers \cup {"manager"}

(* Who is going to subscribe: the threads when they first run, in whatever *)
(* order the executor picks, and the manager when it reaches its select.   *)
YetToSubscribe(w) ==
    IF w = "manager" THEN manager = "connected" ELSE thread[w] = "spawned"

(* disconnect_channel.send(true)                                           *)
SignalAll ==
    /\ signal' = [w \in Listeners |->
           IF Listening(w) THEN Deliver(signal[w], TRUE, 1) ELSE signal[w]]
    /\ missed' = {w \in Listeners : YetToSubscribe(w)}

(* status.update(s)                                                        *)
UpdateStatus(s) ==
    statuses' = IF stopper = "waiting" THEN Deliver(statuses, s, 1) ELSE statuses

(* control_sender.send(e): lost while no control thread has a receiver.  A *)
(* deaf one never looks at its receiver again.                             *)
SendControl(e) ==
    /\ Overrun \/ Len(control.buf) < ControlCap
    /\ control' = IF thread["control"] \in {"spawned", "running"}
                  THEN Deliver(control, e, ControlCap) ELSE control

Init ==
    /\ manager = "ready"
    /\ thread = [w \in Workers |-> "none"]
    /\ signal = [w \in Listeners |-> Subscribed] /\ missed = {}
    /\ control = Subscribed
    /\ close = "none"
    /\ socket = "closed" /\ silence = 0
    /\ pinged = FALSE
    /\ stopper = "idle" /\ statuses = Subscribed

-----------------------------------------------------------------------------
(* connection::Manager::start                                              *)
Ready ==
    /\ manager = "ready"
    /\ manager' = "connecting"
    /\ UpdateStatus("Connecting")
    /\ UNCHANGED <<thread, signal, missed, control, close, socketVars, pinged, stopper>>

(* connect() succeeds: fresh channels, and three threads that have not run.*)
ConnectOk ==
    /\ manager = "connecting"
    /\ manager' = "connected"
    /\ thread' = [w \in Workers |-> "spawned"]
    /\ missed' = {}
    /\ control' = Subscribed
    /\ close' = "open"
    /\ socket' = "up" /\ silence' = 0
    /\ UpdateStatus("Connected")
    /\ UNCHANGED <<signal, pinged, stopper>>

ConnectErr ==
    /\ manager = "connecting"
    /\ manager' = "disconnected"
    /\ close' = "none"
    /\ UpdateStatus("Disconnected")
    /\ UNCHANGED <<thread, signal, missed, control, socketVars, pinged, stopper>>

(* The Connected arm subscribes and waits.                                 *)
Select ==
    /\ manager = "connected"
    /\ manager' = "select"
    /\ signal' = [signal EXCEPT !["manager"] = Subscribed]
    /\ UNCHANGED <<thread, missed, control, close, socketVars, pinged, stopVars>>

SelectDisconnect ==
    /\ manager = "select"
    /\ CanReceive(signal["manager"])
    /\ manager' = "disconnected"
    /\ UpdateStatus("Disconnected")
    /\ UNCHANGED <<thread, signal, missed, control, close, socketVars, pinged, stopper>>

(* Seeded fault: an error on the close channel takes the client offline.   *)
SelectCloseAnyhow ==
    /\ manager = "select"
    /\ close \in {"sent", "dropped"}
    /\ manager' = "offline"
    /\ UpdateStatus("Offline")
    /\ SignalAll
    /\ UNCHANGED <<thread, control, close, socketVars, pinged, stopper>>

(* Seeded fault: the threads are not told that the connection is over.     *)
SelectCloseQuietly ==
    /\ manager = "select"
    /\ close \in {"sent", "dropped"}
    /\ manager' = IF close = "sent" THEN "offline" ELSE "disconnected"
    /\ UpdateStatus(IF close = "sent" THEN "Offline" ELSE "Disconnected")
    /\ UNCHANGED <<thread, signal, missed, control, close, socketVars, pinged, stopper>>

(* The close channel resolves; the threads are told after the update.      *)
SelectClose ==
    /\ manager = "select"
    /\ close \in {"sent", "dropped"}
    /\ manager' = IF close = "sent" THEN "offline" ELSE "disconnected"
    /\ UpdateStatus(IF close = "sent" THEN "Offline" ELSE "Disconnected")
    /\ SignalAll
    /\ UNCHANGED <<thread, control, close, socketVars, pinged, stopper>>

(* Seeded fault: the next connection does not wait for the threads.        *)
JoinNobody ==
    /\ manager = "disconnected"
    /\ manager' = "sleeping"
    /\ socket' = "closed"
    /\ UNCHANGED <<thread, signal, missed, control, close, silence, pinged, stopVars>>

(* The Disconnected arm joins the threads, then sleeps.                    *)
JoinDisconnected ==
    /\ manager = "disconnected"
    /\ AllExited
    /\ manager' = "sleeping"
    /\ socket' = "closed"
    /\ UNCHANGED <<thread, signal, missed, control, close, silence, pinged, stopVars>>

Wake ==
    /\ manager = "sleeping"
    /\ manager' = "ready"
    /\ UpdateStatus("Ready")
    /\ UNCHANGED <<thread, signal, missed, control, close, socketVars, pinged, stopper>>

JoinOffline ==
    /\ manager = "offline"
    /\ AllExited
    /\ manager' = "ended"
    /\ socket' = "closed"
    /\ UNCHANGED <<thread, signal, missed, control, close, silence, pinged, stopVars>>

-----------------------------------------------------------------------------
(* Threads.  The first run of each subscribes to the disconnect channel.   *)
FirstRun(w) ==
    /\ thread[w] = "spawned"
    /\ thread' = [thread EXCEPT ![w] = "running"]
    /\ signal' = [signal EXCEPT ![w] = Subscribed]
    /\ IF w = "ping" THEN silence' = 0 /\ pinged' = FALSE
                     ELSE UNCHANGED <<silence, pinged>>
    /\ UNCHANGED <<manager, missed, control, close, socket, stopVars>>

(* The control thread owns the sending end of the close channel.           *)
CloseAfterControl == IF close = "open" THEN "dropped" ELSE close

(* Any result of recv() on the disconnect channel ends control and message.*)
Exit(w) ==
    /\ w \in {"control", "message"}
    /\ thread[w] \in {"running", "deaf"}
    /\ CanReceive(signal[w])
    /\ thread' = [thread EXCEPT ![w] = "done"]
    /\ close' = IF w = "control" THEN CloseAfterControl ELSE close
    /\ UNCHANGED <<manager, signal, missed, control, socketVars, pinged, stopVars>>

(* control::Manager::start: the arm that receives control events.          *)
ControlHas(e) ==
    /\ thread["control"] = "running"
    /\ HasMessage(control) /\ Head(control.buf) = e

(* The sink is closed first; from then on every send on it fails.          *)
ControlClose ==
    /\ ControlHas("Close")
    /\ control' = Received(control)
    /\ close' = IF close = "open" THEN "sent" ELSE close
    /\ UNCHANGED <<manager, thread, signal, missed, socketVars, pinged, stopVars>>

ControlPing ==
    /\ ControlHas("Ping")
    /\ control' = Received(control)
    /\ UNCHANGED <<manager, thread, signal, missed, close, socketVars, pinged, stopVars>>

ControlUpdate ==
    /\ ControlHas("Update")
    /\ close # "sent"
    /\ control' = Received(control)
    /\ UNCHANGED <<manager, thread, signal, missed, close, socketVars, pinged, stopVars>>

(* The send fails: the other threads are told and control ends.            *)
ControlUpdateFails ==
    /\ ControlHas("Update")
    /\ socket \in {"broken", "ended"} \/ close = "sent"
    /\ control' = Received(control)
    /\ SignalAll
    /\ thread' = [thread EXCEPT !["control"] = "done"]
    /\ close' = CloseAfterControl
    /\ UNCHANGED <<manager, socketVars, pinged, stopVars>>

(* An Err(Lagged) does not match the arm: the select goes on without it.   *)
ControlLagged ==
    /\ thread["control"] = "running"
    /\ control.lagged
    /\ control' = Subscribed
    /\ thread' = [thread EXCEPT !["control"] = "deaf"]
    /\ UNCHANGED <<manager, signal, missed, close, socketVars, pinged, stopVars>>

(* message::Manager::start: something arrives, an error, or the end of the *)
(* stream, which does not match the arm and leaves the select without it.  *)
MessageArrives ==
    /\ thread["message"] = "running"
    /\ socket = "up"
    /\ silence' = 0
    /\ UNCHANGED <<manager, thread, signal, missed, control, close, socket, pinged, stopVars>>

MessageError ==
    /\ thread["message"] = "running"
    /\ socket = "broken"
    /\ socket' = "ended"
    /\ silence' = 0
    /\ SignalAll
    /\ UNCHANGED <<manager, thread, control, close, pinged, stopVars>>

MessageEnd ==
    /\ thread["message"] = "running"
    /\ socket = "ended"
    /\ thread' = [thread EXCEPT !["message"] = "deaf"]
    /\ UNCHANGED <<manager, signal, missed, control, close, socketVars, pinged, stopVars>>

(* ping::Manager::start: one turn of the loop.  try_recv() = Ok(true) ends *)
(* it; the report of a loss does not, and is consumed.                     *)
PingExit ==
    /\ thread["ping"] = "running"
    /\ HasMessage(signal["ping"])
    /\ thread' = [thread EXCEPT !["ping"] = "done"]
    /\ UNCHANGED <<manager, signal, missed, control, close, socketVars, pinged, stopVars>>

PingTurn ==
    /\ thread["ping"] = "running"
    /\ ~HasMessage(signal["ping"])

SignalsAfterTurn ==
    [signal EXCEPT !["ping"] = IF CanReceive(@) THEN Received(@) ELSE @]

(* Seeded fault: the timeout ends the ping thread and tells nobody.        *)
PingTimeoutQuietly ==
    /\ PingTurn
    /\ silence = 2
    /\ thread' = [thread EXCEPT !["ping"] = "done"]
    /\ signal' = SignalsAfterTurn
    /\ UNCHANGED <<manager, missed, control, close, socketVars, pinged, stopVars>>

PingTimeout ==
    /\ PingTurn
    /\ silence = 2
    /\ thread' = [thread EXCEPT !["ping"] = "done"]
    /\ SignalAll
    /\ UNCHANGED <<manager, control, close, socketVars, pinged, stopVars>>

PingRequest ==
    /\ PingTurn
    /\ silence = 1 /\ ~pinged
    /\ pinged' = TRUE
    /\ SendControl("Ping")
    /\ signal' = SignalsAfterTurn
    /\ UNCHANGED <<manager, thread, missed, close, socketVars, stopVars>>

PingRest ==
    /\ PingTurn
    /\ silence = 0 \/ (silence = 1 /\ pinged)
    /\ pinged' = (pinged /\ silence = 1)
    /\ signal' = SignalsAfterTurn
    /\ UNCHANGED <<manager, thread, missed, control, close, socketVars, stopVars>>

-----------------------------------------------------------------------------
(* The environment: the socket fails, or the server answers the close of  *)
(* the sink; time passes without a response.  A spawned thread does not    *)
(* take 30 s to run first.                                                 *)
SocketFails ==
    /\ socket = "up"
    /\ socket' \in Faults \/ (close = "sent" /\ socket' = "ended")
    /\ UNCHANGED <<manager, thread, signal, missed, control, close, silence, pinged, stopVars>>

TimePasses ==
    /\ socket # "closed"
    /\ \A w \in Workers : thread[w] # "spawned"
    /\ silence < IF socket = "up" THEN MaxSilence ELSE 2
    /\ silence' = silence + 1
    /\ UNCHANGED <<manager, thread, signal, missed, control, close, socket, pinged, stopVars>>

(* watch and unwatch send a Subscribe or an Unsubscribe.                   *)
UserUpdates ==
    /\ SendControl("Update")
    /\ UNCHANGED <<manager, thread, signal, missed, close, socketVars, pinged, stopVars>>

(* Client::stop(false) creates the future that stops the manager and drops *)
(* it before it ever runs.                                                 *)
StopWithoutWaiting ==
    /\ FALSE \in StopWaits
    /\ stopper \in {"idle", "returned", "dropped"}
    /\ stopper' = "dropped"
    /\ UNCHANGED <<manager, thread, signal, missed, control, close, socketVars, pinged, statuses>>

(* Client::stop(true) sends Close; then it subscribes to the status.  There*)
(* is no await between the two, but other tasks run on other threads.      *)
StopSend ==
    /\ TRUE \in StopWaits
    /\ stopper \in {"idle", "returned", "dropped"}
    /\ stopper' = "sent"
    /\ statuses' = Subscribed
    /\ SendControl("Close")
    /\ UNCHANGED <<manager, thread, signal, missed, close, socketVars, pinged>>

StopSubscribe ==
    /\ stopper = "sent"
    /\ stopper' = "waiting"
    /\ statuses' = Subscribed
    /\ UNCHANGED <<manager, thread, signal, missed, control, close, socketVars, pinged>>

(* while let Ok(status): a lost update ends the loop as Offline does.      *)
StopReceive ==
    /\ stopper = "waiting"
    /\ CanReceive(statuses)
    /\ statuses' = Received(statuses)
    /\ stopper' = IF statuses.lagged \/ Head(statuses.buf) = "Offline"
                  THEN "returned" ELSE "waiting"
    /\ UNCHANGED <<manager, thread, signal, missed, control, close, socketVars, pinged>>

-----------------------------------------------------------------------------
ManagerStep ==
    \/ Ready \/ ConnectOk \/ ConnectErr \/ Select
    \/ SelectDisconnect \/ SelectClose
    \/ JoinDisconnected \/ Wake \/ JoinOffline

ControlStep ==
    \/ ControlClose \/ ControlPing \/ ControlUpdate \/ ControlUpdateFails
    \/ ControlLagged

MessageStep == MessageArrives \/ MessageError \/ MessageEnd
PingStep == PingExit \/ PingTimeout \/ PingRequest \/ PingRest
ThreadStep ==
    \/ \E w \in Workers : FirstRun(w) \/ Exit(w)
    \/ ControlStep \/ MessageStep \/ PingStep
StopStep == StopSend \/ StopWithoutWaiting \/ StopSubscribe \/ StopReceive

Next ==
    \/ ManagerStep
    \/ ThreadStep
    \/ SocketFails \/ TimePasses
    \/ UserUpdates
    \/ StopStep

Spec == Init /\ [][Next]_vars

(* Every task is scheduled, and time passes.  A message thread that can    *)
(* read or exit does; nothing forces a message, a failure or a call.       *)
Fairness ==
    /\ WF_vars(ManagerStep)
    /\ \A w \in Workers : WF_vars(FirstRun(w)) /\ WF_vars(Exit(w))
    /\ WF_vars(ControlStep)
    /\ WF_vars(MessageError \/ MessageEnd)
    /\ WF_vars(PingStep)
    /\ WF_vars(TimePasses)
    /\ WF_vars(StopSubscribe \/ StopReceive)

FairSpec == Spec /\ Fairness

-----------------------------------------------------------------------------
Status == {"Ready", "Connecting", "Connected", "Disconnected", "Offline"}

(* The variables keep their types; in particular no receiver holds more    *)
(* than its channel retains.                                               *)
TypeOK ==
    /\ manager \in {"ready", "connecting", "connected", "select",
                    "disconnected", "sleeping", "offline", "ended"}
    /\ thread \in [Workers -> {"none", "spawned", "running", "deaf", "done"}]
    /\ signal \in [Listeners -> Receivers({TRUE}, 1)]
    /\ missed \subseteq Listeners
    /\ control \in Receivers(ControlEvent, ControlCap)
    /\ close \in {"none", "open", "sent", "dropped"}
    /\ socket \in {"closed", "up"} \cup Faults \cup {"ended"}
    /\ silence \in 0..2
    /\ pinged \in BOOLEAN
    /\ stopper \in {"idle", "sent", "waiting", "returned", "dropped"}
    /\ statuses \in Receivers(Status, 1)

(* The comments on Status and on the arms of start(): the manager follows  *)
(* the life cycle, and a connection's threads are gone before it goes on.  *)
StatusOf ==
    CASE manager = "ready"                      -> "Ready"
      [] manager = "connecting"                 -> "Connecting"
      [] manager \in {"connected", "select"}    -> "Connected"
      [] manager \in {"disconnected", "sleeping"} -> "Disconnected"
      [] manager = "offline"                    -> "Offline"
      [] manager = "ended"                      -> "Ended"

Lifecycle == INSTANCE ConnectionLifecycle
                WITH status <- StatusOf, serving <- ~AllExited

FollowsLifecycle == Lifecycle!Spec

(* A failure never takes the client offline, only a caller of stop does,   *)
(* although both reach the manager through the close channel.              *)
OfflineOnlyOnRequest == manager \in {"offline", "ended"} => stopper # "idle"

(* The ping thread is the one that cannot miss the end of a connection: it *)
(* ends on the signal or times out.  Once it is gone the manager's select  *)
(* and the other threads have all been woken, whoever sent the signals and *)
(* in whatever order the tasks first run; left asleep are only those that  *)
(* had not subscribed when the last signal was sent (control.rs:55,        *)
(* message.rs:63, connection.rs:154).                                      *)
NobodyLeftAsleep ==
    thread["ping"] = "done" =>
        \A w \in Listeners \ {"ping"} :
            Listening(w) => CanReceive(signal[w]) \/ w \in missed

(* Going offline on a healthy connection: no timeout will end the threads, *)
(* so each one that is not gone has the signal waiting, although the close *)
(* may have raced the signals of failing threads on the same channel.  Only*)
(* one that had not run yet is missed, and the manager's join waits for it.*)
OfflineIsHeard ==
    manager = "offline" =>
        \A w \in Workers : Alive(w) =>
            (Listening(w) /\ CanReceive(signal[w])) \/ w \in missed

(* socket/mod.rs:33: the client keeps the websocket alive; a socket that   *)
(* broke, ended or went silent is given up and another one is attempted.   *)
Failed == socket \notin {"up", "closed"}
KeepsAlive == Failed ~> (manager \in {"connecting", "ended"})

(* As far as the code keeps that: it is so unless a thread subscribed after*)
(* the signal that it waits for, and ping, which would have sent another   *)
(* one, is gone.                                                           *)
Stranded == thread["ping"] = "done" /\ \E w \in missed : Listening(w)
KeepsAliveUnlessStranded == Failed ~> (manager \in {"connecting", "ended"} \/ Stranded)

(* socket/mod.rs:58-59: a call of stop(true) ends the connection.          *)
StopEnds == (stopper = "waiting") ~> (manager = "ended")
=============================================================================
