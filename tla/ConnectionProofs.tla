-------------------------- MODULE ConnectionProofs --------------------------
(* Theorems about Connection, for every capacity of the control channel,   *)
(* every set of faults and both ways of calling stop.                      *)
EXTENDS Connection, TLAPS

(***************************************************************************)
(* Receivers of a broadcast channel.                                       *)
(***************************************************************************)
(* A fresh receiver is a receiver of any channel.                          *)
LEMMA SubscribedType ==
    ASSUME NEW Msg, NEW cap \in Nat
    PROVE  Subscribed \in Receivers(Msg, cap)
  BY DEF Subscribed, Receivers

(* A delivery keeps the capacity: the oldest message makes room.           *)
LEMMA DeliverType ==
    ASSUME NEW Msg, NEW cap \in Nat \ {0},
           NEW rx \in Receivers(Msg, cap), NEW msg \in Msg
    PROVE  Deliver(rx, msg, cap) \in Receivers(Msg, cap)
  <1>1. CASE Len(rx.buf) < cap
    BY <1>1 DEF Deliver, Receivers
  <1>2. CASE ~(Len(rx.buf) < cap)
    BY <1>2 DEF Deliver, Receivers
  <1> QED BY <1>1, <1>2

(* A receive from a receiver that has something keeps its type.            *)
LEMMA ReceivedType ==
    ASSUME NEW Msg, NEW cap \in Nat, NEW rx \in Receivers(Msg, cap),
           CanReceive(rx)
    PROVE  Received(rx) \in Receivers(Msg, cap)
  <1>1. CASE rx.lagged
    BY <1>1 DEF Received, Receivers
  <1>2. CASE ~rx.lagged
    <2>1. rx.buf \in Seq(Msg) /\ rx.buf # <<>> /\ Len(rx.buf) <= cap
      BY <1>2 DEF CanReceive, Receivers
    <2>2. Tail(rx.buf) \in Seq(Msg) /\ Len(Tail(rx.buf)) <= cap
      BY <2>1
    <2> QED BY <1>2, <2>2 DEF Received, Receivers
  <1> QED BY <1>1, <1>2

(***************************************************************************)
(* The type invariant.                                                     *)
(***************************************************************************)
(* Sending on the disconnect channel keeps the type of its receivers.      *)
LEMMA SignalAllType ==
    ASSUME TypeOK, SignalAll
    PROVE  signal' \in [Listeners -> Receivers({TRUE}, 1)] /\ missed' \subseteq Listeners
  <1>1. ASSUME NEW w \in Listeners
        PROVE  Deliver(signal[w], TRUE, 1) \in Receivers({TRUE}, 1)
    <2>1. signal[w] \in Receivers({TRUE}, 1)
      BY DEF TypeOK
    <2>2. 1 \in Nat \ {0}
      OBVIOUS
    <2>3. TRUE \in {TRUE}
      OBVIOUS
    <2> QED BY <2>1, <2>2, <2>3, DeliverType, Zenon
  <1>2. \A w \in Listeners : signal[w] \in Receivers({TRUE}, 1)
    BY DEF TypeOK
  <1> QED BY <1>1, <1>2 DEF SignalAll

(* So does a status update, for the receiver of a caller of stop,          *)
LEMMA UpdateStatusType ==
    ASSUME TypeOK, NEW s \in Status, UpdateStatus(s)
    PROVE  statuses' \in Receivers(Status, 1)
  BY DeliverType DEF UpdateStatus, TypeOK

(* and a control event, for the control thread's receiver.                 *)
LEMMA SendControlType ==
    ASSUME TypeOK, NEW e \in ControlEvent, SendControl(e)
    PROVE  control' \in Receivers(ControlEvent, ControlCap)
  BY DeliverType, ConnectionAssumption DEF SendControl, TypeOK

(* A step of control takes one event from its receiver.                    *)
LEMMA ControlReceives ==
    ASSUME TypeOK, NEW e, ControlHas(e)
    PROVE  Received(control) \in Receivers(ControlEvent, ControlCap)
  <1>1. CanReceive(control)
    BY DEF ControlHas, HasMessage, CanReceive
  <1> QED BY <1>1, ReceivedType, ConnectionAssumption DEF TypeOK

(* A turn of ping's loop keeps the type of the disconnect receivers.       *)
LEMMA SignalsAfterTurnType ==
    ASSUME TypeOK
    PROVE  SignalsAfterTurn \in [Listeners -> Receivers({TRUE}, 1)]
  <1>1. signal["ping"] \in Receivers({TRUE}, 1)
    BY DEF TypeOK, Listeners, Workers
  <1>2. CanReceive(signal["ping"]) => Received(signal["ping"]) \in Receivers({TRUE}, 1)
    BY <1>1, ReceivedType
  <1> QED BY <1>1, <1>2 DEF SignalsAfterTurn, TypeOK

(* Every step keeps the type.                                              *)
LEMMA TypeStep ==
    ASSUME TypeOK, [Next]_vars
    PROVE  TypeOK'
  <1> USE ConnectionAssumption DEF TypeOK
  <1>1. CASE Ready
    BY <1>1, UpdateStatusType DEF Ready, socketVars, Status
  <1>2. CASE ConnectOk
    BY <1>2, UpdateStatusType, SubscribedType DEF ConnectOk, Workers, Status
  <1>3. CASE ConnectErr
    BY <1>3, UpdateStatusType DEF ConnectErr, socketVars, Status
  <1>4. CASE Select
    BY <1>4, SubscribedType DEF Select, socketVars, stopVars, Listeners
  <1>5. CASE SelectDisconnect
    BY <1>5, UpdateStatusType DEF SelectDisconnect, socketVars, Status
  <1>6. CASE SelectClose
    BY <1>6, UpdateStatusType, SignalAllType DEF SelectClose, socketVars, Status
  <1>7. CASE JoinDisconnected
    BY <1>7 DEF JoinDisconnected, stopVars
  <1>8. CASE Wake
    BY <1>8, UpdateStatusType DEF Wake, socketVars, Status
  <1>9. CASE JoinOffline
    BY <1>9 DEF JoinOffline, stopVars
  <1>10. ASSUME NEW w \in Workers, FirstRun(w) PROVE TypeOK'
    <2>1. thread' \in [Workers -> {"none", "spawned", "running", "deaf", "done"}]
      BY <1>10 DEF FirstRun
    <2>2. signal' \in [Listeners -> Receivers({TRUE}, 1)]
      <3>1. Subscribed \in Receivers({TRUE}, 1)
        BY SubscribedType
      <3>2. signal' = [signal EXCEPT ![w] = Subscribed]
        BY <1>10 DEF FirstRun
      <3> QED BY <3>1, <3>2
    <2>3. silence' \in 0..2 /\ pinged' \in BOOLEAN
      <3>1. CASE w = "ping"
        <4>1. silence' = 0
          BY <1>10, <3>1 DEF FirstRun
        <4>2. pinged' = FALSE
          BY <1>10, <3>1, Zenon DEF FirstRun
        <4>3. pinged' \in BOOLEAN
          BY <4>2, Zenon
        <4>4. silence' \in 0..2
          BY <4>1
        <4> QED BY <4>3, <4>4
      <3>2. CASE w # "ping"
        BY <1>10, <3>2 DEF FirstRun
      <3> QED BY <3>1, <3>2
    <2> QED BY <1>10, <2>1, <2>2, <2>3 DEF FirstRun, stopVars
  <1>11. ASSUME NEW w \in Workers, Exit(w) PROVE TypeOK'
    BY <1>11 DEF Exit, CloseAfterControl, socketVars, stopVars
  <1>12. CASE ControlClose
    BY <1>12, ControlReceives DEF ControlClose, ControlHas, socketVars, stopVars
  <1>13. CASE ControlPing
    BY <1>13, ControlReceives DEF ControlPing, ControlHas, socketVars, stopVars
  <1>14. CASE ControlUpdate
    BY <1>14, ControlReceives DEF ControlUpdate, ControlHas, socketVars, stopVars
  <1>15. CASE ControlUpdateFails
    BY <1>15, ControlReceives, SignalAllType DEF ControlUpdateFails, ControlHas, CloseAfterControl, socketVars, stopVars
  <1>16. CASE ControlLagged
    BY <1>16, SubscribedType DEF ControlLagged, socketVars, stopVars
  <1>17. CASE MessageArrives
    BY <1>17 DEF MessageArrives, stopVars
  <1>18. CASE MessageError
    BY <1>18, SignalAllType DEF MessageError, stopVars
  <1>19. CASE MessageEnd
    BY <1>19 DEF MessageEnd, socketVars, stopVars
  <1>20. CASE PingExit
    BY <1>20 DEF PingExit, socketVars, stopVars
  <1>21. CASE PingTimeout
    BY <1>21, SignalAllType DEF PingTimeout, PingTurn, socketVars, stopVars
  <1>22. CASE PingRequest
    BY <1>22, SendControlType, SignalsAfterTurnType DEF PingRequest, PingTurn, ControlEvent, socketVars, stopVars
  <1>23. CASE PingRest
    BY <1>23, SignalsAfterTurnType DEF PingRest, PingTurn, socketVars, stopVars
  <1>24. CASE SocketFails
    BY <1>24 DEF SocketFails, stopVars
  <1>25. CASE TimePasses
    BY <1>25 DEF TimePasses, stopVars
  <1>26. CASE UserUpdates
    BY <1>26, SendControlType DEF UserUpdates, ControlEvent, socketVars, stopVars
  <1>27. CASE StopWithoutWaiting
    BY <1>27 DEF StopWithoutWaiting, socketVars
  <1>28. CASE StopSend
    BY <1>28, SendControlType, SubscribedType DEF StopSend, ControlEvent, socketVars
  <1>29. CASE StopSubscribe
    BY <1>29, SubscribedType DEF StopSubscribe, socketVars
  <1>30. CASE StopReceive
    BY <1>30, ReceivedType DEF StopReceive, socketVars
  <1>31. CASE UNCHANGED vars
    BY <1>31 DEF vars
  <1> QED
    BY <1>1, <1>2, <1>3, <1>4, <1>5, <1>6, <1>7, <1>8, <1>9, <1>10, <1>11, <1>12, <1>13, <1>14, <1>15, <1>16, <1>17, <1>18, <1>19, <1>20, <1>21, <1>22, <1>23, <1>24, <1>25, <1>26, <1>27, <1>28, <1>29, <1>30, <1>31
    DEF Next, ManagerStep, ThreadStep, ControlStep, MessageStep, PingStep, StopStep

(* The initial state has the right types.                                  *)
LEMMA TypeInit == Init => TypeOK
  <1>1. Subscribed \in Receivers(ControlEvent, ControlCap)
    BY SubscribedType, ConnectionAssumption
  <1>2. Subscribed \in Receivers({TRUE}, 1) /\ Subscribed \in Receivers(Status, 1)
    BY SubscribedType
  <1>3. Init => signal \in [Listeners -> Receivers({TRUE}, 1)]
    BY <1>2 DEF Init
  <1>4. Init => pinged \in BOOLEAN
    BY Zenon DEF Init
  <1> QED BY <1>1, <1>2, <1>3, <1>4 DEF Init, TypeOK

(* The variables of the connection keep their types: in particular no      *)
(* receiver ever holds more than its channel retains.                      *)
THEOREM TypeCorrect == Spec => []TypeOK
  <1>1. Init => TypeOK
    BY TypeInit
  <1>2. TypeOK /\ [Next]_vars => TypeOK'
    BY TypeStep
  <1> QED BY <1>1, <1>2, PTL DEF Spec

(***************************************************************************)
(* The life cycle.  What a step must know of the past is that no thread is *)
(* alive where the manager has no connection.                              *)
(***************************************************************************)
JoinedBeforeNext ==
    manager \in {"ready", "connecting", "sleeping", "ended"} => AllExited

(* Threads are alive only from a successful connect() to the join.         *)
LEMMA JoinedBeforeNextStep ==
    ASSUME TypeOK, JoinedBeforeNext, [Next]_vars
    PROVE  JoinedBeforeNext'
  <1> USE DEF JoinedBeforeNext, AllExited, Alive
  <1>1. CASE UNCHANGED <<manager, thread>>
    BY <1>1
  <1>2. CASE ManagerStep
    BY <1>2 DEF ManagerStep, Ready, ConnectOk, ConnectErr, Select,
                SelectDisconnect, SelectClose, JoinDisconnected, Wake, JoinOffline
  <1>3. ASSUME NEW w \in Workers, manager' = manager, Alive(w),
               NEW where, thread' = [thread EXCEPT ![w] = where]
        PROVE  JoinedBeforeNext'
    BY <1>3
  <1>4. ASSUME NEW w \in Workers, FirstRun(w)
        PROVE  JoinedBeforeNext'
    BY <1>3, <1>4 DEF FirstRun
  <1>5. ASSUME NEW w \in Workers, Exit(w)
        PROVE  JoinedBeforeNext'
    BY <1>3, <1>5 DEF Exit
  <1>6. CASE ControlUpdateFails \/ ControlLagged
    BY <1>3, <1>6 DEF ControlUpdateFails, ControlLagged, ControlHas, Workers
  <1>7. CASE MessageEnd
    BY <1>3, <1>7 DEF MessageEnd, Workers
  <1>8. CASE PingExit \/ PingTimeout
    BY <1>3, <1>8 DEF PingExit, PingTimeout, PingTurn, Workers
  <1>9. CASE ControlClose \/ ControlPing \/ ControlUpdate
    BY <1>1, <1>9 DEF ControlClose, ControlPing, ControlUpdate
  <1>10. CASE MessageArrives \/ MessageError \/ PingRequest \/ PingRest
    BY <1>1, <1>10 DEF MessageArrives, MessageError, PingRequest, PingRest
  <1>11. CASE SocketFails \/ TimePasses \/ UserUpdates \/ StopStep
    BY <1>1, <1>11 DEF SocketFails, TimePasses, UserUpdates, StopStep, StopSend,
                       StopWithoutWaiting, StopSubscribe, StopReceive
  <1>12. CASE UNCHANGED vars
    BY <1>1, <1>12 DEF vars
  <1> QED
    BY <1>2, <1>4, <1>5, <1>6, <1>7, <1>8, <1>9, <1>10, <1>11, <1>12
    DEF Next, ThreadStep, ControlStep, MessageStep, PingStep

(* Every step is a step of the life cycle or leaves it alone.              *)
LEMMA LifecycleStep ==
    ASSUME TypeOK, JoinedBeforeNext, [Next]_vars
    PROVE  [Lifecycle!Next]_(Lifecycle!vars)
  <1> USE DEF AllExited, Alive
  <1>1. CASE UNCHANGED <<manager, thread>>
    BY <1>1 DEF StatusOf, Lifecycle!vars
  <1>2. CASE Ready
    BY <1>2 DEF Ready, StatusOf, Lifecycle!Next, Lifecycle!Attempt
  <1>3. CASE ConnectOk
    <2>1. AllExited /\ ~AllExited'
      BY <1>3 DEF ConnectOk, JoinedBeforeNext, Workers
    <2>2. StatusOf = "Connecting" /\ StatusOf' = "Connected"
      BY <1>3 DEF ConnectOk, StatusOf
    <2> QED BY <2>1, <2>2 DEF Lifecycle!Next, Lifecycle!Open
  <1>4. CASE ConnectErr
    BY <1>4 DEF ConnectErr, JoinedBeforeNext, StatusOf, Lifecycle!Next, Lifecycle!Refused
  <1>5. CASE Select
    BY <1>5 DEF Select, StatusOf, Lifecycle!vars
  <1>6. CASE SelectDisconnect \/ SelectClose
    BY <1>6 DEF SelectDisconnect, SelectClose, StatusOf,
                Lifecycle!Next, Lifecycle!Leave
  <1>7. CASE JoinDisconnected
    BY <1>7 DEF JoinDisconnected, StatusOf, Lifecycle!vars
  <1>8. CASE Wake
    BY <1>8 DEF Wake, JoinedBeforeNext, StatusOf, Lifecycle!Next, Lifecycle!Retry
  <1>9. CASE JoinOffline
    BY <1>9 DEF JoinOffline, StatusOf, Lifecycle!Next, Lifecycle!Exit
  <1>10. ASSUME NEW w \in Workers, manager' = manager, Alive(w)
         PROVE  [Lifecycle!Next]_(Lifecycle!vars)
    <2>1. ~AllExited /\ StatusOf' = StatusOf
      BY <1>10 DEF StatusOf
    <2>2. CASE AllExited'
      BY <2>1, <2>2 DEF Lifecycle!Next, Lifecycle!ThreadsExit
    <2>3. CASE ~AllExited'
      BY <2>1, <2>3 DEF Lifecycle!vars
    <2> QED BY <2>2, <2>3
  <1>11. ASSUME NEW w \in Workers, FirstRun(w) \/ Exit(w)
         PROVE  [Lifecycle!Next]_(Lifecycle!vars)
    BY <1>10, <1>11 DEF FirstRun, Exit
  <1>12. CASE ControlUpdateFails \/ ControlLagged
    BY <1>10, <1>12 DEF ControlUpdateFails, ControlLagged, ControlHas, Workers
  <1>13. CASE MessageEnd \/ PingExit \/ PingTimeout
    BY <1>10, <1>13 DEF MessageEnd, PingExit, PingTimeout, PingTurn, Workers
  <1>14. CASE ControlClose \/ ControlPing \/ ControlUpdate
    BY <1>1, <1>14 DEF ControlClose, ControlPing, ControlUpdate
  <1>15. CASE MessageArrives \/ MessageError \/ PingRequest \/ PingRest
    BY <1>1, <1>15 DEF MessageArrives, MessageError, PingRequest, PingRest
  <1>16. CASE SocketFails \/ TimePasses \/ UserUpdates \/ StopStep
    BY <1>1, <1>16 DEF SocketFails, TimePasses, UserUpdates, StopStep, StopSend,
                       StopWithoutWaiting, StopSubscribe, StopReceive
  <1>17. CASE UNCHANGED vars
    BY <1>1, <1>17 DEF vars
  <1> QED
    BY <1>2, <1>3, <1>4, <1>5, <1>6, <1>7, <1>8, <1>9, <1>11, <1>12, <1>13,
       <1>14, <1>15, <1>16, <1>17
    DEF Next, ManagerStep, ThreadStep, ControlStep, MessageStep, PingStep

(* The connection implements its life cycle: the manager goes through the  *)
(* statuses in the order the comments of connection.rs give, and neither   *)
(* connects again nor returns while a thread of the connection is alive.   *)
THEOREM ImplementsLifecycle == Spec => FollowsLifecycle
  <1>1. Init => JoinedBeforeNext
    BY DEF Init, JoinedBeforeNext, AllExited, Alive
  <1>2. Init => Lifecycle!Init
    BY DEF Init, AllExited, Alive, StatusOf, Lifecycle!Init
  <1>3. TypeOK /\ JoinedBeforeNext /\ [Next]_vars => JoinedBeforeNext'
    BY JoinedBeforeNextStep
  <1>4. TypeOK /\ JoinedBeforeNext /\ [Next]_vars => [Lifecycle!Next]_(Lifecycle!vars)
    BY LifecycleStep
  <1> QED
    BY <1>1, <1>2, <1>3, <1>4, TypeCorrect, PTL DEF Spec, FollowsLifecycle, Lifecycle!Spec

(***************************************************************************)
(* The end of a connection wakes everybody.  A signal that reaches the ping*)
(* thread reaches everybody who listens, and who is yet to subscribe then  *)
(* is on record as having missed it; nobody but the ping thread consumes a *)
(* signal without acting on it, and then only the report of a loss.        *)
(***************************************************************************)
Woken(w) == CanReceive(signal[w])

(* A receiver that lost something still holds the latest message.          *)
LossLeavesOne == \A w \in Listeners : signal[w].lagged => signal[w].buf # <<>>

(* Ping is gone, or has what ends it.                                      *)
PingEnds == thread["ping"] = "done" \/ (thread["ping"] = "running" /\ Woken("ping"))

WakeAll ==
    PingEnds => \A w \in Listeners \ {"ping"} :
        /\ Listening(w) => Woken(w) \/ w \in missed
        /\ YetToSubscribe(w) => w \in missed

WakeInv == TypeOK /\ LossLeavesOne /\ WakeAll

(* A delivery leaves something to receive.                                 *)
LEMMA DeliverWakes ==
    ASSUME NEW Msg, NEW rx \in Receivers(Msg, 1), NEW msg \in Msg
    PROVE  Deliver(rx, msg, 1).buf # <<>>
  <1>1. rx.buf \in Seq(Msg)
    BY DEF Receivers
  <1>2. CASE Len(rx.buf) < 1
    <2>1. Append(rx.buf, msg) \in Seq(Msg) /\ Len(Append(rx.buf, msg)) = Len(rx.buf) + 1
      BY <1>1
    <2>2. Append(rx.buf, msg) # <<>>
      BY <1>1, <2>1
    <2> QED BY <1>2, <2>2 DEF Deliver, Receivers
  <1>3. CASE ~(Len(rx.buf) < 1)
    <2>1. Tail(rx.buf) \in Seq(Msg)
      BY <1>1, <1>3
    <2>2. Len(Append(Tail(rx.buf), msg)) = Len(Tail(rx.buf)) + 1
      BY <2>1
    <2>3. Append(Tail(rx.buf), msg) # <<>>
      BY <2>1, <2>2
    <2> QED BY <1>3, <2>3 DEF Deliver, Receivers
  <1> QED BY <1>2, <1>3

(* disconnect_channel.send(true) wakes those who listen.                   *)
LEMMA SignalAllWakes ==
    ASSUME TypeOK, LossLeavesOne, SignalAll
    PROVE  /\ LossLeavesOne'
           /\ \A w \in Listeners : Listening(w) \/ Woken(w) => Woken(w)'
  <1> SUFFICES ASSUME NEW w \in Listeners
               PROVE  /\ signal'[w].lagged => signal'[w].buf # <<>>
                      /\ Listening(w) \/ CanReceive(signal[w]) => CanReceive(signal'[w])
    BY DEF LossLeavesOne, Woken
  <1>1. CASE Listening(w)
    <2>1. signal'[w] = Deliver(signal[w], TRUE, 1)
      BY <1>1 DEF SignalAll
    <2>2. signal[w] \in Receivers({TRUE}, 1) /\ TRUE \in {TRUE}
      BY DEF TypeOK
    <2>3. signal'[w].buf # <<>>
      BY <2>1, <2>2, DeliverWakes, Zenon
    <2> QED BY <2>3 DEF CanReceive
  <1>2. CASE ~Listening(w)
    BY <1>2 DEF SignalAll, LossLeavesOne
  <1> QED BY <1>1, <1>2

(* A turn of ping's loop loses no signal.                                  *)
LEMMA PingTurnKeepsWoken ==
    ASSUME TypeOK, LossLeavesOne, PingTurn, signal' = SignalsAfterTurn
    PROVE  LossLeavesOne' /\ \A w \in Listeners : Woken(w)' = Woken(w)
  <1> SUFFICES ASSUME NEW w \in Listeners
               PROVE  /\ signal'[w].lagged => signal'[w].buf # <<>>
                      /\ CanReceive(signal'[w]) = CanReceive(signal[w])
    BY DEF LossLeavesOne, Woken
  <1>1. CASE w = "ping" /\ CanReceive(signal[w])
    <2>1. signal[w].lagged /\ signal[w].buf # <<>>
      BY <1>1 DEF PingTurn, HasMessage, CanReceive, LossLeavesOne
    <2>2. signal'[w] = [signal[w] EXCEPT !.lagged = FALSE]
      BY <1>1, <2>1 DEF SignalsAfterTurn, Received, TypeOK
    <2>3. signal[w] \in [buf : Seq({TRUE}), lagged : BOOLEAN]
      BY DEF TypeOK, Receivers
    <2>4. signal'[w].buf = signal[w].buf
      BY <2>2, <2>3
    <2> QED BY <2>1, <2>4, <1>1 DEF CanReceive
  <1>2. CASE ~(w = "ping" /\ CanReceive(signal[w]))
    BY <1>2 DEF SignalsAfterTurn, TypeOK, LossLeavesOne
  <1> QED BY <1>1, <1>2

(* No step breaks what a loss leaves behind.                               *)
LEMMA LossLeavesOneStep ==
    ASSUME TypeOK, LossLeavesOne, [Next]_vars
    PROVE  LossLeavesOne'
  <1>1. CASE UNCHANGED signal
    BY <1>1 DEF LossLeavesOne
  <1>2. ASSUME NEW w \in Listeners, signal' = [signal EXCEPT ![w] = Subscribed]
        PROVE  LossLeavesOne'
    BY <1>2 DEF LossLeavesOne, Subscribed, TypeOK
  <1>3. CASE Select
    BY <1>2, <1>3 DEF Select, Listeners
  <1>4. ASSUME NEW w \in Workers, FirstRun(w)
        PROVE  LossLeavesOne'
    BY <1>2, <1>4 DEF FirstRun, Listeners
  <1>5. CASE SelectClose \/ ControlUpdateFails \/ MessageError \/ PingTimeout
    BY <1>5, SignalAllWakes DEF SelectClose, ControlUpdateFails, MessageError, PingTimeout
  <1>6. CASE PingRequest \/ PingRest
    BY <1>6, PingTurnKeepsWoken DEF PingRequest, PingRest
  <1>7. CASE Ready \/ ConnectOk \/ ConnectErr \/ SelectDisconnect \/ JoinDisconnected
             \/ Wake \/ JoinOffline
    BY <1>1, <1>7 DEF Ready, ConnectOk, ConnectErr, SelectDisconnect,
                      JoinDisconnected, Wake, JoinOffline
  <1>8. ASSUME NEW w \in Workers, Exit(w)
        PROVE  LossLeavesOne'
    BY <1>1, <1>8 DEF Exit
  <1>9. CASE ControlClose \/ ControlPing \/ ControlUpdate \/ ControlLagged
    BY <1>1, <1>9 DEF ControlClose, ControlPing, ControlUpdate, ControlLagged
  <1>10. CASE MessageArrives \/ MessageEnd \/ PingExit
    BY <1>1, <1>10 DEF MessageArrives, MessageEnd, PingExit
  <1>11. CASE SocketFails \/ TimePasses \/ UserUpdates \/ StopStep
    BY <1>1, <1>11 DEF SocketFails, TimePasses, UserUpdates, StopStep, StopSend,
                       StopWithoutWaiting, StopSubscribe, StopReceive
  <1>12. CASE UNCHANGED vars
    BY <1>1, <1>12 DEF vars
  <1> QED
    BY <1>3, <1>4, <1>5, <1>6, <1>7, <1>8, <1>9, <1>10, <1>11, <1>12
    DEF Next, ManagerStep, ThreadStep, ControlStep, MessageStep, PingStep

(* Ping has what ends it only if everybody who listens was woken as well.  *)
LEMMA WakeAllStep ==
    ASSUME TypeOK, LossLeavesOne, WakeAll, [Next]_vars
    PROVE  WakeAll'
  <1>1. ASSUME UNCHANGED <<thread, signal, missed>>,
               manager' \notin {"connected", "select"} \/ manager' = manager
        PROVE  WakeAll'
    BY <1>1 DEF WakeAll, PingEnds, Listening, YetToSubscribe, Woken
  <1>2. CASE Ready \/ ConnectErr \/ SelectDisconnect \/ JoinDisconnected
             \/ Wake \/ JoinOffline
    BY <1>1, <1>2 DEF Ready, ConnectErr, SelectDisconnect, JoinDisconnected, Wake, JoinOffline
  <1>3. CASE ConnectOk
    BY <1>3 DEF ConnectOk, WakeAll, PingEnds, Workers
  <1>4. CASE Select
    <2>1. /\ manager = "connected" /\ manager' = "select"
          /\ signal' = [signal EXCEPT !["manager"] = Subscribed]
          /\ UNCHANGED <<thread, missed>>
      BY <1>4 DEF Select
    <2>2. PingEnds' => PingEnds
      BY <2>1 DEF PingEnds, Woken, TypeOK, Workers, Listeners
    <2>3. ASSUME NEW w \in Listeners \ {"ping"}, w # "manager"
          PROVE  UNCHANGED <<Listening(w), YetToSubscribe(w), Woken(w)>>
      BY <2>1, <2>3 DEF Listening, YetToSubscribe, Woken, TypeOK
    <2>4. YetToSubscribe("manager") /\ ~YetToSubscribe("manager")' /\ "manager" \in Listeners \ {"ping"}
      BY <2>1 DEF YetToSubscribe, Listeners, Workers
    <2> QED BY <2>1, <2>2, <2>3, <2>4 DEF WakeAll
  <1>5. ASSUME NEW w \in Workers, FirstRun(w)
        PROVE  WakeAll'
    <2>1. /\ thread[w] = "spawned" /\ thread' = [thread EXCEPT ![w] = "running"]
          /\ signal' = [signal EXCEPT ![w] = Subscribed]
          /\ UNCHANGED <<manager, missed>>
      BY <1>5 DEF FirstRun
    <2>2. CASE w = "ping"
      <3>1. ~PingEnds'
        BY <2>1, <2>2 DEF PingEnds, Woken, CanReceive, Subscribed, TypeOK, Workers, Listeners
      <3> QED BY <3>1 DEF WakeAll
    <2>3. CASE w # "ping"
      <3>1. PingEnds' => PingEnds
        BY <2>1, <2>3 DEF PingEnds, Woken, TypeOK, Workers, Listeners
      <3>2. ASSUME NEW v \in Listeners \ {"ping"}, v # w
            PROVE  UNCHANGED <<Listening(v), YetToSubscribe(v), Woken(v)>>
        BY <2>1, <3>2 DEF Listening, YetToSubscribe, Woken, TypeOK, Listeners
      <3>3. YetToSubscribe(w) /\ ~YetToSubscribe(w)' /\ w \in Listeners \ {"ping"}
        BY <2>1, <2>3 DEF YetToSubscribe, Listeners, Workers, TypeOK
      <3> QED BY <2>1, <3>1, <3>2, <3>3 DEF WakeAll
    <2> QED BY <2>2, <2>3
  <1>6. ASSUME SignalAll,
               \A w \in Listeners \ {"ping"} : Listening(w)' => Listening(w),
               \A w \in Listeners \ {"ping"} : YetToSubscribe(w)' => YetToSubscribe(w)
        PROVE  WakeAll'
    <2>1. \A w \in Listeners : Listening(w) => Woken(w)'
      BY <1>6, SignalAllWakes
    <2>2. \A w \in Listeners : YetToSubscribe(w) => w \in missed'
      BY <1>6 DEF SignalAll
    <2> QED BY <1>6, <2>1, <2>2 DEF WakeAll
  <1>7. CASE SelectClose
    BY <1>6, <1>7 DEF SelectClose, Listening, YetToSubscribe
  <1>8. CASE ControlUpdateFails
    BY <1>6, <1>8 DEF ControlUpdateFails, Listening, YetToSubscribe, TypeOK, Workers, Listeners
  <1>9. CASE MessageError
    BY <1>6, <1>9 DEF MessageError, Listening, YetToSubscribe
  <1>10. CASE PingTimeout
    BY <1>6, <1>10 DEF PingTimeout, Listening, YetToSubscribe, TypeOK, Workers, Listeners
  <1>11. CASE PingRequest \/ PingRest
    <2>1. UNCHANGED <<manager, thread, missed>> /\ \A w \in Listeners : Woken(w)' = Woken(w)
      BY <1>11, PingTurnKeepsWoken DEF PingRequest, PingRest
    <2> QED BY <2>1 DEF WakeAll, PingEnds, Listening, YetToSubscribe, Listeners, Workers
  <1>12. CASE PingExit
    <2>1. PingEnds
      BY <1>12 DEF PingExit, HasMessage, PingEnds, Woken, CanReceive
    <2>2. UNCHANGED <<manager, signal, missed>> /\ thread' = [thread EXCEPT !["ping"] = "done"]
      BY <1>12 DEF PingExit
    <2> QED BY <2>1, <2>2 DEF WakeAll, Listening, YetToSubscribe, Woken, TypeOK, Listeners, Workers
  <1>13. ASSUME NEW v \in {"control", "message"}, NEW where,
                thread[v] \in {"running", "deaf"}, where # "spawned",
                UNCHANGED <<manager, signal, missed>>,
                thread' = [thread EXCEPT ![v] = where]
         PROVE  WakeAll'
    BY <1>13 DEF WakeAll, PingEnds, Listening, YetToSubscribe, Woken, TypeOK, Listeners, Workers
  <1>14. ASSUME NEW w \in Workers, Exit(w)
         PROVE  WakeAll'
    <2>1. w \in {"control", "message"} /\ thread[w] \in {"running", "deaf"}
          /\ UNCHANGED <<manager, signal, missed>> /\ thread' = [thread EXCEPT ![w] = "done"]
      BY <1>14 DEF Exit
    <2> QED BY <2>1 DEF WakeAll, PingEnds, Listening, YetToSubscribe, Woken, TypeOK, Listeners, Workers
  <1>15. CASE ControlLagged \/ MessageEnd
    BY <1>13, <1>15 DEF ControlLagged, MessageEnd
  <1>16. CASE ControlClose \/ ControlPing \/ ControlUpdate \/ MessageArrives
    <2>1. UNCHANGED <<thread, signal, missed>> /\ manager' = manager
      BY <1>16 DEF ControlClose, ControlPing, ControlUpdate, MessageArrives
    <2> QED BY <1>1, <2>1
  <1>17. CASE SocketFails \/ TimePasses \/ UserUpdates \/ StopStep
    BY <1>1, <1>17 DEF SocketFails, TimePasses, UserUpdates, StopStep, StopSend,
                       StopWithoutWaiting, StopSubscribe, StopReceive
  <1>18. CASE UNCHANGED vars
    BY <1>1, <1>18 DEF vars
  <1> QED
    BY <1>2, <1>3, <1>4, <1>5, <1>7, <1>8, <1>9, <1>10, <1>11, <1>12, <1>14,
       <1>15, <1>16, <1>17, <1>18
    DEF Next, ManagerStep, ThreadStep, ControlStep, MessageStep, PingStep

(* When the ping thread of a connection is gone, the manager and the other *)
(* threads have been woken, or are gone, or subscribed only after the last *)
(* signal; each of them subscribes to the disconnect channel on its own.   *)
THEOREM NobodyIsLeftAsleep == Spec => []NobodyLeftAsleep
  <1>1. Init => WakeInv
    <2>1. Init => LossLeavesOne /\ WakeAll
      BY DEF Init, LossLeavesOne, WakeAll, PingEnds, Workers, Subscribed
    <2> QED BY <2>1, TypeInit DEF WakeInv
  <1>2. WakeInv /\ [Next]_vars => WakeInv'
    BY TypeStep, LossLeavesOneStep, WakeAllStep DEF WakeInv
  <1>3. WakeInv => NobodyLeftAsleep
    BY DEF WakeInv, WakeAll, PingEnds, Woken, NobodyLeftAsleep
  <1> QED BY <1>1, <1>2, <1>3, PTL DEF Spec

(* Where the manager goes or stays offline, the signal waits for each      *)
(* thread that is alive, or the thread had yet to subscribe.               *)
LEMMA OfflineIsHeardStep ==
    ASSUME TypeOK, LossLeavesOne, OfflineIsHeard, [Next]_vars,
           manager' = "offline"
    PROVE  OfflineIsHeard'
  <1> DEFINE Heard(w) == Alive(w) => (Listening(w) /\ Woken(w)) \/ w \in missed
  <1> SUFFICES ASSUME NEW w \in Workers PROVE Heard(w)'
    BY DEF OfflineIsHeard, Woken
  <1>1. ASSUME manager = "offline" PROVE Heard(w)
    BY <1>1 DEF OfflineIsHeard, Woken
  <1>2. ASSUME SignalAll, Alive(w)' => thread'[w] = thread[w]
        PROVE  Heard(w)'
    <2>1. Listening(w) => Woken(w)'
      BY <1>2, SignalAllWakes DEF Listeners
    <2>2. YetToSubscribe(w) => w \in missed'
      BY <1>2 DEF SignalAll, Listeners
    <2> QED BY <1>2, <2>1, <2>2 DEF Alive, Listening, YetToSubscribe, Workers
  <1>3. ASSUME manager = "offline", UNCHANGED <<thread, missed>>, Woken(w) => Woken(w)'
        PROVE  Heard(w)'
    BY <1>1, <1>3 DEF Alive, Listening, Workers
  <1>4. ASSUME manager = "offline", UNCHANGED missed, Woken(w) => Woken(w)',
               NEW v \in Workers, NEW where \in {"running", "deaf", "done"},
               thread[v] \in {"running", "deaf"}, thread' = [thread EXCEPT ![v] = where]
        PROVE  Heard(w)'
    BY <1>1, <1>4 DEF Alive, Listening, Workers, TypeOK
  <1>5. CASE SelectClose \/ MessageError
    BY <1>2, <1>5 DEF SelectClose, MessageError
  <1>6. CASE ControlUpdateFails \/ PingTimeout
    BY <1>2, <1>6 DEF ControlUpdateFails, PingTimeout, Alive, TypeOK, Workers
  <1>7. CASE Ready \/ ConnectOk \/ ConnectErr \/ Select \/ SelectDisconnect
             \/ JoinDisconnected \/ Wake \/ JoinOffline
    BY <1>7 DEF Ready, ConnectOk, ConnectErr, Select, SelectDisconnect,
                JoinDisconnected, Wake, JoinOffline
  <1>8. ASSUME NEW v \in Workers, FirstRun(v)
        PROVE  Heard(w)'
    <2>1. /\ thread[v] = "spawned" /\ thread' = [thread EXCEPT ![v] = "running"]
          /\ signal' = [signal EXCEPT ![v] = Subscribed]
          /\ UNCHANGED <<manager, missed>>
      BY <1>8 DEF FirstRun
    <2>2. CASE v = w
      <3>1. Alive(w) /\ ~Listening(w)
        BY <2>1, <2>2 DEF Alive, Listening, Workers
      <3> QED BY <1>1, <2>1, <3>1
    <2>3. CASE v # w
      BY <1>1, <2>1, <2>3 DEF Alive, Listening, Woken, TypeOK, Workers
    <2> QED BY <2>2, <2>3
  <1>9. ASSUME NEW v \in Workers, Exit(v)
        PROVE  Heard(w)'
    BY <1>4, <1>9 DEF Exit, Woken
  <1>10. CASE ControlLagged
    BY <1>4, <1>10 DEF ControlLagged, Woken, Workers
  <1>11. CASE MessageEnd
    BY <1>4, <1>11 DEF MessageEnd, Woken, Workers
  <1>12. CASE PingExit
    BY <1>4, <1>12 DEF PingExit, Woken, Workers
  <1>13. CASE PingRequest \/ PingRest
    <2>1. UNCHANGED <<manager, thread, missed>> /\ Woken(w)' = Woken(w)
      BY <1>13, PingTurnKeepsWoken DEF PingRequest, PingRest, Listeners
    <2> QED BY <1>3, <2>1
  <1>14. CASE ControlClose \/ ControlPing \/ ControlUpdate \/ MessageArrives
    BY <1>3, <1>14 DEF ControlClose, ControlPing, ControlUpdate, MessageArrives, Woken
  <1>15. CASE SocketFails \/ TimePasses \/ UserUpdates \/ StopStep
    BY <1>3, <1>15 DEF SocketFails, TimePasses, UserUpdates, StopStep, StopSend,
                       StopWithoutWaiting, StopSubscribe, StopReceive, Woken
  <1>16. CASE UNCHANGED vars
    BY <1>3, <1>16 DEF vars, Woken
  <1> QED
    BY <1>5, <1>6, <1>7, <1>8, <1>9, <1>10, <1>11, <1>12, <1>13, <1>14,
       <1>15, <1>16
    DEF Next, ManagerStep, ThreadStep, ControlStep, MessageStep, PingStep

(* Going offline reaches every thread of a connection with which nothing is*)
(* wrong, whatever other signals and closes were sent before, but for one  *)
(* that has yet to subscribe.                                              *)
THEOREM OfflineIsAlwaysHeard == Spec => []OfflineIsHeard
  <1> DEFINE Inv == TypeOK /\ LossLeavesOne /\ OfflineIsHeard
  <1>1. Init => Inv
    BY TypeInit DEF Init, LossLeavesOne, OfflineIsHeard, Subscribed
  <1>2. Inv /\ [Next]_vars => Inv'
    <2> SUFFICES ASSUME Inv, [Next]_vars PROVE Inv'
      OBVIOUS
    <2>1. TypeOK' /\ LossLeavesOne'
      BY TypeStep, LossLeavesOneStep
    <2>2. OfflineIsHeard'
      BY OfflineIsHeardStep DEF OfflineIsHeard
    <2> QED BY <2>1, <2>2
  <1> QED BY <1>1, <1>2, PTL DEF Spec

(***************************************************************************)
(* Going offline.  Before the first call of stop no Close is under way,    *)
(* neither to the control thread nor from it to the manager.               *)
(***************************************************************************)
NoClose(rx) == \A i \in 1..Len(rx.buf) : rx.buf[i] # "Close"

NotRequested ==
    /\ manager \notin {"offline", "ended"}
    /\ close # "sent"
    /\ NoClose(control)

RequestInv == TypeOK /\ (stopper = "idle" => NotRequested)

(* A delivery of another event adds no Close.                              *)
LEMMA DeliverNoClose ==
    ASSUME NEW rx \in Receivers(ControlEvent, ControlCap), NoClose(rx),
           NEW e \in ControlEvent, e # "Close"
    PROVE  NoClose(Deliver(rx, e, ControlCap))
  <1>1. rx.buf \in Seq(ControlEvent)
    BY DEF Receivers
  <1>2. CASE Len(rx.buf) < ControlCap
    <2>1. Deliver(rx, e, ControlCap).buf = Append(rx.buf, e)
      BY <1>2 DEF Deliver, Receivers
    <2> QED BY <1>1, <2>1 DEF NoClose
  <1>3. CASE ~(Len(rx.buf) < ControlCap)
    <2>1. Deliver(rx, e, ControlCap).buf = Append(Tail(rx.buf), e)
      BY <1>3 DEF Deliver
    <2>2. rx.buf # <<>>
      BY <1>1, <1>3, ConnectionAssumption
    <2> QED BY <1>1, <2>1, <2>2 DEF NoClose
  <1> QED BY <1>2, <1>3

(* Nor does sending it to the control thread.                              *)
LEMMA SendControlNoClose ==
    ASSUME TypeOK, NoClose(control), NEW e \in ControlEvent, e # "Close", SendControl(e)
    PROVE  NoClose(control)'
  <1>1. control \in Receivers(ControlEvent, ControlCap)
    BY DEF TypeOK
  <1> QED BY <1>1, DeliverNoClose DEF SendControl

(* What is taken from a receiver without a Close is none.                  *)
LEMMA ReceivedNoClose ==
    ASSUME TypeOK, NoClose(control), NEW e, ControlHas(e), control' = Received(control)
    PROVE  NoClose(control)' /\ e # "Close"
  <1>1. control.buf \in Seq(ControlEvent) /\ control.buf # <<>> /\ ~control.lagged
    BY DEF TypeOK, Receivers, ControlHas, HasMessage
  <1>2. control'.buf = Tail(control.buf)
    BY <1>1 DEF Received, TypeOK, Receivers
  <1>3. e = control.buf[1]
    BY <1>1 DEF ControlHas
  <1> QED BY <1>1, <1>2, <1>3 DEF NoClose

(* Before the first call of stop no step puts a Close under way.           *)
LEMMA RequestStep ==
    ASSUME TypeOK, stopper = "idle", NotRequested, stopper' = "idle", [Next]_vars
    PROVE  NotRequested'
  <1> USE DEF NotRequested
  <1>1. CASE ManagerStep
    BY <1>1 DEF ManagerStep, Ready, ConnectOk, ConnectErr, Select, SelectDisconnect,
                SelectClose, JoinDisconnected, Wake, JoinOffline, NoClose, Subscribed
  <1>2. ASSUME NEW w \in Workers, FirstRun(w) \/ Exit(w)
        PROVE  NotRequested'
    BY <1>2 DEF FirstRun, Exit, CloseAfterControl, NoClose
  <1>3. CASE ControlClose \/ ControlPing \/ ControlUpdate \/ ControlUpdateFails
    BY <1>3, ReceivedNoClose DEF ControlClose, ControlPing, ControlUpdate,
                                 ControlUpdateFails, CloseAfterControl
  <1>4. CASE ControlLagged
    BY <1>4 DEF ControlLagged, NoClose, Subscribed
  <1>5. CASE PingRequest \/ UserUpdates
    BY <1>5, SendControlNoClose DEF PingRequest, UserUpdates, ControlEvent
  <1>6. CASE MessageStep \/ PingExit \/ PingTimeout \/ PingRest
    BY <1>6 DEF MessageStep, MessageArrives, MessageError, MessageEnd, PingExit,
                PingTimeout, PingRest, NoClose
  <1>7. CASE SocketFails \/ TimePasses \/ UNCHANGED vars
    BY <1>7 DEF SocketFails, TimePasses, vars, NoClose
  <1>8. CASE StopStep
    BY <1>8 DEF StopStep, StopSend, StopWithoutWaiting, StopSubscribe, StopReceive
  <1> QED
    BY <1>1, <1>2, <1>3, <1>4, <1>5, <1>6, <1>7, <1>8
    DEF Next, ThreadStep, ControlStep, PingStep

(* Nothing that happens to a connection takes the client offline for good: *)
(* the end of the control thread drops the close channel and is not taken  *)
(* for a Close.                                                            *)
THEOREM OnlyStopGoesOffline == Spec => []OfflineOnlyOnRequest
  <1>1. Init => RequestInv
    BY TypeInit DEF Init, RequestInv, NotRequested, NoClose, Subscribed
  <1>2. RequestInv /\ [Next]_vars => RequestInv'
    <2> SUFFICES ASSUME RequestInv, [Next]_vars PROVE RequestInv'
      OBVIOUS
    <2>1. TypeOK'
      BY TypeStep DEF RequestInv
    <2>2. stopper' = "idle" => stopper = "idle"
      BY DEF RequestInv, Next, ManagerStep, ThreadStep, ControlStep, MessageStep, PingStep,
         StopStep, Ready, ConnectOk, ConnectErr, Select, SelectDisconnect, SelectClose,
         JoinDisconnected, Wake, JoinOffline, FirstRun, Exit, ControlClose, ControlPing,
         ControlUpdate, ControlUpdateFails, ControlLagged, MessageArrives, MessageError,
         MessageEnd, PingExit, PingTimeout, PingRequest, PingRest, SocketFails, TimePasses,
         UserUpdates, StopSend, StopWithoutWaiting, StopSubscribe, StopReceive, stopVars, vars
    <2>3. stopper' = "idle" => NotRequested'
      BY <2>2, RequestStep DEF RequestInv
    <2> QED BY <2>1, <2>3 DEF RequestInv
  <1>3. RequestInv => OfflineOnlyOnRequest
    BY DEF RequestInv, NotRequested, OfflineOnlyOnRequest
  <1> QED BY <1>1, <1>2, <1>3, PTL DEF Spec

=============================================================================
