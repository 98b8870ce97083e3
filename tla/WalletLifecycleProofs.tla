------------------------ MODULE WalletLifecycleProofs ------------------------
(***************************************************************************)
(* Theorems about WalletLifecycle, for every set of sessions and every     *)
(* bound, and tasks that first run in any order: the variables keep their  *)
(* types, and as long as no other manager of the wallet has gone offline,  *)
(* a connected websocket has an event loop that was told of it and goes on,*)
(* or one that is still to be told of the next connection.                 *)
(***************************************************************************)
EXTENDS WalletLifecycle, TLAPS

-----------------------------------------------------------------------------
(* The types.                                                              *)

(* A receiver of statuses keeps its type when it subscribes, when a status *)
(* is delivered to it, and when it receives.                               *)
LEMMA ReceiverType ==
  /\ Subscribed \in Receivers(Statuses, StatusCap)
  /\ \A rx \in Receivers(Statuses, StatusCap), s \in Statuses :
        Deliver(rx, s, StatusCap) \in Receivers(Statuses, StatusCap)
  /\ \A rx \in Receivers(Statuses, StatusCap) :
        CanReceive(rx) => Received(rx) \in Receivers(Statuses, StatusCap)
  <1>1. Subscribed \in Receivers(Statuses, StatusCap)
    BY LifecycleAssumption DEF Subscribed, Receivers
  <1>2. ASSUME NEW rx \in Receivers(Statuses, StatusCap), NEW s \in Statuses
        PROVE  Deliver(rx, s, StatusCap) \in Receivers(Statuses, StatusCap)
    <2>1. CASE Len(rx.buf) < StatusCap
      BY <2>1, LifecycleAssumption DEF Deliver, Receivers
    <2>2. CASE ~(Len(rx.buf) < StatusCap)
      BY <2>2, LifecycleAssumption DEF Deliver, Receivers
    <2> QED BY <2>1, <2>2
  <1>3. ASSUME NEW rx \in Receivers(Statuses, StatusCap), CanReceive(rx)
        PROVE  Received(rx) \in Receivers(Statuses, StatusCap)
    <2>1. CASE rx.lagged
      BY <2>1 DEF Received, Receivers
    <2>2. CASE ~rx.lagged
      <3>1. rx.buf \in Seq(Statuses) /\ rx.buf # <<>> /\ Len(rx.buf) <= StatusCap
        BY <1>3, <2>2 DEF CanReceive, Receivers
      <3>2. Tail(rx.buf) \in Seq(Statuses) /\ Len(Tail(rx.buf)) <= StatusCap
        BY <3>1, LifecycleAssumption
      <3> QED BY <2>2, <3>2 DEF Received, Receivers
    <2> QED BY <2>1, <2>2
  <1> QED BY <1>1, <1>2, <1>3

LEMMA UpdateStatusType ==
  ASSUME TypeOK, NEW s \in Statuses, UpdateStatus(s)
  PROVE  statuses' \in [Waiters -> Receivers(Statuses, StatusCap)]
  <1>1. \A p \in Waiters : /\ statuses[p] \in Receivers(Statuses, StatusCap)
                           /\ Deliver(statuses[p], s, StatusCap) \in Receivers(Statuses, StatusCap)
    BY ReceiverType DEF TypeOK
  <1> QED BY <1>1 DEF UpdateStatus

LEMMA NotifyType ==
  ASSUME TypeOK, NEW e \in Events, Notify(e)
  PROVE  inbox' \in [Sessions -> Seq(Events)]
  <1>1. \A k \in Sessions : inbox[k] \in Seq(Events) /\ Append(inbox[k], e) \in Seq(Events)
    BY DEF TypeOK
  <1> QED BY <1>1 DEF Notify

LEMMA StepType == TypeOK /\ [Next]_vars => TypeOK'
  <1> SUFFICES ASSUME TypeOK, [Next]_vars PROVE TypeOK'
    OBVIOUS
  <1>1. /\ "Connected" \in Statuses /\ "Offline" \in Statuses /\ "Other" \in Statuses
        /\ "Connected" \in Events /\ "Offline" \in Events
        /\ Stopper \in Waiters /\ Sessions \subseteq Waiters
        /\ MaxAttempts \in Nat /\ MaxStops \in Nat
    BY LifecycleAssumption DEF Statuses, Events, Waiters
  <1>2. CASE Stop
    <2>1. statuses' \in [Waiters -> Receivers(Statuses, StatusCap)]
      BY <1>2, ReceiverType DEF Stop, TypeOK
    <2> QED BY <1>1, <1>2, <2>1 DEF Stop, TypeOK
  <1>3. CASE StopReceive
    <2>1. Received(statuses[Stopper]) \in Receivers(Statuses, StatusCap)
      BY <1>1, <1>3, ReceiverType DEF StopReceive, TypeOK
    <2>2. statuses' \in [Waiters -> Receivers(Statuses, StatusCap)]
      BY <1>3, <2>1, ReceiverType DEF StopReceive, TypeOK
    <2> QED BY <1>3, <2>2 DEF StopReceive, managerVars, TypeOK
  <1>4. ASSUME NEW i \in Sessions, Connect(i) PROVE TypeOK'
    BY <1>4 DEF Connect, stopVars, TypeOK
  <1>5. ASSUME NEW i \in Sessions, StartSubscribe(i) PROVE TypeOK'
    <2>1. statuses' \in [Waiters -> Receivers(Statuses, StatusCap)]
      BY <1>5, ReceiverType DEF StartSubscribe, TypeOK
    <2>2. late' \subseteq Sessions
      BY <1>5 DEF StartSubscribe, TypeOK
    <2> QED BY <1>5, <2>1, <2>2 DEF StartSubscribe, managerVars, stopVars, TypeOK
  <1>6. ASSUME NEW i \in Sessions, StartReceive(i) PROVE TypeOK'
    <2>1. Received(statuses[i]) \in Receivers(Statuses, StatusCap)
      BY <1>1, <1>6, ReceiverType DEF StartReceive, TypeOK
    <2>2. statuses' \in [Waiters -> Receivers(Statuses, StatusCap)]
      BY <1>6, <2>1, ReceiverType DEF StartReceive, TypeOK
    <2>3. late' \subseteq Sessions
      BY <1>6 DEF StartReceive, TypeOK
    <2> QED BY <1>6, <2>2, <2>3 DEF StartReceive, managerVars, stopVars, TypeOK
  <1>7. ASSUME NEW i \in Sessions, LoopFirstRun(i) PROVE TypeOK'
    BY <1>7 DEF LoopFirstRun, managerVars, stopVars, TypeOK
  <1>8. ASSUME NEW i \in Sessions, LoopReceive(i) PROVE TypeOK'
    <2>1. /\ inbox[i] # <<>> /\ inbox[i] \in Seq(Events)
          /\ loop' = IF Head(inbox[i]) = "Offline" THEN [loop EXCEPT ![i] = "ended"] ELSE loop
          /\ inbox' = [inbox EXCEPT ![i] = IF loop'[i] = "ended" THEN <<>> ELSE Tail(@)]
          /\ UNCHANGED <<caller, managerVars, stopVars, statuses, late>>
      BY <1>8 DEF LoopReceive, TypeOK
    <2>2. <<>> \in Seq(Events) /\ Tail(inbox[i]) \in Seq(Events)
      BY <2>1
    <2>3. inbox' \in [Sessions -> Seq(Events)]
      BY <2>1, <2>2 DEF TypeOK
    <2>4. loop' \in [Sessions -> {"none", "spawned", "listening", "ended"}]
      BY <2>1 DEF TypeOK
    <2> QED BY <2>1, <2>3, <2>4 DEF managerVars, stopVars, TypeOK
  <1>9. ASSUME NEW i \in Sessions, Ready(i) PROVE TypeOK'
    <2>1. statuses' \in [Waiters -> Receivers(Statuses, StatusCap)]
      BY <1>1, <1>9, UpdateStatusType DEF Ready
    <2>2. attempts' \in 0..MaxAttempts
      BY <1>1, <1>9 DEF Ready, TypeOK
    <2> QED BY <1>9, <2>1, <2>2 DEF Ready, ManagerStep, stopVars, TypeOK
  <1>10. ASSUME NEW i \in Sessions, ConnectOk(i) PROVE TypeOK'
    <2>1. statuses' \in [Waiters -> Receivers(Statuses, StatusCap)]
      BY <1>1, <1>10, UpdateStatusType DEF ConnectOk
    <2>2. inbox' \in [Sessions -> Seq(Events)]
      BY <1>1, <1>10, NotifyType DEF ConnectOk
    <2>3. told' \in [Sessions -> SUBSET Sessions]
      BY <1>10 DEF ConnectOk, Listeners, TypeOK
    <2> QED BY <1>10, <2>1, <2>2, <2>3 DEF ConnectOk, ManagerStep, stopVars, TypeOK
  <1>11. ASSUME NEW i \in Sessions, ConnectErr(i) \/ Wake(i) PROVE TypeOK'
    <2>1. statuses' \in [Waiters -> Receivers(Statuses, StatusCap)]
      BY <1>1, <1>11, UpdateStatusType DEF ConnectErr, Wake
    <2> QED BY <1>11, <2>1 DEF ConnectErr, Wake, ManagerStep, stopVars, TypeOK
  <1>12. ASSUME NEW i \in Sessions, Breaks(i) \/ Closes(i) PROVE TypeOK'
    <2>1. statuses' \in [Waiters -> Receivers(Statuses, StatusCap)]
      BY <1>1, <1>12, UpdateStatusType DEF Breaks, Closes
    <2>2. told' \in [Sessions -> SUBSET Sessions]
      BY <1>12 DEF Breaks, Closes, TypeOK
    <2>3. \E to \in {"disconnected", "offline"} :
             /\ manager' = [manager EXCEPT ![i] = to]
             /\ control' = [control EXCEPT ![i] = "none"]
             /\ UNCHANGED <<caller, loop, inbox, attempts, stopVars, late>>
      BY <1>12 DEF Breaks, Closes, ManagerStep
    <2> QED BY <2>1, <2>2, <2>3 DEF stopVars, TypeOK
  <1>13. ASSUME NEW i \in Sessions, End(i) PROVE TypeOK'
    <2>1. inbox' \in [Sessions -> Seq(Events)]
      BY <1>1, <1>13, NotifyType DEF End
    <2> QED BY <1>13, <2>1 DEF End, ManagerStep, stopVars, TypeOK
  <1>14. CASE UNCHANGED vars
    BY <1>14 DEF vars, TypeOK
  <1> QED
    BY <1>2, <1>3, <1>4, <1>5, <1>6, <1>7, <1>8, <1>9, <1>10, <1>11, <1>12, <1>13, <1>14
       DEF Next, CallerStep, LoopStep, ManagerGoesOn

(* The variables keep their types: whatever managers and callers share the *)
(* one status channel, no receiver of it holds more than it can.           *)
THEOREM TypeCorrect == Spec => []TypeOK
  <1>1. Init => TypeOK
    <2> SUFFICES ASSUME Init PROVE TypeOK
      OBVIOUS
    <2>1. <<>> \in Seq(Events) /\ 0 \in 0..MaxAttempts /\ 0 \in 0..MaxStops
      BY LifecycleAssumption
    <2> QED BY <2>1, ReceiverType DEF Init, TypeOK
  <1> QED BY <1>1, StepType, PTL DEF Spec

-----------------------------------------------------------------------------
(* A connected websocket is heard.                                         *)

Gone(i) == manager[i] \in {"offline", "ended"}

Kinds == \A i \in Sessions : loop[i] \in {"none", "spawned", "listening", "ended"}

(* Types, of the variables the argument is about.                          *)
Shapes ==
    /\ DOMAIN caller = Sessions /\ DOMAIN loop = Sessions
    /\ DOMAIN manager = Sessions /\ DOMAIN told = Sessions
    /\ inbox \in [Sessions -> Seq(Events)]
    /\ Kinds

(* Only a manager that has ended sends Offline.                            *)
NoOffline(k) == \A n \in 1..Len(inbox[k]) : inbox[k][n] # "Offline"
OfflineIsFromEnded ==
    \A k \in Sessions :
        loop[k] = "ended" \/ ~NoOffline(k) => \E j \in Sessions : manager[j] = "ended"

(* A loop that was told of a connection had subscribed.                    *)
ToldHadSubscribed ==
    \A i \in Sessions : i \in told[i] => loop[i] \in {"listening", "ended"}

(* A session has no tasks before its call of connect.                      *)
Unbegun ==
    \A i \in Sessions : caller[i] = "idle" => manager[i] = "none" /\ loop[i] = "none"

(* A loop that was never spawned has no manager either.                    *)
Both == \A i \in Sessions : loop[i] = "none" => manager[i] = "none"

IndInv == Shapes /\ Unbegun /\ Both /\ OfflineIsFromEnded /\ ToldHadSubscribed

LEMMA InvImplies == IndInv => HeardUnlessOtherStopped
  <1> SUFFICES ASSUME IndInv, NEW i \in Sessions, manager[i] = "connected",
                      \A j \in Sessions \ {i} : ~Gone(j)
               PROVE  LoopLate(i) \/ (GoesOn(i) /\ i \in told[i])
    BY DEF HeardUnlessOtherStopped, Heard, Gone
  <1>1. \A j \in Sessions : manager[j] # "ended"
    BY DEF Gone
  <1>2. loop[i] # "ended" /\ NoOffline(i)
    BY <1>1 DEF IndInv, OfflineIsFromEnded
  <1>3. loop[i] \in {"spawned", "listening"}
    BY <1>2 DEF IndInv, Both, Shapes, Kinds
  <1>4. CASE i \in told[i]
    <2>1. loop[i] = "listening"
      BY <1>3, <1>4 DEF IndInv, ToldHadSubscribed
    <2> QED
      BY <1>2, <1>4, <2>1 DEF GoesOn, NoOffline
  <1>5. CASE i \notin told[i]
    BY <1>3, <1>5 DEF LoopLate
  <1> QED
    BY <1>4, <1>5

LEMMA InitInd == Init => IndInv
  BY DEF Init, IndInv, Shapes, Kinds, Unbegun, Both, OfflineIsFromEnded, NoOffline, ToldHadSubscribed

(* What Notify appends.                                                    *)
LEMMA NotifyEffect ==
  ASSUME Shapes, NEW e \in Events, Notify(e)
  PROVE  /\ inbox' \in [Sessions -> Seq(Events)]
         /\ e # "Offline" => \A k \in Sessions : NoOffline(k) => NoOffline(k)'
  <1>1. \A k \in Sessions : Append(inbox[k], e) \in Seq(Events)
    BY DEF Shapes
  <1>2. inbox' \in [Sessions -> Seq(Events)]
    BY <1>1 DEF Shapes, Notify
  <1>3. ASSUME e # "Offline", NEW k \in Sessions, NoOffline(k)
        PROVE  NoOffline(k)'
    <2>1. inbox[k] \in Seq(Events)
      BY DEF Shapes
    <2>2. inbox'[k] = inbox[k] \/ inbox'[k] = Append(inbox[k], e)
      BY DEF Notify
    <2>3. CASE inbox'[k] = inbox[k]
      BY <1>3, <2>3 DEF NoOffline
    <2>4. CASE inbox'[k] = Append(inbox[k], e)
      <3>1. ASSUME NEW n \in 1..Len(inbox'[k]) PROVE inbox'[k][n] # "Offline"
        BY <1>3, <2>1, <2>4, <3>1 DEF NoOffline
      <3> QED
        BY <3>1 DEF NoOffline
    <2> QED
      BY <2>2, <2>3, <2>4
  <1> QED
    BY <1>2, <1>3

LEMMA StepInd ==
  ASSUME IndInv, [Next]_vars
  PROVE  IndInv'
  <1> USE DEF IndInv
  <1>1. ASSUME UNCHANGED <<loop, inbox, manager, told>>, DOMAIN caller' = Sessions,
               \A i \in Sessions : caller'[i] = "idle" => caller[i] = "idle"
        PROVE  IndInv'
    BY <1>1 DEF Shapes, Kinds, Unbegun, Both, OfflineIsFromEnded, NoOffline, ToldHadSubscribed
  <1>2. ASSUME NEW i \in Sessions, Connect(i) PROVE IndInv'
    <2>1. /\ caller[i] = "idle" /\ UNCHANGED <<inbox, told>>
          /\ caller' = [caller EXCEPT ![i] = "subscribing"]
          /\ loop' = [loop EXCEPT ![i] = "spawned"]
          /\ manager' = [manager EXCEPT ![i] = "ready"]
      BY <1>2 DEF Connect
    <2> QED
      BY <2>1 DEF Shapes, Kinds, Unbegun, Both, OfflineIsFromEnded, NoOffline, ToldHadSubscribed
  <1>3. ASSUME NEW i \in Sessions, CallerStep(i) PROVE IndInv'
    BY <1>1, <1>3 DEF CallerStep, StartSubscribe, StartReceive, managerVars, Shapes
  <1>4. CASE Stop \/ StopReceive
    BY <1>1, <1>4 DEF Stop, StopReceive, managerVars, Shapes
  <1>5. ASSUME NEW i \in Sessions, LoopFirstRun(i) PROVE IndInv'
    <2>1. /\ loop[i] = "spawned" /\ loop' = [loop EXCEPT ![i] = "listening"]
          /\ UNCHANGED <<caller, inbox, manager, told>>
      BY <1>5 DEF LoopFirstRun, managerVars
    <2> QED
      BY <2>1 DEF Shapes, Kinds, Unbegun, Both, OfflineIsFromEnded, NoOffline, ToldHadSubscribed
  <1>6. ASSUME NEW i \in Sessions, LoopReceive(i) PROVE IndInv'
    <2>1. /\ loop[i] = "listening" /\ inbox[i] # <<>> /\ UNCHANGED <<caller, manager, told>>
          /\ loop' = IF Head(inbox[i]) = "Offline" THEN [loop EXCEPT ![i] = "ended"] ELSE loop
          /\ inbox' = [inbox EXCEPT ![i] = IF loop'[i] = "ended" THEN <<>> ELSE Tail(@)]
      BY <1>6 DEF LoopReceive, managerVars
    <2>2. inbox[i] \in Seq(Events)
      BY DEF Shapes
    <2>3. Shapes'
      <3>1. <<>> \in Seq(Events) /\ Tail(inbox[i]) \in Seq(Events)
        BY <2>1, <2>2
      <3> QED
        BY <2>1, <3>1 DEF Shapes, Kinds
    <2>4. Unbegun' /\ Both' /\ ToldHadSubscribed'
      BY <2>1 DEF Shapes, Unbegun, Both, ToldHadSubscribed
    <2>5. NoOffline(i) => loop' = loop /\ NoOffline(i)'
      <3> SUFFICES ASSUME NoOffline(i) PROVE loop' = loop /\ NoOffline(i)'
        OBVIOUS
      <3>1. 1 \in 1..Len(inbox[i]) /\ Head(inbox[i]) = inbox[i][1]
        BY <2>1, <2>2
      <3>2. loop' = loop
        BY <2>1, <3>1 DEF NoOffline
      <3>3. inbox'[i] = Tail(inbox[i])
        BY <2>1, <3>2 DEF Shapes
      <3>4. ASSUME NEW n \in 1..Len(Tail(inbox[i])) PROVE Tail(inbox[i])[n] # "Offline"
        <4>1. n + 1 \in 1..Len(inbox[i]) /\ Tail(inbox[i])[n] = inbox[i][n + 1]
          BY <2>1, <2>2
        <4> QED
          BY <4>1 DEF NoOffline
      <3> QED
        BY <3>2, <3>3, <3>4 DEF NoOffline
    <2>6. \A k \in Sessions \ {i} : loop'[k] = loop[k] /\ NoOffline(k)' = NoOffline(k)
      BY <2>1 DEF Shapes, NoOffline
    <2>7. OfflineIsFromEnded'
      BY <2>1, <2>5, <2>6 DEF OfflineIsFromEnded
    <2> QED
      BY <2>3, <2>4, <2>7
  <1>7. ASSUME NEW i \in Sessions, NEW to,
               manager' = [manager EXCEPT ![i] = to], UNCHANGED <<caller, loop, inbox>>,
               manager[i] \notin {"none", "ended"}, to # "none",
               DOMAIN told' = Sessions, \A j \in Sessions : told'[j] \subseteq told[j]
        PROVE  IndInv'
    <2>1. manager'[i] = to /\ \A j \in Sessions \ {i} : manager'[j] = manager[j]
      BY <1>7 DEF Shapes
    <2>2. Shapes'
      BY <1>7 DEF Shapes, Kinds
    <2>3. Unbegun'
      BY <1>7, <2>1 DEF Unbegun
    <2>4. Both'
      BY <1>7, <2>1 DEF Both
    <2>5. OfflineIsFromEnded'
      BY <1>7, <2>1 DEF OfflineIsFromEnded, NoOffline
    <2>6. ToldHadSubscribed'
      BY <1>7 DEF ToldHadSubscribed
    <2> QED
      BY <2>2, <2>3, <2>4, <2>5, <2>6
  <1>8. ASSUME NEW i \in Sessions, Ready(i) PROVE IndInv'
    <2>1. /\ manager[i] = "ready" /\ manager' = [manager EXCEPT ![i] = "connecting"]
          /\ UNCHANGED <<caller, loop, inbox, told>>
      BY <1>8 DEF Ready, ManagerStep
    <2> QED
      BY <1>7, <2>1 DEF Shapes
  <1>9. ASSUME NEW i \in Sessions, ConnectOk(i) PROVE IndInv'
    <2>1. /\ manager[i] = "connecting" /\ manager' = [manager EXCEPT ![i] = "connected"]
          /\ UNCHANGED <<caller, loop>> /\ Notify("Connected")
          /\ told' = [told EXCEPT ![i] = Listeners]
      BY <1>9 DEF ConnectOk, ManagerStep
    <2>2. "Connected" \in Events /\ "Connected" # "Offline"
      BY DEF Events
    <2>3. /\ inbox' \in [Sessions -> Seq(Events)]
          /\ \A k \in Sessions : NoOffline(k) => NoOffline(k)'
      BY <2>1, <2>2, NotifyEffect
    <2>4. Shapes' /\ Unbegun' /\ Both'
      BY <2>1, <2>3 DEF Shapes, Kinds, Unbegun, Both
    <2>5. OfflineIsFromEnded'
      BY <2>1, <2>3 DEF Shapes, OfflineIsFromEnded
    <2>6. ToldHadSubscribed'
      BY <2>1 DEF Shapes, ToldHadSubscribed, Listeners
    <2> QED
      BY <2>4, <2>5, <2>6
  <1>10. ASSUME NEW i \in Sessions, ConnectErr(i) \/ Breaks(i) \/ Closes(i) \/ Wake(i)
         PROVE  IndInv'
    <2>1. PICK to \in {"disconnected", "offline", "ready"} :
             /\ manager[i] \in {"connecting", "connected", "disconnected"}
             /\ manager' = [manager EXCEPT ![i] = to] /\ UNCHANGED <<caller, loop, inbox>>
      BY <1>10 DEF ConnectErr, Breaks, Closes, Wake, ManagerStep
    <2>2. told' = told \/ told' = [told EXCEPT ![i] = {}]
      BY <1>10 DEF ConnectErr, Breaks, Closes, Wake
    <2> QED
      BY <1>7, <2>1, <2>2 DEF Shapes
  <1>11. ASSUME NEW i \in Sessions, End(i) PROVE IndInv'
    <2>1. /\ manager[i] = "offline" /\ manager' = [manager EXCEPT ![i] = "ended"]
          /\ UNCHANGED <<caller, loop, told>> /\ Notify("Offline")
      BY <1>11 DEF End, ManagerStep
    <2>2. inbox' \in [Sessions -> Seq(Events)]
      BY <2>1, NotifyEffect DEF Events
    <2>3. Shapes' /\ Unbegun' /\ Both' /\ ToldHadSubscribed'
      BY <2>1, <2>2 DEF Shapes, Kinds, Unbegun, Both, ToldHadSubscribed
    <2>4. OfflineIsFromEnded'
      BY <2>1 DEF Shapes, OfflineIsFromEnded
    <2> QED
      BY <2>3, <2>4
  <1>12. CASE UNCHANGED vars
    BY <1>1, <1>12 DEF vars, Shapes
  <1> QED
    BY <1>2, <1>3, <1>4, <1>5, <1>6, <1>8, <1>9, <1>10, <1>11, <1>12
       DEF Next, LoopStep, ManagerGoesOn

(* As long as no other manager of the wallet has gone offline, a connected *)
(* websocket has an event loop that was told of it and goes on (README.md:7*)
(* and 22-23), in whatever order tasks first run, unless the session's own *)
(* loop lives but subscribed after Connected was sent (wallet/mod.rs:113). *)
THEOREM ConnectionsHeard == Spec => []HeardUnlessOtherStopped
  <1>1. IndInv /\ [Next]_vars => IndInv'
    BY StepInd
  <1> QED
    BY <1>1, InitInd, InvImplies, PTL DEF Spec

=============================================================================
