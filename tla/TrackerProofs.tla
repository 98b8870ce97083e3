--------------------------- MODULE TrackerProofs ---------------------------
(***************************************************************************)
(* What holds of a tracker whose methods are called in any order, for any  *)
(* transactions and amounts, and for queues of any length.                 *)
(***************************************************************************)
EXTENDS TrackerCalls, TrackerLemmas

-----------------------------------------------------------------------------
(* The subscriber's copy.                                                  *)

(* mirror has the current version of everything that view has.             *)
CurrentIn(mirrored, view) ==
    \A t \in Txids : view[t] # Absent => mirrored[t] = view[t]

(* An event and its announcement keep the copy current: a removal is       *)
(* announced as a Confirmed, but what it removes is not held any more.     *)
LEMMA OneAnnounced ==
  ASSUME NEW view \in Views, NEW m \in Views, NEW e \in Event, CurrentIn(m, view)
  PROVE  CurrentIn(Effect(m, Announcement(e)), Effect(view, e))
  <1>1. /\ Effect(view, e) = [view EXCEPT ![e.tx.txid] = Outcome(e)]
        /\ Effect(m, Announcement(e))
              = [m EXCEPT ![Announcement(e).tx.txid] = Outcome(Announcement(e))]
    BY EventType, EffectType
  <1>2. /\ Announcement(e).tx.txid = e.tx.txid
        /\ Outcome(e) # Absent => Outcome(Announcement(e)) = Outcome(e)
    BY DEF Announcement, Outcome, Event, Tx
  <1> QED BY <1>1, <1>2 DEF CurrentIn, Views

(* The same for a sequence of events.                                      *)
LEMMA AllAnnounced ==
  ASSUME NEW view \in Views, NEW m \in Views, NEW es \in Seq(Event), CurrentIn(m, view)
  PROVE  /\ Announced(es) \in Seq(Event)
         /\ CurrentIn(EffectOfAll(m, Announced(es)), EffectOfAll(view, es))
  <1> DEFINE N == Len(es)
             an == Announced(es)
  <1>1. /\ N \in Nat /\ \A n \in 1..N : es[n] \in Event
        /\ \A n \in 1..N : Announcement(es[n]) \in Event
    <2>1. N \in Nat /\ \A n \in 1..N : es[n] \in Event
      OBVIOUS
    <2> HIDE DEF N
    <2> QED BY <2>1, EventType
  <1>2. /\ an \in Seq(Event) /\ Len(an) = N
        /\ \A n \in 1..N : an[n] = Announcement(es[n])
    BY <1>1 DEF Announced
  <1>3. PICK f : IsEffectRun(f, view, es)
    BY EventSpeaks, EffectOfAllFold
  <1> HIDE DEF an
  <1>4. PICK g : IsEffectRun(g, m, an)
    BY <1>2, EventSpeaks, EffectOfAllFold
  <1>5. /\ f \in [0..N -> Views] /\ f[0] = view
        /\ \A n \in 1..N : f[n] = Effect(f[n - 1], es[n])
        /\ EffectOfAll(view, es) = f[N]
    BY <1>3 DEF IsEffectRun
  <1>6. /\ g \in [0..N -> Views] /\ g[0] = m
        /\ \A n \in 1..N : g[n] = Effect(g[n - 1], an[n])
        /\ EffectOfAll(m, an) = g[N]
    BY <1>2, <1>4 DEF IsEffectRun
  <1> HIDE DEF N
  <1> DEFINE S == {n \in Nat : CurrentIn(g[n], f[n])}
  <1>7. 0 \in S
    BY <1>5, <1>6
  <1>8. ASSUME NEW n \in 1..N, n - 1 \in S PROVE n \in S
    <2>1. n \in Nat /\ es[n] \in Event /\ CurrentIn(g[n - 1], f[n - 1])
      BY <1>1, <1>8
    <2>2. f[n - 1] \in Views /\ g[n - 1] \in Views
      BY <1>1, <1>5, <1>6
    <2>3. /\ f[n] = Effect(f[n - 1], es[n])
          /\ g[n] = Effect(g[n - 1], Announcement(es[n]))
      BY <1>2, <1>5, <1>6
    <2>4. CurrentIn(Effect(g[n - 1], Announcement(es[n])), Effect(f[n - 1], es[n]))
      BY <2>1, <2>2, OneAnnounced
    <2> QED BY <2>1, <2>3, <2>4
  <1>9. N \in S
    <2> HIDE DEF S
    <2>1. 0..N \subseteq S
      BY <1>1, <1>7, <1>8, UpTo
    <2> QED BY <1>1, <2>1
  <1> QED BY <1>2, <1>5, <1>6, <1>9 DEF an

-----------------------------------------------------------------------------
(* The invariant.  The balance is what makes the type inductive (a removal *)
(* can only subtract what was added), and the empty queue what makes the   *)
(* order of the events come out right.                                     *)
IInv ==
    /\ tracker \in Balanced
    /\ mirror \in Views
    /\ NothingQueuedWhenLive
    /\ SubscriberIsCurrent

(* Call forgets what the previous call has broadcast.                      *)
LEMMA CallEffect ==
  ASSUME tracker \in Balanced
  PROVE  /\ Call \in Balanced
         /\ Call.transactions = tracker.transactions
         /\ Call.queue = tracker.queue
         /\ Call.loading = tracker.loading
         /\ Call.sent = <<>>
         /\ Call.transactions \in Views
         /\ Call.queue \in Seq(Event)
         /\ Call.loading \in BOOLEAN
  <1>1. tracker \in Trackers /\ <<>> \in Seq(Event)
    BY DEF Balanced
  <1>2. /\ Call \in Trackers
        /\ Call.transactions = tracker.transactions
        /\ Call.balance = tracker.balance
        /\ Call.queue = tracker.queue
        /\ Call.loading = tracker.loading
        /\ Call.sent = <<>>
    BY <1>1 DEF Call, Trackers
  <1>3. BalanceIsSum(Call)
    BY <1>2, BalanceKept DEF Balanced
  <1>4. /\ Call.transactions \in Views
        /\ Call.queue \in Seq(Event)
        /\ Call.loading \in BOOLEAN
    BY <1>2 DEF Trackers, Views, Version
  <1> QED BY <1>2, <1>3, <1>4 DEF Balanced

(* The end of loading: what waited has taken effect and was announced.     *)
LEMMA FinishEffect ==
  ASSUME tracker \in Balanced, tracker.loading
  PROVE  LET next == SetLoading(Call, FALSE)
         IN /\ next \in Balanced
            /\ next.transactions = EffectOfAll(tracker.transactions, tracker.queue)
            /\ next.queue = <<>>
            /\ ~ next.loading
            /\ next.sent = Announced(tracker.queue)
  <1> DEFINE empty == [Call EXCEPT !.queue = <<>>]
             next == SetLoading(Call, FALSE)
  <1>1. /\ Call \in Balanced /\ Call.loading /\ Call.queue = tracker.queue
        /\ Call.queue \in Seq(Event) /\ Call.sent = <<>>
        /\ Call.transactions = tracker.transactions
    BY CallEffect
  <1>2. empty \in Balanced /\ DrainQueue(Call) \in Balanced /\ DrainQueue(Call).queue = <<>>
    BY <1>1, DrainEffect
  <1>3. empty.sent = <<>> /\ empty.transactions = tracker.transactions
    BY <1>1 DEF Balanced, Trackers
  <1>4. DrainQueue(Call) = ProcessAll(empty, tracker.queue)
    BY <1>1 DEF DrainQueue
  <1> HIDE DEF empty
  <1>5. /\ DrainQueue(Call).transactions = EffectOfAll(tracker.transactions, tracker.queue)
        /\ DrainQueue(Call).sent = Announced(tracker.queue)
    BY <1>1, <1>2, <1>3, <1>4, ProcessAllIsEffect
  <1>6. /\ next \in Balanced
        /\ next.transactions = DrainQueue(Call).transactions
        /\ next.queue = DrainQueue(Call).queue
        /\ next.loading = FALSE
        /\ next.sent = DrainQueue(Call).sent
    <2>1. FALSE \in BOOLEAN
      OBVIOUS
    <2> HIDE DEF next
    <2> QED BY <1>1, <2>1, SetLoadingEffect DEF next
  <1> HIDE DEF next
  <1> QED BY <1>2, <1>5, <1>6 DEF next

(* Tracker::from gives a tracker that satisfies the invariant.             *)
LEMMA InitInv == Init => IInv
  <1> SUFFICES ASSUME Init PROVE IInv
    OBVIOUS
  <1>1. PICK saved \in SUBSET Tx : tracker = FromState(saved)
    BY DEF Init
  <1>2. tracker \in Balanced /\ tracker.queue = <<>> /\ tracker.loading
    BY <1>1, FromStateEffect
  <1>3. mirror = tracker.transactions
    BY DEF Init
  <1>4. mirror \in Views
    BY <1>2, <1>3 DEF Balanced, Trackers, Views, Version
  <1> QED BY <1>2, <1>3, <1>4 DEF IInv, NothingQueuedWhenLive, SubscriberIsCurrent

(* Every method leaves a tracker that satisfies the invariant.             *)
LEMMA StepInv == IInv /\ [Next]_vars => IInv'
  <1> SUFFICES ASSUME IInv, [Next]_vars PROVE IInv'
    OBVIOUS
  <1>1. /\ tracker \in Balanced /\ mirror \in Views
        /\ ~ tracker.loading => tracker.queue = <<>>
        /\ CurrentIn(mirror, tracker.transactions)
    BY DEF IInv, NothingQueuedWhenLive, SubscriberIsCurrent, CurrentIn
  <1>2. /\ Call \in Balanced
        /\ Call.transactions = tracker.transactions /\ Call.transactions \in Views
        /\ Call.queue = tracker.queue /\ Call.queue \in Seq(Event)
        /\ Call.loading = tracker.loading /\ Call.loading \in BOOLEAN
        /\ Call.sent = <<>>
    BY <1>1, CallEffect
  <1>3. ASSUME NEW next \in Balanced, Become(next),
               ~ next.loading => next.queue = <<>>,
               CurrentIn(EffectOfAll(mirror, next.sent), next.transactions)
        PROVE  IInv'
    <2>1. next.sent \in Seq(Event)
      BY <1>3 DEF Balanced, Trackers
    <2>2. tracker' = next /\ mirror' = EffectOfAll(mirror, next.sent)
      BY <1>3 DEF Become
    <2>3. mirror' \in Views
      BY <1>1, <2>1, <2>2, EventSpeaks, EffectOfAllType
    <2> QED BY <1>3, <2>2, <2>3 DEF IInv, NothingQueuedWhenLive, SubscriberIsCurrent, CurrentIn
  <1>4. ASSUME NEW e \in Event, NEW realtime \in BOOLEAN,
               ~ (realtime /\ tracker.loading),
               Become(ProcessEvent(Call, e, realtime))
        PROVE  IInv'
    <2> DEFINE next == ProcessEvent(Call, e, realtime)
    <2>1. /\ next \in Balanced
          /\ next.transactions = [Call.transactions EXCEPT ![e.tx.txid] = Outcome(e)]
          /\ next.queue = Call.queue
          /\ next.loading = Call.loading
          /\ next.sent = Append(Call.sent, Announcement(e))
      BY <1>2, <1>4, ApplyEffect
    <2> HIDE DEF next
    <2>2. next.transactions = Effect(tracker.transactions, e)
      <3>1. Effect(tracker.transactions, e) = [tracker.transactions EXCEPT ![e.tx.txid] = Outcome(e)]
        BY <1>1, EffectType DEF Balanced, Trackers, Views, Version
      <3>2. Call.transactions = tracker.transactions
        BY <1>2
      <3> QED BY <2>1, <3>1, <3>2
    <2>3. EffectOfAll(mirror, next.sent) = Effect(mirror, Announcement(e))
      <3>1. <<>> \in Seq(Event) /\ Announcement(e) \in Event
        BY EventType
      <3>2. EffectOfAll(mirror, Append(<<>>, Announcement(e)))
              = Effect(EffectOfAll(mirror, <<>>), Announcement(e))
        BY <1>1, <3>1, EventSpeaks, EffectOfMore
      <3> QED BY <1>1, <1>2, <2>1, <3>2, EffectOfNone
    <2>4. CurrentIn(Effect(mirror, Announcement(e)), Effect(tracker.transactions, e))
      BY <1>1, <1>2, OneAnnounced
    <2>5. Become(next)
      BY <1>4 DEF next
    <2> QED BY <1>1, <1>2, <1>3, <2>1, <2>2, <2>3, <2>4, <2>5
  <1>5. ASSUME NEW e \in ServerEvent, Realtime(e) PROVE IInv'
    <2>1. e \in Event /\ Become(ProcessEvent(Call, e, TRUE))
      BY <1>5 DEF ServerEvent, Realtime
    <2>2. CASE tracker.loading
      <3> DEFINE next == ProcessEvent(Call, e, TRUE)
      <3>1. /\ next \in Balanced
            /\ next.transactions = Call.transactions
            /\ next.loading = Call.loading
            /\ next.sent = Call.sent
        BY <1>2, <2>1, <2>2, QueueEffect
      <3>2. Become(next)
        BY <2>1
      <3> HIDE DEF next
      <3>3. EffectOfAll(mirror, next.sent) = mirror
        BY <1>1, <1>2, <3>1, EffectOfNone
      <3> QED BY <1>1, <1>2, <1>3, <2>2, <3>1, <3>2, <3>3
    <2>3. CASE ~ tracker.loading
      <3>1. TRUE \in BOOLEAN /\ ~ (TRUE /\ tracker.loading)
        BY <2>3
      <3> QED BY <1>4, <2>1, <3>1
    <2> QED BY <2>2, <2>3
  <1>6. ASSUME NEW e \in ServerEvent, FromHistory(e) PROVE IInv'
    <2>1. e \in Event /\ Become(ProcessEvent(Call, e, FALSE))
      BY <1>6 DEF ServerEvent, FromHistory
    <2>2. FALSE \in BOOLEAN /\ ~ (FALSE /\ tracker.loading)
      OBVIOUS
    <2> QED BY <1>4, <2>1, <2>2
  <1>7. ASSUME NEW loading \in BOOLEAN, loading \/ ~ tracker.loading,
               Become(SetLoading(Call, loading))
        PROVE  IInv'
    <2> DEFINE next == SetLoading(Call, loading)
    <2>1. /\ next \in Balanced
          /\ next.transactions = Call.transactions
          /\ next.queue = Call.queue
          /\ next.loading = loading
          /\ next.sent = Call.sent
      BY <1>2, <1>7, SetLoadingEffect
    <2>2. Become(next)
      BY <1>7
    <2> HIDE DEF next
    <2>3. EffectOfAll(mirror, next.sent) = mirror
      BY <1>1, <1>2, <2>1, EffectOfNone
    <2> QED BY <1>1, <1>2, <1>3, <1>7, <2>1, <2>2, <2>3
  <1>8. CASE StartLoading
    <2>1. TRUE \in BOOLEAN /\ Become(SetLoading(Call, TRUE))
      BY <1>8 DEF StartLoading
    <2> QED BY <1>7, <2>1
  <1>9. CASE FinishLoading
    <2>1. Become(SetLoading(Call, FALSE))
      BY <1>9 DEF FinishLoading
    <2>2. CASE tracker.loading
      <3> DEFINE next == SetLoading(Call, FALSE)
      <3>1. /\ next \in Balanced
            /\ next.transactions = EffectOfAll(tracker.transactions, tracker.queue)
            /\ next.queue = <<>>
            /\ next.sent = Announced(tracker.queue)
        BY <1>1, <2>2, FinishEffect
      <3>2. Become(next)
        BY <2>1
      <3> HIDE DEF next
      <3>3. CurrentIn(EffectOfAll(mirror, next.sent), next.transactions)
        BY <1>1, <1>2, <3>1, AllAnnounced
      <3> QED BY <1>3, <3>1, <3>2, <3>3
    <2>3. CASE ~ tracker.loading
      <3>1. FALSE \in BOOLEAN
        OBVIOUS
      <3> QED BY <1>7, <2>1, <2>3, <3>1
    <2> QED BY <2>2, <2>3
  <1>10. CASE UNCHANGED vars
    BY <1>10 DEF IInv, NothingQueuedWhenLive, SubscriberIsCurrent, vars
  <1> QED BY <1>5, <1>6, <1>8, <1>9, <1>10 DEF Next

LEMMA Invariant == Spec => []IInv
  BY InitInv, StepInv, PTL DEF Spec

(* The tracker keeps its type whatever is called: in particular the two    *)
(* balances, which are unsigned, never go below 0 (mod.rs                  *)
(* remove_transaction).                                                    *)
THEOREM TypeCorrect == Spec => []TypeOK
  <1>1. IInv => TypeOK
    BY DEF IInv, TypeOK, Balanced, Views, Version
  <1> QED BY <1>1, Invariant, PTL

(* The balances are the sums over the transactions the tracker holds       *)
(* (add_transaction and remove_transaction undo each other exactly).       *)
THEOREM BalanceCorrect == Spec => []BalanceMatchesTransactions
  <1>1. IInv => BalanceMatchesTransactions
    BY DEF IInv, BalanceMatchesTransactions, Balanced
  <1> QED BY <1>1, Invariant, PTL

(* A live tracker has nothing in its queue (set_loading drains it all).    *)
THEOREM NothingStranded == Spec => []NothingQueuedWhenLive
  <1>1. IInv => NothingQueuedWhenLive
    BY DEF IInv
  <1> QED BY <1>1, Invariant, PTL

(* A subscriber that follows the broadcast events has the current version  *)
(* of every transaction the tracker holds.                                 *)
THEOREM SubscriberCorrect == Spec => []SubscriberIsCurrent
  <1>1. IInv => SubscriberIsCurrent
    BY DEF IInv
  <1> QED BY <1>1, Invariant, PTL

(* Realtime events take effect in the order they arrived in, across the    *)
(* queue and its draining, and the end of loading adds nothing to what     *)
(* the events said (process_event, drain_queue).                           *)
THEOREM OrderKept == Spec => ArrivalOrderKept
  <1>1. ASSUME IInv, [Next]_vars, NEW e \in ServerEvent, Realtime(e)
        PROVE  Pending(tracker') = Effect(Pending(tracker), e)
    <2>1. /\ e \in Event
          /\ tracker \in Balanced
          /\ ~ tracker.loading => tracker.queue = <<>>
          /\ tracker' = ProcessEvent(Call, e, TRUE)
      BY <1>1 DEF ServerEvent, IInv, NothingQueuedWhenLive, Realtime, Become
    <2>2. /\ Call \in Balanced
          /\ Call.transactions = tracker.transactions /\ Call.transactions \in Views
          /\ Call.queue = tracker.queue /\ Call.queue \in Seq(Event)
          /\ Call.loading = tracker.loading
      BY <2>1, CallEffect
    <2>3. CASE tracker.loading
      <3> DEFINE next == ProcessEvent(Call, e, TRUE)
      <3>1. next.transactions = Call.transactions /\ next.queue = Append(Call.queue, e)
        BY <2>1, <2>2, <2>3, QueueEffect
      <3>2. tracker' = next
        BY <2>1
      <3> HIDE DEF next
      <3>3. /\ tracker'.transactions = tracker.transactions
            /\ tracker'.queue = Append(tracker.queue, e)
        BY <2>2, <3>1, <3>2
      <3>4. EffectOfAll(tracker.transactions, Append(tracker.queue, e))
              = Effect(EffectOfAll(tracker.transactions, tracker.queue), e)
        BY <2>1, <2>2, EventSpeaks, EffectOfMore
      <3> QED BY <3>3, <3>4 DEF Pending
    <2>4. CASE ~ tracker.loading
      <3>1. TRUE \in BOOLEAN /\ ~ (TRUE /\ Call.loading)
        BY <2>2, <2>4
      <3>2. /\ tracker'.transactions
                  = [Call.transactions EXCEPT ![e.tx.txid] = Outcome(e)]
            /\ tracker'.queue = Call.queue
        BY <2>1, <2>2, <3>1, ApplyEffect
      <3>3. /\ tracker'.transactions = Effect(tracker.transactions, e)
            /\ Effect(tracker.transactions, e) \in Views
        <4>1. /\ Effect(tracker.transactions, e) \in Views
              /\ Effect(tracker.transactions, e)
                   = [tracker.transactions EXCEPT ![e.tx.txid] = Outcome(e)]
          BY <2>1, <2>2, EffectType
        <4>2. Call.transactions = tracker.transactions
          BY <2>2
        <4> QED BY <3>2, <4>1, <4>2
      <3>4. tracker.queue = <<>> /\ tracker'.queue = <<>>
        BY <2>1, <2>2, <2>4, <3>2
      <3> QED BY <2>2, <3>3, <3>4, EffectOfNone DEF Pending
    <2> QED BY <2>3, <2>4
  <1>2. ASSUME IInv, [Next]_vars, FinishLoading
        PROVE  Pending(tracker') = Pending(tracker)
    <2>1. /\ tracker \in Balanced
          /\ ~ tracker.loading => tracker.queue = <<>>
          /\ tracker' = SetLoading(Call, FALSE)
      BY <1>2 DEF IInv, NothingQueuedWhenLive, FinishLoading, Become
    <2>2. /\ Call \in Balanced
          /\ Call.transactions = tracker.transactions /\ Call.transactions \in Views
          /\ Call.queue = tracker.queue /\ Call.queue \in Seq(Event)
          /\ Call.loading = tracker.loading
      BY <2>1, CallEffect
    <2>3. CASE tracker.loading
      <3>1. /\ tracker'.transactions = EffectOfAll(tracker.transactions, tracker.queue)
            /\ tracker'.queue = <<>>
        BY <2>1, <2>3, FinishEffect
      <3>2. EffectOfAll(tracker.transactions, tracker.queue) \in Views
        BY <2>2, EventSpeaks, EffectOfAllType
      <3> QED BY <3>1, <3>2, EffectOfNone DEF Pending
    <2>4. CASE ~ tracker.loading
      <3>1. FALSE \in BOOLEAN
        OBVIOUS
      <3>2. /\ tracker'.transactions = Call.transactions
            /\ tracker'.queue = Call.queue
        BY <2>1, <2>2, <2>4, <3>1, SetLoadingEffect
      <3> QED BY <2>2, <3>2 DEF Pending
    <2> QED BY <2>3, <2>4
  <1>3. IInv /\ [Next]_vars =>
          [/\ \A e \in ServerEvent :
                Realtime(e) => Pending(tracker') = Effect(Pending(tracker), e)
           /\ FinishLoading => Pending(tracker') = Pending(tracker)]_vars
    BY <1>1, <1>2
  <1> QED BY <1>3, Invariant, PTL DEF Spec, ArrivalOrderKept
=============================================================================
