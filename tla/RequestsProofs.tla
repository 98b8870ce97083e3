--------------------------- MODULE RequestsProofs ---------------------------
(***************************************************************************)
(* What the algorithms of Requests answer, for every history, page size,   *)
(* chain, keychain and limit.  The invariant says that the answer is the   *)
(* one of the algorithm; for a history, which takes several requests, it   *)
(* says of each turn of the loop which pages are in.  Each theorem rests   *)
(* on a lemma about what the algorithm computes.                           *)
(***************************************************************************)
EXTENDS Requests, HistoryLemmas

-----------------------------------------------------------------------------
(* The call is one of those that are looked at, and its answer, if it has  *)
(* one, is what the algorithm makes of it.                                 *)
Computed ==
    CASE call.kind = "history" ->
            FetchAddressHistory(NewestFirst(Known(call.server)), call.untilTxid, call.untilHeight)
      [] call.kind = "chain" -> UpdateLocalChain(call.server, call.local, call.requested)
      [] call.kind = "scan" -> Scanned(call.used, Addresses, call.stopGap)

RightAnswer ==
    /\ \/ call \in HistoryCalls
       \/ call \in ChainCalls
       \/ call \in ScanCalls
    /\ reply \in {<<>>, <<Computed>>}

(* What the server lists, each transaction once.                           *)
ListOf(c) == NewestFirst(Known(c.server))

LEMMA HistoryCall ==
  ASSUME NEW c \in HistoryCalls
  PROVE  /\ c.untilHeight \in Int
         /\ Known(c.server) \in SUBSET Tx /\ IsFiniteSet(Known(c.server))
         /\ ListOf(c) \in Seq(Tx)
         /\ \A i, j \in 1..Len(ListOf(c)) : ListOf(c)[i].txid = ListOf(c)[j].txid => i = j
  <1> DEFINE txs == Known(c.server)
             list == ListOf(c)
  <1>1. c.server \in Views
    BY DEF HistoryCalls, Views, Version
  <1>2. c.untilHeight \in Int
    BY TrackerAssumption DEF HistoryCalls, NoHeight
  <1>3. txs = Shown(c.server)
    BY DEF Known, Shown
  <1>4. txs \in SUBSET Tx /\ IsFiniteSet(txs)
    BY <1>1, <1>3, ShownFinite
  <1>5. \A a, b \in txs : a.txid = b.txid => a = b
    BY DEF Known
  <1> HIDE DEF txs
  <1>6. IsNewestFirst(list, txs)
    BY <1>4, NewestFirstSorts DEF ListOf, txs
  <1> HIDE DEF list
  <1>7. /\ list \in Seq(txs)
        /\ \A i, j \in 1..Len(list) : i < j => TxBefore(list[j], list[i])
    BY <1>6 DEF IsNewestFirst
  <1>8. list \in Seq(Tx) /\ Len(list) \in Nat /\ \A i \in 1..Len(list) : list[i] \in txs /\ list[i] \in Tx
    BY <1>4, <1>7
  <1>9. ASSUME NEW i \in 1..Len(list), NEW j \in 1..Len(list), list[i].txid = list[j].txid
        PROVE  i = j
    <2>1. list[i] = list[j]
      BY <1>5, <1>8, <1>9
    <2>2. ~TxBefore(list[i], list[j]) /\ ~TxBefore(list[j], list[i])
      BY <1>8, <2>1, TxBeforeOrder
    <2>3. ~(i < j) /\ ~(j < i)
      BY <1>7, <2>2
    <2> QED BY <1>8, <2>3
  <1> QED BY <1>2, <1>4, <1>8, <1>9 DEF txs, list

(* While a history is being fetched, some number of pages is in.           *)
PagesIn ==
    call \in HistoryCalls /\ reply = <<>> =>
        \E n \in Nat : AfterPages(fetch, ListOf(call), call.untilTxid, call.untilHeight, n)

LEMMA AnswersRight == Spec => []RightAnswer
  <1>0. /\ \A c \in HistoryCalls : c.kind = "history"
        /\ \A c \in ChainCalls : c.kind = "chain"
        /\ \A c \in ScanCalls : c.kind = "scan"
    BY DEF HistoryCalls, ChainCalls, ScanCalls
  <1>1. Init => RightAnswer /\ PagesIn
    <2> SUFFICES ASSUME Init PROVE RightAnswer /\ PagesIn
      OBVIOUS
    <2>1. RightAnswer
      BY DEF Init, RightAnswer
    <2>2. ASSUME call \in HistoryCalls PROVE PagesIn
      <3>1. fetch = FetchStart(call.untilTxid, call.untilHeight)
        BY <1>0, <2>2 DEF Init
      <3>2. ListOf(call) \in Seq(Tx)
        BY <2>2, HistoryCall
      <3>3. AfterPages(FetchStart(call.untilTxid, call.untilHeight),
                       ListOf(call), call.untilTxid, call.untilHeight, 0)
        BY <3>2, LoopStarts
      <3> QED BY <3>1, <3>3 DEF PagesIn
    <2> QED BY <2>1, <2>2 DEF PagesIn
  <1>2. RightAnswer /\ PagesIn /\ [Next]_vars => RightAnswer' /\ PagesIn'
    <2> SUFFICES ASSUME RightAnswer, PagesIn, [Next]_vars PROVE RightAnswer' /\ PagesIn'
      OBVIOUS
    <2>1. call' = call
      BY DEF Next, FetchPage, FetchReturn, AnswerChain, AnswerScan, Answer, vars
    <2>2. Computed' = Computed
      BY <2>1 DEF Computed
    <2>3. reply' \in {<<>>, <<Computed>>} => RightAnswer'
      BY <2>1, <2>2 DEF RightAnswer, HistoryCalls, ChainCalls, ScanCalls
    <2>4. reply' # <<>> => PagesIn'
      BY DEF PagesIn
    <2>5. CASE FetchPage
      <3>1. reply' = reply /\ reply = <<>> /\ call.kind = "history"
        BY <2>5 DEF FetchPage, Waiting
      <3>2. call \in HistoryCalls
        BY <1>0, <3>1 DEF RightAnswer
      <3>3. /\ ListOf(call) \in Seq(Tx)
            /\ \A i, j \in 1..Len(ListOf(call)) :
                  ListOf(call)[i].txid = ListOf(call)[j].txid => i = j
        BY <3>2, HistoryCall
      <3>4. PICK n \in Nat : AfterPages(fetch, ListOf(call), call.untilTxid, call.untilHeight, n)
        BY <3>1, <3>2 DEF PagesIn
      <3>5. /\ GoesOn(fetch, call.untilTxid, call.untilHeight)
            /\ fetch' = WithPage(fetch, ScripthashTxs(ListOf(call), fetch.lastTxid),
                                 call.untilTxid, call.untilHeight)
        BY <2>5 DEF FetchPage, ListOf
      <3>6. ~fetch.done
        BY <3>5 DEF GoesOn
      <3>7. ScripthashTxs(ListOf(call), fetch.lastTxid) = Page(ListOf(call), n + 1)
        BY <3>3, <3>4, <3>6, CursorPage
      <3>8. AfterPages(fetch', ListOf(call), call.untilTxid, call.untilHeight, n + 1)
        BY <3>3, <3>4, <3>5, <3>7, LoopGoesOn
      <3>9. AfterPages(fetch, ListOf(call), call.untilTxid, call.untilHeight, n + 1)'
        BY <2>1, <3>8
      <3>10. n + 1 \in Nat
        OBVIOUS
      <3>11. PagesIn'
        BY <3>9, <3>10 DEF PagesIn
      <3> QED BY <2>3, <3>1, <3>11
    <2>6. CASE FetchReturn
      <3>1. reply' = <<Reverse(fetch.allTxs)>> /\ reply = <<>> /\ call.kind = "history"
        BY <2>6 DEF FetchReturn, Waiting, Answer
      <3>2. call \in HistoryCalls
        BY <1>0, <3>1 DEF RightAnswer
      <3>3. ListOf(call) \in Seq(Tx)
        BY <3>2, HistoryCall
      <3>4. PICK n \in Nat : AfterPages(fetch, ListOf(call), call.untilTxid, call.untilHeight, n)
        BY <3>1, <3>2 DEF PagesIn
      <3>5. ~GoesOn(fetch, call.untilTxid, call.untilHeight)
        BY <2>6 DEF FetchReturn
      <3>6. Reverse(fetch.allTxs)
              = FetchAddressHistory(ListOf(call), call.untilTxid, call.untilHeight)
        BY <3>3, <3>4, <3>5, LoopReturns
      <3>7. reply' = <<Computed>>
        BY <3>1, <3>6 DEF Computed, ListOf
      <3>8. reply' # <<>>
        BY <3>1
      <3> QED BY <2>3, <2>4, <3>7, <3>8
    <2>7. CASE AnswerChain
      <3>1. reply' = <<Computed>>
        BY <2>7 DEF AnswerChain, Waiting, Answer, Computed
      <3>2. reply' # <<>>
        BY <3>1
      <3> QED BY <2>3, <2>4, <3>1, <3>2
    <2>8. CASE AnswerScan
      <3>1. reply' = <<Computed>>
        BY <2>8 DEF AnswerScan, Waiting, Answer, Computed
      <3>2. reply' # <<>>
        BY <3>1
      <3> QED BY <2>3, <2>4, <3>1, <3>2
    <2>9. CASE UNCHANGED vars
      <3>1. fetch' = fetch /\ call' = call /\ reply' = reply
        BY <2>9 DEF vars
      <3>2. RightAnswer'
        BY <2>3, <3>1 DEF RightAnswer
      <3>3. PagesIn'
        BY <3>1 DEF PagesIn, HistoryCalls
      <3> QED BY <3>2, <3>3
    <2> QED BY <2>5, <2>6, <2>7, <2>8, <2>9 DEF Next
  <1> QED BY <1>1, <1>2, PTL DEF Spec

(* The kinds of calls do not overlap.                                      *)
LEMMA KindOfCall ==
  ASSUME RightAnswer, NEW kind, Answered(kind)
  PROVE  /\ kind = "history" => call \in HistoryCalls
         /\ kind = "chain" => call \in ChainCalls
         /\ kind = "scan" => call \in ScanCalls
         /\ reply[1] = Computed
  <1>1. \A c \in HistoryCalls : c.kind = "history"
    BY DEF HistoryCalls
  <1>2. \A c \in ChainCalls : c.kind = "chain"
    BY DEF ChainCalls
  <1>3. \A c \in ScanCalls : c.kind = "scan"
    BY DEF ScanCalls
  <1>4. call.kind = kind
    BY DEF Answered
  <1>5. reply = <<Computed>>
    BY DEF RightAnswer, Answered
  <1>6. reply[1] = Computed
    BY <1>5
  <1> QED BY <1>1, <1>2, <1>3, <1>4, <1>6 DEF RightAnswer

-----------------------------------------------------------------------------
(* The history.                                                            *)

LEMMA HistoryAnswer ==
  ASSUME RightAnswer, Answered("history")
  PROVE  /\ IsReply(reply[1], Known(call.server), call.untilTxid, call.untilHeight)
         /\ Known(call.server) \in SUBSET Tx
         /\ Returned = {reply[1][i] : i \in 1..Len(reply[1])}
         /\ call.untilHeight \in Int
  <1>1. call \in HistoryCalls /\ call.kind = "history" /\ reply[1] = Computed
    BY KindOfCall DEF Answered
  <1>3. call.untilHeight \in Int
    BY <1>1, HistoryCall
  <1>5. Known(call.server) \in SUBSET Tx /\ IsFiniteSet(Known(call.server))
    BY <1>1, HistoryCall
  <1>6. reply[1] = FetchAddressHistory(NewestFirst(Known(call.server)),
                                       call.untilTxid, call.untilHeight)
    BY <1>1 DEF Computed
  <1>7. IsReply(reply[1], Known(call.server), call.untilTxid, call.untilHeight)
    BY <1>3, <1>5, <1>6, FetchReturns
  <1>8. Returned = {reply[1][i] : i \in 1..Len(reply[1])}
    <2>1. reply[1] \in Seq(Tx)
      BY <1>7 DEF IsReply
    <2> DEFINE r == reply[1]
    <2>2. DOMAIN r = 1..Len(r)
      BY <2>1
    <2>3. Returned = {r[i] : i \in DOMAIN r}
      BY DEF Returned, ToSet
    <2> HIDE DEF r
    <2>4. Returned = {r[i] : i \in 1..Len(r)}
      BY <2>2, <2>3
    <2> QED BY <2>4 DEF r
  <1> QED BY <1>3, <1>5, <1>7, <1>8

(* A call with limits misses nothing at or above the height limit and      *)
(* nothing unconfirmed, for every history, page size and limit             *)
(* (fetch_address_history, api/mod.rs:84-125).                             *)
THEOREM NothingAboveLimitMissedCorrect == Spec => []NothingAboveLimitMissed
  <1>1. RightAnswer => NothingAboveLimitMissed
    <2> SUFFICES ASSUME RightAnswer, Answered("history"), call.untilHeight # NoHeight,
                        NEW tx \in Known(call.server),
                        tx.height = Unconfirmed \/ tx.height >= call.untilHeight
                 PROVE  tx \in Returned
      BY DEF NothingAboveLimitMissed
    <2>1. /\ IsReply(reply[1], Known(call.server), call.untilTxid, call.untilHeight)
          /\ Returned = {reply[1][i] : i \in 1..Len(reply[1])}
          /\ tx \in Tx /\ call.untilHeight \in Int
      BY HistoryAnswer
    <2>2. tx.height \in Int
      <3>1. tx \in Tx
        BY <2>1
      <3>2. tx.height \in Heights
        BY <3>1 DEF Tx
      <3>3. \A h \in Heights : h \in Int
        BY VersionType
      <3> QED BY <3>2, <3>3
    <2>3. ~(Confirmed(tx) /\ tx.height < call.untilHeight)
      BY <2>1, <2>2 DEF Confirmed
    <2>4. \E i \in 1..Len(reply[1]) : reply[1][i] = tx
      BY <2>1, <2>3 DEF IsReply
    <2> QED BY <2>1, <2>4
  <1> QED BY <1>1, AnswersRight, PTL

(* A call for a transaction returns it, or the whole history when the      *)
(* server has it no more.                                                  *)
THEOREM AskedForIsFoundCorrect == Spec => []AskedForIsFound
  <1>1. RightAnswer => AskedForIsFound
    <2> SUFFICES ASSUME RightAnswer, Answered("history"), call.untilTxid # NoTxid,
                        ~(\E tx \in Returned : tx.txid = call.untilTxid)
                 PROVE  Returned = Known(call.server)
      BY DEF AskedForIsFound
    <2>1. /\ IsReply(reply[1], Known(call.server), call.untilTxid, call.untilHeight)
          /\ Returned = {reply[1][i] : i \in 1..Len(reply[1])}
      BY HistoryAnswer
    <2>2. Returned \subseteq Known(call.server)
      BY <2>1 DEF IsReply
    <2>3. ~(\E i \in 1..Len(reply[1]) : reply[1][i].txid = call.untilTxid)
      BY <2>1
    <2>4. \A tx \in Known(call.server) : \E i \in 1..Len(reply[1]) : reply[1][i] = tx
      BY <2>1, <2>3 DEF IsReply
    <2> QED BY <2>1, <2>2, <2>4
  <1> QED BY <1>1, AnswersRight, PTL

(* For every page size and however many requests the loop makes, the pages *)
(* that it appends one after the other do not overlap and leave nothing    *)
(* out between them: the reply is the newest part of the history, oldest   *)
(* first (api/mod.rs:84-106).                                              *)
THEOREM OldestFirstCorrect == Spec => []OldestFirst
  <1>1. RightAnswer => OldestFirst
    <2> SUFFICES ASSUME RightAnswer, Answered("history")
                 PROVE  /\ \A i, j \in DOMAIN reply[1] :
                              i < j => TxBefore(reply[1][i], reply[1][j])
                        /\ \A tx \in Known(call.server) \ Returned :
                              \A other \in Returned : TxBefore(tx, other)
      BY DEF OldestFirst
    <2>1. /\ IsReply(reply[1], Known(call.server), call.untilTxid, call.untilHeight)
          /\ Returned = {reply[1][i] : i \in 1..Len(reply[1])}
      BY HistoryAnswer
    <2> DEFINE r == reply[1]
    <2>2. r \in Seq(Tx)
      BY <2>1 DEF IsReply
    <2> HIDE DEF r
    <2>3. DOMAIN r = 1..Len(r)
      BY <2>2
    <2>4. \A i, j \in 1..Len(r) : i < j => TxBefore(r[i], r[j])
      BY <2>1 DEF IsReply, r
    <2>5. \A tx \in Known(call.server) \ Returned :
              \A i \in 1..Len(r) : TxBefore(tx, r[i])
      BY <2>1 DEF IsReply, r
    <2> QED BY <2>1, <2>3, <2>4, <2>5 DEF r
  <1> QED BY <1>1, AnswersRight, PTL

(* The reply of the loop is the one that the sync of an address reckons    *)
(* with: the pages up to the one at which the loop stops.                  *)
THEOREM PagesMakeHistoryCorrect == Spec => []PagesMakeHistory
  <1>1. RightAnswer => PagesMakeHistory
    <2> SUFFICES ASSUME RightAnswer, Answered("history")
                 PROVE  reply[1] = FetchAddressHistory(NewestFirst(Known(call.server)),
                                                       call.untilTxid, call.untilHeight)
      BY DEF PagesMakeHistory
    <2>1. call.kind = "history" /\ reply[1] = Computed
      BY KindOfCall DEF Answered
    <2> QED BY <2>1 DEF Computed
  <1> QED BY <1>1, AnswersRight, PTL

-----------------------------------------------------------------------------
(* The scan of a keychain.                                                 *)

(* A set of numbers below a bound has a greatest element, and Max and Min  *)
(* are what they are called.                                               *)
LEMMA Greatest ==
  ASSUME NEW n \in Nat, NEW S \in SUBSET (0..n), S # {}
  PROVE  /\ Max(S) \in S /\ \A x \in S : x <= Max(S)
         /\ Min(S) \in S /\ \A x \in S : Min(S) <= x
  <1>1. \E x \in S : \A y \in S : x <= y
    <2>1. S \in SUBSET Nat
      OBVIOUS
    <2> QED BY <2>1, Least
  <1>2. \E x \in S : \A y \in S : y <= x
    <2> DEFINE T == {m \in Nat : \A y \in S : y <= m}
    <2>1. T \in SUBSET Nat /\ n \in T
      OBVIOUS
    <2> HIDE DEF T
    <2>2. PICK m \in T : \A k \in T : m <= k
      BY <2>1, Least
    <2>3. m \in Nat /\ \A y \in S : y <= m
      BY <2>2 DEF T
    <2>4. m \in S
      <3> SUFFICES ASSUME m \notin S PROVE FALSE
        OBVIOUS
      <3>1. \A y \in S : y \in Nat /\ y <= m - 1
        BY <2>3
      <3>2. m - 1 \in Nat
        <4>1. PICK y \in S : y \in Nat /\ y <= m - 1
          BY <3>1
        <4> HIDE DEF T
        <4> QED BY <2>3, <4>1
      <3>3. m - 1 \in T
        BY <3>1, <3>2 DEF T
      <3> QED BY <2>2, <2>3, <3>3
    <2> QED BY <2>3, <2>4
  <1>3. Max(S) \in S /\ \A x \in S : x <= Max(S)
    BY <1>2 DEF Max
  <1>4. Min(S) \in S /\ \A x \in S : Min(S) <= x
    BY <1>1 DEF Min
  <1> QED BY <1>3, <1>4

(* Below the bound of an index the sum of two is not reduced.              *)
LEMMA NoOverflow == \A n \in 0..(IndexBound - 1) : n % IndexBound = n
  BY MempoolExtAssumption

(* The scan reaches an address in use when no unused stretch of more than  *)
(* stopGap comes before it.                                                *)
LEMMA ScanReaches ==
  ASSUME NEW used \in SUBSET (0..(Addresses - 1)), 0 \in used,
         NEW stopGap \in 1..(IndexBound - 1), NEW u \in used,
         \A v \in used : v < u => v + stopGap < IndexBound,
         \A v \in used : 0 < v /\ v <= u =>
              \E w \in used : w < v /\ v - w <= stopGap + 1
  PROVE  u \in Scanned(used, Addresses, stopGap)
  <1>1. used \in SUBSET Nat /\ u \in Nat /\ stopGap \in Nat /\ Addresses \in Nat
        /\ IndexBound \in Nat
    BY RequestsAssumption, MempoolExtAssumption
  <1>2. ASSUME NEW j \in 0..(u - 1) PROVE ~GapReached(used, stopGap, j)
    <2> DEFINE active == {i \in used : i <= j}
               next == {i \in used : i > j}
               a == Max(active)
    <2>1. active \in SUBSET (0..j) /\ 0 \in active /\ j \in Nat
      <3>1. j \in Nat
        BY <1>1
      <3>2. \A i \in used : i \in Nat
        BY <1>1
      <3>3. \A i \in active : i \in 0..j
        BY <3>1, <3>2
      <3>4. 0 \in active
        BY <3>1
      <3>5. active \subseteq 0..j
        BY <3>3
      <3> HIDE DEF active
      <3> QED BY <3>1, <3>4, <3>5
    <2>2. a \in active /\ \A x \in active : x <= a
      <3> HIDE DEF active
      <3> QED BY <2>1, Greatest
    <2>3. PICK v \in next : \A x \in next : v <= x
      <3>1. next \in SUBSET Nat
        BY <1>1
      <3>2. u > j
        BY <1>1
      <3>3. u \in next
        BY <3>2
      <3> HIDE DEF next
      <3> QED BY <3>1, <3>3, Least
    <2> HIDE DEF a
    <2>4. v \in used /\ j < v /\ v <= u
      BY <1>1, <2>3
    <2>5. PICK w \in used : w < v /\ v - w <= stopGap + 1
      BY <1>1, <2>1, <2>4
    <2>6. w \in active
      BY <1>1, <2>1, <2>3, <2>5
    <2>7. a \in used /\ a \in Nat /\ a < u /\ w <= a /\ v <= w + stopGap + 1
      <3>1. a \in used /\ a <= j
        BY <2>2
      <3>2. w <= a
        BY <2>2, <2>6
      <3> HIDE DEF a
      <3> QED BY <1>1, <2>1, <2>4, <2>5, <3>1, <3>2
    <2>8. a + stopGap \in 0..(IndexBound - 1) /\ ~(j > a + stopGap)
      BY <1>1, <2>1, <2>4, <2>5, <2>7
    <2> DEFINE sum == a + stopGap
    <2>9. sum % IndexBound = sum
      <3> HIDE DEF sum
      <3> QED BY <2>8, NoOverflow DEF sum
    <2>10. GapReached(used, stopGap, j) <=> active = {} \/ j > sum % IndexBound
      BY DEF GapReached, a
    <2> HIDE DEF sum, active
    <2> QED BY <2>1, <2>8, <2>9, <2>10 DEF sum
  <1>3. u \in 0..(Addresses - 1)
    OBVIOUS
  <1> QED BY <1>2, <1>3 DEF Scanned

(* The scan does not go on after a longer stretch, nor after an unused     *)
(* first address.                                                          *)
LEMMA ScanStops ==
  ASSUME NEW used \in SUBSET (0..(Addresses - 1)),
         NEW stopGap \in 1..(IndexBound - 1), NEW u \in used,
         u \in Scanned(used, Addresses, stopGap)
  PROVE  /\ 0 \in used
         /\ \A v \in used : 0 < v /\ v <= u =>
               \E w \in used : w < v /\ v - w <= stopGap + 1
  <1>1. used \in SUBSET Nat /\ u \in Nat /\ stopGap \in Nat /\ Addresses \in Nat
        /\ IndexBound \in Nat \ {0}
    BY RequestsAssumption, MempoolExtAssumption
  <1>2. \A j \in 0..(u - 1) : ~GapReached(used, stopGap, j)
    BY DEF Scanned
  <1>3. 0 \in used
    <2> SUFFICES ASSUME 0 \notin used PROVE FALSE
      OBVIOUS
    <2>0. u \in Nat /\ u # 0 /\ \A i \in used : i \in Nat /\ i # 0
      BY <1>1
    <2>1. 0 \in 0..(u - 1)
      BY <2>0
    <2>2. {i \in used : i <= 0} = {}
      <3>1. \A i \in used : ~(i <= 0)
        BY <2>0
      <3> QED BY <3>1, Zenon
    <2>3. GapReached(used, stopGap, 0)
      BY <2>2 DEF GapReached
    <2> QED BY <1>2, <2>1, <2>3
  <1>4. ASSUME NEW v \in used, 0 < v, v <= u
        PROVE  \E w \in used : w < v /\ v - w <= stopGap + 1
    <2> DEFINE j == v - 1
               active == {i \in used : i <= j}
               a == Max(active)
               sum == a + stopGap
    <2>1. j \in Nat /\ j \in 0..(u - 1)
      BY <1>1, <1>4
    <2> HIDE DEF j
    <2>2. active \in SUBSET (0..j) /\ 0 \in active
      <3>1. \A i \in active : i \in Nat /\ i <= j
        BY <1>1
      <3>2. \A i \in active : i \in 0..j
        BY <2>1, <3>1
      <3>3. 0 \in active
        BY <1>3, <2>1
      <3> HIDE DEF active
      <3> QED BY <3>2, <3>3
    <2>3. a \in active
      <3> HIDE DEF active
      <3> QED BY <2>1, <2>2, Greatest
    <2>4. GapReached(used, stopGap, j) <=> active = {} \/ j > sum % IndexBound
      BY DEF GapReached
    <2> HIDE DEF a
    <2>5. a \in used /\ a \in Nat /\ a <= j
      BY <1>1, <2>3
    <2>6. ~(j > sum % IndexBound)
      BY <1>2, <2>1, <2>4
    <2>7. sum \in Nat
      BY <1>1, <2>5
    <2> HIDE DEF sum, active
    <2>8. sum % IndexBound \in Nat /\ sum % IndexBound <= sum
      BY <1>1, <2>7
    <2>9. j <= sum
      <3> DEFINE wrapped == sum % IndexBound
      <3>1. wrapped \in Nat /\ wrapped <= sum /\ ~(j > wrapped)
        BY <2>6, <2>8
      <3> HIDE DEF wrapped
      <3> QED BY <2>1, <2>7, <3>1
    <2> QED BY <1>1, <2>1, <2>5, <2>7, <2>9 DEF j, sum
  <1> QED BY <1>3, <1>4

(* An address in use is found if and only if no gap comes before it, an    *)
(* unused first address included (update_tx_graph, async_ext.rs:211-240);  *)
(* only the if needs that no index before it overflows with stopGap.       *)
THEOREM FoundUpToGapCorrect == Spec => []FoundUpToGap
  <1>1. RightAnswer => FoundUpToGap
    <2> SUFFICES ASSUME RightAnswer, Answered("scan"), NEW u \in call.used
                 PROVE  /\ u \in reply[1] => NoGapBefore(u)
                        /\ /\ NoGapBefore(u)
                           /\ \A v \in call.used : v < u => v + call.stopGap < IndexBound
                           => u \in reply[1]
      BY DEF FoundUpToGap
    <2>1. call \in ScanCalls /\ call.kind = "scan" /\ reply[1] = Computed
      BY KindOfCall DEF Answered
    <2>2. reply[1] = Scanned(call.used, Addresses, call.stopGap)
      BY <2>1 DEF Computed
    <2>3. call.used \in SUBSET (0..(Addresses - 1)) /\ call.stopGap \in 1..(IndexBound - 1)
      BY <2>1 DEF ScanCalls
    <2>4. u \in reply[1] => NoGapBefore(u)
      BY <2>2, <2>3, ScanStops DEF NoGapBefore
    <2>5. NoGapBefore(u) /\ (\A v \in call.used : v < u => v + call.stopGap < IndexBound)
            => u \in reply[1]
      BY <2>2, <2>3, ScanReaches DEF NoGapBefore
    <2> QED BY <2>4, <2>5
  <1> QED BY <1>1, AnswersRight, PTL

-----------------------------------------------------------------------------
(* The chains of the server.                                               *)

(* A chain whose last reorg is number fork: blocks of later reorgs are     *)
(* above those of earlier ones.                                            *)
IsChain(chain, fork) ==
    /\ chain \in Seq(Nat)
    /\ \A i \in 1..Len(chain) : chain[i] <= fork
    /\ \A i, j \in 1..Len(chain) : i <= j => chain[i] <= chain[j]

(* What a reorg leaves alone.                                              *)
LEMMA LaterChain ==
  ASSUME NEW chain, NEW old \in Nat, NEW fork \in Nat, IsChain(chain, old), old <= fork,
         NEW later \in Later(chain, fork)
  PROVE  /\ IsChain(later, fork)
         /\ Len(later) >= Len(chain)
         /\ \A i \in 1..Len(chain) : i <= Len(chain) - FinalDepth => later[i] = chain[i]
  <1>1. PICK r \in Reorgs :
          later = SubSeq(chain, 1, Len(chain) - r.gone) \o [n \in 1..r.new |-> fork]
    BY DEF Later
  <1> DEFINE L == Len(chain)
             gone == r.gone
             new == r.new
             keep == L - gone
             K == IF keep >= 1 THEN keep ELSE 0
             front == SubSeq(chain, 1, keep)
             top == [n \in 1..new |-> fork]
  <1>2. /\ gone \in 0..FinalDepth /\ new \in 0..(FinalDepth + 2)
        /\ gone = 0 \/ new > gone
    BY <1>1 DEF Reorgs
  <1>3. FinalDepth \in Nat
    BY MempoolExtAssumption
  <1>4. chain \in Seq(Nat) /\ L \in Nat
    BY DEF IsChain
  <1>5. later = front \o top
    BY <1>1
  <1> HIDE DEF gone, new, L
  <1>6. /\ keep \in Int /\ K \in Nat /\ new \in Nat
        /\ K <= L /\ K + new >= L /\ L - FinalDepth <= K
    BY <1>2, <1>3, <1>4
  <1>7. front \in Seq(Nat) /\ Len(front) = K /\ \A i \in 1..K : front[i] = chain[i]
    <2>1. CASE keep >= 1
      BY <1>4, <1>6, <2>1 DEF L
    <2>2. CASE ~(keep >= 1)
      BY <1>4, <1>6, <2>2 DEF L
    <2> QED BY <2>1, <2>2
  <1>8. top \in Seq(Nat) /\ Len(top) = new /\ \A n \in 1..new : top[n] = fork
    BY <1>6
  <1> HIDE DEF keep, K, front, top
  <1>9. /\ later \in Seq(Nat) /\ Len(later) = K + new
        /\ \A i \in 1..(K + new) : later[i] = IF i <= K THEN front[i] ELSE top[i - K]
    <2>1. later \in Seq(Nat)
      BY <1>5, <1>7, <1>8
    <2>2. Len(later) = K + new
      <3>1. \A s, t \in Seq(Nat) : Len(s \o t) = Len(s) + Len(t)
        OBVIOUS
      <3> QED BY <1>5, <1>7, <1>8, <3>1
    <2>3. \A i \in 1..(K + new) : later[i] = IF i <= K THEN front[i] ELSE top[i - K]
      BY <1>5, <1>7, <1>8
    <2> QED BY <2>1, <2>2, <2>3
  <1>10. \A i \in 1..(K + new) : later[i] = IF i <= K THEN chain[i] ELSE fork
    <2> SUFFICES ASSUME NEW i \in 1..(K + new)
                 PROVE  later[i] = IF i <= K THEN chain[i] ELSE fork
      OBVIOUS
    <2>1. CASE i <= K
      <3>1. i \in 1..K
        BY <1>6, <2>1
      <3> QED BY <1>7, <1>9, <2>1, <3>1
    <2>2. CASE ~(i <= K)
      <3>1. i - K \in 1..new
        BY <1>6, <2>2
      <3> QED BY <1>8, <1>9, <2>2, <3>1
    <2> QED BY <2>1, <2>2
  <1>11. /\ \A i \in 1..L : chain[i] \in Nat /\ chain[i] <= fork
         /\ \A i, j \in 1..L : i <= j => chain[i] <= chain[j]
    <2>1. \A i \in 1..L : chain[i] \in Nat /\ chain[i] <= old
      BY <1>4 DEF IsChain, L
    <2>2. \A i \in 1..L : chain[i] \in Nat /\ chain[i] <= fork
      BY <2>1
    <2> QED BY <2>2 DEF IsChain, L
  <1>12. \A i \in 1..K : i \in 1..L
    BY <1>4, <1>6
  <1>13. \A i \in 1..(K + new) : later[i] \in Nat /\ later[i] <= fork
    BY <1>6, <1>10, <1>11, <1>12
  <1>14. \A i, j \in 1..(K + new) : i <= j => later[i] <= later[j]
    <2> SUFFICES ASSUME NEW i \in 1..(K + new), NEW j \in 1..(K + new), i <= j
                 PROVE  later[i] <= later[j]
      OBVIOUS
    <2>1. CASE j <= K
      <3>1. i \in 1..L /\ j \in 1..L /\ i <= K
        BY <1>6, <1>12, <2>1
      <3> QED BY <1>10, <1>11, <2>1, <3>1
    <2>2. CASE ~(j <= K)
      <3>1. later[j] = fork
        BY <1>10, <2>2
      <3> QED BY <1>13, <3>1
    <2> QED BY <2>1, <2>2
  <1>15. IsChain(later, fork)
    BY <1>9, <1>13, <1>14 DEF IsChain
  <1>16. \A i \in 1..L : i <= L - FinalDepth => later[i] = chain[i]
    <2> SUFFICES ASSUME NEW i \in 1..L, i <= L - FinalDepth PROVE later[i] = chain[i]
      OBVIOUS
    <2>1. i <= K /\ i \in 1..(K + new)
      BY <1>3, <1>4, <1>6
    <2> QED BY <1>10, <2>1
  <1> QED BY <1>4, <1>6, <1>9, <1>15, <1>16 DEF L

(* The two chains of the server during a call: the second is as long, they *)
(* differ in the last FinalDepth blocks at most, and both have the blocks  *)
(* that are final under the local tip.                                     *)
Observed(server) ==
    /\ IsChain(server.height, 2) /\ IsChain(server.later, 2)
    /\ server.blocks \in {server.height, server.later}
    /\ Len(server.height) > LocalTip
    /\ Len(server.later) >= Len(server.height)
    /\ \A i \in 1..Len(server.height) :
          i <= Len(server.height) - FinalDepth => server.later[i] = server.height[i]
    /\ \A i \in 1..(LocalTip + 1 - FinalDepth) : server.height[i] = 0

LEMMA ChainCall ==
  ASSUME NEW c \in ChainCalls
  PROVE  /\ Observed(c.server)
         /\ DOMAIN c.local \in SUBSET (0..LocalTip)
         /\ \A h \in DOMAIN c.local : c.local[h] = 0
         /\ c.requested \in SUBSET Nat
  <1>0. LocalTip \in Nat /\ FinalDepth \in Nat
    BY RequestsAssumption, MempoolExtAssumption
  <1>1. PICK before \in Later(FirstChain, 1) :
          c \in UNION {[kind : {"chain"}, server : Servers(before, after), local : Locals,
                        requested : {{}} \cup {{h} : h \in 0..(LocalTip + 1)}] :
                          after \in Later(before, 2)}
    BY DEF ChainCalls
  <1>2. PICK after \in Later(before, 2) :
          c \in [kind : {"chain"}, server : Servers(before, after), local : Locals,
                 requested : {{}} \cup {{h} : h \in 0..(LocalTip + 1)}]
    BY <1>1
  <1>3. /\ c.server \in Servers(before, after) /\ c.local \in Locals
        /\ c.requested \in {{}} \cup {{h} : h \in 0..(LocalTip + 1)}
    BY <1>2
  <1>4. c.requested \in SUBSET Nat
    BY <1>0, <1>3
  <1>5. DOMAIN c.local \in SUBSET (0..LocalTip) /\ \A h \in DOMAIN c.local : c.local[h] = 0
    <2>1. PICK heights \in SUBSET (0..LocalTip) : c.local \in [heights -> {0}]
      BY <1>3 DEF Locals
    <2> QED BY <2>1
  <1>6. /\ FirstChain \in Seq(Nat) /\ Len(FirstChain) = LocalTip + 1
        /\ \A i \in 1..(LocalTip + 1) : FirstChain[i] = 0
    BY <1>0 DEF FirstChain
  <1>7. IsChain(FirstChain, 0)
    BY <1>0, <1>6 DEF IsChain
  <1> DEFINE zero == 0
             one == 1
             two == 2
  <1>8. zero \in Nat /\ one \in Nat /\ two \in Nat /\ zero <= one /\ one <= two
    OBVIOUS
  <1>9. IsChain(FirstChain, zero) /\ before \in Later(FirstChain, one)
    BY <1>7
  <1>10. after \in Later(before, two)
    OBVIOUS
  <1> HIDE DEF zero, one, two
  <1>11. /\ IsChain(before, one)
         /\ Len(before) >= Len(FirstChain)
         /\ \A i \in 1..Len(FirstChain) :
               i <= Len(FirstChain) - FinalDepth => before[i] = FirstChain[i]
    BY <1>8, <1>9, LaterChain
  <1>12. /\ IsChain(after, two)
         /\ Len(after) >= Len(before)
         /\ \A i \in 1..Len(before) : i <= Len(before) - FinalDepth => after[i] = before[i]
    BY <1>8, <1>10, <1>11, LaterChain
  <1>13. IsChain(before, two)
    <2>1. \A i \in 1..Len(before) : before[i] \in Nat /\ before[i] <= one
      BY <1>11 DEF IsChain
    <2>2. \A i \in 1..Len(before) : before[i] <= two
      BY <1>8, <2>1
    <2> QED BY <1>11, <2>2 DEF IsChain
  <1>14. Len(before) \in Nat
    BY <1>11 DEF IsChain
  <1>15. \A i \in 1..(LocalTip + 1 - FinalDepth) : before[i] = 0
    <2> SUFFICES ASSUME NEW i \in 1..(LocalTip + 1 - FinalDepth) PROVE before[i] = 0
      OBVIOUS
    <2>1. i \in 1..(LocalTip + 1) /\ i <= (LocalTip + 1) - FinalDepth
      BY <1>0
    <2> QED BY <1>6, <1>11, <2>1
  <1>16. /\ c.server.height = before /\ c.server.later = after
         /\ c.server.blocks \in {before, after}
    BY <1>3 DEF Servers
  <1>17. Len(before) > LocalTip
    BY <1>0, <1>6, <1>11, <1>14
  <1>18. Observed(c.server)
    BY <1>12, <1>13, <1>15, <1>16, <1>17 DEF Observed, two
  <1> QED BY <1>4, <1>5, <1>18
-----------------------------------------------------------------------------
(* The update of the local chain.                                          *)

(* Everything that was fetched, and every hash that a local checkpoint is  *)
(* compared with, is on one of the two chains.                             *)
OnChain(chain, fetched, server, local) ==
    /\ \A h \in DOMAIN fetched : fetched[h] = BlockHash(chain, h)
    /\ \A h \in DOMAIN local : UpdatedHash(server, fetched, local, h) = BlockHash(chain, h)

LEMMA OneChain ==
  ASSUME Window >= FinalDepth, NEW server, Observed(server),
         NEW local, DOMAIN local \in SUBSET (0..LocalTip), \A h \in DOMAIN local : local[h] = 0,
         NEW requested \in SUBSET Nat
  PROVE  LET fetched == FetchedBlocks(server, requested)
         IN /\ DOMAIN fetched \in SUBSET (0..Height(server.height))
            /\ \A h \in requested : h <= Height(server.height) => h \in DOMAIN fetched
            /\ \E chain \in {server.height, server.later} : OnChain(chain, fetched, server, local)
  <1> DEFINE tip == Height(server.height)
             recent == {g \in 0..tip : g > tip - Window}
             asked == {r \in requested : r <= tip}
             fetched == FetchedBlocks(server, requested)
             H == Len(server.height)
             N == Len(server.later)
  <1>1. /\ LocalTip \in Nat /\ FinalDepth \in Nat /\ Window \in Nat
        /\ Window >= FinalDepth
    BY RequestsAssumption, MempoolExtAssumption
  <1>2. /\ H \in Nat /\ N \in Nat /\ H > LocalTip /\ N >= H /\ tip = H - 1
    <2>1. server.height \in Seq(Nat) /\ server.later \in Seq(Nat)
      BY DEF Observed, IsChain
    <2>2. H > LocalTip /\ N >= H
      BY DEF Observed
    <2> QED BY <2>1, <2>2 DEF Height
  <1>3. /\ DOMAIN fetched = recent \cup asked
        /\ \A h \in recent : fetched[h] = BlockHash(server.blocks, h)
        /\ \A h \in asked : h \notin recent => fetched[h] = BlockHash(server.later, h)
    <2> DEFINE window == RecentBlocks(server.blocks, tip)
    <2>1. window = [h \in recent |-> BlockHash(server.blocks, h)]
      BY DEF RecentBlocks
    <2>2. fetched = [h \in DOMAIN window \cup asked |->
                        IF h \in DOMAIN window THEN window[h] ELSE BlockHash(server.later, h)]
      BY DEF FetchedBlocks
    <2> HIDE DEF window, fetched, recent, asked
    <2>3. DOMAIN window = recent /\ \A h \in recent : window[h] = BlockHash(server.blocks, h)
      BY <2>1
    <2> QED BY <2>2, <2>3
  <1>4. \A h \in recent \cup asked : h \in 0..tip
    BY <1>2
  <1>5. \A h \in asked : h \notin recent => h <= tip - FinalDepth
    BY <1>1, <1>2, <1>4
  <1> HIDE DEF fetched, recent, tip, H, N
  <1>6. ASSUME NEW h \in 0..tip, h <= tip - FinalDepth
        PROVE  BlockHash(server.later, h) = BlockHash(server.height, h)
    <2>1. h + 1 \in 1..H /\ h + 1 <= H - FinalDepth
      BY <1>1, <1>2, <1>6
    <2> QED BY <2>1 DEF Observed, BlockHash, H
  <1>7. ASSUME NEW h \in 0..LocalTip, h <= LocalTip - FinalDepth
        PROVE  BlockHash(server.height, h) = 0 /\ BlockHash(server.later, h) = 0
    <2>1. h + 1 \in 1..(LocalTip + 1 - FinalDepth)
      BY <1>1, <1>7
    <2>2. BlockHash(server.height, h) = 0
      BY <2>1 DEF Observed, BlockHash
    <2>3. h \in 0..tip /\ h <= tip - FinalDepth
      BY <1>1, <1>2, <1>7
    <2> QED BY <1>6, <2>2, <2>3
  <1>8. /\ DOMAIN local \in SUBSET (0..tip)
        /\ \A h \in DOMAIN local : h \in 0..LocalTip /\ h \in 0..tip
    BY <1>1, <1>2
  <1>9. ASSUME NEW h \in DOMAIN local
        PROVE  \/ h \in DOMAIN fetched /\ UpdatedHash(server, fetched, local, h) = fetched[h]
               \/ /\ h <= LocalTip - FinalDepth
                  /\ UpdatedHash(server, fetched, local, h) = 0
               \/ /\ h \notin DOMAIN fetched
                  /\ UpdatedHash(server, fetched, local, h) = BlockHash(server.later, h)
    <2> DEFINE top == Max(DOMAIN local)
    <2>1. top \in 0..LocalTip
      BY <1>1, Greatest
    <2>2. local[h] = 0
      OBVIOUS
    <2>3. UpdatedHash(server, fetched, local, h) =
            IF h \in DOMAIN fetched THEN fetched[h]
            ELSE IF top - h >= FinalDepth THEN local[h] ELSE BlockHash(server.later, h)
      BY DEF UpdatedHash
    <2> HIDE DEF top
    <2>4. top - h >= FinalDepth => h <= LocalTip - FinalDepth
      BY <1>1, <1>8, <2>1
    <2> QED BY <2>2, <2>3, <2>4
  <1>10. \A h \in 0..tip : h \notin recent => h <= tip - FinalDepth
    BY <1>1, <1>2 DEF recent
  <1>11. CASE server.blocks = server.later
    <2>1. \A h \in DOMAIN fetched : fetched[h] = BlockHash(server.later, h)
      BY <1>3, <1>11
    <2>2. \A h \in DOMAIN local : UpdatedHash(server, fetched, local, h) = BlockHash(server.later, h)
      BY <1>7, <1>8, <1>9, <2>1
    <2> QED BY <1>3, <1>4, <2>1, <2>2 DEF OnChain, fetched, tip
  <1>12. CASE server.blocks = server.height
    <2>1. \A h \in DOMAIN fetched : fetched[h] = BlockHash(server.height, h)
      BY <1>3, <1>4, <1>5, <1>6, <1>12
    <2>2. \A h \in DOMAIN local : UpdatedHash(server, fetched, local, h) = BlockHash(server.height, h)
      BY <1>3, <1>6, <1>7, <1>8, <1>9, <1>10, <2>1
    <2> QED BY <1>3, <1>4, <2>1, <2>2 DEF OnChain, fetched, tip
  <1> QED BY <1>11, <1>12 DEF Observed
(* The update when the answers are on one chain: it has the local          *)
(* checkpoints, the heights that were asked for where a local checkpoint   *)
(* is below them, and only blocks of that chain.  A checkpoint that agrees *)
(* vouches for those below it, because blocks that are older than a reorg  *)
(* are below those that it brought.                                        *)
LEMMA UpdateOnChain ==
  ASSUME NEW server, NEW chain, IsChain(chain, 2),
         NEW tip \in Nat, tip < Len(chain), LocalTip <= tip,
         NEW local, DOMAIN local \in SUBSET (0..LocalTip), \A h \in DOMAIN local : local[h] = 0,
         NEW requested,
         DOMAIN FetchedBlocks(server, requested) \in SUBSET (0..tip),
         OnChain(chain, FetchedBlocks(server, requested), server, local)
  PROVE  LET update == UpdateLocalChain(server, local, requested)
         IN /\ \A h \in DOMAIN update : update[h] = BlockHash(chain, h)
            /\ DOMAIN local \subseteq DOMAIN update
            /\ \A h \in DOMAIN FetchedBlocks(server, requested) :
                  (\E g \in DOMAIN local : g <= h) => h \in DOMAIN update
  <1> DEFINE fetched == FetchedBlocks(server, requested)
             visited == Visited(server, fetched, local)
             agreed == {h \in visited : Agrees(server, fetched, local, h)}
             kept == IF agreed = {} THEN {} ELSE {h \in DOMAIN local : h <= Min(agreed)}
             added == {g \in DOMAIN fetched \cup visited : agreed # {} => g > Min(agreed)}
             update == UpdateLocalChain(server, local, requested)
             ends == {h \in DOMAIN local : EndsWalk(server, fetched, local, h)}
  <1>1. update = [h \in kept \cup added |->
                    IF h \in kept THEN local[h]
                    ELSE IF h \in DOMAIN fetched THEN fetched[h]
                    ELSE UpdatedHash(server, fetched, local, h)]
    BY DEF UpdateLocalChain
  <1>2. /\ LocalTip \in Nat
        /\ DOMAIN fetched \in SUBSET (0..tip) /\ DOMAIN local \in SUBSET (0..LocalTip)
        /\ OnChain(chain, fetched, server, local)
    BY RequestsAssumption
  <1>3. /\ visited \in SUBSET (DOMAIN local)
        /\ \A h \in DOMAIN local : h \in visited <=> \A g \in ends : ~(g > h)
    BY DEF Visited
  <1>4. \A h \in ends : Agrees(server, fetched, local, h) /\ \A n \in DOMAIN fetched : n >= h
    BY DEF EndsWalk
  <1> HIDE DEF fetched, visited, ends
  <1>5. \A h \in DOMAIN local : Agrees(server, fetched, local, h) <=> BlockHash(chain, h) = 0
    BY <1>2 DEF Agrees, OnChain
  <1>6. agreed # {} => /\ Min(agreed) \in agreed
                       /\ \A x \in agreed : Min(agreed) <= x
    <2>1. agreed \in SUBSET (0..LocalTip)
      BY <1>2, <1>3
    <2> HIDE DEF agreed
    <2> QED BY <1>2, <2>1, Greatest
  <1>7. \A h \in agreed : h \in DOMAIN local /\ h \in visited /\ BlockHash(chain, h) = 0
    BY <1>3, <1>5
  <1>8. \A h \in DOMAIN local : h \in visited /\ BlockHash(chain, h) = 0 => h \in agreed
    BY <1>5
  <1>9. ASSUME NEW h \in 0..tip, NEW g \in 0..tip, h <= g, BlockHash(chain, g) = 0
        PROVE  BlockHash(chain, h) = 0
    <2>1. h + 1 \in 1..Len(chain) /\ g + 1 \in 1..Len(chain) /\ h + 1 <= g + 1
      BY <1>9 DEF IsChain
    <2>2. chain[h + 1] <= chain[g + 1] /\ chain[g + 1] = 0 /\ chain[h + 1] \in Nat
      BY <1>9, <2>1 DEF BlockHash, IsChain
    <2>3. chain[h + 1] = 0
      <3> DEFINE block == chain[h + 1]
      <3> HIDE DEF block
      <3> QED BY <2>2 DEF block
    <2> QED BY <2>3 DEF BlockHash
  <1>10. \A h \in DOMAIN local : h \in Nat /\ h \in 0..tip
    BY <1>2
  <1> HIDE DEF agreed
  <1> DEFINE m == Min(agreed)
  <1>11. agreed # {} => /\ m \in agreed /\ m \in DOMAIN local /\ m \in visited
                        /\ m \in 0..tip /\ BlockHash(chain, m) = 0
                        /\ \A x \in agreed : m <= x
    BY <1>6, <1>7, <1>10
  <1>12. /\ agreed # {} => kept = {h \in DOMAIN local : h <= m}
         /\ agreed = {} => kept = {}
         /\ added = {g \in DOMAIN fetched \cup visited : agreed # {} => g > m}
    OBVIOUS
  <1> HIDE DEF m, kept, added, update
  <1>13. ASSUME NEW h \in kept \cup added PROVE update[h] = BlockHash(chain, h)
    <2>1. CASE h \in kept
      <3>1. agreed # {} /\ h \in DOMAIN local /\ h <= m
        BY <1>12, <2>1
      <3>2. BlockHash(chain, h) = 0
        BY <1>9, <1>10, <1>11, <3>1
      <3> QED BY <1>1, <2>1, <3>1, <3>2
    <2>2. CASE h \notin kept /\ h \in DOMAIN fetched
      BY <1>1, <1>2, <2>2 DEF OnChain
    <2>3. CASE h \notin kept /\ h \notin DOMAIN fetched
      <3>1. h \in DOMAIN local
        BY <1>3, <1>12, <2>3
      <3> QED BY <1>1, <1>2, <2>3, <3>1 DEF OnChain
    <2> QED BY <2>1, <2>2, <2>3
  <1>14. DOMAIN update = kept \cup added
    BY <1>1
  (* The walk ends above a checkpoint only after one that agrees.          *)
  <1>15. ends # {} => agreed # {}
    <2> SUFFICES ASSUME ends # {} PROVE agreed # {}
      OBVIOUS
    <2> DEFINE last == Max(ends)
    <2>1. ends \in SUBSET (0..LocalTip) /\ ends \in SUBSET (DOMAIN local)
      BY <1>2 DEF ends
    <2>2. last \in ends /\ \A x \in ends : x <= last
      BY <1>2, <2>1, Greatest
    <2> HIDE DEF last
    <2>3. \A x \in ends : ~(x > last)
      BY <1>2, <2>1, <2>2
    <2>4. last \in visited
      BY <1>3, <2>1, <2>2, <2>3
    <2>5. BlockHash(chain, last) = 0
      BY <1>4, <1>5, <2>1, <2>2
    <2> QED BY <1>8, <2>1, <2>2, <2>4, <2>5
  <1>16. ASSUME NEW h \in DOMAIN local PROVE h \in kept \cup added
    <2>1. CASE agreed = {}
      <3>1. h \in visited
        BY <1>3, <1>15, <2>1
      <3> QED BY <1>12, <2>1, <3>1
    <2>2. CASE agreed # {} /\ h <= m
      BY <1>12, <2>2
    <2>3. CASE agreed # {} /\ ~(h <= m)
      <3>1. m \in Nat /\ h \in Nat /\ h > m
        BY <1>10, <1>11, <2>3
      <3>2. \A g \in ends : ~(g > m) /\ g \in Nat
        <4>1. \A g \in ends : g \in DOMAIN local
          BY DEF ends
        <4> QED BY <1>3, <1>10, <1>11, <2>3, <4>1
      <3>3. \A g \in ends : ~(g > h)
        BY <3>1, <3>2
      <3>4. h \in visited
        BY <1>3, <3>3
      <3> QED BY <1>12, <3>1, <3>4
    <2> QED BY <2>1, <2>2, <2>3
  <1>17. ASSUME NEW h \in DOMAIN fetched, NEW g0 \in DOMAIN local, g0 <= h
         PROVE  h \in kept \cup added
    <2> SUFFICES ASSUME agreed # {}, ~(h > m), h \notin DOMAIN local PROVE FALSE
      BY <1>12, <1>16
    <2> DEFINE below == {g \in DOMAIN local : g <= h}
               g == Max(below)
    <2>1. below \in SUBSET (0..LocalTip) /\ g0 \in below
      BY <1>2, <1>17
    <2>2. g \in below /\ \A x \in below : x <= g
      <3> HIDE DEF below
      <3> QED BY <1>2, <2>1, Greatest
    <2> HIDE DEF g
    <2>3. /\ g \in DOMAIN local /\ g \in Nat /\ h \in Nat /\ m \in Nat
          /\ g < h /\ h <= m /\ g \in 0..tip /\ m \in 0..tip
      <3>1. g \in DOMAIN local /\ g <= h /\ g # h
        BY <2>2
      <3>2. g \in Nat /\ g \in 0..tip
        BY <1>10, <3>1
      <3>3. h \in Nat /\ m \in Nat /\ m \in 0..tip
        BY <1>2, <1>11
      <3> QED BY <3>1, <3>2, <3>3
    <2>4. \A x \in ends : ~(x > g)
      <3> SUFFICES ASSUME NEW x \in ends, x > g PROVE FALSE
        OBVIOUS
      <3>1. x \in DOMAIN local /\ x \in Nat
        BY <1>10 DEF ends
      <3>2. h >= x
        BY <1>4
      <3>3. x \in below
        BY <2>3, <3>1, <3>2
      <3>4. x <= g
        BY <2>2, <3>3
      <3> QED BY <2>3, <3>1, <3>4
    <2>5. g \in visited
      BY <1>3, <2>3, <2>4
    <2>6. BlockHash(chain, g) = 0
      <3>1. g <= m
        BY <2>3
      <3> QED BY <1>9, <1>11, <2>3, <3>1
    <2>7. m <= g
      BY <1>8, <1>11, <2>3, <2>5, <2>6
    <2> QED BY <2>3, <2>7
  <1> QED BY <1>13, <1>14, <1>16, <1>17 DEF update, fetched

LEMMA ChainAnswer ==
  ASSUME Window >= FinalDepth, RightAnswer, Answered("chain")
  PROVE  /\ \E chain \in {call.server.height, call.server.later} :
               \A h \in DOMAIN reply[1] : reply[1][h] = BlockHash(chain, h)
         /\ DOMAIN call.local \subseteq DOMAIN reply[1]
         /\ \A h \in call.requested :
               h \in 0..Height(call.server.height) /\ (\E g \in DOMAIN call.local : g <= h)
                  => h \in DOMAIN reply[1]
  <1> DEFINE server == call.server
             local == call.local
             requested == call.requested
             fetched == FetchedBlocks(server, requested)
             tip == Height(server.height)
  <1>1. call \in ChainCalls /\ call.kind = "chain" /\ reply[1] = Computed
    BY KindOfCall DEF Answered
  <1>2. reply[1] = UpdateLocalChain(server, local, requested)
    BY <1>1 DEF Computed
  <1>3. /\ Observed(server)
        /\ DOMAIN local \in SUBSET (0..LocalTip) /\ \A h \in DOMAIN local : local[h] = 0
        /\ requested \in SUBSET Nat
    BY <1>1, ChainCall
  <1> HIDE DEF server, local, requested
  <1>4. /\ DOMAIN fetched \in SUBSET (0..tip)
        /\ \A h \in requested : h <= tip => h \in DOMAIN fetched
        /\ \E chain \in {server.height, server.later} : OnChain(chain, fetched, server, local)
    BY <1>3, OneChain
  <1>5. PICK chain \in {server.height, server.later} : OnChain(chain, fetched, server, local)
    BY <1>4
  <1>6. /\ IsChain(chain, 2)
        /\ tip \in Nat /\ tip < Len(chain) /\ LocalTip <= tip
    <2>1. server.height \in Seq(Nat) /\ server.later \in Seq(Nat)
      BY <1>3 DEF Observed, IsChain
    <2>2. /\ IsChain(chain, 2)
          /\ Len(server.height) > LocalTip /\ Len(server.later) >= Len(server.height)
      BY <1>3 DEF Observed
    <2>3. LocalTip \in Nat
      BY RequestsAssumption
    <2>4. Len(server.height) \in Nat /\ Len(server.later) \in Nat
      BY <2>1
    <2>5. tip = Len(server.height) - 1
      BY DEF Height
    <2>6. Len(chain) = Len(server.height) \/ Len(chain) = Len(server.later)
      OBVIOUS
    <2> HIDE DEF tip
    <2> QED BY <2>2, <2>3, <2>4, <2>5, <2>6
  <1> HIDE DEF tip
  <1>7. /\ \A h \in DOMAIN reply[1] : reply[1][h] = BlockHash(chain, h)
        /\ DOMAIN local \subseteq DOMAIN reply[1]
        /\ \A h \in DOMAIN fetched :
              (\E g \in DOMAIN local : g <= h) => h \in DOMAIN reply[1]
    <2> DEFINE update == UpdateLocalChain(server, local, requested)
    <2>1. /\ \A h \in DOMAIN update : update[h] = BlockHash(chain, h)
          /\ DOMAIN local \subseteq DOMAIN update
          /\ \A h \in DOMAIN FetchedBlocks(server, requested) :
                (\E g \in DOMAIN local : g <= h) => h \in DOMAIN update
      <3>1. DOMAIN FetchedBlocks(server, requested) \in SUBSET (0..tip)
        BY <1>4
      <3>2. DOMAIN local \in SUBSET (0..LocalTip) /\ \A h \in DOMAIN local : local[h] = 0
        BY <1>3
      <3>3. OnChain(chain, FetchedBlocks(server, requested), server, local)
        BY <1>5
      <3> QED BY <1>6, <3>1, <3>2, <3>3, UpdateOnChain
    <2> HIDE DEF update
    <2> QED BY <1>2, <2>1 DEF update
  <1>8. \A h \in requested : h \in 0..tip => h \in DOMAIN fetched
    BY <1>4, <1>6
  <1> HIDE DEF fetched
  <1> QED BY <1>7, <1>8 DEF server, local, requested, tip

(* However the server reorganises its chain between the requests of one    *)
(* call, the update of a local chain is on one of the chains that it had   *)
(* (update_local_chain, async_ext.rs:95-203), as long as get_blocks        *)
(* answers with the blocks down to ASSUME_FINAL_DEPTH.                     *)
THEOREM UpdateIsOneChainCorrect ==
  ASSUME Window >= FinalDepth PROVE Spec => []UpdateIsOneChain
  <1>1. RightAnswer => UpdateIsOneChain
    BY ChainAnswer DEF UpdateIsOneChain
  <1> QED BY <1>1, AnswersRight, PTL

(* Under the same condition it has each local checkpoint, and each height  *)
(* asked for that has one below.                                           *)
THEOREM NothingLeftOutCorrect ==
  ASSUME Window >= FinalDepth PROVE Spec => []NothingLeftOut
  <1>1. RightAnswer => NothingLeftOut
    BY ChainAnswer DEF NothingLeftOut
  <1> QED BY <1>1, AnswersRight, PTL
=============================================================================
