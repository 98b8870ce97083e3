--------------------------- MODULE HistoryLemmas ---------------------------
(***************************************************************************)
(* What the operators of History return, for every list and every page     *)
(* size: lemmas for the state machines that fetch a history.               *)
(***************************************************************************)
EXTENDS History, TrackerLemmas

-----------------------------------------------------------------------------
(* The order of the server's list.                                         *)

(* TxBefore is a strict total order on the versions of transactions.       *)
LEMMA TxBeforeOrder ==
  /\ \A a \in Tx : ~TxBefore(a, a)
  /\ \A a, b \in Tx : a # b => TxBefore(a, b) \/ TxBefore(b, a)
  /\ \A a, b, c \in Tx : TxBefore(a, b) /\ TxBefore(b, c) => TxBefore(a, c)
  <1>1. \A a \in Tx : a.txid \in Nat /\ a.height \in Nat
    BY TrackerAssumption, VersionType DEF Tx
  <1>2. \A a, b \in Tx : a.txid = b.txid /\ a.height = b.height => a = b
    BY DEF Tx
  <1> QED BY <1>1, <1>2 DEF TxBefore, Confirmed, Unconfirmed

(* list has each transaction of txs once, and newer ones before older ones.*)
IsNewestFirst(list, txs) ==
    /\ list \in Seq(txs)
    /\ \A tx \in txs : \E i \in 1..Len(list) : list[i] = tx
    /\ \A i, j \in 1..Len(list) : i < j => TxBefore(list[j], list[i])

(* NewestFirst gives such a list: the number of newer transactions tells   *)
(* the place of each.                                                      *)
LEMMA NewestFirstSorts ==
  ASSUME NEW txs \in SUBSET Tx, IsFiniteSet(txs)
  PROVE  IsNewestFirst(NewestFirst(txs), txs)
  <1> DEFINE N == Cardinality(txs)
             newer(tx) == {other \in txs : TxBefore(tx, other)}
             rank == [tx \in txs |-> Cardinality(newer(tx))]
             list == NewestFirst(txs)
  <1>1. N \in Nat
    BY FS_CardinalityType
  <1>2. \A tx \in txs : IsFiniteSet(newer(tx)) /\ rank[tx] \in Nat
    <2>1. \A tx \in txs : newer(tx) \in SUBSET txs
      OBVIOUS
    <2>2. \A tx \in txs : IsFiniteSet(newer(tx))
      <3> HIDE DEF newer
      <3> QED BY <2>1, FS_Subset
    <2> QED BY <2>2, FS_CardinalityType
  <1>3. \A a, b \in txs : TxBefore(a, b) => rank[b] < rank[a]
    <2> SUFFICES ASSUME NEW a \in txs, NEW b \in txs, TxBefore(a, b)
                 PROVE  rank[b] < rank[a]
      OBVIOUS
    <2> DEFINE more == newer(b) \cup {b}
    <2>1. more \in SUBSET newer(a)
      BY TxBeforeOrder
    <2>2. b \notin newer(b)
      BY TxBeforeOrder
    <2>3. Cardinality(more) = Cardinality(newer(b)) + 1
      BY <1>2, <2>2, FS_AddElement
    <2> HIDE DEF more
    <2>4. Cardinality(more) <= Cardinality(newer(a))
      BY <1>2, <2>1, FS_Subset
    <2>5. rank[a] = Cardinality(newer(a)) /\ rank[b] = Cardinality(newer(b))
      OBVIOUS
    <2> HIDE DEF rank, newer
    <2> QED BY <1>2, <2>3, <2>4, <2>5
  <1>4. \A a, b \in txs : rank[a] = rank[b] => a = b
    <2> SUFFICES ASSUME NEW a \in txs, NEW b \in txs, a # b PROVE rank[a] # rank[b]
      OBVIOUS
    <2>1. TxBefore(a, b) \/ TxBefore(b, a)
      BY TxBeforeOrder
    <2>2. rank[b] < rank[a] \/ rank[a] < rank[b]
      BY <1>3, <2>1
    <2>3. rank[a] \in Nat /\ rank[b] \in Nat
      BY <1>2
    <2> HIDE DEF rank
    <2> QED BY <2>2, <2>3
  <1>5. ASSUME NEW tx \in txs PROVE rank[tx] \in 0..(N - 1)
    <2>1. newer(tx) \in SUBSET (txs \ {tx})
      BY TxBeforeOrder
    <2>2. IsFiniteSet(txs \ {tx}) /\ Cardinality(txs \ {tx}) = N - 1
      BY FS_RemoveElement
    <2>3. Cardinality(newer(tx)) <= N - 1
      <3> HIDE DEF newer, N
      <3> QED BY <2>1, <2>2, FS_Subset
    <2>4. rank[tx] \in Nat /\ rank[tx] <= N - 1
      BY <1>2, <2>3
    <2> HIDE DEF rank, N
    <2> QED BY <1>1, <2>4
  <1>6. \A n \in 0..(N - 1) : \E tx \in txs : rank[tx] = n
    <2>1. rank \in Injection(txs, 0..(N - 1))
      <3>1. rank \in [txs -> 0..(N - 1)]
        BY <1>5
      <3> HIDE DEF rank, N
      <3> QED BY <1>4, <3>1 DEF Injection, IsInjective
    <2>2. IsFiniteSet(0..(N - 1)) /\ Cardinality(0..(N - 1)) = N
      <3>1. 0 \in Int /\ N - 1 \in Int
        BY <1>1
      <3> HIDE DEF N
      <3> QED BY <1>1, <3>1, FS_Interval
    <2>3. rank \in Surjection(txs, 0..(N - 1))
      <3> HIDE DEF rank
      <3> QED BY <2>1, <2>2, FS_Injection
    <2> HIDE DEF rank, N
    <2> QED BY <2>3 DEF Surjection
  <1>7. /\ list = [i \in 1..N |-> list[i]]
        /\ \A i \in 1..N : list[i] = CHOOSE tx \in txs : rank[tx] = i - 1
    <2>1. list = [i \in 1..N |-> CHOOSE tx \in txs : Cardinality(newer(tx)) = i - 1]
      BY DEF NewestFirst
    <2>2. \A i : (CHOOSE tx \in txs : Cardinality(newer(tx)) = i - 1)
                   = (CHOOSE tx \in txs : rank[tx] = i - 1)
      OBVIOUS
    <2>3. \A i \in 1..N : list[i] = CHOOSE tx \in txs : Cardinality(newer(tx)) = i - 1
      <3> HIDE DEF newer, N, list
      <3> QED BY <2>1
    <2>4. list = [i \in 1..N |-> list[i]]
      <3> HIDE DEF newer, N, list
      <3> QED BY <2>1
    <2> HIDE DEF rank, newer, list, N
    <2> QED BY <2>2, <2>3, <2>4
  <1> HIDE DEF rank, list, N
  <1>8. \A i \in 1..N : list[i] \in txs /\ rank[list[i]] = i - 1
    <2> SUFFICES ASSUME NEW i \in 1..N PROVE list[i] \in txs /\ rank[list[i]] = i - 1
      OBVIOUS
    <2>1. i - 1 \in 0..(N - 1)
      BY <1>1
    <2>2. \E tx \in txs : rank[tx] = i - 1
      BY <1>6, <2>1
    <2>3. list[i] = CHOOSE tx \in txs : rank[tx] = i - 1
      BY <1>7
    <2> QED BY <2>2, <2>3
  <1>9. list \in Seq(txs) /\ Len(list) = N
    <2> QED BY <1>1, <1>7, <1>8
  <1>10. \A tx \in txs : \E i \in 1..N : list[i] = tx
    <2> SUFFICES ASSUME NEW tx \in txs PROVE \E i \in 1..N : list[i] = tx
      OBVIOUS
    <2>1. rank[tx] + 1 \in 1..N /\ (rank[tx] + 1) - 1 = rank[tx]
      BY <1>1, <1>5
    <2> QED BY <1>4, <1>8, <2>1
  <1>11. \A i, j \in 1..N : i < j => TxBefore(list[j], list[i])
    <2> SUFFICES ASSUME NEW i \in 1..N, NEW j \in 1..N, i < j
                 PROVE  TxBefore(list[j], list[i])
      OBVIOUS
    <2>1. /\ list[i] \in txs /\ list[j] \in txs
          /\ rank[list[i]] < rank[list[j]]
      BY <1>1, <1>8
    <2>2. /\ rank[list[i]] \in Nat /\ rank[list[j]] \in Nat
          /\ TxBefore(list[i], list[j]) => rank[list[j]] < rank[list[i]]
      BY <1>2, <1>3, <2>1
    <2>3. list[i] # list[j] /\ ~TxBefore(list[i], list[j])
      BY <2>1, <2>2
    <2> QED BY <2>1, <2>3, TxBeforeOrder
  <1> QED BY <1>9, <1>10, <1>11 DEF IsNewestFirst, list

-----------------------------------------------------------------------------
(* The pages.                                                              *)

(* How many entries of the list the first n pages have.                    *)
UpToPage(list, n) ==
    IF n * PageSize < Len(list) THEN n * PageSize ELSE Len(list)

(* Multiplication that the provers have to be told about.                  *)
LEMMA PageSizes ==
  /\ \A n \in Nat : n * PageSize \in Nat /\ n <= n * PageSize
  /\ \A n \in Nat : (n - 1) * PageSize = n * PageSize - PageSize
  /\ \A n, k \in Nat : k <= n => k * PageSize <= n * PageSize
  BY PageSizeAssumption

(* A page is the piece of the list between the pages before and after it.  *)
LEMMA PageEntries ==
  ASSUME NEW list \in Seq(Tx), NEW n \in Nat \ {0}
  PROVE  LET from == (n - 1) * PageSize
             page == Page(list, n)
         IN /\ page \in Seq(Tx)
            /\ Len(page) = IF from < Len(list) THEN UpToPage(list, n) - from ELSE 0
            /\ \A i \in 1..Len(page) : page[i] = list[from + i]
            /\ \A i \in 1..Len(page) : from + i \in 1..UpToPage(list, n)
            /\ UpToPage(list, n) \in 0..Len(list)
  <1> DEFINE from == (n - 1) * PageSize
             upto == UpToPage(list, n)
             page == Page(list, n)
  <1>1. /\ from \in Nat /\ n * PageSize \in Nat
        /\ n * PageSize = from + PageSize
        /\ PageSize \in Nat \ {0}
    <2>1. n - 1 \in Nat /\ n \in Nat
      OBVIOUS
    <2>2. (n - 1) * PageSize = n * PageSize - PageSize
      BY <2>1, PageSizes
    <2>3. (n - 1) * PageSize \in Nat /\ n * PageSize \in Nat
      BY <2>1, PageSizes
    <2>4. PageSize \in Nat \ {0}
      BY PageSizeAssumption
    <2> DEFINE np == n * PageSize
    <2> HIDE DEF np
    <2> QED BY <2>2, <2>3, <2>4 DEF np
  <1>2. Len(list) \in Nat
    OBVIOUS
  <1>3. page = SubSeq(list, from + 1, upto)
    BY DEF Page, UpToPage
  <1>4. upto = IF n * PageSize < Len(list) THEN n * PageSize ELSE Len(list)
    BY DEF UpToPage
  <1> DEFINE np == n * PageSize
  <1>5. np \in Nat /\ np = from + PageSize /\ upto = IF np < Len(list) THEN np ELSE Len(list)
    BY <1>1, <1>4
  <1> HIDE DEF from, upto, page, np
  <1>6. upto \in 0..Len(list)
    BY <1>1, <1>2, <1>5
  <1>7. /\ page \in Seq(Tx)
        /\ Len(page) = IF from + 1 <= upto THEN upto - from ELSE 0
        /\ \A i \in 1..Len(page) : page[i] = list[from + i]
    <2>1. CASE from + 1 <= upto
      <3>1. \A i \in 1..(upto - from) : from + i \in 1..Len(list)
        BY <1>1, <1>2, <1>6, <2>1
      <3>2. page = [i \in 1..(upto - from) |-> list[from + i]]
        BY <1>1, <1>2, <1>3, <1>6, <2>1
      <3> QED BY <1>1, <1>6, <2>1, <3>1, <3>2
    <2>2. CASE ~(from + 1 <= upto)
      BY <1>1, <1>2, <1>3, <1>6, <2>2
    <2> QED BY <2>1, <2>2
  <1>8. from < Len(list) <=> from + 1 <= upto
    BY <1>1, <1>2, <1>5
  <1>9. \A i \in 1..Len(page) : from + i \in 1..upto
    BY <1>1, <1>6, <1>7
  <1> QED BY <1>6, <1>7, <1>8, <1>9 DEF from, upto, page

(* The loop ends, at the latest after a page past the end of the list.     *)
LEMMA PagesFetchedEnds ==
  ASSUME NEW list \in Seq(Tx), NEW untilTxid, NEW untilHeight
  PROVE  LET n == PagesFetched(list, untilTxid, untilHeight)
         IN /\ n \in 1..(Len(list) + 1) /\ EndsAt(list, untilTxid, untilHeight, n)
            /\ \A m \in 1..(n - 1) : ~EndsAt(list, untilTxid, untilHeight, m)
  <1> DEFINE L == Len(list)
             T == {n \in 1..(L + 1) : EndsAt(list, untilTxid, untilHeight, n)}
  <1>1. L \in Nat
    OBVIOUS
  <1>2. L + 1 \in T
    <2>1. L + 1 \in Nat \ {0} /\ L + 1 \in 1..(L + 1)
      BY <1>1
    <2>2. ~(((L + 1) - 1) * PageSize < L)
      <3>1. (L + 1) - 1 = L /\ L <= L * PageSize /\ L * PageSize \in Nat
        BY <1>1, PageSizes
      <3> DEFINE LP == L * PageSize
      <3> HIDE DEF LP
      <3> QED BY <1>1, <3>1 DEF LP
    <2>3. Len(Page(list, L + 1)) = 0
      <3> DEFINE n == L + 1
      <3>1. n \in Nat \ {0} /\ ~((n - 1) * PageSize < Len(list))
        BY <2>1, <2>2
      <3> HIDE DEF n
      <3>2. Len(Page(list, n)) = 0
        BY <3>1, PageEntries
      <3> QED BY <3>2 DEF n
    <2> QED BY <2>1, <2>3, PageSizeAssumption DEF EndsAt
  <1>3. PICK n \in T : \A m \in T : n <= m
    <2>1. T \in SUBSET Nat /\ T # {}
      BY <1>1, <1>2
    <2> HIDE DEF T
    <2> QED BY <2>1, Least
  <1>4. \A m \in 1..(n - 1) : ~EndsAt(list, untilTxid, untilHeight, m)
    BY <1>1, <1>3
  <1>5. \E k \in 1..(Len(list) + 1) :
          /\ EndsAt(list, untilTxid, untilHeight, k)
          /\ \A m \in 1..(k - 1) : ~EndsAt(list, untilTxid, untilHeight, m)
    BY <1>3, <1>4
  <1> QED BY <1>5 DEF PagesFetched

-----------------------------------------------------------------------------
(* The reply.                                                              *)

(* reply is the first m entries of the list, from the last to the first.   *)
IsFront(reply, list, m) ==
    /\ m \in 0..Len(list)
    /\ reply \in Seq(Tx)
    /\ Len(reply) = m
    /\ \A i \in 1..m : reply[i] = list[m + 1 - i]

(* The first m entries satisfy the limits, of which there is one.          *)
LimitsMet(list, untilTxid, untilHeight, m) ==
    /\ untilTxid # NoTxid \/ untilHeight # NoHeight
    /\ \/ untilTxid = NoTxid
       \/ \E i \in 1..m : list[i].txid = untilTxid
    /\ \/ untilHeight = NoHeight
       \/ \E i \in 1..m : Confirmed(list[i]) /\ list[i].height < untilHeight

(* The reply is the beginning of the list, and it is all of it unless the  *)
(* limits are met.                                                         *)
LEMMA FetchIsFront ==
  ASSUME NEW list \in Seq(Tx), NEW untilTxid, NEW untilHeight
  PROVE  \E m : /\ IsFront(FetchAddressHistory(list, untilTxid, untilHeight), list, m)
                /\ m = Len(list) \/ LimitsMet(list, untilTxid, untilHeight, m)
  <1> DEFINE n == PagesFetched(list, untilTxid, untilHeight)
             m == UpToPage(list, n)
             reply == FetchAddressHistory(list, untilTxid, untilHeight)
             L == Len(list)
  <1>1. /\ L \in Nat
        /\ n \in 1..(L + 1) /\ n \in Nat \ {0}
        /\ EndsAt(list, untilTxid, untilHeight, n)
    <2>1. L \in Nat
      OBVIOUS
    <2>2. n \in 1..(Len(list) + 1) /\ EndsAt(list, untilTxid, untilHeight, n)
      BY PagesFetchedEnds
    <2> HIDE DEF n
    <2> QED BY <2>1, <2>2
  <1>2. reply = Reverse(SubSeq(list, 1, m))
    BY DEF FetchAddressHistory, UpToPage
  <1> HIDE DEF n, reply
  <1>3. m \in 0..L
    BY <1>1, PageEntries
  <1> HIDE DEF m
  <1>4. IsFront(reply, list, m)
    <2> DEFINE front == SubSeq(list, 1, m)
    <2>1. front \in Seq(Tx) /\ Len(front) = m /\ \A i \in 1..m : front[i] = list[i]
      BY <1>3
    <2> HIDE DEF front
    <2>2. reply = [i \in 1..m |-> front[m - i + 1]]
      BY <1>2, <2>1 DEF Reverse, front
    <2>3. \A i \in 1..m : m - i + 1 = m + 1 - i /\ m + 1 - i \in 1..m
      BY <1>1, <1>3
    <2>4. \A i \in 1..m : reply[i] = list[m + 1 - i] /\ reply[i] \in Tx
      <3>1. \A i \in 1..m : list[i] \in Tx
        BY <1>1, <1>3
      <3> QED BY <2>1, <2>2, <2>3, <3>1
    <2>5. reply \in Seq(Tx) /\ Len(reply) = m
      <3>1. m \in Nat
        BY <1>1, <1>3
      <3>2. reply = [i \in 1..m |-> reply[i]]
        BY <2>2
      <3> QED BY <2>4, <3>1, <3>2
    <2> QED BY <1>3, <2>4, <2>5 DEF IsFront
  <1>5. ASSUME NEW k \in 1..n
        PROVE  \A i \in 1..Len(Page(list, k)) :
                  \E j \in 1..m : Page(list, k)[i] = list[j]
    <2>1. k \in Nat \ {0} /\ k <= n
      BY <1>1
    <2>2. /\ \A i \in 1..Len(Page(list, k)) : Page(list, k)[i] = list[(k - 1) * PageSize + i]
          /\ \A i \in 1..Len(Page(list, k)) : (k - 1) * PageSize + i \in 1..UpToPage(list, k)
          /\ UpToPage(list, k) \in 0..Len(list)
      BY <2>1, PageEntries
    <2>3. UpToPage(list, k) <= m
      <3>1. k * PageSize <= n * PageSize /\ k * PageSize \in Nat /\ n * PageSize \in Nat
        BY <1>1, <2>1, PageSizes
      <3> DEFINE kp == k * PageSize
                 np == n * PageSize
      <3>2. UpToPage(list, k) = IF kp < L THEN kp ELSE L
        BY DEF UpToPage
      <3>3. m = IF np < L THEN np ELSE L
        BY DEF UpToPage, m
      <3> HIDE DEF kp, np
      <3> QED BY <1>1, <3>1, <3>2, <3>3 DEF kp, np
    <2>4. \A j \in 1..UpToPage(list, k) : j \in 1..m
      BY <1>1, <1>3, <2>2, <2>3
    <2> QED BY <2>2, <2>4
  <1>6. ASSUME Len(Page(list, n)) < PageSize PROVE m = L
    <2> DEFINE from == (n - 1) * PageSize
               np == n * PageSize
    <2>1. Len(Page(list, n)) = IF from < L THEN m - from ELSE 0
      BY <1>1, PageEntries DEF m
    <2>2. /\ from = np - PageSize
          /\ np \in Nat
      BY <1>1, PageSizes
    <2>3. m = IF np < L THEN np ELSE L
      BY DEF UpToPage, m
    <2> HIDE DEF from, np
    <2>4. from \in Nat
      <3>1. n - 1 \in Nat
        BY <1>1
      <3> QED BY <3>1, PageSizes DEF from
    <2> QED BY <1>1, <1>6, <2>1, <2>2, <2>3, <2>4, PageSizeAssumption
  <1>7. ASSUME ~(Len(Page(list, n)) < PageSize)
        PROVE  LimitsMet(list, untilTxid, untilHeight, m)
    <2>1. /\ untilTxid # NoTxid \/ untilHeight # NoHeight
          /\ FoundTxid(list, untilTxid, n)
          /\ FoundHeight(list, untilHeight, n)
      BY <1>1, <1>7 DEF EndsAt
    <2>2. \A k \in 1..n : DOMAIN Page(list, k) = 1..Len(Page(list, k))
      <3>1. \A k \in 1..n : k \in Nat \ {0}
        BY <1>1
      <3>2. \A k \in 1..n : Page(list, k) \in Seq(Tx)
        BY <3>1, PageEntries
      <3> QED BY <3>2
    <2>3. untilTxid # NoTxid => \E i \in 1..m : list[i].txid = untilTxid
      <3> SUFFICES ASSUME untilTxid # NoTxid
                   PROVE  \E i \in 1..m : list[i].txid = untilTxid
        OBVIOUS
      <3>1. PICK k \in 1..n : \E i \in 1..Len(Page(list, k)) : Page(list, k)[i].txid = untilTxid
        BY <2>1, <2>2 DEF FoundTxid, HasTxid
      <3>2. PICK i \in 1..Len(Page(list, k)) : Page(list, k)[i].txid = untilTxid
        BY <3>1
      <3>3. \E j \in 1..m : Page(list, k)[i] = list[j]
        BY <1>5
      <3> QED BY <3>2, <3>3
    <2>4. untilHeight # NoHeight =>
            \E i \in 1..m : Confirmed(list[i]) /\ list[i].height < untilHeight
      <3> SUFFICES ASSUME untilHeight # NoHeight
                   PROVE  \E i \in 1..m : Confirmed(list[i]) /\ list[i].height < untilHeight
        OBVIOUS
      <3>1. PICK k \in 1..n : /\ Page(list, k) # <<>>
                              /\ Confirmed(Last(Page(list, k)))
                              /\ Last(Page(list, k)).height < untilHeight
        BY <2>1 DEF FoundHeight, EndsBelow
      <3> DEFINE page == Page(list, k)
      <3>2. page \in Seq(Tx)
        <4>1. k \in Nat \ {0}
          BY <1>1
        <4> QED BY <4>1, PageEntries
      <3>3. Len(page) \in 1..Len(page) /\ Last(page) = page[Len(page)]
        <4>1. page # <<>>
          BY <3>1
        <4> HIDE DEF page
        <4> QED BY <3>2, <4>1 DEF Last
      <3>4. PICK j \in 1..m : page[Len(page)] = list[j]
        BY <1>5, <3>3
      <3>5. Confirmed(list[j]) /\ list[j].height < untilHeight
        BY <3>1, <3>3, <3>4
      <3> QED BY <3>5
    <2> QED BY <2>1, <2>3, <2>4 DEF LimitsMet
  <1>8. m = L \/ LimitsMet(list, untilTxid, untilHeight, m)
    BY <1>6, <1>7
  <1> QED BY <1>4, <1>8 DEF reply

(* What the reply of a server that knows the transactions txs has: each    *)
(* entry is one of them and no two are the same one, oldest first; what is *)
(* not in it is older than all that is.  Without a limit it is everything. *)
(* With a limit of height it is everything from that height on and all     *)
(* that is unconfirmed.                                                    *)
IsReply(reply, txs, untilTxid, untilHeight) ==
    /\ reply \in Seq(Tx)
    /\ \A i \in 1..Len(reply) : reply[i] \in txs
    /\ \A i, j \in 1..Len(reply) : i < j => TxBefore(reply[i], reply[j])
    /\ \A tx \in txs :
          \/ \E i \in 1..Len(reply) : reply[i] = tx
          \/ /\ \A i \in 1..Len(reply) : TxBefore(tx, reply[i])
             /\ untilTxid # NoTxid \/ untilHeight # NoHeight
             /\ \/ untilTxid = NoTxid
                \/ \E i \in 1..Len(reply) : reply[i].txid = untilTxid
             /\ \/ untilHeight = NoHeight
                \/ Confirmed(tx) /\ tx.height < untilHeight

LEMMA FetchReturns ==
  ASSUME NEW txs \in SUBSET Tx, IsFiniteSet(txs),
         NEW untilTxid, NEW untilHeight \in Int
  PROVE  IsReply(FetchAddressHistory(NewestFirst(txs), untilTxid, untilHeight),
                 txs, untilTxid, untilHeight)
  <1> DEFINE list == NewestFirst(txs)
             L == Len(list)
             reply == FetchAddressHistory(list, untilTxid, untilHeight)
  <1>1. IsNewestFirst(list, txs)
    BY NewestFirstSorts
  <1> HIDE DEF list
  <1>2. /\ list \in Seq(txs) /\ L \in Nat
        /\ \A tx \in txs : \E i \in 1..L : list[i] = tx
        /\ \A i, j \in 1..L : i < j => TxBefore(list[j], list[i])
        /\ \A i \in 1..L : list[i] \in txs
    BY <1>1 DEF IsNewestFirst
  <1>3. list \in Seq(Tx)
    BY <1>2
  <1>4. PICK m : /\ IsFront(reply, list, m)
                 /\ m = L \/ LimitsMet(list, untilTxid, untilHeight, m)
    BY <1>3, FetchIsFront
  <1> HIDE DEF reply, L
  <1>5. /\ m \in 0..L /\ reply \in Seq(Tx) /\ Len(reply) = m
        /\ \A i \in 1..m : reply[i] = list[m + 1 - i]
    BY <1>4 DEF IsFront, L
  <1>6. \A i \in 1..m : m + 1 - i \in 1..m /\ m + 1 - i \in 1..L
    BY <1>2, <1>5
  <1>7. \A i \in 1..m : reply[i] \in txs
    BY <1>2, <1>5, <1>6
  <1>8. ASSUME NEW i \in 1..m, NEW j \in 1..m, i < j PROVE TxBefore(reply[i], reply[j])
    <2>1. m + 1 - j < m + 1 - i
      BY <1>2, <1>5, <1>8
    <2>2. TxBefore(list[m + 1 - i], list[m + 1 - j])
      BY <1>2, <1>6, <2>1
    <2> QED BY <1>5, <2>2
  <1>9. \A j \in 1..m : \E i \in 1..m : reply[i] = list[j]
    <2> SUFFICES ASSUME NEW j \in 1..m PROVE \E i \in 1..m : reply[i] = list[j]
      OBVIOUS
    <2>1. m + 1 - (m + 1 - j) = j
      BY <1>2, <1>5
    <2> QED BY <1>5, <1>6, <2>1
  <1>10. ASSUME NEW tx \in txs, \A i \in 1..m : reply[i] # tx
         PROVE  /\ \A i \in 1..m : TxBefore(tx, reply[i])
                /\ LimitsMet(list, untilTxid, untilHeight, m)
                /\ untilHeight = NoHeight \/ (Confirmed(tx) /\ tx.height < untilHeight)
    <2>1. PICK k \in 1..L : list[k] = tx
      BY <1>2
    <2>2. k \notin 1..m
      BY <1>9, <1>10, <2>1
    <2>3. \A j \in 1..m : j \in 1..L /\ j < k
      BY <1>2, <1>5, <2>2
    <2>4. \A j \in 1..m : TxBefore(tx, list[j])
      BY <1>2, <2>1, <2>3
    <2>5. \A i \in 1..m : TxBefore(tx, reply[i])
      BY <1>5, <1>6, <2>4
    <2>6. LimitsMet(list, untilTxid, untilHeight, m)
      BY <1>2, <1>4, <2>2
    <2>7. untilHeight = NoHeight \/ (Confirmed(tx) /\ tx.height < untilHeight)
      <3> SUFFICES ASSUME untilHeight # NoHeight
                   PROVE  Confirmed(tx) /\ tx.height < untilHeight
        OBVIOUS
      <3>1. PICK j \in 1..m : Confirmed(list[j]) /\ list[j].height < untilHeight
        BY <2>6 DEF LimitsMet
      <3>2. TxBefore(tx, list[j]) /\ list[j] \in Tx /\ tx \in Tx
        BY <1>2, <2>3, <2>4
      <3>3. list[j].height \in Nat /\ tx.height \in Nat
        BY <3>2, VersionType DEF Tx
      <3> QED BY <3>1, <3>2, <3>3 DEF TxBefore, Confirmed, Unconfirmed
    <2> QED BY <2>5, <2>6, <2>7
  <1>11. LimitsMet(list, untilTxid, untilHeight, m) =>
           /\ untilTxid # NoTxid \/ untilHeight # NoHeight
           /\ untilTxid = NoTxid \/ \E i \in 1..m : reply[i].txid = untilTxid
    BY <1>9 DEF LimitsMet
  <1>12. IsReply(reply, txs, untilTxid, untilHeight)
    BY <1>5, <1>7, <1>8, <1>10, <1>11 DEF IsReply
  <1> QED BY <1>12 DEF reply, list

-----------------------------------------------------------------------------
(* The loop.                                                               *)

(* The local variables after n pages: all of them are in allTxs, and the   *)
(* loop did not end before the last.                                       *)
AfterPages(fetch, list, untilTxid, untilHeight, n) ==
    /\ n \in Nat
    /\ fetch.allTxs = SubSeq(list, 1, UpToPage(list, n))
    /\ fetch.foundTxid <=> FoundTxid(list, untilTxid, n)
    /\ fetch.foundHeight <=> FoundHeight(list, untilHeight, n)
    /\ \A m \in 1..(n - 1) : ~EndsAt(list, untilTxid, untilHeight, m)
    /\ n = 0 => ~fetch.done /\ fetch.lastTxid = NoTxid
    /\ n > 0 => /\ fetch.done <=> Len(Page(list, n)) < PageSize
                /\ ~fetch.done => /\ n * PageSize <= Len(list)
                                  /\ fetch.lastTxid = list[n * PageSize].txid

LEMMA LoopStarts ==
  ASSUME NEW list \in Seq(Tx), NEW untilTxid, NEW untilHeight
  PROVE  AfterPages(FetchStart(untilTxid, untilHeight), list, untilTxid, untilHeight, 0)
  <1> DEFINE start == FetchStart(untilTxid, untilHeight)
  <1>1. /\ start.allTxs = <<>> /\ start.lastTxid = NoTxid /\ ~start.done
        /\ start.foundTxid <=> untilTxid = NoTxid
        /\ start.foundHeight <=> untilHeight = NoHeight
    BY DEF FetchStart
  <1>2. UpToPage(list, 0) = 0
    <2>1. 0 * PageSize = 0
      BY PageSizeAssumption
    <2>2. Len(list) \in Nat
      OBVIOUS
    <2> QED BY <2>1, <2>2 DEF UpToPage
  <1>3. SubSeq(list, 1, 0) = <<>>
    OBVIOUS
  <1>4. FoundTxid(list, untilTxid, 0) <=> untilTxid = NoTxid
    BY DEF FoundTxid
  <1>5. FoundHeight(list, untilHeight, 0) <=> untilHeight = NoHeight
    BY DEF FoundHeight
  <1> HIDE DEF start
  <1>6. AfterPages(start, list, untilTxid, untilHeight, 0)
    BY <1>1, <1>2, <1>3, <1>4, <1>5 DEF AfterPages
  <1> QED BY <1>6 DEF start

(* The answer to a request is the next page: the server finds the entry    *)
(* after which it is asked to go on, because no two have the same txid.    *)
LEMMA CursorPage ==
  ASSUME NEW list \in Seq(Tx), NEW untilTxid, NEW untilHeight, NEW fetch, NEW n \in Nat,
         \A i, j \in 1..Len(list) : list[i].txid = list[j].txid => i = j,
         AfterPages(fetch, list, untilTxid, untilHeight, n), ~fetch.done
  PROVE  ScripthashTxs(list, fetch.lastTxid) = Page(list, n + 1)
  <1> DEFINE L == Len(list)
             from == n * PageSize
             to == (n + 1) * PageSize
             after == IF fetch.lastTxid = NoTxid THEN 0
                      ELSE CHOOSE i \in DOMAIN list : list[i].txid = fetch.lastTxid
  <1>1. L \in Nat /\ DOMAIN list = 1..L /\ PageSize \in Nat \ {0}
    BY PageSizeAssumption
  <1>2. from \in Nat /\ to = from + PageSize
    <2>1. n + 1 \in Nat /\ (n + 1) - 1 = n
      OBVIOUS
    <2>2. n * PageSize = (n + 1) * PageSize - PageSize
      BY <2>1, PageSizes
    <2>3. n * PageSize \in Nat /\ (n + 1) * PageSize \in Nat
      BY <2>1, PageSizes
    <2> HIDE DEF from, to
    <2> QED BY <1>1, <2>2, <2>3 DEF from, to
  <1>3. after = from
    <2>1. CASE n = 0
      <3>1. from = 0
        BY <1>1, <2>1
      <3>2. fetch.lastTxid = NoTxid
        BY <2>1 DEF AfterPages
      <3> HIDE DEF from
      <3> QED BY <3>1, <3>2
    <2>2. CASE n # 0
      <3>1. from <= L /\ fetch.lastTxid = list[from].txid
        BY <2>2 DEF AfterPages
      <3>2. n <= from
        BY PageSizes
      <3> HIDE DEF from, L
      <3>3. from \in 1..L
        BY <1>1, <1>2, <2>2, <3>1, <3>2
      <3>4. list[from] \in Tx
        BY <3>3 DEF L
      <3>5. list[from].txid \in Nat
        BY <3>4, TrackerAssumption DEF Tx
      <3>6. fetch.lastTxid # NoTxid
        BY <3>1, <3>5 DEF NoTxid
      <3>7. \A i \in 1..L : list[i].txid = fetch.lastTxid => i = from
        BY <3>1, <3>3 DEF L
      <3> QED BY <1>1, <3>1, <3>3, <3>6, <3>7
    <2> QED BY <2>1, <2>2
  <1>4. ScripthashTxs(list, fetch.lastTxid)
          = SubSeq(list, after + 1, IF after + PageSize < L THEN after + PageSize ELSE L)
    BY DEF ScripthashTxs
  <1>5. Page(list, n + 1) = SubSeq(list, ((n + 1) - 1) * PageSize + 1, IF to < L THEN to ELSE L)
    BY DEF Page
  <1>6. (n + 1) - 1 = n
    OBVIOUS
  <1>7. Page(list, n + 1) = SubSeq(list, from + 1, IF to < L THEN to ELSE L)
    BY <1>5, <1>6
  <1> HIDE DEF from, to, after, L
  <1> QED BY <1>2, <1>3, <1>4, <1>7

(* One more turn of the loop.                                              *)
LEMMA LoopGoesOn ==
  ASSUME NEW list \in Seq(Tx), NEW untilTxid, NEW untilHeight, NEW fetch, NEW n \in Nat,
         AfterPages(fetch, list, untilTxid, untilHeight, n),
         GoesOn(fetch, untilTxid, untilHeight)
  PROVE  AfterPages(WithPage(fetch, Page(list, n + 1), untilTxid, untilHeight),
                    list, untilTxid, untilHeight, n + 1)
  <1> DEFINE L == Len(list)
             page == Page(list, n + 1)
             next == WithPage(fetch, page, untilTxid, untilHeight)
             from == n * PageSize
             to == (n + 1) * PageSize
             upto == UpToPage(list, n)
             upto1 == UpToPage(list, n + 1)
  <1>1. L \in Nat /\ PageSize \in Nat \ {0} /\ n + 1 \in Nat \ {0} /\ (n + 1) - 1 = n
    BY PageSizeAssumption
  <1>2. from \in Nat /\ to = from + PageSize
    <2>1. n * PageSize = (n + 1) * PageSize - PageSize
      BY <1>1, PageSizes
    <2>2. n * PageSize \in Nat /\ (n + 1) * PageSize \in Nat
      BY <1>1, PageSizes
    <2> HIDE DEF from, to
    <2> QED BY <1>1, <2>1, <2>2 DEF from, to
  <1>3. /\ page \in Seq(Tx)
        /\ Len(page) = IF from < L THEN upto1 - from ELSE 0
        /\ \A i \in 1..Len(page) : page[i] = list[from + i]
        /\ upto1 \in 0..L
    <2> DEFINE m == n + 1
    <2>1. m \in Nat \ {0} /\ m - 1 = n
      BY <1>1
    <2> HIDE DEF m
    <2>2. /\ Page(list, m) \in Seq(Tx)
          /\ Len(Page(list, m)) = IF (m - 1) * PageSize < L
                                     THEN UpToPage(list, m) - (m - 1) * PageSize ELSE 0
          /\ \A i \in 1..Len(Page(list, m)) : Page(list, m)[i] = list[(m - 1) * PageSize + i]
          /\ UpToPage(list, m) \in 0..L
      BY <2>1, PageEntries
    <2> QED BY <2>1, <2>2 DEF m
  <1>4. /\ upto = IF from < L THEN from ELSE L
        /\ upto1 = IF to < L THEN to ELSE L
    BY DEF UpToPage
  <1>5. /\ next.allTxs = fetch.allTxs \o page
        /\ next.lastTxid = IF Len(page) = PageSize THEN Last(page).txid ELSE fetch.lastTxid
        /\ next.done <=> Len(page) # PageSize
        /\ next.foundTxid <=> fetch.foundTxid \/ HasTxid(page, untilTxid)
        /\ next.foundHeight <=> fetch.foundHeight \/ EndsBelow(page, untilHeight)
    BY DEF WithPage, NextCursor
  <1>6. /\ fetch.allTxs = SubSeq(list, 1, upto)
        /\ fetch.foundTxid <=> FoundTxid(list, untilTxid, n)
        /\ fetch.foundHeight <=> FoundHeight(list, untilHeight, n)
        /\ \A m \in 1..(n - 1) : ~EndsAt(list, untilTxid, untilHeight, m)
        /\ n > 0 => (fetch.done <=> Len(Page(list, n)) < PageSize)
    BY DEF AfterPages
  <1>7. FoundTxid(list, untilTxid, n + 1)
          <=> FoundTxid(list, untilTxid, n) \/ HasTxid(page, untilTxid)
    <2>1. untilTxid = NoTxid => FoundTxid(list, untilTxid, n + 1) /\ FoundTxid(list, untilTxid, n)
      BY DEF FoundTxid
    <2>2. \A k \in 1..(n + 1) : k \in 1..n \/ k = n + 1
      OBVIOUS
    <2>3. \A k \in 1..n : k \in 1..(n + 1)
      OBVIOUS
    <2>4. n + 1 \in 1..(n + 1)
      OBVIOUS
    <2> QED BY <2>1, <2>2, <2>3, <2>4 DEF FoundTxid
  <1>8. FoundHeight(list, untilHeight, n + 1)
          <=> FoundHeight(list, untilHeight, n) \/ EndsBelow(page, untilHeight)
    <2>1. untilHeight = NoHeight
            => FoundHeight(list, untilHeight, n + 1) /\ FoundHeight(list, untilHeight, n)
      BY DEF FoundHeight
    <2>2. \A k \in 1..(n + 1) : k \in 1..n \/ k = n + 1
      OBVIOUS
    <2>3. \A k \in 1..n : k \in 1..(n + 1)
      OBVIOUS
    <2>4. n + 1 \in 1..(n + 1)
      OBVIOUS
    <2> QED BY <2>1, <2>2, <2>3, <2>4 DEF FoundHeight
  (* The limits were not met by the first n pages, nor was the last short. *)
  <1>9. \A m \in 1..n : ~EndsAt(list, untilTxid, untilHeight, m)
    <2>1. n > 0 => ~EndsAt(list, untilTxid, untilHeight, n)
      BY <1>6 DEF EndsAt, GoesOn
    <2>2. \A m \in 1..n : m \in 1..(n - 1) \/ (m = n /\ n > 0)
      OBVIOUS
    <2> QED BY <1>6, <2>1, <2>2
  (* Every page so far was full.                                           *)
  <1>10. from <= L
    <2>1. CASE n = 0
      <3>1. from = 0
        BY <1>1, <2>1
      <3> HIDE DEF from
      <3> QED BY <1>1, <3>1
    <2>2. CASE n # 0
      <3>1. n > 0 /\ ~fetch.done
        BY <2>2 DEF GoesOn
      <3> QED BY <3>1 DEF AfterPages
    <2> QED BY <2>1, <2>2
  <1> HIDE DEF L, page, next, from, to, upto, upto1
  <1>11. Len(page) = upto1 - from /\ Len(page) \in 0..PageSize /\ upto = from
    BY <1>1, <1>2, <1>3, <1>4, <1>10
  <1>12. next.allTxs = SubSeq(list, 1, upto1)
    <2>1. \A m \in 0..L : /\ SubSeq(list, 1, m) \in Seq(Tx) /\ Len(SubSeq(list, 1, m)) = m
                          /\ \A i \in 1..m : SubSeq(list, 1, m)[i] = list[i]
      BY DEF L
    <2> DEFINE front == SubSeq(list, 1, from)
               all == SubSeq(list, 1, upto1)
    <2>2. /\ front \in Seq(Tx) /\ Len(front) = from
          /\ \A i \in 1..from : front[i] = list[i]
      BY <1>2, <1>10, <2>1, <1>1
    <2>3. /\ all \in Seq(Tx) /\ Len(all) = upto1
          /\ \A i \in 1..upto1 : all[i] = list[i]
      BY <1>3, <2>1
    <2>4. next.allTxs = front \o page
      BY <1>5, <1>6, <1>11
    <2> HIDE DEF front, all
    <2>5. /\ front \o page \in Seq(Tx) /\ Len(front \o page) = upto1
          /\ \A i \in 1..upto1 : (front \o page)[i] = list[i]
      <3>1. front \o page \in Seq(Tx) /\ Len(front \o page) = Len(front) + Len(page)
        BY <1>3, <2>2
      <3>2. Len(front) + Len(page) = upto1
        BY <1>1, <1>2, <1>3, <1>11, <2>2
      <3>3. ASSUME NEW i \in 1..upto1 PROVE (front \o page)[i] = list[i]
        <4>1. i \in 1..(Len(front) + Len(page))
          BY <3>2
        <4>2. (front \o page)[i] = IF i <= Len(front) THEN front[i] ELSE page[i - Len(front)]
          BY <1>3, <2>2, <4>1
        <4>3. CASE i <= from
          <5>1. i \in 1..from
            BY <1>1, <1>2, <1>3, <4>3
          <5> QED BY <2>2, <4>2, <4>3, <5>1
        <4>4. CASE ~(i <= from)
          <5>1. i - from \in 1..Len(page) /\ from + (i - from) = i
            BY <1>1, <1>2, <1>3, <1>11, <4>4
          <5> QED BY <1>3, <2>2, <4>2, <4>4, <5>1
        <4> QED BY <4>3, <4>4
      <3> QED BY <3>1, <3>2, <3>3
    <2> DEFINE both == front \o page
    <2>6. both = [i \in 1..upto1 |-> both[i]] /\ all = [i \in 1..upto1 |-> all[i]]
      <3>1. both \in Seq(Tx) /\ Len(both) = upto1 /\ upto1 \in Nat
        BY <1>1, <1>3, <2>5
      <3> HIDE DEF both
      <3>2. both = [i \in 1..upto1 |-> both[i]]
        BY <3>1
      <3>3. all = [i \in 1..upto1 |-> all[i]]
        BY <2>3, <3>1
      <3> QED BY <3>2, <3>3
    <2>7. \A i \in 1..upto1 : both[i] = all[i]
      BY <2>3, <2>5
    <2> HIDE DEF both
    <2>8. both = all
      BY <2>6, <2>7
    <2> QED BY <2>4, <2>8 DEF both, all
  <1>13. next.done <=> Len(page) < PageSize
    BY <1>1, <1>5, <1>11
  <1>14. ~next.done => to <= L /\ next.lastTxid = list[to].txid
    <2> SUFFICES ASSUME ~next.done PROVE to <= L /\ next.lastTxid = list[to].txid
      OBVIOUS
    <2>1. Len(page) = PageSize /\ upto1 = to /\ to <= L
      BY <1>1, <1>2, <1>3, <1>4, <1>5, <1>11
    <2>2. Last(page) = page[Len(page)]
      BY DEF Last
    <2>3. page[Len(page)] = list[to]
      <3>1. Len(page) \in 1..Len(page)
        BY <1>1, <2>1
      <3> QED BY <1>2, <1>3, <2>1, <3>1
    <2> QED BY <1>5, <2>1, <2>2, <2>3
  <1>15. (n + 1) - 1 = n
    OBVIOUS
  <1>16. AfterPages(next, list, untilTxid, untilHeight, n + 1)
    <2>1. n + 1 \in Nat /\ n + 1 # 0 /\ (n + 1) - 1 = n
      OBVIOUS
    <2>2. next.foundTxid <=> FoundTxid(list, untilTxid, n + 1)
      BY <1>5, <1>6, <1>7
    <2>3. next.foundHeight <=> FoundHeight(list, untilHeight, n + 1)
      BY <1>5, <1>6, <1>8
    <2> QED BY <1>9, <1>12, <1>13, <1>14, <2>1, <2>2, <2>3
            DEF AfterPages, upto1, page, to, L
  <1> QED BY <1>16 DEF next, page

(* What the loop returns is what the page at which it stops says.          *)
LEMMA LoopReturns ==
  ASSUME NEW list \in Seq(Tx), NEW untilTxid, NEW untilHeight, NEW fetch, NEW n \in Nat,
         AfterPages(fetch, list, untilTxid, untilHeight, n),
         ~GoesOn(fetch, untilTxid, untilHeight)
  PROVE  Reverse(fetch.allTxs) = FetchAddressHistory(list, untilTxid, untilHeight)
  <1> DEFINE k == PagesFetched(list, untilTxid, untilHeight)
  <1>1. /\ k \in Nat \ {0} /\ EndsAt(list, untilTxid, untilHeight, k)
        /\ \A m \in 1..(k - 1) : ~EndsAt(list, untilTxid, untilHeight, m)
    <2>1. Len(list) \in Nat
      OBVIOUS
    <2>2. /\ k \in 1..(Len(list) + 1) /\ EndsAt(list, untilTxid, untilHeight, k)
          /\ \A m \in 1..(k - 1) : ~EndsAt(list, untilTxid, untilHeight, m)
      BY PagesFetchedEnds
    <2> HIDE DEF k
    <2> QED BY <2>1, <2>2
  <1>2. n > 0
    <2> SUFFICES ASSUME n = 0 PROVE FALSE
      OBVIOUS
    <2>1. /\ ~fetch.done
          /\ fetch.foundTxid <=> FoundTxid(list, untilTxid, 0)
          /\ fetch.foundHeight <=> FoundHeight(list, untilHeight, 0)
      BY DEF AfterPages
    <2>2. FoundTxid(list, untilTxid, 0) <=> untilTxid = NoTxid
      BY DEF FoundTxid
    <2>3. FoundHeight(list, untilHeight, 0) <=> untilHeight = NoHeight
      BY DEF FoundHeight
    <2> QED BY <2>1, <2>2, <2>3 DEF GoesOn
  <1>3. EndsAt(list, untilTxid, untilHeight, n)
    BY <1>2 DEF AfterPages, GoesOn, EndsAt
  <1>4. \A m \in 1..(n - 1) : ~EndsAt(list, untilTxid, untilHeight, m)
    BY DEF AfterPages
  <1>5. k = n
    <2> HIDE DEF k
    <2>1. ~(n < k)
      BY <1>1, <1>2, <1>3
    <2>2. ~(k < n)
      BY <1>1, <1>4
    <2> QED BY <1>1, <2>1, <2>2
  <1>6. fetch.allTxs = SubSeq(list, 1, UpToPage(list, n))
    BY DEF AfterPages
  <1>7. FetchAddressHistory(list, untilTxid, untilHeight) = Reverse(SubSeq(list, 1, UpToPage(list, k)))
    BY DEF FetchAddressHistory, UpToPage
  <1> QED BY <1>5, <1>6, <1>7

-----------------------------------------------------------------------------
(* The transactions that a view has are finitely many.                     *)
Shown(view) ==
    {[txid |-> t, height |-> view[t]] : t \in {u \in Txids : view[u] # Absent}}

LEMMA ShownFinite ==
  ASSUME NEW view \in Views
  PROVE  /\ Shown(view) \in SUBSET Tx
         /\ IsFiniteSet(Shown(view))
         /\ \A tx \in Tx : tx \in Shown(view) <=> view[tx.txid] = tx.height
  <1> DEFINE known == {u \in Txids : view[u] # Absent}
             shown == [t \in known |-> [txid |-> t, height |-> view[t]]]
  <1>1. \A t \in known : view[t] \in Heights
    BY DEF Views, Version
  <1>2. Shown(view) \in SUBSET Tx
    BY <1>1 DEF Shown, Tx
  <1>3. IsFiniteSet(known)
    BY TrackerAssumption, FS_Subset
  <1>4. shown \in Surjection(known, Shown(view))
    BY DEF Surjection, Shown
  <1>5. IsFiniteSet(Shown(view))
    <2> HIDE DEF shown, known
    <2> QED BY <1>3, <1>4, FS_Surjection
  <1>6. \A tx \in Tx : tx \in Shown(view) <=> view[tx.txid] = tx.height
    <2> SUFFICES ASSUME NEW tx \in Tx
                 PROVE  tx \in Shown(view) <=> view[tx.txid] = tx.height
      OBVIOUS
    <2>1. tx = [txid |-> tx.txid, height |-> tx.height] /\ tx.txid \in Txids
          /\ tx.height \in Heights
      BY DEF Tx
    <2>2. tx.height # Absent
      BY <2>1, VersionType
    <2> QED BY <2>1, <2>2 DEF Shown
  <1> QED BY <1>2, <1>5, <1>6
=============================================================================
