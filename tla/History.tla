------------------------------ MODULE History ------------------------------
(***************************************************************************)
(* Fetching the history of an address page by page (src/src/api/mod.rs).   *)
(* The server lists the transactions newest first: the unconfirmed ones,   *)
(* then the confirmed ones by descending height.  The loop of              *)
(* fetch_address_history asks for the page that follows the last entry it  *)
(* has, until a page is short or, when limits are given, until the pages   *)
(* seen so far satisfy them.  Its turns are the operators of the second    *)
(* half; Requests runs them one request at a time.  FetchAddressHistory is *)
(* the reply they add up to, by the page at which the loop stops; Requests *)
(* checks that it is, and AddressSync uses it.  The list does not change   *)
(* while it is fetched.                                                    *)
(***************************************************************************)
EXTENDS Tracker, SequencesExt

CONSTANT PageSize   \* entries of a full page (max_txs, 50 in the code)
ASSUME PageSizeAssumption == PageSize \in Nat \ {0}

NoTxid == -1        \* until_txid and until_height are None
NoHeight == -1

(* External: the order in which the server lists a set of transactions:    *)
(* before each one come those that are newer.                              *)
NewestFirst(txs) ==
    LET newer(tx) == {other \in txs : TxBefore(tx, other)}
    IN [i \in 1..Cardinality(txs) |->
            CHOOSE tx \in txs : Cardinality(newer(tx)) = i - 1]

-----------------------------------------------------------------------------
(* What one page says of the limits.                                       *)
HasTxid(txs, untilTxid) == \E i \in DOMAIN txs : txs[i].txid = untilTxid

(* Seeded fault: a page that ends at the limit is deep enough.             *)
EndsAtOrBelow(txs, untilHeight) ==
    txs # <<>> /\ Confirmed(Last(txs)) /\ Last(txs).height <= untilHeight

(* It ends strictly below the limit of height.                             *)
EndsBelow(txs, untilHeight) ==
    txs # <<>> /\ Confirmed(Last(txs)) /\ Last(txs).height < untilHeight

-----------------------------------------------------------------------------
(* The reply, by the page at which the loop stops.                         *)

(* The n-th page; it is empty past the end of the list.                    *)
Page(list, n) ==
    SubSeq(list, (n - 1) * PageSize + 1,
                 IF n * PageSize < Len(list) THEN n * PageSize ELSE Len(list))

FoundTxid(list, untilTxid, n) ==
    untilTxid = NoTxid \/ \E k \in 1..n : HasTxid(Page(list, k), untilTxid)

FoundHeight(list, untilHeight, n) ==
    untilHeight = NoHeight \/ \E k \in 1..n : EndsBelow(Page(list, k), untilHeight)

(* The loop ends after the n-th page.                                      *)
EndsAt(list, untilTxid, untilHeight, n) ==
    \/ Len(Page(list, n)) < PageSize
    \/ /\ untilTxid # NoTxid \/ untilHeight # NoHeight
       /\ FoundTxid(list, untilTxid, n)
       /\ FoundHeight(list, untilHeight, n)

PagesFetched(list, untilTxid, untilHeight) ==
    CHOOSE n \in 1..(Len(list) + 1) :
        /\ EndsAt(list, untilTxid, untilHeight, n)
        /\ \A m \in 1..(n - 1) : ~EndsAt(list, untilTxid, untilHeight, m)

(* The pages that were fetched, oldest transaction first.                  *)
FetchAddressHistory(list, untilTxid, untilHeight) ==
    LET last == PagesFetched(list, untilTxid, untilHeight) * PageSize
    IN Reverse(SubSeq(list, 1, IF last < Len(list) THEN last ELSE Len(list)))

-----------------------------------------------------------------------------
(* The loop, request by request.                                           *)

(* External: scripthash_txs answers with the page of entries that follow   *)
(* the one with lastTxid, or with the first page.                          *)
ScripthashTxs(list, lastTxid) ==
    LET after == IF lastTxid = NoTxid THEN 0
                 ELSE CHOOSE i \in DOMAIN list : list[i].txid = lastTxid
    IN SubSeq(list, after + 1,
              IF after + PageSize < Len(list) THEN after + PageSize ELSE Len(list))

(* The local variables before the first request.                           *)
FetchStart(untilTxid, untilHeight) ==
    [allTxs |-> <<>>, lastTxid |-> NoTxid, done |-> FALSE,
     foundTxid |-> untilTxid = NoTxid, foundHeight |-> untilHeight = NoHeight]

(* Seeded fault: one of two limits is enough.                              *)
GoesOnUntilEither(fetch, untilTxid, untilHeight) ==
    /\ ~fetch.done
    /\ ~(untilTxid # NoTxid /\ fetch.foundTxid)
    /\ ~(untilHeight # NoHeight /\ fetch.foundHeight)

(* The condition of the while loop.                                        *)
GoesOn(fetch, untilTxid, untilHeight) ==
    /\ ~fetch.done
    /\ \/ untilTxid = NoTxid /\ untilHeight = NoHeight
       \/ ~fetch.foundTxid
       \/ ~fetch.foundHeight

(* Seeded fault: the next page is asked for after the first entry.         *)
CursorAtFirst(fetch, txs) ==
    IF Len(txs) = PageSize THEN txs[1].txid ELSE fetch.lastTxid

(* after_txid of the next request.                                         *)
NextCursor(fetch, txs) ==
    IF Len(txs) = PageSize THEN Last(txs).txid ELSE fetch.lastTxid

(* Seeded fault: the loop is left before a short page is appended.         *)
WithoutShortPage(fetch, txs, untilTxid, untilHeight) ==
    [allTxs |-> IF Len(txs) = PageSize THEN fetch.allTxs \o txs ELSE fetch.allTxs,
     lastTxid |-> NextCursor(fetch, txs), done |-> Len(txs) # PageSize,
     foundTxid |-> fetch.foundTxid \/ HasTxid(txs, untilTxid),
     foundHeight |-> fetch.foundHeight \/ EndsBelow(txs, untilHeight)]

(* The local variables after one more page.                                *)
WithPage(fetch, txs, untilTxid, untilHeight) ==
    [allTxs |-> fetch.allTxs \o txs,
     lastTxid |-> NextCursor(fetch, txs), done |-> Len(txs) # PageSize,
     foundTxid |-> fetch.foundTxid \/ HasTxid(txs, untilTxid),
     foundHeight |-> fetch.foundHeight \/ EndsBelow(txs, untilHeight)]
=============================================================================
