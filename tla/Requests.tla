------------------------------ MODULE Requests ------------------------------
(***************************************************************************)
(* The algorithms that work on what the server answers, over all inputs:   *)
(* fetch_address_history (History), update_local_chain and the scan of a   *)
(* keychain (MempoolExt).  Each initial state is one call.  The history is *)
(* fetched request by request, page after page; the other two calls are    *)
(* answered in one step.                                                   *)
(***************************************************************************)
EXTENDS History, MempoolExt

CONSTANTS
    LocalTip,    \* bound: height of the chain that local checkpoints are from
    Addresses    \* bound: addresses of a keychain

ASSUME RequestsAssumption == {LocalTip, Addresses} \subseteq Nat

VARIABLES
    call,     \* the call and its arguments, with what the server has
    fetch,    \* the local variables of fetch_address_history
    reply     \* what the call returned, once it has

vars == <<call, fetch, reply>>

-----------------------------------------------------------------------------
(* External: the transactions the server knows of the address.             *)
Known(server) == {[txid |-> t, height |-> server[t]] :
                    t \in {u \in Txids : server[u] # Absent}}

HistoryCalls ==
    [kind : {"history"}, server : [Txids -> Heights \cup {Absent}],
     untilTxid : Txids \cup {NoTxid}, untilHeight : 1..MaxHeight \cup {NoHeight}]

-----------------------------------------------------------------------------
(* External: a server's chain some time later.  A reorg takes away at most *)
(* FinalDepth blocks and makes the chain longer.                           *)
Reorgs == {r \in [gone : 0..FinalDepth, new : 0..(FinalDepth + 2)] :
              r.gone = 0 \/ r.new > r.gone}

Later(chain, fork) ==
    {SubSeq(chain, 1, Len(chain) - r.gone) \o [n \in 1..r.new |-> fork] : r \in Reorgs}

FirstChain == [h \in 1..(LocalTip + 1) |-> 0]

(* The server changes at most once during a call, between two of the three *)
(* kinds of requests.                                                      *)
Servers(before, after) ==
    {[height |-> before, blocks |-> before, later |-> after],
     [height |-> before, blocks |-> after, later |-> after]}

Locals == UNION {[heights -> {0}] : heights \in SUBSET (0..LocalTip)}

ChainCalls ==
    UNION {UNION {[kind : {"chain"}, server : Servers(before, after), local : Locals,
                   requested : {{}} \cup {{h} : h \in 0..(LocalTip + 1)}] :
               after \in Later(before, 2)} : before \in Later(FirstChain, 1)}

-----------------------------------------------------------------------------
ScanCalls ==
    [kind : {"scan"}, used : SUBSET (0..(Addresses - 1)), stopGap : 1..(IndexBound - 1)]

-----------------------------------------------------------------------------
Init ==
    /\ \/ /\ call \in HistoryCalls
          /\ fetch = FetchStart(call.untilTxid, call.untilHeight)
       \/ call \in ChainCalls /\ fetch = <<>>
       \/ call \in ScanCalls /\ fetch = <<>>
    /\ reply = <<>>

Waiting(kind) == call.kind = kind /\ reply = <<>>

Answer(value) ==
    /\ reply' = <<value>>
    /\ UNCHANGED <<call, fetch>>

(* One turn of the loop of fetch_address_history.                          *)
FetchPage ==
    /\ Waiting("history") /\ GoesOn(fetch, call.untilTxid, call.untilHeight)
    /\ fetch' = WithPage(fetch, ScripthashTxs(NewestFirst(Known(call.server)), fetch.lastTxid),
                         call.untilTxid, call.untilHeight)
    /\ UNCHANGED <<call, reply>>

FetchReturn ==
    /\ Waiting("history") /\ ~GoesOn(fetch, call.untilTxid, call.untilHeight)
    /\ Answer(Reverse(fetch.allTxs))

AnswerChain ==
    /\ Waiting("chain")
    /\ Answer(UpdateLocalChain(call.server, call.local, call.requested))

AnswerScan ==
    /\ Waiting("scan")
    /\ Answer(Scanned(call.used, Addresses, call.stopGap))

Next == FetchPage \/ FetchReturn \/ AnswerChain \/ AnswerScan

Spec == Init /\ [][Next]_vars

Answered(kind) == call.kind = kind /\ reply # <<>>

-----------------------------------------------------------------------------
Returned == ToSet(reply[1])

(* However the pages fall, a call with limits misses nothing at or above   *)
(* the height limit: neither a transaction that shares the limit's block   *)
(* and sits on the next page, nor an unconfirmed one.  sync_address_history*)
(* drops every unconfirmed transaction that is not in the reply.           *)
NothingAboveLimitMissed ==
    Answered("history") /\ call.untilHeight # NoHeight =>
        \A tx \in Known(call.server) :
            tx.height = Unconfirmed \/ tx.height >= call.untilHeight => tx \in Returned

(* The transaction the caller asks for is in the reply when the server has *)
(* it; when the server has it no more, the whole history is returned.      *)
AskedForIsFound ==
    Answered("history") /\ call.untilTxid # NoTxid =>
        \/ \E tx \in Returned : tx.txid = call.untilTxid
        \/ Returned = Known(call.server)

(* However many requests it took, the reply is the newest part of the      *)
(* history, oldest first: no page overlaps the one before it or leaves     *)
(* something out between them.                                             *)
OldestFirst ==
    Answered("history") =>
        /\ \A i, j \in DOMAIN reply[1] : i < j => TxBefore(reply[1][i], reply[1][j])
        /\ \A tx \in Known(call.server) \ Returned :
              \A other \in Returned : TxBefore(tx, other)

(* The pages that the loop appends one by one make the reply that the sync *)
(* of an address (AddressSync) reckons with.                               *)
PagesMakeHistory ==
    Answered("history") =>
        reply[1] = FetchAddressHistory(NewestFirst(Known(call.server)),
                                       call.untilTxid, call.untilHeight)

(* The comments at async_ext.rs:105 and 138-143: although the update is put*)
(* together from several requests and from local blocks that are taken for *)
(* final, all of it is on one chain that the server had during the call.   *)
UpdateIsOneChain ==
    Answered("chain") =>
        \E chain \in {call.server.height, call.server.later} :
            \A h \in DOMAIN reply[1] : reply[1][h] = BlockHash(chain, h)

(* The comment at async_ext.rs:155-157: the update says which block is at  *)
(* each local checkpoint, so that a stale one is replaced, and at each     *)
(* height that was asked for, unless all local checkpoints are above it.   *)
NothingLeftOut ==
    Answered("chain") =>
        /\ DOMAIN call.local \subseteq DOMAIN reply[1]
        /\ \A h \in call.requested :
              h \in 0..Height(call.server.height) /\ (\E g \in DOMAIN call.local : g <= h)
                  => h \in DOMAIN reply[1]

(* No address in use up to u is preceded by more than stopGap unused ones, *)
(* and the first address is in use.                                        *)
NoGapBefore(u) ==
    /\ 0 \in call.used
    /\ \A v \in call.used : 0 < v /\ v <= u =>
          \E w \in call.used : w < v /\ v - w <= call.stopGap + 1

(* The scan of async_ext.rs:48-49 as the code keeps it: an address in use  *)
(* is found if and only if no gap comes before it, where an unused first   *)
(* address is a gap of its own.  If an index and stopGap add up to an      *)
(* overflow it may stop earlier, but never goes on after a gap.            *)
FoundUpToGap ==
    Answered("scan") =>
        \A u \in call.used :
            /\ u \in reply[1] => NoGapBefore(u)
            /\ NoGapBefore(u) /\ (\A v \in call.used : v < u => v + call.stopGap < IndexBound)
                  => u \in reply[1]
=============================================================================
