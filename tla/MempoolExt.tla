----------------------------- MODULE MempoolExt -----------------------------
(***************************************************************************)
(* What the BDK example (src/examples/bdk_mempool/src/async_ext.rs) makes  *)
(* of the server's answers: the update of a local chain of checkpoints, and*)
(* the scan of a keychain's addresses.                                     *)
(*                                                                         *)
(* A chain of the server is the sequence of its blocks from height 0; a    *)
(* block is the number of the reorg after which it was mined, so that two  *)
(* chains with the same block at a height are the same below it.  A sparse *)
(* chain, local or update, is a function from heights to blocks.           *)
(***************************************************************************)
EXTENDS Integers, Sequences, FiniteSetsExt

CONSTANTS
    FinalDepth,   \* ASSUME_FINAL_DEPTH (15)
    Window,       \* how many blocks get_blocks answers with (15, esplora: 10)
    IndexBound    \* an address index is below it (2^32)

ASSUME MempoolExtAssumption == {FinalDepth, Window, IndexBound} \subseteq Nat \ {0}

(* External: get_height, get_block_hash and get_blocks(Some(tip)).         *)
Height(chain) == Len(chain) - 1
BlockHash(chain, height) == chain[height + 1]
RecentBlocks(chain, tip) ==
    [h \in {g \in 0..tip : g > tip - Window} |-> BlockHash(chain, h)]

(* fetched_blocks before the local chain is looked at.                     *)
FetchedBlocks(server, requested) ==
    LET tip == Height(server.height)
        recent == RecentBlocks(server.blocks, tip)
    IN [h \in DOMAIN recent \cup {r \in requested : r <= tip} |->
            IF h \in DOMAIN recent THEN recent[h] ELSE BlockHash(server.later, h)]

(* Seeded fault: the last block that is not final is taken for final.      *)
UpdatedHashTrusting(server, fetched, local, h) ==
    IF h \in DOMAIN fetched THEN fetched[h]
    ELSE IF Max(DOMAIN local) - h >= FinalDepth - 1 THEN local[h]
    ELSE BlockHash(server.later, h)

(* updated_hash of a local checkpoint.                                     *)
UpdatedHash(server, fetched, local, h) ==
    IF h \in DOMAIN fetched THEN fetched[h]
    ELSE IF Max(DOMAIN local) - h >= FinalDepth THEN local[h]
    ELSE BlockHash(server.later, h)

Agrees(server, fetched, local, h) == UpdatedHash(server, fetched, local, h) = local[h]

(* Seeded fault: the walk ends at the first agreement.                     *)
EndsAtAgreement(server, fetched, local, h) == Agrees(server, fetched, local, h)

(* The walk down from the local tip ends at checkpoint h: the chains agree *)
(* and nothing that was fetched lies below.                                *)
EndsWalk(server, fetched, local, h) ==
    /\ Agrees(server, fetched, local, h)
    /\ \A n \in DOMAIN fetched : n >= h

Visited(server, fetched, local) ==
    {h \in DOMAIN local :
        \A g \in DOMAIN local : g > h => ~EndsWalk(server, fetched, local, g)}

(* update_local_chain.  server.height, .blocks and .later are the chains   *)
(* the server has when it answers get_height, get_blocks and the requests  *)
(* of single blocks; local is the empty function for a tip of None.  The   *)
(* update keeps the local checkpoints up to the lowest that agrees.        *)
UpdateLocalChain(server, local, requested) ==
    LET fetched == FetchedBlocks(server, requested)
        visited == Visited(server, fetched, local)
        agreed == {h \in visited : Agrees(server, fetched, local, h)}
        known == DOMAIN fetched \cup visited
        kept == IF agreed = {} THEN {} ELSE {h \in DOMAIN local : h <= Min(agreed)}
    IN [h \in kept \cup {g \in known : agreed # {} => g > Min(agreed)} |->
            IF h \in kept THEN local[h]
            ELSE IF h \in DOMAIN fetched THEN fetched[h]
            ELSE UpdatedHash(server, fetched, local, h)]

-----------------------------------------------------------------------------
(* Seeded fault: the gap is counted from the first address in use.         *)
GapReachedFromFirst(used, stopGap, index) ==
    LET active == {i \in used : i <= index}
    IN active = {} \/ index > (Min(active) + stopGap) % IndexBound

(* update_tx_graph leaves a keychain after address number index.  None is  *)
(* less than any index, so an unused first address ends the scan; the sum  *)
(* is that of a release build (a debug build panics when it overflows).    *)
GapReached(used, stopGap, index) ==
    LET active == {i \in used : i <= index}
    IN active = {} \/ index > (Max(active) + stopGap) % IndexBound

(* The addresses of a keychain of n whose history is fetched.              *)
Scanned(used, n, stopGap) ==
    {i \in 0..(n - 1) : \A j \in 0..(i - 1) : ~GapReached(used, stopGap, j)}
=============================================================================
