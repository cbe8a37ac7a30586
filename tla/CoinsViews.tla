----------------------------- MODULE CoinsViews -----------------------------
(***************************************************************************)
(* The stack of coins views (coins.h, coins.cpp, txdb.cpp):                *)
(*                                                                         *)
(*   view  the CCoinsViewCache that ConnectTip or DisconnectTip stacks on  *)
(*         CoinsTip() for one block and flushes or throws away             *)
(*   tip   CoinsTip(), the long-lived cache over the database              *)
(*   db    CCoinsViewDB, whose write is one step here                      *)
(*                                                                         *)
(* A cache maps an outpoint to an entry with a DIRTY and a FRESH flag.     *)
(* Everything below runs with cs_main held; while a block's view exists    *)
(* nobody else touches CoinsTip().                                         *)
(*                                                                         *)
(* A definition whose name ends in _Bug is the one after it with a mistake *)
(* that some property notices.                                             *)
(***************************************************************************)
CONSTANTS Outpoint, Coin, Spent, Hash, NullHash

ASSUME CoinsAssumption == Spent \notin Coin /\ NullHash \notin Hash

VARIABLES db, dbBest,      \* the database and its DB_BEST_BLOCK record
          tip, tipHash,    \* CoinsTip(): cacheCoins and hashBlock
          view, viewHash,  \* the block's view: cacheCoins and hashBlock
          viewOpen         \* is there such a view?

vars == <<db, dbBest, tip, tipHash, view, viewHash, viewOpen>>

Absent == [present |-> FALSE]
Entry == [present : {TRUE}, coin : Coin \cup {Spent}, dirty : BOOLEAN, fresh : BOOLEAN]
Cache == [Outpoint -> Entry \cup {Absent}]
EmptyCache == [o \in Outpoint |-> Absent]
Cached(coin, dirty, fresh) == [present |-> TRUE, coin |-> coin, dirty |-> dirty, fresh |-> fresh]
-----------------------------------------------------------------------------
(* What GetCoin answers at each level (Spent when it returns false). *)
TipCoin(o) == IF tip[o].present THEN tip[o].coin ELSE db[o]
ViewCoin(o) == IF view[o].present THEN view[o].coin ELSE TipCoin(o)
TipBest == IF tipHash = NullHash THEN dbBest ELSE tipHash
ViewBest == IF viewHash = NullHash THEN TipBest ELSE viewHash

(* FetchCoin: a miss is filled from the level below, unless that level has  *)
(* no unspent coin to offer (its GetCoin then returns false).               *)
FetchCoin(cache, o, below) ==
    IF cache[o].present \/ below = Spent
    THEN cache
    ELSE [cache EXCEPT ![o] = Cached(below, FALSE, FALSE)]

(* AddCoin: FRESH only if the caller excludes an overwrite and this cache   *)
(* has no unflushed spend of the same coin.                                 *)
AddCoin(cache, o, coin, possible_overwrite) ==
    LET e == cache[o]
        fresh == ~possible_overwrite /\ ~(e.present /\ e.dirty)
    IN  [cache EXCEPT ![o] = Cached(coin, TRUE, fresh \/ (e.present /\ e.fresh))]

SpendNotDirty_Bug(cache, o) ==
    IF ~cache[o].present
    THEN cache
    ELSE [cache EXCEPT ![o] = IF @.fresh THEN Absent ELSE Cached(Spent, @.dirty, @.fresh)]

(* SpendCoin, after FetchCoin: a FRESH entry is erased, any other one stays *)
(* as a DIRTY spent entry; nothing happens without an entry.                *)
SpendCoin(cache, o) ==
    IF ~cache[o].present
    THEN cache
    ELSE [cache EXCEPT ![o] = IF @.fresh THEN Absent ELSE Cached(Spent, TRUE, @.fresh)]

MergeEntry_Bug(us, e) ==
    CASE ~e.present \/ ~e.dirty -> us
      [] e.present /\ e.dirty /\ ~us.present ->
            IF e.fresh /\ e.coin = Spent THEN Absent ELSE Cached(e.coin, TRUE, e.fresh)
      [] e.present /\ e.dirty /\ us.present ->
            IF us.fresh /\ e.coin = Spent THEN Absent ELSE Cached(e.coin, TRUE, us.fresh \/ e.fresh)

(* What BatchWrite makes of the parent's entry us for the child's entry e.  *)
MergeEntry(us, e) ==
    CASE ~e.present \/ ~e.dirty -> us
      [] e.present /\ e.dirty /\ ~us.present ->
            IF e.fresh /\ e.coin = Spent THEN Absent ELSE Cached(e.coin, TRUE, e.fresh)
      [] e.present /\ e.dirty /\ us.present ->
            IF us.fresh /\ e.coin = Spent THEN Absent ELSE Cached(e.coin, TRUE, us.fresh)

BatchWrite(parent, child) == [o \in Outpoint |-> MergeEntry(parent[o], child[o])]
-----------------------------------------------------------------------------
(* A new database; genesis is connected like any block. *)
Init ==
    /\ db = [o \in Outpoint |-> Spent] /\ dbBest = NullHash
    /\ tip = EmptyCache /\ tipHash = NullHash
    /\ view = EmptyCache /\ viewHash = NullHash
    /\ viewOpen = FALSE

(* ConnectTip and DisconnectTip stack a view on CoinsTip(); both compare    *)
(* its GetBestBlock() with the block they expect, which caches the hash.    *)
OpenView ==
    /\ ~viewOpen
    /\ viewOpen' = TRUE
    /\ view' = EmptyCache
    /\ viewHash' = TipBest
    /\ tipHash' = TipBest
    /\ UNCHANGED <<db, dbBest, tip>>

(* A read through the block's view (HaveCoin, AccessCoin, GetCoin). *)
ReadThroughView(o) ==
    /\ viewOpen
    /\ tip' = IF view[o].present THEN tip ELSE FetchCoin(tip, o, db[o])
    /\ view' = FetchCoin(view, o, TipCoin(o))
    /\ UNCHANGED <<db, dbBest, tipHash, viewHash, viewOpen>>

(* AddCoins for a new output. ConnectBlock has already refused the block if *)
(* HaveCoin finds the output (BIP30); only a coinbase passes overwrite.     *)
ConnectAdd(o, coin) ==
    /\ viewOpen
    /\ ViewCoin(o) = Spent
    /\ \E fCoinbase \in BOOLEAN : view' = AddCoin(view, o, coin, fCoinbase)
    /\ UNCHANGED <<db, dbBest, tip, tipHash, viewHash, viewOpen>>

(* ApplyTxInUndo, and AddCoins with check_for_overwrite: HaveCoin decides   *)
(* whether the addition is an overwrite.                                    *)
CheckedAdd(o, coin) ==
    /\ viewOpen
    /\ tip' = IF view[o].present THEN tip ELSE FetchCoin(tip, o, db[o])
    /\ view' = AddCoin(FetchCoin(view, o, TipCoin(o)), o, coin, ViewCoin(o) # Spent)
    /\ UNCHANGED <<db, dbBest, tipHash, viewHash, viewOpen>>

(* SpendCoin on the block's view: an input in UpdateCoins, an output in     *)
(* DisconnectBlock, an input in RollforwardBlock.                           *)
Spend(o) ==
    /\ viewOpen
    /\ tip' = IF view[o].present THEN tip ELSE FetchCoin(tip, o, db[o])
    /\ view' = SpendCoin(FetchCoin(view, o, TipCoin(o)), o)
    /\ UNCHANGED <<db, dbBest, tipHash, viewHash, viewOpen>>

(* SetBestBlock, the last thing ConnectBlock and DisconnectBlock do. *)
SetBestBlock(h) ==
    /\ viewOpen
    /\ viewHash' = h
    /\ UNCHANGED <<db, dbBest, tip, tipHash, view, viewOpen>>

(* view.Flush() after the block succeeded; the view goes out of scope. *)
FlushView ==
    /\ viewOpen /\ viewHash # NullHash
    /\ tip' = BatchWrite(tip, view)
    /\ tipHash' = viewHash
    /\ view' = EmptyCache /\ viewHash' = NullHash /\ viewOpen' = FALSE
    /\ UNCHANGED <<db, dbBest>>

(* The block failed: its view goes out of scope unflushed. *)
DiscardView ==
    /\ viewOpen
    /\ view' = EmptyCache /\ viewHash' = NullHash /\ viewOpen' = FALSE
    /\ UNCHANGED <<db, dbBest, tip, tipHash>>

(* A read of CoinsTip() between blocks (mempool acceptance, RPC). *)
ReadTip(o) ==
    /\ ~viewOpen
    /\ tip' = FetchCoin(tip, o, db[o])
    /\ UNCHANGED <<db, dbBest, tipHash, view, viewHash, viewOpen>>

(* Uncache, after a rejected transaction: only an entry without flags goes. *)
Uncache(o) ==
    /\ ~viewOpen
    /\ tip[o].present /\ ~tip[o].dirty /\ ~tip[o].fresh
    /\ tip' = [tip EXCEPT ![o] = Absent]
    /\ UNCHANGED <<db, dbBest, tipHash, view, viewHash, viewOpen>>

(* FlushStateToDisk: CoinsTip().Flush() into the database, which writes and *)
(* erases the DIRTY entries; never without a best block.                    *)
FlushTip ==
    /\ ~viewOpen /\ TipBest # NullHash
    /\ db' = [o \in Outpoint |-> IF tip[o].present /\ tip[o].dirty THEN tip[o].coin ELSE db[o]]
    /\ dbBest' = TipBest /\ tipHash' = TipBest
    /\ tip' = EmptyCache
    /\ UNCHANGED <<view, viewHash, viewOpen>>

(* The process dies, or exits, and starts again: the caches are gone. *)
Restart ==
    /\ tip' = EmptyCache /\ tipHash' = NullHash
    /\ view' = EmptyCache /\ viewHash' = NullHash /\ viewOpen' = FALSE
    /\ UNCHANGED <<db, dbBest>>

Next ==
    \/ OpenView \/ FlushView \/ DiscardView \/ FlushTip \/ Restart
    \/ \E o \in Outpoint : ReadThroughView(o) \/ Spend(o) \/ ReadTip(o) \/ Uncache(o)
    \/ \E o \in Outpoint, coin \in Coin : ConnectAdd(o, coin) \/ CheckedAdd(o, coin)
    \/ \E h \in Hash : SetBestBlock(h)

Spec == Init /\ [][Next]_vars
-----------------------------------------------------------------------------
(* Type correctness of the three levels; a block's view does not outlive    *)
(* the block.                                                               *)
TypeOK ==
    /\ db \in [Outpoint -> Coin \cup {Spent}] /\ dbBest \in Hash \cup {NullHash}
    /\ tip \in Cache /\ tipHash \in Hash \cup {NullHash}
    /\ view \in Cache /\ viewHash \in Hash \cup {NullHash}
    /\ viewOpen \in BOOLEAN
    /\ ~viewOpen => view = EmptyCache /\ viewHash = NullHash

(* coins.h on FRESH: the parent does not have the coin, or has it spent.    *)
(* Marked wrongly, a later spend would be dropped instead of flushed        *)
(* (SpendCoin) or BatchWrite would throw "FRESH flag misapplied".           *)
FreshMeansSpentBelow ==
    \A o \in Outpoint : /\ tip[o].present /\ tip[o].fresh => db[o] = Spent
                        /\ view[o].present /\ view[o].fresh => TipCoin(o) = Spent

(* coins.h on DIRTY: an entry that differs from the parent's version is     *)
(* DIRTY; otherwise the change would not be written by the next flush.      *)
CleanMeansEqualBelow ==
    \A o \in Outpoint : /\ tip[o].present /\ ~tip[o].dirty => tip[o].coin = db[o]
                        /\ view[o].present /\ ~view[o].dirty => view[o].coin = TipCoin(o)

(* coins.h lists which of the eight combinations of spent, FRESH and DIRTY  *)
(* are valid entries.                                                       *)
OnlyListedEntries ==
    \A o \in Outpoint : \A e \in {tip[o], view[o]} : e.present =>
        \/ e.coin # Spent /\ (e.fresh => e.dirty)
        \/ e.coin = Spent /\ e.fresh # e.dirty

(* All that coins.h promises of an entry holds at both levels, whatever was *)
(* fetched, spent, flushed, discarded or uncached before.                   *)
EntriesRight == TypeOK /\ FreshMeansSpentBelow /\ CleanMeansEqualBelow /\ OnlyListedEntries

(* The stack implements one set of coins per level, each changed as a whole *)
(* with the block it belongs to.                                            *)
Abs == INSTANCE CoinsMap WITH
    durable   <- [coins |-> db, best |-> dbBest],
    committed <- [coins |-> [o \in Outpoint |-> TipCoin(o)], best |-> TipBest],
    working   <- [coins |-> [o \in Outpoint |-> ViewCoin(o)], best |-> ViewBest]

(* Every step of the caches is a step of the plain coins sets, or invisible.*)
ImplementsCoinsMap == Abs!Spec
=============================================================================
