-------------------------- MODULE CoinsViewsProofs --------------------------
(***************************************************************************)
(* Proofs about CoinsViews: the flags of both caches mean what coins.h     *)
(* says they mean, and the stack of caches implements CoinsMap.            *)
(***************************************************************************)
EXTENDS CoinsViews, TLAPS

USE ZenonT(10), SMTT(60)

(* What the flags of an entry e say when the level below shows the coin     *)
(* "below", and what the level of e shows then.                             *)
LevelOK(e, below) ==
    e.present => /\ e.fresh => below = Spent
                 /\ ~e.dirty => e.coin = below
                 /\ \/ e.coin # Spent /\ (e.fresh => e.dirty)
                    \/ e.coin = Spent /\ e.fresh # e.dirty

CoinOf(e, below) == IF e.present THEN e.coin ELSE below

(* The inductive invariant: the flags are right at both levels. Neither of  *)
(* them is inductive without the other: what FRESH says after a flush rests *)
(* on what DIRTY said before it.                                            *)
IInv == /\ TypeOK
        /\ \A o \in Outpoint : /\ LevelOK(tip[o], db[o])
                               /\ LevelOK(view[o], CoinOf(tip[o], db[o]))
-----------------------------------------------------------------------------
(* Cached builds an entry, and an entry is one of its values. *)
LEMMA CachedType ==
    ASSUME NEW c \in Coin \cup {Spent}, NEW d \in BOOLEAN, NEW f \in BOOLEAN
    PROVE  /\ Cached(c, d, f) \in Entry
           /\ Cached(c, d, f).present /\ Cached(c, d, f).coin = c
           /\ Cached(c, d, f).dirty = d /\ Cached(c, d, f).fresh = f
  BY DEF Cached, Entry

(* What a member of a cache can be. *)
LEMMA EntryType ==
    ASSUME NEW e \in Entry \cup {Absent}
    PROVE  /\ e.present \in BOOLEAN
           /\ e.present => e \in Entry /\ e.coin \in Coin \cup {Spent} /\ e.dirty \in BOOLEAN /\ e.fresh \in BOOLEAN
           /\ ~e.present => e = Absent
  <1>1. CASE e \in Entry
    <2>1. e.present = TRUE /\ e.coin \in Coin \cup {Spent} /\ e.dirty \in BOOLEAN /\ e.fresh \in BOOLEAN
      BY <1>1 DEF Entry
    <2> QED
      BY <1>1, <2>1
  <1>2. CASE e = Absent
    <2>1. e.present = FALSE
      BY <1>2 DEF Absent
    <2> QED
      BY <1>2, <2>1
  <1> QED
    BY <1>1, <1>2

(* FetchCoin copies the parent's coin as an entry without flags, or does    *)
(* nothing; other outpoints are not touched.                                *)
LEMMA FetchCoinEffect ==
    ASSUME NEW cache \in Cache, NEW o \in Outpoint, NEW below \in Coin \cup {Spent}
    PROVE  /\ FetchCoin(cache, o, below) \in Cache
           /\ \A p \in Outpoint \ {o} : FetchCoin(cache, o, below)[p] = cache[p]
           /\ \/ FetchCoin(cache, o, below)[o] = cache[o] /\ (cache[o].present \/ below = Spent)
              \/ /\ FetchCoin(cache, o, below)[o] = Cached(below, FALSE, FALSE)
                 /\ ~cache[o].present /\ below # Spent
  BY CachedType DEF FetchCoin, Cache

(* AddCoin leaves a DIRTY entry with the new coin, FRESH if it was, or if   *)
(* the caller excludes an overwrite and there is no unflushed change.       *)
LEMMA AddCoinEffect ==
    ASSUME NEW cache \in Cache, NEW o \in Outpoint, NEW coin \in Coin, NEW ow \in BOOLEAN
    PROVE  /\ AddCoin(cache, o, coin, ow) \in Cache
           /\ \A p \in Outpoint \ {o} : AddCoin(cache, o, coin, ow)[p] = cache[p]
           /\ AddCoin(cache, o, coin, ow)[o].present
           /\ AddCoin(cache, o, coin, ow)[o].coin = coin
           /\ AddCoin(cache, o, coin, ow)[o].dirty
           /\ AddCoin(cache, o, coin, ow)[o].fresh <=>
                 \/ ~ow /\ ~(cache[o].present /\ cache[o].dirty)
                 \/ cache[o].present /\ cache[o].fresh
  <1> DEFINE e == cache[o]
             f == (~ow /\ ~(e.present /\ e.dirty)) \/ (e.present /\ e.fresh)
  <1>1. f \in BOOLEAN
    OBVIOUS
  <1>2. AddCoin(cache, o, coin, ow) = [cache EXCEPT ![o] = Cached(coin, TRUE, f)]
    BY DEF AddCoin
  <1>3. /\ Cached(coin, TRUE, f) \in Entry /\ Cached(coin, TRUE, f).present
        /\ Cached(coin, TRUE, f).coin = coin /\ Cached(coin, TRUE, f).dirty = TRUE
        /\ Cached(coin, TRUE, f).fresh = f
    BY <1>1, CachedType
  <1> HIDE DEF f
  <1>4. AddCoin(cache, o, coin, ow) \in Cache
    BY <1>2, <1>3 DEF Cache
  <1>5. /\ \A p \in Outpoint \ {o} : AddCoin(cache, o, coin, ow)[p] = cache[p]
        /\ AddCoin(cache, o, coin, ow)[o] = Cached(coin, TRUE, f)
    BY <1>2 DEF Cache
  <1>6. /\ AddCoin(cache, o, coin, ow)[o].present /\ AddCoin(cache, o, coin, ow)[o].dirty
        /\ AddCoin(cache, o, coin, ow)[o].coin = coin
        /\ AddCoin(cache, o, coin, ow)[o].fresh = f
    BY <1>3, <1>5
  <1> QED
    BY <1>4, <1>5, <1>6 DEF f

(* SpendCoin erases a FRESH entry and leaves any other as a DIRTY spent one.*)
LEMMA SpendCoinEffect ==
    ASSUME NEW cache \in Cache, NEW o \in Outpoint
    PROVE  /\ SpendCoin(cache, o) \in Cache
           /\ \A p \in Outpoint \ {o} : SpendCoin(cache, o)[p] = cache[p]
           /\ ~cache[o].present => SpendCoin(cache, o)[o] = Absent
           /\ cache[o].present /\ cache[o].fresh => SpendCoin(cache, o)[o] = Absent
           /\ cache[o].present /\ ~cache[o].fresh => SpendCoin(cache, o)[o] = Cached(Spent, TRUE, FALSE)
  <1>1. cache[o] \in Entry \cup {Absent}
    BY DEF Cache
  <1>2. ~cache[o].present => cache[o] = Absent
    BY <1>1, EntryType
  <1>3. cache[o].present /\ ~cache[o].fresh => Cached(Spent, TRUE, cache[o].fresh) = Cached(Spent, TRUE, FALSE)
    BY <1>1, EntryType DEF Cached
  <1>4. Cached(Spent, TRUE, FALSE) \in Entry
    BY CachedType
  <1> QED
    BY <1>1, <1>2, <1>3, <1>4 DEF SpendCoin, Cache

(* FetchCoin keeps the flags right and shows the same coin; an entry is     *)
(* missing afterwards only if the coin is spent.                            *)
LEMMA FetchCoinOK ==
    ASSUME NEW cache \in Cache, NEW o \in Outpoint, NEW below \in Coin \cup {Spent},
           LevelOK(cache[o], below)
    PROVE  /\ LevelOK(FetchCoin(cache, o, below)[o], below)
           /\ CoinOf(FetchCoin(cache, o, below)[o], below) = CoinOf(cache[o], below)
           /\ FetchCoin(cache, o, below)[o].present \/ below = Spent
  <1> DEFINE n == FetchCoin(cache, o, below)[o]
             c == Cached(below, FALSE, FALSE)
  <1>1. \/ n = cache[o] /\ (cache[o].present \/ below = Spent)
        \/ n = c /\ ~cache[o].present /\ below # Spent
    BY FetchCoinEffect
  <1>2. c.present /\ c.coin = below /\ c.dirty = FALSE /\ c.fresh = FALSE
    BY CachedType
  <1> HIDE DEF n, c
  <1>3. CASE n = cache[o] /\ (cache[o].present \/ below = Spent)
    BY <1>3 DEF n
  <1>4. CASE n = c /\ ~cache[o].present /\ below # Spent
    BY <1>2, <1>4, Zenon DEF LevelOK, CoinOf, n
  <1> QED
    BY <1>1, <1>3, <1>4

(* AddCoin keeps the flags right if the caller is right that there is no    *)
(* coin to overwrite.                                                       *)
LEMMA AddCoinOK ==
    ASSUME NEW cache \in Cache, NEW o \in Outpoint, NEW coin \in Coin, NEW ow \in BOOLEAN,
           NEW below \in Coin \cup {Spent}, LevelOK(cache[o], below),
           ~ow => CoinOf(cache[o], below) = Spent
    PROVE  /\ LevelOK(AddCoin(cache, o, coin, ow)[o], below)
           /\ CoinOf(AddCoin(cache, o, coin, ow)[o], below) = coin
  <1> DEFINE e == cache[o]
             n == AddCoin(cache, o, coin, ow)[o]
  <1>1. /\ n.present /\ n.coin = coin /\ n.dirty
        /\ n.fresh <=> (~ow /\ ~(e.present /\ e.dirty)) \/ (e.present /\ e.fresh)
    BY SMTT(60), AddCoinEffect
  <1> HIDE DEF n
  <1>2. n.fresh => below = Spent
    BY <1>1, Zenon DEF LevelOK, CoinOf
  <1>3. coin # Spent
    BY CoinsAssumption
  <1> QED
    BY <1>1, <1>2, <1>3, Zenon DEF LevelOK, CoinOf, n

(* SpendCoin, once the entry is fetched, keeps the flags right and leaves   *)
(* the coin spent.                                                          *)
LEMMA SpendCoinOK ==
    ASSUME NEW cache \in Cache, NEW o \in Outpoint, NEW below \in Coin \cup {Spent},
           LevelOK(cache[o], below), cache[o].present \/ below = Spent
    PROVE  /\ LevelOK(SpendCoin(cache, o)[o], below)
           /\ CoinOf(SpendCoin(cache, o)[o], below) = Spent
  <1> DEFINE n == SpendCoin(cache, o)[o]
  <1>1. /\ ~cache[o].present \/ cache[o].fresh => n = Absent
        /\ cache[o].present /\ ~cache[o].fresh => n = Cached(Spent, TRUE, FALSE)
    BY SpendCoinEffect
  <1>2. ~Absent.present
    BY DEF Absent
  <1>3. /\ Cached(Spent, TRUE, FALSE).present /\ Cached(Spent, TRUE, FALSE).coin = Spent
        /\ Cached(Spent, TRUE, FALSE).dirty = TRUE /\ Cached(Spent, TRUE, FALSE).fresh = FALSE
    BY CachedType
  <1> HIDE DEF n
  <1>4. CASE n = Absent
    <2>1. below = Spent
      BY <1>1, <1>4, <1>2, <1>3, Zenon DEF LevelOK
    <2> QED
      BY <1>2, <1>4, <2>1, Zenon DEF LevelOK, CoinOf, n
  <1>5. CASE n = Cached(Spent, TRUE, FALSE)
    <2>1. n.present /\ n.coin = Spent /\ n.dirty = TRUE /\ n.fresh = FALSE
      BY <1>3, <1>5
    <2> QED
      BY <2>1 DEF LevelOK, CoinOf, n
  <1> QED
    BY <1>1, <1>4, <1>5

(* BatchWrite on one outpoint: the parent's flags are right afterwards and  *)
(* it shows what the child showed.                                          *)
LEMMA MergeEntryOK ==
    ASSUME NEW us \in Entry \cup {Absent}, NEW e \in Entry \cup {Absent},
           NEW below \in Coin \cup {Spent},
           LevelOK(us, below), LevelOK(e, CoinOf(us, below))
    PROVE  /\ MergeEntry(us, e) \in Entry \cup {Absent}
           /\ LevelOK(MergeEntry(us, e), below)
           /\ CoinOf(MergeEntry(us, e), below) = CoinOf(e, CoinOf(us, below))
  <1> DEFINE n == MergeEntry(us, e)
  <1>1. ~Absent.present
    BY DEF Absent
  <1>2. CASE ~e.present \/ ~e.dirty
    <2>1. n = us
      BY <1>2 DEF MergeEntry
    <2> QED
      BY <1>2, <2>1, Zenon DEF LevelOK, CoinOf
  <1>3. CASE e.present /\ e.dirty /\ ~us.present
    <2>1. n = IF e.fresh /\ e.coin = Spent THEN Absent ELSE Cached(e.coin, TRUE, e.fresh)
      BY <1>3 DEF MergeEntry
    <2>2. e.coin \in Coin \cup {Spent} /\ e.fresh \in BOOLEAN
      BY <1>3, EntryType
    <2>3. CASE n = Absent /\ e.fresh /\ e.coin = Spent
      BY <1>1, <1>3, <2>3, Zenon DEF LevelOK, CoinOf
    <2>4. CASE n = Cached(e.coin, TRUE, e.fresh) /\ ~(e.fresh /\ e.coin = Spent)
      <3> DEFINE c == Cached(e.coin, TRUE, e.fresh)
      <3>0. c \in Entry /\ c.present /\ c.coin = e.coin /\ c.dirty = TRUE /\ c.fresh = e.fresh
        BY <2>2, CachedType
      <3> HIDE DEF n, c
      <3>1. n \in Entry /\ n.present /\ n.coin = e.coin /\ n.dirty = TRUE /\ n.fresh = e.fresh
        BY <2>4, <3>0 DEF c
      <3> QED
        BY <1>3, <2>2, <2>4, <3>1 DEF LevelOK, CoinOf, n
    <2> QED
      BY <2>1, <2>3, <2>4
  <1>4. CASE e.present /\ e.dirty /\ us.present
    <2>1. n = IF us.fresh /\ e.coin = Spent THEN Absent ELSE Cached(e.coin, TRUE, us.fresh)
      BY <1>4 DEF MergeEntry
    <2>2. e.coin \in Coin \cup {Spent} /\ us.fresh \in BOOLEAN
      BY <1>4, EntryType
    <2>3. CASE n = Absent /\ us.fresh /\ e.coin = Spent
      BY <1>1, <1>4, <2>3, Zenon DEF LevelOK, CoinOf
    <2>4. CASE n = Cached(e.coin, TRUE, us.fresh) /\ ~(us.fresh /\ e.coin = Spent)
      <3> DEFINE c == Cached(e.coin, TRUE, us.fresh)
      <3>0. c \in Entry /\ c.present /\ c.coin = e.coin /\ c.dirty = TRUE /\ c.fresh = us.fresh
        BY <2>2, CachedType
      <3> HIDE DEF n, c
      <3>1. n \in Entry /\ n.present /\ n.coin = e.coin /\ n.dirty = TRUE /\ n.fresh = us.fresh
        BY <2>4, <3>0 DEF c
      <3> QED
        BY <1>4, <2>2, <2>4, <3>1 DEF LevelOK, CoinOf, n
    <2> QED
      BY <2>1, <2>3, <2>4
  <1> QED
    BY <1>2, <1>3, <1>4, EntryType, Zenon
-----------------------------------------------------------------------------
(* What CoinsTip() and the block's view show, and the coins it shows are    *)
(* coins.                                                                   *)
LEMMA ShownType ==
    ASSUME TypeOK, NEW o \in Outpoint
    PROVE  /\ tip[o] \in Entry \cup {Absent} /\ view[o] \in Entry \cup {Absent}
           /\ db[o] \in Coin \cup {Spent}
           /\ TipCoin(o) = CoinOf(tip[o], db[o]) /\ TipCoin(o) \in Coin \cup {Spent}
           /\ ViewCoin(o) = CoinOf(view[o], TipCoin(o)) /\ ViewCoin(o) \in Coin \cup {Spent}
  <1>1. tip[o] \in Entry \cup {Absent} /\ view[o] \in Entry \cup {Absent} /\ db[o] \in Coin \cup {Spent}
    BY DEF TypeOK, Cache
  <1>2. TipCoin(o) = CoinOf(tip[o], db[o]) /\ ViewCoin(o) = CoinOf(view[o], TipCoin(o))
    BY DEF TipCoin, ViewCoin, CoinOf
  <1>3. TipCoin(o) \in Coin \cup {Spent}
    BY <1>1, EntryType DEF TipCoin
  <1>4. ViewCoin(o) \in Coin \cup {Spent}
    BY <1>1, <1>3, EntryType DEF ViewCoin
  <1> QED
    BY <1>1, <1>2, <1>3, <1>4

(* Filling CoinsTip() from the database changes nothing it shows. *)
LEMMA TipFetchOK ==
    ASSUME IInv, NEW o \in Outpoint, NEW t \in {tip, FetchCoin(tip, o, db[o])}
    PROVE  /\ t \in Cache
           /\ \A p \in Outpoint : LevelOK(t[p], db[p]) /\ CoinOf(t[p], db[p]) = TipCoin(p)
  <1>1. tip \in Cache /\ db[o] \in Coin \cup {Spent}
    BY ShownType DEF IInv, TypeOK
  <1>2. CASE t = tip
    BY <1>1, <1>2, ShownType DEF IInv
  <1>3. CASE t = FetchCoin(tip, o, db[o])
    <2>1. t \in Cache /\ \A p \in Outpoint \ {o} : t[p] = tip[p]
      <3>1. /\ FetchCoin(tip, o, db[o]) \in Cache
            /\ \A p \in Outpoint \ {o} : FetchCoin(tip, o, db[o])[p] = tip[p]
        BY <1>1, FetchCoinEffect, Zenon
      <3> QED
        BY <1>3, <3>1, Zenon
    <2>2. LevelOK(t[o], db[o]) /\ CoinOf(t[o], db[o]) = TipCoin(o)
      BY <1>1, <1>3, FetchCoinOK, ShownType DEF IInv
    <2> QED
      BY <2>1, <2>2, ShownType DEF IInv
  <1> QED
    BY <1>2, <1>3

(* Filling the block's view from CoinsTip() changes nothing it shows. *)
LEMMA ViewFetchOK ==
    ASSUME IInv, NEW o \in Outpoint
    PROVE  LET v == FetchCoin(view, o, TipCoin(o)) IN
           /\ v \in Cache
           /\ v[o].present \/ TipCoin(o) = Spent
           /\ \A p \in Outpoint : LevelOK(v[p], TipCoin(p)) /\ CoinOf(v[p], TipCoin(p)) = ViewCoin(p)
  <1> DEFINE v == FetchCoin(view, o, TipCoin(o))
  <1>1. view \in Cache /\ TipCoin(o) \in Coin \cup {Spent}
    BY ShownType DEF IInv, TypeOK
  <1>2. v \in Cache /\ \A p \in Outpoint \ {o} : v[p] = view[p]
    BY <1>1, FetchCoinEffect
  <1>3. \A p \in Outpoint : LevelOK(view[p], TipCoin(p)) /\ CoinOf(view[p], TipCoin(p)) = ViewCoin(p)
    BY ShownType DEF IInv
  <1>4. /\ LevelOK(v[o], TipCoin(o)) /\ CoinOf(v[o], TipCoin(o)) = ViewCoin(o)
        /\ v[o].present \/ TipCoin(o) = Spent
    BY <1>1, <1>3, FetchCoinOK
  <1> QED
    BY SMTT(60), <1>2, <1>3, <1>4

(* The invariant from its parts, for a step that leaves the database alone  *)
(* and does not change what CoinsTip() shows.                               *)
LEMMA ViewStep ==
    ASSUME IInv, TypeOK', UNCHANGED <<db, dbBest, tipHash>>,
           \A p \in Outpoint : LevelOK(tip'[p], db[p]) /\ CoinOf(tip'[p], db[p]) = TipCoin(p),
           \A p \in Outpoint : LevelOK(view'[p], TipCoin(p))
    PROVE  /\ IInv'
           /\ \A p \in Outpoint : TipCoin(p)' = TipCoin(p)
           /\ \A p \in Outpoint : ViewCoin(p)' = CoinOf(view'[p], TipCoin(p))
  <1>1. \A p \in Outpoint : TipCoin(p)' = TipCoin(p)
    BY DEF TipCoin, CoinOf
  <1>2. \A p \in Outpoint : ViewCoin(p)' = CoinOf(view'[p], TipCoin(p))
    BY <1>1 DEF ViewCoin, CoinOf
  <1>3. IInv'
    BY DEF IInv
  <1> QED
    BY <1>1, <1>2, <1>3
-----------------------------------------------------------------------------
(* Without a view, and with an empty one, the level below shows through. *)
LEMMA EmptyShows ==
    /\ \A o \in Outpoint : ~EmptyCache[o].present
    /\ EmptyCache \in Cache
    /\ \A o \in Outpoint, c \in Coin \cup {Spent} : LevelOK(EmptyCache[o], c) /\ CoinOf(EmptyCache[o], c) = c
  <1>1. ~Absent.present
    BY DEF Absent
  <1> QED
    BY <1>1 DEF EmptyCache, Cache, LevelOK, CoinOf

(* Reading through the block's view only fills the caches. *)
LEMMA ReadThroughViewOK ==
    ASSUME IInv, NEW o \in Outpoint, ReadThroughView(o)
    PROVE  IInv' /\ UNCHANGED Abs!vars
  <1>1. /\ tip' \in {tip, FetchCoin(tip, o, db[o])} /\ view' = FetchCoin(view, o, TipCoin(o))
        /\ viewOpen /\ UNCHANGED <<db, dbBest, tipHash, viewHash, viewOpen>>
    BY DEF ReadThroughView
  <1>2. /\ tip' \in Cache
        /\ \A p \in Outpoint : LevelOK(tip'[p], db[p]) /\ CoinOf(tip'[p], db[p]) = TipCoin(p)
    BY <1>1, TipFetchOK
  <1>3. /\ view' \in Cache
        /\ \A p \in Outpoint : LevelOK(view'[p], TipCoin(p)) /\ CoinOf(view'[p], TipCoin(p)) = ViewCoin(p)
    BY <1>1, ViewFetchOK
  <1>4. TypeOK'
    BY <1>1, <1>2, <1>3 DEF IInv, TypeOK
  <1>5. IInv' /\ \A p \in Outpoint : TipCoin(p)' = TipCoin(p) /\ ViewCoin(p)' = ViewCoin(p)
    BY <1>1, <1>2, <1>3, <1>4, ViewStep
  <1>6. TipBest' = TipBest /\ ViewBest' = ViewBest
    BY <1>1 DEF TipBest, ViewBest
  <1> QED
    BY <1>1, <1>5, <1>6 DEF Abs!vars

(* Updating a state of CoinsMap. *)
LEMMA RecordUpdate ==
    ASSUME NEW f, NEW b, NEW o, NEW c
    PROVE  /\ [coins |-> [f EXCEPT ![o] = c], best |-> b] = [[coins |-> f, best |-> b] EXCEPT !.coins[o] = c]
           /\ [coins |-> f, best |-> c] = [[coins |-> f, best |-> b] EXCEPT !.best = c]
  BY SMTT(60)

(* A step that gives one outpoint of the block's view a new coin is an      *)
(* update of the working coins.                                             *)
LEMMA UpdateStep ==
    ASSUME IInv, NEW o \in Outpoint, NEW c \in Coin \cup {Spent},
           viewOpen, UNCHANGED <<db, dbBest, tipHash, viewHash, viewOpen>>,
           tip' \in {tip, FetchCoin(tip, o, db[o])},
           view' \in Cache, LevelOK(view'[o], TipCoin(o)), CoinOf(view'[o], TipCoin(o)) = c,
           \A p \in Outpoint \ {o} : LevelOK(view'[p], TipCoin(p)) /\ CoinOf(view'[p], TipCoin(p)) = ViewCoin(p)
    PROVE  IInv' /\ Abs!Update
  <1>2. /\ tip' \in Cache
        /\ \A p \in Outpoint : LevelOK(tip'[p], db[p]) /\ CoinOf(tip'[p], db[p]) = TipCoin(p)
    BY TipFetchOK
  <1>4. TypeOK'
    BY <1>2 DEF IInv, TypeOK
  <1>5. /\ IInv' /\ \A p \in Outpoint : TipCoin(p)' = TipCoin(p)
        /\ \A p \in Outpoint : ViewCoin(p)' = IF p = o THEN c ELSE ViewCoin(p)
    BY <1>2, <1>4, ViewStep
  <1>6. TipBest' = TipBest /\ ViewBest' = ViewBest
    BY DEF TipBest, ViewBest
  <1>7. [p \in Outpoint |-> ViewCoin(p)]' = [[p \in Outpoint |-> ViewCoin(p)] EXCEPT ![o] = c]
    BY <1>5
  <1>8. [p \in Outpoint |-> TipCoin(p)]' = [p \in Outpoint |-> TipCoin(p)]
    BY <1>5
  <1> DEFINE W == [coins |-> [p \in Outpoint |-> ViewCoin(p)], best |-> ViewBest]
             C == [coins |-> [p \in Outpoint |-> TipCoin(p)], best |-> TipBest]
             f == [p \in Outpoint |-> ViewCoin(p)]
  <1>9. W' = [W EXCEPT !.coins[o] = c]
    <2>1. W' = [coins |-> [f EXCEPT ![o] = c], best |-> ViewBest]
      BY <1>6, <1>7
    <2>2. W = [coins |-> f, best |-> ViewBest]
      OBVIOUS
    <2> HIDE DEF W, f
    <2> QED
      BY SMTT(60), <2>1, <2>2, RecordUpdate
  <1>10. C' = C /\ [coins |-> db, best |-> dbBest]' = [coins |-> db, best |-> dbBest]
    BY <1>6, <1>8
  <1> HIDE DEF W, C
  <1>11. Abs!Update
    BY <1>9, <1>10 DEF Abs!Update, W, C
  <1> QED
    BY <1>5, <1>11

(* A new output: BIP30 has excluded a coin in its place, so whatever the    *)
(* caller passes for possible_overwrite is right.                           *)
LEMMA ConnectAddOK ==
    ASSUME IInv, NEW o \in Outpoint, NEW coin \in Coin, ConnectAdd(o, coin)
    PROVE  IInv' /\ Abs!Update
  <1>1. PICK ow \in BOOLEAN : view' = AddCoin(view, o, coin, ow)
    BY DEF ConnectAdd
  <1>2. viewOpen /\ ViewCoin(o) = Spent /\ UNCHANGED <<db, dbBest, tip, tipHash, viewHash, viewOpen>>
    BY DEF ConnectAdd
  <1>3. view \in Cache /\ TipCoin(o) \in Coin \cup {Spent}
    BY ShownType DEF IInv, TypeOK
  <1>4. \A p \in Outpoint : LevelOK(view[p], TipCoin(p)) /\ CoinOf(view[p], TipCoin(p)) = ViewCoin(p)
    BY ShownType DEF IInv
  <1>5. view' \in Cache /\ \A p \in Outpoint \ {o} : view'[p] = view[p]
    BY SMTT(60), <1>1, <1>3, AddCoinEffect
  <1>6. LevelOK(view'[o], TipCoin(o)) /\ CoinOf(view'[o], TipCoin(o)) = coin
    BY SMTT(60), <1>1, <1>2, <1>3, <1>4, AddCoinOK
  <1>7. tip' \in {tip, FetchCoin(tip, o, db[o])}
    BY <1>2
  <1> QED
    BY <1>2, <1>4, <1>5, <1>6, <1>7, UpdateStep

(* A checked addition: possible_overwrite is what HaveCoin finds. *)
LEMMA CheckedAddOK ==
    ASSUME IInv, NEW o \in Outpoint, NEW coin \in Coin, CheckedAdd(o, coin)
    PROVE  IInv' /\ Abs!Update
  <1> DEFINE v == FetchCoin(view, o, TipCoin(o))
             ow == ViewCoin(o) # Spent
  <1>1. /\ tip' \in {tip, FetchCoin(tip, o, db[o])} /\ view' = AddCoin(v, o, coin, ow)
        /\ viewOpen /\ UNCHANGED <<db, dbBest, tipHash, viewHash, viewOpen>>
    BY DEF CheckedAdd
  <1>2. /\ v \in Cache
        /\ \A p \in Outpoint : LevelOK(v[p], TipCoin(p)) /\ CoinOf(v[p], TipCoin(p)) = ViewCoin(p)
    BY ViewFetchOK
  <1>3. TipCoin(o) \in Coin \cup {Spent} /\ ow \in BOOLEAN
    BY ShownType DEF IInv
  <1>4. ~ow => CoinOf(v[o], TipCoin(o)) = Spent
    BY <1>2
  <1> HIDE DEF v, ow
  <1>5. view' \in Cache /\ \A p \in Outpoint \ {o} : view'[p] = v[p]
    BY SMTT(60), <1>1, <1>2, <1>3, AddCoinEffect
  <1>6. LevelOK(view'[o], TipCoin(o)) /\ CoinOf(view'[o], TipCoin(o)) = coin
    BY SMTT(60), <1>1, <1>2, <1>3, <1>4, AddCoinOK
  <1> QED
    BY <1>1, <1>2, <1>5, <1>6, UpdateStep

(* A spend. *)
LEMMA SpendOK ==
    ASSUME IInv, NEW o \in Outpoint, Spend(o)
    PROVE  IInv' /\ Abs!Update
  <1> DEFINE v == FetchCoin(view, o, TipCoin(o))
  <1>1. /\ tip' \in {tip, FetchCoin(tip, o, db[o])} /\ view' = SpendCoin(v, o)
        /\ viewOpen /\ UNCHANGED <<db, dbBest, tipHash, viewHash, viewOpen>>
    BY DEF Spend
  <1>2. /\ v \in Cache
        /\ v[o].present \/ TipCoin(o) = Spent
        /\ \A p \in Outpoint : LevelOK(v[p], TipCoin(p)) /\ CoinOf(v[p], TipCoin(p)) = ViewCoin(p)
    BY ViewFetchOK
  <1>3. TipCoin(o) \in Coin \cup {Spent}
    BY ShownType DEF IInv
  <1> HIDE DEF v
  <1>5. view' \in Cache /\ \A p \in Outpoint \ {o} : view'[p] = v[p]
    BY <1>1, <1>2, SpendCoinEffect
  <1>6. LevelOK(view'[o], TipCoin(o)) /\ CoinOf(view'[o], TipCoin(o)) = Spent
    BY <1>1, <1>2, <1>3, SpendCoinOK
  <1> QED
    BY <1>1, <1>2, <1>5, <1>6, UpdateStep

(* A new view shows what CoinsTip() shows; caching the best block changes   *)
(* nobody's answer.                                                         *)
LEMMA OpenViewOK ==
    ASSUME IInv, OpenView
    PROVE  IInv' /\ UNCHANGED Abs!vars
  <1>1. /\ view = EmptyCache /\ viewHash = NullHash
        /\ view' = view /\ viewHash' = TipBest /\ tipHash' = TipBest /\ viewOpen' = TRUE
        /\ UNCHANGED <<db, dbBest, tip>>
    BY DEF OpenView, IInv, TypeOK
  <1>2. TipBest \in Hash \cup {NullHash}
    BY DEF IInv, TypeOK, TipBest
  <1>3. TipBest' = TipBest /\ ViewBest' = ViewBest
    BY <1>1 DEF TipBest, ViewBest
  <1>4. TypeOK'
    BY <1>1, <1>2 DEF IInv, TypeOK
  <1>5. IInv' /\ \A p \in Outpoint : TipCoin(p)' = TipCoin(p) /\ ViewCoin(p)' = ViewCoin(p)
    BY <1>1, <1>4 DEF IInv, TipCoin, ViewCoin
  <1> QED
    BY <1>1, <1>3, <1>5 DEF Abs!vars

(* SetBestBlock stamps the working coins. *)
LEMMA SetBestBlockOK ==
    ASSUME IInv, NEW h \in Hash, SetBestBlock(h)
    PROVE  IInv' /\ Abs!Stamp
  <1>1. viewOpen /\ viewHash' = h /\ UNCHANGED <<db, dbBest, tip, tipHash, view, viewOpen>>
    BY DEF SetBestBlock
  <1>2. TypeOK'
    BY <1>1 DEF IInv, TypeOK
  <1>3. /\ IInv' /\ TipBest' = TipBest
        /\ \A p \in Outpoint : TipCoin(p)' = TipCoin(p) /\ ViewCoin(p)' = ViewCoin(p)
    BY <1>1, <1>2 DEF IInv, TipCoin, ViewCoin, TipBest
  <1>4. ViewBest' = h
    BY <1>1, CoinsAssumption DEF ViewBest
  <1>5. /\ [p \in Outpoint |-> ViewCoin(p)]' = [p \in Outpoint |-> ViewCoin(p)]
        /\ [p \in Outpoint |-> TipCoin(p)]' = [p \in Outpoint |-> TipCoin(p)]
    BY <1>3
  <1> DEFINE W == [coins |-> [p \in Outpoint |-> ViewCoin(p)], best |-> ViewBest]
             C == [coins |-> [p \in Outpoint |-> TipCoin(p)], best |-> TipBest]
             f == [p \in Outpoint |-> ViewCoin(p)]
  <1>7. W' = [W EXCEPT !.best = h]
    <2>1. W' = [coins |-> f, best |-> h]
      BY <1>4, <1>5
    <2>2. W = [coins |-> f, best |-> ViewBest]
      OBVIOUS
    <2> HIDE DEF W, f
    <2> QED
      BY SMTT(60), <2>1, <2>2, RecordUpdate
  <1>8. C' = C /\ [coins |-> db, best |-> dbBest]' = [coins |-> db, best |-> dbBest]
    BY <1>1, <1>3, <1>5
  <1> HIDE DEF W, C
  <1>6. Abs!Stamp
    BY <1>7, <1>8 DEF Abs!Stamp, W, C
  <1> QED
    BY <1>3, <1>6

(* Flushing the view commits all it showed. *)
LEMMA FlushViewOK ==
    ASSUME IInv, FlushView
    PROVE  IInv' /\ Abs!Commit
  <1>1. /\ viewHash # NullHash /\ tip' = BatchWrite(tip, view) /\ tipHash' = viewHash
        /\ view' = EmptyCache /\ viewHash' = NullHash /\ viewOpen' = FALSE /\ UNCHANGED <<db, dbBest>>
    BY DEF FlushView
  <1>2. ASSUME NEW p \in Outpoint
        PROVE  /\ tip'[p] \in Entry \cup {Absent} /\ LevelOK(tip'[p], db[p])
               /\ CoinOf(tip'[p], db[p]) = ViewCoin(p)
    <2>1. tip'[p] = MergeEntry(tip[p], view[p])
      BY <1>1 DEF BatchWrite
    <2>2. LevelOK(tip[p], db[p]) /\ LevelOK(view[p], CoinOf(tip[p], db[p]))
      BY DEF IInv
    <2>3. /\ tip[p] \in Entry \cup {Absent} /\ view[p] \in Entry \cup {Absent}
          /\ db[p] \in Coin \cup {Spent} /\ ViewCoin(p) = CoinOf(view[p], CoinOf(tip[p], db[p]))
      BY ShownType DEF IInv
    <2> QED
      BY SMTT(60), <2>1, <2>2, <2>3, MergeEntryOK
  <1>3. tip' \in Cache
    <2>1. tip' = [p \in Outpoint |-> MergeEntry(tip[p], view[p])]
      BY <1>1 DEF BatchWrite
    <2> QED
      BY <1>2, <2>1 DEF Cache
  <1>4. TypeOK'
    BY <1>1, <1>3, EmptyShows DEF IInv, TypeOK
  <1>5. \A p \in Outpoint : TipCoin(p)' = ViewCoin(p) /\ ViewCoin(p)' = ViewCoin(p)
    BY <1>1, <1>2, EmptyShows DEF TipCoin, ViewCoin, CoinOf
  <1>6. IInv'
    <2>1. \A p \in Outpoint : ViewCoin(p) \in Coin \cup {Spent}
      BY ShownType DEF IInv
    <2> QED
      BY <1>1, <1>2, <1>4, <2>1, EmptyShows DEF IInv
  <1>7. TipBest' = ViewBest /\ ViewBest' = ViewBest
    BY <1>1 DEF TipBest, ViewBest
  <1>8. /\ [p \in Outpoint |-> ViewCoin(p)]' = [p \in Outpoint |-> ViewCoin(p)]
        /\ [p \in Outpoint |-> TipCoin(p)]' = [p \in Outpoint |-> ViewCoin(p)]
    BY <1>5
  <1>9. Abs!Commit
    BY <1>1, <1>7, <1>8 DEF Abs!Commit
  <1> QED
    BY <1>6, <1>9

(* A step after which CoinsTip() is as before and there is no view: what    *)
(* the view held is lost.                                                   *)
LEMMA DiscardViewOK ==
    ASSUME IInv, DiscardView
    PROVE  IInv' /\ Abs!Discard
  <1>1. /\ view' = EmptyCache /\ viewHash' = NullHash /\ viewOpen' = FALSE
        /\ UNCHANGED <<db, dbBest, tip, tipHash>>
    BY DEF DiscardView
  <1>2. TypeOK'
    BY <1>1, EmptyShows DEF IInv, TypeOK
  <1>3. \A p \in Outpoint : TipCoin(p)' = TipCoin(p) /\ ViewCoin(p)' = TipCoin(p)
    BY <1>1, EmptyShows DEF TipCoin, ViewCoin
  <1>4. IInv'
    <2>1. \A p \in Outpoint : CoinOf(tip[p], db[p]) \in Coin \cup {Spent}
      BY ShownType DEF IInv
    <2> QED
      BY <1>1, <1>2, <2>1, EmptyShows DEF IInv
  <1>5. TipBest' = TipBest /\ ViewBest' = TipBest
    BY <1>1 DEF TipBest, ViewBest
  <1>6. /\ [p \in Outpoint |-> ViewCoin(p)]' = [p \in Outpoint |-> TipCoin(p)]
        /\ [p \in Outpoint |-> TipCoin(p)]' = [p \in Outpoint |-> TipCoin(p)]
    BY <1>3
  <1>7. Abs!Discard
    BY <1>1, <1>5, <1>6 DEF Abs!Discard
  <1> QED
    BY <1>4, <1>7

(* Reading CoinsTip() between blocks only fills it. *)
LEMMA ReadTipOK ==
    ASSUME IInv, NEW o \in Outpoint, ReadTip(o)
    PROVE  IInv' /\ UNCHANGED Abs!vars
  <1>1. tip' = FetchCoin(tip, o, db[o]) /\ UNCHANGED <<db, dbBest, tipHash, view, viewHash, viewOpen>>
    BY DEF ReadTip
  <1>2. /\ tip' \in Cache
        /\ \A p \in Outpoint : LevelOK(tip'[p], db[p]) /\ CoinOf(tip'[p], db[p]) = TipCoin(p)
    BY <1>1, TipFetchOK
  <1>3. TypeOK'
    BY <1>1, <1>2 DEF IInv, TypeOK
  <1>4. \A p \in Outpoint : LevelOK(view[p], TipCoin(p)) /\ CoinOf(view[p], TipCoin(p)) = ViewCoin(p)
    BY ShownType DEF IInv
  <1>5. IInv' /\ \A p \in Outpoint : TipCoin(p)' = TipCoin(p) /\ ViewCoin(p)' = ViewCoin(p)
    BY <1>1, <1>2, <1>3, <1>4, ViewStep
  <1>6. TipBest' = TipBest /\ ViewBest' = ViewBest
    BY <1>1 DEF TipBest, ViewBest
  <1> QED
    BY <1>1, <1>5, <1>6 DEF Abs!vars

(* Uncache drops an entry that says nothing the database does not say. *)
LEMMA UncacheOK ==
    ASSUME IInv, NEW o \in Outpoint, Uncache(o)
    PROVE  IInv' /\ UNCHANGED Abs!vars
  <1>1. /\ tip[o].present /\ ~tip[o].dirty /\ tip' = [tip EXCEPT ![o] = Absent]
        /\ UNCHANGED <<db, dbBest, tipHash, view, viewHash, viewOpen>>
    BY DEF Uncache
  <1>2. tip \in Cache
    BY DEF IInv, TypeOK
  <1>3. tip' \in Cache /\ tip'[o] = Absent /\ \A p \in Outpoint \ {o} : tip'[p] = tip[p]
    BY <1>1, <1>2 DEF Cache
  <1>4. TypeOK'
    BY <1>1, <1>3 DEF IInv, TypeOK
  <1>5. LevelOK(tip'[o], db[o]) /\ CoinOf(tip'[o], db[o]) = TipCoin(o)
    <2>1. ~tip'[o].present
      BY SMTT(60), <1>3 DEF Absent
    <2>2. tip[o].coin = db[o]
      BY <1>1 DEF IInv, LevelOK
    <2> QED
      BY <1>1, <2>1, <2>2 DEF LevelOK, CoinOf, TipCoin
  <1>6. \A p \in Outpoint : LevelOK(tip'[p], db[p]) /\ CoinOf(tip'[p], db[p]) = TipCoin(p)
    BY <1>3, <1>5, ShownType DEF IInv
  <1>7. \A p \in Outpoint : LevelOK(view[p], TipCoin(p)) /\ CoinOf(view[p], TipCoin(p)) = ViewCoin(p)
    BY ShownType DEF IInv
  <1>8. IInv' /\ \A p \in Outpoint : TipCoin(p)' = TipCoin(p) /\ ViewCoin(p)' = ViewCoin(p)
    BY <1>1, <1>4, <1>6, <1>7, ViewStep
  <1>9. TipBest' = TipBest /\ ViewBest' = ViewBest
    BY <1>1 DEF TipBest, ViewBest
  <1> QED
    BY <1>1, <1>8, <1>9 DEF Abs!vars

(* Flushing CoinsTip() writes exactly what it showed, though only its DIRTY *)
(* entries are written.                                                     *)
LEMMA FlushTipOK ==
    ASSUME IInv, FlushTip
    PROVE  IInv' /\ Abs!Sync
  <1>1. /\ TipBest # NullHash /\ dbBest' = TipBest /\ tipHash' = TipBest /\ tip' = EmptyCache
        /\ db' = [o \in Outpoint |-> IF tip[o].present /\ tip[o].dirty THEN tip[o].coin ELSE db[o]]
        /\ view = EmptyCache /\ viewHash = NullHash /\ UNCHANGED <<view, viewHash, viewOpen>>
    BY DEF FlushTip, IInv, TypeOK
  <1>2. \A p \in Outpoint : db'[p] = TipCoin(p)
    BY <1>1, Zenon DEF IInv, LevelOK, TipCoin
  <1>3. \A p \in Outpoint : TipCoin(p) \in Coin \cup {Spent} /\ ViewCoin(p) = TipCoin(p)
    BY <1>1, ShownType, EmptyShows DEF IInv, ViewCoin
  <1>4. TipBest \in Hash \cup {NullHash}
    BY DEF IInv, TypeOK, TipBest
  <1>5. db' = [p \in Outpoint |-> TipCoin(p)]
    BY <1>1, <1>2
  <1>6. db' \in [Outpoint -> Coin \cup {Spent}]
    BY <1>3, <1>5
  <1>7. TypeOK'
    BY <1>1, <1>4, <1>6, EmptyShows DEF IInv, TypeOK
  <1>8. \A p \in Outpoint : TipCoin(p)' = TipCoin(p) /\ ViewCoin(p)' = TipCoin(p)
    BY <1>1, <1>2, EmptyShows DEF TipCoin, ViewCoin
  <1>9. IInv'
    <2>1. \A p \in Outpoint : db'[p] \in Coin \cup {Spent}
      BY <1>2, <1>3
    <2> QED
      BY <1>1, <1>7, <2>1, EmptyShows DEF IInv
  <1>10. TipBest' = TipBest /\ ViewBest = TipBest /\ ViewBest' = TipBest
    BY <1>1 DEF TipBest, ViewBest
  <1>11. /\ [p \in Outpoint |-> ViewCoin(p)]' = [p \in Outpoint |-> TipCoin(p)]
         /\ [p \in Outpoint |-> ViewCoin(p)] = [p \in Outpoint |-> TipCoin(p)]
         /\ [p \in Outpoint |-> TipCoin(p)]' = [p \in Outpoint |-> TipCoin(p)]
    BY <1>3, <1>8
  <1>12. Abs!Sync
    BY <1>1, <1>5, <1>10, <1>11 DEF Abs!Sync
  <1> QED
    BY <1>9, <1>12

(* A restart shows the database. *)
LEMMA RestartOK ==
    ASSUME IInv, Restart
    PROVE  IInv' /\ Abs!Restart
  <1>1. /\ tip' = EmptyCache /\ tipHash' = NullHash /\ view' = EmptyCache /\ viewHash' = NullHash
        /\ viewOpen' = FALSE /\ UNCHANGED <<db, dbBest>>
    BY DEF Restart
  <1>2. TypeOK'
    BY <1>1, EmptyShows DEF IInv, TypeOK
  <1>3. \A p \in Outpoint : TipCoin(p)' = db[p] /\ ViewCoin(p)' = db[p]
    BY <1>1, EmptyShows DEF TipCoin, ViewCoin
  <1>4. IInv'
    <2>1. \A p \in Outpoint : db[p] \in Coin \cup {Spent}
      BY ShownType DEF IInv
    <2> QED
      BY <1>1, <1>2, <2>1, EmptyShows DEF IInv
  <1>5. TipBest' = dbBest /\ ViewBest' = dbBest
    BY <1>1 DEF TipBest, ViewBest
  <1>6. db = [p \in Outpoint |-> db[p]]
    BY DEF IInv, TypeOK
  <1>7. /\ [p \in Outpoint |-> ViewCoin(p)]' = db
        /\ [p \in Outpoint |-> TipCoin(p)]' = db
    BY <1>3, <1>6
  <1>8. Abs!Restart
    BY <1>1, <1>5, <1>7 DEF Abs!Restart
  <1> QED
    BY <1>4, <1>8
-----------------------------------------------------------------------------
(* The invariant holds of a new database. *)
LEMMA InitOK == Init => IInv /\ Abs!Init
  <1> SUFFICES ASSUME Init PROVE IInv /\ Abs!Init
    OBVIOUS
  <1>1. TypeOK
    BY EmptyShows DEF Init, TypeOK
  <1>2. \A p \in Outpoint : TipCoin(p) = Spent /\ ViewCoin(p) = Spent
    BY EmptyShows DEF Init, TipCoin, ViewCoin
  <1>3. IInv
    BY <1>1, EmptyShows DEF Init, IInv
  <1>4. TipBest = NullHash /\ ViewBest = NullHash
    BY DEF Init, TipBest, ViewBest
  <1>5. /\ [p \in Outpoint |-> TipCoin(p)] = [p \in Outpoint |-> Spent]
        /\ [p \in Outpoint |-> ViewCoin(p)] = [p \in Outpoint |-> Spent]
    BY <1>2
  <1>6. Abs!Init
    BY <1>4, <1>5 DEF Init, Abs!Init, Abs!Empty
  <1> QED
    BY <1>3, <1>6

(* Every step keeps the invariant and is a step of CoinsMap or invisible. *)
LEMMA StepOK == IInv /\ [Next]_vars => IInv' /\ [Abs!Next]_(Abs!vars)
  <1> SUFFICES ASSUME IInv, [Next]_vars PROVE IInv' /\ [Abs!Next]_(Abs!vars)
    OBVIOUS
  <1>1. CASE OpenView
    BY <1>1, OpenViewOK
  <1>2. CASE FlushView
    BY <1>2, FlushViewOK DEF Abs!Next
  <1>3. CASE DiscardView
    BY <1>3, DiscardViewOK DEF Abs!Next
  <1>4. CASE FlushTip
    BY <1>4, FlushTipOK DEF Abs!Next
  <1>5. CASE Restart
    BY <1>5, RestartOK DEF Abs!Next
  <1>6. ASSUME NEW o \in Outpoint, ReadThroughView(o) \/ Spend(o) \/ ReadTip(o) \/ Uncache(o)
        PROVE  IInv' /\ [Abs!Next]_(Abs!vars)
    BY <1>6, ReadThroughViewOK, SpendOK, ReadTipOK, UncacheOK DEF Abs!Next
  <1>7. ASSUME NEW o \in Outpoint, NEW coin \in Coin, ConnectAdd(o, coin) \/ CheckedAdd(o, coin)
        PROVE  IInv' /\ [Abs!Next]_(Abs!vars)
    BY <1>7, ConnectAddOK, CheckedAddOK DEF Abs!Next
  <1>8. ASSUME NEW h \in Hash, SetBestBlock(h)
        PROVE  IInv' /\ [Abs!Next]_(Abs!vars)
    BY <1>8, SetBestBlockOK DEF Abs!Next
  <1>9. CASE UNCHANGED vars
    <2>1. IInv'
      BY <1>9 DEF vars, IInv, TypeOK
    <2>2. UNCHANGED Abs!vars
      BY <1>9 DEF vars, Abs!vars, TipCoin, ViewCoin, TipBest, ViewBest
    <2> QED
      BY <2>1, <2>2
  <1> QED
    BY <1>1, <1>2, <1>3, <1>4, <1>5, <1>6, <1>7, <1>8, <1>9 DEF Next

(* The three properties of the flags follow from the invariant. *)
LEMMA IInvImplies == IInv => TypeOK /\ FreshMeansSpentBelow /\ CleanMeansEqualBelow /\ OnlyListedEntries
  <1> SUFFICES ASSUME IInv PROVE TypeOK /\ FreshMeansSpentBelow /\ CleanMeansEqualBelow /\ OnlyListedEntries
    OBVIOUS
  <1>1. \A p \in Outpoint : TipCoin(p) = CoinOf(tip[p], db[p])
    BY DEF TipCoin, CoinOf
  <1>2. TypeOK
    BY DEF IInv
  <1>3. FreshMeansSpentBelow
    BY <1>1, Zenon DEF IInv, LevelOK, FreshMeansSpentBelow
  <1>4. CleanMeansEqualBelow
    BY <1>1, Zenon DEF IInv, LevelOK, CleanMeansEqualBelow
  <1>5. OnlyListedEntries
    <2> SUFFICES ASSUME NEW o \in Outpoint, NEW e \in {tip[o], view[o]}, e.present
                 PROVE  \/ e.coin # Spent /\ (e.fresh => e.dirty)
                        \/ e.coin = Spent /\ e.fresh # e.dirty
      BY DEF OnlyListedEntries
    <2>1. \E below : LevelOK(e, below)
      BY DEF IInv
    <2> QED
      BY <2>1, Zenon DEF LevelOK
  <1> QED
    BY <1>2, <1>3, <1>4, <1>5

(* In every reachable state, whatever the numbers of outputs and of blocks, *)
(* the flags of both caches mean what coins.h says.                         *)
THEOREM FlagsCorrect == Spec => []EntriesRight
  <1>1. Init => IInv
    BY InitOK
  <1>2. IInv /\ [Next]_vars => IInv'
    BY StepOK
  <1> QED
    BY <1>1, <1>2, IInvImplies, PTL DEF Spec, EntriesRight

(* The stack of caches implements the plain sets of coins of CoinsMap: no   *)
(* coin is lost or resurrected by caching, flushing, discarding, restart.   *)
THEOREM Refinement == Spec => ImplementsCoinsMap
  <1>1. Init => IInv /\ Abs!Init
    BY InitOK
  <1>2. IInv /\ [Next]_vars => IInv' /\ [Abs!Next]_(Abs!vars)
    BY StepOK
  <1> QED
    BY <1>1, <1>2, PTL DEF Spec, ImplementsCoinsMap, Abs!Spec
=============================================================================
