----------------------------- MODULE CoinsFlush -----------------------------
(***************************************************************************)
(* What survives a crash (validation.cpp, txdb.cpp, blockstorage.cpp): the *)
(* block and undo files, the block index database and the coins database,  *)
(* written one after the other by FlushStateToDisk, the last one in        *)
(* batches, and ReplayBlocks, which repairs an interrupted flush.          *)
(*                                                                         *)
(* CoinsTip() is its content: what a flush writes is where it differs from *)
(* the database (CoinsViews shows that the flags say so).  A coin is the   *)
(* height it was created at, 0 if there is none.                           *)
(***************************************************************************)
EXTENDS Naturals, Sequences

CONSTANTS
    Block, Genesis, NoBlock, \* NoBlock is the null hash
    Parent, Height,
    OutPoint,
    Vtx,                     \* the transactions of each block: [in, out : SUBSET OutPoint]
    WriteMayFail,            \* may a write or a flush fail?
    MaxFile                  \* bound: the block files are 0 .. MaxFile

ParentClosed(S) == \A x \in S \ {Genesis} : Parent[x] \in S

(* b and all blocks below it: those in every set that has b and the parents *)
(* of its members.                                                          *)
Ancestors ==
    [b \in Block |->
        {a \in Block : \A S \in SUBSET Block : b \in S /\ ParentClosed(S) => a \in S}]

Made(b) == UNION {Vtx[b][i].out : i \in DOMAIN Vtx[b]}
Used(b) == UNION {Vtx[b][i].in : i \in DOMAIN Vtx[b]}

(* The blocks are valid: on no chain is a coin made twice or used twice, or *)
(* used before it is made.                                                  *)
ASSUME BlocksAssumption ==
    /\ Genesis \in Block /\ NoBlock \notin Block
    /\ Height \in [Block -> Nat] /\ Height[Genesis] = 0 /\ Vtx[Genesis] = <<>>
    /\ \A b \in Block \ {Genesis} : Parent[b] \in Block /\ Height[b] = Height[Parent[b]] + 1
    /\ \A b \in Block : Vtx[b] \in Seq([in : SUBSET OutPoint, out : SUBSET OutPoint])
    /\ \A b \in Block : \A x, y \in Ancestors[b] : x # y => /\ Made(x) \cap Made(y) = {}
                                                            /\ Used(x) \cap Used(y) = {}
    /\ \A b \in Block : \A i, j \in DOMAIN Vtx[b] : i # j => /\ Vtx[b][i].out \cap Vtx[b][j].out = {}
                                                           /\ Vtx[b][i].in \cap Vtx[b][j].in = {}
    /\ \A b \in Block : \A i \in DOMAIN Vtx[b] : \A o \in Vtx[b][i].in :
          \/ \E x \in Ancestors[b] \ {b} : o \in Made(x)
          \/ \E j \in 1 .. i - 1 : o \in Vtx[b][j].out
    /\ WriteMayFail \in BOOLEAN /\ MaxFile \in Nat

NoCoins == [o \in OutPoint |-> 0]

(* The unspent coins of the chain up to b, by what it made and used. *)
Utxo(b) ==
    [o \in OutPoint |->
        IF \E x \in Ancestors[b] : o \in Made(x) /\ \A y \in Ancestors[b] : o \notin Used(y)
        THEN Height[CHOOSE x \in Ancestors[b] : o \in Made(x)]
        ELSE 0]

VARIABLES
    pc,       \* "run", FlushStateToDisk ("files", "coins"), ReplayBlocks ("roll", "replay"), "down", "error"
    coins,    \* the content of CoinsTip()
    best,     \* its hashBlock, or the block that ReplayBlocks has come to
    undo,     \* the undo records in the files
    items,    \* what the block index in memory has positions of: <<b, "data">>, <<b, "undo">>
    dirty,    \* setDirtyBlockIndex
    file,     \* nFile of each block, of its data and its undo record
    lastFile, \* nLastBlockFile
    durable,  \* the items that a power failure leaves
    lost,     \* the items of the index database that one has taken
    indexDB,  \* the items the block index database has positions of
    lastFileDB, \* its DB_LAST_BLOCK
    db,       \* the coins database: coins, DB_BEST_BLOCK and DB_HEAD_BLOCKS
    dbSynced, \* what a power failure leaves of it
    shutdown,
    thrown    \* history: has a write or a flush failed?

memVars == <<coins, best, items, dirty, file, lastFile, shutdown>>
fileVars == <<undo, durable, lost>>
indexVars == <<indexDB, lastFileDB>>
vars == <<pc, memVars, fileVars, indexVars, db, dbSynced, thrown>>

EmptyDB == [coins |-> NoCoins, best |-> NoBlock, heads |-> <<>>]

(* The first start: nothing was flushed, the genesis block is connected. *)
Init ==
    /\ pc = "run" /\ coins = NoCoins /\ best = Genesis /\ shutdown = FALSE
    /\ undo = [b \in Block |-> NoCoins]
    /\ items = {<<Genesis, "data">>} /\ dirty = {} /\ durable = items /\ indexDB = items /\ lost = {}
    /\ file = [b \in Block |-> 0] /\ lastFile = 0 /\ lastFileDB = 0
    /\ db = EmptyDB /\ dbSynced = EmptyDB /\ thrown = FALSE
-----------------------------------------------------------------------------
(* The transactions of b that make or spend o. *)
Touching(b, o) == {i \in DOMAIN Vtx[b] : o \in Vtx[b][i].in \cup Vtx[b][i].out}

First(S) == CHOOSE i \in S : \A j \in S : i <= j
Last(S) == CHOOSE i \in S : \A j \in S : j <= i

(* Its inputs are spent, then its outputs are added. *)
UpdateCoins(tx, h, o) == IF o \in tx.out THEN h ELSE 0

(* RollforwardBlock, and what ConnectBlock does to the coins: a coin is     *)
(* left as the last transaction that touches it leaves it.                  *)
RollforwardBlock(view, b) ==
    [o \in OutPoint |->
        IF Touching(b, o) = {} THEN view[o]
        ELSE UpdateCoins(Vtx[b][Last(Touching(b, o))], Height[b], o)]

(* The CBlockUndo of b: the coins its transactions spend. *)
BlockUndo(view, b) ==
    [o \in OutPoint |-> IF o \in Used(b) THEN IF o \in Made(b) THEN Height[b] ELSE view[o] ELSE 0]

(* A transaction undone: its outputs go, then its inputs come back. *)
ApplyTxInUndo(tx, spent, o) == IF o \in tx.in THEN spent[o] ELSE 0

DisconnectBlock_Bug(view, b) ==
    [o \in OutPoint |->
        IF Touching(b, o) = {} THEN view[o]
        ELSE ApplyTxInUndo(Vtx[b][Last(Touching(b, o))], undo[b], o)]

(* DisconnectBlock: the transactions undone, the last one first, so that a  *)
(* coin is left as the first one found it.                                  *)
DisconnectBlock(view, b) ==
    [o \in OutPoint |->
        IF Touching(b, o) = {} THEN view[o]
        ELSE ApplyTxInUndo(Vtx[b][First(Touching(b, o))], undo[b], o)]

(* nHeightLast of the file f is h. *)
HeightLast(f, h) ==
    LET blocks == {x \in Block : <<x, "data">> \in items /\ file[x] = f}
    IN  (\E x \in blocks : Height[x] = h) /\ \A x \in blocks : Height[x] <= h

(* FlatFileSeq::Flush of the block and undo files with the number f, with   *)
(* the items has in them. When it fails the node is only told to shut down. *)
Flush(has, f, kinds) ==
    \E failed \in IF WriteMayFail THEN SUBSET kinds ELSE {{}} :
        /\ durable' = durable \cup {i \in has \ lost : file[i[1]] = f /\ i[2] \in kinds \ failed}
        /\ shutdown' = (shutdown \/ failed # {}) /\ thrown' = (thrown \/ failed # {})

(* AcceptBlock saves a block: FindBlockPos puts it into the last file, or,  *)
(* when that is full, flushes the block file, and the undo file too if it   *)
(* has kept up, and begins the next.                                        *)
AcceptBlock(b) ==
    /\ pc = "run" /\ ~shutdown
    /\ <<b, "data">> \notin items /\ <<Parent[b], "data">> \in items
    /\ \/ file' = [file EXCEPT ![b] = lastFile] /\ UNCHANGED <<lastFile, durable, shutdown, thrown>>
       \/ /\ lastFile < MaxFile
          /\ Flush(items, lastFile, IF HeightLast(lastFile, Height[best]) THEN {"data", "undo"} ELSE {"data"})
          /\ file' = [file EXCEPT ![b] = lastFile + 1] /\ lastFile' = lastFile + 1
    /\ items' = items \cup {<<b, "data">>} /\ dirty' = dirty \cup {b}
    /\ UNCHANGED <<pc, coins, best, undo, lost, indexVars, db, dbSynced>>

MarkDirty_Bug(b) == dirty

(* setDirtyBlockIndex with a block that got undo data or a raised validity. *)
MarkDirty(b) == dirty \cup {b}

(* WriteUndoDataForBlock: unless there is a record already one is written   *)
(* into the undo file of the block, which is flushed if it is an older one  *)
(* and the block is its highest.                                            *)
WriteUndo(b) ==
    /\ items' = items \cup {<<b, "undo">>} /\ dirty' = MarkDirty(b)
    /\ undo' = IF <<b, "undo">> \in items THEN undo ELSE [undo EXCEPT ![b] = BlockUndo(coins, b)]
    /\ IF <<b, "undo">> \notin items /\ file[b] < lastFile /\ HeightLast(file[b], Height[b])
       THEN Flush(items', file[b], {"undo"})
       ELSE UNCHANGED <<durable, shutdown, thrown>>

(* ConnectTip; the order of blocks is ActivateBestChain's business. *)
ConnectTip(b) ==
    /\ pc = "run" /\ ~shutdown
    /\ b # Genesis /\ Parent[b] = best /\ <<b, "data">> \in items \ lost
    /\ coins' = RollforwardBlock(coins, b) /\ best' = b
    /\ WriteUndo(b)
    /\ UNCHANGED <<pc, file, lastFile, lost, indexVars, db, dbSynced>>

(* DisconnectTip *)
DisconnectTip ==
    /\ pc = "run" /\ ~shutdown
    /\ best # Genesis /\ {best} \X {"data", "undo"} \cap lost = {}
    /\ coins' = DisconnectBlock(coins, best) /\ best' = Parent[best]
    /\ UNCHANGED <<pc, items, dirty, file, lastFile, shutdown, fileVars, indexVars, db, dbSynced, thrown>>

(* ConnectTip or DisconnectTip cannot read what it needs: AbortNode. *)
ReadFails ==
    /\ pc = "run" /\ ~shutdown
    /\ \E b \in {i[1] : i \in lost} : b = best \/ (b # Genesis /\ Parent[b] = best /\ <<b, "data">> \in lost)
    /\ shutdown' = TRUE
    /\ UNCHANGED <<pc, coins, best, items, dirty, file, lastFile, fileVars, indexVars, db, dbSynced, thrown>>
-----------------------------------------------------------------------------
(* FlushStateToDisk writes: FlushBlockFile first, which flushes the last    *)
(* block file and the last undo file, and goes on if that fails.            *)
FlushBlockFile ==
    /\ pc = "run" /\ pc' = "files"
    /\ Flush(items, lastFile, {"data", "undo"})
    /\ UNCHANGED <<coins, best, items, dirty, file, lastFile, undo, lost, indexVars, db, dbSynced>>

(* CBlockTreeDB::WriteBatchSync with the dirty entries. Only a full flush   *)
(* goes on to the coins.                                                    *)
WriteBatchSync ==
    /\ pc = "files"
    /\ indexDB' = indexDB \cup {i \in items : i[1] \in dirty} /\ dirty' = {}
    /\ lastFileDB' = lastFile
    /\ pc' \in {"run", "coins"}
    /\ UNCHANGED <<coins, best, items, file, lastFile, shutdown, fileVars, db, dbSynced, thrown>>

(* It throws after setDirtyBlockIndex was emptied; AbortNode. *)
WriteBatchSyncFails ==
    /\ pc = "files" /\ WriteMayFail
    /\ dirty' = {} /\ pc' = "run" /\ shutdown' = TRUE /\ thrown' = TRUE
    /\ UNCHANGED <<coins, best, items, file, lastFile, fileVars, indexVars, db, dbSynced>>

Writing == pc \in {"coins", "replay"}

(* The entries BatchWrite has to write, and the database with those of S.   *)
Unwritten == {o \in OutPoint : coins[o] # db.coins[o]}
With(S) == [o \in OutPoint |-> IF o \in S THEN coins[o] ELSE db.coins[o]]

(* old_tip of BatchWrite *)
OldTip == IF db.best = NoBlock /\ Len(db.heads) = 2 THEN db.heads[2] ELSE db.best

(* The database after a batch that is not the last: it is between two tips. *)
PartialDB(S) == [coins |-> With(S), best |-> NoBlock, heads |-> <<best, OldTip>>]

(* And after the last one. *)
FinalDB == [coins |-> coins, best |-> best, heads |-> <<>>]

(* CCoinsViewDB::BatchWrite writes a partial batch. *)
WriteBatch ==
    /\ Writing
    /\ \E S \in SUBSET Unwritten : S # {} /\ db' = PartialDB(S)
    /\ UNCHANGED <<pc, memVars, fileVars, indexVars, dbSynced, thrown>>

(* Its last batch. *)
FinalBatch ==
    /\ Writing
    /\ db' = FinalDB /\ pc' = "run"
    /\ UNCHANGED <<memVars, fileVars, indexVars, dbSynced, thrown>>

(* A batch throws: its entries have left the cache already. FlushStateToDisk *)
(* aborts the node, which still flushes in Shutdown(); ReplayBlocks ends it. *)
BatchFails ==
    /\ Writing /\ WriteMayFail
    /\ \E S \in SUBSET Unwritten : coins' = [o \in OutPoint |-> IF o \in S THEN db.coins[o] ELSE coins[o]]
    /\ pc' = IF pc = "replay" THEN "down" ELSE "run"
    /\ shutdown' = TRUE /\ thrown' = TRUE
    /\ UNCHANGED <<best, items, dirty, file, lastFile, fileVars, indexVars, db, dbSynced>>
-----------------------------------------------------------------------------
(* The system writes the database's log out, whenever it likes. *)
SyncDB ==
    /\ dbSynced' = db
    /\ UNCHANGED <<pc, memVars, fileVars, indexVars, db, thrown>>

(* The memory is gone; what the block index database has no position of     *)
(* will be written over.                                                    *)
Forget ==
    /\ pc' = "down"
    /\ coins' = NoCoins /\ best' = Genesis /\ items' = {} /\ dirty' = {} /\ shutdown' = FALSE
    /\ file' = [b \in Block |-> IF \E i \in indexDB : i[1] = b THEN file[b] ELSE 0] /\ lastFile' = lastFileDB
    /\ UNCHANGED <<undo, indexVars, thrown>>

(* The process ends; what it has written is with the system. *)
Crash ==
    /\ pc \notin {"down", "error"}
    /\ Forget
    /\ durable' = durable \cap indexDB
    /\ UNCHANGED <<lost, db, dbSynced>>

(* The power fails: what was not synchronised may be lost. *)
PowerFails ==
    /\ pc # "error"
    /\ Forget
    /\ \E gone \in SUBSET (indexDB \ durable) : lost' = lost \cup gone
    /\ durable' = indexDB \ lost'
    /\ db' = dbSynced /\ UNCHANGED dbSynced

InIndexDB(b) == <<b, "data">> \in indexDB

(* LoadBlockIndex, and LoadChainTip on a database between no tips; an empty *)
(* one gets the genesis block connected.                                    *)
LoadChainTip ==
    /\ pc = "down" /\ db.heads = <<>>
    /\ IF db.best = NoBlock THEN best' = Genesis /\ pc' = "run"
       ELSE best' = db.best /\ pc' = IF InIndexDB(db.best) THEN "run" ELSE "error"
    /\ coins' = db.coins /\ items' = indexDB /\ dirty' = {} /\ shutdown' = FALSE
    /\ UNCHANGED <<file, lastFile, fileVars, indexVars, db, dbSynced, thrown>>

(* ReplayBlocks begins: from the old tip, or from the genesis block in the  *)
(* first flush.                                                             *)
ReplayBlocks ==
    /\ pc = "down" /\ db.heads # <<>>
    /\ LET old == db.heads[2]
       IN  IF InIndexDB(db.heads[1]) /\ (old # NoBlock => InIndexDB(old))
           THEN pc' = "roll" /\ best' = IF old = NoBlock THEN Genesis ELSE old
           ELSE pc' = "error" /\ UNCHANGED best
    /\ coins' = db.coins /\ items' = indexDB /\ dirty' = {} /\ shutdown' = FALSE
    /\ UNCHANGED <<file, lastFile, fileVars, indexVars, db, dbSynced, thrown>>

(* What it reads is on the disk. *)
CanRead(b, kinds) == {b} \X kinds \subseteq indexDB \ lost

(* Its first loop, down to the last common block. *)
Rollback ==
    /\ pc = "roll" /\ best \notin Ancestors[db.heads[1]]
    /\ IF CanRead(best, {"data", "undo"})
       THEN coins' = DisconnectBlock(coins, best) /\ best' = Parent[best] /\ UNCHANGED pc
       ELSE pc' = "error" /\ UNCHANGED <<coins, best>>
    /\ UNCHANGED <<items, dirty, file, lastFile, shutdown, fileVars, indexVars, db, dbSynced, thrown>>

(* Its second loop, up to the new tip. *)
Rollforward(b) ==
    /\ pc = "roll" /\ b \in Ancestors[db.heads[1]] /\ Parent[b] = best
    /\ IF CanRead(b, {"data"})
       THEN coins' = RollforwardBlock(coins, b) /\ best' = b /\ UNCHANGED pc
       ELSE pc' = "error" /\ UNCHANGED <<coins, best>>
    /\ UNCHANGED <<items, dirty, file, lastFile, shutdown, fileVars, indexVars, db, dbSynced, thrown>>

(* The cache with the coins of the new tip is flushed. *)
FlushReplayed ==
    /\ pc = "roll" /\ best = db.heads[1]
    /\ pc' = "replay"
    /\ UNCHANGED <<memVars, fileVars, indexVars, db, dbSynced, thrown>>

Next ==
    \/ \E b \in Block \ {Genesis} : AcceptBlock(b) \/ ConnectTip(b)
    \/ DisconnectTip \/ ReadFails
    \/ FlushBlockFile \/ WriteBatchSync \/ WriteBatchSyncFails
    \/ WriteBatch \/ FinalBatch \/ BatchFails
    \/ SyncDB \/ Crash \/ PowerFails \/ LoadChainTip
    \/ ReplayBlocks \/ Rollback \/ (\E b \in Block \ {Genesis} : Rollforward(b)) \/ FlushReplayed

Spec == Init /\ [][Next]_vars
-----------------------------------------------------------------------------
(* The types; the database is at one block or between two. *)
TypeOK ==
    /\ pc \in {"run", "files", "coins", "roll", "replay", "down", "error"}
    /\ coins \in [OutPoint -> Nat] /\ best \in Block /\ shutdown \in BOOLEAN /\ thrown \in BOOLEAN
    /\ items \subseteq Block \X {"data", "undo"} /\ dirty \subseteq Block
    /\ indexDB \subseteq Block \X {"data", "undo"} /\ durable \subseteq Block \X {"data", "undo"}
    /\ lost \subseteq indexDB /\ file \in [Block -> Nat] /\ lastFile \in Nat /\ lastFileDB \in Nat
    /\ \A d \in {db, dbSynced} :
          /\ d.coins \in [OutPoint -> Nat]
          /\ \/ d.best \in Block \cup {NoBlock} /\ d.heads = <<>>
             \/ d.best = NoBlock /\ d.heads \in Block \X (Block \cup {NoBlock})

ConsistentAt(d) == d.best # NoBlock => d.coins = Utxo(d.best)

(* BatchWrite and ReplayBlocks: a coins database with a best block holds    *)
(* exactly the unspent coins of that block's chain, however often flushes   *)
(* and replays were interrupted before.                                     *)
MarkedConsistent == ~thrown => ConsistentAt(db)

(* ReplayBlocks and DisconnectTip leave in memory exactly the unspent coins *)
(* of the tip: none is lost, restored twice or restored with another height. *)
CoinsOfTip == ~thrown /\ pc \in {"run", "files", "coins", "replay"} => coins = Utxo(best)

(* The coins are exact wherever the node says at which block they are: in   *)
(* the database (DB_BEST_BLOCK) and in CoinsTip(), after any interruptions. *)
CoinsExact == MarkedConsistent /\ CoinsOfTip

(* The order of the writes in FlushStateToDisk: wherever it is interrupted, *)
(* the next start finds the blocks and undo records it has to replay, and   *)
(* the tip of the coins database in the block index. Undo records that a    *)
(* power failure has taken are excepted; OnlyOlderUndoAtRisk says which.    *)
AlwaysRestarts == ~thrown /\ lost = {} => pc # "error"

(* FlushStateToDisk: block file information "may refer to block and undo    *)
(* files". The index database never refers to a block that a power failure  *)
(* can take, nor to such an undo record in the last file; those of older    *)
(* files it may, for FlushBlockFile does not flush them.                    *)
OnlyOlderUndoAtRisk ==
    ~thrown => \A i \in indexDB \ durable : i[2] = "undo" /\ file[i[1]] < lastFileDB

(* BatchWrite asserts that an interrupted transition is completed to the    *)
(* block it was going to.                                                   *)
SameHead == Writing /\ db.heads # <<>> => db.heads[1] = best

(* The three stores that FlushStateToDisk writes one after the other fit    *)
(* each other at every moment, and the next start can go on from them:      *)
(* always when only the process died, and after a power failure unless it   *)
(* took undo records from an older file.                                    *)
StoresFit == TypeOK /\ AlwaysRestarts /\ OnlyOlderUndoAtRisk /\ SameHead

(* What a comment of BatchWrite says also when a batch was lost: "In the    *)
(* last batch, mark the database as consistent with hashBlock again."       *)
LastBatchConsistent == ConsistentAt(db)

(* FlushStateToDisk: "First make sure all block and undo data is flushed to *)
(* disk", so that what the next start wants is there.                       *)
AllDataFlushed == ~thrown => pc # "error"
=============================================================================
