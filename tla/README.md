# TLA+ models of the USDGcoin node

USDGcoin is a proof-of-stake node derived from Bitcoin Core 22 and Blackcoin. This
directory models the part of it that decides which chain is active and that keeps
the unspent coins (the block index, `ActivateBestChain`, the coins caches, and what a
crash leaves on the disk), and the parts that run beside it: the memory pool, the
script check threads, an index that follows the chain, the requests for transactions
and the staking thread. TLC checks the models on small instances; TLAPS proves the
central results for every instance.

Paths below are relative to the repository's `src/` directory.

## 1. The system

| Part | State | Operations | Talks to |
|---|---|---|---|
| Block index (`validation.cpp`, `chain.h`) | `m_block_index`, status bits, `nChainTx`, `nSequenceId`, `m_blocks_unlinked`, `m_failed_blocks`, `pindexBestHeader` | `AcceptBlockHeader`, `AcceptBlock`, `ReceivedBlockTransactions`, `LoadBlockIndex` | peers, block files |
| Active chain (`validation.cpp`) | `m_chain`, `setBlockIndexCandidates` | `ActivateBestChain`, `FindMostWorkChain`, `ConnectTip`, `DisconnectTip`, `InvalidateBlock`, `ResetBlockFailureFlags`, `PreciousBlock` | index, coins, mempool, signals |
| Coins (`coins.cpp`, `txdb.cpp`) | block view over `CoinsTip()` over LevelDB; DIRTY and FRESH flags | fetch, add, spend, flush, uncache | active chain, mempool |
| Persistence (`validation.cpp`, `txdb.cpp`, `node/blockstorage.cpp`) | block and undo files, index database, coins database | `FlushStateToDisk`, `BatchWrite`, `ReplayBlocks`, `LoadChainTip` | all of the above |
| Script checks (`checkqueue.h`) | queue, counters, the places of the threads | `Add`, `Wait`, `Loop`, start, stop | `ConnectBlock` |
| Mempool (`txmempool.cpp`, `validation.cpp`) | entries, cached links and counts, `DisconnectedBlockTransactions` | accept, expire, trim, `removeForBlock`, `MaybeUpdateMempoolForReorg` | coins, active chain |
| Indexes (`index/`, `validationinterface.cpp`) | best block, locator, height index, queued callbacks | `ThreadSync`, `BlockConnected`, `ChainStateFlushed`, `Rewind`, `Commit` | active chain, scheduler |
| Requests (`txrequest.cpp`) | announcements and their states | `ReceivedInv`, `GetRequestable`, `RequestedTx`, `ReceivedResponse`, ... | peers |
| Staking (`miner.cpp`, `rpc/mining.cpp`, `init.cpp`, `timedata.cpp`) | the thread, its flag, its template, the last time searched, the adjusted time | `PoSMiner`, `MinePoS`, `InterruptStaking`, `StopStaking` | active chain, wallet, HTTP server |
| Peers (`net_processing.cpp`, `txorphanage.cpp`, `addrman.cpp`) | in-flight blocks, orphans, addresses | message handlers, timers | index, mempool |
| Rules (`pow.cpp`, `versionbits.cpp`, `consensus/`, `script/`) | pure functions | | index |

What is hard to test here:

* `ActivateBestChain` holds `m_cs_chainstate` throughout but gives `cs_main` up between
  its rounds, and `InvalidateBlock` after every block it disconnects. Blocks, headers
  and the RPCs of the operator come in between.
* A reorganisation can fail after half of it was done, because a block turns out
  invalid, or because the disk fails.
* Blocks arrive in any order, and most of the index's bookkeeping is not saved but
  recomputed at a restart.
* Three stores are flushed one after the other, the last one in batches, and the
  process may die between any two writes, also while it repairs the last crash.
* The flags of the coins caches save writes that are believed to be unnecessary; a
  wrong flag shows only after a certain sequence of spends, flushes and reorganisations.
* The check queue has two condition variables and counters that several threads change;
  a lost notification stops the node.
* An index is fed by its own thread first and by queued callbacks later. The change
  from one to the other races with blocks that come and go.
* In a reorganisation entries of the pool are removed while their parents are back in
  the pool but not linked to them yet.
* The staking thread reads the tip without a lock, and its start and stop share a flag
  and a thread object without one. The time it searches can step back.

`PROJECT.json` lists each such hazard with its line and the properties that watch it.

## 2. Modules

| Module | Models | Lines of code |
|---|---|---|
| `CoinsMap` | what a stack of coins views promises: three plain maps, changed by adding, spending and copying | abstract |
| `CoinsViews` | `CCoinsViewCache` twice over `CCoinsViewDB`: entries with DIRTY and FRESH | `coins.cpp`, `txdb.cpp` |
| `CoinsViewsProofs` | its invariants and its refinement of `CoinsMap` | |
| `Chainstate` | block index, candidates, activation, the three RPCs, disk errors, restart | `validation.cpp`, `chain.h` |
| `ChainstateProofs` | facts about trees of blocks, its type invariant, the validity of its active chain; its failure flags, links and `m_blocks_unlinked`; `invalidateblock` and restarts; its candidates, and that the best chain is active | |
| `CoinsFlush` | block and undo files, flush order, batches, crashes, power failures, `ReplayBlocks` | `validation.cpp`, `txdb.cpp`, `node/blockstorage.cpp`, `flatfile.cpp` |
| `CoinsFlushProofs` | the coins are exact, and the stores fit each other, after any interruption | |
| `CheckQueue` | `CCheckQueue`, `CCheckQueueControl` | `checkqueue.h` |
| `CheckQueueProofs` | Wait's answer, the counters, no check called twice | |
| `BaseIndex` | an optional index, with the validation signals as it sees them | `index/base.cpp`, `index/blockfilterindex.cpp`, `validationinterface.cpp` |
| `BaseIndexProofs` | the contents of its database, the hand-over, the promise to callers | |
| `TxRequestRules` | what `TxRequestTracker` promises: the naive tracker of its fuzz test | `test/fuzz/txrequest.cpp` |
| `TxRequest` | `TxRequestTracker` with its ordered index | `txrequest.cpp` |
| `TxRequestProofs` | its invariants and its refinement of `TxRequestRules` | |
| `Mempool` | the pool over a chain that grows and reorganises | `txmempool.cpp`, `txmempool.h`, `validation.cpp`, `consensus/tx_verify.cpp` |
| `MempoolProofs` | inputs, links, counts and limits after, and where it matters within, any reorganisation | |
| `Staking` | the staking thread, the calls that control it, the shutdown | `miner.cpp`, `rpc/mining.cpp`, `init.cpp`, `timedata.cpp` |
| `StakingProofs` | each coinstake time used once, and how the thread ends | |
| `MC...` | the instances for TLC | |

A definition whose name ends in `_Bug` is the definition after it with a plausible
mistake. It is used only to show which property notices the mistake.

### CoinsViews

A cache maps each outpoint to an entry (present or not, coin or spent, DIRTY, FRESH).
`ConnectBlock` and `DisconnectBlock` work on a view over `CoinsTip()`, which is flushed
into it or discarded; `CoinsTip()` is flushed into the database, single clean entries
may be dropped (`Uncache`), and a restart forgets both caches. Memory accounting and
the split of a flush into batches are left out here (the latter is `CoinsFlush`).

### Chainstate

The tree of all blocks that will ever exist is a constant: parents, work, times, and
which blocks fail `ContextualCheckBlock` (`BadBlock`) or `ConnectBlock` (`BadConnect`).
The variables are the fields of the index; `linked` is `nChainTx != 0`, `unlinked` the
values of `m_blocks_unlinked`, `addr` the addresses of the index objects, which are the
last tie breaker of `CBlockIndexWorkComparator`. `pc` is the place of the one thread
that holds `m_cs_chainstate`:

* `idle`: nobody; `abc`: in `ActivateBestChain` between two rounds; `inv`: in
  `InvalidateBlock` between two rounds. `cs_main` is free.
* `find`: in a round, looking for the best candidate; `step`: in
  `ActivateBestChainStep`. `cs_main` is held, so the other handlers wait.
* `aborted`: an assertion failed.

A handler that runs under `cs_main` is one action. `ActivateBestChainStep` is split per
block, which shows a failure after any number of blocks. `Restart` is the clean end
of the process with `LoadBlockIndex`, `LoadChainTip` and the first `ActivateBestChain`
of the next; some BLOCK_FAILED_CHILD flags are lost by it, since `FindMostWorkChain` does
not put the blocks it marks in `setDirtyBlockIndex`. `seen` is a history variable: the blocks
that were linked when `InvalidateBlock` began.

Left out: `-stopatheight`, fixed checkpoints, import and reindex, `nMinimumChainWork`,
assumeutxo, warnings and notifications, the mempool's part in connecting blocks. A
block that was not asked for may be kept as a header only.

### CoinsFlush

Blocks have transactions here. A block and its undo record are in the files of one number
(`file`). `FindBlockPos` begins the next file when it likes (sizes are left out) and then flushes
the old block file, and its undo file only if it has kept up with the blocks;
`WriteUndoDataForBlock` flushes the undo file of an older number only with its highest block.
`FlushStateToDisk` is three steps: the last block file and the last undo file are synced,
the dirty index entries are written with a sync, and then the coins, in batches of any
size and order, between markers (`DB_HEAD_BLOCKS`, `DB_BEST_BLOCK`). `Crash` happens at
any point and loses the memory. `PowerFails` also takes the coins database, whose batches are not
synced, back to any earlier moment (`dbSynced`), and any of the items that no file flush has
reached (`lost`); reading one of these aborts the node or the start. `LoadChainTip` or
`ReplayBlocks` follow; the latter reads, undoes and applies one block at a time (`Rollback`,
`Rollforward`), and may be interrupted between any two. What a block does to a coin is given by the last
of its transactions that touches the coin, and what undoing it does by the first: the loops over
the transactions overwrite a coin without looking at it. A write may throw and a file flush may fail; `thrown` remembers that. Which block is connected or
disconnected next is left open: that is `Chainstate`'s matter. When a flush starts
is left open too, since that depends on the time and on the size of the cache. After a
write threw only the flush of `Shutdown()` is followed.

### CheckQueue

What a thread does between taking `m_mutex` and giving it back or waiting is one action;
calling the checks of a batch is another, without the mutex. `Loop` is at `enter` (about
to lock), `waiting`, `woken` or `work`. The batch is computed with `nIdle` and `nTotal` as
in the code, `notify_one` wakes any one waiter of that condition variable, and a waiter may
wake without a reason. The master is whoever holds `m_control_mutex`; it connects one
block after the other and may be stopped between two.

### BaseIndex

`tip` moves under `cs_main` and queues a callback for each block; the scheduler's thread runs
the callbacks one by one; `ThreadSync` writes blocks below the tip, commits from time
to time and, when it has reached the tip, sets `m_synced`. From then on `BlockConnected`
writes and `ChainStateFlushed` commits. `BlockUntilSyncedToCurrentChain` looks at the tip under
`cs_main`, gives it up, and in a second step (`SyncWithValidationInterfaceQueue`) puts its barrier into
the queue: the chain and the index may move between the two. The subclass is the height index of
`BlockFilterIndex`, the one that `Rewind` changes. `Shutdown` and `Crash` start a new
process on the locator, the height index and the tip that are on the disk. `Start` is that
start: `FindForkInGlobalIndex` looks for the blocks of the locator in the chain, and the
search for pruned blocks may refuse to go on (`Refused`, section 6), after which the operator
reindexes. `orderly`
remembers that the database has not been left behind by a crash, a failed write of
`ThreadSync`, of `Rewind` or of a commit, or a locator for no block: the code cannot know.

### TxRequest and TxRequestRules

`ann[t][p]` is what the tracker holds for transaction `t` and peer `p`. The operations look at
the neighbours of an announcement in the `ByTxHash` index only, as the code does;
`GetRequestable` is begun, brings one announcement after another up to date
(`SetTimePoint`, in any of the orders its indexes allow), and returns. The clock may go
back. `TxRequestRules` has no index and no READY or BEST: it compares all peers at each
call. The refinement mapping forgets the three kinds of candidates.

### Mempool

`mp` holds the entries with the cached parents, children and counts. Everything runs under
`cs_main` and `pool.cs`; `at` says where a compound operation is: blocks being
disconnected or connected, the queue of disconnected transactions being cut, transactions being put
back, links being completed, expiry and trimming. Each loop of the code over a list of
transactions is a run of steps, one for each turn, and `todo` is what the loop has not come to:
`RemoveForBlock` over a connected block, `LimitQueue` and `Resurrect` over the queue, `Relink` over
`vHashUpdate`, `TrimToSize` over the pool. `removeConflicts` and `removeForReorg`, which call
`removeRecursive` once for each entry found, are written as the one removal they add up to. Each removal updates
links and counts as `removeUnchecked` and `UpdateForRemoveFromMempool` do, also in the
middle. The chain is a sequence of blocks out of a given set, of which those that
`ConnectBlock` would accept can be connected. `V3_1` are the transactions whose time is after the
start of protocol V3.1. For the others `CheckTxInputs` takes the maturity from `Params()`, which
inside the namespace `Consensus` is a new `Consensus::Params` whose members are zero: it asks for none
(`SpendMaturity`). `removeForReorg` asks for the full maturity at any time, of coinbases only.

### Staking

`miner` is the place of the thread in `PoSMiner`, `call[c]` the place of each caller in
`MinePoS`, `InterruptStaking` or `StopStaking`; tests and assignments of `fEnableStaking` and
of `threadStakeMiner` are separate steps, because no lock makes them one. `Main` is the thread that
ends initialisation with `MinePoS` and later runs `Interrupt()` and `Shutdown()`.
`SetTip` and `TipSet` are the two halves of `CChain::SetTip`, between which the unlocked
`Tip()` sees no block. `std::terminate` and the use of a null pointer set `dead`. What the
wallet finds is left open.

The time is `GetAdjustedTime`: a clock that goes on (`Tick`) and an offset that peers change
(`AddTimeData`), also to a smaller one, and that a restart sets to 0. `stepped` remembers that the
adjusted time has gone back. `sent` are the coinstake times of the blocks that this process has submitted,
`before` those of earlier processes as long as `stepped` is false. The time in the block's header is
left out: it is the latest of the times of its transactions (`CreateNewBlock`), which come from
the pool. A header later than its coinstake is refused by `CheckBlock` (`bad-cs-time`).

`staking(true)` is `check` when the first wallet has private keys and `clear` when it has not. In
the second case `MinePoS` clears the flag, as for `staking(false)`, but nobody waits for the
thread. `fault` remembers that this happened beside a thread nobody has joined since
(`"cleared"`), or that two calls have overlapped (`"overlap"`).

## 3. Runs

All bounds are in the `.cfg` files. The counters of `Chainstate` (`nSequenceId`, heights)
are bounded by the finite tree: each block is received once per process.

| Run | Instance | Shows |
|---|---|---|
| `coins_views` | 2 outpoints, 2 coins, 2 hashes; 7 thousand states | flags right (`EntriesRight`), refinement of `CoinsMap` |
| `chain_network` | 7 blocks in 3 branches, one unconnectable, one malformed; 166 thousand states | index, candidates and flags stay consistent in every order of arrival; best chain active at rest; no unlocking of a worse chain |
| `chain_invalidate` | 5 blocks, `invalidateblock`; 1.5 million states | candidates (those that arrive meanwhile excepted until the end of the call) and flags stay right while blocks are invalidated and others arrive |
| `chain_disk` | 4 blocks, `invalidateblock` and `reconsiderblock`, read and flush errors; 561 thousand states | `m_failed_blocks` stays in step with the flags, and a restart repairs what errors leave |
| `chain_live` | 4 blocks, `preciousblock`, a counter of 2 values, a bad block with a child; 191 thousand states | calls end; every valid block is activated or matched |
| `coins_flush` | 4 blocks in 2 branches, 2 outpoints, 2 block files; 2.5 million states | every crash is repaired exactly; only undo records of an older file can be missing after a power failure |
| `check_queue` | 2 workers and the master, 4 checks of which one fails, batches of 2; 89 thousand states | the result is that of all checks, none is called twice, nobody waits for good |
| `base_index` | 4 blocks in 2 branches of one height, the second with more work, 2 queued callbacks, failures, stops and crashes anywhere; 564 thousand states | the hand-over loses no block, the index is what it says it is, and it catches up |
| `tx_request` | 3 peers, 2 transactions, 2 times; 34 thousand states | the selection is right at every step, the loops end, and the answers are those of the naive rules |
| `mempool` | 10 transactions with a diamond, a conflict, a lock time, a coinbase, a coinstake and one from before V3.1; 11 blocks; pool of 4, queue of 3; 129 thousand states | inputs, links, counts, limits and maturity after any reorganisation |
| `staking` | 1 RPC worker and the main thread, 2 tips, the slot boundary, an offset of 1; 418 thousand states | a coinstake time is used once, a call ends the process only for a named cause, calls and shutdown end |
| `mempool_coinstake` | as `mempool` | a disagreement with a comment (section 6) |

The trees are chosen so that each mechanism occurs: a fork whose better branch
fails at its second block, after the old chain was disconnected; a block received two
levels before its parent; equal work on two branches; a transaction in both
branches, and one that is spent in the block that creates it. Larger trees repeat these
situations. The window for old headers is small enough in `chain_network` (depth and
maturity 2) to refuse some. In `chain_disk` a stop is no error, because the process may
end in a failed assertion. `coins_flush` follows a process in which a write threw to its
end and not beyond (`UpToFirstError`).

In `check_queue` one block can fill a batch for each thread, leave one waiting and have a
failure in any of them; two blocks in a row show what the first leaves to the second. In
`base_index` the chain can leave a block that `ThreadSync` or a queued callback still has
to write, and come back to it. In `tx_request` three peers are the least for which a
candidate is neither the best nor the last; two times distinguish before and after. In
`mempool` the limits are just below the sizes of the diamond with its child, so
that acceptance, the queue and trimming all meet them. In `staking` one RPC worker
and the main thread are enough for all pairs of calls. The clock (`StartTime` to `MaxTime`) goes from just before
a slot (`Slot`) into it, and the offset takes the adjusted time over that boundary and back:
a slot entered, left and entered again, in one process or in two. More slots repeat this. In
`coins_flush` two files (`MaxFile`) give each block and undo record the last file, an older one that has kept
up and one that has not. In `mempool` one entry from before V3.1 (`V3_1`) spends a coinbase at once.

Fairness:

* `Chainstate`: weak fairness of `Activate`, the steps of the thread in
  `ActivateBestChain` and the start of one by a caller that has yet to make its call. The
  caller is a running thread that waits only for `m_cs_chainstate`, and the holder of
  that lock waits only for `cs_main`, which every handler gives back.
* `CheckQueue`: weak fairness of each thread that is not waiting, and of the thread that
  stops the workers. A notification is not assumed; that it comes is what is shown.
* `BaseIndex`: weak fairness of `ThreadSync`, of the scheduler's thread and of the end of
  a shutdown that has begun. Nothing is assumed of the chain.
* `TxRequest`: weak fairness of the loop inside `GetRequestable`, which is sequential code.
* `Staking`: weak fairness of the running threads; strong fairness of `StopHTTPServer`, because
  it waits for the requests under way while `InterruptHTTPServer` has already refused new ones.

Nothing is assumed of the network or of the operator.

## 4. Proofs

`CoinsViewsProofs.FlagsCorrect`: `EntriesRight` (`TypeOK`, `FreshMeansSpentBelow`,
`CleanMeansEqualBelow` and `OnlyListedEntries`) holds in every reachable state, for any
sets of outpoints, coins and hashes. The inductive invariant `IInv` says of each of the two
caches that it is `LevelOK` over what is below it, with an open view or without; lemmas on
`FetchCoin`, `AddCoin`, `SpendCoin` and `MergeEntry` say what each does to one entry.

`CoinsViewsProofs.Refinement`: every step is a step of `CoinsMap` or changes nothing it can
see, with the content of each level as the refinement mapping. It rests on the same
invariant: a flush that skips clean entries copies the whole view only because clean
entries equal what is below.

`ChainstateProofs.TypeCorrect`: `TypeOK`. The strengthening `TInv` adds that `index` and
`linked` hold the parents of their members, and that `InvalidateBlock`
never has the genesis block as its target; without it `Parent[tip]` need not be linked.

`ChainstateProofs.ChainCorrect`: `ActiveChainValid` and `FailedBlocksFlagged`, under the
assumption `NoInvalidationOnBadDisk` (section 6). `ActiveChainValid` is
not inductive. `CInv` adds that the chain of the coins' best block is valid too
(it becomes the active one at a restart after a failed flush), that no block
on the way to a `pindexMostWork` kept from an earlier round has been marked
meanwhile, that the coins are at the tip unless the disk may fail, and that members of
`m_failed_blocks` are BLOCK_FAILED_VALID. Each action that sets flags is shown to
mark blocks off those chains (`MarkedElsewhere`): what arrives has no data, what
descends from a failed block cannot be below the tip.

`ChainstateProofs.FailuresExplained`: `FailedHasCause` and `UnlinkedExact`, without
`reconsiderblock`. The two need each other: a block is queued in `m_blocks_unlinked` unless
its parent is marked, so that one that is missing there must have a cause below it. `FInv` adds
that a block with the data of its whole chain and no failed ancestor is linked, since only
queued blocks are linked with the one they wait for.

`ChainstateProofs.FailuresDeserved`: `NoInnocentFailed`, without `invalidateblock`; every
step that sets a flag sets it on an invalid block or above a marked one.

`ChainstateProofs.IndexCorrect`: `IndexLinked`, without `invalidateblock` and
`reconsiderblock`. `LInv` adds to `FInv` that `m_failed_blocks` are linked, and that a block with
data that waits is queued or `Stuck`: above a marked block that will never get data.

`ChainstateProofs.InvalidationReachesTarget` and `RestartRepairs`: the action properties
`InvalidateMarksTarget` and `CompleteAfterRestart`, for every use of the RPCs and every
disk error.

`ChainstateProofs.CandidatesCorrect`: `CandidatesExact` and `TipIsBest`, with
`invalidateblock` and restarts, on a disk that does not fail (`OnlyInvalidate`). Within a round
candidates may be worse than where the round began, and the tip may be. `KInv` therefore compares
with `startTip` too: no candidate is worse than the tip (`NoneWorse`), none that matters is missing
(`NoneMissing`), a round goes down from `startTip` before it goes up (`Falling`) to a better
block (`Aim`), and what it goes to, or the tip at rest, is the best block known (`BestKnown`). Between the
rounds of `InvalidateBlock` the candidates may lack blocks linked since it began, and no others:
`Remembered` says that each block linked by then (`seen`) is a candidate as soon as it is no worse than the tip, or
is in the list of side branches until the tip has fallen far enough. What arrived is put in by the last
step of the call.
That `CBlockIndexWorkComparator` is a strict weak order under which ancestors are worse is a
lemma (`WorseOrder`, `AncestorsWorse`). `RoundsGoForward`, the action property `ForwardProgress`,
follows from the same invariant.

`CoinsFlushProofs.CoinsAreExact` and `StoresAlwaysFit`: `CoinsExact` and `StoresFit`, for every tree
of valid blocks, any transactions, and any number of crashes, power failures and interrupted
replays. The inductive invariant `IInv` has these parts:

* `OrderInv`: while `DB_HEAD_BLOCKS` names two blocks nobody flushes the coins of a third.
  `PlacedInv`: undo records are in the file of their block, and no item is in a file beyond the last one the
  index, in memory or on the disk, knows of. These two hold also after a write has failed.
* `RiskInv`: what no flush has reached is in the last file or is an undo record; nothing is left of the
  former when the index is written. Hence what a power failure can take from the index database is an
  undo record of an older file (`OnlyOlderUndoAtRisk`).
* `Sound`, of the coins database and of what a power failure would leave of it: at a block it has
  exactly the coins of that block; between two blocks every coin is as at the one or as at the other
  (`Between`), and the index has the blocks and undo records of both chains (`HasChain`). Nothing is known of which
  coins were written, and nothing needs to be: `RolledBetween` shows that undoing a block, or applying one,
  takes coins between that block and the new tip to coins between its neighbour and the new tip,
  whether or not the block's effects were in them. At the new tip they are exact (`BetweenSame`). This
  is the idempotence that a comment of `ReplayBlocks` appeals to.
* `UndoInv`: the undo record of a block holds the coins it spends as they were at its parent.
* `MemoryInv`: `CoinsTip()` has the coins of the tip, and what the index in memory has and the database
  has not is dirty.

That applying and undoing a block agree with `Utxo`, which is defined by what a chain made and used, is
`RolledExactly`. It uses that blocks are valid: no coin of a chain is made or spent twice, or spent
before it is made (`ChainIsValid`). TLC checked `IInv` in the instance of `coins_flush`. `AlwaysRestarts` is stated for starts
after which no such record is missing (`lost`); section 6 has the other case.

`TxRequestProofs.SelectionCorrect`: `SelectionRight`, for any peers, transactions, times and
priorities. The invariant `Inv` is one of each transaction's row (`RowOK`): one
selected at most, the READY ones behind a selected one and below the BEST one, not all
COMPLETED. One lemma per operation of the class says what it makes of a row, and the
lemmas for the promotions use that a neighbour in the order is the maximum or minimum
of those behind or ahead.

`TxRequestProofs.TrackerImplementsNaive`: the same lemmas say what the operation
means to the naive tracker, so that each call is one of its calls, and each step of
`SetTimePoint` its expiry of a request or nothing. `AskedAtMostOnce` follows
step by step.

`BaseIndexProofs.IndexIsSound`, `HandOverLosesNothing` and `PromiseIsKept`: `IndexSound`,
`CaughtUpWhenDrained` and `PromiseKept`, for every tree of blocks, every length of the queue, and
whichever writes fail. The inductive invariant `IInv` has two halves.

* The flow of blocks: what an index in sync lacks of the tip's chain is in the queue (`Behind`), and
  behind each queued block is the rest of the way to the tip (`Follows`), so that neither a rewind nor
  an ignored callback loses a block (`QueueInv`); the same for the tip of a waiting caller, up to
  its barrier (`BarrierInv`). A caller that has looked and not yet begun to wait relies only on an
  index in sync (`LookedInv`); what it saw of the tip may be out of date. A chain that starts empty needs a case of its own (`EmptyInv`).
* The database (`DiskInv`): the height index holds the chain of the block up to which it is known to be right
  (`Safe`: `pindex`, its parent or the best block, by the place of `ThreadSync`), and the locator
  is not ahead of it, or is so in one of three ways that a start can leave behind. It is overwritten by
  the next commit (`LocatorDue`); the blocks up to it are in the database (`LocatorAhead`); or the
  chain has left its branch, and comes back to it only with a callback that is still queued
  (`LocatorAside`). The last callback of a shutdown commits (`FlushedInv`), which is why the
  third way does not survive a restart.

TLC checked `IInv` in the instance of `base_index` before it was proved.

`MempoolProofs.InputsStayAvailable`, `LinksStayExact`, `CountsStayExact` and `PoolStaysInOrder`:
`InputsAvailable`, `LinksExact`, `CountsMatchLinks` and `PoolInOrder`, for any transactions, blocks and
limits. All four follow from `PoolInvariant`: the inductive invariant `IInv` says what holds
between two loops (`Resting`) and between two turns of each loop (`Connecting`, `Resurrecting`,
`Relinking`). It has these parts:

* `CoinOK`: an input of an entry that is not a coin of the chain is an output of the pool or of the
  queue, or was spent by a transaction of the tip's block that `removeForBlock` has yet to come
  to. `QueueOK`: queued transactions spend nothing of the pool but what came back before them, so
  that a transaction that does not come back takes with it exactly what would lose an input.
* `Backwards`: no queued transaction spends an earlier one. It follows from the order of each block
  and of the chain (`ChainOK`), and is why the transactions that came back do so parents first
  (`BackOK`), which `addUnchecked` and `LinkOrder` rely on.
* `LinkOK`: the links are those of the inputs, except that a transaction that came back is not
  linked to the entries that were there before. `CountOK`: the counts are the sizes of what these links
  reach. A removal in between (`RemoveStaged` without `updateDescendants`) keeps both because what it
  removes is closed under `children`, though not under all spenders.
* `RelinkCountOK`: inside `UpdateTransactionsFromBlock` neither the full nor the old counts are right. A
  descendant count covers only what came back until the turn of its transaction, and an ancestor count
  leaves out the transactions whose turn has not come. `TurnCounts` shows that a turn adds what is
  missing, and nothing twice (`setAlreadyIncluded`).

What `Reach` computes, the closure of a set under the links, is an induction over
its number of rounds. It is done once, as an argument about a least number (`LeastNatural`, `ReachClosed`,
`ReachLeast`); that as many rounds as there are transactions suffice is a count of what each
round adds (`WalkGrows`). All else is proved from its being the least closed set. TLC checked
`IInv` in the instance of `mempool`. `PoolInOrder` includes the type invariant, and that every
entry is final and spends no coinbase that `CheckTxInputs` holds for immature, which is none for
a time before V3.1. Of coinstakes this is false (section 6).

`StakingProofs.SlotsSearchedOnce`: `OnePerSlot`, by `TimeInv`: a template is later than all
blocks sent, and nothing sent is later than `nLastCoinStakeSearchTime`. For one process this needs nothing of
the adjusted time. For earlier processes it uses that the first search of a process begins with the
adjusted time of that moment, which is no earlier than what was sent unless it has stepped back.

`StakingProofs.StopLeavesNoThread`: `StoppedForGood`, by `StopInv`: once `StopHTTPServer` has
returned no caller is left that could start a thread.

`StakingProofs.SeparateCallsLive`: `AbortHasCause`, by `QuietInv`, which says for each
place of a call what it relies on while no two calls have overlapped, and what more while the flag
was not cleared beside a thread.

`StakingProofs.StakingTypes`: `TypeOK`, of which the part that matters is that at most one caller
waits in a join, and that a thread exists exactly while `threadStakeMiner` is joinable.

`CheckQueueProofs.WaitCorrect`, `BookkeepingCorrect` and `ChecksCalledOnce`: `ResultExact`,
`BookkeepingExact` and `CalledOnce`, for any number of workers, any checks and any batch size.
The inductive invariant `IInv` adds that a check is in the queue or in one batch and that
only a thread that will report has one (`Disjoint`), that `nIdle` is right also while the
workers are being stopped (`Counts`), and what `fAllOk` and a thread's `fOk` say of the
checks counted and about to be counted (`Results`): true, that all of them were called and are good;
false, that some check of the block is not. A thread enters the `while` of `Loop` in three ways;
`Counted` says what the counters have in common by then, and `ContinueInv` proves the rest of the
critical section once for all three. A batch is never empty (`ContinueMoves`): otherwise a worker
would count itself in `nTotal` twice.

The proofs assume of the constants what the assumptions of the modules state:
`TreeAssumption` and `ParameterAssumption` (a finite tree in which heights grow by one
and work grows), `TxRequestAssumption` (priorities of two peers differ; a set of peers
has a largest and a smallest), `QueueAssumption` (finitely many workers and checks),
`IndexAssumption` (a tree, finite or not), `BlocksAssumption` (a tree of valid blocks),
`MempoolAssumption` (finitely many transactions, no two of which create one output; only a coinbase
has no inputs, and no block repeats a transaction, as `CheckTransaction` and `CheckBlock` ensure) and
`StakingAssumption`. TLC evaluates them in every run.
Ancestry is defined by closed sets of blocks, not by recursion, so that its
properties are theorems (`AncestorsOfParent`, `AncestorsTransitive`, `ChainOfParent`, `ChainOrder`).

Theorems with a hypothesis on the operator or the disk say what is true of the code: without the
hypothesis the property fails, on the counterexample named in section 6.

| Hypothesis | Of | Without it |
|---|---|---|
| `NoInvalidationOnBadDisk` | `ChainCorrect`, `FailuresExplained` | a start can have a failed tip |
| `NoReconsider` | `FailuresExplained`, `IndexCorrect` | flags without a cause; blocks never linked |
| `NoInvalidate` | `FailuresDeserved`, `IndexCorrect` | flags set by request; a child of a marked block that waits is not queued |
| `OnlyInvalidate` | `CandidatesCorrect`, `RoundsGoForward` | `preciousblock` and `reconsiderblock` leave candidates out; disk errors do until the next start |

`CoinsExact` and `AlwaysRestarts` carry their hypothesis, `~thrown`, in their definitions; what happens
without it is number 5 in section 6.

Only model-checked: the liveness properties, since TLAPS does not handle fairness and ENABLED; and the
safety properties of `Chainstate` outside the hypotheses above, where a run shows them on
its tree with other RPCs or errors of the disk.

## 5. Properties

Each is explained at its definition. Where a run names a conjunction (`EntriesRight`,
`CandidatesExact`, `IndexLinked`, `CoinsExact`, `StoresFit`, `BookkeepingExact`, `IndexSound`,
`SelectionRight`, `PoolInOrder`) its conjuncts are defined and explained before it. The central ones:

* `ImplementsCoinsMap`: the caches are a faithful map of coins.
* `CoinsExact`, `StoresFit`: the database says it is at a block only if it holds
  that block's coins; a restart after a crash never needs `-reindex`, and one after a power failure only if an
  undo record of an older file is gone.
* `CandidatesExact` and `TipIsBest`: no chain that could be active is forgotten, one that arrives during an
  `invalidateblock` only until its end.
* `ActiveChainValid`, `NoInnocentFailed`, `FailedHasCause`: flags are where they belong.
* `ForwardProgress`: no other thread sees a failed reorganisation half-way.
* `BestBlockActivated`, `ActivateEnds`: and all this happens eventually.
* `ResultExact`, `WaitReturns`: `ConnectBlock` gets the result of all checks, and gets it.
* `CaughtUpWhenDrained`, `PromiseKept`: an index misses no block at the hand-over, and
  `BlockUntilSyncedToCurrentChain` keeps its word for the chain at the moment its wait begins.
* `AnswersAsNaive`: the tracker's indexes are an optimisation and nothing else.
* `InputsAvailable`, `LinksExact`, `CountsMatchLinks`: what `CTxMemPool::check` asserts
  holds after any reorganisation, and what removals rely on holds within it.
* `OnePerSlot`, `StoppedForGood`: a process does not use one coinstake time twice, nor do two
  unless the adjusted time has stepped back; and nothing is freed that the staking thread still uses.

## 6. Findings

With a run that is expected to be violated; `PROJECT.json` quotes the lines:

* `mempool_coinstake`: after a block is disconnected an entry that spends a coinstake which
  is immature again stays in the pool. `removeForReorg` tests `IsCoinBase()` only, although
  its comment names coinstakes too.

With a configuration that ends in a counterexample, to be run by hand
(`tlc -config <name>.cfg <module>`):

1. `ChainstateReconsiderActivates.cfg` (`MCChainstate`): `reconsiderblock` clears the flags of ancestors
   but does not make them candidates again, so an ancestor with more work than the tip
   stays inactive until the next restart.
2. `ChainstateReconsiderUnlinked.cfg` (`MCChainstate`): a block received below a failed parent is not queued
   in `m_blocks_unlinked` and is not linked when that parent is reconsidered.
3. `ChainstateInvalidateChildren.cfg` (`MCChainstate`): `InvalidateBlock` leaves BLOCK_FAILED_VALID on every
   block it disconnects, not only on the last.
4. `ChainstateFlushError.cfg` (`MCChainstate`): when `FlushStateToDisk` fails in `ConnectTip` or `DisconnectTip`,
   `CoinsTip()` and `m_chain` are at different blocks and the next caller fails an assertion.
5. `CoinsFlushError.cfg` (`MCCoinsFlush`): coins in a batch that LevelDB refuses are lost, and the flush
   in `Shutdown()` marks the database as consistent nevertheless.
6. `StakingHeight.cfg` (`MCStaking`): `PoSMiner` reads the tip without `cs_main` before it calls
   `CreateNewBlock`, and `IncrementExtraNonce` puts the height after that tip into the
   coinbase. If the tip has moved the block is refused as `bad-cb-height`.
7. `ChainstateInvalidateArrivals.cfg` (`MCChainstate`): a block that arrives between the rounds of
   `InvalidateBlock` and is worse than the tip of that moment is not a candidate when the tip has fallen below
   it, until the call ends. `CheckBlockIndex` runs in other threads meanwhile and asserts that it
   is one; a comment of `InvalidateBlock` says that "we should keep the block index in a consistent
   state as we disconnect blocks".
8. `CoinsFlushUndo.cfg` (`MCCoinsFlush`): `FlushStateToDisk` says "First make sure all block and undo data is
   flushed to disk", but `FlushBlockFile` flushes only the last file. The undo record of a block in an older
   file, written after the file was left and not that of its highest block, can be lost by a power
   failure although the index has its position; a replay that needs it fails.
9. `MempoolSpendCoinbase.cfg` (`MCMempool`): an entry whose time is before V3.1 may spend a coinbase of the
   block below it, though `test/functional/mempool_spend_coinbase.py` says that "less mature coinbase spends
   are NOT" accepted: see `SpendMaturity` in section 2.

Met while modelling, in the chain state:

* `PreciousBlock` resets its counter to -1 whenever the tip has gained work, and can hand
  out -1 twice to blocks of equal work, the earlier of which then keeps its place. This is why
  `BestBlockActivated` speaks of equal work and not of the order of candidates. A tip
  that is made precious once more gets -1 and becomes worse than a block with -2 that was
  dropped from the candidates, and `CandidatesExact` fails: `chain_live` does not check it.
* A block that waits for its parent can be marked by `invalidateblock`. What arrives above
  it is not queued, as its parent is failed; the data of the missing block then links the
  marked one and not its child. Hence `IndexLinked` is checked and proved without that RPC.
* `InvalidChainFound` sets `pindexBestHeader` to the tip of the moment, which in
  the middle of a failed reorganisation is the fork point.
* `reconsiderblock` of a block clears a failed ancestor, but a cousin keeps its
  BLOCK_FAILED_CHILD. `FailedHasCause` is therefore checked without `reconsiderblock`.
* `AcceptBlock` marks a block that fails its own checks without entering it in
  `m_failed_blocks`, so that headers two levels above it are accepted.
* The maximum reorganisation depth is compared when a header arrives, with the tip of that
  moment. A fork whose first header came early can replace more blocks later.
* If a flush fails and the operator invalidates the block the coins are at before the node has
  stopped, the next start has a tip marked as failed and no candidate. Hence the
  assumption `NoInvalidationOnBadDisk`, and `chain_disk` does not check `CandidatesExact`.
* `FlushStateToDisk` empties `setDirtyBlockIndex` before `WriteBatchSync`. When that throws, the
  flush of `Shutdown()` writes coins whose blocks are not in the index database.
* `ConnectBlock` declares `control` before `txsdata`, so that an early return destroys the
  latter first, although the comment there keeps it "in scope for as long as `control`".

In `BaseIndex`, and the reason for `orderly`:

* A stop before the first block commits with a null best block: `GetLocator(nullptr)` is the
  locator of the tip, so that the next start believes the index complete.
* The periodic commit of `ThreadSync` makes `pindex` the best block before it is written. A
  crash or a failing write leaves a gap.
* `Rewind` asserts that its `current_tip` is `m_best_block_index`, which does not hold
  when the chain is reorganised while `ThreadSync` is between two commits.
* `Init` moves the best block back to the fork without writing the locator; a crash
  before the next commit leaves a gap, contrary to the comment that commits may be missed.
* `Init` compares the blocks from the tip down with the best block of the index, but the loop ends before
  the genesis block. An index that had only that block (or whose locator shares only that one with
  the chain) refuses to start, with the message that it "goes beyond pruned data".
* `ChainStateFlushed` and `BlockUntilSyncedToCurrentChain` use the best block of an index that
  was synced with an empty chain, which is null.

In `Staking`, when calls overlap (`fault = "overlap"`), or without that:

* `MinePoS` tests the flag and then starts the thread: two calls (the one that ends
  initialisation comes after the RPC server has opened) assign to a joinable thread, and
  `std::terminate` ends the process; two joins of the same thread throw.
* `staking(false)` with a `MinePoS(true)` in between waits for a thread that goes on.
* A thread that ended by itself leaves `fEnableStaking` set.
* A `staking(true)` that finds a first wallet without private keys clears the flag and leaves a running thread
  unjoined. The next `staking(true)` on a wallet that has keys assigns to a joinable thread, and
  `std::terminate` ends the process; no calls have to overlap.
* `nTimeOffset` is not saved. A node whose peers had moved its time forward can search a slot again
  after a restart.

## 7. Not modelled

Parts with state that could be modelled in the same way and are not: block download and
headers synchronisation (`net_processing.cpp`), the orphan pool (`txorphanage.cpp`), the
address manager, version bits, the wallet's view of the chain, and the scheduler's own threads
(the order of callbacks that it guarantees is part of `BaseIndex`). Pure functions that need a
reference definition: the difficulty and the stake kernel. In what is modelled, left out:

* `Chainstate`: fixed checkpoints, import and reindex, assumeutxo (which nothing but tests
  reaches in this version), warnings;
* `CoinsFlush`: pruning, positions in files, the sizes at which a file is full;
* `BaseIndex`: the contents of `txindex` and `coinstatsindex`, the hash index of the filters;
* `TxRequest`: sequence numbers, wtxid or txid, the counts per peer;
* `Mempool`: sizes, fees and scores, sequence locks, replacement, packages, the dump to disk;
* `Staking`: the choice of transactions, the time of the block header, proof-of-work templates.

Proofs that remain: the liveness properties.

Out of reach or of no use here: the script interpreter, cryptography and serialisation
(pure functions on bytes with test vectors), RPC and REST formatting, the graphical
interface, sockets, the vendored libraries (LevelDB appears as an atomic batch store), build
files, and the translations under `qt/locale/`, which are data and not code.
