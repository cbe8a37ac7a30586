------------------------------ MODULE BaseIndex ------------------------------
(***************************************************************************)
(* An optional index of the active chain (index/base.cpp), with the block  *)
(* filter index (index/blockfilterindex.cpp) as its subclass, fed first by *)
(* its own thread and then by the queue of validation signals              *)
(* (validationinterface.cpp over SingleThreadedSchedulerClient).           *)
(*                                                                         *)
(* Four threads take part: the one that moves the tip under cs_main, the   *)
(* scheduler's that runs the callbacks one after the other, ThreadSync,    *)
(* and a caller of BlockUntilSyncedToCurrentChain. The process may be      *)
(* shut down or die, and starts again on what is on disk.                  *)
(***************************************************************************)
EXTENDS Integers, Sequences

CONSTANTS
    Block, Genesis,
    NoBlock,      \* nullptr
    Parent,       \* pprev
    Height,       \* nHeight; -1 for NoBlock, as CChain::Height() of no chain
    Work,         \* nChainWork; 0 for NoBlock
    StartTips,    \* tips of the chain when the empty index is first enabled
    MaxPending,   \* bound: callbacks in the queue
    Failing,      \* the writes of the index database that may fail
    InterruptAt,  \* places of ThreadSync in which the node may be told to stop
    CrashAt       \* places of ThreadSync in which the process may die

(* Of ThreadSync: "fresh" is its loop before the first block. *)
Places == {"fresh", "loop", "commit", "write", "lastcommit", "done", "failed"}

(* The block of ThreadSync, the block of BlockConnected, Rewind, and Commit  *)
(* where its result is not looked at.                                       *)
Writes == {"syncblock", "block", "rewind", "commit"}

ASSUME IndexAssumption ==
    /\ NoBlock \notin Block /\ Genesis \in Block
    /\ Parent \in [Block -> Block \cup {NoBlock}]
    /\ Height \in [Block \cup {NoBlock} -> Nat \cup {-1}] /\ Height[NoBlock] = -1
    /\ \A b \in Block : Height[b] = Height[Parent[b]] + 1 /\ (Parent[b] = NoBlock <=> b = Genesis)
    /\ Work \in [Block \cup {NoBlock} -> Nat] /\ \A b \in Block : Work[Parent[b]] < Work[b]
    /\ StartTips \subseteq Block \cup {NoBlock}
    /\ MaxPending \in Nat \ {0} /\ Failing \subseteq Writes
    /\ InterruptAt \subseteq Places /\ CrashAt \subseteq Places

BlockOrNone == Block \cup {NoBlock}

VARIABLES
    tip,          \* m_chain.Tip()
    flushedTip,   \* the tip a restart loads
    pending,      \* m_callbacks_pending, with the callback that runs at its head
    best,         \* m_best_block_index
    synced,       \* m_synced
    stop,         \* "no", "asked" (m_interrupt), or "flushed" (by Shutdown)
    at, pindex,   \* where ThreadSync is, and its pindex
    due,          \* SYNC_LOCATOR_WRITE_INTERVAL has passed since the last Commit
    locator,      \* DB_BEST_BLOCK on disk
    byHeight,     \* the height index on disk
    looked,       \* BlockUntilSyncedToCurrentChain has seen the index behind the tip
    asked,        \* the tip when it began to wait
    orderly       \* history: no write failed but one of BlockConnected, nor did the
                  \* process die, nor was a locator written for nullptr

chain == <<tip, flushedTip>>
db == <<locator, byHeight, orderly>>
thread == <<at, pindex, due>>
vars == <<chain, pending, best, synced, stop, thread, db, asked, looked>>
-----------------------------------------------------------------------------
ParentClosed(S) == \A b \in S \ {Genesis} : Parent[b] \in S

(* The blocks from the genesis block to b, which are in every set that has  *)
(* b and the parents of its members: GetAncestor(h) of b is the one of      *)
(* height h among them.                                                     *)
Chain ==
    [b \in BlockOrNone |->
        IF b = NoBlock THEN {}
        ELSE {a \in Block : \A S \in SUBSET Block : b \in S /\ ParentClosed(S) => a \in S}]

GetAncestor(b, h) ==
    IF \E a \in Chain[b] : Height[a] = h THEN CHOOSE a \in Chain[b] : Height[a] = h ELSE NoBlock

Highest(S) == IF S = {} THEN NoBlock ELSE CHOOSE a \in S : \A x \in S : Height[x] <= Height[a]

(* The last block that b shares with the active chain. *)
FindFork(b) == Highest(Chain[b] \cap Chain[tip])

NextSyncBlock(p) == GetAncestor(tip, Height[FindFork(p)] + 1)

Connected(b) == [type |-> "BlockConnected", block |-> b]
ChainFlushed(b) == [type |-> "ChainStateFlushed", block |-> b]
Barrier == [type |-> "barrier", block |-> NoBlock]

Heights == {Height[b] : b \in BlockOrNone}

(* ThreadSync keeps cs_main from setting m_synced to the end of its Commit. *)
CsMainFree == at \notin {"lastcommit", "aborted", "refused"}
-----------------------------------------------------------------------------
(* GetLocator: the last blocks of the chain, then with ever larger steps. *)
InLocator(loc) ==
    {a \in Chain[loc] :
        LET back == Height[loc] - Height[a]
        IN  back <= 10 \/ a = Genesis \/ \E j \in 1 .. back : back = 9 + 2 ^ j}

FindForkInGlobalIndex(t, loc) ==
    IF t \in Chain[loc] THEN t ELSE Highest(InLocator(loc) \cap Chain[t])

(* Init looks for the data from the tip down to the best block, and does    *)
(* not find a genesis block that way: the node refuses to start.            *)
Refused(from, t) == from = Genesis /\ t # Genesis

(* The first start with an empty index; with -reindex there is no tip yet.  *)
Init ==
    /\ tip \in StartTips /\ flushedTip = tip
    /\ pending = <<>>
    /\ best = NoBlock /\ synced = (tip = NoBlock)
    /\ stop = "no"
    /\ at = "loop" /\ pindex = NoBlock /\ due = TRUE
    /\ locator = NoBlock /\ byHeight = [h \in Heights |-> NoBlock]
    /\ looked = FALSE /\ asked = NoBlock /\ orderly = TRUE

(* Start: the index is registered before Init reads the locator, while no   *)
(* other thread moves the chain.                                            *)
Start(t, loc) ==
    LET from == FindForkInGlobalIndex(t, loc)
    IN  /\ tip' = t /\ flushedTip' = t
        /\ pending' = <<>>
        /\ best' = from /\ synced' = (from = t)
        /\ stop' = "no"
        /\ at' = IF Refused(from, t) THEN "refused" ELSE "loop"
        /\ pindex' = from /\ due' = TRUE
        /\ looked' = FALSE /\ asked' = NoBlock

Restart(t) == Start(t, locator) /\ UNCHANGED <<locator, byHeight>>

(* "Please disable the index or reindex": the index is wiped. *)
Reindex ==
    /\ at = "refused"
    /\ Start(NoBlock, NoBlock)
    /\ locator' = NoBlock /\ byHeight' = [h \in Heights |-> NoBlock] /\ orderly' = TRUE

Place == IF at = "loop" /\ pindex = NoBlock /\ ~synced THEN "fresh" ELSE at

(* The process dies, or has failed an assertion, and is started again. *)
Crash ==
    /\ at = "aborted" \/ Place \in CrashAt
    /\ Restart(flushedTip)
    /\ orderly' = FALSE

Interrupt ==
    /\ stop = "no" /\ Place \in InterruptAt
    /\ stop' = "asked"
    /\ UNCHANGED <<chain, pending, best, synced, thread, db, asked, looked>>

(* Shutdown(): nothing moves the chain any more; it is flushed, with the    *)
(* signal of that.                                                          *)
ForceFlushStateToDisk ==
    /\ CsMainFree /\ stop = "asked" /\ ~looked /\ asked = NoBlock /\ Len(pending) < MaxPending
    /\ stop' = "flushed" /\ flushedTip' = tip
    /\ pending' = IF tip = NoBlock THEN pending ELSE Append(pending, ChainFlushed(tip))
    /\ UNCHANGED <<tip, best, synced, thread, db, asked, looked>>

(* FlushBackgroundCallbacks has run all the callbacks, and Stop joins the   *)
(* thread of the index.                                                     *)
Shutdown ==
    /\ stop = "flushed" /\ pending = <<>> /\ at \in {"done", "failed"}
    /\ Restart(tip)
    /\ UNCHANGED orderly
-----------------------------------------------------------------------------
(* One round of ActivateBestChain: the chain moves to a branch with more    *)
(* work and BlockConnected is queued for each block of it, all under        *)
(* cs_main. LimitValidationInterfaceQueue bounds the queue before.          *)
Branch(b) ==
    LET fork == Height[FindFork(b)]
    IN  [i \in 1 .. Height[b] - fork |-> Connected(GetAncestor(b, fork + i))]

ActivateBestChain(b) ==
    /\ CsMainFree /\ stop # "flushed"
    /\ Work[b] > Work[tip]
    /\ Len(pending) + Len(Branch(b)) <= MaxPending
    /\ tip' = b
    /\ pending' = pending \o Branch(b)
    /\ UNCHANGED <<flushedTip, best, synced, stop, thread, db, asked, looked>>

(* InvalidateBlock disconnects the tip; the index has no BlockDisconnected. *)
InvalidateTip ==
    /\ CsMainFree /\ stop # "flushed"
    /\ tip \notin {NoBlock, Genesis}
    /\ tip' = Parent[tip]
    /\ UNCHANGED <<flushedTip, pending, best, synced, stop, thread, db, asked, looked>>

(* FlushStateToDisk with all the coins, and its signal; as a bound, not     *)
(* twice in the queue.                                                      *)
FlushStateToDisk ==
    /\ CsMainFree /\ stop # "flushed"
    /\ tip # NoBlock /\ Len(pending) < MaxPending
    /\ \A i \in DOMAIN pending : pending[i].type # "ChainStateFlushed"
    /\ flushedTip' = tip
    /\ pending' = Append(pending, ChainFlushed(tip))
    /\ UNCHANGED <<tip, best, synced, stop, thread, db, asked, looked>>
-----------------------------------------------------------------------------
(* FatalError calls StartShutdown. *)
Fatal == stop' = IF stop = "no" THEN "asked" ELSE stop

(* What the index writes. *)

(* GetLocator(b): of the tip when b is nullptr. *)
Locator(b) == IF b = NoBlock THEN tip ELSE b

(* Commit, where its result is not looked at. *)
Commit(b) ==
    \/ locator' = Locator(b) /\ orderly' = (orderly /\ b = Locator(b))
    \/ "commit" \in Failing /\ locator' = locator /\ orderly' = FALSE

(* BlockFilterIndex::WriteBlock reads the header of the filter before; the  *)
(* genesis block has none.                                                  *)
CanWrite(b) == byHeight[Height[b] - 1] = Parent[b]

WriteBlock(b) ==
    /\ CanWrite(b)
    /\ byHeight' = [byHeight EXCEPT ![Height[b]] = b]
    /\ UNCHANGED <<locator, orderly>>

(* WriteBlock fails. *)
WriteFails(b, write) ==
    /\ write \in Failing \/ ~CanWrite(b)
    /\ orderly' = (orderly /\ write = "block")
    /\ UNCHANGED <<locator, byHeight>>

Rewind_Bug(to) ==
    /\ best' = to
    /\ UNCHANGED db

(* Rewind, with its Commit. *)
Rewind(to) ==
    /\ best' = to /\ locator' = Locator(to)
    /\ UNCHANGED <<byHeight, orderly>>

(* Rewind, when Commit fails. *)
RewindFails ==
    /\ "rewind" \in Failing
    /\ orderly' = FALSE
    /\ UNCHANGED <<best, locator, byHeight>>
-----------------------------------------------------------------------------
(* ThreadSync. *)

(* Its locals are gone once it has left its loop. *)
ThreadEnds(place) == at' = place /\ pindex' = NoBlock /\ due' = FALSE

SyncInterrupted ==
    /\ at = "loop" /\ ~synced /\ stop # "no"
    /\ best' = pindex
    /\ Commit(pindex)
    /\ ThreadEnds("done")
    /\ UNCHANGED <<chain, pending, synced, stop, byHeight, asked, looked>>

HandOver_Bug(next) == next \in {NoBlock, tip}

(* When the thread has nothing left to do. *)
HandOver(next) == next = NoBlock

(* Under cs_main: the thread has caught up. *)
SyncDone ==
    /\ at = "loop" /\ ~synced /\ stop = "no"
    /\ HandOver(NextSyncBlock(pindex))
    /\ best' = pindex /\ synced' = TRUE
    /\ ThreadEnds("lastcommit")
    /\ UNCHANGED <<chain, pending, stop, db, asked, looked>>

(* Its Commit, beside which the callbacks already work. *)
LastCommit ==
    /\ at = "lastcommit"
    /\ Commit(best)
    /\ at' = "done"
    /\ UNCHANGED <<chain, pending, best, synced, stop, pindex, due, byHeight, asked, looked>>

(* Under cs_main: the next block. *)
SyncNext ==
    /\ at = "loop" /\ ~synced /\ stop = "no"
    /\ LET next == NextSyncBlock(pindex)
       IN  /\ ~HandOver(next) /\ Parent[next] = pindex
           /\ pindex' = next
    /\ at' = "commit"
    /\ UNCHANGED <<chain, pending, best, synced, stop, due, db, asked, looked>>

(* The chain has left the block indexed last. Rewind asserts that this is   *)
(* m_best_block_index, which the loop sets only now and then.               *)
SyncRewind ==
    /\ at = "loop" /\ ~synced /\ stop = "no"
    /\ LET next == NextSyncBlock(pindex)
       IN  /\ ~HandOver(next) /\ Parent[next] # pindex
           /\ IF pindex = best
              THEN \/ Rewind(Parent[next]) /\ pindex' = next /\ at' = "commit"
                   \/ RewindFails /\ at' = "failed" /\ pindex' = NoBlock
              ELSE /\ at' = "aborted"
                   /\ UNCHANGED <<best, db, pindex>>
    /\ IF at' = "failed" THEN Fatal ELSE UNCHANGED stop
    /\ UNCHANGED <<chain, pending, synced, due, asked, looked>>

(* The Commit of every SYNC_LOCATOR_WRITE_INTERVAL. *)
SyncCommit ==
    /\ at = "commit"
    /\ IF due
       THEN /\ best' = pindex /\ due' = FALSE
            /\ Commit(pindex)
       ELSE UNCHANGED <<best, due, locator, orderly>>
    /\ at' = "write"
    /\ UNCHANGED <<chain, pending, synced, stop, pindex, byHeight, asked, looked>>

SyncWrite ==
    /\ at = "write"
    /\ \/ WriteBlock(pindex) /\ at' = "loop" /\ UNCHANGED <<stop, pindex, due>>
       \/ WriteFails(pindex, "syncblock") /\ ThreadEnds("failed") /\ Fatal
    /\ UNCHANGED <<chain, pending, best, synced, asked, looked>>

(* Init found the index in sync: the thread has nothing to do. *)
SyncNotNeeded ==
    /\ at = "loop" /\ synced
    /\ ThreadEnds("done")
    /\ UNCHANGED <<chain, pending, best, synced, stop, db, asked, looked>>

(* 30 seconds pass. *)
IntervalPasses ==
    /\ at \in {"loop", "commit", "write"} /\ ~due
    /\ due' = TRUE
    /\ UNCHANGED <<chain, pending, best, synced, stop, at, pindex, db, asked, looked>>

ThreadSync ==
    \/ SyncInterrupted \/ SyncDone \/ LastCommit \/ SyncNext \/ SyncRewind
    \/ SyncCommit \/ SyncWrite \/ SyncNotNeeded
-----------------------------------------------------------------------------
(* The callbacks, one after the other (ProcessQueue). *)

Running(type) == at \notin {"aborted", "refused"} /\ pending # <<>> /\ Head(pending).type = type

Connects_Bug(b) == Parent[b] = best

(* The block connects to an ancestor of the best block. *)
Connects(b) == Parent[b] \in Chain[best] \cup {NoBlock}

(* Not in sync yet, or a block of a stale branch from before. An index in   *)
(* sync with no chain takes the genesis block only.                         *)
BlockConnectedIgnored ==
    /\ Running("BlockConnected")
    /\ ~synced \/ ~Connects(Head(pending).block)
    /\ pending' = Tail(pending)
    /\ IF synced /\ best = NoBlock THEN Fatal ELSE UNCHANGED stop
    /\ UNCHANGED <<chain, best, synced, thread, db, asked, looked>>

(* The first half of BlockConnected after a reorganisation. *)
BlockConnectedRewind ==
    /\ Running("BlockConnected") /\ synced /\ CsMainFree
    /\ LET b == Head(pending).block
       IN  /\ Connects(b) /\ best # Parent[b]
           /\ \/ Rewind(Parent[b]) /\ UNCHANGED <<pending, stop>>
              \/ /\ RewindFails
                 /\ pending' = Tail(pending) /\ Fatal
    /\ UNCHANGED <<chain, synced, thread, asked, looked>>

BlockConnected ==
    /\ Running("BlockConnected") /\ synced
    /\ LET b == Head(pending).block
       IN  /\ best = Parent[b]
           /\ \/ WriteBlock(b) /\ best' = b /\ UNCHANGED stop
              \/ WriteFails(b, "block") /\ Fatal /\ UNCHANGED best
    /\ pending' = Tail(pending)
    /\ UNCHANGED <<chain, synced, thread, asked, looked>>

(* m_best_block_index is used without a test for nullptr. *)
NullDereference ==
    /\ best = NoBlock
    /\ at' = "aborted"
    /\ UNCHANGED <<chain, pending, best, synced, stop, pindex, due, db, asked, looked>>

ChainStateFlushed ==
    /\ Running("ChainStateFlushed")
    /\ synced => CsMainFree
    /\ \/ synced /\ NullDereference
       \/ /\ ~synced \/ best # NoBlock
          /\ pending' = Tail(pending)
          /\ \/ /\ synced /\ Head(pending).block \in Chain[best]
                /\ Commit(best)
             \/ /\ ~synced \/ Head(pending).block \notin Chain[best]
                /\ UNCHANGED <<locator, orderly>>
          /\ UNCHANGED <<chain, best, synced, stop, thread, byHeight, asked, looked>>

ReachBarrier ==
    /\ Running("barrier")
    /\ pending' = Tail(pending) /\ asked' = NoBlock
    /\ UNCHANGED <<chain, best, synced, stop, thread, db, looked>>

Callback ==
    \/ BlockConnectedIgnored \/ BlockConnectedRewind \/ BlockConnected
    \/ ChainStateFlushed \/ ReachBarrier
-----------------------------------------------------------------------------
(* BlockUntilSyncedToCurrentChain, under cs_main. It changes nothing when   *)
(* the index is not in sync (false) or has the tip (true).                  *)
BlockUntilSyncedToCurrentChain ==
    /\ CsMainFree /\ stop = "no" /\ ~looked /\ asked = NoBlock
    /\ synced /\ tip # NoBlock
    /\ \/ NullDereference
       \/ /\ best # NoBlock /\ tip \notin Chain[best]
          /\ looked' = TRUE
          /\ UNCHANGED <<chain, pending, best, synced, stop, thread, db, asked>>

(* Without cs_main: the chain may have moved. The caller now waits for the  *)
(* callbacks queued so far.                                                 *)
SyncWithValidationInterfaceQueue ==
    /\ looked /\ at \notin {"aborted", "refused"}
    /\ Len(pending) < MaxPending
    /\ looked' = FALSE /\ asked' = tip /\ pending' = Append(pending, Barrier)
    /\ UNCHANGED <<chain, best, synced, stop, thread, db>>
-----------------------------------------------------------------------------
Next ==
    \/ \E b \in Block : ActivateBestChain(b)
    \/ InvalidateTip \/ FlushStateToDisk
    \/ ThreadSync \/ IntervalPasses \/ Callback
    \/ BlockUntilSyncedToCurrentChain \/ SyncWithValidationInterfaceQueue
    \/ Interrupt \/ ForceFlushStateToDisk \/ Shutdown \/ Crash \/ Reindex

Spec == Init /\ [][Next]_vars

(* All threads run, and a node that was told to stop stops. *)
FairSpec ==
    /\ Spec
    /\ WF_vars(ThreadSync) /\ WF_vars(Callback)
    /\ WF_vars(SyncWithValidationInterfaceQueue) /\ WF_vars(ForceFlushStateToDisk \/ Shutdown)
-----------------------------------------------------------------------------
(* Types, and what each place of ThreadSync stands for. *)
TypeOK ==
    /\ tip \in BlockOrNone /\ flushedTip \in BlockOrNone /\ best \in BlockOrNone
    /\ pindex \in BlockOrNone /\ locator \in BlockOrNone /\ asked \in BlockOrNone
    /\ synced \in BOOLEAN /\ looked \in BOOLEAN /\ orderly \in BOOLEAN /\ stop \in {"no", "asked", "flushed"} /\ due \in BOOLEAN
    /\ at \in (Places \ {"fresh"}) \cup {"aborted", "refused"}
    /\ byHeight \in [Heights -> BlockOrNone]
    /\ Len(pending) <= MaxPending
    /\ \A i \in DOMAIN pending :
          pending[i] = Barrier \/ \E b \in Block : pending[i] \in {Connected(b), ChainFlushed(b)}
    /\ at = "lastcommit" => synced /\ best # NoBlock
    /\ at \in {"commit", "write"} => ~synced /\ pindex # NoBlock

Covered(b) == \A a \in Chain[b] : byHeight[Height[a]] = a

(* "The last block in the chain that the index is in sync with": the height *)
(* index has every block up to it, except for the one that ThreadSync is    *)
(* about to write; also after a start, which goes on from the locator, as   *)
(* long as the database has been left in order.                             *)
IndexedUpToBest ==
    orderly => Covered(IF at = "write" /\ best = pindex THEN Parent[best] ELSE best)

(* The hand-over loses nothing: once the queue is empty, the index has      *)
(* reached the tip, whichever blocks came while ThreadSync was ending.      *)
CaughtUpWhenDrained == synced /\ pending = <<>> /\ stop = "no" => Chain[tip] \subseteq Chain[best]

(* BlockUntilSyncedToCurrentChain: "Blocks the current thread until the     *)
(* index is caught up to the current state of the block chain": when it has *)
(* waited, every block of the chain at the moment the wait began can be     *)
(* looked up, even if the chain has left it by then. The wait begins after  *)
(* cs_main was released: a block that the chain had at the call and left    *)
(* before the wait is not promised, nor kept.                               *)
PromiseKept ==
    [][ReachBarrier /\ stop = "no" /\ orderly => Covered(asked)]_vars

(* WriteBlock never meets a "previous block header [that] belongs to        *)
(* unexpected block", which would stop the node.                            *)
NextWriteFits == orderly =>
    /\ at = "write" => CanWrite(pindex)
    /\ Running("BlockConnected") /\ synced /\ best = Parent[Head(pending).block]
          => CanWrite(Head(pending).block)

(* The database agrees with m_best_block_index, and what ThreadSync or a    *)
(* callback writes next continues it.                                       *)
IndexSound == TypeOK /\ IndexedUpToBest /\ NextWriteFits

Disturbance == tip' # tip \/ Crash \/ Shutdown

(* Unless the chain keeps moving or the node stops, the index catches up.   *)
CatchesUp ==
    []<><<Disturbance>>_vars \/ []<>((synced /\ Chain[tip] \subseteq Chain[best]) \/ stop # "no" \/ at \in {"aborted", "refused"})
=============================================================================
