----------------------------- MODULE Chainstate -----------------------------
(***************************************************************************)
(* The block index and the choice of the active chain (validation.cpp,     *)
(* chain.h): headers and blocks arrive, ActivateBestChain moves the tip    *)
(* towards the candidate with the most work, the operator invalidates,     *)
(* reconsiders and favours blocks, the node restarts.                      *)
(*                                                                         *)
(* A definition whose name ends in _Bug is the one after it with a mistake; *)
(* it is used only to show which property notices the mistake.              *)
(*                                                                         *)
(* Two locks order the threads. m_cs_chainstate is held by at most one     *)
(* ActivateBestChain or InvalidateBlock, which "pc" follows; cs_main is    *)
(* held through pc = "find" and "step" and is free between the rounds      *)
(* ("abc", "inv"), when the other handlers run, one step each.             *)
(***************************************************************************)
EXTENDS Integers, FiniteSets

CONSTANTS
    Block, Genesis,         \* every block that ever exists
    NoBlock,                \* nullptr
    Parent,                 \* pprev of each block but Genesis
    Height, ChainWork,      \* nHeight and nChainWork
    Layouts,                \* where the allocator may put the CBlockIndex objects
    Time,                   \* nTime of the header
    BadBlock,               \* blocks ContextualCheckBlock rejects
    BadConnect,             \* blocks ConnectBlock rejects
    MaxReorganizationDepth, \* consensus.nMaxReorganizationDepth
    CoinbaseMaturity,       \* consensus.nCoinbaseMaturity, the checkpoint span
    MinSequenceId,          \* numeric_limits<int32_t>::min()
    Operator,               \* the RPCs in use
    DiskMayFail             \* may reading or flushing fail?

ASSUME TreeAssumption ==
    /\ IsFiniteSet(Block) /\ Genesis \in Block /\ NoBlock \notin Block
    /\ Parent \in [Block \ {Genesis} -> Block]
    /\ Height \in [Block -> Nat] /\ Height[Genesis] = 0
    /\ ChainWork \in [Block -> Nat \ {0}]
    /\ \A b \in Block \ {Genesis} : /\ Height[b] = Height[Parent[b]] + 1
                                    /\ ChainWork[b] > ChainWork[Parent[b]]
    /\ Layouts # {} /\ Layouts \subseteq [Block -> Nat]
    /\ \A l \in Layouts : \A a, b \in Block : l[a] = l[b] => a = b
    /\ Time \in [Block -> Nat]
    /\ BadBlock \subseteq Block \ {Genesis} /\ BadConnect \subseteq Block \ {Genesis}

ASSUME ParameterAssumption ==
    /\ MaxReorganizationDepth \in Nat \ {0} /\ CoinbaseMaturity \in Nat \ {0}
    /\ MinSequenceId \in Int /\ MinSequenceId <= -1
    /\ Operator \subseteq {"invalidateblock", "reconsiderblock", "preciousblock"}
    /\ DiskMayFail \in BOOLEAN

VARIABLES
    index,        \* m_block_index
    validity,     \* nStatus & BLOCK_VALID_MASK
    haveData,     \* BLOCK_HAVE_DATA; also nTx > 0
    failedValid,  \* BLOCK_FAILED_VALID
    failedChild,  \* BLOCK_FAILED_CHILD
    linked,       \* nChainTx # 0: HaveTxsDownloaded()
    unlinked,     \* the blocks B of the pairs (B->pprev, B) of m_blocks_unlinked
    failedBlocks, \* m_failed_blocks
    seqId, nextSeqId, reverseSeqId, lastPreciousWork,
    addr,         \* the addresses of the CBlockIndex objects: the last tie breaker
    candidates,   \* setBlockIndexCandidates
    tip,          \* m_chain.Tip(), which determines m_chain
    coinsBest,    \* CoinsTip().GetBestBlock()
    bestHeader,   \* pindexBestHeader
    pc, mostWork, startTip, oldTip, \* ActivateBestChain
    target, toMark, byWork,         \* InvalidateBlock
    seen,         \* history: the blocks linked when InvalidateBlock began
    pending,      \* some thread is about to call ActivateBestChain
    shutdown      \* ShutdownRequested()

indexVars == <<index, validity, haveData, failedValid, failedChild, linked, unlinked, failedBlocks>>
seqVars == <<seqId, nextSeqId, reverseSeqId, lastPreciousWork, addr>>
tipVars == <<tip, coinsBest>>
abcVars == <<pc, mostWork, startTip, oldTip>>
invVars == <<target, toMark, byWork, seen>>
vars == <<indexVars, seqVars, candidates, tipVars, bestHeader, abcVars, invVars, pending, shutdown>>

VALID_UNKNOWN == 0
VALID_TREE == 2
VALID_TRANSACTIONS == 3
VALID_SCRIPTS == 5
-----------------------------------------------------------------------------
(* GetAncestor: a is an ancestor of b, or b itself, if it is in every set   *)
(* that holds b and the parent of each of its members.                      *)
ParentClosed(S) == \A x \in S \ {Genesis} : Parent[x] \in S
Ancestors == [b \in Block |-> {a \in Block :
    \A S \in SUBSET Block : b \in S /\ ParentClosed(S) => a \in S}]

InChain(b) == b \in Ancestors[tip]

Failed(b) == b \in failedValid \cup failedChild

IsValid(b, nUpTo) == ~Failed(b) /\ validity[b] >= nUpTo

(* CBlockIndexWorkComparator: a sorts before b, with the sequence ids seq   *)
(* and the objects at the addresses at.                                     *)
WorseBy(seq, at, a, b) ==
    \/ ChainWork[a] < ChainWork[b]
    \/ /\ ChainWork[a] = ChainWork[b]
       /\ seq[a] > seq[b] \/ (seq[a] = seq[b] /\ at[a] > at[b])

Worse(a, b) == WorseBy(seqId, addr, a, b)

PruneTip_Bug(cands, seq, at, t) == {c \in cands : WorseBy(seq, at, t, c)}

(* PruneBlockIndexCandidates with the tip at t. *)
PruneBlockIndexCandidates(cands, seq, at, t) == {c \in cands : ~WorseBy(seq, at, c, t)}

(* InvalidChainFound(b): forget a best header that descends from b. *)
BestHeaderWithout(b) == IF b \in Ancestors[bestHeader] THEN tip ELSE bestHeader

(* AutoSelectSyncCheckpoint: the block CoinbaseMaturity below the tip. *)
SyncCheckpointHeight == IF Height[tip] > CoinbaseMaturity THEN Height[tip] - CoinbaseMaturity ELSE 0
SyncCheckpoint == CHOOSE a \in Ancestors[tip] : Height[a] = SyncCheckpointHeight

CsMainFree == pc \in {"idle", "abc", "inv"}
-----------------------------------------------------------------------------
(* A new node: LoadGenesisBlock and the first ActivateBestChain are done. *)
Init ==
    /\ index = {Genesis} /\ haveData = {Genesis} /\ linked = {Genesis}
    /\ validity = [b \in Block |-> IF b = Genesis THEN VALID_TRANSACTIONS ELSE VALID_UNKNOWN]
    /\ failedValid = {} /\ failedChild = {} /\ failedBlocks = {} /\ unlinked = {}
    /\ seqId = [b \in Block |-> IF b = Genesis THEN 1 ELSE 0]
    /\ nextSeqId = 2 /\ reverseSeqId = -1 /\ lastPreciousWork = 0
    /\ addr \in Layouts
    /\ candidates = {Genesis} /\ tip = Genesis /\ coinsBest = Genesis /\ bestHeader = Genesis
    /\ pc = "idle" /\ mostWork = NoBlock /\ startTip = Genesis /\ oldTip = Genesis
    /\ target = Genesis /\ toMark = Genesis /\ byWork = {} /\ seen = {}
    /\ pending = FALSE /\ shutdown = FALSE

(* The checks of AcceptBlockHeader and ContextualCheckBlockHeader on a new  *)
(* header that look at the chain: nothing older than the rolling checkpoint *)
(* by time, unless it extends the tip, nor by height, nor too deep a fork.  *)
HeaderInWindow(b) ==
    /\ Parent[b] # tip => Time[b] >= Time[SyncCheckpoint]
    /\ Height[tip] - Height[b] < MaxReorganizationDepth
    /\ Height[b] > SyncCheckpointHeight

(* A new header whose parent is known and not marked as failed. *)
HeaderConnects(b) ==
    /\ b \in Block \ index
    /\ Parent[b] \in index /\ ~Failed(Parent[b])
    /\ HeaderInWindow(b)

(* The known failed blocks a header descends from. They are not looked for  *)
(* when the parent is fully validated.                                      *)
FailedAncestors(b) ==
    IF IsValid(Parent[b], VALID_SCRIPTS) THEN {} ELSE failedBlocks \cap Ancestors[Parent[b]]

HeaderAccepted(b) == HeaderConnects(b) /\ FailedAncestors(b) = {}

(* AddToBlockIndex *)
BestHeaderWith(b) == IF ChainWork[bestHeader] < ChainWork[b] THEN b ELSE bestHeader

(* AcceptBlockHeader adds a header, received alone (ProcessNewBlockHeaders) *)
(* or with a block that AcceptBlock does not store: one nobody asked for.   *)
(* ProcessNewBlock calls ActivateBestChain then too.                        *)
AcceptBlockHeader(b) ==
    /\ CsMainFree /\ HeaderAccepted(b)
    /\ index' = index \cup {b}
    /\ validity' = [validity EXCEPT ![b] = VALID_TREE]
    /\ bestHeader' = BestHeaderWith(b)
    /\ pending' \in {pending, TRUE}
    /\ UNCHANGED <<haveData, failedValid, failedChild, linked, unlinked, failedBlocks, seqVars,
                   candidates, tipVars, abcVars, invVars, shutdown>>

(* AcceptBlockHeader refuses a header below a failed block and marks the    *)
(* blocks between them.                                                     *)
RejectFailedDescendant(b) ==
    /\ CsMainFree /\ HeaderConnects(b)
    /\ \E f \in FailedAncestors(b) :
          failedChild' = failedChild \cup {x \in Ancestors[Parent[b]] : x # f /\ f \in Ancestors[x]}
    /\ UNCHANGED <<index, validity, haveData, failedValid, linked, unlinked, failedBlocks, seqVars,
                   candidates, tipVars, bestHeader, abcVars, invVars, pending, shutdown>>

(* ProcessNewBlock and AcceptBlock get as far as the block's own checks. *)
BlockWanted(b) ==
    /\ CsMainFree
    /\ b \notin haveData
    /\ (b \in index /\ ~Failed(b)) \/ HeaderAccepted(b)

(* AcceptBlock: ContextualCheckBlock rejects the block. *)
AcceptBadBlock(b) ==
    /\ BlockWanted(b) /\ b \in BadBlock
    /\ index' = index \cup {b}
    /\ validity' = [validity EXCEPT ![b] = VALID_TREE]
    /\ bestHeader' = IF b \in index THEN bestHeader ELSE BestHeaderWith(b)
    /\ failedValid' = failedValid \cup {b}
    /\ UNCHANGED <<haveData, failedChild, linked, unlinked, failedBlocks, seqVars, candidates,
                   tipVars, abcVars, invVars, pending, shutdown>>

(* The queue of ReceivedBlockTransactions: b and what waits for it. *)
NowLinked(b) ==
    {x \in unlinked \cup {b} : /\ b \in Ancestors[x]
                               /\ Ancestors[x] \ Ancestors[b] \subseteq unlinked}

QueuedBehind_Bug(b) == IF IsValid(Parent[b], VALID_TRANSACTIONS) THEN unlinked \cup {b} ELSE unlinked

(* m_blocks_unlinked once b waits for its parent, unless that is invalid. *)
QueuedBehind(b) == IF IsValid(Parent[b], VALID_TREE) THEN unlinked \cup {b} ELSE unlinked

(* ids handed out from nextSeqId on, parents first (level by level). *)
SequenceOf(ids, L) ==
    /\ \A x, y \in L : ids[x] = ids[y] => x = y
    /\ \A x, y \in L : Height[x] < Height[y] => ids[x] < ids[y]

(* AcceptBlock stores the block; ReceivedBlockTransactions links it and the *)
(* blocks that waited for it, or queues it behind its missing parent.       *)
(* The caller then calls ActivateBestChain.                                 *)
AcceptBlock(b) ==
    /\ BlockWanted(b) /\ b \notin BadBlock
    /\ index' = index \cup {b}
    /\ validity' = [validity EXCEPT ![b] = VALID_TRANSACTIONS]
    /\ bestHeader' = IF b \in index THEN bestHeader ELSE BestHeaderWith(b)
    /\ haveData' = haveData \cup {b}
    /\ IF Parent[b] \in linked
       THEN LET L == NowLinked(b) IN
            /\ linked' = linked \cup L
            /\ unlinked' = unlinked \ L
            /\ \E ids \in [L -> nextSeqId .. nextSeqId + Cardinality(L) - 1] :
                  /\ SequenceOf(ids, L)
                  /\ seqId' = [x \in Block |-> IF x \in L THEN ids[x] ELSE seqId[x]]
            /\ nextSeqId' = nextSeqId + Cardinality(L)
            /\ candidates' = candidates \cup {x \in L : ~WorseBy(seqId', addr, x, tip)}
       ELSE /\ unlinked' = QueuedBehind(b)
            /\ UNCHANGED <<linked, seqId, nextSeqId, candidates>>
    /\ pending' = TRUE
    /\ UNCHANGED <<failedValid, failedChild, failedBlocks, reverseSeqId, lastPreciousWork, addr,
                   tipVars, abcVars, invVars, shutdown>>
-----------------------------------------------------------------------------
(* ActivateBestChain takes m_cs_chainstate. *)
StartActivate ==
    /\ pc = "idle" /\ pending
    /\ pc' = "abc" /\ mostWork' = NoBlock /\ pending' = FALSE
    /\ UNCHANGED <<indexVars, seqVars, candidates, tipVars, bestHeader, startTip, oldTip,
                   invVars, shutdown>>

(* A round begins: cs_main is taken. *)
LockRound ==
    /\ pc = "abc"
    /\ pc' = "find" /\ startTip' = tip
    /\ UNCHANGED <<indexVars, seqVars, candidates, tipVars, bestHeader, mostWork, oldTip, invVars,
                   pending, shutdown>>

(* The branch from the active chain to c. *)
Branch(c) == Ancestors[c] \ Ancestors[tip]

Unusable_Bug(c) == Branch(c) \ haveData

(* Its blocks that are invalid or lack data. *)
Unusable(c) == {x \in Branch(c) : Failed(x) \/ x \notin haveData}

Above_Bug(c, x) == Branch(c) \ {x}

(* Its blocks above x. *)
Above(c, x) == {y \in Branch(c) : y # x /\ x \in Ancestors[y]}

IsBestCandidate(c) == c \in candidates /\ \A d \in candidates : ~Worse(c, d)

(* FindMostWorkChain drops the best candidate, whose branch is unusable     *)
(* from x on, with the blocks above x, and looks again.                     *)
DropCandidate ==
    /\ pc = "find" /\ mostWork = NoBlock
    /\ \E c \in candidates : \E x \in Unusable(c) :
          /\ IsBestCandidate(c)
          /\ \A y \in Unusable(c) : Height[y] <= Height[x]
          /\ candidates' = candidates \ (Above(c, x) \cup {x})
          /\ failedChild' = IF Failed(x) THEN failedChild \cup Above(c, x) ELSE failedChild
          /\ unlinked' = IF Failed(x) THEN unlinked ELSE unlinked \cup Above(c, x)
    /\ UNCHANGED <<index, validity, haveData, failedValid, linked, failedBlocks, seqVars, tipVars,
                   bestHeader, abcVars, invVars, pending, shutdown>>

(* FindMostWorkChain returns c, or the cached pindexMostWork is used; there *)
(* is something to do.                                                      *)
BeginStep ==
    /\ pc = "find"
    /\ \E c \in Block :
          /\ IF mostWork = NoBlock THEN IsBestCandidate(c) /\ Unusable(c) = {} ELSE c = mostWork
          /\ c # tip
          /\ mostWork' = c
    /\ pc' = "step" /\ oldTip' = tip
    /\ UNCHANGED <<indexVars, seqVars, candidates, tipVars, bestHeader, startTip,
                   invVars, pending, shutdown>>

(* Nothing to do: the tip is the best candidate. The call ends. *)
NothingToDo ==
    /\ pc = "find"
    /\ IF mostWork = NoBlock
       THEN candidates = {} \/ (IsBestCandidate(tip) /\ Unusable(tip) = {})
       ELSE mostWork = tip
    /\ pc' = "idle" /\ mostWork' = NoBlock
    /\ UNCHANGED <<indexVars, seqVars, candidates, tipVars, bestHeader, startTip, oldTip,
                   invVars, pending, shutdown>>

EndStepEarly_Bug(t, m) ==
    \/ Worse(t, startTip) /\ pc' = "find" /\ mostWork' = m
    \/ ~Worse(t, startTip) /\ pc' = "idle" /\ mostWork' = NoBlock

EndStepUnlock_Bug(t, m) ==
    \/ t # m /\ ~shutdown /\ pc' = "abc" /\ mostWork' = m
    \/ (t = m \/ shutdown) /\ pc' = "idle" /\ mostWork' = NoBlock

(* The end of one ActivateBestChainStep that leaves the tip at t and        *)
(* pindexMostWork at m: another step while the tip is worse than at the     *)
(* start of the round; else cs_main is released, and the call goes on with  *)
(* a new round unless the goal is reached or the node shuts down.           *)
EndStep(t, m) ==
    \/ Worse(t, startTip) /\ pc' = "find" /\ mostWork' = m
    \/ ~Worse(t, startTip) /\ t # m /\ ~shutdown /\ pc' = "abc" /\ mostWork' = m
    \/ ~Worse(t, startTip) /\ (t = m \/ shutdown) /\ pc' = "idle" /\ mostWork' = NoBlock

(* DisconnectTip, whose assertion on the coins view is the first conjunct. *)
DisconnectTip ==
    /\ coinsBest = tip
    /\ tip' = Parent[tip] /\ coinsBest' = Parent[tip]

(* ActivateBestChainStep: disconnect down to the fork. *)
DisconnectStep ==
    /\ pc = "step" /\ tip \notin Ancestors[mostWork]
    /\ DisconnectTip
    /\ UNCHANGED <<indexVars, seqVars, candidates, bestHeader, abcVars, invVars, pending, shutdown>>

(* The next block on the way to pindexMostWork. *)
NextToConnect(b) == b \in Ancestors[mostWork] \ {Genesis} /\ Parent[b] = tip

RaiseValidity_Bug(b, nUpTo) == validity

(* RaiseValidity *)
RaiseValidity(b, nUpTo) ==
    [validity EXCEPT ![b] = IF Failed(b) \/ @ >= nUpTo THEN @ ELSE nUpTo]

(* ActivateBestChainStep: ConnectTip succeeds. The step ends when the tip   *)
(* has more work than before it, or at pindexMostWork.                      *)
ConnectStep ==
    /\ pc = "step" /\ coinsBest = tip
    /\ \E b \in Block \ BadConnect :
          /\ NextToConnect(b)
          /\ tip' = b /\ coinsBest' = b
          /\ validity' = RaiseValidity(b, VALID_SCRIPTS)
          /\ candidates' = PruneBlockIndexCandidates(candidates, seqId, addr, b)
          /\ IF ChainWork[b] > ChainWork[oldTip] \/ b = mostWork
             THEN EndStep(b, mostWork)
             ELSE UNCHANGED <<pc, mostWork>>
    /\ UNCHANGED <<index, haveData, failedValid, failedChild, linked, unlinked, failedBlocks,
                   seqVars, bestHeader, startTip, oldTip, invVars, pending, shutdown>>

(* ActivateBestChainStep: ConnectBlock rejects the block. InvalidBlockFound *)
(* marks it, the step ends and pindexMostWork is forgotten.                 *)
ConnectFails ==
    /\ pc = "step" /\ coinsBest = tip
    /\ \E b \in BadConnect :
          /\ NextToConnect(b)
          /\ failedValid' = failedValid \cup {b}
          /\ failedBlocks' = failedBlocks \cup {b}
          /\ candidates' = candidates \ {b}
          /\ bestHeader' = BestHeaderWithout(b)
    /\ EndStep(tip, NoBlock)
    /\ UNCHANGED <<index, validity, haveData, failedChild, linked, unlinked, seqVars, tipVars,
                   startTip, oldTip, invVars, pending, shutdown>>

(* A block cannot be read: AbortNode requests the shutdown, the call ends. *)
ReadError ==
    /\ pc = "step" /\ DiskMayFail
    /\ shutdown' = TRUE
    /\ pc' = "idle" /\ mostWork' = NoBlock
    /\ UNCHANGED <<indexVars, seqVars, candidates, tipVars, bestHeader, startTip, oldTip, invVars,
                   pending>>

(* FlushStateToDisk fails after the block's view was flushed into           *)
(* CoinsTip() and before m_chain moves; AbortNode, and the call ends.       *)
FlushError ==
    /\ pc = "step" /\ DiskMayFail /\ coinsBest = tip
    /\ \/ /\ tip \notin Ancestors[mostWork]
          /\ coinsBest' = Parent[tip] /\ validity' = validity
       \/ \E b \in Block \ BadConnect :
             /\ NextToConnect(b)
             /\ coinsBest' = b /\ validity' = RaiseValidity(b, VALID_SCRIPTS)
    /\ shutdown' = TRUE
    /\ pc' = "idle" /\ mostWork' = NoBlock
    /\ UNCHANGED <<index, haveData, failedValid, failedChild, linked, unlinked, failedBlocks,
                   seqVars, candidates, tip, bestHeader, startTip, oldTip, invVars, pending>>
-----------------------------------------------------------------------------
(* InvalidateBlock takes m_cs_chainstate and remembers the side branches    *)
(* that may become candidates.                                              *)
StartInvalidate(b) ==
    /\ "invalidateblock" \in Operator
    /\ pc = "idle" /\ b \in index \ {Genesis}
    /\ pc' = "inv" /\ target' = b /\ toMark' = b
    /\ byWork' = {c \in index : /\ ~InChain(c) /\ ~Worse(c, Parent[b])
                                /\ IsValid(c, VALID_TRANSACTIONS) /\ c \in linked}
    /\ seen' = linked
    /\ UNCHANGED <<indexVars, seqVars, candidates, tipVars, bestHeader, mostWork, startTip, oldTip,
                   pending, shutdown>>

InvalidateGoesOn_Bug == ~shutdown /\ InChain(target) /\ tip # target

(* The condition of its loop. *)
InvalidateGoesOn == ~shutdown /\ InChain(target)

(* One round of it: disconnect the tip and mark it. *)
InvalidateTip ==
    /\ pc = "inv" /\ InvalidateGoesOn
    /\ LET prev == Parent[tip]
           better == {c \in byWork : ~Worse(c, prev)}
           nowChild == IF prev = toMark /\ toMark \in failedValid THEN {toMark} ELSE {}
       IN  /\ DisconnectTip
           /\ failedValid' = (failedValid \cup {tip}) \ nowChild
           /\ failedChild' = failedChild \cup nowChild
           /\ candidates' = (candidates \ {tip}) \cup {prev} \cup better
           /\ byWork' = byWork \ better
           /\ toMark' = tip
    /\ UNCHANGED <<index, validity, haveData, linked, unlinked, failedBlocks, seqVars, bestHeader,
                   abcVars, target, seen, pending, shutdown>>

(* DisconnectTip fails in that round and the call ends: either nothing was  *)
(* done, and the RPC goes on to ActivateBestChain, or FlushStateToDisk      *)
(* failed as in FlushError.                                                 *)
InvalidateError ==
    /\ pc = "inv" /\ InvalidateGoesOn /\ DiskMayFail /\ coinsBest = tip
    /\ \/ coinsBest' = coinsBest /\ pending' = TRUE /\ shutdown' = shutdown
       \/ coinsBest' = Parent[tip] /\ pending' = pending /\ shutdown' = TRUE
    /\ pc' = "idle" /\ byWork' = {} /\ seen' = {} /\ target' = Genesis /\ toMark' = Genesis
    /\ UNCHANGED <<indexVars, seqVars, candidates, tip, bestHeader, mostWork, startTip, oldTip>>

(* Connecting or disconnecting with the coins view at another block than    *)
(* the tip fails an assertion: the process is gone.                         *)
AssertionFails ==
    /\ \/ pc = "step"
       \/ pc = "inv" /\ InvalidateGoesOn
    /\ coinsBest # tip
    /\ pc' = "aborted"
    /\ UNCHANGED <<indexVars, seqVars, candidates, tipVars, bestHeader, mostWork, startTip, oldTip,
                   invVars, pending, shutdown>>

CompletedWithout_Bug(b) == candidates \ {b}

(* The candidates without b and with the blocks that arrived meanwhile. *)
CompletedWithout(b) ==
    (candidates \ {b}) \cup {c \in index \ {b} : /\ IsValid(c, VALID_TRANSACTIONS)
                                                /\ c \in linked /\ ~Worse(c, tip)}

(* Its end: the last block disconnected (or the target, when it was not in  *)
(* the chain) is the failed one, and the candidates are completed. The RPC  *)
(* then calls ActivateBestChain.                                            *)
FinishInvalidate ==
    /\ pc = "inv" /\ ~InvalidateGoesOn
    /\ IF InChain(toMark)
       THEN UNCHANGED <<failedValid, failedBlocks, candidates, bestHeader>>
       ELSE /\ failedValid' = failedValid \cup {toMark}
            /\ failedBlocks' = failedBlocks \cup {toMark}
            /\ candidates' = CompletedWithout(toMark)
            /\ bestHeader' = BestHeaderWithout(toMark)
    /\ pc' = "idle" /\ byWork' = {} /\ seen' = {} /\ target' = Genesis /\ toMark' = Genesis
    /\ pending' = TRUE
    /\ UNCHANGED <<index, validity, haveData, failedChild, linked, unlinked, seqVars, tipVars,
                   mostWork, startTip, oldTip, shutdown>>

ClearedFailedBlocks_Bug(b, cleared) == failedBlocks \ {b}

(* m_failed_blocks without the blocks whose flags are cleared. *)
ClearedFailedBlocks(b, cleared) == failedBlocks \ cleared

(* ResetBlockFailureFlags of b, its descendants and its ancestors; the RPC  *)
(* then calls ActivateBestChain.                                            *)
ReconsiderBlock(b) ==
    /\ "reconsiderblock" \in Operator
    /\ CsMainFree /\ b \in index
    /\ LET below == {x \in index : b \in Ancestors[x] /\ ~IsValid(x, VALID_TRANSACTIONS)}
           cleared == below \cup {x \in Ancestors[b] : Failed(x)}
       IN  /\ failedValid' = failedValid \ cleared
           /\ failedChild' = failedChild \ cleared
           /\ failedBlocks' = ClearedFailedBlocks(b, cleared)
           /\ candidates' = candidates \cup
                {x \in below : validity[x] >= VALID_TRANSACTIONS /\ x \in linked /\ Worse(tip, x)}
    /\ pending' = TRUE
    /\ UNCHANGED <<index, validity, haveData, linked, unlinked, seqVars, tipVars, bestHeader,
                   abcVars, invVars, shutdown>>

Decremented_Bug(id) == id - 1

(* nBlockReverseSequenceId after id was used. *)
Decremented(id) == IF id > MinSequenceId THEN id - 1 ELSE id

(* PreciousBlock: b sorts before the other blocks with its work from now    *)
(* on; ActivateBestChain follows.                                           *)
PreciousBlock(b) ==
    /\ "preciousblock" \in Operator
    /\ CsMainFree /\ b \in index /\ ChainWork[b] >= ChainWork[tip]
    /\ LET id == IF ChainWork[tip] > lastPreciousWork THEN -1 ELSE reverseSeqId
           seq == [seqId EXCEPT ![b] = id]
       IN  /\ seqId' = seq
           /\ reverseSeqId' = Decremented(id)
           /\ candidates' = IF IsValid(b, VALID_TRANSACTIONS) /\ b \in linked
                            THEN PruneBlockIndexCandidates(candidates \cup {b}, seq, addr, tip)
                            ELSE candidates \ {b}
    /\ lastPreciousWork' = ChainWork[tip]
    /\ pending' = TRUE
    /\ UNCHANGED <<indexVars, nextSeqId, addr, tipVars, bestHeader, abcVars, invVars, shutdown>>
-----------------------------------------------------------------------------
RequestShutdown ==
    /\ ~shutdown /\ shutdown' = TRUE
    /\ UNCHANGED <<indexVars, seqVars, candidates, tipVars, bestHeader, abcVars, invVars, pending>>

(* The node stops, having saved the index and the coins, and starts again:  *)
(* LoadBlockIndex recomputes what is not saved and spreads the failure      *)
(* flags, LoadChainTip follows the coins, and the import thread calls       *)
(* ActivateBestChain. FindMostWorkChain does not put the blocks it marks in *)
(* setDirtyBlockIndex, so some BLOCK_FAILED_CHILD flags are not saved.      *)
Restart ==
    /\ shutdown /\ pc = "idle"
    /\ addr' \in Layouts
    /\ \E saved \in SUBSET failedChild :
       LET flagged == failedValid \cup saved
           spread == {b \in index \ flagged : Ancestors[b] \cap flagged # {}}
           valid == index \ (flagged \cup spread)
           all == {b \in haveData : Ancestors[b] \subseteq haveData}
           zero == [b \in Block |-> 0]
       IN  /\ failedChild' = saved \cup spread
           /\ linked' = all
           /\ unlinked' = haveData \ all
           /\ seqId' = zero /\ nextSeqId' = 1 /\ reverseSeqId' = -1 /\ lastPreciousWork' = 0
           /\ candidates' = PruneBlockIndexCandidates(
                    {b \in valid \cap all : validity[b] >= VALID_TRANSACTIONS}, zero, addr', coinsBest)
           /\ bestHeader' \in {b \in valid : \A d \in valid : ~WorseBy(zero, addr', b, d)}
    /\ failedBlocks' = {}
    /\ tip' = coinsBest
    /\ pending' = TRUE /\ shutdown' = FALSE
    /\ UNCHANGED <<index, validity, haveData, failedValid, coinsBest, abcVars, invVars>>

Activate ==
    \/ StartActivate \/ LockRound \/ DropCandidate \/ BeginStep \/ NothingToDo
    \/ DisconnectStep \/ ConnectStep \/ ConnectFails

Next ==
    \/ Activate \/ ReadError \/ FlushError \/ AssertionFails
    \/ \E b \in Block \ {Genesis} :
          \/ AcceptBlockHeader(b) \/ RejectFailedDescendant(b) \/ AcceptBadBlock(b) \/ AcceptBlock(b)
          \/ StartInvalidate(b)
    \/ \E b \in Block : ReconsiderBlock(b) \/ PreciousBlock(b)
    \/ InvalidateTip \/ InvalidateError \/ FinishInvalidate
    \/ RequestShutdown \/ Restart

Spec == Init /\ [][Next]_vars

(* The thread inside ActivateBestChain, and one about to call it, go on. *)
FairSpec == Spec /\ WF_vars(Activate)
-----------------------------------------------------------------------------
(* The types of the block index, the locks and the locals. *)
TypeOK ==
    /\ Genesis \in index /\ index \subseteq Block
    /\ haveData \subseteq index /\ linked \subseteq haveData /\ unlinked \subseteq haveData
    /\ failedValid \subseteq index /\ failedChild \subseteq index /\ failedBlocks \subseteq index
    /\ validity \in [Block -> {VALID_UNKNOWN, VALID_TREE, VALID_TRANSACTIONS, VALID_SCRIPTS}]
    /\ seqId \in [Block -> Int] /\ nextSeqId \in Nat
    /\ reverseSeqId \in MinSequenceId .. -1 /\ lastPreciousWork \in Nat
    /\ addr \in Layouts
    /\ candidates \subseteq linked
    /\ tip \in linked /\ coinsBest \in linked /\ bestHeader \in index
    /\ pc \in {"idle", "abc", "find", "step", "inv", "aborted"}
    /\ mostWork \in linked \cup {NoBlock} /\ (pc = "step" => mostWork # NoBlock)
    /\ startTip \in index /\ oldTip \in index
    /\ target \in index /\ toMark \in index /\ byWork \subseteq linked /\ seen \subseteq linked
    /\ pending \in BOOLEAN /\ shutdown \in BOOLEAN

NoFailedAncestor(b) == Ancestors[b] \cap failedValid = {}

(* Every block that sorts at least as well as the tip, has the data of its  *)
(* whole chain and no invalid ancestor is a candidate, except for those in  *)
(* the set late.                                                            *)
CompleteBut(late) ==
    \A b \in index \ late : Ancestors[b] \subseteq haveData /\ ~Worse(b, tip) /\ NoFailedAncestor(b)
                            => b \in candidates

(* What CheckBlockIndex asserts, whenever another thread can look (cs_main  *)
(* is free), is true but for one case: between the rounds of InvalidateBlock *)
(* the candidates may lack a block that has been linked since it began,     *)
(* which was worse than the tip of that moment and is not in its list of    *)
(* side branches. Nothing else is missing there, and nothing at all after   *)
(* the end of the call.                                                     *)
CandidatesComplete == CsMainFree => CompleteBut(IF pc = "inv" THEN linked \ seen ELSE {})

(* LoadBlockIndex and LoadChainTip rebuild the candidates whatever a disk   *)
(* error left in memory, with the tip where the coins are: every block with *)
(* the data of its whole chain that sorts at least as well as the new tip,  *)
(* and that no flag excluded before, is one. (reconsiderblock may leave a   *)
(* BLOCK_FAILED_CHILD without a cause, which a restart keeps.)              *)
CompleteAfterRestart ==
    [][Restart =>
        /\ coinsBest' = tip'
        /\ \A b \in index : /\ Ancestors[b] \subseteq haveData /\ ~WorseBy(seqId', addr', b, tip')
                            /\ Ancestors[b] \cap (failedValid \cup failedChild) = {}
                            => b \in candidates']_vars

(* CheckBlockIndex: no candidate sorts before the tip or lacks the data of  *)
(* an ancestor, so FindMostWorkChain meets no missing data and the pruning  *)
(* assertion finds a candidate left.                                        *)
CandidatesSound ==
    /\ candidates # {}
    /\ \A b \in candidates : Ancestors[b] \subseteq haveData
    /\ CsMainFree => \A b \in candidates : ~Worse(b, tip)

(* setBlockIndexCandidates holds every block that could be the next tip,    *)
(* those excepted that arrive during an InvalidateBlock, and none that      *)
(* could not, whichever thread changed the index meanwhile.                 *)
CandidatesExact == CandidatesComplete /\ CandidatesSound

(* CheckBlockIndex: HaveTxsDownloaded() says that the data of the whole     *)
(* chain has arrived, in whatever order it came, before or after a restart. *)
LinkedIffAllData == linked = {b \in index : Ancestors[b] \subseteq haveData}

(* CheckBlockIndex: exactly the blocks with data that wait for an ancestor  *)
(* are in m_blocks_unlinked, those below an invalid block excepted.         *)
UnlinkedExact ==
    /\ unlinked \cap linked = {}
    /\ \A b \in haveData \ linked : NoFailedAncestor(b) => b \in unlinked

(* Each block with data is linked to the genesis block or waits in          *)
(* m_blocks_unlinked, in every order of arrival, over failures and restarts.*)
IndexLinked == LinkedIffAllData /\ UnlinkedExact

(* CheckBlockIndex: no block is marked as failed without a failed ancestor. *)
FailedHasCause == \A b \in index : Failed(b) => ~NoFailedAncestor(b)

(* Marks left by ConnectTip, AcceptBlock, FindMostWorkChain and             *)
(* AcceptBlockHeader never reach a block whose ancestors are all valid.     *)
NoInnocentFailed == \A b \in index : Failed(b) => Ancestors[b] \cap (BadBlock \cup BadConnect) # {}

(* AcceptBlockHeader asserts that a block of m_failed_blocks is marked as   *)
(* failed itself.                                                           *)
FailedBlocksFlagged == failedBlocks \subseteq failedValid

(* FindMostWorkChain relies on it: every block of the active chain has its  *)
(* data, passed ConnectBlock and is not marked as failed.                   *)
ActiveChainValid ==
    \A b \in Ancestors[tip] :
        /\ b \in haveData /\ ~Failed(b)
        /\ b # Genesis => validity[b] = VALID_SCRIPTS /\ b \notin BadConnect \cup BadBlock

(* ActivateBestChain leaves nothing to do: when no call is running or about *)
(* to run, no block with all its data and no failed ancestor beats the tip. *)
TipIsBest ==
    pc = "idle" /\ ~pending /\ ~shutdown =>
        \A b \in linked : NoFailedAncestor(b) => ~Worse(tip, b)

(* ActivateBestChain: "We absolutely may not unlock cs_main until we've     *)
(* made forward progress": a failed reorganisation is undone before the     *)
(* lock is released, errors of the disk excepted.                           *)
ForwardProgress ==
    [][~CsMainFree /\ CsMainFree' => ReadError \/ FlushError \/ ~Worse(tip', startTip)]_vars

(* InvalidateBlock: when it runs to its end, the block asked for is marked  *)
(* and out of the active chain, however many blocks were above it.          *)
InvalidateMarksTarget ==
    [][FinishInvalidate /\ ~shutdown => target \in failedValid' /\ target \notin Ancestors[tip']]_vars

(* Every block that can be connected is, or something with as much work is: *)
(* ActivateBestChain is always called again when a block was linked, also   *)
(* if preciousblock reorders the candidates between its rounds.             *)
BestBlockActivated ==
    \A b \in Block :
        (b \in linked /\ Ancestors[b] \cap (BadConnect \cup failedValid) = {})
            ~> (ChainWork[tip] >= ChainWork[b] \/ shutdown)

(* A call of ActivateBestChain ends. *)
ActivateEnds == (pc \in {"abc", "find", "step"}) ~> (pc = "idle")
-----------------------------------------------------------------------------
(* What comments, assertions and help texts say and the code does not do.   *)

(* reconsiderblock: "Removes invalidity status of a block, its ancestors    *)
(* and its descendants, reconsider them for activation": each of them that  *)
(* could be activated is a candidate afterwards.                            *)
ReconsiderActivates ==
    [][\A b \in index : ReconsiderBlock(b) =>
        \A x \in linked : /\ x \in Ancestors[b] \/ b \in Ancestors[x]
                          /\ Worse(tip, x) /\ NoFailedAncestor(x)'
                          => x \in candidates']_vars

(* InvalidateBlock: "we should keep the block index in a consistent state   *)
(* as we disconnect blocks", and CheckBlockIndex, which it calls with       *)
(* cs_main free: the candidates lack nothing, whatever has just arrived.    *)
CompleteWhileInvalidating == pc = "inv" => CompleteBut({})

(* InvalidateBlock: "We only want to mark the last disconnected block as    *)
(* BLOCK_FAILED_VALID; its children need to be BLOCK_FAILED_CHILD instead." *)
OnlyLastFailedValid ==
    [][InvalidateTip /\ Parent[toMark] = tip => toMark \notin failedValid']_vars

(* DisconnectTip and ConnectBlock assert that the coins view is at the      *)
(* block they start from.                                                   *)
CoinsAtTip == pc # "aborted"
=============================================================================
