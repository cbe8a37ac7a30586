------------------------------ MODULE Mempool ------------------------------
(***************************************************************************)
(* The memory pool (txmempool.cpp) and the part of validation.cpp that     *)
(* keeps it in step with the active chain: acceptance of a transaction,    *)
(* the removals a connected block causes, and a reorganisation, in which   *)
(* the transactions of the disconnected blocks wait in a                   *)
(* DisconnectedBlockTransactions queue until MaybeUpdateMempoolForReorg    *)
(* puts them back.                                                         *)
(*                                                                         *)
(* Everything here runs under cs_main and the pool's own lock, so a        *)
(* compound operation is a run of steps during which "at" is not "idle"    *)
(* and nothing else starts.  Sizes and fees follow the same updates as the *)
(* counts and are not kept; scores, entry times and script policy are left *)
(* open.                                                                   *)
(***************************************************************************)
EXTENDS Integers, FiniteSets, Sequences

CONSTANTS
    Tx,             \* transactions
    Outpoint,       \* transaction outputs
    Ins, Outs,      \* the outputs a transaction spends and creates
    Kind,           \* "coinbase", "coinstake" or "normal"
    LockHeight,     \* nLockTime as a height; 0 for none
    Blocks,         \* the lists of transactions a block may hold
    Maturity,       \* consensus nCoinbaseMaturity
    V3_1,           \* the transactions whose time is after the start of protocol V3.1
    MaxHeight,      \* bound on the length of the chain
    MaxPool,        \* -maxmempool, in transactions
    MaxQueue,       \* MAX_DISCONNECTED_TX_POOL_SIZE, in transactions
    MaxAncestors,   \* -limitancestorcount
    MaxDescendants  \* -limitdescendantcount

\* Only a coinbase spends nothing (CheckTransaction), and a block holds no
\* transaction twice (CheckBlock: one coinbase, no mutated merkle tree).
ASSUME MempoolAssumption ==
    /\ IsFiniteSet(Tx)
    /\ Ins \in [Tx -> SUBSET Outpoint] /\ Outs \in [Tx -> SUBSET Outpoint]
    /\ \A t, u \in Tx : t # u => Outs[t] \cap Outs[u] = {}
    /\ Kind \in [Tx -> {"coinbase", "coinstake", "normal"}]
    /\ \A t \in Tx : Kind[t] # "coinbase" => Ins[t] # {}
    /\ LockHeight \in [Tx -> Nat]
    /\ V3_1 \subseteq Tx
    /\ Blocks \subseteq Seq(Tx)
    /\ \A block \in Blocks : \A i, j \in DOMAIN block : i # j => block[i] # block[j]
    /\ {Maturity, MaxHeight, MaxPool, MaxQueue} \subseteq Nat
    /\ {MaxAncestors, MaxDescendants} \subseteq Nat

VARIABLES
    chain,      \* the active chain above the genesis block, a sequence of blocks
    mp,         \* the pool: its entries, their cached links and counts
    queue,      \* disconnectpool.queuedTx, in insertion order
    readded,    \* vHashUpdate
    todo,       \* the transactions the loop being run has not come to yet
    at,         \* what the lock holder is doing
    add         \* fAddToMempool

vars == <<chain, mp, queue, readded, todo, at, add>>

(***************************************************************************)
(* Sequences.                                                              *)
(***************************************************************************)

ToSet(s) == {s[i] : i \in DOMAIN s}
Last(s) == s[Len(s)]
Front(s) == SubSeq(s, 1, Len(s) - 1)
Reverse(s) == [i \in 1 .. Len(s) |-> s[Len(s) + 1 - i]]
RemoveAt(s, i) == [j \in 1 .. Len(s) - 1 |-> IF j < i THEN s[j] ELSE s[j + 1]]

(***************************************************************************)
(* The chain and its coins.                                                *)
(***************************************************************************)

Confirmed(ch) == UNION {ToSet(ch[h]) : h \in DOMAIN ch}

Created(S) == UNION {Outs[t] : t \in S}
Spent(S) == UNION {Ins[t] : t \in S}

\* Outputs no transaction of Tx creates belong to the genesis block.
Genesis == Outpoint \ Created(Tx)

CoinsTip(ch) == (Genesis \cup Created(Confirmed(ch))) \ Spent(Confirmed(ch))

\* The generating transactions of the chain whose outputs a block on top of it would
\* spend less than maturity blocks later.
Immature(ch, kinds, maturity) ==
    UNION {{t \in ToSet(ch[h]) : Kind[t] \in kinds /\ Len(ch) + 1 < h + maturity}
              : h \in DOMAIN ch}

\* The maturity CheckTxInputs asks for.  Before V3.1 it reads it from Params(), which
\* in the namespace Consensus is a new Consensus::Params of zeros.
SpendMaturity(t) == IF t \in V3_1 THEN Maturity ELSE 0

MatureIn(ch, t) ==
    Ins[t] \cap Created(Immature(ch, {"coinbase", "coinstake"}, SpendMaturity(t))) = {}

CheckFinalTx(ch, t) == LockHeight[t] < Len(ch) + 1

\* What ConnectBlock requires of a block on top of ch, as far as the pool cares.
ConnectBlock(ch, block) ==
    /\ ToSet(block) \cap Confirmed(ch) = {}
    /\ \A i \in DOMAIN block :
          LET before == {block[j] : j \in 1 .. i - 1}
          IN  /\ Ins[block[i]] \subseteq
                    (CoinsTip(ch) \cup Created(before)) \ Spent(before)
              /\ SpendMaturity(block[i]) > 0 =>
                    Ins[block[i]] \cap Created({t \in before : Kind[t] # "normal"}) = {}
              /\ MatureIn(ch, block[i])
              /\ CheckFinalTx(ch, block[i])

(***************************************************************************)
(* The entries.  A link or a count of a transaction outside the pool is    *)
(* empty or zero.                                                          *)
(***************************************************************************)

Reach(link, S) ==
    LET within[n \in 0 .. Cardinality(Tx)] ==
            IF n = 0 THEN S
            ELSE LET nearer == within[n - 1]
                 IN  nearer \cup UNION {link[t] : t \in nearer}
    IN  within[Cardinality(Tx)]

\* mapNextTx: the entries that spend an output of S.
Spenders(m, S) == {t \in m.pool : Ins[t] \cap S # {}}

ParentsInPool(m, t) == {p \in m.pool : Outs[p] \cap Ins[t] # {}}

CalculateDescendants(m, S) == Reach(m.children, S)

CalculateMemPoolAncestors(m, t) == Reach(m.parents, ParentsInPool(m, t))

Within(m, t, limitAncestors, limitDescendants) ==
    LET ancestors == CalculateMemPoolAncestors(m, t)
    IN  /\ Cardinality(ancestors) + 1 <= limitAncestors
        /\ \A a \in ancestors : m.desc[a] + 1 <= limitDescendants

\* The second alternative is the carve-out for one more child of a full parent.
WithinLimits(m, t) ==
    \/ Within(m, t, MaxAncestors, MaxDescendants)
    \/ Within(m, t, 2, MaxDescendants + 1)

addUnchecked(m, t) ==
    LET ancestors == CalculateMemPoolAncestors(m, t)
        parents == ParentsInPool(m, t)
    IN  [pool     |-> m.pool \cup {t},
         parents  |-> [m.parents EXCEPT ![t] = parents],
         children |-> [u \in Tx |-> IF u \in parents THEN m.children[u] \cup {t}
                                                     ELSE m.children[u]],
         anc      |-> [m.anc EXCEPT ![t] = Cardinality(ancestors) + 1],
         desc     |-> [u \in Tx |-> IF u = t THEN 1
                                    ELSE IF u \in ancestors THEN m.desc[u] + 1
                                    ELSE m.desc[u]]]

\* The counts and links left behind when the entries of S are taken out.
UpdateForRemoveFromMempool(m, S, updateDescendants) ==
    LET below == [r \in S |-> CalculateDescendants(m, {r}) \ {r}]
        above == [r \in S |-> Reach(m.parents, m.parents[r])]
    IN  [pool     |-> m.pool,
         parents  |-> [u \in Tx |-> m.parents[u] \ S],
         children |-> [u \in Tx |-> m.children[u] \ S],
         anc      |-> [u \in Tx |->
                          IF updateDescendants
                          THEN m.anc[u] - Cardinality({r \in S : u \in below[r]})
                          ELSE m.anc[u]],
         desc     |-> [u \in Tx |-> m.desc[u] - Cardinality({r \in S : u \in above[r]})]]

removeUnchecked(m, S) ==
    [pool     |-> m.pool \ S,
     parents  |-> [u \in Tx |-> IF u \in S THEN {} ELSE m.parents[u]],
     children |-> [u \in Tx |-> IF u \in S THEN {} ELSE m.children[u]],
     anc      |-> [u \in Tx |-> IF u \in S THEN 0 ELSE m.anc[u]],
     desc     |-> [u \in Tx |-> IF u \in S THEN 0 ELSE m.desc[u]]]

RemoveStaged(m, S, updateDescendants) ==
    removeUnchecked(UpdateForRemoveFromMempool(m, S, updateDescendants), S)

\* The mutant forgets the entries that spend a transaction not in the pool.
removeRecursive_Bug(m, t) ==
    RemoveStaged(m, CalculateDescendants(m, {t} \cap m.pool), FALSE)

removeRecursive(m, t) ==
    LET txToRemove == IF t \in m.pool THEN {t} ELSE Spenders(m, Outs[t])
    IN  RemoveStaged(m, CalculateDescendants(m, txToRemove), FALSE)

\* removeRecursive of each conflicting spender: together they take all they carry.
removeConflicts(m, t) ==
    RemoveStaged(m, CalculateDescendants(m, Spenders(m, Ins[t]) \ {t}), FALSE)

RemoveConfirmed(m, t) ==
    IF t \in m.pool THEN RemoveStaged(m, {t}, TRUE) ELSE m

\* One turn of the loop over a connected block.
removeForBlock(m, t) == removeConflicts(RemoveConfirmed(m, t), t)

\* cachedDescendants only saves a second walk over the same links.
UpdateForDescendants(m, t, included) ==
    LET descendants == CalculateDescendants(m, m.children[t]) \ included
    IN  [m EXCEPT !.anc = [u \in Tx |-> IF u \in descendants THEN @[u] + 1 ELSE @[u]],
                  !.desc[t] = @ + Cardinality(descendants)]

\* The mutant links the children to t and forgets the way back.
LinkChildren_Bug(m, t, included) ==
    [m EXCEPT !.children[t] = @ \cup (Spenders(m, Outs[t]) \ included)]

\* Links t to the entries outside the block that spend it.
LinkChildren(m, t, included) ==
    LET found == Spenders(m, Outs[t]) \ included
    IN  [m EXCEPT !.children[t] = @ \cup found,
                  !.parents = [u \in Tx |-> IF u \in found THEN @[u] \cup {t} ELSE @[u]]]

\* One turn of the loop over vHashUpdate.
UpdateTransactionsFromBlock(m, t, included) ==
    IF t \in m.pool THEN UpdateForDescendants(LinkChildren(m, t, included), t, included)
                    ELSE m

\* An entry a block on the new tip could not hold: not final, or spending an
\* immature coin.  The scan looks at coinbase coins only, and asks for the full
\* maturity at any time.
NoLongerValid_Bug(m, ch) ==
    {t \in m.pool : Ins[t] \cap Created(Immature(ch, {"coinbase"}, Maturity)) # {}}

NoLongerValid(m, ch) ==
    {t \in m.pool : \/ ~CheckFinalTx(ch, t)
                    \/ Ins[t] \cap Created(Immature(ch, {"coinbase"}, Maturity)) # {}}

removeForReorg(m, ch) ==
    RemoveStaged(m, CalculateDescendants(m, NoLongerValid(m, ch)), FALSE)

(***************************************************************************)
(* Acceptance.                                                             *)
(***************************************************************************)

PreChecks(m, ch, t) ==
    /\ Kind[t] = "normal"
    /\ CheckFinalTx(ch, t)
    /\ t \notin m.pool
    /\ Spenders(m, Ins[t]) = {}
    /\ Ins[t] \subseteq CoinsTip(ch) \cup Created(m.pool)
    /\ MatureIn(ch, t)
    /\ WithinLimits(m, t)

\* A loose transaction; the size limits are applied before the lock is given up.
AcceptToMemoryPool(t) ==
    /\ at = "idle"
    /\ PreChecks(mp, chain, t)
    /\ mp' = addUnchecked(mp, t)
    /\ at' = "expire"
    /\ UNCHANGED <<chain, queue, readded, todo, add>>

(***************************************************************************)
(* LimitMempoolSize: Expire, then TrimToSize.                              *)
(***************************************************************************)

\* Entries whose time has passed go with all that spends them.
Expire ==
    /\ at = "expire"
    /\ \E old \in SUBSET mp.pool :
          mp' = RemoveStaged(mp, CalculateDescendants(mp, old), FALSE)
    /\ at' = "trim"
    /\ UNCHANGED <<chain, queue, readded, todo, add>>

TrimAgain(m) == IF Cardinality(m.pool) > MaxPool THEN "trim" ELSE "idle"

\* One turn of the loop: the entry of the lowest score (any of them here).
TrimToSize ==
    /\ at = "trim"
    /\ IF Cardinality(mp.pool) > MaxPool
       THEN \E t \in mp.pool :
               mp' = RemoveStaged(mp, CalculateDescendants(mp, {t}), FALSE)
       ELSE mp' = mp
    /\ at' = TrimAgain(mp')
    /\ UNCHANGED <<chain, queue, readded, todo, add>>

(***************************************************************************)
(* Blocks and reorganisations.                                             *)
(***************************************************************************)

\* One turn of the loop of DisconnectedBlockTransactions::removeForBlock.
Erase(q, t) ==
    IF t \in ToSet(q) THEN RemoveAt(q, CHOOSE i \in DOMAIN q : q[i] = t) ELSE q

\* A block extends the tip, on its own or after the disconnections of a
\* reorganisation.  (m_chain moves at the end of ConnectTip and DisconnectTip in the
\* code; their loops over the pool do not look at it.)
ConnectTip(block) ==
    /\ at \in {"idle", "disconnect", "connect"}
    /\ Len(chain) < MaxHeight
    /\ ConnectBlock(chain, block)
    /\ chain' = Append(chain, block)
    /\ todo' = block
    /\ at' = IF at = "idle" THEN "block" ELSE "reorgBlock"
    /\ UNCHANGED <<mp, queue, readded, add>>

\* What the block confirms leaves the pool with all that conflicts with it, and
\* leaves the queue.  (The code goes over the block once for each; neither loop
\* looks at what the other one changes.)
RemoveForBlock ==
    /\ at \in {"block", "reorgBlock"}
    /\ todo # <<>>
    /\ mp' = removeForBlock(mp, Head(todo))
    /\ queue' = Erase(queue, Head(todo))
    /\ todo' = Tail(todo)
    /\ UNCHANGED <<chain, readded, at, add>>

TipConnected ==
    /\ at \in {"block", "reorgBlock"}
    /\ todo = <<>>
    /\ at' = IF at = "block" THEN "idle" ELSE "connect"
    /\ UNCHANGED <<chain, mp, queue, readded, todo, add>>

\* The tip's transactions, last one first, join the queue.
DisconnectTip ==
    /\ at \in {"idle", "disconnect"}
    /\ chain # <<>>
    /\ queue' = queue \o Reverse(Last(chain))
    /\ chain' = Front(chain)
    /\ at' = "drop"
    /\ UNCHANGED <<mp, readded, todo, add>>

\* A queue that is too long drops its earliest entries, and the pool what depends
\* on them.
LimitQueue ==
    /\ at = "drop"
    /\ IF Len(queue) > MaxQueue
       THEN /\ mp' = removeRecursive(mp, Head(queue))
            /\ queue' = Tail(queue)
            /\ at' = at
       ELSE /\ at' = "disconnect"
            /\ UNCHANGED <<mp, queue>>
    /\ UNCHANGED <<chain, readded, todo, add>>

\* MaybeUpdateMempoolForReorg starts.  fAddToMempool is false when a block could
\* not be read or written, or after ten disconnections by InvalidateBlock.
BeginUpdate ==
    /\ at \in {"disconnect", "connect"}
    /\ add' \in BOOLEAN
    /\ at' = "resurrect"
    /\ UNCHANGED <<chain, mp, queue, readded, todo>>

\* The newest queue entry is the earliest transaction: it is accepted again, or
\* (policy may always say no) whatever depends on it is removed.
Resurrect ==
    /\ at = "resurrect"
    /\ queue # <<>>
    /\ LET t == Last(queue)
       IN  \/ /\ add
              /\ PreChecks(mp, chain, t)
              /\ mp' = addUnchecked(mp, t)
              /\ readded' = Append(readded, t)
           \/ /\ mp' = removeRecursive(mp, t)
              /\ UNCHANGED readded
    /\ queue' = Front(queue)
    /\ UNCHANGED <<chain, todo, at, add>>

\* The mutant goes from the oldest transaction to the newest.
LinkOrder_Bug(hashes) == hashes

\* reverse_iterate(vHashesToUpdate): descendants come before their ancestors.
LinkOrder(hashes) == Reverse(hashes)

BeginRelink ==
    /\ at = "resurrect"
    /\ queue = <<>>
    /\ todo' = LinkOrder(readded)
    /\ at' = "relink"
    /\ UNCHANGED <<chain, mp, queue, readded, add>>

Relink ==
    /\ at = "relink"
    /\ todo # <<>>
    /\ mp' = UpdateTransactionsFromBlock(mp, Head(todo), ToSet(readded))
    /\ todo' = Tail(todo)
    /\ UNCHANGED <<chain, queue, readded, at, add>>

\* The rest of MaybeUpdateMempoolForReorg, up to LimitMempoolSize.
FinishUpdate ==
    /\ at = "relink"
    /\ todo = <<>>
    /\ mp' = removeForReorg(mp, chain)
    /\ readded' = <<>>
    /\ add' = FALSE
    /\ at' = "expire"
    /\ UNCHANGED <<chain, queue, todo>>

Empty == [pool |-> {}, parents |-> [t \in Tx |-> {}], children |-> [t \in Tx |-> {}],
          anc |-> [t \in Tx |-> 0], desc |-> [t \in Tx |-> 0]]

Init ==
    /\ chain = <<>>
    /\ mp = Empty
    /\ queue = <<>> /\ readded = <<>> /\ todo = <<>>
    /\ at = "idle" /\ add = FALSE

Next ==
    \/ \E t \in Tx : AcceptToMemoryPool(t)
    \/ Expire
    \/ TrimToSize
    \/ \E block \in Blocks : ConnectTip(block)
    \/ RemoveForBlock
    \/ TipConnected
    \/ DisconnectTip
    \/ LimitQueue
    \/ BeginUpdate
    \/ Resurrect
    \/ BeginRelink
    \/ Relink
    \/ FinishUpdate

Spec == Init /\ [][Next]_vars

(***************************************************************************)
(* Properties.                                                             *)
(***************************************************************************)

\* The variables hold the kinds of values the code gives them: the queue and
\* vHashUpdate are lists without repetition (queuedTx is keyed by txid), a queued
\* transaction is neither in the pool nor in the chain, and both lists are empty
\* when the lock is given up (the destructor of the queue asserts it).
TypeOK ==
    /\ mp.pool \subseteq Tx
    /\ {mp.parents, mp.children} \subseteq [Tx -> SUBSET mp.pool]
    /\ {mp.anc, mp.desc} \subseteq [Tx -> Nat]
    /\ at \in {"idle", "expire", "trim", "block", "reorgBlock", "drop", "disconnect",
               "connect", "resurrect", "relink"}
    /\ add \in BOOLEAN
    /\ \A s \in {queue, readded, todo} :
          s \in Seq(Tx) /\ \A i, j \in DOMAIN s : i # j => s[i] # s[j]
    /\ ToSet(queue) \cap mp.pool = {}
    /\ at # "reorgBlock" => ToSet(queue) \cap Confirmed(chain) = {}
    /\ at \in {"idle", "expire", "trim"} => queue = <<>> /\ readded = <<>> /\ todo = <<>>

\* Whatever was connected, disconnected, put back, expired or trimmed before: when
\* the lock is given up every input of every entry is an unspent coin of the active
\* chain or an output of another entry, and no output is spent twice (the first
\* assertions of CTxMemPool::check).
InputsAvailable ==
    at = "idle" =>
        /\ \A t \in mp.pool : Ins[t] \subseteq CoinsTip(chain) \cup Created(mp.pool)
        /\ \A t, u \in mp.pool : t # u => Ins[t] \cap Ins[u] = {}

\* When the lock is given up the cached parents and children of every entry are the
\* ones the inputs say (setParentCheck and setChildrenCheck of CTxMemPool::check),
\* also for entries whose parents came back from a disconnected block.
LinksExact ==
    at = "idle" =>
        \A t \in mp.pool : /\ mp.parents[t] = ParentsInPool(mp, t)
                           /\ mp.children[t] = Spenders(mp, Outs[t])

\* In the middle of a reorganisation too, up to the loop of
\* UpdateTransactionsFromBlock and as soon as it is over, the cached counts of an
\* entry are the numbers of ancestors and descendants its cached links reach: what
\* UpdateForRemoveFromMempool relies on when it removes an entry before
\* UpdateTransactionsFromBlock has completed the links.
CountsMatchLinks ==
    at = "relink" \/ \A t \in mp.pool :
        /\ mp.anc[t] = Cardinality(Reach(mp.parents, {t}))
        /\ mp.desc[t] = Cardinality(Reach(mp.children, {t}))

\* When the lock is given up every entry can still go into the next block as far as
\* lock times and the maturity that CheckTxInputs asks of coinbase coins are concerned,
\* though the tip may have moved back since it was accepted (what removeForReorg is
\* for).
StaysMinable ==
    at = "idle" =>
        \A t \in mp.pool :
            /\ CheckFinalTx(chain, t)
            /\ Ins[t] \cap Created(Immature(chain, {"coinbase"}, SpendMaturity(t))) = {}

\* When the lock is given up the pool is within its limit, also after a
\* reorganisation that put transactions back with bypass_limits.
PoolBounded == at = "idle" => Cardinality(mp.pool) <= MaxPool

\* What acceptance, removals and a reorganisation leave is in order: nothing waits in
\* the queue any more, nothing is too much, and nothing has become unminable.
PoolInOrder == TypeOK /\ StaysMinable /\ PoolBounded

\* When the lock is given up no entry spends a coinbase or coinstake that CheckTxInputs
\* holds for immature: the comment on removeForReorg, and CheckInputsAndUpdateCoins of
\* CTxMemPool::check, which asserts that CheckTxInputs accepts every entry.
GeneratedSpendsMature == at = "idle" => \A t \in mp.pool : MatureIn(chain, t)

\* "Coinbase spends that will be mature in the next block are accepted into the memory
\* pool, but less mature coinbase spends are NOT" (mempool_spend_coinbase.py).
CoinbaseSpendsMature ==
    at = "idle" => \A t \in mp.pool : Ins[t] \cap Created(Immature(chain, {"coinbase"}, Maturity)) = {}
=============================================================================
