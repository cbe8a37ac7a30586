--------------------------- MODULE BaseIndexProofs ---------------------------
(***************************************************************************)
(* The index of BaseIndex is sound and loses no block, for every tree of   *)
(* blocks, every length of the queue and whichever writes fail.            *)
(***************************************************************************)
EXTENDS BaseIndex, WellFoundedInduction, TLAPS

\* The leaves are small, but the definitions they rest on are not. Those that Zenon
\* does not settle soon name SMT.
USE ZenonT(10), SMTT(60)

(* The inductive invariant. *)

IsConnected(i) == pending[i].type = "BlockConnected"
IsBarrier(i) == pending[i].type = "barrier"

Event == {Barrier} \cup {Connected(b) : b \in Block} \cup {ChainFlushed(b) : b \in Block}

(* Types, with the queue as a sequence. *)
TInv ==
    /\ tip \in BlockOrNone /\ flushedTip \in BlockOrNone /\ best \in BlockOrNone
    /\ pindex \in BlockOrNone /\ locator \in BlockOrNone /\ asked \in BlockOrNone
    /\ synced \in BOOLEAN /\ orderly \in BOOLEAN /\ due \in BOOLEAN
    /\ stop \in {"no", "asked", "flushed"}
    /\ at \in {"loop", "commit", "write", "lastcommit", "done", "failed", "aborted", "refused"}
    /\ byHeight \in [Heights -> BlockOrNone]
    /\ pending \in Seq(Event) /\ Len(pending) <= MaxPending

(* The places of ThreadSync. *)
PlaceInv ==
    /\ at = "lastcommit" => synced /\ best # NoBlock
    /\ at \in {"commit", "write"} => ~synced /\ pindex # NoBlock
    /\ stop = "flushed" => at # "lastcommit"
    /\ byHeight[-1] = NoBlock

(* An index that starts with no chain is in sync, and takes the genesis     *)
(* block before any other.                                                  *)
EmptyInv ==
    /\ ~synced => tip # NoBlock
    /\ tip = NoBlock => synced /\ best = NoBlock /\ \A i \in DOMAIN pending : ~IsConnected(i)
    /\ \A i \in DOMAIN pending : pending[i] = Connected(Genesis) =>
          synced /\ best = NoBlock /\ \A k \in 1 .. i - 1 : ~IsConnected(k)

(* One of the callbacks i to n of the queue q connects x. *)
Queued(q, x, i, n) == \E k \in i .. n : q[k] = Connected(x)

(* Whatever the first n callbacks connect, those after it lead on to t. *)
Follows(q, t, n) ==
    \A i \in 1 .. n : q[i].type = "BlockConnected" =>
        \A x \in Chain[t] \ Chain[q[i].block] : Queued(q, x, i + 1, n)

(* What an index at b lacks of the chain of t, the first n callbacks connect. *)
Behind(q, b, t, n) == \A x \in Chain[t] \ Chain[b] : Queued(q, x, 1, n)

QueueInv ==
    /\ Follows(pending, tip, Len(pending))
    /\ synced /\ stop = "no" => Behind(pending, best, tip, Len(pending))

BarrierInv ==
    \A j \in DOMAIN pending : IsBarrier(j) =>
        /\ synced /\ asked # NoBlock
        /\ \A i \in DOMAIN pending : IsBarrier(i) => i = j
        /\ Follows(pending, asked, j - 1)
        /\ stop = "no" => Behind(pending, best, asked, j - 1)

(* A caller that is about to wait. *)
LookedInv ==
    /\ looked \in BOOLEAN
    /\ looked => synced /\ tip # NoBlock /\ asked = NoBlock /\ stop # "flushed"

(* The block up to which the height index is known to be in order. *)
Safe ==
    IF at \in {"commit", "write"} THEN Parent[pindex]
    ELSE IF at = "loop" /\ ~synced THEN pindex ELSE best

(* The locator is not ahead of the best block. *)
LocatorBehind == locator \in Chain[best] \cup {NoBlock}

(* After a restart it can be: until ThreadSync has made its first Commit,   *)
LocatorDue == ~synced /\ at \in {"loop", "commit"} /\ due /\ best = Safe

(* while the best block of an index in sync is on the way to it,            *)
LocatorAhead == synced /\ best \in Chain[locator] /\ Covered(locator)

(* or once the chain has left its branch. When the chain comes back to it,  *)
(* the callback of the first block rewinds.                                 *)
LocatorAside ==
    /\ synced /\ best # NoBlock /\ best \notin Chain[locator]
    /\ \A d \in (Chain[locator] \cap Chain[tip]) \ Chain[best] :
          Parent[d] \in Chain[best] => Queued(pending, d, 1, Len(pending))

LocatorInv ==
    \/ LocatorBehind \/ LocatorDue \/ LocatorAhead \/ LocatorAside
    \/ at \in {"lastcommit", "aborted", "refused"}

(* The last callback of a shutdown commits, if the index is at the tip. *)
FlushedInv ==
    stop = "flushed" /\ synced /\ tip # NoBlock =>
        \/ pending # <<>> /\ pending[Len(pending)] = ChainFlushed(tip)
        \/ pending = <<>> /\ (LocatorBehind \/ tip \notin Chain[best])

DiskInv == orderly =>
    /\ Covered(Safe)
    /\ best \in Chain[Safe] \cup {NoBlock} \/ (at = "write" /\ best = pindex)
    /\ LocatorInv
    /\ ~synced /\ at \notin {"loop", "commit"} => LocatorBehind \/ at \in {"aborted", "refused"}
    /\ FlushedInv

IInv == TInv /\ PlaceInv /\ EmptyInv /\ QueueInv /\ BarrierInv /\ LookedInv /\ DiskInv
-----------------------------------------------------------------------------
(* Facts about the tree that need no state. *)

(* Sets of naturals have a least element. *)
LEMMA LeastNatural ==
    ASSUME NEW T, T \subseteq Nat, T # {}
    PROVE  \E x \in T : \A y \in T : x <= y
  <1> DEFINE R == OpToRel(<, Nat)
  <1>1. IsWellFoundedOn(R, Nat)
    BY NatLessThanWellFounded, Zenon
  <1>2. \A x, y \in Nat : y < x => <<y, x>> \in R
    BY DEF OpToRel
  <1> HIDE DEF R
  <1>3. PICK x \in T : \A y \in T : ~(<<y, x>> \in R)
    BY <1>1, WFMin
  <1>4. ASSUME NEW y \in T PROVE x <= y
    <2>1. x \in Nat /\ y \in Nat /\ ~(<<y, x>> \in R)
      BY <1>3
    <2>2. ~(y < x)
      BY <1>2, <2>1
    <2> QED
      BY SMTT(60), <2>1, <2>2
  <1> QED
    BY <1>4

(* The constants, in the form the proofs use. *)
LEMMA Tree ==
    /\ NoBlock \notin Block /\ Genesis \in Block /\ Parent[Genesis] = NoBlock
    /\ \A b \in Block \ {Genesis} : Parent[b] \in Block
    /\ \A b \in Block : Parent[b] \in BlockOrNone
    /\ Height[NoBlock] = -1 /\ Height[Genesis] = 0
    /\ \A b \in Block : Height[b] \in Nat /\ Height[b] = Height[Parent[b]] + 1
    /\ \A b \in BlockOrNone : Height[b] \in Int /\ Height[b] >= -1
  <1>1. /\ NoBlock \notin Block /\ Genesis \in Block
        /\ Parent \in [Block -> Block \cup {NoBlock}]
        /\ Height \in [Block \cup {NoBlock} -> Nat \cup {-1}] /\ Height[NoBlock] = -1
        /\ \A b \in Block : Height[b] = Height[Parent[b]] + 1 /\ (Parent[b] = NoBlock <=> b = Genesis)
    BY IndexAssumption
  <1>2. \A b \in BlockOrNone : Height[b] \in Int /\ Height[b] >= -1
    <2>1. \A b \in BlockOrNone : Height[b] \in Nat \cup {-1}
      BY <1>1, Zenon DEF BlockOrNone
    <2> QED
      BY <2>1, SMTT(30)
  <1>3. \A b \in Block : Parent[b] \in BlockOrNone
    BY <1>1 DEF BlockOrNone
  <1>4. \A b \in Block : Height[b] \in Nat /\ Height[b] = Height[Parent[b]] + 1
    <2> SUFFICES ASSUME NEW b \in Block PROVE Height[b] \in Nat /\ Height[b] = Height[Parent[b]] + 1
      OBVIOUS
    <2>1. Height[b] = Height[Parent[b]] + 1 /\ Height[Parent[b]] \in Int /\ Height[Parent[b]] >= -1
      BY <1>1, <1>2, <1>3
    <2> QED
      BY <2>1, SMTT(30)
  <1>5. Parent[Genesis] = NoBlock
    BY <1>1
  <1>6. Height[Genesis] = 0
    <2>1. Height[Genesis] = Height[NoBlock] + 1 /\ Height[NoBlock] = -1
      BY <1>1, <1>4, <1>5
    <2> QED
      BY <2>1, SMTT(30)
  <1>7. \A b \in Block \ {Genesis} : Parent[b] \in Block
    BY <1>1
  <1> QED
    BY <1>1, <1>2, <1>3, <1>4, <1>5, <1>6, <1>7

(* The chain of a block holds it and the parents of its members, and lies   *)
(* in every set that does.                                                  *)
LEMMA ChainBasic ==
    ASSUME NEW b \in Block
    PROVE  /\ Chain[b] \subseteq Block
           /\ b \in Chain[b]
           /\ ParentClosed(Chain[b])
           /\ \A S \in SUBSET Block : b \in S /\ ParentClosed(S) => Chain[b] \subseteq S
  <1>1. Chain[b] = {a \in Block : \A S \in SUBSET Block : b \in S /\ ParentClosed(S) => a \in S}
    BY Tree DEF Chain, BlockOrNone
  <1>2. ASSUME NEW x \in Chain[b] \ {Genesis}
        PROVE  Parent[x] \in Chain[b]
    <2>1. Parent[x] \in Block
      BY <1>1, Tree
    <2>2. ASSUME NEW S \in SUBSET Block, b \in S, ParentClosed(S)
          PROVE  Parent[x] \in S
      BY <1>1, <2>2 DEF ParentClosed
    <2> QED
      BY <1>1, <2>1, <2>2
  <1>3. ParentClosed(Chain[b])
    BY <1>2 DEF ParentClosed
  <1> QED
    BY <1>1, <1>3

(* No block, no chain. *)
LEMMA ChainOfNone == Chain[NoBlock] = {}
  BY DEF Chain, BlockOrNone

(* Chains of members are part of the chain. *)
LEMMA ChainTransitive ==
    ASSUME NEW b \in BlockOrNone
    PROVE  /\ Chain[b] \subseteq Block
           /\ \A a \in Chain[b] : Chain[a] \subseteq Chain[b] /\ a \in Chain[a]
  BY ChainBasic, ChainOfNone DEF BlockOrNone

(* A chain is that of the parent and the block, which is higher than the    *)
(* others.                                                                  *)
LEMMA ChainOfParent ==
    ASSUME NEW b \in Block
    PROVE  /\ Chain[b] = Chain[Parent[b]] \cup {b}
           /\ \A a \in Chain[b] : Height[a] <= Height[b]
           /\ b \notin Chain[Parent[b]]
  <1>1. \A c \in Block : \A a \in Chain[c] : Height[a] <= Height[c]
    <2> SUFFICES ASSUME NEW c \in Block PROVE \A a \in Chain[c] : Height[a] <= Height[c]
      OBVIOUS
    <2> DEFINE S == {x \in Block : Height[x] <= Height[c]}
    <2>1. ASSUME NEW x \in S \ {Genesis} PROVE Parent[x] \in S
      <3>1. Parent[x] \in Block /\ Height[x] = Height[Parent[x]] + 1
        BY Tree
      <3>2. Height[x] \in Nat /\ Height[Parent[x]] \in Nat /\ Height[c] \in Nat /\ Height[x] <= Height[c]
        BY <3>1, Tree
      <3>3. Height[Parent[x]] <= Height[c]
        BY <3>1, <3>2, SMTT(30)
      <3> QED
        BY <3>1, <3>3
    <2>2. ParentClosed(S)
      BY <2>1 DEF ParentClosed
    <2>3. c \in S
      BY Tree, SMTT(30)
    <2>4. Chain[c] \subseteq S
      BY <2>2, <2>3, ChainBasic
    <2> QED
      BY <2>4
  <1>2. b \notin Chain[Parent[b]]
    <2>1. CASE b = Genesis
      BY <2>1, Tree, ChainOfNone
    <2>2. CASE b # Genesis
      <3>1. Parent[b] \in Block /\ Height[b] = Height[Parent[b]] + 1 /\ Height[Parent[b]] \in Nat
        BY <2>2, Tree
      <3>2. ~(Height[b] <= Height[Parent[b]])
        BY <3>1, SMTT(30)
      <3> QED
        BY <1>1, <3>1, <3>2
    <2> QED
      BY <2>1, <2>2
  <1>3. Chain[b] = Chain[Parent[b]] \cup {b}
    <2>1. CASE b = Genesis
      <3>1. {Genesis} \in SUBSET Block /\ ParentClosed({Genesis})
        BY Tree DEF ParentClosed
      <3>2. Chain[b] = {b}
        BY SMTT(60), <2>1, <3>1, ChainBasic
      <3> QED
        BY <2>1, <3>2, Tree, ChainOfNone
    <2>2. CASE b # Genesis
      <3>1. Parent[b] \in Block
        BY <2>2, Tree
      <3>2. ParentClosed(Chain[Parent[b]] \cup {b})
        BY <3>1, ChainBasic DEF ParentClosed
      <3>3. Chain[b] \subseteq Chain[Parent[b]] \cup {b}
        BY SMTT(60), <3>1, <3>2, ChainBasic
      <3>4. Parent[b] \in Chain[b]
        BY <2>2, ChainBasic DEF ParentClosed
      <3>5. Chain[Parent[b]] \subseteq Chain[b]
        BY <3>4, ChainTransitive DEF BlockOrNone
      <3> QED
        BY <3>3, <3>5, ChainBasic
    <2> QED
      BY <2>1, <2>2
  <1> QED
    BY <1>1, <1>2, <1>3

(* Of two blocks of a chain the lower one is on the chain of the other. *)
LEMMA ChainOrder ==
    ASSUME NEW b \in BlockOrNone, NEW x \in Chain[b], NEW y \in Chain[b], Height[x] <= Height[y]
    PROVE  x \in Chain[y]
  <1> DEFINE T == {z \in Chain[b] : \A w \in Chain[b] : Height[w] <= Height[z] => w \in Chain[z]}
  <1>1. b \in Block /\ Chain[b] \subseteq Block
    BY ChainTransitive, ChainOfNone DEF BlockOrNone
  <1>2. ASSUME NEW z \in T \ {Genesis} PROVE Parent[z] \in T
    <2>1. z \in Block /\ Parent[z] \in Block /\ Parent[z] \in Chain[b]
      BY <1>1, ChainBasic, Tree DEF ParentClosed
    <2>2. ASSUME NEW w \in Chain[b], Height[w] <= Height[Parent[z]] PROVE w \in Chain[Parent[z]]
      <3>1. /\ Height[z] = Height[Parent[z]] + 1 /\ Height[Parent[z]] \in Nat /\ Height[w] \in Nat
            /\ Height[w] <= Height[Parent[z]]
        BY <1>1, <2>1, <2>2, Tree
      <3>2. Height[w] <= Height[z] /\ Height[w] # Height[z]
        BY <3>1, SMTT(30)
      <3>3. w \in Chain[z] /\ w # z
        BY <3>2
      <3> QED
        BY SMTT(60), <2>1, <3>3, ChainOfParent
    <2> QED
      BY <2>1, <2>2
  <1>3. ParentClosed(T)
    BY <1>2 DEF ParentClosed
  <1>4. b \in T
    BY <1>1, ChainBasic
  <1>5. T \in SUBSET Block
    BY <1>1
  <1>6. Chain[b] \subseteq T
    BY <1>1, <1>3, <1>4, <1>5, ChainBasic
  <1> QED
    BY <1>6

(* A chain has at most one block of each height. *)
LEMMA ChainUnique ==
    ASSUME NEW b \in BlockOrNone, NEW x \in Chain[b], NEW y \in Chain[b], Height[x] = Height[y]
    PROVE  x = y
  <1>1. x \in Block /\ y \in Block /\ Height[x] \in Nat /\ Height[y] \in Nat
    BY ChainTransitive, Tree
  <1>2. Height[x] <= Height[y]
    BY <1>1, SMTT(30)
  <1>3. x \in Chain[y]
    BY <1>2, ChainOrder
  <1>4. SUFFICES ASSUME x # y PROVE FALSE
    OBVIOUS
  <1>5. x \in Chain[Parent[y]]
    BY SMTT(60), <1>1, <1>3, <1>4, ChainOfParent
  <1>6. Parent[y] \in Block
    BY <1>1, <1>5, Tree, ChainOfNone
  <1>7. Height[x] <= Height[Parent[y]] /\ Height[y] = Height[Parent[y]] + 1 /\ Height[Parent[y]] \in Nat
    BY <1>1, <1>5, <1>6, ChainOfParent, Tree
  <1> QED
    BY <1>1, <1>7, SMTT(30)

(* It has a block of every height up to that of its last. *)
LEMMA ChainComplete ==
    ASSUME NEW b \in Block, NEW h \in Nat, h <= Height[b]
    PROVE  \E a \in Chain[b] : Height[a] = h
  <1> DEFINE D == {Height[a] - h : a \in {z \in Chain[b] : h <= Height[z]}}
  <1>1. \A a \in Chain[b] : a \in Block /\ Height[a] \in Nat
    BY ChainBasic, Tree
  <1>2. D \subseteq Nat
    BY <1>1, SMTT(30)
  <1>3. Height[b] - h \in D
    BY ChainBasic
  <1>4. PICK d \in D : \A e \in D : d <= e
    BY <1>2, <1>3, LeastNatural
  <1>5. PICK a \in Chain[b] : h <= Height[a] /\ d = Height[a] - h
    OBVIOUS
  <1>6. CASE Height[a] = h
    BY <1>6
  <1>7. CASE Height[a] # h
    <2>1. a # Genesis
      BY <1>1, <1>5, <1>7, Tree, SMTT(30)
    <2>2. a \in Block /\ Parent[a] \in Chain[b] /\ Height[a] = Height[Parent[a]] + 1
      BY <1>1, <2>1, ChainBasic, Tree DEF ParentClosed
    <2>3. Height[Parent[a]] \in Nat /\ Height[a] \in Nat
      BY <1>1, <2>2
    <2>4. h <= Height[Parent[a]]
      BY <1>5, <1>7, <2>2, <2>3, SMTT(30)
    <2>5. Height[Parent[a]] - h \in D
      BY <2>2, <2>4
    <2>6. d <= Height[Parent[a]] - h
      BY <1>4, <2>5
    <2> QED
      BY <1>5, <2>2, <2>3, <2>6, SMTT(30)
  <1> QED
    BY <1>6, <1>7

(* Every chain begins with the genesis block. *)
LEMMA GenesisOnChain ==
    ASSUME NEW b \in Block
    PROVE  Genesis \in Chain[b]
  <1>1. 0 \in Nat /\ 0 <= Height[b]
    BY Tree, SMTT(30)
  <1>2. PICK a \in Chain[b] : Height[a] = 0
    BY <1>1, ChainComplete
  <1>3. a \in Block
    BY ChainBasic
  <1>4. SUFFICES ASSUME a # Genesis PROVE FALSE
    BY <1>2
  <1>5. Parent[a] \in Block /\ Height[a] = Height[Parent[a]] + 1 /\ Height[Parent[a]] \in Nat
    BY <1>3, <1>4, Tree
  <1> QED
    BY <1>2, <1>5, SMTT(30)

(* GetAncestor finds the block of a height, if there is one. *)
LEMMA GetAncestorIs ==
    ASSUME NEW b \in BlockOrNone
    PROVE  /\ \A a \in Chain[b] : GetAncestor(b, Height[a]) = a
           /\ \A h \in Int : (\A a \in Chain[b] : Height[a] # h) => GetAncestor(b, h) = NoBlock
  <1>1. ASSUME NEW a \in Chain[b] PROVE GetAncestor(b, Height[a]) = a
    <2>1. GetAncestor(b, Height[a]) = CHOOSE z \in Chain[b] : Height[z] = Height[a]
      BY DEF GetAncestor
    <2>2. GetAncestor(b, Height[a]) \in Chain[b] /\ Height[GetAncestor(b, Height[a])] = Height[a]
      BY <2>1
    <2> QED
      BY <2>2, ChainUnique
  <1> QED
    BY <1>1 DEF GetAncestor

(* Highest takes the highest of some blocks of a chain. *)
LEMMA HighestIs ==
    ASSUME NEW b \in BlockOrNone, NEW S, S \subseteq Chain[b]
    PROVE  /\ S = {} => Highest(S) = NoBlock
           /\ S # {} => Highest(S) \in S /\ \A x \in S : Height[x] <= Height[Highest(S)]
  <1>1. CASE S = {}
    BY <1>1 DEF Highest
  <1>2. CASE S # {}
    <2> DEFINE D == {Height[b] - Height[x] : x \in S}
    <2>1. b \in Block /\ \A x \in S : x \in Block
      BY <1>2, ChainOfNone, ChainTransitive DEF BlockOrNone
    <2>2. \A x \in S : Height[x] \in Nat /\ Height[b] \in Nat /\ Height[x] <= Height[b]
      BY <2>1, Tree, ChainOfParent
    <2>3. D \subseteq Nat /\ D # {}
      BY <1>2, <2>2, SMTT(30)
    <2>4. PICK d \in D : \A e \in D : d <= e
      BY <2>3, LeastNatural
    <2>5. PICK a \in S : d = Height[b] - Height[a]
      OBVIOUS
    <2>6. ASSUME NEW x \in S PROVE Height[x] <= Height[a]
      <3>1. d <= Height[b] - Height[x]
        BY <2>4
      <3> QED
        BY <2>2, <2>5, <3>1, SMTT(30)
    <2>7. Highest(S) = CHOOSE z \in S : \A x \in S : Height[x] <= Height[z]
      BY <1>2 DEF Highest
    <2> QED
      BY <1>2, <2>6, <2>7
  <1> QED
    BY <1>1, <1>2

(* What two chains share is the chain of their last common block. *)
LEMMA CommonChain ==
    ASSUME NEW b \in BlockOrNone, NEW t \in BlockOrNone
    PROVE  LET f == Highest(Chain[b] \cap Chain[t])
           IN  f \in BlockOrNone /\ Chain[f] = Chain[b] \cap Chain[t]
  <1> DEFINE C == Chain[b] \cap Chain[t]
             f == Highest(C)
  <1>1. C \subseteq Chain[b]
    OBVIOUS
  <1> HIDE DEF f
  <1>2. CASE C = {}
    <2>1. f = NoBlock
      BY <1>1, <1>2, HighestIs DEF f
    <2> QED
      BY <1>2, <2>1, ChainOfNone DEF BlockOrNone, f
  <1>3. CASE C # {}
    <2>1. f \in C /\ \A x \in C : Height[x] <= Height[f]
      <3> HIDE DEF C
      <3> QED
        BY <1>1, <1>3, HighestIs DEF f
    <2>2. f \in Block /\ Chain[f] \subseteq C
      BY <2>1, ChainTransitive
    <2>3. C \subseteq Chain[f]
      BY <2>1, ChainOrder
    <2> QED
      BY <2>2, <2>3 DEF BlockOrNone, f
  <1> QED
    BY <1>2, <1>3

(* FindFork is where the chain of p leaves the active chain. *)
LEMMA ForkIs ==
    ASSUME NEW p \in BlockOrNone, tip \in BlockOrNone
    PROVE  /\ FindFork(p) \in BlockOrNone /\ Chain[FindFork(p)] = Chain[p] \cap Chain[tip]
           /\ Height[FindFork(p)] \in Int /\ Height[FindFork(p)] >= -1
  <1>1. FindFork(p) \in BlockOrNone /\ Chain[FindFork(p)] = Chain[p] \cap Chain[tip]
    BY CommonChain DEF FindFork
  <1> QED
    BY <1>1, Tree

(* The next block of ThreadSync follows that fork on the active chain, and  *)
(* there is none only if the active chain has nothing that p has not.       *)
LEMMA NextSyncBlockIs ==
    ASSUME NEW p \in BlockOrNone, tip \in Block
    PROVE  LET n == NextSyncBlock(p)
           IN  \/ n = NoBlock /\ Chain[tip] \subseteq Chain[p]
               \/ n \in Chain[tip] /\ n \in Block /\ Parent[n] = FindFork(p)
  <1> DEFINE f == FindFork(p)
             h == Height[f] + 1
  <1>1. f \in BlockOrNone /\ Chain[f] = Chain[p] \cap Chain[tip] /\ Height[f] \in Int /\ Height[f] >= -1
    BY ForkIs DEF BlockOrNone
  <1>2. NextSyncBlock(p) = GetAncestor(tip, h)
    BY DEF NextSyncBlock
  <1> HIDE DEF f
  <1>3. h \in Nat
    BY <1>1, SMTT(30)
  <1>4. CASE \E a \in Chain[tip] : Height[a] = h
    <2>1. PICK n \in Chain[tip] : Height[n] = h
      BY <1>4
    <2>2. NextSyncBlock(p) = n /\ n \in Block
      BY <1>2, <2>1, GetAncestorIs, ChainBasic DEF BlockOrNone
    <2>3. Height[n] = Height[Parent[n]] + 1 /\ Parent[n] \in BlockOrNone /\ Height[Parent[n]] \in Int
      BY <2>2, Tree
    <2>4. Height[Parent[n]] = Height[f]
      BY <1>1, <2>1, <2>3, SMTT(30)
    <2>5. CASE f = NoBlock
      <3>1. Height[n] = 0
        BY <2>1, <2>5, Tree, SMTT(30)
      <3>2. n = Genesis
        BY <3>1, Tree, GenesisOnChain, ChainUnique DEF BlockOrNone
      <3> QED
        BY <2>1, <2>2, <2>5, <3>2, Tree DEF f
    <2>6. CASE f # NoBlock
      <3>1. f \in Block /\ f \in Chain[tip] /\ Height[f] \in Nat
        BY <1>1, <2>6, ChainBasic, Tree DEF BlockOrNone
      <3>2. n # Genesis
        BY <2>1, <3>1, Tree, SMTT(30)
      <3>3. Parent[n] \in Chain[tip]
        BY <3>2, ChainBasic DEF ParentClosed
      <3>4. Parent[n] = f
        BY <2>4, <3>1, <3>3, ChainUnique DEF BlockOrNone
      <3> QED
        BY <2>1, <2>2, <3>4 DEF f
    <2> QED
      BY <2>5, <2>6
  <1>5. CASE ~\E a \in Chain[tip] : Height[a] = h
    <2>1. NextSyncBlock(p) = NoBlock
      BY <1>2, <1>3, <1>5, GetAncestorIs, SMTT(30) DEF BlockOrNone
    <2>2. ~(h <= Height[tip])
      BY <1>3, <1>5, ChainComplete
    <2>3. Height[tip] \in Nat
      BY Tree
    <2>4. f # NoBlock
      BY <1>1, <2>2, <2>3, Tree, SMTT(30)
    <2>5. f \in Block /\ f \in Chain[tip] /\ Height[f] <= Height[tip]
      BY <1>1, <2>4, ChainBasic, ChainOfParent DEF BlockOrNone
    <2>6. Height[f] = Height[tip]
      BY <1>1, <2>2, <2>3, <2>5, SMTT(30)
    <2>7. f = tip
      BY <2>5, <2>6, ChainBasic, ChainUnique DEF BlockOrNone
    <2> QED
      BY <1>1, <2>1, <2>7
  <1> QED
    BY <1>4, <1>5

(* A start goes on from a block of both chains, and from the tip if the     *)
(* locator is ahead of it.                                                  *)
LEMMA GlobalForkIs ==
    ASSUME NEW t \in BlockOrNone, NEW loc \in BlockOrNone
    PROVE  LET from == FindForkInGlobalIndex(t, loc)
           IN  /\ from \in BlockOrNone
               /\ from = NoBlock \/ from \in Chain[loc] \cap Chain[t]
               /\ t \in Chain[loc] \/ t = NoBlock => from = t
  <1> DEFINE S == InLocator(loc) \cap Chain[t]
  <1>1. S \subseteq Chain[loc] /\ S \subseteq Chain[t] /\ S \subseteq Block
    BY ChainTransitive DEF InLocator
  <1>2. CASE t \in Chain[loc]
    <2>1. FindForkInGlobalIndex(t, loc) = t /\ t \in Block /\ t \in Chain[t]
      BY <1>2, ChainTransitive DEF FindForkInGlobalIndex
    <2> QED
      BY <1>2, <2>1 DEF BlockOrNone
  <1>3. CASE t \notin Chain[loc]
    <2>1. FindForkInGlobalIndex(t, loc) = Highest(S)
      BY <1>3 DEF FindForkInGlobalIndex
    <2>2. t = NoBlock => S = {}
      BY ChainOfNone
    <2> HIDE DEF S
    <2>3. Highest(S) = NoBlock \/ Highest(S) \in S
      BY <1>1, HighestIs
    <2>4. t = NoBlock => Highest(S) = NoBlock
      BY <1>1, <2>2, HighestIs
    <2> QED
      BY <1>1, <1>3, <2>1, <2>3, <2>4 DEF BlockOrNone
  <1> QED
    BY <1>2, <1>3
-----------------------------------------------------------------------------
(* The queue. *)

(* The callbacks are told apart by their type and block. *)
LEMMA EventFacts ==
    /\ \A b : Connected(b).type = "BlockConnected" /\ Connected(b).block = b
    /\ \A b : ChainFlushed(b).type = "ChainStateFlushed" /\ ChainFlushed(b).block = b
    /\ Barrier.type = "barrier"
    /\ \A e \in Event : /\ e.type = "BlockConnected" => e.block \in Block /\ e = Connected(e.block)
                        /\ e.type = "ChainStateFlushed" => e.block \in Block /\ e = ChainFlushed(e.block)
                        /\ e.type = "barrier" => e = Barrier
                        /\ e.type \in {"BlockConnected", "ChainStateFlushed", "barrier"}
    /\ \A b \in Block : Connected(b) \in Event /\ ChainFlushed(b) \in Event
    /\ Barrier \in Event
  <1>1. /\ \A b : Connected(b).type = "BlockConnected" /\ Connected(b).block = b
        /\ \A b : ChainFlushed(b).type = "ChainStateFlushed" /\ ChainFlushed(b).block = b
        /\ Barrier.type = "barrier"
    BY DEF Connected, ChainFlushed, Barrier
  <1>2. ASSUME NEW e \in Event
        PROVE  /\ e.type = "BlockConnected" => e.block \in Block /\ e = Connected(e.block)
               /\ e.type = "ChainStateFlushed" => e.block \in Block /\ e = ChainFlushed(e.block)
               /\ e.type = "barrier" => e = Barrier
               /\ e.type \in {"BlockConnected", "ChainStateFlushed", "barrier"}
    <2>1. CASE e = Barrier
      BY <1>1, <2>1
    <2>2. ASSUME NEW b \in Block, e = Connected(b) PROVE <1>2!2
      BY <1>1, <2>2
    <2>3. ASSUME NEW b \in Block, e = ChainFlushed(b) PROVE <1>2!2
      BY <1>1, <2>3
    <2> QED
      BY <2>1, <2>2, <2>3 DEF Event
  <1> QED
    BY <1>1, <1>2 DEF Event

(* The callback at the head is done. *)
LEMMA TailFacts ==
    ASSUME NEW q \in Seq(Event), q # <<>>
    PROVE  /\ Tail(q) \in Seq(Event) /\ Len(q) \in Nat /\ Len(q) >= 1 /\ Len(Tail(q)) = Len(q) - 1
           /\ \A i \in 1 .. Len(q) - 1 : Tail(q)[i] = q[i + 1]
           /\ Head(q) = q[1] /\ Head(q) \in Event
           /\ DOMAIN q = 1 .. Len(q) /\ DOMAIN Tail(q) = 1 .. Len(q) - 1
  BY SMTT(60)

(* What a later callback connects is still to be connected. *)
LEMMA QueuedTail ==
    ASSUME NEW q \in Seq(Event), q # <<>>, NEW n \in 1 .. Len(q), NEW i \in Nat, NEW x,
           Queued(q, x, i + 1, n), i >= 1
    PROVE  Queued(Tail(q), x, i, n - 1)
  <1>1. PICK k \in i + 1 .. n : q[k] = Connected(x)
    BY DEF Queued
  <1>2. /\ k - 1 \in i .. n - 1 /\ k - 1 \in 1 .. Len(q) - 1 /\ (k - 1) + 1 = k
    BY TailFacts, SMTT(30)
  <1>3. Tail(q)[k - 1] = q[(k - 1) + 1]
    BY <1>2, TailFacts
  <1> QED
    BY <1>1, <1>2, <1>3 DEF Queued

(* So what is left of the queue still leads on to t. *)
LEMMA FollowsTail ==
    ASSUME NEW q \in Seq(Event), q # <<>>, NEW n \in 1 .. Len(q), NEW t, Follows(q, t, n)
    PROVE  Follows(Tail(q), t, n - 1)
  <1> SUFFICES ASSUME NEW i \in 1 .. n - 1, Tail(q)[i].type = "BlockConnected",
                      NEW x \in Chain[t] \ Chain[Tail(q)[i].block]
               PROVE  Queued(Tail(q), x, i + 1, n - 1)
    BY DEF Follows
  <1>1. /\ i \in 1 .. Len(q) - 1 /\ i + 1 \in 1 .. n /\ i + 1 \in Nat /\ i + 1 >= 1
    BY TailFacts, SMTT(30)
  <1>2. Tail(q)[i] = q[i + 1]
    BY <1>1, TailFacts
  <1>3. Queued(q, x, (i + 1) + 1, n)
    BY <1>1, <1>2 DEF Follows
  <1> QED
    BY <1>1, <1>3, QueuedTail

(* A callback that connects nothing changes nothing of what is to come. *)
LEMMA BehindTail ==
    ASSUME NEW q \in Seq(Event), q # <<>>, NEW n \in 1 .. Len(q), NEW b, NEW t,
           Behind(q, b, t, n), q[1].type # "BlockConnected"
    PROVE  Behind(Tail(q), b, t, n - 1)
  <1> SUFFICES ASSUME NEW x \in Chain[t] \ Chain[b] PROVE Queued(Tail(q), x, 1, n - 1)
    BY DEF Behind
  <1>1. PICK k \in 1 .. n : q[k] = Connected(x)
    BY DEF Behind, Queued
  <1>2. k # 1
    BY SMTT(60), <1>1, EventFacts
  <1>3. k \in 1 + 1 .. n
    BY <1>2, SMTT(30)
  <1>4. Queued(q, x, 1 + 1, n)
    BY <1>1, <1>3 DEF Queued
  <1>5. 1 \in Nat /\ 1 >= 1
    BY SMTT(30)
  <1> QED
    BY <1>4, <1>5, QueuedTail

(* Once the index is at the block of the head, the rest leads on to t. *)
LEMMA BehindConnected ==
    ASSUME NEW q \in Seq(Event), q # <<>>, NEW n \in 1 .. Len(q), NEW t,
           Follows(q, t, n), q[1].type = "BlockConnected"
    PROVE  Behind(Tail(q), q[1].block, t, n - 1)
  <1> SUFFICES ASSUME NEW x \in Chain[t] \ Chain[q[1].block] PROVE Queued(Tail(q), x, 1, n - 1)
    BY DEF Behind
  <1>1. 1 \in 1 .. n /\ 1 \in Nat /\ 1 >= 1
    BY TailFacts, SMTT(30)
  <1>2. Queued(q, x, 1 + 1, n)
    BY <1>1 DEF Follows
  <1> QED
    BY <1>1, <1>2, QueuedTail

(* The same before the block of the head is written. *)
LEMMA BehindRewound ==
    ASSUME NEW q \in Seq(Event), q # <<>>, NEW n \in 1 .. Len(q), NEW t,
           Follows(q, t, n), q[1].type = "BlockConnected"
    PROVE  Behind(q, Parent[q[1].block], t, n)
  <1> DEFINE h == q[1].block
  <1>1. q[1] \in Event /\ h \in Block /\ q[1] = Connected(h)
    BY TailFacts, EventFacts
  <1>2. 1 \in 1 .. n
    BY TailFacts, SMTT(30)
  <1>3. Chain[h] = Chain[Parent[h]] \cup {h}
    BY <1>1, ChainOfParent
  <1> SUFFICES ASSUME NEW x \in Chain[t] \ Chain[Parent[h]] PROVE Queued(q, x, 1, n)
    BY DEF Behind
  <1>4. CASE x = h
    BY <1>1, <1>2, <1>4 DEF Queued
  <1>5. CASE x # h
    <2>1. Queued(q, x, 1 + 1, n)
      BY <1>2, <1>3, <1>5 DEF Follows
    <2>2. PICK k \in 1 + 1 .. n : q[k] = Connected(x)
      BY <2>1 DEF Queued
    <2>3. k \in 1 .. n
      BY SMTT(30)
    <2> QED
      BY <2>2, <2>3 DEF Queued
  <1> QED
    BY <1>4, <1>5

(* A block that connects to no ancestor of the best block can be passed     *)
(* over: its parent is still to be connected, and it again after that.      *)
LEMMA BehindIgnored ==
    ASSUME NEW q \in Seq(Event), q # <<>>, NEW n \in 1 .. Len(q), NEW b, NEW t \in BlockOrNone,
           Follows(q, t, n), Behind(q, b, t, n), q[1].type = "BlockConnected",
           Parent[q[1].block] \notin Chain[b] \cup {NoBlock}
    PROVE  Behind(Tail(q), b, t, n - 1)
  <1> DEFINE h == q[1].block
  <1>1. q[1] \in Event /\ h \in Block /\ q[1] = Connected(h)
    BY TailFacts, EventFacts
  <1>2. h # Genesis /\ Parent[h] \in Block
    BY <1>1, Tree
  <1>3. h \notin Chain[Parent[h]] /\ Parent[h] \in Chain[Parent[h]]
    BY <1>1, <1>2, ChainOfParent, ChainBasic
  <1>4. 1 \in Nat /\ 1 >= 1
    BY SMTT(30)
  <1> SUFFICES ASSUME NEW x \in Chain[t] \ Chain[b] PROVE Queued(q, x, 1 + 1, n)
    BY <1>4, QueuedTail DEF Behind
  <1>5. PICK k \in 1 .. n : q[k] = Connected(x)
    BY DEF Behind, Queued
  <1>6. CASE k # 1
    <2>1. k \in 1 + 1 .. n
      BY <1>6, SMTT(30)
    <2> QED
      BY <1>5, <2>1 DEF Queued
  <1>7. CASE k = 1
    <2>1. x = h
      BY <1>1, <1>5, <1>7, EventFacts
    <2>2. t \in Block
      BY ChainOfNone DEF BlockOrNone
    <2>3. Parent[h] \in Chain[t]
      BY SMTT(60), <1>2, <2>1, <2>2, ChainBasic DEF ParentClosed
    <2>4. PICK i \in 1 .. n : q[i] = Connected(Parent[h])
      BY <2>3 DEF Behind, Queued
    <2>5. q[i].type = "BlockConnected" /\ q[i].block = Parent[h]
      BY SMTT(60), <2>4, EventFacts
    <2>6. Queued(q, h, i + 1, n)
      BY <1>3, <2>1, <2>5 DEF Follows
    <2>7. PICK j \in i + 1 .. n : q[j] = Connected(h)
      BY <2>6 DEF Queued
    <2>8. j \in 1 + 1 .. n
      BY SMTT(30)
    <2> QED
      BY <2>1, <2>7, <2>8 DEF Queued
  <1> QED
    BY <1>6, <1>7

(* What is appended does not change the beginning. *)
LEMMA QueueAppended ==
    ASSUME NEW q \in Seq(Event), NEW r \in Seq(Event), NEW n \in 0 .. Len(q)
    PROVE  /\ \A x : \A i \in Nat : i >= 1 => (Queued(q \o r, x, i, n) <=> Queued(q, x, i, n))
           /\ \A t : Follows(q \o r, t, n) <=> Follows(q, t, n)
           /\ \A b, t : Behind(q \o r, b, t, n) <=> Behind(q, b, t, n)
  <1>1. \A k \in 1 .. n : (q \o r)[k] = q[k]
    BY SMTT(60)
  <1>2. ASSUME NEW i \in Nat, NEW x, i >= 1 PROVE Queued(q \o r, x, i, n) <=> Queued(q, x, i, n)
    <2>1. \A k \in i .. n : k \in 1 .. n
      BY <1>2, SMTT(30)
    <2> QED
      BY <1>1, <2>1 DEF Queued
  <1>3. \A i \in 1 .. n : i + 1 \in Nat /\ i + 1 >= 1
    BY SMTT(30)
  <1>4. ASSUME NEW t PROVE Follows(q \o r, t, n) <=> Follows(q, t, n)
    BY <1>1, <1>2, <1>3 DEF Follows
  <1>5. 1 \in Nat /\ 1 >= 1
    BY SMTT(30)
  <1>6. ASSUME NEW b, NEW t PROVE Behind(q \o r, b, t, n) <=> Behind(q, b, t, n)
    BY <1>2, <1>5 DEF Behind
  <1> QED
    BY <1>2, <1>4, <1>6

(* A callback of another kind can be appended. *)
LEMMA OtherAppended ==
    ASSUME NEW q \in Seq(Event), NEW e \in Event, e.type # "BlockConnected", NEW b, NEW t
    PROVE  /\ Append(q, e) \in Seq(Event) /\ Len(Append(q, e)) = Len(q) + 1
           /\ Append(q, e)[Len(q) + 1] = e /\ \A i \in 1 .. Len(q) : Append(q, e)[i] = q[i]
           /\ Follows(q, t, Len(q)) => Follows(Append(q, e), t, Len(q) + 1)
           /\ Behind(q, b, t, Len(q)) => Behind(Append(q, e), b, t, Len(q) + 1)
  <1> DEFINE a == Append(q, e)
             n == Len(q)
  <1>1. /\ a \in Seq(Event) /\ Len(a) = n + 1 /\ n \in Nat
        /\ a[n + 1] = e /\ \A i \in 1 .. n : a[i] = q[i]
    BY SMTT(60)
  <1> HIDE DEF a, n
  <1>2. ASSUME NEW x, NEW i \in Nat, i >= 1, Queued(q, x, i, n) PROVE Queued(a, x, i, n + 1)
    <2>1. PICK k \in i .. n : q[k] = Connected(x)
      BY <1>2 DEF Queued
    <2>2. k \in 1 .. n /\ k \in i .. n + 1
      BY <1>1, <1>2, SMTT(30)
    <2> QED
      BY <1>1, <2>1, <2>2 DEF Queued
  <1>3. ASSUME Follows(q, t, n) PROVE Follows(a, t, n + 1)
    <2> SUFFICES ASSUME NEW i \in 1 .. n + 1, a[i].type = "BlockConnected",
                        NEW x \in Chain[t] \ Chain[a[i].block]
                 PROVE  Queued(a, x, i + 1, n + 1)
      BY DEF Follows
    <2>1. i # n + 1
      BY <1>1
    <2>2. i \in 1 .. n /\ i + 1 \in Nat /\ i + 1 >= 1
      BY <1>1, <2>1, SMTT(30)
    <2>3. Queued(q, x, i + 1, n)
      BY <1>1, <1>3, <2>2 DEF Follows
    <2> QED
      BY <1>2, <2>2, <2>3
  <1>4. 1 \in Nat /\ 1 >= 1
    BY SMTT(30)
  <1>5. ASSUME Behind(q, b, t, n) PROVE Behind(a, b, t, n + 1)
    BY <1>2, <1>4, <1>5 DEF Behind
  <1> QED
    BY <1>1, <1>3, <1>5 DEF a, n

(* The callbacks of a round: one for each block above the fork, in order. *)
LEMMA BranchIs ==
    ASSUME tip \in BlockOrNone, NEW b \in Block
    PROVE  LET r == Branch(b)
               f == FindFork(b)
               n == Height[b] - Height[f]
           IN  /\ r \in Seq(Event) /\ n \in Nat /\ Len(r) = n
               /\ \A i \in 1 .. n : /\ r[i].type = "BlockConnected"
                                    /\ r[i].block \in Chain[b] \ Chain[tip]
                                    /\ Height[r[i].block] = Height[f] + i
               /\ \A x \in Chain[b] \ Chain[tip] : /\ Height[x] - Height[f] \in 1 .. n
                                                   /\ r[Height[x] - Height[f]] = Connected(x)
  <1> DEFINE r == Branch(b)
             f == FindFork(b)
             n == Height[b] - Height[f]
  <1>1. /\ f \in BlockOrNone /\ Chain[f] = Chain[b] \cap Chain[tip]
        /\ Height[f] \in Int /\ Height[f] >= -1 /\ b \in BlockOrNone
    BY ForkIs DEF BlockOrNone
  <1>2. r = [i \in 1 .. n |-> Connected(GetAncestor(b, Height[f] + i))]
    BY DEF Branch
  <1> HIDE DEF r, f
  <1>3. Height[b] \in Nat /\ \A x \in Chain[b] : x \in Block /\ Height[x] \in Nat /\ Height[x] <= Height[b]
    BY ChainBasic, ChainOfParent, Tree
  <1>4. Height[f] <= Height[b]
    <2>1. CASE f = NoBlock
      BY <1>3, <2>1, Tree, SMTT(30)
    <2>2. CASE f # NoBlock
      <3>1. f \in Chain[b]
        BY <1>1, <2>2, ChainBasic DEF BlockOrNone
      <3> QED
        BY <1>3, <3>1
    <2> QED
      BY <2>1, <2>2
  <1>5. n \in Nat
    BY <1>1, <1>3, <1>4, SMTT(30)
  <1>6. ASSUME NEW x \in Chain[f] PROVE Height[x] <= Height[f]
    BY <1>1, <1>6, ChainOfNone, ChainOfParent DEF BlockOrNone
  <1>7. ASSUME NEW i \in 1 .. n
        PROVE  /\ GetAncestor(b, Height[f] + i) \in Chain[b] \ Chain[tip]
               /\ Height[GetAncestor(b, Height[f] + i)] = Height[f] + i
    <2>1. Height[f] + i \in Nat /\ Height[f] + i <= Height[b]
      BY <1>1, <1>3, <1>5, SMTT(30)
    <2>2. PICK a \in Chain[b] : Height[a] = Height[f] + i
      BY <2>1, ChainComplete
    <2>3. GetAncestor(b, Height[f] + i) = a
      BY <1>1, <2>2, GetAncestorIs
    <2>4. ~(Height[a] <= Height[f])
      BY <1>1, <2>2, SMTT(30)
    <2>5. a \notin Chain[f]
      BY <1>6, <2>4
    <2> QED
      BY <1>1, <2>2, <2>3, <2>5
  <1>8. ASSUME NEW i \in 1 .. n
        PROVE  /\ r[i] \in Event
               /\ r[i].type = "BlockConnected" /\ r[i].block \in Chain[b] \ Chain[tip]
               /\ Height[r[i].block] = Height[f] + i
    <2>1. r[i] = Connected(GetAncestor(b, Height[f] + i))
      BY <1>2
    <2> QED
      BY SMTT(60), <1>3, <1>7, <2>1, EventFacts
  <1>9. r \in Seq(Event) /\ Len(r) = n
    <2>1. \A i \in 1 .. n : Connected(GetAncestor(b, Height[f] + i)) \in Event
      BY <1>3, <1>7, EventFacts
    <2>2. r \in [1 .. n -> Event]
      BY <1>2, <2>1
    <2> QED
      BY SMTT(60), <1>2, <1>5, <2>2
  <1>10. ASSUME NEW x \in Chain[b] \ Chain[tip]
         PROVE  Height[x] - Height[f] \in 1 .. n /\ r[Height[x] - Height[f]] = Connected(x)
    <2>1. ~(Height[x] <= Height[f])
      <3> SUFFICES ASSUME Height[x] <= Height[f] PROVE FALSE
        OBVIOUS
      <3>1. f # NoBlock
        BY <1>3, Tree, SMTT(30)
      <3>2. f \in Chain[b] /\ f \in Chain[tip]
        BY <1>1, <3>1, ChainBasic DEF BlockOrNone
      <3>3. x \in Chain[f]
        BY <1>1, <3>2, ChainOrder
      <3> QED
        BY <1>1, <3>3
    <2>2. Height[x] - Height[f] \in 1 .. n
      BY <1>1, <1>3, <2>1, SMTT(30)
    <2>3. Height[f] + (Height[x] - Height[f]) = Height[x]
      BY <1>1, <1>3, SMTT(30)
    <2>4. GetAncestor(b, Height[f] + (Height[x] - Height[f])) = x
      BY <1>1, <2>3, GetAncestorIs
    <2> QED
      BY <1>2, <2>2, <2>4
  <1> QED
    BY <1>5, <1>8, <1>9, <1>10 DEF r, f

(* The two parts of a queue. *)
LEMMA ConcatFacts ==
    ASSUME NEW q \in Seq(Event), NEW r \in Seq(Event)
    PROVE  /\ q \o r \in Seq(Event) /\ Len(q \o r) = Len(q) + Len(r)
           /\ \A i \in 1 .. Len(q) : (q \o r)[i] = q[i]
           /\ \A i \in Len(q) + 1 .. Len(q) + Len(r) :
                 i - Len(q) \in 1 .. Len(r) /\ (q \o r)[i] = r[i - Len(q)]
           /\ \A i \in 1 .. Len(r) :
                 Len(q) + i \in 1 .. Len(q) + Len(r) /\ (q \o r)[Len(q) + i] = r[i]
  BY SMTT(60)

(* With them, the queue leads on to the new tip. *)
LEMMA BranchAppended ==
    ASSUME tip \in BlockOrNone, NEW b \in Block, NEW q \in Seq(Event), Follows(q, tip, Len(q))
    PROVE  LET a == q \o Branch(b)
           IN  /\ a \in Seq(Event) /\ Len(a) = Len(q) + Len(Branch(b))
               /\ \A i \in 1 .. Len(q) : a[i] = q[i]
               /\ \A i \in Len(q) + 1 .. Len(a) :
                     /\ a[i].type = "BlockConnected" /\ a[i].block \in Chain[b] \ Chain[tip]
                     /\ a[i] = Connected(Genesis) => tip = NoBlock /\ i = Len(q) + 1
               /\ Follows(a, b, Len(a))
               /\ \A c : Behind(q, c, tip, Len(q)) => Behind(a, c, b, Len(a))
               /\ \A x : Queued(q, x, 1, Len(q)) => Queued(a, x, 1, Len(a))
               /\ \A x \in Chain[b] \ Chain[tip] : Queued(a, x, 1, Len(a))
  <1> DEFINE r == Branch(b)
             f == FindFork(b)
             n == Height[b] - Height[f]
             m == Len(q)
             a == q \o r
  <1>1. /\ r \in Seq(Event) /\ n \in Nat /\ Len(r) = n
        /\ \A i \in 1 .. n : /\ r[i].type = "BlockConnected"
                             /\ r[i].block \in Chain[b] \ Chain[tip]
                             /\ Height[r[i].block] = Height[f] + i
        /\ \A x \in Chain[b] \ Chain[tip] : /\ Height[x] - Height[f] \in 1 .. n
                                            /\ r[Height[x] - Height[f]] = Connected(x)
    BY BranchIs
  <1>2. Height[f] \in Int /\ f \in BlockOrNone /\ Chain[f] = Chain[b] \cap Chain[tip]
    BY ForkIs DEF BlockOrNone
  <1>3. m \in Nat
    BY SMTT(60)
  <1> HIDE DEF r, f
  <1>4. /\ a \in Seq(Event) /\ Len(a) = m + n
        /\ \A i \in 1 .. m : a[i] = q[i]
        /\ \A i \in m + 1 .. m + n : i - m \in 1 .. n /\ a[i] = r[i - m]
        /\ \A i \in 1 .. n : m + i \in 1 .. m + n /\ a[m + i] = r[i]
    <2>1. Len(r) = n /\ r \in Seq(Event)
      BY <1>1
    <2> HIDE DEF n
    <2> QED
      BY <2>1, ConcatFacts
  <1> HIDE DEF a, n, m
  <1>5. \A x \in Chain[b] : Height[x] \in Nat
    BY ChainBasic, Tree
  <1>6. ASSUME NEW x \in Chain[b] \ Chain[tip], NEW i \in Nat, i <= m + 1
        PROVE  Queued(a, x, i, m + n)
    <2>1. Height[x] - Height[f] \in 1 .. n /\ r[Height[x] - Height[f]] = Connected(x)
      BY <1>1
    <2>2. m + (Height[x] - Height[f]) \in i .. m + n /\ a[m + (Height[x] - Height[f])] = Connected(x)
      BY <1>2, <1>3, <1>4, <1>5, <1>6, <2>1, SMTT(30)
    <2> QED
      BY <2>2 DEF Queued
  <1>7. ASSUME NEW x, NEW i \in Nat, i >= 1, Queued(q, x, i, m) PROVE Queued(a, x, i, m + n)
    <2>1. PICK k \in i .. m : q[k] = Connected(x)
      BY <1>7 DEF Queued
    <2>2. k \in 1 .. m /\ k \in i .. m + n
      BY <1>1, <1>3, <1>7, SMTT(30)
    <2> QED
      BY <1>4, <2>1, <2>2 DEF Queued
  <1>8. Follows(a, b, m + n)
    <2> SUFFICES ASSUME NEW i \in 1 .. m + n, a[i].type = "BlockConnected",
                        NEW x \in Chain[b] \ Chain[a[i].block]
                 PROVE  Queued(a, x, i + 1, m + n)
      BY DEF Follows
    <2>1. CASE i \in 1 .. m
      <3>1. i + 1 \in Nat /\ i + 1 >= 1 /\ i + 1 <= m + 1
        BY <1>3, <2>1, SMTT(30)
      <3>2. CASE x \in Chain[tip]
        <4>1. Queued(q, x, i + 1, m)
          BY <1>4, <2>1, <3>2 DEF Follows, m
        <4> QED
          BY <1>7, <3>1, <4>1
      <3>3. CASE x \notin Chain[tip]
        BY <1>6, <3>1, <3>3
      <3> QED
        BY <3>2, <3>3
    <2>2. CASE i \notin 1 .. m
      <3>1. i \in m + 1 .. m + n
        BY <1>1, <1>3, <2>2, SMTT(30)
      <3>2. i - m \in 1 .. n /\ a[i] = r[i - m]
        BY <1>4, <3>1
      <3> DEFINE y == a[i].block
      <3>3. y \in Chain[b] /\ y \notin Chain[tip] /\ Height[y] = Height[f] + (i - m)
        BY <1>1, <3>2
      <3> HIDE DEF y
      <3>4. ~(Height[x] <= Height[y])
        <4> SUFFICES ASSUME Height[x] <= Height[y] PROVE FALSE
          OBVIOUS
        <4>1. x \in Chain[y]
          BY <3>3, ChainOrder DEF BlockOrNone
        <4> QED
          BY <4>1 DEF y
      <3>5. x \notin Chain[tip]
        <4> SUFFICES ASSUME x \in Chain[tip] PROVE FALSE
          OBVIOUS
        <4>1. x \in Chain[f]
          BY <1>2
        <4>2. Height[x] <= Height[f]
          BY <1>2, <4>1, ChainOfNone, ChainOfParent DEF BlockOrNone
        <4> QED
          BY <1>2, <1>3, <1>5, <3>2, <3>3, <3>4, <4>2, SMTT(30)
      <3>6. Height[x] - Height[f] \in 1 .. n /\ r[Height[x] - Height[f]] = Connected(x)
        BY <1>1, <3>5
      <3>7. m + (Height[x] - Height[f]) \in i + 1 .. m + n
        <4>1. Height[x] \in Nat /\ n \in Nat /\ i \in Nat
          BY <1>1, <1>3, <1>5, SMTT(30)
        <4>2. \A hx, hy, hf \in Int :
                 hy = hf + (i - m) /\ ~(hx <= hy) /\ hx - hf \in 1 .. n
                 => m + (hx - hf) \in i + 1 .. m + n
          BY <1>3, <4>1, SMTT(30)
        <4>3. Height[y] \in Int /\ Height[x] \in Int
          BY SMTT(60), <1>5, <3>3
        <4> QED
          BY <1>2, <3>3, <3>4, <3>6, <4>2, <4>3, Zenon
      <3>8. a[m + (Height[x] - Height[f])] = Connected(x)
        BY <1>4, <3>6
      <3> QED
        BY <3>7, <3>8 DEF Queued
    <2> QED
      BY <2>1, <2>2
  <1>9. 1 \in Nat /\ 1 >= 1 /\ 1 <= m + 1
    BY <1>3, SMTT(30)
  <1>10. ASSUME NEW c, Behind(q, c, tip, m) PROVE Behind(a, c, b, m + n)
    <2> SUFFICES ASSUME NEW x \in Chain[b] \ Chain[c] PROVE Queued(a, x, 1, m + n)
      BY DEF Behind
    <2>1. CASE x \in Chain[tip]
      BY <1>7, <1>9, <1>10, <2>1 DEF Behind
    <2>2. CASE x \notin Chain[tip]
      BY <1>6, <1>9, <2>2
    <2> QED
      BY <2>1, <2>2
  <1>11. ASSUME NEW i \in m + 1 .. m + n
         PROVE  /\ a[i].type = "BlockConnected" /\ a[i].block \in Chain[b] \ Chain[tip]
                /\ a[i] = Connected(Genesis) => tip = NoBlock /\ i = m + 1
    <2>1. i - m \in 1 .. n /\ a[i] = r[i - m]
      BY <1>4
    <2>2. /\ a[i].type = "BlockConnected" /\ a[i].block \in Chain[b] \ Chain[tip]
          /\ Height[a[i].block] = Height[f] + (i - m)
      BY <1>1, <2>1
    <2>3. ASSUME a[i] = Connected(Genesis) PROVE tip = NoBlock /\ i = m + 1
      <3>1. a[i].block = Genesis
        BY <2>3, EventFacts
      <3>2. tip = NoBlock
        BY <2>2, <3>1, GenesisOnChain DEF BlockOrNone
      <3>3. Chain[f] = {}
        BY <1>2, <3>2, ChainOfNone
      <3>4. f = NoBlock
        BY <1>2, <3>3, ChainBasic DEF BlockOrNone
      <3>5. 0 = -1 + (i - m)
        BY <2>2, <3>1, <3>4, Tree
      <3> QED
        BY <1>3, <3>2, <3>5, SMTT(30)
    <2> QED
      BY <2>2, <2>3
  <1>12. Len(Branch(b)) = n
    BY <1>1 DEF r
  <1>13. \A i \in 1 .. m : a[i] = q[i]
    BY <1>4
  <1> QED
    BY <1>4, <1>6, <1>7, <1>8, <1>9, <1>10, <1>11, <1>12, <1>13 DEF a, m, r
-----------------------------------------------------------------------------
(* Types and places. *)

(* What the writes of the index leave on disk. *)
LEMMA WritesType ==
    ASSUME TInv, byHeight[-1] = NoBlock, NEW b \in BlockOrNone, NEW write
    PROVE  /\ Commit(b) => locator' \in BlockOrNone /\ orderly' \in BOOLEAN
           /\ Rewind(b) => /\ best' = b /\ locator' \in BlockOrNone /\ orderly' = orderly
                           /\ byHeight' = byHeight
           /\ WriteBlock(b) /\ b # NoBlock => /\ byHeight' \in [Heights -> BlockOrNone] /\ byHeight'[-1] = NoBlock
                                              /\ locator' = locator /\ orderly' = orderly
           /\ WriteFails(b, write) => orderly' \in BOOLEAN /\ locator' = locator /\ byHeight' = byHeight
           /\ RewindFails => orderly' = FALSE /\ locator' = locator /\ byHeight' = byHeight /\ best' = best
           /\ Fatal => stop' \in {"no", "asked", "flushed"} /\ stop' # "no"
                       /\ (stop' = "flushed" => stop = "flushed")
  <1>1. Locator(b) \in BlockOrNone
    BY DEF Locator, TInv
  <1>2. Commit(b) => locator' \in BlockOrNone /\ orderly' \in BOOLEAN
    BY <1>1 DEF Commit, TInv
  <1>3. ASSUME WriteBlock(b), b # NoBlock
        PROVE  byHeight' \in [Heights -> BlockOrNone] /\ byHeight'[-1] = NoBlock
    <2>1. byHeight' = [byHeight EXCEPT ![Height[b]] = b] /\ byHeight \in [Heights -> BlockOrNone]
      BY <1>3 DEF WriteBlock, TInv
    <2>2. b \in Block /\ Height[b] # -1
      BY <1>3, Tree, SMTT(30) DEF BlockOrNone
    <2>3. -1 \in Heights /\ Height[b] \in Heights
      BY Tree DEF Heights, BlockOrNone
    <2> QED
      BY <2>1, <2>2, <2>3
  <1>4. Rewind(b) => best' = b /\ locator' \in BlockOrNone /\ orderly' = orderly /\ byHeight' = byHeight
    BY <1>1 DEF Rewind
  <1>5. WriteFails(b, write) => orderly' \in BOOLEAN /\ locator' = locator /\ byHeight' = byHeight
    BY DEF WriteFails, TInv
  <1>6. RewindFails => orderly' = FALSE /\ locator' = locator /\ byHeight' = byHeight /\ best' = best
    BY DEF RewindFails
  <1>7. Fatal => stop' \in {"no", "asked", "flushed"} /\ stop' # "no" /\ (stop' = "flushed" => stop = "flushed")
    BY DEF Fatal, TInv
  <1> QED
    BY <1>2, <1>3, <1>4, <1>5, <1>6, <1>7 DEF WriteBlock

(* The head of the queue. *)
LEMMA RunningHead ==
    ASSUME TInv, NEW type, Running(type)
    PROVE  /\ pending \in Seq(Event) /\ pending # <<>> /\ pending[1].type = type
           /\ Head(pending) = pending[1] /\ pending[1] \in Event
           /\ at \notin {"aborted", "refused"}
           /\ type = "BlockConnected" =>
                 pending[1].block \in Block /\ pending[1] = Connected(pending[1].block)
           /\ Tail(pending) \in Seq(Event) /\ Len(Tail(pending)) <= MaxPending
  <1>1. pending \in Seq(Event) /\ pending # <<>> /\ Head(pending).type = type /\ at \notin {"aborted", "refused"}
    BY DEF TInv, Running
  <1>2. Len(Tail(pending)) <= MaxPending
    <2>1. Len(pending) \in Nat /\ Len(Tail(pending)) = Len(pending) - 1 /\ Len(pending) <= MaxPending
      BY <1>1, TailFacts DEF TInv
    <2>2. MaxPending \in Nat
      BY IndexAssumption
    <2> QED
      BY <2>1, <2>2, SMTT(30)
  <1> QED
    BY <1>1, <1>2, TailFacts, EventFacts

(* A callback more of another kind keeps the queue within its bound. *)
LEMMA AppendType ==
    ASSUME TInv, NEW e \in Event, Len(pending) < MaxPending, pending' = Append(pending, e)
    PROVE  pending' \in Seq(Event) /\ Len(pending') <= MaxPending
  <1>1. pending \in Seq(Event) /\ MaxPending \in Nat
    BY IndexAssumption DEF TInv
  <1> QED
    BY <1>1, SMTT(30)

(* What a start leaves, from the block where the locator meets the chain. *)
LEMMA StartType ==
    ASSUME NEW t \in BlockOrNone, NEW loc \in BlockOrNone, Start(t, loc)
    PROVE  LET from == FindForkInGlobalIndex(t, loc)
           IN  /\ tip' \in BlockOrNone /\ flushedTip' \in BlockOrNone /\ best' \in BlockOrNone
               /\ pindex' \in BlockOrNone /\ asked' \in BlockOrNone /\ synced' \in BOOLEAN /\ due' \in BOOLEAN
               /\ stop' = "no" /\ at' \in {"loop", "refused"} /\ asked' = NoBlock /\ due' = TRUE
               /\ pending' \in Seq(Event) /\ Len(pending') <= MaxPending /\ pending' = <<>>
               /\ tip' = t /\ best' = from /\ pindex' = from /\ synced' = (from = t)
               /\ from = NoBlock \/ from \in Chain[loc] \cap Chain[t]
               /\ t \in Chain[loc] \/ t = NoBlock => from = t
               /\ ~synced' => t # NoBlock
  <1> DEFINE from == FindForkInGlobalIndex(t, loc)
  <1>1. /\ from \in BlockOrNone
        /\ from = NoBlock \/ from \in Chain[loc] \cap Chain[t]
        /\ t \in Chain[loc] \/ t = NoBlock => from = t
    BY GlobalForkIs
  <1>2. /\ tip' = t /\ flushedTip' = t /\ pending' = <<>> /\ best' = from /\ synced' = (from = t)
        /\ stop' = "no" /\ at' \in {"loop", "refused"} /\ pindex' = from /\ due' = TRUE /\ asked' = NoBlock
    BY DEF Start
  <1>3. <<>> \in Seq(Event) /\ Len(<<>>) <= MaxPending
    BY IndexAssumption, SMTT(30)
  <1> HIDE DEF from
  <1> QED
    BY <1>1, <1>2, <1>3 DEF BlockOrNone, from

(* Initially. *)
LEMMA InitInv == Init => IInv
  <1> SUFFICES ASSUME Init PROVE IInv
    OBVIOUS
  <1>1. /\ tip \in StartTips /\ flushedTip = tip /\ pending = <<>> /\ best = NoBlock
        /\ synced = (tip = NoBlock) /\ stop = "no" /\ at = "loop" /\ pindex = NoBlock /\ due = TRUE
        /\ locator = NoBlock /\ byHeight = [h \in Heights |-> NoBlock] /\ asked = NoBlock /\ orderly = TRUE
    BY DEF Init
  <1>2. tip \in BlockOrNone
    BY <1>1, IndexAssumption DEF BlockOrNone
  <1>3. <<>> \in Seq(Event) /\ Len(<<>>) <= MaxPending /\ Len(<<>>) = 0 /\ DOMAIN <<>> = {}
    BY IndexAssumption, SMTT(30)
  <1>4. TInv
    BY <1>1, <1>2, <1>3 DEF TInv, BlockOrNone
  <1>5. -1 \in Heights
    BY Tree DEF Heights, BlockOrNone
  <1>6. PlaceInv /\ EmptyInv
    BY <1>1, <1>3, <1>5 DEF PlaceInv, EmptyInv
  <1>7. \A i \in 1 .. 0 : FALSE
    BY SMTT(30)
  <1>8. QueueInv
    <2>1. Follows(pending, tip, Len(pending))
      BY <1>1, <1>3, <1>7 DEF Follows
    <2>2. synced => Behind(pending, best, tip, Len(pending))
      BY <1>1, ChainOfNone DEF Behind
    <2> QED
      BY <2>1, <2>2 DEF QueueInv
  <1>9. BarrierInv
    BY <1>1, <1>3 DEF BarrierInv
  <1>10. DiskInv
    BY <1>1, ChainOfNone DEF DiskInv, Covered, Safe, LocatorInv, LocatorBehind, FlushedInv
  <1>11. LookedInv
    BY DEF Init, LookedInv
  <1> QED
    BY <1>4, <1>6, <1>8, <1>9, <1>10, <1>11 DEF IInv

(* The queue keeps its types, whatever happens. *)
LEMMA TypeStep == IInv /\ [Next]_vars => TInv'
  <1> SUFFICES ASSUME IInv, [Next]_vars PROVE TInv'
    OBVIOUS
  <1>1. TInv /\ PlaceInv /\ EmptyInv /\ byHeight[-1] = NoBlock /\ NoBlock \in BlockOrNone
    BY DEF IInv, PlaceInv, BlockOrNone
  <1>2. ASSUME NEW b \in Block, ActivateBestChain(b) PROVE TInv'
    <2>1. pending' \in Seq(Event) /\ Len(pending') <= MaxPending
      <3>1. tip \in BlockOrNone /\ pending \in Seq(Event) /\ Follows(pending, tip, Len(pending))
        BY <1>1 DEF TInv, IInv, QueueInv
      <3>2. pending' = pending \o Branch(b) /\ Len(pending) + Len(Branch(b)) <= MaxPending
        BY <1>2 DEF ActivateBestChain
      <3> QED
        BY <3>1, <3>2, BranchAppended
    <2> QED
      BY SMTT(60), <1>1, <1>2, <2>1 DEF ActivateBestChain, TInv, BlockOrNone, db, thread
  <1>3. CASE InvalidateTip
    <2>1. tip' \in BlockOrNone
      BY <1>1, <1>3, Tree DEF InvalidateTip, TInv, BlockOrNone
    <2> QED
      BY <1>1, <1>3, <2>1 DEF InvalidateTip, TInv, db, thread
  <1>4. CASE FlushStateToDisk
    <2>1. tip \in Block
      BY <1>1, <1>4 DEF FlushStateToDisk, TInv, BlockOrNone
    <2>2. pending' \in Seq(Event) /\ Len(pending') <= MaxPending
      BY <1>1, <1>4, <2>1, EventFacts, AppendType DEF FlushStateToDisk
    <2> QED
      BY <1>1, <1>4, <2>2 DEF FlushStateToDisk, TInv, db, thread
  <1>5. CASE ForceFlushStateToDisk
    <2>1. pending' \in Seq(Event) /\ Len(pending') <= MaxPending
      <3>1. CASE tip = NoBlock
        BY <1>1, <1>5, <3>1 DEF ForceFlushStateToDisk, TInv
      <3>2. CASE tip # NoBlock
        <4>1. ChainFlushed(tip) \in Event
          BY <1>1, <3>2, EventFacts DEF TInv, BlockOrNone
        <4> QED
          BY <1>1, <1>5, <3>2, <4>1, AppendType DEF ForceFlushStateToDisk
      <3> QED
        BY <3>1, <3>2
    <2> QED
      BY <1>1, <1>5, <2>1 DEF ForceFlushStateToDisk, TInv, db, thread
  <1>6. CASE BlockUntilSyncedToCurrentChain
    <2>1. CASE NullDereference
      BY <1>1, <2>1 DEF NullDereference, TInv, db, chain
    <2>2. CASE ~NullDereference
      BY <1>1, <1>6, <2>2 DEF BlockUntilSyncedToCurrentChain, TInv, db, thread, chain
    <2> QED
      BY <2>1, <2>2
  <1>28. CASE SyncWithValidationInterfaceQueue
    <2>1. pending' \in Seq(Event) /\ Len(pending') <= MaxPending
      BY <1>1, <1>28, EventFacts, AppendType DEF SyncWithValidationInterfaceQueue
    <2> QED
      BY <1>1, <1>28, <2>1 DEF SyncWithValidationInterfaceQueue, TInv, db, thread, chain
  <1>7. CASE Interrupt
    BY <1>1, <1>7 DEF Interrupt, TInv, db, thread, chain
  <1>8. ASSUME NEW t \in BlockOrNone, NEW loc \in BlockOrNone, Start(t, loc),
               locator' \in BlockOrNone, byHeight' \in [Heights -> BlockOrNone], orderly' \in BOOLEAN
        PROVE  TInv'
    BY <1>8, StartType DEF TInv
  <1>9. CASE Shutdown
    BY <1>1, <1>8, <1>9 DEF Shutdown, Restart, TInv
  <1>10. CASE Crash
    BY <1>1, <1>8, <1>10 DEF Crash, Restart, TInv
  <1>11. CASE Reindex
    BY <1>1, <1>8, <1>11 DEF Reindex
  <1>12. CASE IntervalPasses
    BY <1>1, <1>12 DEF IntervalPasses, TInv, db, chain
  <1>13. CASE SyncInterrupted
    BY <1>1, <1>13, WritesType DEF SyncInterrupted, ThreadEnds, TInv, chain
  <1>14. CASE SyncDone
    BY <1>1, <1>14 DEF SyncDone, ThreadEnds, TInv, chain, db
  <1>15. CASE LastCommit
    <2>1. best \in BlockOrNone
      BY <1>1 DEF TInv
    <2> QED
      BY <1>1, <1>15, <2>1, WritesType DEF LastCommit, TInv, chain
  <1>16. ASSUME at = "loop", ~synced
         PROVE  NextSyncBlock(pindex) = NoBlock \/ /\ NextSyncBlock(pindex) \in Block
                                                   /\ Parent[NextSyncBlock(pindex)] \in BlockOrNone
    <2>1. tip \in Block /\ pindex \in BlockOrNone
      BY <1>1, <1>16 DEF EmptyInv, TInv, BlockOrNone
    <2> QED
      BY <2>1, NextSyncBlockIs, Tree
  <1>17. CASE SyncNext
    BY <1>1, <1>16, <1>17 DEF SyncNext, HandOver, TInv, chain, db, BlockOrNone
  <1>18. CASE SyncRewind
    <2> DEFINE n == NextSyncBlock(pindex)
    <2>1. /\ n \in Block /\ n \in BlockOrNone /\ Parent[n] \in BlockOrNone
      BY <1>16, <1>18 DEF SyncRewind, HandOver, BlockOrNone
    <2>2. UNCHANGED <<tip, flushedTip, pending, synced, due, asked>>
      BY <1>18 DEF SyncRewind, chain
    <2>3. stop' \in {"no", "asked", "flushed"}
      BY <1>1, <1>18, WritesType DEF SyncRewind, TInv
    <2>4. /\ best' \in BlockOrNone /\ locator' \in BlockOrNone /\ orderly' \in BOOLEAN
          /\ byHeight' \in [Heights -> BlockOrNone] /\ pindex' \in BlockOrNone
          /\ at' \in {"commit", "failed", "aborted"}
      <3> HIDE DEF n
      <3>1. \/ Rewind(Parent[n]) /\ pindex' = n /\ at' = "commit"
            \/ RewindFails /\ at' = "failed" /\ pindex' = NoBlock
            \/ at' = "aborted" /\ UNCHANGED <<best, db, pindex>>
        BY <1>18 DEF SyncRewind, n
      <3> QED
        BY <1>1, <2>1, <3>1, WritesType DEF TInv, db
    <2> QED
      BY <1>1, <2>2, <2>3, <2>4 DEF TInv
  <1>19. CASE SyncCommit
    BY <1>1, <1>19, WritesType DEF SyncCommit, TInv, chain
  <1>20. CASE SyncWrite
    <2>1. pindex \in BlockOrNone /\ pindex # NoBlock
      BY <1>1, <1>20 DEF SyncWrite, TInv, PlaceInv
    <2>2. CASE WriteBlock(pindex) /\ at' = "loop" /\ UNCHANGED <<stop, pindex, due>>
      BY <1>1, <1>20, <2>1, <2>2, WritesType DEF SyncWrite, TInv, chain
    <2>3. CASE WriteFails(pindex, "syncblock") /\ ThreadEnds("failed") /\ Fatal
      BY <1>1, <1>20, <2>1, <2>3, WritesType DEF SyncWrite, ThreadEnds, TInv, chain
    <2> QED
      BY <1>20, <2>2, <2>3 DEF SyncWrite
  <1>21. CASE SyncNotNeeded
    BY <1>1, <1>21 DEF SyncNotNeeded, ThreadEnds, TInv, chain, db
  <1>22. CASE BlockConnectedIgnored
    <2>1. Tail(pending) \in Seq(Event) /\ Len(Tail(pending)) <= MaxPending
      BY <1>1, <1>22, RunningHead DEF BlockConnectedIgnored
    <2>2. stop' \in {"no", "asked", "flushed"}
      BY <1>1, <1>22, WritesType DEF BlockConnectedIgnored, TInv
    <2> QED
      BY <1>1, <1>22, <2>1, <2>2 DEF BlockConnectedIgnored, TInv, chain, db, thread
  <1>23. CASE BlockConnectedRewind
    <2> DEFINE h == Head(pending).block
    <2>1. /\ Tail(pending) \in Seq(Event) /\ Len(Tail(pending)) <= MaxPending /\ Parent[h] \in BlockOrNone
      BY <1>1, <1>23, RunningHead, Tree DEF BlockConnectedRewind
    <2>2. \/ Rewind(Parent[h]) /\ UNCHANGED <<pending, stop>>
          \/ RewindFails /\ pending' = Tail(pending) /\ Fatal
      BY <1>23 DEF BlockConnectedRewind
    <2>3. UNCHANGED <<tip, flushedTip, synced, at, pindex, due, asked>>
      BY <1>23 DEF BlockConnectedRewind, chain, thread
    <2> HIDE DEF h
    <2>4. /\ best' \in BlockOrNone /\ locator' \in BlockOrNone /\ orderly' \in BOOLEAN
          /\ byHeight' \in [Heights -> BlockOrNone] /\ stop' \in {"no", "asked", "flushed"}
          /\ pending' \in Seq(Event) /\ Len(pending') <= MaxPending
      BY <1>1, <2>1, <2>2, WritesType DEF TInv
    <2> QED
      BY <1>1, <2>3, <2>4 DEF TInv
  <1>24. CASE BlockConnected
    <2> DEFINE h == Head(pending).block
    <2>1. /\ Tail(pending) \in Seq(Event) /\ Len(Tail(pending)) <= MaxPending
          /\ h \in BlockOrNone /\ h # NoBlock
      BY <1>1, <1>24, RunningHead, Tree DEF BlockConnected, BlockOrNone
    <2>2. \/ WriteBlock(h) /\ best' = h /\ UNCHANGED stop
          \/ WriteFails(h, "block") /\ Fatal /\ UNCHANGED best
      BY <1>24 DEF BlockConnected
    <2>3. UNCHANGED <<tip, flushedTip, synced, at, pindex, due, asked>> /\ pending' = Tail(pending)
      BY <1>24 DEF BlockConnected, chain, thread
    <2> HIDE DEF h
    <2>4. /\ best' \in BlockOrNone /\ locator' \in BlockOrNone /\ orderly' \in BOOLEAN
          /\ byHeight' \in [Heights -> BlockOrNone] /\ stop' \in {"no", "asked", "flushed"}
      BY <1>1, <2>1, <2>2, WritesType DEF TInv
    <2> QED
      BY <1>1, <2>1, <2>3, <2>4 DEF TInv
  <1>25. CASE ChainStateFlushed
    <2>1. CASE NullDereference
      BY <1>1, <2>1 DEF NullDereference, TInv, db, chain
    <2>2. CASE ~NullDereference
      <3>1. Tail(pending) \in Seq(Event) /\ Len(Tail(pending)) <= MaxPending /\ best \in BlockOrNone
        BY <1>1, <1>25, RunningHead DEF ChainStateFlushed, TInv
      <3>2. /\ pending' = Tail(pending) /\ UNCHANGED <<chain, best, synced, stop, thread, byHeight, asked>>
            /\ Commit(best) \/ UNCHANGED <<locator, orderly>>
        BY <1>25, <2>2 DEF ChainStateFlushed
      <3>3. locator' \in BlockOrNone /\ orderly' \in BOOLEAN
        BY <1>1, <3>1, <3>2, WritesType DEF TInv
      <3> QED
        BY <1>1, <3>1, <3>2, <3>3 DEF TInv, thread, chain
    <2> QED
      BY <2>1, <2>2
  <1>26. CASE ReachBarrier
    <2>1. Tail(pending) \in Seq(Event) /\ Len(Tail(pending)) <= MaxPending
      BY <1>1, <1>26, RunningHead DEF ReachBarrier
    <2> QED
      BY <1>1, <1>26, <2>1 DEF ReachBarrier, TInv, chain, db, thread
  <1>27. CASE UNCHANGED vars
    BY <1>1, <1>27 DEF vars, TInv, chain, db, thread
  <1> QED
    BY <1>2, <1>3, <1>4, <1>5, <1>6, <1>7, <1>9, <1>10, <1>11, <1>12, <1>13, <1>14, <1>15, <1>17, <1>18,
       <1>19, <1>20, <1>21, <1>22, <1>23, <1>24, <1>25, <1>26, <1>27, <1>28 DEF Next, ThreadSync, Callback

(* The places of ThreadSync stay as described. *)
LEMMA PlaceStep == IInv /\ [Next]_vars => PlaceInv'
  <1> SUFFICES ASSUME IInv, [Next]_vars PROVE PlaceInv'
    OBVIOUS
  <1>1. /\ TInv /\ PlaceInv /\ byHeight[-1] = NoBlock
        /\ at = "lastcommit" => synced /\ best # NoBlock
        /\ at \in {"commit", "write"} => ~synced /\ pindex # NoBlock
        /\ stop = "flushed" => at # "lastcommit"
    BY DEF IInv, PlaceInv
  <1>2. ASSUME UNCHANGED <<at, pindex, synced, byHeight>>,
               at = "lastcommit" => best' # NoBlock /\ stop' # "flushed"
        PROVE  PlaceInv'
    BY <1>1, <1>2 DEF PlaceInv
  <1>3. ASSUME at' \notin {"commit", "write", "lastcommit"}, byHeight'[-1] = NoBlock PROVE PlaceInv'
    BY <1>3 DEF PlaceInv
  <1>4. ASSUME NEW b \in Block, ActivateBestChain(b) PROVE PlaceInv'
    BY <1>1, <1>2, <1>4 DEF ActivateBestChain, CsMainFree, thread, db
  <1>5. CASE InvalidateTip \/ FlushStateToDisk \/ ForceFlushStateToDisk
    BY <1>2, <1>5 DEF InvalidateTip, FlushStateToDisk, ForceFlushStateToDisk, CsMainFree, thread, db
  <1>6. CASE NullDereference
    BY <1>1, <1>3, <1>6 DEF NullDereference, db
  <1>7. CASE BlockUntilSyncedToCurrentChain
    BY <1>2, <1>6, <1>7 DEF BlockUntilSyncedToCurrentChain, CsMainFree, thread, db
  <1>25. CASE SyncWithValidationInterfaceQueue
    BY <1>1, <1>2, <1>25 DEF SyncWithValidationInterfaceQueue, thread, db
  <1>8. CASE Interrupt
    BY <1>1, <1>2, <1>8 DEF Interrupt, thread, db
  <1>9. CASE Shutdown \/ Crash
    <2>1. at' \in {"loop", "refused"} /\ byHeight' = byHeight
      BY <1>9 DEF Shutdown, Crash, Restart, Start
    <2> QED
      BY <1>1, <1>3, <2>1
  <1>10. CASE Reindex
    <2>1. at' \in {"loop", "refused"} /\ byHeight' = [h \in Heights |-> NoBlock]
      BY <1>10 DEF Reindex, Start
    <2>2. -1 \in Heights
      BY Tree DEF Heights, BlockOrNone
    <2> QED
      BY <1>3, <2>1, <2>2
  <1>11. CASE IntervalPasses
    BY <1>1, <1>2, <1>11 DEF IntervalPasses, db
  <1>12. CASE SyncInterrupted \/ LastCommit \/ SyncNotNeeded
    <2>1. at' = "done" /\ byHeight' = byHeight
      BY <1>12 DEF SyncInterrupted, LastCommit, SyncNotNeeded, ThreadEnds, db
    <2> QED
      BY <1>1, <1>3, <2>1
  <1>13. ASSUME at = "loop", ~synced
         PROVE  /\ tip \in Block /\ pindex \in BlockOrNone
                /\ LET n == NextSyncBlock(pindex)
                   IN  \/ n = NoBlock /\ pindex # NoBlock
                       \/ n \in Block
    <2>1. tip \in Block /\ pindex \in BlockOrNone
      BY <1>13 DEF IInv, EmptyInv, TInv, BlockOrNone
    <2>2. Chain[tip] # {}
      BY <2>1, ChainBasic
    <2>3. NextSyncBlock(pindex) = NoBlock => Chain[tip] \subseteq Chain[pindex]
      BY <2>1, NextSyncBlockIs, Tree
    <2>4. NextSyncBlock(pindex) = NoBlock \/ NextSyncBlock(pindex) \in Block
      BY <2>1, NextSyncBlockIs
    <2> QED
      BY <2>1, <2>2, <2>3, <2>4, ChainOfNone
  <1>14. CASE SyncDone
    <2>1. pindex # NoBlock
      BY <1>13, <1>14, Tree DEF SyncDone, HandOver
    <2> QED
      BY <1>1, <1>14, <2>1 DEF SyncDone, ThreadEnds, PlaceInv, db
  <1>15. CASE SyncNext
    <2>1. NextSyncBlock(pindex) \in Block
      BY <1>13, <1>15 DEF SyncNext, HandOver
    <2> QED
      BY <1>1, <1>15, <2>1, Tree DEF SyncNext, PlaceInv, db
  <1>16. CASE SyncRewind
    <2>1. NextSyncBlock(pindex) \in Block /\ NextSyncBlock(pindex) # NoBlock
      BY <1>13, <1>16, Tree DEF SyncRewind, HandOver
    <2>2. byHeight' = byHeight /\ synced' = synced /\ ~synced
      BY <1>16 DEF SyncRewind, Rewind, RewindFails, db
    <2>3. at' \in {"failed", "aborted"} \/ (at' = "commit" /\ pindex' = NextSyncBlock(pindex))
      BY <1>16 DEF SyncRewind
    <2> QED
      BY <1>1, <1>3, <2>1, <2>2, <2>3 DEF PlaceInv
  <1>17. CASE SyncCommit
    BY <1>1, <1>17 DEF SyncCommit, PlaceInv
  <1>18. CASE SyncWrite
    <2>1. pindex \in BlockOrNone /\ pindex # NoBlock /\ at' \in {"loop", "failed"}
      BY <1>1, <1>18 DEF SyncWrite, TInv, ThreadEnds
    <2>2. byHeight'[-1] = NoBlock
      BY <1>1, <1>18, <2>1, WritesType DEF SyncWrite
    <2> QED
      BY <1>3, <2>1, <2>2
  <1>19. CASE BlockConnectedIgnored
    <2>1. stop' = "flushed" => stop = "flushed"
      BY <1>1, <1>19, WritesType DEF BlockConnectedIgnored, TInv
    <2> QED
      BY <1>1, <1>2, <1>19, <2>1 DEF BlockConnectedIgnored, thread, db
  <1>20. CASE BlockConnectedRewind
    <2>1. byHeight' = byHeight
      BY <1>20 DEF BlockConnectedRewind, Rewind, RewindFails
    <2> QED
      BY <1>2, <1>20, <2>1 DEF BlockConnectedRewind, CsMainFree, thread
  <1>21. CASE BlockConnected
    <2> DEFINE h == Head(pending).block
    <2>1. h \in Block /\ h \in BlockOrNone /\ h # NoBlock
      BY <1>1, <1>21, RunningHead, Tree DEF BlockConnected, BlockOrNone
    <2>2. \/ WriteBlock(h) /\ best' = h /\ UNCHANGED stop
          \/ WriteFails(h, "block") /\ Fatal /\ UNCHANGED best
      BY <1>21 DEF BlockConnected
    <2>3. UNCHANGED <<synced, at, pindex>>
      BY <1>21 DEF BlockConnected, thread
    <2> HIDE DEF h
    <2>4. byHeight'[-1] = NoBlock /\ (stop' = "flushed" => stop = "flushed")
      BY <1>1, <2>1, <2>2, WritesType
    <2>5. best' = h \/ best' = best
      BY <2>2
    <2> QED
      BY <1>1, <2>1, <2>3, <2>4, <2>5 DEF PlaceInv
  <1>22. CASE ChainStateFlushed
    <2>1. CASE ~NullDereference
      BY <1>1, <1>2, <1>22, <2>1 DEF ChainStateFlushed, thread
    <2> QED
      BY <1>6, <2>1
  <1>23. CASE ReachBarrier
    BY <1>1, <1>2, <1>23 DEF ReachBarrier, thread, db
  <1>24. CASE UNCHANGED vars
    BY <1>1, <1>2, <1>24 DEF vars, thread, db
  <1> QED
    BY <1>4, <1>5, <1>7, <1>8, <1>9, <1>10, <1>11, <1>12, <1>14, <1>15, <1>16, <1>17, <1>18, <1>19, <1>20,
       <1>21, <1>22, <1>23, <1>24, <1>25 DEF Next, ThreadSync, Callback
-----------------------------------------------------------------------------
(* The queue leads on to the tip. *)
FlowInv == EmptyInv /\ QueueInv /\ BarrierInv

(* A step of ThreadSync, or of the node, that leaves the queue alone. *)
LEMMA QuietFlow ==
    ASSUME FlowInv, UNCHANGED <<pending, tip, synced, asked>>, synced => best' = best,
           stop' = "no" => stop = "no"
    PROVE  FlowInv'
  <1>1. EmptyInv'
    BY DEF FlowInv, EmptyInv, IsConnected
  <1>2. QueueInv'
    BY DEF FlowInv, QueueInv
  <1>3. BarrierInv'
    BY DEF FlowInv, BarrierInv, IsBarrier
  <1> QED
    BY <1>1, <1>2, <1>3 DEF FlowInv

(* A callback of another kind is done. *)
LEMMA OtherDone ==
    ASSUME TInv, FlowInv, NEW type, Running(type), type # "BlockConnected",
           UNCHANGED <<tip, synced, best, stop>>, pending' = Tail(pending),
           asked' = asked \/ type = "barrier"
    PROVE  FlowInv'
  <1> DEFINE q == pending
             n == Len(pending)
  <1>1. q \in Seq(Event) /\ q # <<>> /\ q[1].type = type
    BY RunningHead
  <1>2. /\ n \in Nat /\ n >= 1 /\ Len(Tail(q)) = n - 1 /\ \A i \in 1 .. n - 1 : Tail(q)[i] = q[i + 1]
        /\ DOMAIN q = 1 .. n /\ DOMAIN Tail(q) = 1 .. n - 1
    BY <1>1, TailFacts
  <1>3. /\ \A i \in 1 .. n - 1 : i + 1 \in 1 .. n /\ (i + 1) - 1 = i /\ i + 1 # 1 /\ i + 1 \in Nat
        /\ n \in 1 .. n /\ 1 \in 1 .. n
    BY <1>2, SMTT(30)
  <1>4. EmptyInv'
    <2>1. ~synced' => tip' # NoBlock
      BY DEF FlowInv, EmptyInv
    <2>2. tip' = NoBlock => synced' /\ best' = NoBlock /\ \A i \in DOMAIN pending' : ~IsConnected(i)'
      BY SMTT(60), <1>2, <1>3 DEF FlowInv, EmptyInv, IsConnected
    <2>3. ASSUME NEW i \in 1 .. n - 1, Tail(q)[i] = Connected(Genesis)
          PROVE  synced' /\ best' = NoBlock /\ \A k \in 1 .. i - 1 : Tail(q)[k].type # "BlockConnected"
      <3>1. q[i + 1] = Connected(Genesis) /\ i + 1 \in DOMAIN q
        BY <1>2, <1>3, <2>3
      <3>2. synced /\ best = NoBlock /\ \A k \in 1 .. (i + 1) - 1 : q[k].type # "BlockConnected"
        BY <3>1 DEF FlowInv, EmptyInv, IsConnected
      <3>3. \A k \in 1 .. i - 1 : k + 1 \in 1 .. (i + 1) - 1 /\ k \in 1 .. n - 1
        BY <1>2, SMTT(30)
      <3> QED
        BY <1>2, <3>2, <3>3
    <2> QED
      BY <1>2, <2>1, <2>2, <2>3 DEF EmptyInv, IsConnected
  <1>5. QueueInv'
    <2>1. Follows(Tail(q), tip, n - 1)
      BY <1>1, <1>3, FollowsTail DEF FlowInv, QueueInv
    <2>2. synced /\ stop = "no" => Behind(Tail(q), best, tip, n - 1)
      BY <1>1, <1>3, BehindTail DEF FlowInv, QueueInv
    <2> QED
      BY <1>2, <2>1, <2>2 DEF QueueInv
  <1>6. ASSUME NEW j \in 1 .. n - 1, Tail(q)[j].type = "barrier"
        PROVE  /\ synced' /\ asked' # NoBlock
               /\ \A i \in 1 .. n - 1 : Tail(q)[i].type = "barrier" => i = j
               /\ Follows(Tail(q), asked', j - 1)
               /\ stop' = "no" => Behind(Tail(q), best', asked', j - 1)
    <2>1. j + 1 \in DOMAIN q /\ IsBarrier(j + 1)
      BY <1>2, <1>3, <1>6 DEF IsBarrier
    <2>2. /\ synced /\ asked # NoBlock
          /\ \A i \in DOMAIN q : q[i].type = "barrier" => i = j + 1
          /\ Follows(q, asked, (j + 1) - 1)
          /\ stop = "no" => Behind(q, best, asked, (j + 1) - 1)
      BY <2>1 DEF FlowInv, BarrierInv, IsBarrier
    <2>3. asked' = asked
      BY <1>1, <1>2, <1>3, <2>2
    <2>4. j \in 1 .. n /\ (j + 1) - 1 = j
      BY <1>2, SMTT(30)
    <2>5. Follows(Tail(q), asked, j - 1) /\ (stop = "no" => Behind(Tail(q), best, asked, j - 1))
      BY <1>1, <2>2, <2>4, FollowsTail, BehindTail
    <2>6. \A i \in 1 .. n - 1 : Tail(q)[i].type = "barrier" => i + 1 = j + 1
      BY <1>2, <1>3, <2>2
    <2>7. \A i \in 1 .. n - 1 : i + 1 = j + 1 => i = j
      BY <1>2, SMTT(30)
    <2> QED
      BY <2>2, <2>3, <2>5, <2>6, <2>7
  <1>7. BarrierInv'
    BY <1>2, <1>6 DEF BarrierInv, IsBarrier
  <1> QED
    BY <1>4, <1>5, <1>7 DEF FlowInv

(* BlockConnected is done: the index is at its block, or was right to       *)
(* ignore it, or the node is going to stop.                                 *)
LEMMA ConnectedDone ==
    ASSUME TInv, FlowInv, Running("BlockConnected"),
           UNCHANGED <<tip, synced, asked>>, pending' = Tail(pending),
           stop' = "no" => stop = "no",
           \/ ~synced
           \/ stop' # "no"
           \/ best' = pending[1].block
           \/ best' = best /\ Parent[pending[1].block] \notin Chain[best] \cup {NoBlock}
    PROVE  FlowInv'
  <1> DEFINE q == pending
             n == Len(pending)
  <1>1. /\ q \in Seq(Event) /\ q # <<>> /\ q[1].type = "BlockConnected"
        /\ tip \in BlockOrNone /\ asked \in BlockOrNone
    BY RunningHead DEF TInv
  <1>2. /\ n \in Nat /\ n >= 1 /\ Len(Tail(q)) = n - 1 /\ \A i \in 1 .. n - 1 : Tail(q)[i] = q[i + 1]
        /\ DOMAIN q = 1 .. n /\ DOMAIN Tail(q) = 1 .. n - 1
    BY <1>1, TailFacts
  <1>3. /\ \A i \in 1 .. n - 1 : i + 1 \in 1 .. n /\ 1 \in 1 .. (i + 1) - 1
        /\ n \in 1 .. n /\ 1 \in 1 .. n
    BY <1>2, SMTT(30)
  <1>4. EmptyInv'
    <2>1. tip # NoBlock
      BY <1>1, <1>2, <1>3 DEF FlowInv, EmptyInv, IsConnected
    <2>2. ASSUME NEW i \in 1 .. n - 1, Tail(q)[i] = Connected(Genesis) PROVE FALSE
      <3>1. q[i + 1] = Connected(Genesis) /\ i + 1 \in DOMAIN q
        BY <1>2, <1>3, <2>2
      <3>2. \A k \in 1 .. (i + 1) - 1 : q[k].type # "BlockConnected"
        BY <3>1 DEF FlowInv, EmptyInv, IsConnected
      <3> QED
        BY <1>1, <1>3, <3>2
    <2> QED
      BY <1>2, <2>1, <2>2 DEF EmptyInv
  <1>5. ASSUME NEW t \in BlockOrNone, NEW m \in 1 .. n, Follows(q, t, m),
               synced /\ stop = "no" => Behind(q, best, t, m)
        PROVE  Follows(Tail(q), t, m - 1) /\ (synced /\ stop' = "no" => Behind(Tail(q), best', t, m - 1))
    <2>1. Follows(Tail(q), t, m - 1)
      BY <1>1, <1>5, FollowsTail
    <2>2. ASSUME synced, stop' = "no" PROVE Behind(Tail(q), best', t, m - 1)
      <3>1. CASE best' = q[1].block
        BY <1>1, <1>5, <3>1, BehindConnected
      <3>2. CASE best' = best /\ Parent[q[1].block] \notin Chain[best] \cup {NoBlock}
        BY <1>1, <1>5, <2>2, <3>2, BehindIgnored
      <3> QED
        BY <2>2, <3>1, <3>2
    <2> QED
      BY <2>1, <2>2
  <1>6. QueueInv'
    <2>1. Follows(q, tip, n) /\ (synced /\ stop = "no" => Behind(q, best, tip, n))
      BY DEF FlowInv, QueueInv
    <2>2. Follows(Tail(q), tip, n - 1) /\ (synced /\ stop' = "no" => Behind(Tail(q), best', tip, n - 1))
      BY <1>1, <1>3, <1>5, <2>1
    <2> QED
      BY <1>2, <2>2 DEF QueueInv
  <1>7. ASSUME NEW j \in 1 .. n - 1, Tail(q)[j].type = "barrier"
        PROVE  /\ synced /\ asked # NoBlock
               /\ \A i \in 1 .. n - 1 : Tail(q)[i].type = "barrier" => i = j
               /\ Follows(Tail(q), asked, j - 1)
               /\ stop' = "no" => Behind(Tail(q), best', asked, j - 1)
    <2>1. j + 1 \in DOMAIN q /\ IsBarrier(j + 1)
      BY <1>2, <1>3, <1>7 DEF IsBarrier
    <2>2. /\ synced /\ asked # NoBlock
          /\ \A i \in DOMAIN q : q[i].type = "barrier" => i = j + 1
          /\ Follows(q, asked, (j + 1) - 1)
          /\ stop = "no" => Behind(q, best, asked, (j + 1) - 1)
      BY <2>1 DEF FlowInv, BarrierInv, IsBarrier
    <2>3. j \in 1 .. n /\ (j + 1) - 1 = j
      BY <1>2, SMTT(30)
    <2>4. Follows(Tail(q), asked, j - 1) /\ (stop' = "no" => Behind(Tail(q), best', asked, j - 1))
      BY <1>1, <1>5, <2>2, <2>3
    <2>5. \A i \in 1 .. n - 1 : Tail(q)[i].type = "barrier" => i + 1 = j + 1
      BY <1>2, <1>3, <2>2
    <2>6. \A i \in 1 .. n - 1 : i + 1 = j + 1 => i = j
      BY <1>2, SMTT(30)
    <2> QED
      BY <2>2, <2>4, <2>5, <2>6
  <1>8. BarrierInv'
    BY <1>2, <1>7 DEF BarrierInv, IsBarrier
  <1> QED
    BY <1>4, <1>6, <1>8 DEF FlowInv

(* BlockConnected has rewound the index to the parent of its block. *)
LEMMA RewoundFlow ==
    ASSUME TInv, FlowInv, Running("BlockConnected"), UNCHANGED <<pending, tip, synced, asked, stop>>,
           best' = Parent[pending[1].block], best # Parent[pending[1].block]
    PROVE  FlowInv'
  <1> DEFINE q == pending
             n == Len(pending)
  <1>1. q \in Seq(Event) /\ q # <<>> /\ q[1].type = "BlockConnected" /\ q[1] = Connected(q[1].block)
    BY RunningHead
  <1>2. n \in Nat /\ DOMAIN q = 1 .. n /\ 1 \in 1 .. n /\ n \in 1 .. n
    BY <1>1, TailFacts, SMTT(30)
  <1>3. EmptyInv'
    <2>1. tip # NoBlock
      BY <1>1, <1>2 DEF FlowInv, EmptyInv, IsConnected
    <2>2. ASSUME NEW i \in 1 .. n, q[i] = Connected(Genesis) PROVE FALSE
      <3>1. best = NoBlock /\ \A k \in 1 .. i - 1 : q[k].type # "BlockConnected"
        BY <1>2, <2>2 DEF FlowInv, EmptyInv, IsConnected
      <3>2. i = 1
        <4> SUFFICES ASSUME i # 1 PROVE FALSE
          OBVIOUS
        <4>1. 1 \in 1 .. i - 1
          BY <1>2, SMTT(30)
        <4> QED
          BY <1>1, <3>1, <4>1
      <3>3. q[1].block = Genesis
        BY <2>2, <3>2, EventFacts
      <3> QED
        BY <3>1, <3>3, Tree
    <2> QED
      BY <1>2, <2>1, <2>2 DEF EmptyInv
  <1>4. QueueInv'
    BY <1>1, <1>2, BehindRewound DEF FlowInv, QueueInv
  <1>5. ASSUME NEW j \in DOMAIN q, IsBarrier(j)
        PROVE  Follows(q, asked, j - 1) /\ Behind(q, best', asked, j - 1)
    <2>1. Follows(q, asked, j - 1)
      BY <1>5 DEF FlowInv, BarrierInv
    <2>2. j # 1
      BY <1>1, <1>5 DEF IsBarrier
    <2>3. j - 1 \in 1 .. n
      BY <1>2, <2>2, SMTT(30)
    <2> QED
      BY <1>1, <2>1, <2>3, BehindRewound
  <1>6. BarrierInv'
    BY <1>5 DEF FlowInv, BarrierInv, IsBarrier
  <1> QED
    BY <1>3, <1>4, <1>6 DEF FlowInv

(* The signal of a flush is queued. *)
LEMMA FlushQueued ==
    ASSUME TInv, FlowInv, UNCHANGED <<tip, synced, best, asked>>, tip # NoBlock,
           pending' = Append(pending, ChainFlushed(tip)), stop' = "no" => stop = "no"
    PROVE  FlowInv'
  <1> DEFINE q == pending
             n == Len(pending)
             e == ChainFlushed(tip)
  <1>1. q \in Seq(Event) /\ n \in Nat /\ DOMAIN q = 1 .. n /\ tip \in Block
    BY SMTT(60) DEF TInv, BlockOrNone
  <1>2. e \in Event /\ e.type = "ChainStateFlushed" /\ \A b : e # Connected(b)
    BY <1>1, EventFacts
  <1>3. /\ pending' \in Seq(Event) /\ Len(pending') = n + 1 /\ pending'[n + 1] = e
        /\ \A i \in 1 .. n : pending'[i] = q[i]
        /\ \A t : Follows(q, t, n) => Follows(pending', t, n + 1)
        /\ \A b, t : Behind(q, b, t, n) => Behind(pending', b, t, n + 1)
    BY <1>1, <1>2, OtherAppended
  <1>4. /\ DOMAIN pending' = 1 .. n + 1
        /\ \A i \in 1 .. n + 1 : i = n + 1 \/ i \in 1 .. n
        /\ \A i \in 1 .. n : \A k \in 1 .. i - 1 : k \in 1 .. n
    BY <1>1, <1>3, SMTT(30)
  <1> HIDE DEF e, n
  <1>5. EmptyInv'
    BY <1>1, <1>2, <1>3, <1>4 DEF FlowInv, EmptyInv, IsConnected
  <1>6. QueueInv'
    BY <1>3 DEF FlowInv, QueueInv, n
  <1>7. ASSUME NEW j \in 1 .. n, IsBarrier(j)
        PROVE  /\ Follows(pending', asked, j - 1)
               /\ stop = "no" => Behind(pending', best, asked, j - 1)
    <2>1. Follows(q, asked, j - 1) /\ (stop = "no" => Behind(q, best, asked, j - 1))
      BY <1>1, <1>7 DEF FlowInv, BarrierInv
    <2>2. pending' = q \o <<e>> /\ <<e>> \in Seq(Event)
      BY SMTT(60), <1>1, <1>2 DEF e
    <2>3. j - 1 \in 0 .. Len(q)
      BY <1>1, SMTT(30) DEF n
    <2>4. Follows(q \o <<e>>, asked, j - 1) /\ (stop = "no" => Behind(q \o <<e>>, best, asked, j - 1))
      BY <1>1, <2>1, <2>2, <2>3, QueueAppended
    <2> QED
      BY <2>2, <2>4
  <1>8. BarrierInv'
    BY SMTT(60), <1>1, <1>2, <1>3, <1>4, <1>7 DEF FlowInv, BarrierInv, IsBarrier
  <1> QED
    BY <1>5, <1>6, <1>8 DEF FlowInv

(* BlockUntilSyncedToCurrentChain waits for what is queued. *)
LEMMA BarrierQueued ==
    ASSUME TInv, FlowInv, UNCHANGED <<tip, synced, best, stop>>, synced, tip # NoBlock, asked = NoBlock,
           asked' = tip, pending' = Append(pending, Barrier)
    PROVE  FlowInv'
  <1> DEFINE q == pending
             n == Len(pending)
  <1>1. q \in Seq(Event) /\ n \in Nat /\ DOMAIN q = 1 .. n
    BY SMTT(60) DEF TInv
  <1>2. Barrier \in Event /\ Barrier.type = "barrier" /\ \A b : Barrier # Connected(b)
    BY EventFacts
  <1>3. /\ pending' \in Seq(Event) /\ Len(pending') = n + 1 /\ pending'[n + 1] = Barrier
        /\ \A i \in 1 .. n : pending'[i] = q[i]
        /\ \A t : Follows(q, t, n) => Follows(pending', t, n + 1)
        /\ \A b, t : Behind(q, b, t, n) => Behind(pending', b, t, n + 1)
    BY <1>1, <1>2, OtherAppended
  <1>4. /\ DOMAIN pending' = 1 .. n + 1
        /\ \A i \in 1 .. n + 1 : i = n + 1 \/ i \in 1 .. n
        /\ \A i \in 1 .. n : \A k \in 1 .. i - 1 : k \in 1 .. n
        /\ (n + 1) - 1 = n
    BY <1>1, <1>3, SMTT(30)
  <1> HIDE DEF n
  <1>5. EmptyInv'
    BY <1>1, <1>2, <1>3, <1>4 DEF FlowInv, EmptyInv, IsConnected
  <1>6. QueueInv'
    BY <1>3 DEF FlowInv, QueueInv, n
  <1>7. \A j \in 1 .. n : pending'[j].type # "barrier"
    BY <1>1, <1>3 DEF FlowInv, BarrierInv, IsBarrier
  <1>8. Follows(pending', tip, n) /\ (stop = "no" => Behind(pending', best, tip, n))
    <2>1. Follows(q, tip, n) /\ (stop = "no" => Behind(q, best, tip, n))
      BY DEF FlowInv, QueueInv, n
    <2>2. pending' = q \o <<Barrier>> /\ <<Barrier>> \in Seq(Event)
      BY SMTT(60), <1>1, <1>2
    <2>3. n \in 0 .. Len(q)
      BY <1>1, SMTT(30) DEF n
    <2>4. Follows(q \o <<Barrier>>, tip, n) /\ (stop = "no" => Behind(q \o <<Barrier>>, best, tip, n))
      BY <1>1, <2>1, <2>2, <2>3, QueueAppended
    <2> QED
      BY <2>2, <2>4
  <1>9. BarrierInv'
    BY <1>3, <1>4, <1>7, <1>8 DEF BarrierInv, IsBarrier
  <1> QED
    BY <1>5, <1>6, <1>9 DEF FlowInv

(* A round of ActivateBestChain queues the blocks of the new branch. *)
LEMMA BranchQueued ==
    ASSUME TInv, FlowInv, NEW b \in Block, ActivateBestChain(b)
    PROVE  FlowInv'
  <1> DEFINE q == pending
             n == Len(pending)
             a == pending'
  <1>1. /\ q \in Seq(Event) /\ n \in Nat /\ DOMAIN q = 1 .. n /\ tip \in BlockOrNone
        /\ Follows(q, tip, n)
    BY SMTT(60) DEF TInv, FlowInv, QueueInv
  <1>2. a = q \o Branch(b) /\ tip' = b /\ UNCHANGED <<best, synced, stop, asked>>
    BY DEF ActivateBestChain
  <1>3. /\ a \in Seq(Event) /\ Len(a) = Len(q) + Len(Branch(b))
        /\ \A i \in 1 .. n : a[i] = q[i]
        /\ \A i \in n + 1 .. Len(a) :
              /\ a[i].type = "BlockConnected" /\ a[i].block \in Chain[b] \ Chain[tip]
              /\ a[i] = Connected(Genesis) => tip = NoBlock /\ i = n + 1
        /\ Follows(a, b, Len(a))
        /\ \A c : Behind(q, c, tip, n) => Behind(a, c, b, Len(a))
    <2> DEFINE A == q \o Branch(b)
    <2>1. /\ A \in Seq(Event) /\ Len(A) = Len(q) + Len(Branch(b))
          /\ \A i \in 1 .. Len(q) : A[i] = q[i]
          /\ \A i \in Len(q) + 1 .. Len(A) :
                /\ A[i].type = "BlockConnected" /\ A[i].block \in Chain[b] \ Chain[tip]
                /\ A[i] = Connected(Genesis) => tip = NoBlock /\ i = Len(q) + 1
          /\ Follows(A, b, Len(A))
          /\ \A c : Behind(q, c, tip, Len(q)) => Behind(A, c, b, Len(A))
      BY <1>1, BranchAppended
    <2>2. a = A
      BY <1>2
    <2> HIDE DEF A
    <2> QED
      BY <2>1, <2>2
  <1>4. /\ Branch(b) \in Seq(Event) /\ b # NoBlock
    BY <1>1, BranchIs, Tree
  <1>5. /\ DOMAIN a = 1 .. Len(a)
        /\ \A i \in 1 .. Len(a) : i \in n + 1 .. Len(a) \/ i \in 1 .. n
        /\ \A i \in 1 .. n : \A k \in 1 .. i - 1 : k \in 1 .. n
        /\ (n + 1) - 1 = n
    BY <1>1, <1>3, <1>4, SMTT(30)
  <1> HIDE DEF n, a
  <1>6. EmptyInv'
    <2>1. ASSUME NEW i \in 1 .. Len(a), a[i] = Connected(Genesis)
          PROVE  synced /\ best = NoBlock /\ \A k \in 1 .. i - 1 : a[k].type # "BlockConnected"
      <3>1. CASE i \in 1 .. n
        BY <1>1, <1>3, <1>5, <2>1, <3>1 DEF FlowInv, EmptyInv, IsConnected
      <3>2. CASE i \in n + 1 .. Len(a)
        <4>1. tip = NoBlock /\ i = n + 1
          BY <1>3, <2>1, <3>2
        <4>2. synced /\ best = NoBlock /\ \A k \in 1 .. n : q[k].type # "BlockConnected"
          BY <1>1, <4>1 DEF FlowInv, EmptyInv, IsConnected
        <4> QED
          BY <1>3, <1>5, <4>1, <4>2
      <3> QED
        BY <1>5, <3>1, <3>2
    <2> QED
      BY <1>2, <1>4, <1>5, <2>1 DEF EmptyInv, IsConnected, a
  <1>7. QueueInv'
    BY <1>2, <1>3 DEF FlowInv, QueueInv, n, a
  <1>8. \A j \in 1 .. Len(a) : a[j].type = "barrier" => j \in 1 .. n /\ IsBarrier(j)
    BY <1>3, <1>5 DEF IsBarrier
  <1>9. ASSUME NEW j \in 1 .. n, IsBarrier(j)
        PROVE  /\ Follows(a, asked, j - 1)
               /\ stop = "no" => Behind(a, best, asked, j - 1)
    <2>1. Follows(q, asked, j - 1) /\ (stop = "no" => Behind(q, best, asked, j - 1))
      BY <1>1, <1>9 DEF FlowInv, BarrierInv
    <2>2. j - 1 \in 0 .. Len(q)
      BY <1>1, SMTT(30) DEF n
    <2> QED
      BY <1>1, <1>2, <1>4, <2>1, <2>2, QueueAppended
  <1>10. BarrierInv'
    <2>1. \A j \in 1 .. n : IsBarrier(j) => /\ synced /\ asked # NoBlock
                                            /\ \A i \in 1 .. n : IsBarrier(i) => i = j
      BY <1>1 DEF FlowInv, BarrierInv
    <2> QED
      BY <1>2, <1>5, <1>8, <1>9, <2>1 DEF BarrierInv, IsBarrier, a
  <1> QED
    BY <1>6, <1>7, <1>10 DEF FlowInv

(* A start has nothing queued, and is in sync or goes to look. *)
LEMMA StartFlow ==
    ASSUME NEW t \in BlockOrNone, NEW loc \in BlockOrNone, Start(t, loc)
    PROVE  FlowInv'
  <1>1. /\ pending' = <<>> /\ tip' = t /\ synced' = (best' = t) /\ (t = NoBlock => best' = t)
    BY StartType
  <1>2. Len(<<>>) = 0 /\ DOMAIN <<>> = {} /\ \A i \in 1 .. 0 : FALSE
    BY SMTT(30)
  <1>3. EmptyInv'
    BY <1>1, <1>2 DEF EmptyInv
  <1>4. QueueInv'
    <2>1. Follows(pending', tip', Len(pending'))
      BY <1>1, <1>2 DEF Follows
    <2>2. synced' => Behind(pending', best', tip', Len(pending'))
      BY <1>1 DEF Behind
    <2> QED
      BY <2>1, <2>2 DEF QueueInv
  <1>5. BarrierInv'
    BY <1>1, <1>2 DEF BarrierInv
  <1> QED
    BY <1>3, <1>4, <1>5 DEF FlowInv

(* Whatever happens, what is queued leads on to the tip. *)
LEMMA FlowStep == IInv /\ [Next]_vars => FlowInv'
  <1> SUFFICES ASSUME IInv, [Next]_vars PROVE FlowInv'
    OBVIOUS
  <1>1. TInv /\ FlowInv /\ PlaceInv /\ byHeight[-1] = NoBlock
    BY DEF IInv, FlowInv, PlaceInv
  <1>2. ASSUME NEW b \in Block, ActivateBestChain(b) PROVE FlowInv'
    BY <1>1, <1>2, BranchQueued
  <1>3. CASE InvalidateTip
    <2>1. tip \in Block \ {Genesis} /\ tip' = Parent[tip] /\ UNCHANGED <<pending, best, synced, stop, asked>>
      BY <1>1, <1>3 DEF InvalidateTip, TInv, BlockOrNone
    <2>2. tip' # NoBlock /\ Chain[tip'] \subseteq Chain[tip] /\ tip # NoBlock
      BY SMTT(60), <2>1, Tree, ChainOfParent
    <2>3. EmptyInv'
      BY <1>1, <2>1, <2>2 DEF FlowInv, EmptyInv, IsConnected
    <2>4. QueueInv'
      BY <1>1, <2>1, <2>2 DEF FlowInv, QueueInv, Follows, Behind
    <2>5. BarrierInv'
      BY <1>1, <2>1 DEF FlowInv, BarrierInv, IsBarrier
    <2> QED
      BY <2>3, <2>4, <2>5 DEF FlowInv
  <1>4. CASE FlushStateToDisk
    BY <1>1, <1>4, FlushQueued DEF FlushStateToDisk
  <1>5. CASE ForceFlushStateToDisk
    <2>1. CASE tip = NoBlock
      BY <1>1, <1>5, <2>1, QuietFlow DEF ForceFlushStateToDisk
    <2>2. CASE tip # NoBlock
      BY <1>1, <1>5, <2>2, FlushQueued DEF ForceFlushStateToDisk
    <2> QED
      BY <2>1, <2>2
  <1>6. CASE NullDereference
    BY <1>1, <1>6, QuietFlow DEF NullDereference, chain
  <1>7. CASE BlockUntilSyncedToCurrentChain
    <2>1. CASE ~NullDereference
      BY <1>1, <1>7, <2>1, QuietFlow DEF BlockUntilSyncedToCurrentChain, chain
    <2> QED
      BY <1>6, <2>1
  <1>23. CASE SyncWithValidationInterfaceQueue
    <2>1. synced /\ tip # NoBlock /\ asked = NoBlock
      BY <1>23 DEF SyncWithValidationInterfaceQueue, IInv, LookedInv
    <2> QED
      BY <1>1, <1>23, <2>1, BarrierQueued DEF SyncWithValidationInterfaceQueue, chain
  <1>8. CASE Interrupt
    BY <1>1, <1>8, QuietFlow DEF Interrupt, chain
  <1>9. CASE Shutdown \/ Crash
    <2>1. PICK t \in BlockOrNone : Start(t, locator)
      BY <1>1, <1>9 DEF Shutdown, Crash, Restart, TInv
    <2> QED
      BY <1>1, <2>1, StartFlow DEF TInv
  <1>10. CASE Reindex
    BY <1>10, StartFlow DEF Reindex, BlockOrNone
  <1>11. CASE IntervalPasses \/ LastCommit \/ SyncNotNeeded \/ SyncNext
    BY <1>1, <1>11, QuietFlow DEF IntervalPasses, LastCommit, SyncNotNeeded, SyncNext, chain
  <1>12. CASE SyncInterrupted
    BY <1>1, <1>12, QuietFlow DEF SyncInterrupted, chain
  <1>13. CASE SyncCommit
    <2>1. ~synced
      BY <1>1, <1>13 DEF SyncCommit, PlaceInv
    <2> QED
      BY <1>1, <1>13, <2>1, QuietFlow DEF SyncCommit, chain
  <1>14. CASE SyncRewind
    <2>1. stop' = "no" => stop = "no"
      BY <1>14 DEF SyncRewind, Fatal
    <2> QED
      BY <1>1, <1>14, <2>1, QuietFlow DEF SyncRewind, chain
  <1>15. CASE SyncWrite
    <2>1. stop' = "no" => stop = "no"
      BY <1>15 DEF SyncWrite, Fatal
    <2> QED
      BY <1>1, <1>15, <2>1, QuietFlow DEF SyncWrite, chain
  <1>16. CASE SyncDone
    <2>1. /\ ~synced /\ synced' = TRUE /\ best' = pindex /\ UNCHANGED <<tip, pending, stop, asked>>
          /\ NextSyncBlock(pindex) = NoBlock
      BY <1>16 DEF SyncDone, HandOver, chain
    <2>2. tip \in Block /\ pindex \in BlockOrNone /\ tip # NoBlock
      BY <1>1, <2>1 DEF FlowInv, EmptyInv, TInv, BlockOrNone
    <2>3. Chain[tip] \subseteq Chain[pindex]
      BY <2>1, <2>2, NextSyncBlockIs, Tree
    <2>4. EmptyInv'
      BY <1>1, <2>1, <2>2 DEF FlowInv, EmptyInv
    <2>5. QueueInv'
      BY <1>1, <2>1, <2>3 DEF FlowInv, QueueInv, Behind
    <2>6. BarrierInv'
      BY <1>1, <2>1 DEF FlowInv, BarrierInv, IsBarrier
    <2> QED
      BY <2>4, <2>5, <2>6 DEF FlowInv
  <1>17. CASE BlockConnectedIgnored
    <2>1. /\ Running("BlockConnected") /\ UNCHANGED <<tip, best, synced, asked>> /\ pending' = Tail(pending)
          /\ Head(pending) = pending[1]
          /\ stop' = "no" => stop = "no"
      BY <1>1, <1>17, RunningHead DEF BlockConnectedIgnored, chain, Fatal
    <2>2. CASE ~synced
      BY <1>1, <2>1, <2>2, ConnectedDone
    <2>3. CASE synced
      <3>1. Parent[pending[1].block] \notin Chain[best] \cup {NoBlock}
        BY <1>17, <2>1, <2>3 DEF BlockConnectedIgnored, Connects
      <3> QED
        BY <1>1, <2>1, <3>1, ConnectedDone
    <2> QED
      BY <1>1, <2>2, <2>3 DEF TInv
  <1>18. CASE BlockConnectedRewind
    <2>1. /\ Running("BlockConnected") /\ UNCHANGED <<tip, synced, asked>> /\ Head(pending) = pending[1]
          /\ best # Parent[pending[1].block]
      BY <1>1, <1>18, RunningHead DEF BlockConnectedRewind, chain
    <2>2. CASE Rewind(Parent[Head(pending).block]) /\ UNCHANGED <<pending, stop>>
      BY <1>1, <2>1, <2>2, RewoundFlow DEF Rewind
    <2>3. CASE RewindFails /\ pending' = Tail(pending) /\ Fatal
      <3>1. stop' # "no"
        BY <1>1, <2>3, WritesType DEF BlockOrNone
      <3> QED
        BY <1>1, <2>1, <2>3, <3>1, ConnectedDone
    <2> QED
      BY <1>18, <2>2, <2>3 DEF BlockConnectedRewind
  <1>19. CASE BlockConnected
    <2>1. /\ Running("BlockConnected") /\ UNCHANGED <<tip, synced, asked>> /\ Head(pending) = pending[1]
          /\ pending' = Tail(pending)
      BY <1>1, <1>19, RunningHead DEF BlockConnected, chain
    <2>2. CASE best' = pending[1].block /\ UNCHANGED stop
      BY <1>1, <2>1, <2>2, ConnectedDone
    <2>3. CASE Fatal
      <3>1. stop' # "no"
        BY <1>1, <2>3, WritesType DEF BlockOrNone
      <3> QED
        BY <1>1, <2>1, <3>1, ConnectedDone
    <2> QED
      BY <1>19, <2>1, <2>2, <2>3 DEF BlockConnected
  <1>20. CASE ChainStateFlushed
    <2>1. CASE ~NullDereference
      <3>1. /\ Running("ChainStateFlushed") /\ pending' = Tail(pending)
            /\ UNCHANGED <<tip, synced, best, stop, asked>>
        BY <1>20, <2>1 DEF ChainStateFlushed, chain
      <3> QED
        BY <1>1, <3>1, OtherDone
    <2> QED
      BY <1>6, <2>1
  <1>21. CASE ReachBarrier
    BY <1>1, <1>21, OtherDone DEF ReachBarrier, chain
  <1>22. CASE UNCHANGED vars
    BY <1>1, <1>22, QuietFlow DEF vars, chain
  <1> QED
    BY <1>2, <1>3, <1>4, <1>5, <1>7, <1>8, <1>9, <1>10, <1>11, <1>12, <1>13, <1>14, <1>15, <1>16, <1>17,
       <1>18, <1>19, <1>20, <1>21, <1>22, <1>23 DEF Next, ThreadSync, Callback
-----------------------------------------------------------------------------
(* The database. *)

(* A part of a covered chain is covered. *)
LEMMA CoveredBelow ==
    ASSUME NEW b \in BlockOrNone, NEW a \in Chain[b] \cup {NoBlock}, Covered(b)
    PROVE  Covered(a)
  BY ChainTransitive, ChainOfNone DEF Covered

(* WriteBlock extends a covered chain, and keeps one that has the block. *)
LEMMA CoveredWritten ==
    ASSUME TInv, NEW b \in Block, byHeight' = [byHeight EXCEPT ![Height[b]] = b]
    PROVE  /\ Covered(Parent[b]) => \A a \in Chain[b] : byHeight'[Height[a]] = a
           /\ \A c \in BlockOrNone : Covered(c) /\ b \in Chain[c] => \A a \in Chain[c] : byHeight'[Height[a]] = a
  <1>1. byHeight \in [Heights -> BlockOrNone] /\ \A a \in Block : Height[a] \in Heights
    BY DEF TInv, Heights, BlockOrNone
  <1>2. \A c \in BlockOrNone : Chain[c] \subseteq Block
    BY ChainTransitive
  <1>3. \A a \in Block : byHeight'[Height[a]] = IF Height[a] = Height[b] THEN b ELSE byHeight[Height[a]]
    BY <1>1
  <1>4. ASSUME Covered(Parent[b]), NEW a \in Chain[b] PROVE byHeight'[Height[a]] = a
    <2>1. a \in Block /\ b \in BlockOrNone /\ b \in Chain[b]
      BY <1>2, ChainBasic DEF BlockOrNone
    <2>2. CASE a = b
      BY <1>3, <2>2
    <2>3. CASE a # b
      <3>1. a \in Chain[Parent[b]]
        BY SMTT(60), <2>3, ChainOfParent
      <3>2. Height[a] # Height[b]
        BY <2>1, <2>3, ChainUnique
      <3> QED
        BY <1>3, <1>4, <2>1, <3>1, <3>2 DEF Covered
    <2> QED
      BY <2>2, <2>3
  <1>5. ASSUME NEW c \in BlockOrNone, Covered(c), b \in Chain[c], NEW a \in Chain[c]
        PROVE  byHeight'[Height[a]] = a
    <2>1. a \in Block
      BY <1>2
    <2>2. byHeight[Height[a]] = a /\ byHeight[Height[b]] = b
      BY <1>5 DEF Covered
    <2> QED
      BY <1>3, <2>1, <2>2
  <1> QED
    BY <1>4, <1>5

(* A Commit that leaves the database in order writes what it was told to. *)
LEMMA CommitOrderly ==
    ASSUME NEW b, Commit(b), orderly'
    PROVE  orderly /\ locator' = b
  BY DEF Commit

(* When nothing is queued, a locator aside has no block of the active chain *)
(* that the index has not.                                                  *)
LEMMA AsideApart ==
    ASSUME TInv, LocatorAside, pending = <<>>
    PROVE  Chain[locator] \cap Chain[tip] \subseteq Chain[best]
  <1>1. locator \in BlockOrNone /\ tip \in BlockOrNone /\ best \in Block
    BY DEF TInv, LocatorAside, BlockOrNone
  <1> DEFINE c == Highest(Chain[locator] \cap Chain[tip])
             f == Highest(Chain[c] \cap Chain[best])
  <1>2. c \in BlockOrNone /\ Chain[c] = Chain[locator] \cap Chain[tip]
    BY <1>1, CommonChain
  <1> HIDE DEF c
  <1>3. f \in BlockOrNone /\ Chain[f] = Chain[c] \cap Chain[best]
    BY <1>1, <1>2, CommonChain DEF BlockOrNone
  <1> HIDE DEF f
  <1>4. SUFFICES ASSUME ~(Chain[c] \subseteq Chain[best]) PROVE FALSE
    BY <1>2
  <1>5. c \in Block
    BY <1>2, <1>4, ChainOfNone DEF BlockOrNone
  <1>6. Genesis \in Chain[f]
    BY <1>1, <1>3, <1>5, GenesisOnChain
  <1>7. f \in Block /\ f \in Chain[c] /\ f \in Chain[best] /\ f # c
    BY <1>3, <1>4, <1>6, ChainOfNone, ChainBasic DEF BlockOrNone
  <1>8. Height[f] \in Nat /\ Height[c] \in Nat /\ Height[f] <= Height[c] /\ Height[f] # Height[c]
    <2>1. Height[f] <= Height[c] /\ Height[f] \in Nat /\ Height[c] \in Nat
      BY <1>5, <1>7, ChainOfParent, Tree
    <2>2. Height[f] # Height[c]
      BY <1>2, <1>5, <1>7, ChainBasic, ChainUnique
    <2> QED
      BY <2>1, <2>2
  <1>9. Height[f] + 1 \in Nat /\ Height[f] + 1 <= Height[c]
    BY <1>8, SMTT(30)
  <1>10. PICK d \in Chain[c] : Height[d] = Height[f] + 1
    BY <1>5, <1>9, ChainComplete
  <1>11. d \in Block /\ d # Genesis
    <2>1. d \in Block
      BY <1>5, ChainBasic
    <2>2. Height[d] # 0
      BY <1>8, <1>10, SMTT(30)
    <2> QED
      BY <2>1, <2>2, Tree
  <1>12. Parent[d] \in Chain[c] /\ Height[d] = Height[Parent[d]] + 1 /\ Height[Parent[d]] \in Nat
    BY <1>5, <1>11, ChainBasic, Tree DEF ParentClosed
  <1>13. Height[Parent[d]] = Height[f]
    BY <1>8, <1>10, <1>12, SMTT(30)
  <1>14. Parent[d] = f
    BY <1>2, <1>7, <1>12, <1>13, ChainUnique
  <1>15. d \notin Chain[best]
    <2> SUFFICES ASSUME d \in Chain[best] PROVE FALSE
      OBVIOUS
    <2>1. Height[d] <= Height[f]
      BY <1>3, <1>7, ChainOfParent
    <2> QED
      BY <1>8, <1>10, <2>1, SMTT(30)
  <1>16. Queued(pending, d, 1, Len(pending))
    BY <1>2, <1>7, <1>14, <1>15 DEF LocatorAside
  <1>17. \A i \in 1 .. Len(<<>>) : FALSE
    BY SMTT(30)
  <1> QED
    BY <1>16, <1>17 DEF Queued

(* A callback is done, and what the others connect or end with remains. *)
LEMMA RestOfQueue ==
    ASSUME NEW q \in Seq(Event), q # <<>>
    PROVE  /\ \A d : Queued(q, d, 1, Len(q)) /\ q[1] # Connected(d) => Queued(Tail(q), d, 1, Len(Tail(q)))
           /\ \A e : q[Len(q)] = e /\ q[1] # e => Tail(q) # <<>> /\ Tail(q)[Len(Tail(q))] = e
           /\ Tail(q) # <<>> => Tail(q)[Len(Tail(q))] = q[Len(q)]
           /\ Tail(q) = <<>> => q[Len(q)] = q[1]
  <1>1. /\ Len(q) \in Nat /\ Len(q) >= 1 /\ Len(Tail(q)) = Len(q) - 1 /\ Tail(q) \in Seq(Event)
        /\ \A i \in 1 .. Len(q) - 1 : Tail(q)[i] = q[i + 1]
    BY TailFacts
  <1>2. ASSUME NEW d, Queued(q, d, 1, Len(q)), q[1] # Connected(d)
        PROVE  Queued(Tail(q), d, 1, Len(Tail(q)))
    <2>1. PICK k \in 1 .. Len(q) : q[k] = Connected(d)
      BY <1>2 DEF Queued
    <2>2. k # 1
      BY <1>2, <2>1
    <2>3. k \in 1 + 1 .. Len(q) /\ 1 \in Nat /\ 1 >= 1 /\ Len(q) \in 1 .. Len(q)
      BY <1>1, <2>2, SMTT(30)
    <2>4. Queued(q, d, 1 + 1, Len(q))
      BY <2>1, <2>3 DEF Queued
    <2> QED
      BY <1>1, <2>3, <2>4, QueuedTail
  <1>3. CASE Len(q) = 1
    <2>1. Tail(q) = <<>>
      <3>1. \A s \in Seq(Event) : Len(s) = 0 => s = <<>>
        BY SMTT(60)
      <3>2. Len(Tail(q)) = 0
        BY <1>1, <1>3, SMTT(30)
      <3> QED
        BY <1>1, <3>1, <3>2
    <2> QED
      BY <1>2, <1>3, <2>1
  <1>4. CASE Len(q) # 1
    <2>1. /\ Len(q) - 1 \in 1 .. Len(q) - 1 /\ (Len(q) - 1) + 1 = Len(q) /\ Len(q) - 1 # 0
      BY <1>1, <1>4, SMTT(30)
    <2>2. Tail(q)[Len(Tail(q))] = q[Len(q)]
      BY <1>1, <2>1
    <2>3. Tail(q) # <<>>
      BY <1>1, <2>1
    <2> QED
      BY <1>2, <2>2, <2>3
  <1> QED
    BY <1>3, <1>4

(* What DiskInv says of a database in order. *)
LEMMA DiskFacts ==
    ASSUME IInv, orderly
    PROVE  /\ Covered(Safe) /\ LocatorInv /\ FlushedInv
           /\ best \in Chain[Safe] \cup {NoBlock} \/ (at = "write" /\ best = pindex)
           /\ ~synced /\ at \notin {"loop", "commit"} => LocatorBehind \/ at \in {"aborted", "refused"}
           /\ synced => Safe = best
           /\ ~synced /\ at = "loop" => Safe = pindex
           /\ at \in {"commit", "write"} => ~synced /\ pindex \in Block /\ Safe = Parent[pindex]
  BY DEF IInv, DiskInv, Safe, PlaceInv, TInv, BlockOrNone

(* A step that leaves the index and its database alone. *)
LEMMA QuietDisk ==
    ASSUME IInv, UNCHANGED <<best, synced, at, pindex, due, locator, byHeight, orderly>>,
           orderly /\ LocatorAside => LocatorAside',
           orderly => FlushedInv'
    PROVE  DiskInv'
  <1> SUFFICES ASSUME orderly' PROVE DiskInv'
    BY DEF DiskInv
  <1>1. orderly /\ DiskInv
    BY DEF IInv
  <1>2. Covered(Safe)' /\ Safe' = Safe
    BY <1>1 DEF DiskInv, Covered, Safe
  <1>3. LocatorInv'
    BY <1>1 DEF DiskInv, LocatorInv, LocatorBehind, LocatorDue, LocatorAhead, Covered, Safe
  <1> QED
    BY <1>1, <1>2, <1>3 DEF DiskInv, LocatorBehind

(* The node has not flushed yet. *)
LEMMA NotFlushed ==
    ASSUME stop' # "flushed"
    PROVE  FlushedInv'
  BY DEF FlushedInv

(* The chain moves. *)
LEMMA ChainMovesDisk ==
    ASSUME IInv, InvalidateTip \/ \E b \in Block : ActivateBestChain(b)
    PROVE  DiskInv'
  <1>1. UNCHANGED <<best, synced, at, pindex, due, locator, byHeight, orderly>> /\ stop' # "flushed"
    BY DEF InvalidateTip, ActivateBestChain, thread, db
  <1>2. CASE InvalidateTip
    <2>1. tip \in Block /\ tip' = Parent[tip] /\ pending' = pending
      BY <1>2 DEF InvalidateTip, IInv, TInv, BlockOrNone
    <2>2. Chain[tip'] \subseteq Chain[tip]
      BY <2>1, ChainOfParent
    <2>3. LocatorAside => LocatorAside'
      BY <1>1, <2>1, <2>2 DEF LocatorAside
    <2> QED
      BY <1>1, <2>3, QuietDisk, NotFlushed
  <1>3. ASSUME NEW b \in Block, ActivateBestChain(b) PROVE DiskInv'
    <2>1. tip \in BlockOrNone /\ pending \in Seq(Event) /\ Follows(pending, tip, Len(pending))
      BY DEF IInv, TInv, QueueInv
    <2>2. pending' = pending \o Branch(b) /\ tip' = b
      BY <1>3 DEF ActivateBestChain
    <2> DEFINE a == pending \o Branch(b)
    <2>3. /\ \A x : Queued(pending, x, 1, Len(pending)) => Queued(a, x, 1, Len(a))
          /\ \A x \in Chain[b] \ Chain[tip] : Queued(a, x, 1, Len(a))
      BY <2>1, BranchAppended
    <2>4. pending' = a
      BY <2>2
    <2> HIDE DEF a
    <2>5. LocatorAside => LocatorAside'
      BY <1>1, <2>2, <2>3, <2>4 DEF LocatorAside
    <2> QED
      BY <1>1, <2>5, QuietDisk, NotFlushed
  <1> QED
    BY <1>2, <1>3

(* A callback of another kind is queued, the last one by Shutdown. *)
LEMMA QueuedDisk ==
    ASSUME IInv, UNCHANGED <<best, synced, at, pindex, due, locator, byHeight, orderly, tip>>,
           NEW e \in Event, pending' = Append(pending, e),
           stop' = "flushed" => e = ChainFlushed(tip)
    PROVE  DiskInv'
  <1>1. pending \in Seq(Event)
    BY DEF IInv, TInv
  <1>2. /\ pending' # <<>> /\ pending'[Len(pending')] = e
        /\ Len(pending') = Len(pending) + 1 /\ Len(pending) \in Nat
        /\ \A i \in 1 .. Len(pending) : pending'[i] = pending[i]
    BY SMTT(60), <1>1
  <1>3. \A i \in 1 .. Len(pending) : i \in 1 .. Len(pending')
    BY <1>2, SMTT(30)
  <1>4. ASSUME NEW d, Queued(pending, d, 1, Len(pending)) PROVE Queued(pending', d, 1, Len(pending'))
    BY <1>2, <1>3, <1>4 DEF Queued
  <1>5. LocatorAside => LocatorAside'
    BY <1>4 DEF LocatorAside
  <1>6. FlushedInv'
    BY <1>2 DEF FlushedInv
  <1> QED
    BY <1>5, <1>6, QuietDisk

(* A callback is done that wrote nothing. *)
LEMMA DoneDisk ==
    ASSUME IInv, UNCHANGED <<best, synced, at, pindex, due, locator, byHeight, orderly, tip>>,
           pending # <<>>, pending' = Tail(pending),
           stop' = "flushed" => stop = "flushed",
           orderly /\ LocatorAside => \A d \in Chain[locator] \ Chain[best] :
                                         Parent[d] \in Chain[best] => pending[1] # Connected(d),
           synced /\ pending[1] = ChainFlushed(tip) => tip \notin Chain[best]
    PROVE  DiskInv'
  <1>1. pending \in Seq(Event)
    BY DEF IInv, TInv
  <1>2. orderly /\ LocatorAside => LocatorAside'
    BY <1>1, RestOfQueue DEF LocatorAside
  <1>3. ASSUME orderly PROVE FlushedInv'
    <2> SUFFICES ASSUME stop = "flushed", synced, tip # NoBlock
                 PROVE  \/ pending' # <<>> /\ pending'[Len(pending')] = ChainFlushed(tip)
                        \/ pending' = <<>> /\ tip \notin Chain[best]
      BY DEF FlushedInv
    <2>1. pending[Len(pending)] = ChainFlushed(tip)
      BY <1>3, DiskFacts DEF FlushedInv
    <2>2. CASE pending' # <<>>
      BY <1>1, <2>1, <2>2, RestOfQueue
    <2>3. CASE pending' = <<>>
      <3>1. pending[1] = ChainFlushed(tip)
        BY <1>1, <2>1, <2>3, RestOfQueue
      <3> QED
        BY <2>3, <3>1
    <2> QED
      BY <2>2, <2>3
  <1> QED
    BY <1>2, <1>3, QuietDisk

(* How DiskInv is shown after a step that writes. *)
LEMMA DiskFromBehind ==
    ASSUME Covered(Safe)', LocatorBehind', FlushedInv',
           (best \in Chain[Safe] \cup {NoBlock} \/ (at = "write" /\ best = pindex))'
    PROVE  DiskInv'
  BY DEF DiskInv, LocatorInv

(* What ThreadSync finds in its loop. *)
LEMMA LoopFacts ==
    ASSUME IInv, at = "loop", ~synced
    PROVE  /\ tip \in Block /\ pindex \in BlockOrNone
           /\ LET n == NextSyncBlock(pindex)
              IN  n # NoBlock => /\ n \in Block /\ Parent[n] \in BlockOrNone
                                 /\ Parent[n] # pindex => Parent[n] \in Chain[pindex] /\ Parent[n] # NoBlock
  <1>1. tip \in Block /\ pindex \in BlockOrNone
    BY DEF IInv, EmptyInv, TInv, BlockOrNone
  <1> DEFINE n == NextSyncBlock(pindex)
  <1>2. n # NoBlock => n \in Block /\ Parent[n] = FindFork(pindex)
    BY <1>1, NextSyncBlockIs
  <1>3. FindFork(pindex) \in BlockOrNone /\ Chain[FindFork(pindex)] = Chain[pindex] \cap Chain[tip]
    BY <1>1, ForkIs DEF BlockOrNone
  <1>4. ASSUME FindFork(pindex) # pindex PROVE FindFork(pindex) \in Chain[pindex] /\ FindFork(pindex) # NoBlock
    <2>1. pindex \in Block
      <3> SUFFICES ASSUME pindex = NoBlock PROVE FALSE
        BY <1>1 DEF BlockOrNone
      <3>1. Chain[FindFork(pindex)] = {}
        BY <1>3, ChainOfNone
      <3> QED
        BY <1>3, <1>4, <3>1, ChainBasic DEF BlockOrNone
    <2>2. Genesis \in Chain[FindFork(pindex)]
      BY <1>1, <1>3, <2>1, GenesisOnChain
    <2>3. FindFork(pindex) \in Block
      BY <1>3, <2>2, ChainOfNone DEF BlockOrNone
    <2> QED
      BY <1>3, <2>3, ChainBasic, Tree
  <1> HIDE DEF n
  <1> QED
    BY <1>1, <1>2, <1>3, <1>4 DEF n

(* ThreadSync. *)
LEMMA ThreadDisk ==
    ASSUME IInv, ThreadSync \/ IntervalPasses
    PROVE  DiskInv'
  <1> SUFFICES ASSUME orderly' PROVE DiskInv'
    BY DEF DiskInv
  <1>1. TInv /\ PlaceInv /\ pindex \in BlockOrNone /\ best \in BlockOrNone /\ synced \in BOOLEAN
    BY DEF IInv, TInv
  <1>2. CASE SyncInterrupted
    <2>1. /\ at = "loop" /\ ~synced /\ best' = pindex /\ at' = "done" /\ synced' = synced
          /\ byHeight' = byHeight /\ Commit(pindex)
      BY <1>2 DEF SyncInterrupted, ThreadEnds
    <2>2. orderly /\ locator' = pindex
      BY <2>1, CommitOrderly
    <2>3. Covered(pindex) /\ Safe' = pindex
      BY <2>1, <2>2, DiskFacts DEF Safe
    <2>4. pindex \in Chain[pindex] \cup {NoBlock}
      BY <1>1, ChainBasic DEF BlockOrNone
    <2> QED
      BY <2>1, <2>2, <2>3, <2>4, DiskFromBehind DEF Covered, LocatorBehind, FlushedInv
  <1>3. CASE SyncDone
    <2>1. /\ at = "loop" /\ ~synced /\ stop = "no" /\ best' = pindex /\ at' = "lastcommit" /\ synced'
          /\ UNCHANGED <<byHeight, orderly, stop>>
      BY <1>3 DEF SyncDone, ThreadEnds, db
    <2>2. Covered(pindex) /\ Safe' = pindex
      BY <2>1, DiskFacts DEF Safe
    <2>3. pindex \in Chain[pindex] \cup {NoBlock}
      BY <1>1, ChainBasic DEF BlockOrNone
    <2> QED
      BY <2>1, <2>2, <2>3 DEF DiskInv, Covered, LocatorInv, FlushedInv
  <1>4. CASE LastCommit
    <2>1. /\ at = "lastcommit" /\ at' = "done" /\ Commit(best) /\ synced /\ stop # "flushed"
          /\ UNCHANGED <<best, synced, stop, byHeight>>
      BY <1>1, <1>4 DEF LastCommit, PlaceInv
    <2>2. orderly /\ locator' = best
      BY <2>1, CommitOrderly
    <2>3. Covered(best) /\ Safe' = best
      BY <2>1, <2>2, DiskFacts DEF Safe
    <2>4. best \in Chain[best] \cup {NoBlock}
      BY <1>1, ChainBasic DEF BlockOrNone
    <2> QED
      BY <2>1, <2>2, <2>3, <2>4, DiskFromBehind DEF Covered, LocatorBehind, FlushedInv
  <1>5. CASE SyncNext
    <2>1. /\ at = "loop" /\ ~synced /\ at' = "commit" /\ Parent[pindex'] = pindex
          /\ UNCHANGED <<best, synced, due, locator, byHeight, orderly>>
      BY <1>5 DEF SyncNext, db
    <2>2. /\ Covered(pindex) /\ Safe = pindex /\ best \in Chain[pindex] \cup {NoBlock} /\ Safe' = pindex
          /\ LocatorInv /\ orderly
      BY <2>1, DiskFacts DEF Safe
    <2>3. LocatorBehind \/ LocatorDue
      BY <2>1, <2>2 DEF LocatorInv, LocatorAhead, LocatorAside
    <2>4. LocatorInv'
      BY <2>1, <2>2, <2>3 DEF LocatorInv, LocatorBehind, LocatorDue
    <2> QED
      BY <2>1, <2>2, <2>4 DEF DiskInv, Covered, FlushedInv
  <1>6. CASE SyncRewind
    <2> DEFINE n == NextSyncBlock(pindex)
    <2>1. /\ at = "loop" /\ ~synced /\ n # NoBlock /\ Parent[n] # pindex /\ UNCHANGED <<synced, due>>
          /\ \/ pindex = best /\ Rewind(Parent[n]) /\ pindex' = n /\ at' = "commit"
             \/ RewindFails
             \/ at' = "aborted" /\ UNCHANGED <<best, db, pindex>>
      BY <1>6 DEF SyncRewind, HandOver
    <2>2. n \in Block /\ Parent[n] \in Chain[pindex] /\ Parent[n] # NoBlock /\ Parent[n] \in BlockOrNone
      BY <2>1, LoopFacts
    <2> HIDE DEF n
    <2>3. CASE pindex = best /\ Rewind(Parent[n]) /\ pindex' = n /\ at' = "commit"
      <3>1. best' = Parent[n] /\ locator' = Parent[n] /\ UNCHANGED <<byHeight, orderly>>
        BY <2>2, <2>3 DEF Rewind, Locator
      <3>2. Covered(pindex) /\ Safe' = Parent[n]
        BY <2>1, <2>3, <3>1, DiskFacts DEF Safe
      <3>3. Covered(Parent[n]) /\ Parent[n] \in Chain[Parent[n]]
        BY <1>1, <2>2, <3>2, CoveredBelow, ChainTransitive
      <3> QED
        BY <2>1, <3>1, <3>2, <3>3, DiskFromBehind DEF Covered, LocatorBehind, FlushedInv
    <2>4. CASE RewindFails
      BY <2>4 DEF RewindFails
    <2>5. CASE at' = "aborted" /\ UNCHANGED <<best, db, pindex>>
      <3>1. orderly /\ Safe' = best /\ UNCHANGED <<best, byHeight>>
        BY <2>5 DEF db, Safe
      <3>2. Covered(pindex) /\ best \in Chain[pindex] \cup {NoBlock}
        BY <2>1, <3>1, DiskFacts
      <3>3. Covered(best) /\ best \in Chain[best] \cup {NoBlock}
        BY <1>1, <3>2, CoveredBelow, ChainBasic DEF BlockOrNone
      <3> QED
        BY <2>1, <2>5, <3>1, <3>3 DEF DiskInv, Covered, LocatorInv, FlushedInv
    <2> QED
      BY <2>1, <2>3, <2>4, <2>5
  <1>7. CASE SyncCommit
    <2>1. /\ at = "commit" /\ at' = "write" /\ ~synced /\ pindex \in Block
          /\ UNCHANGED <<synced, pindex, byHeight>>
      BY <1>1, <1>7 DEF SyncCommit, PlaceInv, BlockOrNone
    <2>2. CASE due
      <3>1. best' = pindex /\ locator' = pindex /\ orderly
        BY <1>7, <2>2, CommitOrderly DEF SyncCommit
      <3>2. Covered(Parent[pindex]) /\ Safe' = Parent[pindex]
        BY <2>1, <3>1, DiskFacts DEF Safe
      <3>3. pindex \in Chain[pindex]
        BY <2>1, ChainBasic
      <3> QED
        BY <2>1, <3>1, <3>2, <3>3, DiskFromBehind DEF Covered, LocatorBehind, FlushedInv
    <2>3. CASE ~due
      <3>1. orderly /\ UNCHANGED <<best, locator>>
        BY <1>7, <2>3 DEF SyncCommit
      <3>2. /\ Covered(Parent[pindex]) /\ Safe' = Parent[pindex] /\ Safe = Parent[pindex]
            /\ best \in Chain[Safe] \cup {NoBlock} /\ LocatorInv
        BY <2>1, <3>1, DiskFacts DEF Safe
      <3>3. LocatorBehind
        BY <2>1, <2>3, <3>2 DEF LocatorInv, LocatorDue, LocatorAhead, LocatorAside
      <3> QED
        BY <2>1, <3>1, <3>2, <3>3, DiskFromBehind DEF Covered, LocatorBehind, FlushedInv
    <2> QED
      BY <2>2, <2>3
  <1>8. CASE SyncWrite
    <2>1. at = "write" /\ ~synced /\ pindex \in Block /\ UNCHANGED <<synced, best>>
      BY <1>1, <1>8 DEF SyncWrite, PlaceInv, BlockOrNone
    <2>2. /\ WriteBlock(pindex) /\ at' = "loop" /\ pindex' = pindex
      BY <1>8 DEF SyncWrite, WriteFails
    <2>3. byHeight' = [byHeight EXCEPT ![Height[pindex]] = pindex] /\ UNCHANGED <<locator, orderly>>
      BY <2>2 DEF WriteBlock
    <2>4. /\ Covered(Parent[pindex]) /\ LocatorBehind /\ Safe' = pindex
          /\ best \in Chain[Parent[pindex]] \cup {NoBlock} \/ best = pindex
      BY <2>1, <2>2, <2>3, DiskFacts DEF Safe
    <2>5. \A a \in Chain[pindex] : byHeight'[Height[a]] = a
      BY <1>1, <2>1, <2>3, <2>4, CoveredWritten
    <2>6. best \in Chain[pindex] \cup {NoBlock}
      BY SMTT(60), <2>1, <2>4, ChainOfParent
    <2> QED
      BY <2>1, <2>2, <2>3, <2>4, <2>5, <2>6, DiskFromBehind DEF Covered, LocatorBehind, FlushedInv
  <1>9. CASE SyncNotNeeded
    <2>1. /\ at = "loop" /\ synced /\ at' = "done" /\ UNCHANGED <<tip, pending, best, synced, stop, locator, byHeight, orderly>>
      BY <1>9 DEF SyncNotNeeded, ThreadEnds, chain, db
    <2>2. /\ Covered(best) /\ Safe' = best /\ LocatorInv /\ FlushedInv
      BY <2>1, DiskFacts DEF Safe
    <2>3. best \in Chain[best] \cup {NoBlock}
      BY <1>1, ChainBasic DEF BlockOrNone
    <2>4. LocatorInv' /\ FlushedInv'
      BY <2>1, <2>2 DEF LocatorInv, FlushedInv, LocatorBehind, LocatorDue, LocatorAhead, LocatorAside, Covered
    <2> QED
      BY <2>1, <2>2, <2>3, <2>4 DEF DiskInv, Covered
  <1>10. CASE IntervalPasses
    <2>1. due' = TRUE /\ UNCHANGED <<tip, pending, best, synced, stop, at, pindex, locator, byHeight, orderly>>
      BY <1>10 DEF IntervalPasses, chain, db
    <2>2. DiskInv /\ Safe' = Safe
      BY <2>1 DEF IInv, Safe
    <2>3. LocatorInv => LocatorInv'
      BY <2>1, <2>2 DEF LocatorInv, LocatorBehind, LocatorDue, LocatorAhead, LocatorAside, Covered
    <2> QED
      BY <2>1, <2>2, <2>3 DEF DiskInv, FlushedInv, LocatorBehind, Covered
  <1> QED
    BY <1>2, <1>3, <1>4, <1>5, <1>6, <1>7, <1>8, <1>9, <1>10 DEF ThreadSync

(* An assertion of the caller: m_best_block_index is nullptr. *)
LEMMA NullDisk ==
    ASSUME IInv, NullDereference
    PROVE  DiskInv'
  <1>1. /\ best = NoBlock /\ at' = "aborted"
        /\ UNCHANGED <<tip, pending, best, synced, stop, locator, byHeight, orderly>>
    BY DEF NullDereference, chain, db
  <1>2. Safe' = NoBlock
    BY <1>1 DEF Safe
  <1>3. orderly => FlushedInv'
    BY <1>1, DiskFacts DEF FlushedInv, LocatorBehind
  <1> QED
    BY <1>1, <1>2, <1>3, ChainOfNone DEF DiskInv, Covered, LocatorInv

(* A callback of an index in sync. *)
LEMMA CallbackDisk ==
    ASSUME IInv, Callback
    PROVE  DiskInv'
  <1> SUFFICES ASSUME orderly' PROVE DiskInv'
    BY DEF DiskInv
  <1>1. /\ TInv /\ PlaceInv /\ pending \in Seq(Event) /\ best \in BlockOrNone /\ locator \in BlockOrNone
        /\ tip \in BlockOrNone /\ byHeight[-1] = NoBlock /\ synced \in BOOLEAN
    BY DEF IInv, TInv, PlaceInv
  <1> DEFINE h == pending[1].block
  <1>2. ASSUME Running("BlockConnected")
        PROVE  /\ pending # <<>> /\ pending[1] = Connected(h) /\ Head(pending) = pending[1] /\ h \in Block
               /\ at \notin {"aborted", "refused"} /\ \A b : pending[1] # ChainFlushed(b)
    BY <1>1, <1>2, RunningHead, EventFacts
  <1>3. CASE BlockConnectedIgnored
    <2>1. /\ Running("BlockConnected") /\ pending' = Tail(pending)
          /\ ~synced \/ ~Connects(Head(pending).block)
          /\ UNCHANGED <<best, synced, at, pindex, due, locator, byHeight, orderly, tip>>
      BY <1>3 DEF BlockConnectedIgnored, chain, thread, db
    <2>2. stop' = "flushed" => stop = "flushed"
      BY <1>3 DEF BlockConnectedIgnored, Fatal
    <2>3. ASSUME LocatorAside, NEW d \in Chain[locator], Parent[d] \in Chain[best] PROVE pending[1] # Connected(d)
      <3>1. synced /\ ~Connects(h)
        BY <1>2, <2>1, <2>3 DEF LocatorAside
      <3>2. h # d
        BY <2>3, <3>1 DEF Connects
      <3> QED
        BY <1>2, <2>1, <3>2, EventFacts
    <2> QED
      BY <1>2, <2>1, <2>2, <2>3, DoneDisk
  <1>4. CASE BlockConnectedRewind
    <2>1. /\ Running("BlockConnected") /\ synced /\ CsMainFree /\ Connects(Head(pending).block)
          /\ best # Parent[Head(pending).block] /\ UNCHANGED <<tip, synced, at, pindex>>
          /\ Rewind(Parent[Head(pending).block]) /\ UNCHANGED <<pending, stop>>
      BY <1>4 DEF BlockConnectedRewind, RewindFails, chain, thread
    <2>2. h \in Block /\ Connects(h) /\ best # Parent[h] /\ Rewind(Parent[h])
      BY <1>2, <2>1
    <2>3. Parent[h] # NoBlock
      <3> SUFFICES ASSUME Parent[h] = NoBlock PROVE FALSE
        OBVIOUS
      <3>1. h = Genesis
        BY <2>2, Tree
      <3>2. 1 \in DOMAIN pending
        BY <1>1, <1>2, <2>1, TailFacts, SMTT(30)
      <3>3. best = NoBlock
        BY <1>2, <2>1, <3>1, <3>2 DEF IInv, EmptyInv
      <3> QED
        BY <2>2, <3>3
    <2>4. Parent[h] \in Chain[best] /\ best' = Parent[h] /\ locator' = Parent[h] /\ UNCHANGED <<byHeight, orderly>>
      BY <2>2, <2>3 DEF Connects, Rewind, Locator
    <2>5. Covered(best) /\ FlushedInv
      BY <2>1, <2>4, DiskFacts
    <2>6. Covered(Parent[h]) /\ Parent[h] \in Chain[Parent[h]]
      BY <1>1, <2>4, <2>5, CoveredBelow, ChainTransitive
    <2>7. Safe' = Parent[h]
      BY <1>1, <2>1, <2>4 DEF Safe, PlaceInv
    <2>8. FlushedInv'
      BY <1>2, <2>1, <2>5 DEF FlushedInv
    <2> HIDE DEF h
    <2> QED
      BY <2>1, <2>4, <2>6, <2>7, <2>8, DiskFromBehind DEF Covered, LocatorBehind
  <1>5. CASE BlockConnected
    <2>1. /\ Running("BlockConnected") /\ synced /\ best = Parent[h] /\ pending' = Tail(pending)
          /\ UNCHANGED <<tip, synced, at, pindex, due>>
          /\ \/ WriteBlock(h) /\ best' = h /\ UNCHANGED stop
             \/ WriteFails(h, "block") /\ Fatal /\ UNCHANGED best
      BY <1>2, <1>5 DEF BlockConnected, chain, thread
    <2>2. h \in Block /\ h # NoBlock /\ Chain[h] = Chain[best] \cup {h} /\ h \in BlockOrNone
      BY <1>2, <2>1, ChainOfParent, Tree DEF BlockOrNone
    <2>3. CASE WriteBlock(h) /\ best' = h /\ UNCHANGED stop
      <3>1. byHeight' = [byHeight EXCEPT ![Height[h]] = h] /\ UNCHANGED <<locator, orderly>>
        BY <2>3 DEF WriteBlock
      <3>2. Covered(best) /\ FlushedInv /\ LocatorInv /\ Safe' = h
        BY <1>1, <2>1, <2>3, <3>1, DiskFacts DEF Safe, PlaceInv
      <3>3. \A a \in Chain[h] : byHeight'[Height[a]] = a
        BY <1>1, <2>1, <2>2, <3>1, <3>2, CoveredWritten
      <3>4. FlushedInv'
        <4> SUFFICES ASSUME stop = "flushed", tip # NoBlock
                     PROVE  Tail(pending) # <<>> /\ Tail(pending)[Len(Tail(pending))] = ChainFlushed(tip)
          BY <2>1, <2>3 DEF FlushedInv
        <4>1. pending[Len(pending)] = ChainFlushed(tip)
          BY <1>2, <2>1, <3>2 DEF FlushedInv
        <4> QED
          BY <1>1, <1>2, <2>1, <4>1, RestOfQueue
      <3>5. LocatorInv'
        <4>1. ASSUME h \notin Chain[locator] PROVE LocatorAside'
          <5>1. Follows(pending, tip, Len(pending))
            BY DEF IInv, QueueInv
          <5>2. Len(pending) \in 1 .. Len(pending) /\ Len(Tail(pending)) = Len(pending) - 1
            BY <1>1, <1>2, <2>1, TailFacts, SMTT(30)
          <5>3. Behind(Tail(pending), h, tip, Len(Tail(pending)))
            BY <1>1, <1>2, <2>1, <5>1, <5>2, BehindConnected, EventFacts
          <5> QED
            BY <2>1, <2>2, <2>3, <3>1, <4>1, <5>3 DEF LocatorAside, Behind
        <4>2. CASE LocatorBehind
          BY <2>2, <2>3, <3>1, <4>2 DEF LocatorInv, LocatorBehind
        <4>3. CASE LocatorAhead
          <5>1. CASE h \in Chain[locator]
            <6>1. \A a \in Chain[locator] : byHeight'[Height[a]] = a
              BY <1>1, <2>2, <3>1, <4>3, <5>1, CoveredWritten DEF LocatorAhead
            <6> QED
              BY <2>1, <2>3, <3>1, <5>1, <6>1 DEF LocatorInv, LocatorAhead, Covered
          <5> QED
            BY <4>1, <5>1 DEF LocatorInv
        <4>4. CASE LocatorAside
          <5>1. best # NoBlock /\ best \notin Chain[locator]
            BY <4>4 DEF LocatorAside
          <5>2. h # Genesis
            BY <2>1, <5>1, Tree
          <5>3. h \notin Chain[locator]
            <6> SUFFICES ASSUME h \in Chain[locator] PROVE FALSE
              OBVIOUS
            <6>1. locator \in Block
              BY <1>1, ChainOfNone DEF BlockOrNone
            <6> QED
              BY <2>1, <5>1, <5>2, <6>1, ChainBasic DEF ParentClosed
          <5> QED
            BY <4>1, <5>3 DEF LocatorInv
        <4> QED
          BY <1>2, <2>1, <3>2, <4>2, <4>3, <4>4 DEF LocatorInv, LocatorDue
      <3>6. h \in Chain[h]
        BY <2>2
      <3> HIDE DEF h
      <3> QED
        BY <2>1, <2>3, <3>2, <3>3, <3>4, <3>5, <3>6 DEF DiskInv, Covered
    <2>4. CASE WriteFails(h, "block") /\ Fatal /\ UNCHANGED best
      <3>1. UNCHANGED <<locator, byHeight, orderly, best>> /\ (stop' = "flushed" => stop = "flushed")
        BY <1>1, <2>4 DEF WriteFails, Fatal, TInv
      <3>2. ASSUME LocatorAside, NEW d \in Chain[locator], Parent[d] \in Chain[best] PROVE pending[1] # Connected(d)
        <4> SUFFICES ASSUME d = h PROVE FALSE
          BY <1>2, <2>1, EventFacts
        <4>1. best # NoBlock /\ best \notin Chain[locator] /\ locator \in Block
          BY <1>1, <3>2, ChainOfNone DEF LocatorAside, BlockOrNone
        <4>2. h # Genesis
          BY <2>1, <4>1, Tree
        <4> QED
          BY <2>1, <3>2, <4>1, <4>2, ChainBasic DEF ParentClosed
      <3> QED
        BY <1>2, <2>1, <3>1, <3>2, DoneDisk
    <2> QED
      BY <2>1, <2>3, <2>4
  <1>6. CASE ChainStateFlushed
    <2>1. CASE NullDereference
      BY <2>1, NullDisk
    <2>2. CASE ~NullDereference
      <3>1. /\ pending # <<>> /\ Head(pending) = pending[1]
        BY <1>1, <1>6, RunningHead DEF ChainStateFlushed
      <3>2. /\ pending' = Tail(pending)
            /\ UNCHANGED <<tip, best, synced, stop, at, pindex, due, byHeight>>
            /\ \/ synced /\ Commit(best)
               \/ UNCHANGED <<locator, orderly>> /\ (synced => pending[1].block \notin Chain[best])
        BY <1>6, <2>2, <3>1 DEF ChainStateFlushed, chain, thread
      <3>3. CASE synced /\ Commit(best)
        <4>1. orderly /\ locator' = best
          BY <3>3, CommitOrderly
        <4>2. Covered(best) /\ FlushedInv /\ Safe' = best
          BY <1>1, <3>2, <3>3, <4>1, DiskFacts DEF Safe, PlaceInv
        <4>3. best \in Chain[best] \cup {NoBlock}
          BY <1>1, ChainBasic DEF BlockOrNone
        <4>4. LocatorBehind'
          BY <3>2, <4>1, <4>3 DEF LocatorBehind
        <4>5. FlushedInv'
          <5>1. CASE Tail(pending) = <<>>
            BY <3>2, <4>4, <5>1 DEF FlushedInv
          <5>2. CASE Tail(pending) # <<>>
            <6>1. Tail(pending)[Len(Tail(pending))] = pending[Len(pending)]
              BY <1>1, <3>1, <5>2, RestOfQueue
            <6> QED
              BY <3>1, <3>2, <4>2, <5>2, <6>1 DEF FlushedInv
          <5> QED
            BY <5>1, <5>2
        <4> QED
          BY <3>2, <4>2, <4>3, <4>4, <4>5, DiskFromBehind DEF Covered
      <3>4. CASE UNCHANGED <<locator, orderly>> /\ (synced => pending[1].block \notin Chain[best])
        <4>1. pending[1].type = "ChainStateFlushed"
          BY <1>1, <1>6, RunningHead DEF ChainStateFlushed
        <4>2. \A d : pending[1] # Connected(d)
          BY <4>1, EventFacts
        <4>3. synced /\ pending[1] = ChainFlushed(tip) => tip \notin Chain[best]
          BY SMTT(60), <3>4, EventFacts
        <4> QED
          BY <3>1, <3>2, <3>4, <4>2, <4>3, DoneDisk
      <3> QED
        BY <3>2, <3>3, <3>4
    <2> QED
      BY <2>1, <2>2
  <1>7. CASE ReachBarrier
    <2>1. /\ pending # <<>> /\ pending[1].type = "barrier"
      BY <1>1, <1>7, RunningHead DEF ReachBarrier
    <2>2. /\ \A d : pending[1] # Connected(d) /\ pending[1] # ChainFlushed(d)
      BY <2>1, EventFacts
    <2>3. /\ pending' = Tail(pending) /\ stop' = stop
          /\ UNCHANGED <<best, synced, at, pindex, due, locator, byHeight, orderly, tip>>
      BY <1>7 DEF ReachBarrier, chain, thread, db
    <2> QED
      BY <2>1, <2>2, <2>3, DoneDisk
  <1> QED
    BY <1>3, <1>4, <1>5, <1>6, <1>7 DEF Callback

(* A start after an orderly shutdown: what the locator leads to is covered. *)
LEMMA ShutdownDisk ==
    ASSUME IInv, Shutdown
    PROVE  DiskInv'
  <1> SUFFICES ASSUME orderly' PROVE DiskInv'
    BY DEF DiskInv
  <1> DEFINE from == FindForkInGlobalIndex(tip, locator)
  <1>1. /\ stop = "flushed" /\ pending = <<>> /\ at \in {"done", "failed"} /\ Start(tip, locator)
        /\ UNCHANGED <<locator, byHeight, orderly>>
    BY DEF Shutdown, Restart
  <1>2. /\ TInv /\ tip \in BlockOrNone /\ locator \in BlockOrNone /\ best \in BlockOrNone /\ synced \in BOOLEAN
    BY DEF IInv, TInv
  <1>3. /\ stop' = "no" /\ at' \in {"loop", "refused"} /\ due' = TRUE /\ tip' = tip
        /\ best' = from /\ pindex' = from /\ synced' = (from = tip)
        /\ from = NoBlock \/ from \in Chain[locator] \cap Chain[tip]
        /\ ~synced' => tip # NoBlock
    BY <1>1, <1>2, StartType
  <1>4. from \in BlockOrNone /\ from \in Chain[from] \cup {NoBlock}
    BY <1>2, <1>3, ChainTransitive, ChainBasic DEF BlockOrNone
  <1> HIDE DEF from
  <1>5. /\ Safe = best /\ Covered(best) /\ LocatorInv /\ FlushedInv /\ at \notin {"lastcommit", "aborted", "refused"}
        /\ ~synced => LocatorBehind
    BY <1>1, DiskFacts DEF Safe
  <1>6. LocatorBehind \/ LocatorAhead \/ LocatorAside
    BY <1>1, <1>5 DEF LocatorInv, LocatorDue
  <1>7. LocatorBehind => Covered(locator)
    BY <1>2, <1>5, CoveredBelow DEF LocatorBehind
  <1>8. Covered(from)
    <2>1. CASE Covered(locator)
      BY <1>2, <1>3, <2>1, CoveredBelow
    <2>2. CASE LocatorAside
      BY <1>1, <1>2, <1>3, <1>5, <2>2, AsideApart, CoveredBelow
    <2> QED
      BY <1>6, <1>7, <2>1, <2>2 DEF LocatorAhead
  <1>9. Safe' = from /\ Covered(Safe)'
    BY <1>1, <1>3, <1>8 DEF Safe, Covered
  <1>10. LocatorInv'
    <2>1. CASE ~synced'
      BY <1>3, <1>9, <2>1 DEF LocatorInv, LocatorDue
    <2>2. CASE synced' /\ tip = NoBlock
      <3>1. best = NoBlock
        BY <2>2 DEF IInv, EmptyInv
      <3>2. LocatorBehind
        <4>1. CASE LocatorAhead
          BY <1>2, <3>1, <4>1, ChainBasic, ChainOfNone, Tree DEF LocatorAhead, BlockOrNone, LocatorBehind
        <4> QED
          BY <1>6, <3>1, <4>1 DEF LocatorAside
      <3> QED
        BY <1>1, <3>1, <3>2, ChainOfNone DEF LocatorBehind, LocatorInv
    <2>3. CASE synced' /\ tip # NoBlock
      <3>1. from = tip /\ tip \in Chain[locator] \cap Chain[tip]
        BY <1>3, <2>3
      <3>2. Covered(locator)
        <4>1. CASE LocatorBehind
          BY <1>7, <4>1
        <4>2. CASE LocatorAhead
          BY <4>2 DEF LocatorAhead
        <4>3. CASE LocatorAside /\ ~LocatorBehind
          <5>1. tip \in Chain[best]
            BY <1>1, <1>2, <3>1, <4>3, AsideApart
          <5> QED
            BY <1>1, <1>5, <2>3, <4>3, <5>1 DEF FlushedInv, LocatorAside
        <4> QED
          BY <1>6, <4>1, <4>2, <4>3
      <3> QED
        BY <1>1, <1>3, <2>3, <3>1, <3>2 DEF LocatorInv, LocatorAhead, Covered
    <2> QED
      BY <2>1, <2>2, <2>3
  <1> QED
    BY <1>3, <1>4, <1>9, <1>10, NotFlushed DEF DiskInv

(* The other starts: after a crash the database is not known to be in       *)
(* order, and after a reindexing it is empty.                               *)
LEMMA StartDisk ==
    ASSUME IInv, Shutdown \/ Crash \/ Reindex
    PROVE  DiskInv'
  <1>1. CASE Shutdown
    BY <1>1, ShutdownDisk
  <1>2. CASE Crash
    BY <1>2 DEF Crash, DiskInv
  <1>3. CASE Reindex
    <2>1. Start(NoBlock, NoBlock) /\ locator' = NoBlock /\ NoBlock \in BlockOrNone
      BY <1>3 DEF Reindex, BlockOrNone
    <2>2. best' = NoBlock /\ pindex' = NoBlock /\ stop' = "no" /\ at' \in {"loop", "refused"}
      BY <2>1, StartType, ChainOfNone
    <2>3. Safe' = NoBlock
      BY <2>2 DEF Safe
    <2>4. FlushedInv' /\ LocatorBehind' /\ Covered(Safe)'
      BY <2>1, <2>2, <2>3, NotFlushed, ChainOfNone DEF LocatorBehind, Covered
    <2> QED
      BY <2>2, <2>4, DiskFromBehind
  <1> QED
    BY <1>1, <1>2, <1>3

LEMMA DiskStep == IInv /\ [Next]_vars => DiskInv'
  <1> SUFFICES ASSUME IInv, [Next]_vars PROVE DiskInv'
    OBVIOUS
  <1>1. TInv /\ pending \in Seq(Event) /\ tip \in BlockOrNone
    BY DEF IInv, TInv
  <1>2. CASE FlushStateToDisk \/ (ForceFlushStateToDisk /\ tip # NoBlock)
    <2>1. /\ UNCHANGED <<best, synced, at, pindex, due, locator, byHeight, orderly, tip>>
          /\ pending' = Append(pending, ChainFlushed(tip)) /\ tip # NoBlock
      BY <1>2 DEF FlushStateToDisk, ForceFlushStateToDisk, thread, db
    <2>2. ChainFlushed(tip) \in Event
      BY <1>1, <2>1, Zenon DEF Event, BlockOrNone
    <2> QED
      BY <2>1, <2>2, QueuedDisk
  <1>3. CASE ForceFlushStateToDisk /\ tip = NoBlock
    <2>1. UNCHANGED <<best, synced, at, pindex, due, locator, byHeight, orderly, tip, pending>>
      BY <1>3 DEF ForceFlushStateToDisk, thread, db
    <2>2. FlushedInv' /\ (LocatorAside => LocatorAside')
      BY <1>3, <2>1 DEF FlushedInv, LocatorAside
    <2> QED
      BY <2>1, <2>2, QuietDisk
  <1>4. CASE Interrupt
    <2>1. UNCHANGED <<best, synced, at, pindex, due, locator, byHeight, orderly, tip, pending>> /\ stop' = "asked"
      BY <1>4 DEF Interrupt, thread, db, chain
    <2>2. FlushedInv' /\ (LocatorAside => LocatorAside')
      BY <2>1, NotFlushed DEF LocatorAside
    <2> QED
      BY <2>1, <2>2, QuietDisk
  <1>5. CASE BlockUntilSyncedToCurrentChain
    <2>1. CASE NullDereference
      BY <2>1, NullDisk
    <2>2. CASE ~NullDereference
      <3>1. /\ UNCHANGED <<best, synced, at, pindex, due, locator, byHeight, orderly, tip, pending, stop>>
            /\ stop' # "flushed"
        BY <1>5, <2>2 DEF BlockUntilSyncedToCurrentChain, thread, db, chain
      <3>2. FlushedInv' /\ (LocatorAside => LocatorAside')
        BY <3>1, NotFlushed DEF LocatorAside
      <3> QED
        BY <3>1, <3>2, QuietDisk
    <2> QED
      BY <2>1, <2>2
  <1>9. CASE SyncWithValidationInterfaceQueue
    <2>1. looked /\ stop # "flushed"
      BY <1>9 DEF SyncWithValidationInterfaceQueue, IInv, LookedInv
    <2>2. /\ UNCHANGED <<best, synced, at, pindex, due, locator, byHeight, orderly, tip>>
          /\ pending' = Append(pending, Barrier) /\ stop' # "flushed"
      BY <1>9, <2>1 DEF SyncWithValidationInterfaceQueue, thread, db, chain
    <2>3. Barrier \in Event
      BY DEF Event
    <2> QED
      BY <2>2, <2>3, QueuedDisk
  <1>6. CASE UNCHANGED vars
    <2>1. UNCHANGED <<best, synced, at, pindex, due, locator, byHeight, orderly, tip, pending, stop>>
      BY <1>6 DEF vars, thread, db, chain
    <2>2. (orderly => FlushedInv') /\ (LocatorAside => LocatorAside')
      BY <2>1, DiskFacts DEF LocatorAside, FlushedInv, LocatorBehind
    <2> QED
      BY <2>1, <2>2, QuietDisk
  <1> QED
    BY <1>2, <1>3, <1>4, <1>5, <1>6, <1>9, ChainMovesDisk, ThreadDisk, CallbackDisk, StartDisk DEF Next
-----------------------------------------------------------------------------
(* The caller between its look at the tip and its wait. *)
LEMMA LookedStep == IInv /\ [Next]_vars => LookedInv'
  <1> SUFFICES ASSUME IInv, [Next]_vars PROVE LookedInv'
    OBVIOUS
  <1>1. LookedInv /\ tip \in BlockOrNone /\ asked \in BlockOrNone
    BY DEF IInv, TInv
  <1>2. ASSUME looked' = FALSE PROVE LookedInv'
    BY <1>2 DEF LookedInv
  <1>3. ASSUME UNCHANGED <<looked, asked, synced, tip>>, stop' = "flushed" => stop = "flushed" PROVE LookedInv'
    BY <1>1, <1>3 DEF LookedInv
  <1>4. Fatal => (stop' = "flushed" => stop = "flushed")
    BY DEF Fatal
  <1>5. CASE \E b \in Block : ActivateBestChain(b)
    <2>1. tip' # NoBlock /\ UNCHANGED <<looked, asked, synced, stop>>
      BY <1>5, Tree DEF ActivateBestChain
    <2> QED
      BY <1>1, <2>1 DEF LookedInv
  <1>6. CASE InvalidateTip
    <2>1. tip' # NoBlock /\ UNCHANGED <<looked, asked, synced, stop>>
      BY <1>1, <1>6, Tree DEF InvalidateTip, BlockOrNone
    <2> QED
      BY <1>1, <2>1 DEF LookedInv
  <1>7. CASE FlushStateToDisk
    BY <1>3, <1>7 DEF FlushStateToDisk
  <1>8. CASE BlockUntilSyncedToCurrentChain
    <2>1. CASE NullDereference
      BY <1>3, <2>1 DEF NullDereference, chain
    <2>2. CASE ~NullDereference
      <3>1. looked' = TRUE /\ synced /\ tip # NoBlock /\ asked = NoBlock /\ stop = "no"
            /\ UNCHANGED <<asked, synced, tip, stop>>
        BY <1>8, <2>2 DEF BlockUntilSyncedToCurrentChain, chain
      <3> QED
        BY <3>1 DEF LookedInv
    <2> QED
      BY <2>1, <2>2
  <1>9. CASE SyncWithValidationInterfaceQueue
    BY <1>2, <1>9 DEF SyncWithValidationInterfaceQueue
  <1>10. CASE Interrupt
    BY <1>3, <1>10 DEF Interrupt, chain
  <1>11. CASE ForceFlushStateToDisk
    <2>1. looked' = FALSE
      BY <1>1, <1>11 DEF ForceFlushStateToDisk, LookedInv
    <2> QED
      BY <1>2, <2>1
  <1>12. CASE Shutdown \/ Crash \/ Reindex
    BY <1>2, <1>12 DEF Shutdown, Crash, Reindex, Restart, Start
  <1>13. CASE IntervalPasses \/ LastCommit \/ SyncNotNeeded \/ SyncNext \/ SyncCommit
    BY <1>3, <1>13 DEF IntervalPasses, LastCommit, SyncNotNeeded, SyncNext, SyncCommit, chain
  <1>14. CASE SyncInterrupted
    BY <1>3, <1>14 DEF SyncInterrupted, chain
  <1>15. CASE SyncDone
    BY <1>1, <1>15 DEF SyncDone, chain, LookedInv
  <1>16. CASE SyncRewind
    BY <1>3, <1>4, <1>16 DEF SyncRewind, chain
  <1>17. CASE SyncWrite
    BY <1>3, <1>4, <1>17 DEF SyncWrite, chain
  <1>18. CASE BlockConnectedIgnored \/ BlockConnectedRewind \/ BlockConnected
    BY <1>3, <1>4, <1>18 DEF BlockConnectedIgnored, BlockConnectedRewind, BlockConnected, chain
  <1>19. CASE ChainStateFlushed
    BY <1>3, <1>19 DEF ChainStateFlushed, NullDereference, chain
  <1>20. CASE ReachBarrier
    BY <1>1, <1>20 DEF ReachBarrier, chain, LookedInv
  <1>21. CASE UNCHANGED vars
    BY <1>3, <1>21 DEF vars, chain
  <1> QED
    BY <1>5, <1>6, <1>7, <1>8, <1>9, <1>10, <1>11, <1>12, <1>13, <1>14, <1>15, <1>16, <1>17, <1>18, <1>19,
       <1>20, <1>21 DEF Next, ThreadSync, Callback

LEMMA StepInv == IInv /\ [Next]_vars => IInv'
  BY TypeStep, PlaceStep, FlowStep, LookedStep, DiskStep DEF IInv, FlowInv

LEMMA IInvAlways == Spec => []IInv
  <1> QED
    BY InitInv, StepInv, PTL DEF Spec
-----------------------------------------------------------------------------
(* What the invariant says of the types. *)
LEMMA TypesHold ==
    ASSUME IInv
    PROVE  TypeOK
  <1>1. TInv /\ PlaceInv /\ pending \in Seq(Event)
    BY DEF IInv, TInv
  <1>2. \A i \in DOMAIN pending : pending[i] \in Event
    BY SMTT(60), <1>1
  <1>3. \A i \in DOMAIN pending :
          pending[i] = Barrier \/ \E b \in Block : pending[i] \in {Connected(b), ChainFlushed(b)}
    BY <1>2, Zenon DEF Event
  <1>4. at \in (Places \ {"fresh"}) \cup {"aborted", "refused"}
    BY <1>1 DEF TInv, Places
  <1> QED
    BY <1>1, <1>3, <1>4 DEF TypeOK, IInv, TInv, PlaceInv, LookedInv

(* A block whose parent's chain is in the database can be written. *)
LEMMA CoveredFits ==
    ASSUME IInv, NEW b \in Block, Covered(Parent[b])
    PROVE  CanWrite(b)
  <1>1. Height[b] - 1 = Height[Parent[b]]
    <2>1. /\ Height[b] \in Nat /\ Height[b] = Height[Parent[b]] + 1
          /\ Height[Parent[b]] \in Int
      BY Tree
    <2> QED
      BY <2>1, SMTT(30)
  <1>2. CASE b = Genesis
    BY <1>1, <1>2, Tree DEF CanWrite, IInv, PlaceInv
  <1>3. CASE b # Genesis
    BY <1>1, <1>3, Tree, ChainBasic DEF CanWrite, Covered
  <1> QED
    BY <1>2, <1>3

(* The index is sound: as long as no write but one of BlockConnected failed *)
(* and the process did not die, the height index holds every block up to    *)
(* m_best_block_index, also after Shutdown and Init, and WriteBlock never   *)
(* meets the header of an unexpected block, neither in ThreadSync nor in    *)
(* BlockConnected.                                                          *)
THEOREM IndexIsSound == Spec => []IndexSound
  <1>1. ASSUME IInv PROVE IndexSound
    <2>1. TypeOK
      BY <1>1, TypesHold
    <2>2. ASSUME orderly
          PROVE  /\ Covered(Safe)
                 /\ best \in Chain[Safe] \cup {NoBlock} \/ (at = "write" /\ best = pindex)
                 /\ synced => Safe = best
                 /\ at \in {"commit", "write"} => ~synced /\ pindex \in Block /\ Safe = Parent[pindex]
      BY <1>1, <2>2, DiskFacts
    <2>3. Safe \in BlockOrNone /\ best \in BlockOrNone
      BY <1>1, Tree DEF IInv, TInv, PlaceInv, Safe, BlockOrNone
    <2>4. IndexedUpToBest
      <3> SUFFICES ASSUME orderly
                   PROVE  Covered(IF at = "write" /\ best = pindex THEN Parent[best] ELSE best)
        BY DEF IndexedUpToBest
      <3>1. CASE at = "write" /\ best = pindex
        BY <2>2, <3>1
      <3>2. CASE ~(at = "write" /\ best = pindex)
        <4>1. Covered(best)
          BY <2>2, <2>3, <3>2, CoveredBelow
        <4> QED
          BY <3>2, <4>1
      <3> QED
        BY <3>1, <3>2
    <2>5. NextWriteFits
      <3> SUFFICES ASSUME orderly
                   PROVE  /\ at = "write" => CanWrite(pindex)
                          /\ Running("BlockConnected") /\ synced /\ best = Parent[Head(pending).block]
                                => CanWrite(Head(pending).block)
        BY DEF NextWriteFits
      <3>1. ASSUME at = "write" PROVE CanWrite(pindex)
        BY <1>1, <2>2, <3>1, CoveredFits
      <3>2. ASSUME Running("BlockConnected"), synced, best = Parent[Head(pending).block]
            PROVE  CanWrite(Head(pending).block)
        <4>1. Head(pending).block \in Block
          BY <1>1, <3>2, RunningHead, EventFacts DEF IInv, TInv
        <4> QED
          BY <1>1, <2>2, <3>2, <4>1, CoveredFits
      <3> QED
        BY <3>1, <3>2
    <2> QED
      BY <2>1, <2>4, <2>5 DEF IndexSound
  <1> QED
    BY <1>1, IInvAlways, PTL

(* The hand-over from ThreadSync to the callbacks loses no block: an index  *)
(* in sync whose queue is empty has reached the tip, unless the node stops. *)
THEOREM HandOverLosesNothing == Spec => []CaughtUpWhenDrained
  <1>1. ASSUME IInv PROVE CaughtUpWhenDrained
    <2> SUFFICES ASSUME synced, pending = <<>>, stop = "no" PROVE Chain[tip] \subseteq Chain[best]
      BY DEF CaughtUpWhenDrained
    <2>1. Behind(pending, best, tip, Len(pending))
      BY <1>1 DEF IInv, QueueInv
    <2>2. 1 .. Len(pending) = {}
      BY SMTT(30)
    <2> QED
      BY <2>1, <2>2 DEF Behind, Queued
  <1> QED
    BY <1>1, IInvAlways, PTL

(* BlockUntilSyncedToCurrentChain keeps its promise: when the callback that *)
(* it waits for runs, every block that the chain had when the wait began is *)
(* in the height index, unless the node stops; whatever the chain did since *)
(* the call looked at its tip.                                              *)
THEOREM PromiseIsKept == Spec => PromiseKept
  <1>1. ASSUME IInv, [Next]_vars, ReachBarrier, stop = "no", orderly
        PROVE  Covered(asked)
    <2>1. /\ pending # <<>> /\ pending[1].type = "barrier" /\ pending \in Seq(Event)
      BY <1>1, RunningHead DEF ReachBarrier, IInv, TInv
    <2>2. 1 \in DOMAIN pending /\ 1 - 1 = 0 /\ 1 .. 0 = {}
      BY <2>1, TailFacts, SMTT(30)
    <2>3. synced /\ Behind(pending, best, asked, 0)
      BY <1>1, <2>1, <2>2 DEF IInv, BarrierInv, IsBarrier
    <2>4. Chain[asked] \subseteq Chain[best]
      BY <2>2, <2>3 DEF Behind, Queued
    <2>5. Covered(best)
      BY <1>1, <2>3, DiskFacts
    <2> QED
      BY <2>4, <2>5 DEF Covered
  <1>2. IInv /\ [Next]_vars => [ReachBarrier /\ stop = "no" /\ orderly => Covered(asked)]_vars
    BY <1>1
  <1> QED
    BY <1>2, IInvAlways, PTL DEF Spec, PromiseKept
=============================================================================
