-------------------------- MODULE ChainstateProofs --------------------------
(***************************************************************************)
(* Chainstate, for every tree of blocks. First the facts about the tree    *)
(* that the proofs use; that the model is well typed and its active chain  *)
(* valid. Then the failure flags and links of the block index: a flag has  *)
(* a cause, a block with the data of its chain is linked, one that waits   *)
(* is queued; invalidateblock marks its target, and a restart finds every  *)
(* candidate. Then setBlockIndexCandidates and the choice of the tip: the  *)
(* candidates are complete and sound whenever cs_main is free, the tip is  *)
(* the best block at rest, and no round ends with a worse tip than it      *)
(* began with.                                                             *)
(***************************************************************************)
EXTENDS Chainstate, WellFoundedInduction, FiniteSetTheorems, TLAPS

\* The leaves are small, but the definitions they rest on are not. Those that Zenon
\* does not settle soon name SMT.
USE ZenonT(10), SMTT(60)

(* Facts about the tree that need no state. *)

(* Sets of naturals have a least element. *)
LEMMA LeastNatural ==
    ASSUME NEW T, T \subseteq Nat, T # {}
    PROVE  \E x \in T : \A y \in T : x <= y
  <1> DEFINE R == OpToRel(<, Nat)
  <1>1. IsWellFoundedOn(R, Nat)
    BY NatLessThanWellFounded, Zenon
  <1>2. \A x, y \in Nat : y < x => <<y, x>> \in R
    BY DEF OpToRel
  <1> HIDE DEF R
  <1>3. PICK x \in T : \A y \in T : ~(<<y, x>> \in R)
    BY <1>1, WFMin
  <1>4. ASSUME NEW y \in T PROVE x <= y
    <2>1. x \in Nat /\ y \in Nat /\ ~(<<y, x>> \in R)
      BY <1>3
    <2>2. ~(y < x)
      BY <1>2, <2>1
    <2> QED
      BY SMTT(60), <2>1, <2>2
  <1> QED
    BY <1>4

(* The ancestors of a block: it is one, they are closed under Parent, and   *)
(* they lie in every closed set that holds the block.                       *)
LEMMA AncestorsBasic ==
    ASSUME NEW b \in Block
    PROVE  /\ Ancestors[b] \subseteq Block
           /\ b \in Ancestors[b]
           /\ ParentClosed(Ancestors[b])
           /\ \A S \in SUBSET Block : b \in S /\ ParentClosed(S) => Ancestors[b] \subseteq S
  <1>1. Ancestors[b] = {a \in Block : \A S \in SUBSET Block : b \in S /\ ParentClosed(S) => a \in S}
    BY DEF Ancestors
  <1>2. ASSUME NEW x \in Ancestors[b] \ {Genesis}
        PROVE  Parent[x] \in Ancestors[b]
    <2>1. Parent[x] \in Block
      BY <1>1, TreeAssumption
    <2>2. ASSUME NEW S \in SUBSET Block, b \in S, ParentClosed(S)
          PROVE  Parent[x] \in S
      BY <1>1, <2>2 DEF ParentClosed
    <2> QED
      BY <1>1, <2>1, <2>2
  <1>3. ParentClosed(Ancestors[b])
    BY <1>2 DEF ParentClosed
  <1> QED
    BY <1>1, <1>3

(* Being an ancestor is transitive. *)
LEMMA AncestorsTransitive ==
    ASSUME NEW b \in Block, NEW a \in Ancestors[b]
    PROVE  a \in Block /\ Ancestors[a] \subseteq Ancestors[b]
  BY AncestorsBasic

(* Genesis has no other ancestor, any other block those of its parent. *)
LEMMA AncestorsOfParent ==
    /\ Ancestors[Genesis] = {Genesis}
    /\ \A b \in Block \ {Genesis} : /\ Parent[b] \in Block
                                    /\ Ancestors[b] = Ancestors[Parent[b]] \cup {b}
  <1>1. Ancestors[Genesis] = {Genesis}
    <2>1. {Genesis} \in SUBSET Block /\ ParentClosed({Genesis}) /\ Genesis \in Block
      BY TreeAssumption DEF ParentClosed
    <2> QED
      BY SMTT(60), <2>1, AncestorsBasic
  <1>2. ASSUME NEW b \in Block \ {Genesis}
        PROVE  Parent[b] \in Block /\ Ancestors[b] = Ancestors[Parent[b]] \cup {b}
    <2>1. Parent[b] \in Block
      BY TreeAssumption
    <2>2. ParentClosed(Ancestors[Parent[b]] \cup {b})
      BY <2>1, AncestorsBasic DEF ParentClosed
    <2>3. Ancestors[b] \subseteq Ancestors[Parent[b]] \cup {b}
      BY SMTT(60), <2>1, <2>2, AncestorsBasic
    <2>4. Parent[b] \in Ancestors[b]
      BY AncestorsBasic DEF ParentClosed
    <2>5. Ancestors[Parent[b]] \subseteq Ancestors[b]
      BY <2>4, AncestorsTransitive
    <2> QED
      BY SMTT(60), <2>1, <2>3, <2>5, AncestorsBasic
  <1> QED
    BY <1>1, <1>2

(* An ancestor is not higher, so no block is an ancestor of its parent. *)
LEMMA AncestorsHeight ==
    /\ \A b \in Block : \A a \in Ancestors[b] : Height[a] <= Height[b]
    /\ \A b \in Block \ {Genesis} : b \notin Ancestors[Parent[b]]
  <1>1. ASSUME NEW b \in Block, NEW a \in Ancestors[b]
        PROVE  Height[a] <= Height[b]
    <2> DEFINE S == {x \in Block : Height[x] <= Height[b]}
    <2>1. Height \in [Block -> Nat] /\ Parent \in [Block \ {Genesis} -> Block]
      BY TreeAssumption
    <2>2. ParentClosed(S)
      <3> SUFFICES ASSUME NEW x \in S \ {Genesis} PROVE Parent[x] \in S
        BY DEF ParentClosed
      <3>1. Height[x] = Height[Parent[x]] + 1 /\ Parent[x] \in Block
        BY TreeAssumption
      <3>2. Height[x] \in Nat /\ Height[Parent[x]] \in Nat /\ Height[b] \in Nat
        BY <2>1, <3>1
      <3> QED
        BY SMTT(60), <3>1, <3>2
    <2>3. b \in S
      BY SMTT(60), <2>1
    <2> QED
      BY <2>2, <2>3, AncestorsBasic
  <1>2. ASSUME NEW b \in Block \ {Genesis}
        PROVE  b \notin Ancestors[Parent[b]]
    <2>1. /\ Parent[b] \in Block /\ Height[b] = Height[Parent[b]] + 1
          /\ Height[b] \in Nat /\ Height[Parent[b]] \in Nat
      BY TreeAssumption
    <2> QED
      BY SMTT(60), <1>1, <2>1
  <1> QED
    BY <1>1, <1>2

(* Every block descends from Genesis: the lowest of its ancestors has no    *)
(* parent below it.                                                         *)
LEMMA GenesisIsAncestor ==
    ASSUME NEW b \in Block
    PROVE  Genesis \in Ancestors[b]
  <1> DEFINE H == {Height[a] : a \in Ancestors[b]}
  <1>1. H \subseteq Nat /\ H # {}
    BY SMTT(60), AncestorsBasic, TreeAssumption
  <1>2. PICK h \in H : \A k \in H : h <= k
    BY <1>1, LeastNatural
  <1>3. PICK a \in Ancestors[b] : Height[a] = h
    OBVIOUS
  <1>4. CASE a = Genesis
    BY <1>4
  <1>5. CASE a # Genesis
    <2>1. a \in Block \ {Genesis} /\ Parent[a] \in Ancestors[b] /\ Parent[a] \in Block
      BY <1>5, AncestorsBasic, TreeAssumption DEF ParentClosed
    <2>2. Height[a] = Height[Parent[a]] + 1 /\ Height[Parent[a]] \in Nat
      BY <2>1, TreeAssumption
    <2>3. h <= Height[Parent[a]]
      BY <1>2, <2>1
    <2> QED
      BY SMTT(60), <1>3, <2>2, <2>3
  <1> QED
    BY <1>4, <1>5
-----------------------------------------------------------------------------
(* Type correctness. TypeOK is not inductive: disconnecting a block leaves  *)
(* the tip among the linked blocks only because they are closed under       *)
(* Parent and because Genesis is never disconnected.                        *)
TInv == /\ TypeOK
        /\ Genesis \in linked
        /\ ParentClosed(index) /\ ParentClosed(linked)
        /\ pc = "inv" => target # Genesis

(* The constants, in the form the proofs use. *)
LEMMA Constants ==
    /\ Genesis \in Block /\ NoBlock \notin Block
    /\ \A b \in Block \ {Genesis} : Parent[b] \in Block
    /\ \A b \in Block : ChainWork[b] \in Nat
    /\ MinSequenceId \in Int /\ MinSequenceId <= -1
    /\ BadBlock \subseteq Block \ {Genesis} /\ BadConnect \subseteq Block \ {Genesis}
  BY TreeAssumption, ParameterAssumption

(* What a closed set of blocks contains. *)
LEMMA ClosedSet ==
    ASSUME NEW S \in SUBSET Block, ParentClosed(S)
    PROVE  \A b \in S : /\ Ancestors[b] \subseteq S
                        /\ b # Genesis => Parent[b] \in S
  BY AncestorsBasic DEF ParentClosed

(* The initial state is well typed. *)
LEMMA InitType == Init => TInv
  <1> SUFFICES ASSUME Init PROVE TInv
    OBVIOUS
  <1>1. validity \in [Block -> {VALID_UNKNOWN, VALID_TREE, VALID_TRANSACTIONS, VALID_SCRIPTS}]
    BY DEF Init
  <1>2. seqId \in [Block -> Int] /\ nextSeqId \in Nat /\ reverseSeqId \in MinSequenceId .. -1 /\ lastPreciousWork \in Nat
    BY SMTT(60), Constants DEF Init
  <1>3. TypeOK
    BY <1>1, <1>2, Constants DEF Init, TypeOK
  <1> QED
    BY <1>3 DEF Init, TInv, ParentClosed

(* A step that leaves the index and the links alone. *)
LEMMA SameIndex ==
    ASSUME TInv, TypeOK', UNCHANGED <<index, linked>>, pc' = "inv" => target' # Genesis
    PROVE  TInv'
  BY DEF TInv, ParentClosed

(* A known block with a known parent keeps the index closed. *)
LEMMA GrownIndex ==
    ASSUME TInv, TypeOK', NEW b \in Block \ {Genesis}, Parent[b] \in index, index' = index \cup {b},
           UNCHANGED <<linked, pc, target>>
    PROVE  TInv'
  BY DEF TInv, ParentClosed

(* A new header has its parent in the index. *)
LEMMA AcceptBlockHeaderType ==
    ASSUME TInv, NEW b \in Block \ {Genesis}, AcceptBlockHeader(b)
    PROVE  TInv'
  <1>1. Parent[b] \in index /\ index' = index \cup {b} /\ UNCHANGED <<linked, pc, target>>
    BY DEF AcceptBlockHeader, HeaderAccepted, HeaderConnects, abcVars, invVars
  <1>2. TypeOK'
    BY DEF AcceptBlockHeader, TInv, TypeOK, BestHeaderWith, VALID_UNKNOWN, VALID_TREE,
       VALID_TRANSACTIONS, VALID_SCRIPTS, seqVars, tipVars, abcVars, invVars
  <1> QED
    BY <1>1, <1>2, GrownIndex

(* The blocks AcceptBlockHeader marks are in the index. *)
LEMMA RejectFailedDescendantType ==
    ASSUME TInv, NEW b \in Block \ {Genesis}, RejectFailedDescendant(b)
    PROVE  TInv'
  <1>1. Ancestors[Parent[b]] \subseteq index
    BY ClosedSet DEF RejectFailedDescendant, HeaderConnects, TInv, TypeOK
  <1>2. failedChild' \subseteq index
    BY <1>1 DEF RejectFailedDescendant, TInv, TypeOK
  <1>3. TypeOK' /\ UNCHANGED <<index, linked, pc, target>>
    BY <1>2 DEF RejectFailedDescendant, TInv, TypeOK, seqVars, tipVars, abcVars, invVars
  <1> QED
    BY <1>3, SameIndex DEF TInv

(* A block ContextualCheckBlock rejects gets no data. *)
LEMMA AcceptBadBlockType ==
    ASSUME TInv, NEW b \in Block \ {Genesis}, AcceptBadBlock(b)
    PROVE  TInv'
  <1>1. Parent[b] \in index /\ index' = index \cup {b} /\ UNCHANGED <<linked, pc, target>>
    BY DEF AcceptBadBlock, BlockWanted, HeaderAccepted, HeaderConnects, abcVars, invVars, TInv, ParentClosed
  <1>2. TypeOK'
    BY DEF AcceptBadBlock, TInv, TypeOK, BestHeaderWith, VALID_UNKNOWN, VALID_TREE,
       VALID_TRANSACTIONS, VALID_SCRIPTS, seqVars, tipVars, abcVars, invVars
  <1> QED
    BY <1>1, <1>2, GrownIndex

(* The blocks ReceivedBlockTransactions links: they have their data, and    *)
(* the linked blocks stay closed under Parent.                              *)
LEMMA NowLinkedClosed ==
    ASSUME TInv, NEW b \in Block \ {Genesis}, Parent[b] \in linked
    PROVE  /\ NowLinked(b) \subseteq unlinked \cup {b} /\ NowLinked(b) \subseteq Block
           /\ ParentClosed(linked \cup NowLinked(b))
  <1> DEFINE L == NowLinked(b)
  <1>1. linked \subseteq Block /\ unlinked \subseteq Block /\ ParentClosed(linked)
    BY DEF TInv, TypeOK
  <1>2. L \subseteq unlinked \cup {b} /\ L \subseteq Block
    BY <1>1 DEF NowLinked
  <1>3. Ancestors[b] \subseteq linked \cup {b}
    BY <1>1, ClosedSet, AncestorsOfParent
  <1>4. b \in L
    BY AncestorsBasic DEF NowLinked
  <1>5. ASSUME NEW x \in L, x # b, x # Genesis
        PROVE  Parent[x] \in linked \cup L
    <2>1. x \in unlinked /\ b \in Ancestors[x] /\ Ancestors[x] \ Ancestors[b] \subseteq unlinked
      BY <1>5 DEF NowLinked
    <2>2. x \in Block /\ Parent[x] \in Block /\ Ancestors[x] = Ancestors[Parent[x]] \cup {x}
      BY <1>1, <1>5, <2>1, AncestorsOfParent
    <2>3. b \in Ancestors[Parent[x]]
      BY <1>5, <2>1, <2>2
    <2>4. CASE Parent[x] \in Ancestors[b]
      BY <1>3, <1>4, <2>4
    <2>5. CASE Parent[x] \notin Ancestors[b]
      <3>1. Parent[x] \in Ancestors[Parent[x]]
        BY <2>2, AncestorsBasic
      <3> QED
        BY <2>1, <2>2, <2>3, <2>5, <3>1 DEF NowLinked
    <2> QED
      BY <2>4, <2>5
  <1>6. ParentClosed(linked \cup L)
    BY <1>1, <1>5 DEF ParentClosed
  <1> QED
    BY <1>2, <1>6

(* AcceptBlock links blocks together with their ancestors. *)
LEMMA AcceptBlockType ==
    ASSUME TInv, NEW b \in Block \ {Genesis}, AcceptBlock(b)
    PROVE  TInv'
  <1>1. /\ Parent[b] \in index /\ index' = index \cup {b} /\ haveData' = haveData \cup {b}
        /\ validity' = [validity EXCEPT ![b] = VALID_TRANSACTIONS]
        /\ bestHeader' \in {b, bestHeader} /\ pending' = TRUE
        /\ UNCHANGED <<failedValid, failedChild, failedBlocks, reverseSeqId, lastPreciousWork, addr,
                       tip, coinsBest, pc, mostWork, startTip, oldTip, target, toMark, byWork, seen, shutdown>>
    BY DEF AcceptBlock, BlockWanted, HeaderAccepted, HeaderConnects, BestHeaderWith, tipVars, abcVars, invVars,
       TInv, ParentClosed
  <1>2. validity' \in [Block -> {VALID_UNKNOWN, VALID_TREE, VALID_TRANSACTIONS, VALID_SCRIPTS}]
    BY <1>1 DEF TInv, TypeOK
  <1>3. ParentClosed(index')
    BY <1>1 DEF TInv, ParentClosed
  <1>4. CASE Parent[b] \in linked
    <2> DEFINE L == NowLinked(b)
    <2>1. /\ linked' = linked \cup L /\ unlinked' = unlinked \ L
          /\ nextSeqId' = nextSeqId + Cardinality(L)
          /\ candidates' \subseteq candidates \cup L
      BY <1>4 DEF AcceptBlock
    <2>2. PICK ids \in [L -> nextSeqId .. nextSeqId + Cardinality(L) - 1] :
              seqId' = [x \in Block |-> IF x \in L THEN ids[x] ELSE seqId[x]]
      BY <1>4 DEF AcceptBlock
    <2>3. L \subseteq unlinked \cup {b} /\ L \subseteq Block /\ ParentClosed(linked \cup L)
      BY <1>4, NowLinkedClosed
    <2> HIDE DEF L
    <2>4. Cardinality(L) \in Nat
      BY <2>3, TreeAssumption, FS_Subset, FS_CardinalityType
    <2>5. nextSeqId \in Nat /\ seqId \in [Block -> Int]
      BY DEF TInv, TypeOK
    <2>6. nextSeqId' \in Nat
      BY SMTT(60), <2>1, <2>4, <2>5
    <2>7. seqId' \in [Block -> Int]
      BY SMTT(60), <2>2, <2>4, <2>5
    <2>8. TypeOK'
      BY <1>1, <1>2, <2>1, <2>3, <2>6, <2>7 DEF TInv, TypeOK
    <2> QED
      BY <1>1, <1>3, <2>1, <2>3, <2>8 DEF TInv
  <1>5. CASE Parent[b] \notin linked
    <2>1. unlinked' \subseteq unlinked \cup {b} /\ UNCHANGED <<linked, seqId, nextSeqId, candidates>>
      BY <1>5 DEF AcceptBlock, QueuedBehind
    <2>2. TypeOK'
      BY <1>1, <1>2, <2>1 DEF TInv, TypeOK
    <2> QED
      BY <1>1, <1>3, <2>1, <2>2 DEF TInv
  <1> QED
    BY <1>4, <1>5

(* The start and the end of a call, and of a round, of ActivateBestChain. *)
LEMMA RoundType ==
    ASSUME TInv, StartActivate \/ LockRound \/ BeginStep \/ NothingToDo \/ ReadError \/ RequestShutdown
    PROVE  TInv'
  <1>1. TypeOK' /\ UNCHANGED <<index, linked>> /\ (pc' = "inv" => target' # Genesis)
    <2>1. CASE StartActivate
      BY <2>1 DEF StartActivate, TInv, TypeOK, indexVars, seqVars, tipVars, invVars
    <2>2. CASE LockRound
      BY <2>2 DEF LockRound, TInv, TypeOK, indexVars, seqVars, tipVars, invVars
    <2>3. CASE BeginStep
      BY <2>3, Constants DEF BeginStep, IsBestCandidate, TInv, TypeOK, indexVars, seqVars, tipVars, invVars
    <2>4. CASE NothingToDo
      BY <2>4 DEF NothingToDo, TInv, TypeOK, indexVars, seqVars, tipVars, invVars
    <2>5. CASE ReadError
      BY <2>5 DEF ReadError, TInv, TypeOK, indexVars, seqVars, tipVars, invVars
    <2>6. CASE RequestShutdown
      BY <2>6 DEF RequestShutdown, TInv, TypeOK, indexVars, seqVars, tipVars, abcVars, invVars
    <2> QED
      BY <2>1, <2>2, <2>3, <2>4, <2>5, <2>6
  <1> QED
    BY <1>1, SameIndex

(* FindMostWorkChain touches only ancestors of a linked block. *)
LEMMA DropCandidateType ==
    ASSUME TInv, DropCandidate
    PROVE  TInv'
  <1>1. PICK c \in candidates : \E x \in Unusable(c) :
            /\ candidates' \subseteq candidates
            /\ failedChild' \subseteq failedChild \cup Above(c, x)
            /\ unlinked' \subseteq unlinked \cup Above(c, x)
    BY DEF DropCandidate
  <1>2. \A x : Above(c, x) \subseteq Ancestors[c]
    BY DEF Above, Branch
  <1>3. Ancestors[c] \subseteq linked
    BY ClosedSet DEF TInv, TypeOK
  <1>4. TypeOK' /\ UNCHANGED <<index, linked, pc, target>>
    BY <1>1, <1>2, <1>3 DEF DropCandidate, TInv, TypeOK, seqVars, tipVars, abcVars, invVars
  <1> QED
    BY <1>4, SameIndex DEF TInv

(* A block that is not on every chain is not Genesis, and its parent is     *)
(* linked when it is.                                                       *)
LEMMA TipParent ==
    ASSUME TInv, (mostWork \in Block /\ tip \notin Ancestors[mostWork]) \/ (target # Genesis /\ InChain(target))
    PROVE  tip \in Block \ {Genesis} /\ Parent[tip] \in linked
  <1>1. tip \in linked /\ linked \subseteq Block /\ ParentClosed(linked)
    BY DEF TInv, TypeOK
  <1>2. tip # Genesis
    BY GenesisIsAncestor, AncestorsOfParent DEF InChain
  <1> QED
    BY <1>1, <1>2, ClosedSet

(* The parent of a disconnected block is linked. *)
LEMMA DisconnectStepType ==
    ASSUME TInv, DisconnectStep
    PROVE  TInv'
  <1>1. mostWork \in Block
    BY DEF DisconnectStep, TInv, TypeOK
  <1>2. Parent[tip] \in linked
    BY <1>1, TipParent DEF DisconnectStep
  <1>3. TypeOK' /\ UNCHANGED <<index, linked, pc, target>>
    BY <1>2 DEF DisconnectStep, DisconnectTip, TInv, TypeOK, indexVars, seqVars, abcVars, invVars
  <1> QED
    BY <1>3, SameIndex DEF TInv

(* RaiseValidity keeps validity a function to validity levels. *)
LEMMA RaiseValidityType ==
    ASSUME TypeOK, NEW b \in Block
    PROVE  RaiseValidity(b, VALID_SCRIPTS) \in
               [Block -> {VALID_UNKNOWN, VALID_TREE, VALID_TRANSACTIONS, VALID_SCRIPTS}]
  BY DEF RaiseValidity, TypeOK

(* EndStep stays within the types. *)
LEMMA EndStepType ==
    ASSUME NEW t, NEW m, EndStep(t, m)
    PROVE  /\ pc' \in {"find", "abc", "idle"}
           /\ mostWork' \in {m, NoBlock}
  BY DEF EndStep

(* The blocks on the way to pindexMostWork are linked. *)
LEMMA NextIsLinked ==
    ASSUME TInv, pc = "step", NEW b, NextToConnect(b)
    PROVE  b \in linked /\ b \in Block \ {Genesis} /\ Parent[b] = tip /\ b \in Ancestors[mostWork]
  BY ClosedSet DEF TInv, TypeOK, NextToConnect

(* ConnectTip moves the tip to a linked block. *)
LEMMA ConnectStepType ==
    ASSUME TInv, ConnectStep
    PROVE  TInv'
  <1>1. PICK b \in Block \ BadConnect :
          /\ NextToConnect(b)
          /\ tip' = b /\ coinsBest' = b
          /\ validity' = RaiseValidity(b, VALID_SCRIPTS)
          /\ candidates' = PruneBlockIndexCandidates(candidates, seqId, addr, b)
          /\ EndStep(b, mostWork) \/ UNCHANGED <<pc, mostWork>>
    BY DEF ConnectStep
  <1>2. b \in linked
    BY <1>1, NextIsLinked DEF ConnectStep
  <1>3. validity' \in [Block -> {VALID_UNKNOWN, VALID_TREE, VALID_TRANSACTIONS, VALID_SCRIPTS}]
    BY <1>1, RaiseValidityType DEF TInv
  <1>4. candidates' \subseteq candidates
    BY <1>1 DEF PruneBlockIndexCandidates
  <1>5. /\ pc' \in {"find", "abc", "idle", "step"} /\ mostWork' \in {mostWork, NoBlock}
        /\ pc' = "step" => mostWork' = mostWork
    BY <1>1, EndStepType DEF ConnectStep
  <1>6. TypeOK' /\ UNCHANGED <<index, linked>> /\ pc' # "inv"
    BY <1>1, <1>2, <1>3, <1>4, <1>5 DEF ConnectStep, TInv, TypeOK, seqVars, invVars
  <1> QED
    BY <1>6, SameIndex

(* The block InvalidBlockFound marks is in the index. *)
LEMMA ConnectFailsType ==
    ASSUME TInv, ConnectFails
    PROVE  TInv'
  <1>1. PICK b \in BadConnect :
          /\ NextToConnect(b)
          /\ failedValid' = failedValid \cup {b}
          /\ failedBlocks' = failedBlocks \cup {b}
          /\ candidates' = candidates \ {b}
          /\ bestHeader' \in {bestHeader, tip}
    BY DEF ConnectFails, BestHeaderWithout
  <1>2. b \in linked
    BY <1>1, NextIsLinked DEF ConnectFails
  <1>3. pc' \in {"find", "abc", "idle"} /\ mostWork' = NoBlock
    BY EndStepType DEF ConnectFails
  <1>4. TypeOK' /\ UNCHANGED <<index, linked>> /\ pc' # "inv"
    BY <1>1, <1>2, <1>3 DEF ConnectFails, TInv, TypeOK, seqVars, tipVars, invVars
  <1> QED
    BY <1>4, SameIndex

(* After a failed flush the coins are at a linked block. *)
LEMMA FlushErrorType ==
    ASSUME TInv, FlushError
    PROVE  TInv'
  <1>1. /\ coinsBest' \in linked
        /\ validity' \in [Block -> {VALID_UNKNOWN, VALID_TREE, VALID_TRANSACTIONS, VALID_SCRIPTS}]
    <2>1. CASE tip \notin Ancestors[mostWork] /\ coinsBest' = Parent[tip] /\ validity' = validity
      BY <2>1, TipParent DEF FlushError, TInv, TypeOK
    <2>2. ASSUME NEW b \in Block \ BadConnect, NextToConnect(b), coinsBest' = b,
                 validity' = RaiseValidity(b, VALID_SCRIPTS)
          PROVE  /\ coinsBest' \in linked
                 /\ validity' \in [Block -> {VALID_UNKNOWN, VALID_TREE, VALID_TRANSACTIONS, VALID_SCRIPTS}]
      BY <2>2, NextIsLinked, RaiseValidityType DEF FlushError, TInv
    <2> QED
      BY <2>1, <2>2 DEF FlushError
  <1>2. TypeOK' /\ UNCHANGED <<index, linked>> /\ pc' # "inv"
    BY <1>1 DEF FlushError, TInv, TypeOK, seqVars, invVars
  <1> QED
    BY <1>2, SameIndex

(* InvalidateBlock is not begun for the genesis block. *)
LEMMA StartInvalidateType ==
    ASSUME TInv, NEW b \in Block \ {Genesis}, StartInvalidate(b)
    PROVE  TInv'
  <1>1. TypeOK' /\ UNCHANGED <<index, linked>> /\ target' # Genesis
    BY DEF StartInvalidate, TInv, TypeOK, indexVars, seqVars, tipVars
  <1> QED
    BY <1>1, SameIndex

(* InvalidateBlock does not disconnect the genesis block. *)
LEMMA InvalidateTipType ==
    ASSUME TInv, InvalidateTip
    PROVE  TInv'
  <1>1. Parent[tip] \in linked
    BY TipParent DEF InvalidateTip, InvalidateGoesOn, TInv
  <1>2. /\ tip' = Parent[tip] /\ coinsBest' = Parent[tip]
        /\ failedValid' \subseteq failedValid \cup {tip} /\ failedChild' \subseteq failedChild \cup {toMark}
        /\ candidates' \subseteq candidates \cup {Parent[tip]} \cup byWork
        /\ byWork' \subseteq byWork /\ toMark' = tip
    BY DEF InvalidateTip, DisconnectTip
  <1>3. TypeOK' /\ UNCHANGED <<index, linked, pc, target>>
    BY <1>1, <1>2 DEF InvalidateTip, TInv, TypeOK, seqVars, abcVars
  <1> QED
    BY <1>3, SameIndex DEF TInv

(* Nor when the disk fails. *)
LEMMA InvalidateErrorType ==
    ASSUME TInv, InvalidateError
    PROVE  TInv'
  <1>1. Parent[tip] \in linked
    BY TipParent DEF InvalidateError, InvalidateGoesOn, TInv
  <1>2. TypeOK' /\ UNCHANGED <<index, linked>> /\ pc' # "inv"
    BY <1>1 DEF InvalidateError, TInv, TypeOK, indexVars, seqVars
  <1> QED
    BY <1>2, SameIndex

(* The end of InvalidateBlock completes the candidates with linked blocks. *)
LEMMA FinishInvalidateType ==
    ASSUME TInv, FinishInvalidate
    PROVE  TInv'
  <1>1. /\ failedValid' \subseteq failedValid \cup {toMark} /\ failedBlocks' \subseteq failedBlocks \cup {toMark}
        /\ candidates' \subseteq candidates \cup linked /\ bestHeader' \in {bestHeader, tip}
    BY DEF FinishInvalidate, CompletedWithout, BestHeaderWithout
  <1>2. TypeOK' /\ UNCHANGED <<index, linked>> /\ pc' # "inv"
    BY <1>1 DEF FinishInvalidate, TInv, TypeOK, seqVars, tipVars
  <1> QED
    BY <1>2, SameIndex

(* A failed assertion changes nothing but pc. *)
LEMMA AssertionFailsType ==
    ASSUME TInv, AssertionFails
    PROVE  TInv'
  <1>1. TypeOK' /\ UNCHANGED <<index, linked>> /\ pc' # "inv"
    BY DEF AssertionFails, TInv, TypeOK, indexVars, seqVars, tipVars, invVars
  <1> QED
    BY <1>1, SameIndex

(* ResetBlockFailureFlags makes only linked blocks candidates. *)
LEMMA ReconsiderBlockType ==
    ASSUME TInv, NEW b \in Block, ReconsiderBlock(b)
    PROVE  TInv'
  <1>1. /\ failedValid' \subseteq failedValid /\ failedChild' \subseteq failedChild
        /\ failedBlocks' \subseteq failedBlocks /\ candidates' \subseteq candidates \cup linked
    BY DEF ReconsiderBlock, ClearedFailedBlocks
  <1>2. TypeOK' /\ UNCHANGED <<index, linked, pc, target>>
    BY <1>1 DEF ReconsiderBlock, TInv, TypeOK, seqVars, tipVars, abcVars, invVars
  <1> QED
    BY <1>2, SameIndex DEF TInv

(* The counter of PreciousBlock stops at its minimum. *)
LEMMA PreciousBlockType ==
    ASSUME TInv, NEW b \in Block, PreciousBlock(b)
    PROVE  TInv'
  <1> DEFINE id == IF ChainWork[tip] > lastPreciousWork THEN -1 ELSE reverseSeqId
  <1>1. MinSequenceId \in Int /\ id \in MinSequenceId .. -1
    BY SMTT(60), Constants DEF TInv, TypeOK
  <1>2. /\ seqId' = [seqId EXCEPT ![b] = id] /\ reverseSeqId' = Decremented(id)
        /\ candidates' \subseteq candidates \cup linked
        /\ lastPreciousWork' = ChainWork[tip] /\ pending' = TRUE
        /\ UNCHANGED <<indexVars, nextSeqId, addr, tipVars, bestHeader, abcVars, invVars, shutdown>>
    BY DEF PreciousBlock, PruneBlockIndexCandidates
  <1> HIDE DEF id
  <1>3. reverseSeqId' \in MinSequenceId .. -1
    BY SMTT(60), <1>1, <1>2 DEF Decremented
  <1>4. seqId' \in [Block -> Int]
    BY SMTT(60), <1>1, <1>2 DEF TInv, TypeOK
  <1>5. lastPreciousWork' \in Nat
    BY <1>2, Constants DEF TInv, TypeOK
  <1>6. TypeOK' /\ UNCHANGED <<index, linked, pc, target>>
    BY <1>2, <1>3, <1>4, <1>5 DEF TInv, TypeOK, indexVars, tipVars, abcVars, invVars
  <1> QED
    BY <1>6, SameIndex DEF TInv

(* LoadBlockIndex links every block that was linked. *)
LEMMA RestartType ==
    ASSUME TInv, Restart
    PROVE  TInv'
  <1> DEFINE all == {b \in haveData : Ancestors[b] \subseteq haveData}
  <1>1. /\ failedChild' \subseteq index /\ linked' = all /\ unlinked' = haveData \ all
        /\ seqId' = [b \in Block |-> 0] /\ nextSeqId' = 1 /\ reverseSeqId' = -1 /\ lastPreciousWork' = 0
        /\ candidates' \subseteq all /\ bestHeader' \in index /\ addr' \in Layouts
        /\ failedBlocks' = {} /\ tip' = coinsBest /\ pending' = TRUE /\ shutdown' = FALSE
        /\ UNCHANGED <<index, validity, haveData, failedValid, coinsBest, abcVars, invVars>>
    BY DEF Restart, PruneBlockIndexCandidates, TInv, TypeOK
  <1>2. linked \subseteq all
    BY ClosedSet DEF TInv, TypeOK
  <1>3. ParentClosed(all)
    <2> SUFFICES ASSUME NEW x \in all \ {Genesis} PROVE Parent[x] \in all
      BY DEF ParentClosed
    <2>1. x \in Block
      BY DEF TInv, TypeOK
    <2>2. Parent[x] \in Block /\ Ancestors[x] = Ancestors[Parent[x]] \cup {x}
      BY <2>1, AncestorsOfParent
    <2>3. Parent[x] \in Ancestors[Parent[x]]
      BY <2>2, AncestorsBasic
    <2> QED
      BY <2>2, <2>3
  <1> HIDE DEF all
  <1>4. all \subseteq haveData
    BY DEF all
  <1>5. seqId' \in [Block -> Int] /\ nextSeqId' \in Nat /\ reverseSeqId' \in MinSequenceId .. -1 /\ lastPreciousWork' \in Nat
    BY SMTT(60), <1>1, Constants
  <1>6. TypeOK'
    BY <1>1, <1>2, <1>4, <1>5 DEF TInv, TypeOK, abcVars, invVars
  <1> QED
    BY <1>1, <1>2, <1>3, <1>6 DEF TInv, abcVars, invVars

(* Every step keeps the types. *)
LEMMA StepType == TInv /\ [Next]_vars => TInv'
  <1> SUFFICES ASSUME TInv, [Next]_vars PROVE TInv'
    OBVIOUS
  <1>1. CASE Activate
    BY <1>1, RoundType, DropCandidateType, DisconnectStepType, ConnectStepType, ConnectFailsType DEF Activate
  <1>2. CASE ReadError \/ FlushError \/ AssertionFails \/ RequestShutdown \/ Restart
    BY <1>2, RoundType, FlushErrorType, AssertionFailsType, RestartType
  <1>3. CASE InvalidateTip \/ InvalidateError \/ FinishInvalidate
    BY <1>3, InvalidateTipType, InvalidateErrorType, FinishInvalidateType
  <1>4. ASSUME NEW b \in Block \ {Genesis},
               \/ AcceptBlockHeader(b) \/ RejectFailedDescendant(b) \/ AcceptBadBlock(b) \/ AcceptBlock(b)
               \/ StartInvalidate(b)
        PROVE  TInv'
    BY <1>4, AcceptBlockHeaderType, RejectFailedDescendantType, AcceptBadBlockType, AcceptBlockType,
       StartInvalidateType
  <1>5. ASSUME NEW b \in Block, ReconsiderBlock(b) \/ PreciousBlock(b)
        PROVE  TInv'
    BY <1>5, ReconsiderBlockType, PreciousBlockType
  <1>6. CASE UNCHANGED vars
    BY <1>6 DEF vars, indexVars, seqVars, tipVars, abcVars, invVars, TInv, TypeOK, ParentClosed
  <1> QED
    BY <1>1, <1>2, <1>3, <1>4, <1>5, <1>6 DEF Next

(* Every reachable state is well typed, whatever the tree, the order in     *)
(* which its blocks arrive, the RPCs in use and the errors of the disk: in  *)
(* particular the tip, the coins' block and all candidates are linked, and  *)
(* nBlockReverseSequenceId does not pass the end of its range.              *)
THEOREM TypeCorrect == Spec => []TypeOK
  <1>1. TInv => TypeOK
    BY DEF TInv
  <1> QED
    BY <1>1, InitType, StepType, PTL DEF Spec
-----------------------------------------------------------------------------
(* The active chain is valid, unless the operator invalidates blocks while  *)
(* the disk fails: a block that a failed flush left in the coins database   *)
(* can be marked before the node goes down, and is the tip after it.        *)
NoInvalidationOnBadDisk == DiskMayFail => "invalidateblock" \notin Operator

Connected(b) == ~Failed(b) /\ (b # Genesis => validity[b] = VALID_SCRIPTS /\ b \notin BadConnect)

(* ActiveChainValid is not inductive: the chain the coins are at becomes    *)
(* the active one at a restart, the chain to pindexMostWork, chosen in an   *)
(* earlier round, is connected without looking at its flags again, and      *)
(* AcceptBlockHeader marks what descends from m_failed_blocks.              *)
CInv == /\ TInv
        /\ DiskMayFail \/ coinsBest = tip
        /\ pc = "inv" => "invalidateblock" \in Operator
        /\ haveData \cap BadBlock = {}
        /\ failedBlocks \subseteq failedValid
        /\ \A b \in Ancestors[tip] \cup Ancestors[coinsBest] : Connected(b)
        /\ pc \in {"abc", "find", "step"} /\ mostWork # NoBlock => \A b \in Ancestors[mostWork] : ~Failed(b)

(* The chains CInv is about have their data. *)
LEMMA ChainsLinked ==
    ASSUME TInv
    PROVE  /\ tip \in Block /\ coinsBest \in Block
           /\ Ancestors[tip] \subseteq linked /\ Ancestors[coinsBest] \subseteq linked
           /\ mostWork # NoBlock => mostWork \in Block /\ Ancestors[mostWork] \subseteq linked
           /\ linked \subseteq haveData /\ haveData \subseteq index /\ index \subseteq Block
  BY ClosedSet DEF TInv, TypeOK

(* A step that moves nothing and marks only the blocks N, which are on none *)
(* of these chains.                                                         *)
LEMMA MarkedElsewhere ==
    ASSUME CInv, TInv', NEW N,
           failedValid' \cup failedChild' \subseteq failedValid \cup failedChild \cup N,
           N \cap (Ancestors[tip] \cup Ancestors[coinsBest]) = {},
           UNCHANGED <<tip, coinsBest>>,
           \A b \in Ancestors[tip] \cup Ancestors[coinsBest] : validity'[b] = validity[b],
           haveData' \cap BadBlock = {}, failedBlocks' \subseteq failedValid',
           pc' = "inv" => "invalidateblock" \in Operator,
           pc' \in {"abc", "find", "step"} /\ mostWork' # NoBlock =>
               pc \in {"abc", "find", "step"} /\ mostWork' = mostWork /\ N \cap Ancestors[mostWork] = {}
    PROVE  CInv'
  BY DEF CInv, Connected, Failed

(* The genesis block alone is a valid chain. *)
LEMMA InitChain == Init => CInv
  <1> SUFFICES ASSUME Init PROVE CInv
    OBVIOUS
  <1>1. TInv
    BY InitType
  <1>2. Ancestors[tip] \cup Ancestors[coinsBest] = {Genesis}
    BY AncestorsOfParent DEF Init
  <1> QED
    BY <1>1, <1>2, Constants DEF Init, CInv, Connected, Failed

(* Steps that mark nothing and move nothing. *)
LEMMA QuietChain ==
    ASSUME CInv, TInv',
           \/ StartActivate \/ LockRound \/ NothingToDo \/ ReadError \/ RequestShutdown
           \/ AssertionFails \/ \E b \in Block : PreciousBlock(b)
    PROVE  CInv'
  <1>1. /\ UNCHANGED <<index, validity, haveData, failedValid, failedChild, failedBlocks, tip, coinsBest>>
        /\ pc' = "inv" => pc = "inv"
        /\ pc' \in {"abc", "find", "step"} /\ mostWork' # NoBlock =>
               pc \in {"abc", "find", "step"} /\ mostWork' = mostWork
    <2>1. CASE StartActivate
      BY <2>1 DEF StartActivate, indexVars, tipVars
    <2>2. CASE LockRound
      BY <2>2 DEF LockRound, indexVars, tipVars
    <2>3. CASE NothingToDo
      BY <2>3 DEF NothingToDo, indexVars, tipVars
    <2>4. CASE ReadError
      BY <2>4 DEF ReadError, indexVars, tipVars
    <2>5. CASE RequestShutdown
      BY <2>5 DEF RequestShutdown, indexVars, tipVars, abcVars
    <2>6. CASE AssertionFails
      BY <2>6 DEF AssertionFails, indexVars, tipVars
    <2>7. CASE \E b \in Block : PreciousBlock(b)
      BY <2>7 DEF PreciousBlock, indexVars, tipVars, abcVars
    <2> QED
      BY <2>1, <2>2, <2>3, <2>4, <2>5, <2>6, <2>7
  <1> QED
    BY <1>1, MarkedElsewhere DEF CInv

(* A header, or a block, that arrives is on none of the chains, since it    *)
(* has no data yet.                                                         *)
LEMMA ArrivalChain ==
    ASSUME CInv, TInv', NEW b \in Block \ {Genesis},
           AcceptBlockHeader(b) \/ AcceptBadBlock(b) \/ AcceptBlock(b)
    PROVE  CInv'
  <1>1. /\ b \notin haveData /\ UNCHANGED <<failedChild, failedBlocks, tip, coinsBest, pc, mostWork>>
        /\ \E v : validity' = [validity EXCEPT ![b] = v]
        /\ haveData' = haveData \/ (haveData' = haveData \cup {b} /\ b \notin BadBlock)
        /\ failedValid' \in {failedValid, failedValid \cup {b}}
    <2>1. CASE AcceptBlockHeader(b)
      BY <2>1, ChainsLinked DEF AcceptBlockHeader, HeaderAccepted, HeaderConnects, tipVars, abcVars, CInv
    <2>2. CASE AcceptBadBlock(b)
      BY <2>2 DEF AcceptBadBlock, BlockWanted, tipVars, abcVars
    <2>3. CASE AcceptBlock(b)
      BY <2>3 DEF AcceptBlock, BlockWanted, tipVars, abcVars
    <2> QED
      BY <2>1, <2>2, <2>3
  <1>2. b \notin Ancestors[tip] \cup Ancestors[coinsBest] /\ (mostWork # NoBlock => b \notin Ancestors[mostWork])
    BY <1>1, ChainsLinked DEF CInv
  <1>3. \A x \in Ancestors[tip] \cup Ancestors[coinsBest] : validity'[x] = validity[x]
    <2>1. PICK v : validity' = [validity EXCEPT ![b] = v]
      BY <1>1
    <2>2. DOMAIN validity = Block
      BY DEF CInv, TInv, TypeOK
    <2>3. Ancestors[tip] \cup Ancestors[coinsBest] \subseteq Block
      BY ChainsLinked DEF CInv, TInv, TypeOK
    <2> QED
      BY <1>2, <2>1, <2>2, <2>3
  <1>4. haveData' \cap BadBlock = {} /\ failedBlocks' \subseteq failedValid'
    BY <1>1 DEF CInv
  <1> DEFINE N == {b}
  <1>5. /\ failedValid' \cup failedChild' \subseteq failedValid \cup failedChild \cup N
        /\ N \cap (Ancestors[tip] \cup Ancestors[coinsBest]) = {}
        /\ mostWork # NoBlock => N \cap Ancestors[mostWork] = {}
    BY <1>1, <1>2
  <1>6. UNCHANGED <<tip, coinsBest, pc, mostWork>> /\ (pc = "inv" => "invalidateblock" \in Operator)
    BY <1>1 DEF CInv
  <1> HIDE DEF N
  <1> QED
    BY <1>3, <1>4, <1>5, <1>6, MarkedElsewhere

(* AcceptBlockHeader marks descendants of a failed block only. *)
LEMMA RejectChain ==
    ASSUME CInv, TInv', NEW b \in Block \ {Genesis}, RejectFailedDescendant(b)
    PROVE  CInv'
  <1>1. PICK f \in FailedAncestors(b) :
            failedChild' = failedChild \cup {x \in Ancestors[Parent[b]] : x # f /\ f \in Ancestors[x]}
    BY DEF RejectFailedDescendant
  <1> DEFINE N == {x \in Ancestors[Parent[b]] : x # f /\ f \in Ancestors[x]}
  <1>2. Failed(f)
    BY DEF FailedAncestors, CInv, Failed
  <1>3. N \cap (Ancestors[tip] \cup Ancestors[coinsBest]) = {}
    BY <1>2, ChainsLinked, AncestorsTransitive DEF CInv, Connected
  <1>4. pc \in {"abc", "find", "step"} /\ mostWork # NoBlock => N \cap Ancestors[mostWork] = {}
    BY <1>2, ChainsLinked, AncestorsTransitive DEF CInv
  <1>5. UNCHANGED <<validity, haveData, failedValid, failedBlocks, tip, coinsBest, pc, mostWork>>
    BY DEF RejectFailedDescendant, tipVars, abcVars
  <1>6. failedValid' \cup failedChild' \subseteq failedValid \cup failedChild \cup N
    BY <1>1, <1>5
  <1> HIDE DEF N
  <1> QED
    BY <1>3, <1>4, <1>5, <1>6, MarkedElsewhere DEF CInv

(* FindMostWorkChain marks what descends from a failed block only. *)
LEMMA DropChain ==
    ASSUME CInv, TInv', DropCandidate
    PROVE  CInv'
  <1>1. mostWork = NoBlock /\ UNCHANGED <<validity, haveData, failedValid, failedBlocks, tip, coinsBest, pc, mostWork>>
    BY DEF DropCandidate, tipVars, abcVars
  <1>2. CASE failedChild' = failedChild
    BY <1>1, <1>2, MarkedElsewhere DEF CInv
  <1>3. CASE failedChild' # failedChild
    <2>1. PICK c \in candidates : \E x \in Unusable(c) : Failed(x) /\ failedChild' = failedChild \cup Above(c, x)
      BY <1>3 DEF DropCandidate
    <2>2. PICK x \in Unusable(c) : Failed(x) /\ failedChild' = failedChild \cup Above(c, x)
      BY <2>1
    <2> DEFINE N == Above(c, x)
    <2>3. N \cap (Ancestors[tip] \cup Ancestors[coinsBest]) = {}
      BY <2>2, ChainsLinked, AncestorsTransitive DEF CInv, Connected, Above
    <2>4. failedValid' \cup failedChild' \subseteq failedValid \cup failedChild \cup N
      BY <1>1, <2>2
    <2> HIDE DEF N
    <2> QED
      BY <1>1, <2>3, <2>4, MarkedElsewhere DEF CInv
  <1> QED
    BY <1>2, <1>3

(* FindMostWorkChain returns a block whose branch it has looked at. *)
LEMMA BeginChain ==
    ASSUME CInv, TInv', BeginStep
    PROVE  CInv'
  <1>1. PICK c \in Block :
          /\ IF mostWork = NoBlock THEN IsBestCandidate(c) /\ Unusable(c) = {} ELSE c = mostWork
          /\ mostWork' = c
    BY DEF BeginStep
  <1>2. /\ pc = "find" /\ pc' = "step"
        /\ UNCHANGED <<validity, haveData, failedValid, failedChild, failedBlocks, tip, coinsBest>>
    BY DEF BeginStep, indexVars, tipVars
  <1>3. \A b \in Ancestors[c] : ~Failed(b)
    <2>1. CASE mostWork = NoBlock
      BY <1>1, <2>1 DEF Unusable, Branch, CInv, Connected
    <2>2. CASE mostWork # NoBlock
      BY <1>1, <1>2, <2>2 DEF CInv
    <2> QED
      BY <2>1, <2>2
  <1> QED
    BY <1>1, <1>2, <1>3 DEF CInv, Connected, Failed

(* What is left of the chain after disconnecting its tip is connected. *)
LEMMA DisconnectChain ==
    ASSUME CInv, TInv', DisconnectStep
    PROVE  CInv'
  <1>1. tip \in Block \ {Genesis}
    BY TipParent, ChainsLinked DEF CInv, DisconnectStep, TInv, TypeOK
  <1>2. /\ tip' = Parent[tip] /\ coinsBest' = Parent[tip] /\ pc' = pc /\ mostWork' = mostWork
        /\ UNCHANGED <<validity, haveData, failedValid, failedChild, failedBlocks>>
    BY DEF DisconnectStep, DisconnectTip, indexVars, abcVars
  <1>3. Ancestors[Parent[tip]] \subseteq Ancestors[tip]
    BY <1>1, AncestorsOfParent
  <1> QED
    BY <1>2, <1>3 DEF CInv, Connected, Failed

(* A block raised to VALID_SCRIPTS is connected, and nobody else changes. *)
LEMMA RaisedConnected ==
    ASSUME CInv, pc = "step", NEW b \in Block \ BadConnect, NextToConnect(b),
           validity' = RaiseValidity(b, VALID_SCRIPTS), UNCHANGED <<failedValid, failedChild>>
    PROVE  \A x \in Ancestors[b] \cup Ancestors[tip] : Connected(x)'
  <1>1. b \in linked /\ b \in Block \ {Genesis} /\ Parent[b] = tip /\ b \in Ancestors[mostWork]
    BY NextIsLinked DEF CInv
  <1>2. ~Failed(b)
    BY <1>1 DEF CInv, TInv, TypeOK
  <1>3. validity \in [Block -> {VALID_UNKNOWN, VALID_TREE, VALID_TRANSACTIONS, VALID_SCRIPTS}]
    BY DEF CInv, TInv, TypeOK
  <1>4. validity'[b] = VALID_SCRIPTS /\ \A x \in Block \ {b} : validity'[x] = validity[x]
    BY SMTT(60), <1>2, <1>3 DEF RaiseValidity, VALID_UNKNOWN, VALID_TREE, VALID_TRANSACTIONS, VALID_SCRIPTS
  <1>5. Connected(b)'
    BY <1>2, <1>4 DEF Connected, Failed
  <1>6. ASSUME NEW x \in Ancestors[tip] PROVE Connected(x)'
    <2>1. x \in Block /\ x # b
      BY <1>1, ChainsLinked, AncestorsHeight DEF CInv
    <2> QED
      BY <1>4, <2>1 DEF CInv, Connected, Failed
  <1>7. Ancestors[b] = Ancestors[tip] \cup {b}
    BY <1>1, AncestorsOfParent
  <1> QED
    BY <1>5, <1>6, <1>7

(* ConnectTip extends the chain by a connected block. *)
LEMMA ConnectChain ==
    ASSUME CInv, TInv', ConnectStep
    PROVE  CInv'
  <1>1. PICK b \in Block \ BadConnect :
          /\ NextToConnect(b) /\ tip' = b /\ coinsBest' = b /\ validity' = RaiseValidity(b, VALID_SCRIPTS)
          /\ EndStep(b, mostWork) \/ UNCHANGED <<pc, mostWork>>
    BY DEF ConnectStep
  <1>2. pc = "step" /\ UNCHANGED <<haveData, failedValid, failedChild, failedBlocks>>
    BY DEF ConnectStep
  <1>3. \A x \in Ancestors[b] : Connected(x)'
    BY <1>1, <1>2, RaisedConnected
  <1>4. pc' \in {"find", "abc", "idle", "step"} /\ mostWork' \in {mostWork, NoBlock}
    BY <1>1, <1>2, EndStepType
  <1> QED
    BY <1>1, <1>2, <1>3, <1>4 DEF CInv, Failed

(* The block InvalidBlockFound marks is above the tip. *)
LEMMA ConnectFailsChain ==
    ASSUME CInv, TInv', ConnectFails
    PROVE  CInv'
  <1>1. PICK b \in BadConnect :
          NextToConnect(b) /\ failedValid' = failedValid \cup {b} /\ failedBlocks' = failedBlocks \cup {b}
    BY DEF ConnectFails
  <1>2. /\ pc = "step" /\ coinsBest = tip /\ pc' # "inv" /\ mostWork' = NoBlock
        /\ UNCHANGED <<validity, haveData, failedChild, tip, coinsBest>>
    BY EndStepType DEF ConnectFails, tipVars
  <1>3. b \notin Ancestors[tip] \cup Ancestors[coinsBest]
    BY <1>1, <1>2, NextIsLinked, AncestorsHeight DEF CInv
  <1> DEFINE N == {b}
  <1>4. /\ failedValid' \cup failedChild' \subseteq failedValid \cup failedChild \cup N
        /\ N \cap (Ancestors[tip] \cup Ancestors[coinsBest]) = {}
    BY <1>1, <1>2, <1>3
  <1>5. failedBlocks' \subseteq failedValid' /\ haveData' \cap BadBlock = {}
    BY <1>1, <1>2 DEF CInv
  <1> HIDE DEF N
  <1> QED
    BY <1>2, <1>4, <1>5, MarkedElsewhere

(* A flush that fails leaves the coins at a neighbour of the tip that is    *)
(* connected too.                                                           *)
LEMMA FlushErrorChain ==
    ASSUME CInv, TInv', FlushError
    PROVE  CInv'
  <1>1. /\ pc = "step" /\ DiskMayFail /\ tip' = tip /\ pc' = "idle"
        /\ UNCHANGED <<haveData, failedValid, failedChild, failedBlocks>>
    BY DEF FlushError
  <1>2. \A x \in Ancestors[tip] \cup Ancestors[coinsBest'] : Connected(x)'
    <2>1. CASE tip \notin Ancestors[mostWork] /\ coinsBest' = Parent[tip] /\ validity' = validity
      <3>1. tip \in Block \ {Genesis}
        BY <1>1, <2>1, TipParent, ChainsLinked DEF CInv, TInv, TypeOK
      <3> QED
        BY SMTT(60), <1>1, <2>1, <3>1, AncestorsOfParent DEF CInv, Connected, Failed
    <2>2. ASSUME NEW b \in Block \ BadConnect, NextToConnect(b), coinsBest' = b,
                 validity' = RaiseValidity(b, VALID_SCRIPTS)
          PROVE  \A x \in Ancestors[tip] \cup Ancestors[coinsBest'] : Connected(x)'
      BY <1>1, <2>2, RaisedConnected
    <2> QED
      BY <2>1, <2>2 DEF FlushError
  <1> QED
    BY <1>1, <1>2 DEF CInv

(* The start of InvalidateBlock marks nothing. *)
LEMMA StartInvalidateChain ==
    ASSUME CInv, TInv', NEW b \in Block, StartInvalidate(b)
    PROVE  CInv'
  <1>1. /\ "invalidateblock" \in Operator /\ pc' = "inv"
        /\ UNCHANGED <<validity, haveData, failedValid, failedChild, failedBlocks, tip, coinsBest>>
    BY DEF StartInvalidate, indexVars, tipVars
  <1> QED
    BY <1>1, MarkedElsewhere DEF CInv

(* The block InvalidateBlock disconnects is not on the chain below it, and  *)
(* no mark on that chain is moved to BLOCK_FAILED_CHILD.                    *)
LEMMA InvalidateTipChain ==
    ASSUME CInv, TInv', InvalidateTip
    PROVE  CInv'
  <1>1. tip \in Block \ {Genesis}
    BY TipParent DEF CInv, InvalidateTip, InvalidateGoesOn, TInv
  <1>2. /\ pc = "inv" /\ pc' = pc /\ tip' = Parent[tip] /\ coinsBest' = Parent[tip]
        /\ UNCHANGED <<validity, haveData, failedBlocks>>
    BY DEF InvalidateTip, DisconnectTip, abcVars
  <1>3. /\ Parent[tip] \in Ancestors[tip] /\ Ancestors[Parent[tip]] \subseteq Ancestors[tip]
        /\ tip \notin Ancestors[Parent[tip]]
    BY SMTT(60), <1>1, Constants, AncestorsBasic, AncestorsOfParent, AncestorsHeight
  <1>4. Parent[tip] \notin failedValid
    BY <1>3 DEF CInv, Connected, Failed
  <1>5. failedValid' = failedValid \cup {tip} /\ failedChild' = failedChild
    BY <1>4 DEF InvalidateTip
  <1> QED
    BY <1>2, <1>3, <1>5 DEF CInv, Connected, Failed

(* The end of InvalidateBlock marks a block off the chain. *)
LEMMA FinishInvalidateChain ==
    ASSUME CInv, TInv', FinishInvalidate, NoInvalidationOnBadDisk
    PROVE  CInv'
  <1>1. /\ coinsBest = tip /\ pc' = "idle"
        /\ UNCHANGED <<validity, haveData, failedChild, tip, coinsBest>>
    BY DEF FinishInvalidate, CInv, NoInvalidationOnBadDisk, tipVars
  <1>2. CASE UNCHANGED <<failedValid, failedBlocks>>
    BY <1>1, <1>2, MarkedElsewhere DEF CInv
  <1>3. CASE /\ toMark \notin Ancestors[tip]
             /\ failedValid' = failedValid \cup {toMark} /\ failedBlocks' = failedBlocks \cup {toMark}
    <2> DEFINE N == {toMark}
    <2>1. /\ failedValid' \cup failedChild' \subseteq failedValid \cup failedChild \cup N
          /\ N \cap (Ancestors[tip] \cup Ancestors[coinsBest]) = {}
      BY <1>1, <1>3
    <2>2. failedBlocks' \subseteq failedValid' /\ haveData' \cap BadBlock = {}
      BY <1>1, <1>3 DEF CInv
    <2> HIDE DEF N
    <2> QED
      BY <1>1, <2>1, <2>2, MarkedElsewhere
  <1> QED
    BY <1>2, <1>3 DEF FinishInvalidate, InChain

(* ResetBlockFailureFlags clears flags and sets none. *)
LEMMA ReconsiderChain ==
    ASSUME CInv, TInv', NEW b \in Block, ReconsiderBlock(b)
    PROVE  CInv'
  <1>1. UNCHANGED <<validity, haveData, tip, coinsBest, pc, mostWork>>
    BY DEF ReconsiderBlock, tipVars, abcVars
  <1>2. /\ failedValid' \cup failedChild' \subseteq failedValid \cup failedChild
        /\ failedBlocks' \subseteq failedValid'
    BY DEF ReconsiderBlock, ClearedFailedBlocks, CInv
  <1> QED
    BY <1>1, <1>2, MarkedElsewhere DEF CInv

(* LoadBlockIndex spreads the flags to descendants of flagged blocks only. *)
LEMMA RestartChain ==
    ASSUME CInv, TInv', Restart
    PROVE  CInv'
  <1>1. /\ tip' = coinsBest /\ coinsBest' = coinsBest /\ pc' = "idle" /\ failedBlocks' = {}
        /\ UNCHANGED <<validity, haveData, failedValid>>
    BY DEF Restart, abcVars
  <1>2. PICK saved \in SUBSET failedChild :
          failedChild' = saved \cup {b \in index \ (failedValid \cup saved) :
                                        Ancestors[b] \cap (failedValid \cup saved) # {}}
    BY DEF Restart
  <1>3. \A b \in Ancestors[coinsBest] : Ancestors[b] \subseteq Ancestors[coinsBest]
    BY ChainsLinked, AncestorsTransitive DEF CInv
  <1>4. \A b \in Ancestors[coinsBest] : b \notin failedChild'
    BY <1>2, <1>3 DEF CInv, Connected, Failed
  <1> QED
    BY <1>1, <1>4 DEF CInv, Connected, Failed

(* Every step keeps the chains valid. *)
LEMMA StepChain ==
    ASSUME NoInvalidationOnBadDisk
    PROVE  CInv /\ [Next]_vars => CInv'
  <1> SUFFICES ASSUME CInv, [Next]_vars PROVE CInv'
    OBVIOUS
  <1>1. TInv'
    BY StepType DEF CInv
  <1>2. CASE Activate
    BY <1>1, <1>2, QuietChain, DropChain, BeginChain, DisconnectChain, ConnectChain, ConnectFailsChain
       DEF Activate
  <1>3. CASE ReadError \/ FlushError \/ AssertionFails \/ RequestShutdown \/ Restart
    BY <1>1, <1>3, QuietChain, FlushErrorChain, RestartChain
  <1>4. CASE InvalidateTip \/ FinishInvalidate
    BY <1>1, <1>4, InvalidateTipChain, FinishInvalidateChain
  <1>5. CASE InvalidateError
    BY <1>5 DEF InvalidateError, CInv, NoInvalidationOnBadDisk
  <1>6. ASSUME NEW b \in Block \ {Genesis},
               \/ AcceptBlockHeader(b) \/ RejectFailedDescendant(b) \/ AcceptBadBlock(b) \/ AcceptBlock(b)
               \/ StartInvalidate(b)
        PROVE  CInv'
    BY <1>1, <1>6, ArrivalChain, RejectChain, StartInvalidateChain
  <1>7. ASSUME NEW b \in Block, ReconsiderBlock(b) \/ PreciousBlock(b)
        PROVE  CInv'
    BY <1>1, <1>7, ReconsiderChain, QuietChain
  <1>8. CASE UNCHANGED vars
    BY <1>1, <1>8, MarkedElsewhere DEF CInv, vars, indexVars, tipVars, abcVars
  <1> QED
    BY <1>2, <1>3, <1>4, <1>5, <1>6, <1>7, <1>8 DEF Next

(* Every block of the active chain has its data, passed ConnectBlock and    *)
(* carries no failure flag, and AcceptBlockHeader's assertion on            *)
(* m_failed_blocks holds: for every tree, every order of arrival, every     *)
(* failed reorganisation and restart, with reconsiderblock and              *)
(* preciousblock at any moment, and with invalidateblock as long as the     *)
(* disk works.                                                              *)
THEOREM ChainCorrect ==
    ASSUME NoInvalidationOnBadDisk
    PROVE  Spec => [](ActiveChainValid /\ FailedBlocksFlagged)
  <1>1. CInv => ActiveChainValid /\ FailedBlocksFlagged
    BY ChainsLinked DEF CInv, Connected, ActiveChainValid, FailedBlocksFlagged
  <1> QED
    BY <1>1, InitChain, StepChain, PTL DEF Spec

(***************************************************************************)
(* The block index: failure flags, links, candidates and the tip.          *)
(***************************************************************************)

(* Two ancestors of a block are on one chain. *)
LEMMA AncestorsOrdered ==
    ASSUME NEW b \in Block, NEW x \in Ancestors[b], NEW y \in Ancestors[b]
    PROVE  x \in Ancestors[y] \/ y \in Ancestors[x]
  <1> DEFINE S == {w \in Ancestors[b] : w \in Ancestors[y] \/ y \in Ancestors[w]}
  <1>1. y \in Block /\ S \subseteq Block /\ b \in S
    BY AncestorsBasic
  <1>2. ASSUME NEW w \in S, w # Genesis PROVE Parent[w] \in S
    <2>1. w \in Block \ {Genesis} /\ Parent[w] \in Ancestors[b]
      BY <1>1, <1>2, AncestorsBasic DEF ParentClosed
    <2>2. Parent[w] \in Ancestors[w] /\ Ancestors[w] = Ancestors[Parent[w]] \cup {w}
      BY <2>1, AncestorsBasic, AncestorsOfParent
    <2>3. CASE w \in Ancestors[y]
      BY <1>1, <1>2, <2>1, <2>3, AncestorsBasic DEF ParentClosed
    <2>4. CASE y \in Ancestors[w]
      BY <2>1, <2>2, <2>4
    <2> QED
      BY <2>3, <2>4
  <1>3. ParentClosed(S)
    BY <1>2 DEF ParentClosed
  <1>4. Ancestors[b] \subseteq S
    BY <1>1, <1>3, AncestorsBasic
  <1> QED
    BY <1>4

(* How far a block was validated: one with data has had its transactions    *)
(* checked, one in the index its header.                                    *)
Validated == /\ \A b \in index : validity[b] >= VALID_TREE
             /\ \A b \in haveData : validity[b] >= VALID_TRANSACTIONS

VInv == TInv /\ Validated

(* RaiseValidity lowers nothing. *)
LEMMA RaiseKeeps ==
    ASSUME TInv, NEW b \in Block, validity' = RaiseValidity(b, VALID_SCRIPTS)
    PROVE  \A x \in Block : validity'[x] >= validity[x]
  <1>1. validity \in [Block -> {VALID_UNKNOWN, VALID_TREE, VALID_TRANSACTIONS, VALID_SCRIPTS}]
    BY DEF TInv, TypeOK
  <1>2. \A x \in Block : validity[x] \in Int
    BY SMTT(60), <1>1 DEF VALID_UNKNOWN, VALID_TREE, VALID_TRANSACTIONS, VALID_SCRIPTS
  <1>3. \A x \in Block \ {b} : validity'[x] = validity[x]
    BY <1>1 DEF RaiseValidity
  <1>4. validity'[b] = validity[b] \/ (~(validity[b] >= VALID_SCRIPTS) /\ validity'[b] = VALID_SCRIPTS)
    BY <1>1 DEF RaiseValidity
  <1>5. validity'[b] >= validity[b]
    BY SMTT(60), <1>2, <1>4 DEF VALID_SCRIPTS
  <1> QED
    BY SMTT(60), <1>2, <1>3, <1>5

(* The steps that add no block, mark none and link none. *)
Quiet ==
    \/ StartActivate \/ LockRound \/ BeginStep \/ NothingToDo \/ DisconnectStep \/ ConnectStep
    \/ ReadError \/ FlushError \/ AssertionFails \/ InvalidateError \/ RequestShutdown
    \/ \E b \in Block : PreciousBlock(b) \/ StartInvalidate(b)

(* They leave the index, its flags and its links alone, and only raise how  *)
(* far a block was validated.                                               *)
LEMMA QuietIndex ==
    ASSUME TInv, Quiet
    PROVE  /\ UNCHANGED <<index, haveData, failedValid, failedChild, linked, unlinked, failedBlocks>>
           /\ \A x \in Block : validity'[x] >= validity[x]
  <1>1. \A x \in Block : validity[x] >= validity[x]
    BY SMTT(60) DEF TInv, TypeOK, VALID_UNKNOWN, VALID_TREE, VALID_TRANSACTIONS, VALID_SCRIPTS
  <1>2. CASE StartActivate \/ LockRound \/ BeginStep \/ NothingToDo \/ DisconnectStep \/ ReadError
    BY <1>1, <1>2 DEF StartActivate, LockRound, BeginStep, NothingToDo, DisconnectStep, ReadError, indexVars
  <1>3. CASE AssertionFails \/ InvalidateError \/ RequestShutdown
    BY <1>1, <1>3 DEF AssertionFails, InvalidateError, RequestShutdown, indexVars
  <1>4. CASE \E b \in Block : PreciousBlock(b) \/ StartInvalidate(b)
    BY <1>1, <1>4 DEF PreciousBlock, StartInvalidate, indexVars
  <1>5. CASE ConnectStep
    BY <1>5, RaiseKeeps DEF ConnectStep
  <1>6. CASE FlushError
    BY <1>1, <1>6, RaiseKeeps DEF FlushError
  <1> QED
    BY <1>2, <1>3, <1>4, <1>5, <1>6 DEF Quiet

(* The other steps, one by one. *)
LEMMA NextCases ==
    ASSUME [Next]_vars
    PROVE  \/ Quiet \/ DropCandidate \/ ConnectFails \/ InvalidateTip \/ FinishInvalidate \/ Restart
           \/ \E b \in Block \ {Genesis} :
                 AcceptBlockHeader(b) \/ RejectFailedDescendant(b) \/ AcceptBadBlock(b) \/ AcceptBlock(b)
           \/ \E b \in Block : ReconsiderBlock(b)
           \/ UNCHANGED vars
  BY DEF Next, Activate, Quiet

(* Every step keeps Validated. *)
LEMMA StepValidated == VInv /\ [Next]_vars => VInv'
  <1> SUFFICES ASSUME VInv, [Next]_vars PROVE VInv'
    OBVIOUS
  <1>1. TInv'
    BY StepType DEF VInv
  <1>2. /\ validity \in [Block -> {VALID_UNKNOWN, VALID_TREE, VALID_TRANSACTIONS, VALID_SCRIPTS}]
        /\ haveData \subseteq index /\ index \subseteq Block /\ \A x \in Block : validity[x] \in Int
    BY SMTT(60) DEF VInv, TInv, TypeOK, VALID_UNKNOWN, VALID_TREE, VALID_TRANSACTIONS, VALID_SCRIPTS
  <1>3. \A x \in Block : validity'[x] \in Int
    BY SMTT(60), <1>1 DEF TInv, TypeOK, VALID_UNKNOWN, VALID_TREE, VALID_TRANSACTIONS, VALID_SCRIPTS
  <1>4. CASE Quiet
    <2>1. /\ index' = index /\ haveData' = haveData
          /\ \A x \in Block : validity'[x] >= validity[x]
      BY <1>4, QuietIndex DEF VInv
    <2>2. ASSUME NEW x \in index PROVE validity'[x] >= VALID_TREE
      BY SMTT(60), <1>2, <1>3, <2>1 DEF VInv, Validated, VALID_TREE
    <2>3. ASSUME NEW x \in haveData PROVE validity'[x] >= VALID_TRANSACTIONS
      BY SMTT(60), <1>2, <1>3, <2>1 DEF VInv, Validated, VALID_TRANSACTIONS
    <2> QED
      BY <1>1, <2>1, <2>2, <2>3 DEF VInv, Validated
  <1>5. CASE UNCHANGED <<index, haveData, validity>>
    BY <1>1, <1>5 DEF VInv, Validated
  <1>6. ASSUME NEW b \in Block \ {Genesis}, AcceptBlockHeader(b) \/ AcceptBadBlock(b)
        PROVE  VInv'
    <2>1. /\ index' = index \cup {b} /\ haveData' = haveData /\ b \notin haveData
          /\ validity' = [validity EXCEPT ![b] = VALID_TREE]
      BY <1>2, <1>6 DEF AcceptBlockHeader, AcceptBadBlock, HeaderAccepted, HeaderConnects, BlockWanted
    <2>2. validity'[b] = VALID_TREE /\ \A x \in Block \ {b} : validity'[x] = validity[x]
      BY <1>2, <2>1
    <2>3. VALID_TREE >= VALID_TREE
      BY SMTT(60) DEF VALID_TREE
    <2> QED
      BY <1>1, <1>2, <2>1, <2>2, <2>3 DEF VInv, Validated
  <1>7. ASSUME NEW b \in Block \ {Genesis}, AcceptBlock(b)
        PROVE  VInv'
    <2>1. /\ index' = index \cup {b} /\ haveData' = haveData \cup {b}
          /\ validity' = [validity EXCEPT ![b] = VALID_TRANSACTIONS]
      BY <1>7 DEF AcceptBlock
    <2>2. validity'[b] = VALID_TRANSACTIONS /\ \A x \in Block \ {b} : validity'[x] = validity[x]
      BY <1>2, <2>1
    <2>3. VALID_TRANSACTIONS >= VALID_TREE /\ VALID_TRANSACTIONS >= VALID_TRANSACTIONS
      BY SMTT(60) DEF VALID_TREE, VALID_TRANSACTIONS
    <2> QED
      BY <1>1, <1>2, <2>1, <2>2, <2>3 DEF VInv, Validated
  <1>8. CASE DropCandidate \/ ConnectFails \/ InvalidateTip \/ FinishInvalidate \/ Restart
    BY <1>5, <1>8 DEF DropCandidate, ConnectFails, InvalidateTip, FinishInvalidate, Restart
  <1>9. ASSUME NEW b \in Block \ {Genesis}, RejectFailedDescendant(b)
        PROVE  VInv'
    BY <1>5, <1>9 DEF RejectFailedDescendant
  <1>10. ASSUME NEW b \in Block, ReconsiderBlock(b)
        PROVE  VInv'
    BY <1>5, <1>10 DEF ReconsiderBlock
  <1>11. CASE UNCHANGED vars
    BY <1>5, <1>11 DEF vars, indexVars
  <1> QED
    BY <1>4, <1>6, <1>7, <1>8, <1>9, <1>10, <1>11, NextCases

(* The genesis block is validated initially. *)
LEMMA InitValidated == Init => VInv
  <1> SUFFICES ASSUME Init PROVE VInv
    OBVIOUS
  <1>1. \A b \in index \cup haveData : validity[b] = VALID_TRANSACTIONS
    BY Constants DEF Init
  <1> QED
    BY SMTT(60), <1>1, InitType DEF VInv, Validated, VALID_TREE, VALID_TRANSACTIONS
-----------------------------------------------------------------------------
(* A flag has a cause, unless reconsiderblock clears it and leaves a mark   *)
(* on a descendant on another branch.                                       *)
NoReconsider == "reconsiderblock" \notin Operator

(* LinkedIffAllData says more, and fails once invalidateblock marks a block *)
(* that waits for its parent: what arrives above it is not queued.          *)
LinkedUnlessFailed ==
    \A b \in index : Ancestors[b] \subseteq haveData /\ NoFailedAncestor(b) => b \in linked

(* UnlinkedExact needs FailedHasCause, because a block is queued unless its *)
(* parent is marked, and LinkedUnlessFailed needs UnlinkedExact, because    *)
(* only queued blocks are linked with the one they wait for.                *)
FInv == /\ CInv /\ Validated
        /\ FailedHasCause
        /\ UnlinkedExact /\ LinkedUnlessFailed

(* A step that keeps the causes and marks only blocks that are one, or      *)
(* descend from a marked one.                                               *)
LEMMA CauseKept ==
    ASSUME TInv, TInv', FailedHasCause, failedValid \subseteq failedValid',
           \A x \in failedChild' : \E a \in Ancestors[x] : Failed(a) \/ a \in failedValid'
    PROVE  FailedHasCause'
  <1> SUFFICES ASSUME NEW b \in index', Failed(b)'
               PROVE  Ancestors[b] \cap failedValid' # {}
    BY DEF FailedHasCause, NoFailedAncestor
  <1>1. b \in Block /\ b \in Ancestors[b]
    BY AncestorsBasic DEF TInv, TypeOK
  <1>2. PICK a \in Ancestors[b] : Failed(a) \/ a \in failedValid'
    BY <1>1 DEF Failed
  <1>3. CASE Failed(a)
    <2>1. a \in index
      BY <1>3 DEF Failed, TInv, TypeOK
    <2>2. PICK f \in Ancestors[a] : f \in failedValid
      BY <1>3, <2>1 DEF FailedHasCause, NoFailedAncestor
    <2> QED
      BY <1>1, <2>2, AncestorsTransitive
  <1> QED
    BY <1>2, <1>3

(* A step that gives no block data and changes no link. *)
LEMMA LinksKept ==
    ASSUME TInv, TInv', UnlinkedExact, LinkedUnlessFailed, failedValid \subseteq failedValid',
           UNCHANGED <<haveData, linked, unlinked>>
    PROVE  UnlinkedExact' /\ LinkedUnlessFailed'
  <1>1. UnlinkedExact'
    BY DEF UnlinkedExact, NoFailedAncestor
  <1>2. ASSUME NEW b \in index', Ancestors[b] \subseteq haveData, Ancestors[b] \cap failedValid' = {}
        PROVE  b \in linked
    <2>1. b \in index
      BY <1>2, AncestorsBasic DEF TInv, TypeOK
    <2> QED
      BY <1>2, <2>1 DEF LinkedUnlessFailed, NoFailedAncestor
  <1> QED
    BY <1>1, <1>2 DEF LinkedUnlessFailed, NoFailedAncestor

(* What the steps that mark blocks do to the flags. *)
LEMMA FlagSteps ==
    ASSUME CInv, [Next]_vars, NoReconsider, ~Restart
    PROVE  /\ failedValid \subseteq failedValid'
           /\ \A x \in failedChild' : \E a \in Ancestors[x] : Failed(a)
  <1>0. TInv /\ \A x \in failedChild : x \in Ancestors[x] /\ Failed(x)
    BY AncestorsBasic DEF CInv, TInv, TypeOK, Failed
  <1>1. CASE Quiet \/ UNCHANGED vars
    BY <1>0, <1>1, QuietIndex DEF vars, indexVars
  <1>2. CASE ConnectFails \/ FinishInvalidate
    BY <1>0, <1>2 DEF ConnectFails, FinishInvalidate
  <1>3. CASE DropCandidate
    BY <1>0, <1>3 DEF DropCandidate, Above
  <1>4. CASE InvalidateTip
    <2>1. tip \in Block \ {Genesis}
      BY <1>4, TipParent DEF CInv, InvalidateTip, InvalidateGoesOn, TInv
    <2>2. Parent[tip] \notin failedValid
      BY <2>1, Constants, AncestorsBasic, AncestorsOfParent DEF CInv, Connected, Failed
    <2>3. failedValid' = failedValid \cup {tip} /\ failedChild' = failedChild
      BY <1>4, <2>2 DEF InvalidateTip
    <2> QED
      BY <1>0, <2>3
  <1>5. ASSUME NEW b \in Block \ {Genesis}, AcceptBlockHeader(b) \/ AcceptBadBlock(b) \/ AcceptBlock(b)
        PROVE  failedValid \subseteq failedValid' /\ failedChild' = failedChild
    BY <1>5 DEF AcceptBlockHeader, AcceptBadBlock, AcceptBlock
  <1>6. ASSUME NEW b \in Block \ {Genesis}, RejectFailedDescendant(b)
        PROVE  /\ failedValid \subseteq failedValid'
               /\ \A x \in failedChild' : \E a \in Ancestors[x] : Failed(a)
    <2>1. PICK f \in FailedAncestors(b) :
            failedChild' = failedChild \cup {x \in Ancestors[Parent[b]] : x # f /\ f \in Ancestors[x]}
      BY <1>6 DEF RejectFailedDescendant
    <2>2. Failed(f) /\ failedValid' = failedValid
      BY <1>6 DEF FailedAncestors, CInv, Failed, RejectFailedDescendant
    <2> QED
      BY <1>0, <2>1, <2>2
  <1>7. ~\E b \in Block : ReconsiderBlock(b)
    BY DEF ReconsiderBlock, NoReconsider
  <1> QED
    BY <1>0, <1>1, <1>2, <1>3, <1>4, <1>5, <1>6, <1>7, NextCases

(* FindMostWorkChain meets no block without data, so it queues none. *)
LEMMA DropQueuesNone ==
    ASSUME TInv, DropCandidate
    PROVE  UNCHANGED <<index, validity, haveData, failedValid, linked, unlinked, failedBlocks>>
  <1>1. PICK c \in candidates : \E x \in Unusable(c) :
            unlinked' = IF Failed(x) THEN unlinked ELSE unlinked \cup Above(c, x)
    BY DEF DropCandidate
  <1>2. Ancestors[c] \subseteq haveData
    BY ClosedSet DEF TInv, TypeOK
  <1>3. unlinked' = unlinked
    BY <1>1, <1>2 DEF Unusable, Branch
  <1> QED
    BY <1>3 DEF DropCandidate

(* A block whose data AcceptBlock stores had none and was not marked; its   *)
(* parent is known.                                                         *)
LEMMA WantedBlock ==
    ASSUME TInv, NEW b \in Block \ {Genesis}, BlockWanted(b)
    PROVE  /\ b \notin haveData /\ ~Failed(b) /\ b \notin linked
           /\ Parent[b] \in index
  BY DEF BlockWanted, HeaderAccepted, HeaderConnects, Failed, TInv, TypeOK, ParentClosed

(* Between a block that is not linked and a descendant nothing is linked.   *)
LEMMA BetweenUnlinked ==
    ASSUME TInv, NEW b \in Block, b \notin linked, NEW x \in Block, b \in Ancestors[x],
           NEW y \in Ancestors[x] \ Ancestors[b]
    PROVE  b \in Ancestors[y] /\ y \notin linked /\ y \in Block
  <1>1. b \in Ancestors[y] /\ y \in Block
    BY AncestorsOrdered, AncestorsBasic
  <1> QED
    BY <1>1, ClosedSet DEF TInv, TypeOK

(* AcceptBlock queues the block or links it with all that wait for it.      *)
LEMMA AcceptBlockLinks ==
    ASSUME FInv, TInv', NEW b \in Block \ {Genesis}, AcceptBlock(b)
    PROVE  UnlinkedExact' /\ LinkedUnlessFailed'
  <1>1. TInv /\ UnlinkedExact /\ LinkedUnlessFailed /\ FailedHasCause /\ Validated
    BY DEF FInv, CInv
  <1>2. b \notin haveData /\ ~Failed(b) /\ b \notin linked /\ Parent[b] \in index
    BY <1>1, WantedBlock DEF AcceptBlock
  <1>3. haveData' = haveData \cup {b} /\ index' = index \cup {b} /\ UNCHANGED <<failedValid, failedChild>>
    BY DEF AcceptBlock
  <1>4. b \in Ancestors[b] /\ Parent[b] \in Ancestors[b] /\ b \notin Ancestors[Parent[b]] /\ Parent[b] \in Block
        /\ Ancestors[b] = Ancestors[Parent[b]] \cup {b}
    BY SMTT(60), AncestorsBasic, AncestorsOfParent, AncestorsHeight
  <1>5. CASE Parent[b] \in linked
    <2> DEFINE L == NowLinked(b)
    <2>1. linked' = linked \cup L /\ unlinked' = unlinked \ L
      BY <1>5 DEF AcceptBlock
    <2>2. L \subseteq unlinked \cup {b} /\ b \in L
      BY <1>4 DEF NowLinked
    <2>3. UnlinkedExact'
      BY <1>1, <1>3, <2>1, <2>2 DEF UnlinkedExact, NoFailedAncestor
    <2>4. ASSUME NEW x \in index', Ancestors[x] \subseteq haveData', Ancestors[x] \cap failedValid = {}
          PROVE  x \in linked'
      <3>1. x \in Block /\ x \in Ancestors[x]
        BY AncestorsBasic DEF TInv, TypeOK
      <3>2. CASE b \notin Ancestors[x]
        <4>1. x \in index /\ Ancestors[x] \subseteq haveData
          BY <1>3, <2>4, <3>1, <3>2
        <4>2. x \in linked
          BY <1>1, <2>4, <4>1 DEF LinkedUnlessFailed, NoFailedAncestor
        <4> QED
          BY <2>1, <4>2
      <3>3. CASE b \in Ancestors[x]
        <4>1. ASSUME NEW y \in Ancestors[x] \ Ancestors[b] PROVE y \in unlinked
          <5>1. y \in haveData \ linked
            BY <1>1, <1>2, <1>3, <1>4, <2>4, <3>1, <3>3, BetweenUnlinked
          <5>2. Ancestors[y] \cap failedValid = {}
            BY <2>4, <3>1, AncestorsTransitive
          <5> QED
            BY <1>1, <5>1, <5>2 DEF UnlinkedExact, NoFailedAncestor
        <4>2. x \in unlinked \cup {b}
          <5>1. CASE x \in Ancestors[b]
            <6>1. x = b \/ x \in Ancestors[Parent[b]]
              BY <1>4, <5>1
            <6>2. x \in Ancestors[Parent[b]] => b \in Ancestors[Parent[b]]
              BY <1>4, <3>3, AncestorsTransitive
            <6> QED
              BY <1>4, <6>1, <6>2
          <5> QED
            BY <3>1, <4>1, <5>1
        <4>3. x \in L
          BY <3>3, <4>1, <4>2 DEF NowLinked
        <4> QED
          BY <2>1, <4>3
      <3> QED
        BY <3>2, <3>3
    <2> QED
      BY <1>3, <2>3, <2>4 DEF LinkedUnlessFailed, NoFailedAncestor
  <1>6. CASE Parent[b] \notin linked
    <2>1. linked' = linked /\ unlinked' = QueuedBehind(b)
      BY <1>6 DEF AcceptBlock
    <2>2. unlinked' \cap linked = {} /\ unlinked \subseteq unlinked'
      BY <1>1, <1>2, <2>1 DEF QueuedBehind, UnlinkedExact
    <2>3. Ancestors[b] \cap failedValid = {} => b \in unlinked'
      <3>1. CASE IsValid(Parent[b], VALID_TREE)
        BY <2>1, <3>1 DEF QueuedBehind
      <3>2. CASE ~IsValid(Parent[b], VALID_TREE)
        <4>1. Failed(Parent[b])
          BY <1>1, <1>2, <3>2 DEF IsValid, Validated
        <4> QED
          BY <1>1, <1>2, <1>4, <4>1 DEF FailedHasCause, NoFailedAncestor
      <3> QED
        BY <3>1, <3>2
    <2>4. UnlinkedExact'
      BY <1>1, <1>3, <2>1, <2>2, <2>3 DEF UnlinkedExact, NoFailedAncestor
    <2>5. ASSUME NEW x \in index', Ancestors[x] \subseteq haveData', Ancestors[x] \cap failedValid = {}
          PROVE  x \in linked
      <3>1. x \in Block /\ x \in Ancestors[x]
        BY AncestorsBasic DEF TInv, TypeOK
      <3>2. b \notin Ancestors[x]
        <4> SUFFICES ASSUME b \in Ancestors[x] PROVE FALSE
          OBVIOUS
        <4>1. Ancestors[Parent[b]] \subseteq Ancestors[x]
          BY <1>4, <3>1, AncestorsTransitive
        <4>2. Ancestors[Parent[b]] \subseteq haveData /\ Ancestors[Parent[b]] \cap failedValid = {}
          BY <1>3, <1>4, <2>5, <4>1
        <4> QED
          BY <1>1, <1>2, <1>6, <4>2 DEF LinkedUnlessFailed, NoFailedAncestor
      <3> QED
        BY <1>1, <1>3, <2>5, <3>1, <3>2 DEF LinkedUnlessFailed, NoFailedAncestor
    <2> QED
      BY <1>3, <2>1, <2>4, <2>5 DEF LinkedUnlessFailed, NoFailedAncestor
  <1> QED
    BY <1>5, <1>6

(* LoadBlockIndex links and queues from scratch, and spreads the flags of   *)
(* marked blocks only.                                                      *)
LEMMA RestartIndex ==
    ASSUME TInv, TInv', Restart
    PROVE  /\ UNCHANGED <<index, validity, haveData, failedValid>> /\ failedBlocks' = {}
           /\ linked' = {b \in index : Ancestors[b] \subseteq haveData} /\ unlinked' = haveData \ linked'
           /\ \A x \in failedChild' : \E a \in Ancestors[x] : Failed(a)
           /\ \A x \in index : (Ancestors[x] \cap failedValid # {} => Failed(x)')
  <1>1. UNCHANGED <<index, validity, haveData, failedValid>> /\ failedBlocks' = {}
    BY DEF Restart
  <1>2. linked' = {b \in haveData : Ancestors[b] \subseteq haveData} /\ unlinked' = haveData \ linked'
    BY DEF Restart
  <1>3. linked' = {b \in index : Ancestors[b] \subseteq haveData}
    BY <1>2, AncestorsBasic DEF TInv, TypeOK
  <1>4. PICK saved \in SUBSET failedChild :
          failedChild' = saved \cup {b \in index \ (failedValid \cup saved) :
                                        Ancestors[b] \cap (failedValid \cup saved) # {}}
    BY DEF Restart
  <1>5. ASSUME NEW x \in failedChild' PROVE \E a \in Ancestors[x] : Failed(a)
    BY SMTT(60), <1>4, AncestorsBasic DEF Failed, TInv, TypeOK
  <1>6. ASSUME NEW x \in index, Ancestors[x] \cap failedValid # {} PROVE Failed(x)'
    BY <1>1, <1>4, <1>6 DEF Failed
  <1> QED
    BY <1>1, <1>2, <1>3, <1>5, <1>6

(* Initially nothing is marked and nothing waits. *)
LEMMA InitFlags == Init => FInv
  <1> SUFFICES ASSUME Init PROVE FInv
    OBVIOUS
  <1>1. CInv /\ Validated
    BY InitChain, InitValidated DEF VInv
  <1> QED
    BY <1>1 DEF Init, FInv, FailedHasCause, Failed, UnlinkedExact, LinkedUnlessFailed

(* Every step keeps the causes and the links. *)
LEMMA StepFlags ==
    ASSUME NoInvalidationOnBadDisk, NoReconsider
    PROVE  FInv /\ [Next]_vars => FInv'
  <1> SUFFICES ASSUME FInv, [Next]_vars PROVE FInv'
    OBVIOUS
  <1>1. CInv /\ TInv /\ Validated /\ FailedHasCause /\ UnlinkedExact /\ LinkedUnlessFailed
    BY DEF FInv, CInv
  <1>2. CInv' /\ TInv' /\ Validated'
    BY <1>1, StepChain, StepValidated DEF CInv, VInv
  <1>3. CASE Restart
    <2>1. FailedHasCause'
      BY <1>1, <1>2, <1>3, RestartIndex, CauseKept
    <2>2. UnlinkedExact' /\ LinkedUnlessFailed'
      BY <1>1, <1>2, <1>3, RestartIndex DEF UnlinkedExact, LinkedUnlessFailed
    <2> QED
      BY <1>2, <2>1, <2>2 DEF FInv
  <1>4. CASE ~Restart
    <2>1. failedValid \subseteq failedValid' /\ FailedHasCause'
      BY <1>1, <1>2, <1>4, FlagSteps, CauseKept
    <2>2. ASSUME NEW b \in Block \ {Genesis}, AcceptBlock(b)
          PROVE  UnlinkedExact' /\ LinkedUnlessFailed'
      BY <1>2, <2>2, AcceptBlockLinks
    <2>3. ASSUME \A b \in Block \ {Genesis} : ~AcceptBlock(b)
          PROVE  UnlinkedExact' /\ LinkedUnlessFailed'
      <3>1. UNCHANGED <<haveData, linked, unlinked>>
        <4>1. CASE Quiet
          BY <1>1, <4>1, QuietIndex
        <4>2. CASE DropCandidate
          BY <1>1, <4>2, DropQueuesNone
        <4>3. CASE ConnectFails \/ InvalidateTip \/ FinishInvalidate
          BY <4>3 DEF ConnectFails, InvalidateTip, FinishInvalidate
        <4>4. ASSUME NEW b \in Block \ {Genesis},
                     AcceptBlockHeader(b) \/ RejectFailedDescendant(b) \/ AcceptBadBlock(b)
              PROVE  UNCHANGED <<haveData, linked, unlinked>>
          BY <4>4 DEF AcceptBlockHeader, RejectFailedDescendant, AcceptBadBlock
        <4>5. CASE UNCHANGED vars
          BY <4>5 DEF vars, indexVars
        <4>6. ~\E b \in Block : ReconsiderBlock(b)
          BY DEF ReconsiderBlock, NoReconsider
        <4> QED
          BY <1>4, <2>3, <4>1, <4>2, <4>3, <4>4, <4>5, <4>6, NextCases
      <3> QED
        BY <1>1, <1>2, <2>1, <3>1, LinksKept
    <2> QED
      BY <1>2, <2>1, <2>2, <2>3 DEF FInv
  <1> QED
    BY <1>3, <1>4

(* CheckBlockIndex: a marked block has an ancestor marked for itself, and   *)
(* the blocks with data that wait for an ancestor are in m_blocks_unlinked, *)
(* those below an invalid block excepted: for every tree, every order of    *)
(* arrival and every restart, with invalidateblock as long as the disk      *)
(* works, without reconsiderblock.                                          *)
THEOREM FailuresExplained ==
    ASSUME NoInvalidationOnBadDisk, NoReconsider
    PROVE  Spec => [](FailedHasCause /\ UnlinkedExact)
  <1>1. FInv => FailedHasCause /\ UnlinkedExact
    BY DEF FInv
  <1> QED
    BY <1>1, InitFlags, StepFlags, PTL DEF Spec
-----------------------------------------------------------------------------
(* Without invalidateblock a flag goes back to a block that is invalid.     *)
NoInvalidate == "invalidateblock" \notin Operator

(* What is left of the flags by reconsiderblock, or a restart, was marked   *)
(* before.                                                                  *)
LEMMA StepInnocent ==
    ASSUME NoInvalidate
    PROVE  CInv /\ NoInnocentFailed /\ [Next]_vars => NoInnocentFailed'
  <1> DEFINE Bad == BadBlock \cup BadConnect
  <1> SUFFICES ASSUME CInv, NoInnocentFailed, [Next]_vars PROVE NoInnocentFailed'
    OBVIOUS
  <1>1. TInv /\ TInv'
    BY StepType DEF CInv
  <1>2. \A x : Failed(x) => x \in Block /\ x \in Ancestors[x] /\ Ancestors[x] \cap Bad # {}
    BY <1>1, AncestorsBasic DEF NoInnocentFailed, Failed, TInv, TypeOK
  <1>3. ASSUME \A x : Failed(x)' => x \in Bad \/ \E a \in Ancestors[x] : Failed(a)
        PROVE  NoInnocentFailed'
    <2> SUFFICES ASSUME NEW x \in index', Failed(x)' PROVE Ancestors[x] \cap Bad # {}
      BY DEF NoInnocentFailed
    <2>1. x \in Block /\ x \in Ancestors[x]
      BY <1>1, AncestorsBasic DEF TInv, TypeOK
    <2>2. CASE x \in Bad
      BY <2>1, <2>2
    <2>3. ASSUME NEW a \in Ancestors[x], Failed(a) PROVE Ancestors[x] \cap Bad # {}
      BY SMTT(60), <1>2, <2>1, <2>3, AncestorsTransitive
    <2> QED
      BY <1>3, <2>2, <2>3
  <1> HIDE DEF Bad
  <1>4. CASE Quiet \/ UNCHANGED vars
    BY <1>1, <1>2, <1>3, <1>4, QuietIndex DEF vars, indexVars, Failed
  <1>5. CASE DropCandidate
    BY <1>2, <1>3, <1>5 DEF DropCandidate, Above, Failed
  <1>6. CASE ConnectFails
    BY <1>2, <1>3, <1>6 DEF ConnectFails, Failed, Bad
  <1>7. CASE InvalidateTip \/ FinishInvalidate
    BY <1>7 DEF InvalidateTip, FinishInvalidate, CInv, NoInvalidate
  <1>8. CASE Restart
    BY <1>1, <1>2, <1>3, <1>8, RestartIndex DEF Failed
  <1>9. ASSUME NEW b \in Block \ {Genesis}, AcceptBlockHeader(b) \/ AcceptBadBlock(b) \/ AcceptBlock(b)
        PROVE  NoInnocentFailed'
    <2>1. failedChild' = failedChild /\ failedValid' \subseteq failedValid \cup Bad
      BY <1>9 DEF AcceptBlockHeader, AcceptBadBlock, AcceptBlock, Bad
    <2> QED
      BY <1>2, <1>3, <2>1 DEF Failed
  <1>10. ASSUME NEW b \in Block \ {Genesis}, RejectFailedDescendant(b)
        PROVE  NoInnocentFailed'
    <2>1. PICK f \in FailedAncestors(b) :
            failedChild' = failedChild \cup {x \in Ancestors[Parent[b]] : x # f /\ f \in Ancestors[x]}
      BY <1>10 DEF RejectFailedDescendant
    <2>2. Failed(f) /\ failedValid' = failedValid
      BY <1>10 DEF FailedAncestors, CInv, Failed, RejectFailedDescendant
    <2> QED
      BY <1>2, <1>3, <2>1, <2>2 DEF Failed
  <1>11. ASSUME NEW b \in Block, ReconsiderBlock(b) PROVE NoInnocentFailed'
    BY <1>2, <1>3, <1>11 DEF ReconsiderBlock, Failed
  <1> QED
    BY <1>4, <1>5, <1>6, <1>7, <1>8, <1>9, <1>10, <1>11, NextCases

(* A block is marked as failed only if it, or an ancestor, fails            *)
(* ContextualCheckBlock or ConnectBlock: for every tree, over failed        *)
(* reorganisations, disk errors and restarts, with reconsiderblock and      *)
(* preciousblock, unless the operator invalidates blocks.                   *)
THEOREM FailuresDeserved ==
    ASSUME NoInvalidate
    PROVE  Spec => []NoInnocentFailed
  <1>1. NoInvalidationOnBadDisk
    BY DEF NoInvalidate, NoInvalidationOnBadDisk
  <1>2. Init => CInv /\ NoInnocentFailed
    BY InitChain DEF Init, NoInnocentFailed, Failed
  <1>3. CInv /\ NoInnocentFailed /\ [Next]_vars => CInv' /\ NoInnocentFailed'
    BY <1>1, StepChain, StepInnocent
  <1> QED
    BY <1>2, <1>3, PTL DEF Spec
-----------------------------------------------------------------------------
(* b descends from a block that is marked and will get no data. *)
Stuck(b) == \E z \in Ancestors[b] \ haveData : Failed(z)

(* LinkedIffAllData needs more than UnlinkedExact: a block below a failed   *)
(* one may be missing from m_blocks_unlinked, but then it can never be      *)
(* linked. What is marked and has data is linked or hopeless, since the     *)
(* marks start at linked blocks (m_failed_blocks) or at blocks without data.*)
LInv == /\ FInv
        /\ failedBlocks \subseteq linked
        /\ LinkedIffAllData
        /\ \A b \in haveData \ linked : b \in unlinked \/ Stuck(b)
        /\ \A b \in haveData \ linked : Failed(b) => Stuck(b)

(* A step that gives no block data, changes no link and marks no block with *)
(* data that waits, unless it is stuck then.                                *)
LEMMA WaitingKept ==
    ASSUME LInv, FInv', UNCHANGED <<haveData, linked, unlinked>>,
           failedBlocks' \subseteq linked,
           failedValid \cup failedChild \subseteq failedValid' \cup failedChild',
           index \subseteq index',
           \A x \in haveData \ linked : Failed(x)' => Failed(x) \/ Stuck(x)'
    PROVE  LInv'
  <1>1. LinkedIffAllData'
    <2>1. \A x \in index' : Ancestors[x] \subseteq haveData => x \in index
      BY AncestorsBasic DEF LInv, FInv, CInv, TInv, TypeOK
    <2> QED
      BY <2>1 DEF LInv, LinkedIffAllData
  <1>2. \A x : Stuck(x) => Stuck(x)'
    BY DEF Stuck, Failed
  <1> QED
    BY <1>1, <1>2 DEF LInv

(* The blocks AcceptBlockHeader marks below a failed, linked block: with    *)
(* one that has data and waits the one it waits for is marked.              *)
LEMMA RejectWaiting ==
    ASSUME LInv, FInv', NEW b \in Block \ {Genesis}, RejectFailedDescendant(b)
    PROVE  LInv'
  <1>1. PICK f \in FailedAncestors(b) :
            failedChild' = failedChild \cup {x \in Ancestors[Parent[b]] : x # f /\ f \in Ancestors[x]}
    BY DEF RejectFailedDescendant
  <1>2. /\ UNCHANGED <<index, haveData, linked, unlinked, failedValid, failedBlocks>>
        /\ Parent[b] \in index
    BY DEF RejectFailedDescendant, HeaderConnects
  <1>3. f \in linked /\ Ancestors[f] \subseteq haveData /\ f \in Ancestors[f]
    BY ClosedSet, AncestorsBasic DEF FailedAncestors, LInv, FInv, CInv, TInv, TypeOK
  <1>4. ASSUME NEW x \in haveData \ linked, Failed(x)' PROVE Failed(x) \/ Stuck(x)'
    <2> SUFFICES ASSUME ~Failed(x) PROVE Stuck(x)'
      OBVIOUS
    <2>1. x \in Ancestors[Parent[b]] /\ x # f /\ f \in Ancestors[x]
      BY <1>1, <1>2, <1>4 DEF Failed
    <2>2. x \in index /\ x \in Block /\ Parent[b] \in Block
      BY <1>2 DEF LInv, FInv, CInv, TInv, TypeOK
    <2>3. PICK z \in Ancestors[x] : z \notin haveData
      BY <2>2 DEF LInv, LinkedIffAllData
    <2>4. f \in Ancestors[z] /\ z # f
      BY <1>3, <2>1, <2>2, <2>3, AncestorsOrdered
    <2>5. z \in Ancestors[Parent[b]]
      BY <2>1, <2>2, <2>3, AncestorsTransitive
    <2>6. z \in failedChild'
      BY <1>1, <2>4, <2>5
    <2> QED
      BY <1>2, <2>3, <2>6 DEF Stuck, Failed
  <1> QED
    BY <1>1, <1>2, <1>4, WaitingKept DEF LInv

(* A block that is stored is not marked, so it frees nothing that is stuck. *)
LEMMA AcceptBlockWaiting ==
    ASSUME LInv, FInv', NEW b \in Block \ {Genesis}, AcceptBlock(b)
    PROVE  LInv'
  <1>1. TInv /\ Validated /\ LinkedIffAllData
    BY DEF LInv, FInv, CInv
  <1>2. b \notin haveData /\ ~Failed(b) /\ b \notin linked /\ Parent[b] \in index
    BY <1>1, WantedBlock DEF AcceptBlock
  <1>3. /\ haveData' = haveData \cup {b} /\ index' = index \cup {b}
        /\ UNCHANGED <<failedValid, failedChild, failedBlocks>>
    BY DEF AcceptBlock
  <1>4. b \in Ancestors[b] /\ Parent[b] \in Ancestors[b] /\ b \notin Ancestors[Parent[b]] /\ Parent[b] \in Block
        /\ Ancestors[b] = Ancestors[Parent[b]] \cup {b}
    BY AncestorsBasic, AncestorsOfParent, AncestorsHeight
  <1>5. \A x : Stuck(x) <=> Stuck(x)'
    BY <1>2, <1>3 DEF Stuck, Failed
  <1>6. linked' \subseteq {x \in index' : Ancestors[x] \subseteq haveData'} /\ linked \subseteq linked'
    <2>1. linked' \subseteq haveData' /\ ParentClosed(linked') /\ linked' \subseteq index' /\ linked' \subseteq Block
      BY DEF FInv, CInv, TInv, TypeOK
    <2>2. linked \subseteq linked'
      BY DEF AcceptBlock
    <2> QED
      BY <2>1, <2>2, ClosedSet
  <1>7. CASE Parent[b] \in linked
    <2> DEFINE L == NowLinked(b)
    <2>1. linked' = linked \cup L /\ unlinked' = unlinked \ L /\ b \in L
      BY <1>4, <1>7 DEF AcceptBlock, NowLinked
    <2>2. ASSUME NEW x \in index', Ancestors[x] \subseteq haveData' PROVE x \in linked'
      <3>1. x \in Block /\ x \in Ancestors[x]
        BY AncestorsBasic DEF FInv, CInv, TInv, TypeOK
      <3>2. CASE b \notin Ancestors[x]
        BY <1>1, <1>3, <2>1, <2>2, <3>1, <3>2 DEF LinkedIffAllData
      <3>3. CASE b \in Ancestors[x]
        <4>1. ASSUME NEW y \in Ancestors[x] \ Ancestors[b] PROVE y \in unlinked
          <5>1. y \in haveData \ linked
            BY <1>1, <1>2, <1>3, <1>4, <2>2, <3>1, <3>3, BetweenUnlinked
          <5>2. ~Stuck(y)
            BY <1>2, <1>3, <2>2, <3>1, AncestorsTransitive DEF Stuck
          <5> QED
            BY <5>1, <5>2 DEF LInv
        <4>2. x \in unlinked \cup {b}
          <5>1. CASE x \in Ancestors[b]
            <6>1. x = b \/ x \in Ancestors[Parent[b]]
              BY <1>4, <5>1
            <6>2. x \in Ancestors[Parent[b]] => b \in Ancestors[Parent[b]]
              BY <1>4, <3>3, AncestorsTransitive
            <6> QED
              BY <1>4, <6>1, <6>2
          <5> QED
            BY <3>1, <4>1, <5>1
        <4>3. x \in L
          BY <3>3, <4>1, <4>2 DEF NowLinked
        <4> QED
          BY <2>1, <4>3
      <3> QED
        BY <3>2, <3>3
    <2>3. LinkedIffAllData'
      BY <1>6, <2>2 DEF LinkedIffAllData
    <2>4. \A x \in haveData' \ linked' : x \in haveData \ linked /\ (x \in unlinked => x \in unlinked')
      BY <1>3, <2>1
    <2> HIDE DEF L
    <2> QED
      BY <1>3, <1>5, <1>6, <2>3, <2>4 DEF LInv, Failed
  <1>8. CASE Parent[b] \notin linked
    <2>1. linked' = linked /\ unlinked' = QueuedBehind(b) /\ unlinked \subseteq unlinked'
      BY <1>8 DEF AcceptBlock, QueuedBehind
    <2>2. b \in unlinked' \/ Stuck(b)
      <3>1. CASE IsValid(Parent[b], VALID_TREE)
        BY <2>1, <3>1 DEF QueuedBehind
      <3>2. CASE ~IsValid(Parent[b], VALID_TREE)
        <4>1. Failed(Parent[b])
          BY <1>1, <1>2, <3>2 DEF IsValid, Validated
        <4>2. CASE Parent[b] \notin haveData
          BY <1>4, <4>1, <4>2 DEF Stuck
        <4>3. CASE Parent[b] \in haveData
          BY <1>4, <1>8, <4>1, <4>3 DEF Stuck, LInv
        <4> QED
          BY <4>2, <4>3
      <3> QED
        BY <3>1, <3>2
    <2>3. ASSUME NEW x \in index', Ancestors[x] \subseteq haveData' PROVE x \in linked
      <3>1. x \in Block /\ x \in Ancestors[x]
        BY AncestorsBasic DEF FInv, CInv, TInv, TypeOK
      <3>2. b \notin Ancestors[x]
        <4> SUFFICES ASSUME b \in Ancestors[x] PROVE FALSE
          OBVIOUS
        <4>1. Ancestors[Parent[b]] \subseteq Ancestors[x]
          BY <1>4, <3>1, AncestorsTransitive
        <4>2. Ancestors[Parent[b]] \subseteq haveData
          BY <1>3, <1>4, <2>3, <4>1
        <4> QED
          BY <1>1, <1>2, <1>8, <4>2 DEF LinkedIffAllData
      <3> QED
        BY <1>1, <1>3, <2>3, <3>1, <3>2 DEF LinkedIffAllData
    <2>4. LinkedIffAllData'
      BY <1>6, <2>1, <2>3 DEF LinkedIffAllData
    <2>5. \A x \in haveData' \ linked' : x = b \/ x \in haveData \ linked
      BY <1>3, <2>1
    <2>6. \A x \in haveData' \ linked' : (x \in unlinked' \/ Stuck(x)') /\ (Failed(x)' => Stuck(x)')
      BY <1>2, <1>3, <1>5, <2>1, <2>2, <2>5 DEF LInv, Failed
    <2> QED
      BY <1>3, <2>1, <2>4, <2>6 DEF LInv
  <1> QED
    BY <1>7, <1>8

(* LoadBlockIndex spreads the flags to the block a marked one waits for, if *)
(* that descends from a marked block.                                       *)
LEMMA RestartWaiting ==
    ASSUME LInv, FInv', Restart
    PROVE  LInv'
  <1>1. TInv /\ TInv' /\ FailedHasCause /\ LinkedIffAllData
    BY DEF LInv, FInv, CInv
  <1>2. /\ UNCHANGED <<index, haveData, failedValid>> /\ failedBlocks' = {}
        /\ linked' = {b \in index : Ancestors[b] \subseteq haveData} /\ unlinked' = haveData \ linked'
        /\ \A x \in failedChild' : \E a \in Ancestors[x] : Failed(a)
        /\ \A x \in index : (Ancestors[x] \cap failedValid # {} => Failed(x)')
    BY <1>1, RestartIndex
  <1>3. haveData \subseteq index /\ index \subseteq Block /\ ParentClosed(index)
    BY <1>1 DEF TInv, TypeOK
  <1>4. \A x : Failed(x) => Failed(x)'
    BY <1>1, <1>2 DEF FailedHasCause, NoFailedAncestor, Failed, TInv, TypeOK
  <1>5. ASSUME NEW b \in haveData \ linked', Failed(b)' PROVE Stuck(b)'
    <2>1. b \in Block /\ b \in index /\ b \in Ancestors[b] /\ Ancestors[b] \subseteq index
      BY <1>3, AncestorsBasic, ClosedSet
    <2>2. PICK a \in Ancestors[b] : Failed(a)
      BY <1>2, <1>5, <2>1 DEF Failed
    <2>3. PICK f \in Ancestors[a] : f \in failedValid
      BY <1>1, <2>1, <2>2 DEF FailedHasCause, NoFailedAncestor
    <2>4. a \in Block /\ f \in Ancestors[b]
      BY <2>1, <2>3, AncestorsTransitive
    <2>5. PICK w \in Ancestors[b] : w \notin haveData
      BY <1>2, <1>5, <2>1
    <2>6. CASE f \in Ancestors[w]
      BY <1>2, <2>1, <2>3, <2>5, <2>6 DEF Stuck
    <2>7. CASE w \in Ancestors[f]
      <3>1. f \in Block /\ f \in index /\ f \in Ancestors[f] /\ Failed(f)
        BY <2>1, <2>3, <2>4, AncestorsBasic DEF Failed
      <3>2. CASE f \notin haveData
        BY <1>2, <1>4, <2>4, <3>1, <3>2 DEF Stuck
      <3>3. CASE f \in haveData
        <4>1. f \notin linked
          BY <1>1, <2>5, <2>7 DEF LinkedIffAllData
        <4>2. PICK z \in Ancestors[f] \ haveData : Failed(z)
          BY <3>1, <3>3, <4>1 DEF LInv, Stuck
        <4>3. z \in Ancestors[b]
          BY <2>1, <2>4, <4>2, AncestorsTransitive
        <4> QED
          BY <1>2, <1>4, <4>2, <4>3 DEF Stuck
      <3> QED
        BY <3>2, <3>3
    <2> QED
      BY <2>1, <2>4, <2>5, <2>6, <2>7, AncestorsOrdered
  <1>6. LinkedIffAllData' /\ failedBlocks' \subseteq linked'
    BY <1>2 DEF LinkedIffAllData
  <1> QED
    BY <1>2, <1>5, <1>6 DEF LInv

(* Every step keeps the links. *)
LEMMA StepLinks ==
    ASSUME NoInvalidate, NoReconsider
    PROVE  LInv /\ [Next]_vars => LInv'
  <1> SUFFICES ASSUME LInv, [Next]_vars PROVE LInv'
    OBVIOUS
  <1>1. FInv' /\ TInv /\ CInv
    <2>1. NoInvalidationOnBadDisk
      BY DEF NoInvalidate, NoInvalidationOnBadDisk
    <2> QED
      BY <2>1, StepFlags DEF LInv, FInv, CInv
  <1>2. CASE Quiet \/ UNCHANGED vars
    <2>1. UNCHANGED <<index, haveData, failedValid, failedChild, linked, unlinked, failedBlocks>>
      BY <1>1, <1>2, QuietIndex DEF vars, indexVars
    <2> QED
      BY <1>1, <2>1, WaitingKept DEF LInv, Failed
  <1>3. CASE DropCandidate
    <2>1. UNCHANGED <<index, validity, haveData, failedValid, linked, unlinked, failedBlocks>>
      BY <1>1, <1>3, DropQueuesNone
    <2>2. PICK c \in candidates : \E x \in Unusable(c) :
            failedChild' = IF Failed(x) THEN failedChild \cup Above(c, x) ELSE failedChild
      BY <1>3 DEF DropCandidate
    <2>3. Ancestors[c] \subseteq linked
      BY <1>1, ClosedSet DEF TInv, TypeOK
    <2>4. failedChild \subseteq failedChild' /\ failedChild' \subseteq failedChild \cup linked
      BY <2>2, <2>3 DEF Above, Branch
    <2> QED
      BY <1>1, <2>1, <2>4, WaitingKept DEF LInv, Failed
  <1>4. CASE ConnectFails
    <2>1. PICK b \in BadConnect : /\ NextToConnect(b) /\ failedValid' = failedValid \cup {b}
                                  /\ failedBlocks' = failedBlocks \cup {b}
      BY <1>4 DEF ConnectFails
    <2>2. pc = "step" /\ UNCHANGED <<index, haveData, failedChild, linked, unlinked>>
      BY <1>4 DEF ConnectFails
    <2>3. b \in linked
      BY <1>1, <2>1, <2>2, Constants, NextIsLinked
    <2> QED
      BY <1>1, <2>1, <2>2, <2>3, WaitingKept DEF LInv, Failed
  <1>5. CASE InvalidateTip \/ FinishInvalidate
    BY <1>1, <1>5 DEF InvalidateTip, FinishInvalidate, CInv, NoInvalidate
  <1>6. CASE Restart
    BY <1>1, <1>6, RestartWaiting
  <1>7. ASSUME NEW b \in Block \ {Genesis}, AcceptBlockHeader(b) \/ AcceptBadBlock(b) PROVE LInv'
    <2>1. /\ UNCHANGED <<haveData, linked, unlinked, failedChild, failedBlocks>> /\ index' = index \cup {b}
          /\ failedValid' = failedValid \/ (failedValid' = failedValid \cup {b} /\ b \notin haveData)
      BY <1>7 DEF AcceptBlockHeader, AcceptBadBlock, BlockWanted
    <2> QED
      BY <1>1, <2>1, WaitingKept DEF LInv, Failed
  <1>8. ASSUME NEW b \in Block \ {Genesis}, RejectFailedDescendant(b) \/ AcceptBlock(b) PROVE LInv'
    BY <1>1, <1>8, RejectWaiting, AcceptBlockWaiting
  <1>9. ~\E b \in Block : ReconsiderBlock(b)
    BY DEF ReconsiderBlock, NoReconsider
  <1> QED
    BY <1>2, <1>3, <1>4, <1>5, <1>6, <1>7, <1>8, <1>9, NextCases

(* HaveTxsDownloaded() says exactly that the data of the whole chain has    *)
(* arrived, and m_blocks_unlinked holds what waits: for every tree, every   *)
(* order of arrival, every failed reorganisation, disk error and restart,   *)
(* unless the operator marks blocks or clears their marks.                  *)
THEOREM IndexCorrect ==
    ASSUME NoInvalidate, NoReconsider
    PROVE  Spec => []IndexLinked
  <1>1. Init => LInv
    <2> SUFFICES ASSUME Init PROVE LInv
      OBVIOUS
    <2>1. FInv /\ Ancestors[Genesis] = {Genesis}
      BY InitFlags, AncestorsOfParent
    <2> QED
      BY <2>1 DEF Init, LInv, LinkedIffAllData
  <1>2. LInv => IndexLinked
    BY DEF LInv, FInv, IndexLinked
  <1> QED
    BY <1>1, <1>2, StepLinks, PTL DEF Spec
-----------------------------------------------------------------------------
(* InvalidateBlock marks the last block it disconnected. While its target   *)
(* is in the chain that one is above it.                                    *)
TargetInv == TInv /\ (pc = "inv" => InChain(target) \/ toMark = target)

(* No other thread moves the tip or the locals of InvalidateBlock. *)
LEMMA StepTarget == TargetInv /\ [Next]_vars => TargetInv'
  <1> SUFFICES ASSUME TargetInv, [Next]_vars PROVE TargetInv'
    OBVIOUS
  <1>1. TInv'
    BY StepType DEF TargetInv
  <1>2. CASE InvalidateTip
    <2>1. tip \in Block \ {Genesis}
      BY <1>2, TipParent DEF TargetInv, InvalidateTip, InvalidateGoesOn, TInv
    <2>2. target \in Ancestors[tip] /\ target' = target /\ toMark' = tip /\ tip' = Parent[tip]
      BY <1>2 DEF InvalidateTip, InvalidateGoesOn, InChain, DisconnectTip
    <2>3. Ancestors[tip] = Ancestors[Parent[tip]] \cup {tip}
      BY <2>1, AncestorsOfParent
    <2> QED
      BY <1>1, <2>2, <2>3 DEF TargetInv, InChain
  <1>3. ASSUME NEW b \in Block, StartInvalidate(b) PROVE TargetInv'
    BY <1>1, <1>3 DEF StartInvalidate, TargetInv
  <1>4. CASE pc' # "inv" \/ UNCHANGED <<pc, tip, target, toMark>>
    BY <1>1, <1>4 DEF TargetInv, InChain
  <1>5. CASE Activate
    <2>1. CASE StartActivate \/ LockRound \/ BeginStep \/ NothingToDo
      BY <1>4, <2>1 DEF StartActivate, LockRound, BeginStep, NothingToDo
    <2>2. CASE DropCandidate \/ DisconnectStep
      <3>1. pc' = pc /\ pc \in {"find", "step"}
        BY <2>2 DEF DropCandidate, DisconnectStep, abcVars
      <3> QED
        BY <1>4, <3>1
    <2>3. CASE ConnectStep
      BY <1>4, <2>3, EndStepType DEF ConnectStep
    <2>4. CASE ConnectFails
      BY <1>4, <2>4, EndStepType DEF ConnectFails
    <2> QED
      BY <1>5, <2>1, <2>2, <2>3, <2>4 DEF Activate
  <1>6. CASE ReadError \/ FlushError \/ AssertionFails \/ InvalidateError \/ FinishInvalidate
             \/ RequestShutdown \/ Restart
    BY <1>4, <1>6 DEF ReadError, FlushError, AssertionFails, InvalidateError, FinishInvalidate,
       RequestShutdown, Restart, abcVars, invVars, tipVars
  <1>7. ASSUME NEW b \in Block \ {Genesis},
               AcceptBlockHeader(b) \/ RejectFailedDescendant(b) \/ AcceptBadBlock(b) \/ AcceptBlock(b)
        PROVE  UNCHANGED <<pc, tip, target, toMark>>
    BY <1>7 DEF AcceptBlockHeader, RejectFailedDescendant, AcceptBadBlock, AcceptBlock, abcVars, invVars, tipVars
  <1>8. ASSUME NEW b \in Block, ReconsiderBlock(b) \/ PreciousBlock(b)
        PROVE  UNCHANGED <<pc, tip, target, toMark>>
    BY <1>8 DEF ReconsiderBlock, PreciousBlock, abcVars, invVars, tipVars
  <1>9. CASE UNCHANGED vars
    BY <1>4, <1>9 DEF vars, abcVars, invVars, tipVars
  <1> QED
    BY <1>2, <1>3, <1>4, <1>5, <1>6, <1>7, <1>8, <1>9 DEF Next

(* InvalidateBlock, when it runs to its end, leaves the block asked for     *)
(* marked and out of the active chain: for every tree and every target,     *)
(* whatever arrives or is reconsidered between its rounds.                  *)
THEOREM InvalidationReachesTarget == Spec => InvalidateMarksTarget
  <1>1. Init => TargetInv
    BY InitType DEF Init, TargetInv
  <1>2. TargetInv /\ [Next]_vars =>
            [FinishInvalidate /\ ~shutdown => target \in failedValid' /\ target \notin Ancestors[tip']]_vars
    BY DEF TargetInv, FinishInvalidate, InvalidateGoesOn, InChain, tipVars
  <1> QED
    BY <1>1, <1>2, StepTarget, PTL DEF Spec, InvalidateMarksTarget
-----------------------------------------------------------------------------
(* The candidates after a restart. *)
LEMMA RestartCandidates ==
    ASSUME VInv, Restart
    PROVE  /\ coinsBest' = tip'
           /\ \A b \in index : /\ Ancestors[b] \subseteq haveData /\ ~WorseBy(seqId', addr', b, tip')
                               /\ Ancestors[b] \cap (failedValid \cup failedChild) = {}
                               => b \in candidates'
  <1>1. coinsBest' = coinsBest /\ tip' = coinsBest
    BY DEF Restart
  <1>2. PICK saved \in SUBSET failedChild :
          LET flagged == failedValid \cup saved
              spread == {b \in index \ flagged : Ancestors[b] \cap flagged # {}}
              valid == index \ (flagged \cup spread)
              all == {b \in haveData : Ancestors[b] \subseteq haveData}
              zero == [b \in Block |-> 0]
          IN  /\ seqId' = zero
              /\ candidates' = PruneBlockIndexCandidates(
                      {b \in valid \cap all : validity[b] >= VALID_TRANSACTIONS}, zero, addr', coinsBest)
    BY DEF Restart
  <1>3. ASSUME NEW b \in index, Ancestors[b] \subseteq haveData, ~WorseBy(seqId', addr', b, tip'),
               Ancestors[b] \cap (failedValid \cup failedChild) = {}
        PROVE  b \in candidates'
    <2>1. b \in Ancestors[b]
      BY AncestorsBasic DEF VInv, TInv, TypeOK
    <2>2. b \in haveData /\ validity[b] >= VALID_TRANSACTIONS
      BY <1>3, <2>1 DEF VInv, Validated
    <2>3. b \notin failedValid \cup saved /\ Ancestors[b] \cap (failedValid \cup saved) = {}
      BY <1>3, <2>1
    <2> QED
      BY <1>1, <1>2, <1>3, <2>2, <2>3 DEF PruneBlockIndexCandidates
  <1> QED
    BY <1>1, <1>3

(* LoadBlockIndex and LoadChainTip find every candidate that no flag        *)
(* excluded, with the tip at the coins: for every tree and whatever errors  *)
(* of the disk, invalidateblock and reconsiderblock left behind.            *)
THEOREM RestartRepairs == Spec => CompleteAfterRestart
  <1>1. VInv /\ [Next]_vars =>
            [Restart =>
                /\ coinsBest' = tip'
                /\ \A b \in index : /\ Ancestors[b] \subseteq haveData /\ ~WorseBy(seqId', addr', b, tip')
                                    /\ Ancestors[b] \cap (failedValid \cup failedChild) = {}
                                    => b \in candidates']_vars
    BY RestartCandidates
  <1> QED
    BY <1>1, InitValidated, StepValidated, PTL DEF Spec, CompleteAfterRestart
-----------------------------------------------------------------------------

(* CBlockIndexWorkComparator is a strict total order. *)
LEMMA WorseOrder ==
    ASSUME NEW seq \in [Block -> Int], NEW at \in Layouts
    PROVE  /\ \A a \in Block : ~WorseBy(seq, at, a, a)
           /\ \A a, b \in Block : WorseBy(seq, at, a, b) => ~WorseBy(seq, at, b, a)
           /\ \A a, b, c \in Block : ~WorseBy(seq, at, a, b) /\ ~WorseBy(seq, at, b, c) => ~WorseBy(seq, at, a, c)
  <1>1. \A a \in Block : ChainWork[a] \in Int /\ seq[a] \in Int /\ at[a] \in Int
    BY SMTT(60), TreeAssumption
  <1>2. ASSUME NEW a \in Block, NEW b \in Block
        PROVE  WorseBy(seq, at, a, b) => ~WorseBy(seq, at, b, a)
    BY <1>1, SMTT(30) DEF WorseBy
  <1>3. ASSUME NEW a \in Block, NEW b \in Block, NEW c \in Block,
               ~WorseBy(seq, at, a, b), ~WorseBy(seq, at, b, c)
        PROVE  ~WorseBy(seq, at, a, c)
    BY <1>1, <1>3, SMTT(30) DEF WorseBy
  <1> QED
    BY <1>2, <1>3

(* A block has more work than its ancestors, so it sorts after none. *)
LEMMA AncestorsWorse ==
    ASSUME NEW seq \in [Block -> Int], NEW at \in Layouts, NEW b \in Block, NEW a \in Ancestors[b]
    PROVE  ~WorseBy(seq, at, b, a) /\ (a # b => WorseBy(seq, at, a, b))
  <1> DEFINE S == {x \in Block : x = b \/ ChainWork[x] < ChainWork[b]}
  <1>1. \A x \in Block : ChainWork[x] \in Int
    BY SMTT(60), TreeAssumption
  <1>2. ASSUME NEW x \in S, x # Genesis PROVE Parent[x] \in S
    <2>1. Parent[x] \in Block /\ ChainWork[x] > ChainWork[Parent[x]]
      BY <1>2, TreeAssumption
    <2> QED
      BY <1>1, <2>1, SMTT(30)
  <1>3. a \in S
    BY <1>2, AncestorsBasic DEF ParentClosed
  <1>4. CASE a = b
    BY <1>4, WorseOrder
  <1>5. CASE ChainWork[a] < ChainWork[b]
    BY <1>1, <1>3, <1>5, SMTT(30) DEF WorseBy
  <1> QED
    BY <1>3, <1>4, <1>5
-----------------------------------------------------------------------------
(* The chain the round began with stays valid. *)
StartSound ==
    pc \in {"find", "step"} =>
        /\ startTip \in linked
        /\ \A b \in Ancestors[startTip] : ~Failed(b) /\ b \notin BadConnect

(* No candidate sorts before the tip. *)
NoneWorse == \A c \in candidates : ~Worse(c, tip)

(* Every valid linked block that sorts at least as well as the tip, and as  *)
(* the tip at the start of the round, is a candidate; between the rounds of *)
(* InvalidateBlock only as long as nothing was disconnected.                *)
NoneMissing ==
    (pc = "inv" => InChain(toMark)) =>
        \A b \in linked : /\ NoFailedAncestor(b) /\ ~Worse(b, tip)
                          /\ pc \in {"find", "step"} => ~Worse(b, startTip)
                          => b \in candidates

(* Until the fork point is reached the tip is below that of the start. *)
Falling == pc = "find" \/ (pc = "step" /\ tip \notin Ancestors[mostWork]) => ~Worse(startTip, tip)

(* A cached pindexMostWork is worth going to. *)
Aim == mostWork # NoBlock => /\ (pc = "abc" => tip \in Ancestors[mostWork])
                             /\ (pc \in {"find", "step"} => ~Worse(mostWork, startTip))

Best(m) == \A b \in linked : NoFailedAncestor(b) => ~Worse(m, b)

(* Unless some thread has yet to call ActivateBestChain, nothing is better  *)
(* than the tip or than what the running call goes to.                      *)
BestKnown ==
    \/ pending \/ shutdown
    \/ /\ pc = "idle" => Best(tip)
       /\ pc \in {"abc", "find", "step"} /\ mostWork # NoBlock => Best(mostWork)

(* Between the rounds of InvalidateBlock: of the valid blocks that were     *)
(* linked when it began, those no worse than the tip are candidates, and    *)
(* those that may become so are candidates or in its list.                  *)
Remembered ==
    pc = "inv" =>
        \A b \in seen : NoFailedAncestor(b) =>
            /\ ~Worse(b, tip) => b \in candidates
            /\ InChain(target) /\ ~InChain(b) /\ ~Worse(b, Parent[target]) => b \in byWork \cup candidates

(* CandidatesExact holds between the rounds only; within them the tip at    *)
(* the start of the round takes the place of the tip that falls.            *)
KInv == /\ FInv /\ StartSound /\ NoneWorse /\ NoneMissing /\ Remembered /\ Falling /\ Aim /\ BestKnown
        /\ pc = "inv" => tip \in candidates
        /\ pc # "aborted"

(* preciousblock may give the tip a worse sequence id than an earlier one,  *)
(* reconsiderblock leaves ancestors out of the candidates, and after an     *)
(* error of the disk the candidates are complete again at the next start.   *)
OnlyInvalidate == ~DiskMayFail /\ Operator \subseteq {"invalidateblock"}

(* The assumptions of the modules below follow. *)
LEMMA OnlyInvalidateAssumed ==
    ASSUME OnlyInvalidate
    PROVE  NoInvalidationOnBadDisk /\ NoReconsider /\ "preciousblock" \notin Operator
  BY DEF OnlyInvalidate, NoInvalidationOnBadDisk, NoReconsider

(* The order of the moment, and the blocks it is used on. *)
LEMMA WorseNow ==
    ASSUME TInv
    PROVE  /\ linked \subseteq Block /\ tip \in linked /\ candidates \subseteq linked
           /\ mostWork # NoBlock => mostWork \in linked
           /\ \A a \in Block : ~Worse(a, a)
           /\ \A a, b \in Block : Worse(a, b) => ~Worse(b, a)
           /\ \A a, b, c \in Block : ~Worse(a, b) /\ ~Worse(b, c) => ~Worse(a, c)
           /\ \A b \in Block : \A a \in Ancestors[b] : ~Worse(b, a) /\ (a # b => Worse(a, b))
  BY WorseOrder, AncestorsWorse DEF TInv, TypeOK, Worse

(* The tip is valid, and a candidate unless a round is under way. *)
LEMMA TipCandidate ==
    ASSUME KInv
    PROVE  /\ tip \in linked /\ NoFailedAncestor(tip)
           /\ pc \notin {"find", "step"} => tip \in candidates
  <1>1. TInv /\ \A b \in Ancestors[tip] : ~Failed(b)
    BY DEF KInv, FInv, CInv, Connected
  <1>2. tip \in linked /\ NoFailedAncestor(tip) /\ ~Worse(tip, tip)
    BY <1>1, WorseNow DEF NoFailedAncestor, Failed
  <1> QED
    BY <1>2 DEF KInv, NoneMissing

(* In a round some candidate is no worse than the tip at its start. *)
LEMMA RoundCandidate ==
    ASSUME KInv, pc \in {"find", "step"}
    PROVE  \E d \in candidates : ~Worse(d, startTip) /\ ~Worse(d, tip)
  <1>1. TInv /\ tip \in linked /\ NoFailedAncestor(tip) /\ startTip \in linked /\ linked \subseteq Block
    BY TipCandidate DEF KInv, FInv, CInv, StartSound, TInv, TypeOK
  <1>2. NoFailedAncestor(startTip)
    BY DEF KInv, StartSound, NoFailedAncestor, Failed
  <1>3. ~Worse(startTip, startTip) /\ ~Worse(tip, tip) /\ (Worse(startTip, tip) => ~Worse(tip, startTip))
    BY <1>1, WorseNow
  <1>4. CASE Worse(startTip, tip)
    BY <1>1, <1>3, <1>4 DEF KInv, NoneMissing
  <1>5. CASE ~Worse(startTip, tip)
    BY <1>1, <1>2, <1>3, <1>5 DEF KInv, NoneMissing
  <1> QED
    BY <1>4, <1>5

(* FindMostWorkChain's choice is no worse than the tip at the start of the  *)
(* round, and no valid linked block is better.                              *)
LEMMA BestCandidate ==
    ASSUME KInv, pc = "find", NEW c, IsBestCandidate(c)
    PROVE  ~Worse(c, startTip) /\ Best(c)
  <1>1. TInv /\ linked \subseteq Block /\ c \in linked /\ candidates \subseteq linked /\ startTip \in linked /\ tip \in linked
    BY DEF KInv, FInv, CInv, TInv, TypeOK, IsBestCandidate, StartSound
  <1>2. PICK d \in candidates : ~Worse(d, startTip) /\ ~Worse(d, tip)
    BY RoundCandidate
  <1>3. ~Worse(c, d)
    BY DEF IsBestCandidate
  <1>4. ~Worse(c, startTip) /\ ~Worse(c, tip)
    BY <1>1, <1>2, <1>3, WorseNow
  <1>5. ASSUME NEW b \in linked, NoFailedAncestor(b), Worse(c, b) PROVE FALSE
    <2>1. ~Worse(b, c)
      BY <1>1, <1>5, WorseNow
    <2>2. ~Worse(b, startTip) /\ ~Worse(b, tip)
      BY <1>1, <1>4, <2>1, WorseNow
    <2>3. b \in candidates
      BY <1>5, <2>2 DEF KInv, NoneMissing
    <2> QED
      BY <1>5, <2>3 DEF IsBestCandidate
  <1> QED
    BY <1>4, <1>5 DEF Best

(* A round that finds nothing to do ends no worse than it began. *)
LEMMA NothingForward ==
    ASSUME KInv, NothingToDo
    PROVE  ~Worse(tip, startTip) /\ (Best(tip) \/ pending \/ shutdown)
  <1>1. pc = "find"
    BY DEF NothingToDo
  <1>2. CASE mostWork = NoBlock
    <2>1. candidates # {}
      BY <1>1, RoundCandidate
    <2> QED
      BY <1>1, <1>2, <2>1, BestCandidate DEF NothingToDo
  <1>3. CASE mostWork # NoBlock
    BY <1>1, <1>3 DEF NothingToDo, KInv, Aim, BestKnown
  <1> QED
    BY <1>2, <1>3
-----------------------------------------------------------------------------
(* Initially the genesis block is the only block. *)
LEMMA InitCandidates == Init => KInv
  <1> SUFFICES ASSUME Init PROVE KInv
    OBVIOUS
  <1>1. FInv /\ TInv
    BY InitFlags, InitType
  <1>2. ~Worse(Genesis, Genesis)
    BY <1>1, Constants, WorseNow
  <1>3. StartSound /\ Falling /\ Aim /\ pc # "inv" /\ pc # "aborted"
    BY DEF Init, StartSound, Falling, Aim
  <1>4. NoneWorse /\ NoneMissing /\ Remembered
    BY <1>2 DEF Init, NoneWorse, NoneMissing, Remembered
  <1>5. BestKnown
    BY <1>2 DEF Init, BestKnown, Best
  <1> QED
    BY <1>1, <1>3, <1>4, <1>5 DEF KInv

(* The start of a call, the start of a round, and a shutdown. *)
LEMMA BeginCandidates ==
    ASSUME KInv, FInv', StartActivate \/ LockRound \/ RequestShutdown
    PROVE  KInv'
  <1>1. /\ UNCHANGED <<failedValid, failedChild, linked, seqId, addr, candidates, tip, invVars>>
        /\ shutdown => shutdown'
    BY SMTT(60) DEF StartActivate, LockRound, RequestShutdown, indexVars, seqVars, tipVars
  <1>2. TInv /\ tip \in linked /\ linked \subseteq Block
    BY DEF KInv, FInv, CInv, TInv, TypeOK
  <1>3. CASE StartActivate
    <2>1. pc = "idle" /\ pc' = "abc" /\ mostWork' = NoBlock
      BY <1>3 DEF StartActivate
    <2>2. StartSound' /\ Falling' /\ Aim' /\ BestKnown'
      BY <2>1 DEF StartSound, Falling, Aim, BestKnown
    <2>3. NoneWorse' /\ NoneMissing' /\ Remembered'
      BY <1>1, <2>1 DEF KInv, NoneWorse, NoneMissing, Remembered, NoFailedAncestor, Worse
    <2> QED
      BY <2>1, <2>2, <2>3 DEF KInv
  <1>4. CASE LockRound
    <2>1. pc = "abc" /\ pc' = "find" /\ startTip' = tip /\ UNCHANGED <<mostWork, pending, shutdown>>
      BY <1>4 DEF LockRound
    <2>2. ~Worse(tip, tip) /\ (mostWork # NoBlock => ~Worse(mostWork, tip))
      BY <1>2, <2>1, WorseNow DEF KInv, Aim
    <2>3. StartSound'
      <3>1. \A b \in Ancestors[tip] : ~Failed(b) /\ b \notin BadConnect
        BY Constants DEF KInv, FInv, CInv, Connected
      <3> QED
        BY <1>1, <1>2, <2>1, <3>1 DEF StartSound, Failed
    <2>4. Falling' /\ Aim'
      BY <1>1, <2>1, <2>2 DEF Falling, Aim, Worse
    <2>5. BestKnown'
      BY <1>1, <2>1 DEF KInv, BestKnown, Best, NoFailedAncestor, Worse
    <2>6. NoneWorse' /\ NoneMissing' /\ Remembered'
      BY <1>1, <2>1 DEF KInv, NoneWorse, NoneMissing, Remembered, NoFailedAncestor, Worse
    <2> QED
      BY <2>1, <2>3, <2>4, <2>5, <2>6 DEF KInv
  <1>5. CASE RequestShutdown
    <2>1. shutdown' /\ UNCHANGED <<pc, mostWork, startTip, pending>>
      BY <1>5 DEF RequestShutdown, abcVars
    <2>2. StartSound' /\ Falling' /\ Aim' /\ BestKnown'
      BY <1>1, <2>1 DEF KInv, StartSound, Falling, Aim, BestKnown, Failed, Worse
    <2>3. NoneWorse' /\ NoneMissing' /\ Remembered'
      BY <1>1, <2>1 DEF KInv, NoneWorse, NoneMissing, Remembered, NoFailedAncestor, Worse, InChain, invVars
    <2> QED
      BY <1>1, <2>1, <2>2, <2>3 DEF KInv
  <1> QED
    BY <1>3, <1>4, <1>5

(* FindMostWorkChain returns a block, or has nothing to do. *)
LEMMA FindCandidates ==
    ASSUME KInv, FInv', BeginStep \/ NothingToDo
    PROVE  KInv'
  <1>1. /\ UNCHANGED <<failedValid, failedChild, linked, seqId, addr, candidates, tip, toMark, startTip>>
        /\ UNCHANGED <<pending, shutdown>> /\ pc = "find"
    BY DEF BeginStep, NothingToDo, indexVars, seqVars, tipVars, invVars
  <1>2. TInv /\ tip \in linked /\ linked \subseteq Block /\ startTip \in linked
    BY <1>1 DEF KInv, FInv, CInv, TInv, TypeOK, StartSound
  <1>3. CASE BeginStep
    <2>1. pc' = "step"
      BY <1>3 DEF BeginStep
    <2>2. PICK c \in Block : /\ IF mostWork = NoBlock THEN IsBestCandidate(c) ELSE c = mostWork
                             /\ mostWork' = c
      BY <1>3 DEF BeginStep
    <2>3. ~Worse(c, startTip) /\ (Best(c) \/ pending \/ shutdown)
      <3>1. CASE mostWork = NoBlock
        BY <1>1, <2>2, <3>1, BestCandidate
      <3>2. CASE mostWork # NoBlock
        BY <1>1, <2>2, <3>2 DEF KInv, Aim, BestKnown
      <3> QED
        BY <3>1, <3>2
    <2>4. StartSound' /\ Falling'
      BY <1>1, <2>1 DEF KInv, StartSound, Falling, Failed, Worse
    <2>5. Aim' /\ BestKnown'
      BY <1>1, <2>1, <2>2, <2>3 DEF Aim, BestKnown, Best, NoFailedAncestor, Worse
    <2>6. NoneWorse' /\ NoneMissing' /\ Remembered'
      BY <1>1, <2>1 DEF KInv, NoneWorse, NoneMissing, Remembered, NoFailedAncestor, Worse
    <2> QED
      BY <2>1, <2>4, <2>5, <2>6 DEF KInv
  <1>4. CASE NothingToDo
    <2>1. pc' = "idle" /\ mostWork' = NoBlock
      BY <1>4 DEF NothingToDo
    <2>2. ~Worse(tip, startTip) /\ (Best(tip) \/ pending \/ shutdown)
      BY <1>4, NothingForward
    <2>3. StartSound' /\ Falling' /\ Aim'
      BY <2>1 DEF StartSound, Falling, Aim
    <2>4. BestKnown'
      BY <1>1, <2>1, <2>2 DEF BestKnown, Best, NoFailedAncestor, Worse
    <2>5. \A b \in linked : ~Worse(b, tip) => ~Worse(b, startTip)
      BY <1>2, <2>2, WorseNow
    <2>6. NoneWorse' /\ NoneMissing' /\ Remembered'
      BY <1>1, <2>1, <2>5 DEF KInv, NoneWorse, NoneMissing, Remembered, NoFailedAncestor, Worse
    <2> QED
      BY <2>1, <2>3, <2>4, <2>6 DEF KInv
  <1> QED
    BY <1>3, <1>4

(* FindMostWorkChain drops only candidates above a failed block. *)
LEMMA DropCandidates ==
    ASSUME KInv, FInv', DropCandidate
    PROVE  KInv'
  <1>1. /\ UNCHANGED <<failedValid, linked, seqId, addr, tip, toMark, startTip, pc, mostWork>>
        /\ UNCHANGED <<pending, shutdown>> /\ pc = "find" /\ mostWork = NoBlock
    BY DEF DropCandidate, seqVars, tipVars, invVars, abcVars
  <1>2. TInv /\ FailedHasCause /\ linked \subseteq Block /\ startTip \in linked
    BY <1>1 DEF KInv, FInv, CInv, TInv, TypeOK, StartSound
  <1>3. PICK c \in candidates : \E x \in Unusable(c) :
          /\ candidates' = candidates \ (Above(c, x) \cup {x})
          /\ failedChild' = IF Failed(x) THEN failedChild \cup Above(c, x) ELSE failedChild
    BY DEF DropCandidate
  <1>4. PICK x \in Unusable(c) :
          /\ candidates' = candidates \ (Above(c, x) \cup {x})
          /\ failedChild' = IF Failed(x) THEN failedChild \cup Above(c, x) ELSE failedChild
    BY <1>3
  <1>5. x \in linked /\ Failed(x) /\ x \in Ancestors[x] /\ Ancestors[c] \subseteq linked
    <2>1. Ancestors[c] \subseteq linked /\ linked \subseteq haveData
      BY <1>2, ClosedSet DEF TInv, TypeOK
    <2> QED
      BY <1>2, <2>1, AncestorsBasic DEF Unusable, Branch
  <1>6. PICK f \in Ancestors[x] : f \in failedValid
    BY <1>2, <1>5 DEF FailedHasCause, NoFailedAncestor, TInv, TypeOK
  <1>7. \A y \in Above(c, x) \cup {x} : f \in Ancestors[y] /\ x \in Ancestors[y]
    BY <1>2, <1>5, <1>6, AncestorsTransitive DEF Above, Branch
  <1>8. NoneWorse' /\ NoneMissing' /\ Remembered'
    BY <1>1, <1>4, <1>6, <1>7 DEF KInv, NoneWorse, NoneMissing, Remembered, NoFailedAncestor, Worse
  <1>9. StartSound'
    <2>1. \A y \in Above(c, x) : y \notin Ancestors[startTip]
      BY <1>1, <1>2, <1>5, <1>7, AncestorsTransitive DEF KInv, StartSound
    <2> QED
      BY <1>1, <1>4, <2>1 DEF KInv, StartSound, Failed
  <1>10. Falling' /\ Aim' /\ BestKnown'
    BY <1>1 DEF KInv, Falling, Aim, BestKnown, Worse
  <1> QED
    BY <1>1, <1>8, <1>9, <1>10 DEF KInv

(* Disconnecting lowers the tip, which adds no claim: what sorts at least   *)
(* as well as the tip at the start sorts as well as the tip above.          *)
LEMMA DisconnectCandidates ==
    ASSUME KInv, FInv', DisconnectStep
    PROVE  KInv'
  <1>1. /\ UNCHANGED <<failedValid, failedChild, linked, seqId, addr, candidates, toMark, startTip, pc, mostWork>>
        /\ UNCHANGED <<pending, shutdown>> /\ pc = "step" /\ tip \notin Ancestors[mostWork] /\ tip' = Parent[tip]
    BY DEF DisconnectStep, DisconnectTip, indexVars, seqVars, invVars, abcVars
  <1>2. TInv /\ linked \subseteq Block /\ startTip \in linked /\ tip \in Block /\ candidates \subseteq Block
    BY <1>1 DEF KInv, FInv, CInv, TInv, TypeOK, StartSound
  <1>3. tip \in Block \ {Genesis}
    BY <1>1, <1>2, TipParent, ChainsLinked DEF TInv, TypeOK
  <1>4. Parent[tip] \in Block /\ Parent[tip] \in Ancestors[tip]
    BY <1>3, AncestorsOfParent, AncestorsBasic
  <1>5. ~Worse(tip, Parent[tip])
    BY <1>2, <1>4, WorseNow
  <1>6. ~Worse(startTip, tip)
    BY <1>1 DEF KInv, Falling
  <1>7. /\ \A c \in candidates : ~Worse(c, Parent[tip])
        /\ \A b \in linked : ~Worse(b, startTip) => ~Worse(b, tip)
        /\ ~Worse(startTip, Parent[tip])
    BY <1>2, <1>4, <1>5, <1>6, WorseNow DEF KInv, NoneWorse
  <1>8. NoneWorse' /\ NoneMissing' /\ Remembered'
    BY <1>1, <1>7 DEF KInv, NoneWorse, NoneMissing, Remembered, NoFailedAncestor, Worse
  <1>9. StartSound' /\ Falling' /\ Aim' /\ BestKnown'
    BY <1>1, <1>7 DEF KInv, StartSound, Falling, Aim, BestKnown, Best, NoFailedAncestor, Failed, Worse
  <1> QED
    BY <1>1, <1>8, <1>9 DEF KInv

(* ConnectTip prunes with the new tip; cs_main is released only if that is  *)
(* no worse than the tip at the start.                                      *)
LEMMA ConnectCandidates ==
    ASSUME KInv, FInv', ConnectStep
    PROVE  KInv'
  <1>1. /\ UNCHANGED <<failedValid, failedChild, linked, seqId, addr, toMark, startTip>>
        /\ UNCHANGED <<pending, shutdown>> /\ pc = "step"
    BY DEF ConnectStep, seqVars, invVars
  <1>2. PICK b \in Block :
          /\ NextToConnect(b) /\ tip' = b
          /\ candidates' = PruneBlockIndexCandidates(candidates, seqId, addr, b)
          /\ EndStep(b, mostWork) \/ UNCHANGED <<pc, mostWork>>
    BY DEF ConnectStep
  <1>3. TInv /\ linked \subseteq Block /\ startTip \in linked /\ tip \in Block /\ mostWork # NoBlock
    BY <1>1 DEF KInv, FInv, CInv, TInv, TypeOK, StartSound
  <1>4. b \in linked /\ b \in Block \ {Genesis} /\ Parent[b] = tip /\ b \in Ancestors[mostWork]
    BY <1>1, <1>2, <1>3, NextIsLinked
  <1>5. ~Worse(b, tip) /\ \A x \in linked : ~Worse(x, b) => ~Worse(x, tip)
    <2>1. tip \in Ancestors[b]
      BY <1>4, AncestorsOfParent, AncestorsBasic
    <2>2. ~Worse(b, tip)
      BY <1>3, <1>4, <2>1, WorseNow
    <2> QED
      BY <1>3, <1>4, <2>2, WorseNow
  <1>6. /\ pc' \in {"find", "step", "abc", "idle"}
        /\ pc' \in {"find", "step", "abc"} => mostWork' = mostWork
        /\ pc' \in {"abc", "idle"} => ~Worse(b, startTip)
        /\ pc' = "find" => Worse(b, startTip)
        /\ pc' = "idle" => b = mostWork \/ shutdown
        /\ pc' = "idle" => mostWork' = NoBlock
    <2>1. CASE EndStep(b, mostWork)
      BY <2>1 DEF EndStep
    <2>2. CASE UNCHANGED <<pc, mostWork>>
      BY <1>1, <2>2
    <2> QED
      BY <1>2, <2>1, <2>2
  <1>7. NoneWorse' /\ Remembered'
    BY <1>1, <1>2, <1>6 DEF NoneWorse, Remembered, PruneBlockIndexCandidates, Worse
  <1>8. NoneMissing'
    <2>1. ASSUME NEW x \in linked, NoFailedAncestor(x), ~Worse(x, b),
                 pc' \in {"find", "step"} => ~Worse(x, startTip)
          PROVE  x \in candidates'
      <3>1. ~Worse(x, startTip)
        <4>1. CASE pc' \in {"find", "step"}
          BY <2>1, <4>1
        <4>2. CASE pc' \in {"abc", "idle"}
          BY <1>3, <1>4, <1>6, <2>1, <4>2, WorseNow
        <4> QED
          BY <1>6, <4>1, <4>2
      <3>2. x \in candidates
        BY <1>1, <1>5, <2>1, <3>1 DEF KInv, NoneMissing
      <3> QED
        BY <1>2, <2>1, <3>2 DEF PruneBlockIndexCandidates, Worse
    <2> QED
      BY <1>1, <1>2, <2>1 DEF NoneMissing, NoFailedAncestor, Worse
  <1>9. StartSound'
    BY <1>1 DEF KInv, StartSound, Failed
  <1>10. Falling'
    <2>1. Worse(b, startTip) => ~Worse(startTip, b)
      BY <1>3, <1>4, WorseNow
    <2> QED
      BY <1>1, <1>2, <1>4, <1>6, <2>1 DEF Falling, Worse
  <1>11. Aim'
    BY <1>1, <1>2, <1>4, <1>6 DEF KInv, Aim, Worse
  <1>12. BestKnown'
    <2>1. Best(mostWork) \/ pending \/ shutdown
      BY <1>1, <1>3 DEF KInv, BestKnown
    <2> QED
      BY <1>1, <1>2, <1>6, <2>1 DEF BestKnown, Best, NoFailedAncestor, Worse
  <1> QED
    BY <1>6, <1>7, <1>8, <1>9, <1>10, <1>11, <1>12 DEF KInv

(* InvalidBlockFound takes the block it marks from the candidates; the call *)
(* goes on, and keeps cs_main while the tip is worse than at the start.     *)
LEMMA ConnectFailsCandidates ==
    ASSUME KInv, FInv', ConnectFails
    PROVE  KInv'
  <1>1. /\ UNCHANGED <<failedChild, linked, seqId, addr, tip, toMark, startTip, pending, shutdown>>
        /\ pc = "step" /\ EndStep(tip, NoBlock)
    BY DEF ConnectFails, seqVars, tipVars, invVars
  <1>2. PICK b \in BadConnect : failedValid' = failedValid \cup {b} /\ candidates' = candidates \ {b}
    BY DEF ConnectFails
  <1>3. TInv /\ linked \subseteq Block /\ startTip \in linked /\ tip \in linked /\ tip # NoBlock
    BY <1>1, Constants DEF KInv, FInv, CInv, TInv, TypeOK, StartSound
  <1>4. /\ pc' \in {"find", "abc", "idle"} /\ mostWork' = NoBlock
        /\ pc' \in {"abc", "idle"} => ~Worse(tip, startTip)
        /\ pc' = "find" => Worse(tip, startTip)
        /\ pc' = "idle" => shutdown
    BY <1>1, <1>3 DEF EndStep
  <1>5. NoneWorse' /\ Remembered'
    BY <1>1, <1>2, <1>4 DEF KInv, NoneWorse, Remembered, Worse
  <1>6. NoneMissing'
    <2>1. ASSUME NEW x \in linked, Ancestors[x] \cap failedValid' = {}, ~Worse(x, tip),
                 pc' = "find" => ~Worse(x, startTip)
          PROVE  x \in candidates'
      <3>1. ~Worse(x, startTip)
        <4>1. CASE pc' \in {"abc", "idle"}
          BY <1>3, <1>4, <2>1, <4>1, WorseNow
        <4> QED
          BY <1>4, <2>1, <4>1
      <3>2. x \in candidates
        BY <1>1, <1>2, <2>1, <3>1 DEF KInv, NoneMissing, NoFailedAncestor
      <3>3. x # b
        BY <1>2, <1>3, <2>1, AncestorsBasic
      <3> QED
        BY <1>2, <3>2, <3>3
    <2> QED
      BY <1>1, <1>4, <2>1 DEF NoneMissing, NoFailedAncestor, Worse
  <1>7. StartSound'
    BY <1>1, <1>2 DEF KInv, StartSound, Failed
  <1>8. Falling'
    <2>1. Worse(tip, startTip) => ~Worse(startTip, tip)
      BY <1>3, WorseNow
    <2> QED
      BY <1>1, <1>4, <2>1 DEF Falling, Worse
  <1>9. Aim' /\ BestKnown'
    BY <1>1, <1>4 DEF Aim, BestKnown
  <1> QED
    BY <1>4, <1>5, <1>6, <1>7, <1>8, <1>9 DEF KInv

(* A header, and a block that fails its own checks, link nothing. *)
LEMMA HeaderCandidates ==
    ASSUME KInv, FInv', NEW b \in Block \ {Genesis},
           AcceptBlockHeader(b) \/ RejectFailedDescendant(b) \/ AcceptBadBlock(b)
    PROVE  KInv'
  <1>1. /\ UNCHANGED <<linked, seqId, addr, candidates, tip, invVars, pc, mostWork, shutdown>>
        /\ failedValid \subseteq failedValid' /\ (pending => pending')
    <2>1. CASE AcceptBlockHeader(b)
      <3>1. pending' = pending \/ pending' = TRUE
        BY <2>1 DEF AcceptBlockHeader
      <3> QED
        BY SMTT(60), <2>1, <3>1 DEF AcceptBlockHeader, seqVars, tipVars, abcVars
    <2>2. CASE RejectFailedDescendant(b)
      BY <2>2 DEF RejectFailedDescendant, seqVars, tipVars, abcVars
    <2>3. CASE AcceptBadBlock(b)
      BY <2>3 DEF AcceptBadBlock, seqVars, tipVars, abcVars
    <2> QED
      BY <2>1, <2>2, <2>3
  <1>2. pc \in {"idle", "abc", "inv"}
    BY DEF AcceptBlockHeader, RejectFailedDescendant, AcceptBadBlock, BlockWanted, CsMainFree
  <1>3. NoneWorse' /\ NoneMissing' /\ Remembered'
    BY <1>1, <1>2 DEF KInv, NoneWorse, NoneMissing, Remembered, NoFailedAncestor, Worse, InChain, invVars
  <1>4. StartSound' /\ Falling' /\ Aim'
    BY <1>1, <1>2 DEF KInv, StartSound, Falling, Aim
  <1>5. BestKnown'
    BY <1>1, <1>2 DEF KInv, BestKnown, Best, NoFailedAncestor, Worse
  <1> QED
    BY <1>1, <1>3, <1>4, <1>5 DEF KInv

(* ReceivedBlockTransactions enters what it links, and the ids it hands out *)
(* change the place of nobody else.                                         *)
LEMMA AcceptBlockCandidates ==
    ASSUME KInv, FInv', NEW b \in Block \ {Genesis}, AcceptBlock(b)
    PROVE  KInv'
  <1>1. /\ UNCHANGED <<failedValid, addr, tip, invVars, pc, mostWork, shutdown>> /\ pending'
        /\ pc \in {"idle", "abc", "inv"}
    BY DEF AcceptBlock, BlockWanted, CsMainFree, tipVars, abcVars
  <1>2. TInv /\ linked \subseteq Block /\ tip \in linked /\ candidates \subseteq linked /\ seen \subseteq linked /\ unlinked \cap linked = {}
    BY DEF KInv, FInv, CInv, TInv, TypeOK, UnlinkedExact
  <1>3. StartSound' /\ Falling' /\ Aim' /\ BestKnown'
    BY <1>1 DEF KInv, StartSound, Falling, Aim, BestKnown
  <1>4. NoneWorse' /\ NoneMissing' /\ Remembered' /\ candidates \subseteq candidates'
    <2>1. CASE Parent[b] \notin linked
      <3>1. UNCHANGED <<linked, seqId, candidates>>
        BY <2>1 DEF AcceptBlock
      <3> QED
        BY <1>1, <3>1 DEF KInv, NoneWorse, NoneMissing, Remembered, NoFailedAncestor, Worse, InChain, invVars
    <2>2. CASE Parent[b] \in linked
      <3> DEFINE L == NowLinked(b)
      <3>1. /\ linked' = linked \cup L
            /\ candidates' = candidates \cup {x \in L : ~WorseBy(seqId', addr, x, tip)}
            /\ \E ids : seqId' = [x \in Block |-> IF x \in L THEN ids[x] ELSE seqId[x]]
        BY <2>2 DEF AcceptBlock
      <3>2. L \cap linked = {}
        <4>1. b \notin linked /\ L \subseteq unlinked \cup {b}
          BY <1>2, WantedBlock DEF AcceptBlock, NowLinked
        <4> QED
          BY <1>2, <4>1
      <3> HIDE DEF L
      <3>3. \A x \in linked : seqId'[x] = seqId[x]
        BY <1>2, <3>1, <3>2
      <3>4. \A x \in linked : WorseBy(seqId', addr, x, tip) <=> WorseBy(seqId, addr, x, tip)
        BY <1>2, <3>3 DEF WorseBy
      <3>5. NoneWorse'
        BY <1>1, <1>2, <3>1, <3>4 DEF KInv, NoneWorse, Worse
      <3>6. NoneMissing'
        BY <1>1, <3>1, <3>4 DEF KInv, NoneMissing, NoFailedAncestor, Worse, InChain, invVars
      <3>7. ASSUME pc = "inv", InChain(target)
            PROVE  \A x \in linked : WorseBy(seqId', addr, x, Parent[target]) <=> WorseBy(seqId, addr, x, Parent[target])
        <4>1. target \in Ancestors[tip] /\ target # Genesis
          BY <1>2, <3>7 DEF InChain, TInv
        <4>2. Parent[target] \in linked
          BY <1>2, <4>1, ChainsLinked, AncestorsBasic DEF ParentClosed
        <4> QED
          BY <1>2, <3>3, <4>2 DEF WorseBy
      <3>8. Remembered'
        BY <1>1, <1>2, <3>1, <3>4, <3>7 DEF KInv, Remembered, NoFailedAncestor, Worse, InChain, invVars
      <3> QED
        BY <3>1, <3>5, <3>6, <3>8
    <2> QED
      BY <2>1, <2>2
  <1> QED
    BY <1>1, <1>3, <1>4 DEF KInv

(* InvalidateBlock begins, with the candidates still complete. *)
LEMMA StartInvalidateCandidates ==
    ASSUME KInv, FInv', NEW b \in Block, StartInvalidate(b)
    PROVE  KInv'
  <1>1. /\ UNCHANGED <<failedValid, linked, seqId, addr, candidates, tip>>
        /\ pc = "idle" /\ pc' = "inv" /\ seen' = linked /\ target' = b
        /\ byWork' = {c \in index : /\ ~InChain(c) /\ ~Worse(c, Parent[b])
                                    /\ IsValid(c, VALID_TRANSACTIONS) /\ c \in linked}
    BY DEF StartInvalidate, indexVars, seqVars, tipVars
  <1>2. NoneWorse' /\ NoneMissing'
    BY <1>1 DEF KInv, NoneWorse, NoneMissing, NoFailedAncestor, Worse
  <1>3. StartSound' /\ Falling' /\ Aim' /\ BestKnown'
    BY <1>1 DEF StartSound, Falling, Aim, BestKnown
  <1>4. tip \in candidates
    BY <1>1, TipCandidate
  <1>5. Remembered'
    <2>1. FailedHasCause /\ Validated /\ linked \subseteq index /\ linked \subseteq haveData
      BY DEF KInv, FInv, CInv, TInv, TypeOK
    <2>2. ASSUME NEW x \in linked, NoFailedAncestor(x) PROVE IsValid(x, VALID_TRANSACTIONS)
      BY <2>1, <2>2 DEF FailedHasCause, IsValid, Validated
    <2>3. \A x \in linked : NoFailedAncestor(x) /\ ~Worse(x, tip) => x \in candidates
      BY <1>1 DEF KInv, NoneMissing
    <2> QED
      BY <1>1, <2>1, <2>2, <2>3 DEF Remembered, NoFailedAncestor, Worse, InChain
  <1> QED
    BY <1>1, <1>2, <1>3, <1>4, <1>5 DEF KInv

(* InvalidateBlock enters the parent of what it disconnects, and side       *)
(* branches that sort no worse.                                             *)
LEMMA InvalidateTipCandidates ==
    ASSUME KInv, FInv', InvalidateTip
    PROVE  KInv'
  <1>1. /\ UNCHANGED <<linked, seqId, addr, pc, mostWork, target, seen, pending, shutdown>>
        /\ pc = "inv" /\ tip' = Parent[tip] /\ toMark' = tip
        /\ candidates' = (candidates \ {tip}) \cup {Parent[tip]} \cup {c \in byWork : ~Worse(c, Parent[tip])}
        /\ byWork' = byWork \ {c \in byWork : ~Worse(c, Parent[tip])}
    BY DEF InvalidateTip, DisconnectTip, seqVars, abcVars
  <1>2. TInv /\ candidates \subseteq Block
    BY DEF KInv, FInv, CInv, TInv, TypeOK
  <1>3. tip \in Block \ {Genesis}
    BY <1>2, TipParent DEF InvalidateTip, InvalidateGoesOn, TInv
  <1>4. Parent[tip] \in Block /\ Parent[tip] \in Ancestors[tip] /\ tip \notin Ancestors[Parent[tip]]
    BY SMTT(60), <1>3, AncestorsOfParent, AncestorsBasic, AncestorsHeight
  <1>5. ~Worse(tip, Parent[tip]) /\ ~Worse(Parent[tip], Parent[tip])
    BY <1>2, <1>3, <1>4, WorseNow
  <1>6. \A c \in candidates : ~Worse(c, Parent[tip])
    BY <1>2, <1>3, <1>4, <1>5, WorseNow DEF KInv, NoneWorse
  <1>7. NoneWorse'
    BY <1>1, <1>5, <1>6 DEF NoneWorse, Worse
  <1>8. NoneMissing'
    BY <1>1, <1>4 DEF NoneMissing, InChain
  <1>9. StartSound' /\ Falling' /\ Aim' /\ BestKnown'
    BY <1>1 DEF StartSound, Falling, Aim, BestKnown
  <1>10. Remembered'
    <2>1. /\ target \in Ancestors[tip] /\ target \in Block \ {Genesis} /\ seen \subseteq Block
          /\ \A b \in Ancestors[tip] : ~Failed(b)
      BY <1>1 DEF KInv, FInv, CInv, Connected, TInv, TypeOK, InvalidateTip, InvalidateGoesOn, InChain
    <2>2. tip \in failedValid' /\ failedValid \subseteq failedValid'
      BY <1>4, <2>1 DEF InvalidateTip, Failed
    <2>3. Ancestors[tip] = Ancestors[Parent[tip]] \cup {tip}
      BY <1>3, AncestorsOfParent
    <2>4. Parent[target] \in Block /\ ~Worse(Parent[tip], Parent[target])
      <3>1. Parent[target] \in Ancestors[Parent[tip]]
        BY <1>4, <2>1, <2>3, AncestorsBasic DEF ParentClosed
      <3> QED
        BY <1>2, <1>4, <3>1, AncestorsBasic, WorseNow
    <2>5. ASSUME NEW b \in seen, Ancestors[b] \cap failedValid' = {}, b \notin Ancestors[Parent[tip]],
                 ~Worse(b, Parent[target])
          PROVE  /\ b \in byWork' \cup candidates'
                 /\ ~Worse(b, Parent[tip]) => b \in candidates'
      <3>1. b # tip /\ NoFailedAncestor(b)
        BY <1>3, <2>2, <2>5, AncestorsBasic DEF NoFailedAncestor
      <3>2. b \in byWork \cup candidates
        BY <1>1, <2>1, <2>3, <2>5, <3>1 DEF KInv, Remembered, InChain
      <3>3. CASE b \in byWork /\ Worse(b, Parent[tip])
        BY <1>1, <3>3
      <3>4. CASE b \in byWork /\ ~Worse(b, Parent[tip])
        BY <1>1, <3>4
      <3>5. CASE b \in candidates
        BY <1>1, <3>1, <3>5
      <3> QED
        BY <3>2, <3>3, <3>4, <3>5
    <2>6. ASSUME NEW b \in seen, ~Worse(b, Parent[tip]) PROVE ~Worse(b, Parent[target])
      BY <1>2, <1>4, <2>1, <2>4, <2>6, WorseNow
    <2>7. ASSUME NEW b \in seen, ~Worse(b, Parent[tip]), b \in Ancestors[Parent[tip]] PROVE b = Parent[tip]
      BY <1>2, <1>4, <2>7, WorseNow
    <2> QED
      BY <1>1, <2>5, <2>6, <2>7 DEF Remembered, NoFailedAncestor, Worse, InChain
  <1> QED
    BY <1>1, <1>7, <1>8, <1>9, <1>10 DEF KInv

(* InvalidateBlock completes the candidates at its end, also with what has  *)
(* arrived between its rounds.                                              *)
LEMMA FinishInvalidateCandidates ==
    ASSUME KInv, FInv', FinishInvalidate
    PROVE  KInv'
  <1>1. /\ UNCHANGED <<linked, seqId, addr, tip>>
        /\ pc = "inv" /\ pc' = "idle" /\ pending'
    BY DEF FinishInvalidate, seqVars, tipVars
  <1>2. TInv /\ FailedHasCause /\ Validated
    BY DEF KInv, FInv, CInv
  <1>3. StartSound' /\ Falling' /\ BestKnown'
    BY <1>1 DEF StartSound, Falling, BestKnown
  <1>4. Aim' /\ Remembered'
    BY <1>1 DEF Aim, Remembered
  <1>5. CASE InChain(toMark)
    <2>1. UNCHANGED <<failedValid, candidates>>
      BY <1>5 DEF FinishInvalidate
    <2>2. NoneWorse' /\ NoneMissing'
      BY <1>1, <1>5, <2>1 DEF KInv, NoneWorse, NoneMissing, NoFailedAncestor, Worse
    <2> QED
      BY <1>1, <1>3, <1>4, <2>2 DEF KInv
  <1>6. CASE ~InChain(toMark)
    <2>1. failedValid' = failedValid \cup {toMark} /\ candidates' = CompletedWithout(toMark)
      BY <1>6 DEF FinishInvalidate
    <2>2. NoneWorse'
      BY <1>1, <2>1 DEF KInv, NoneWorse, CompletedWithout, Worse
    <2>3. ASSUME NEW x \in linked, Ancestors[x] \cap failedValid' = {}, ~Worse(x, tip)
          PROVE  x \in candidates'
      <3>1. x \in index /\ x \in Ancestors[x] /\ x \in haveData
        BY <1>2, AncestorsBasic DEF TInv, TypeOK
      <3>2. ~Failed(x) /\ x # toMark
        BY <1>2, <2>1, <2>3, <3>1 DEF FailedHasCause, NoFailedAncestor
      <3>3. IsValid(x, VALID_TRANSACTIONS)
        BY <1>2, <3>1, <3>2 DEF IsValid, Validated
      <3> QED
        BY <2>1, <2>3, <3>1, <3>2, <3>3 DEF CompletedWithout
    <2>4. NoneMissing'
      BY <1>1, <2>3 DEF NoneMissing, NoFailedAncestor, Worse
    <2> QED
      BY <1>1, <1>3, <1>4, <2>2, <2>4 DEF KInv
  <1> QED
    BY <1>5, <1>6

(* A restart finds the candidates again. *)
LEMMA RestartedCandidates ==
    ASSUME KInv, FInv', Restart
    PROVE  KInv'
  <1>1. pc = "idle" /\ pc' = "idle" /\ pending' /\ UNCHANGED failedValid
    BY DEF Restart, abcVars
  <1>2. TInv /\ TInv' /\ VInv /\ FailedHasCause
    BY DEF KInv, FInv, CInv, VInv
  <1>3. StartSound' /\ Remembered' /\ Falling' /\ Aim' /\ BestKnown'
    BY <1>1 DEF StartSound, Remembered, Falling, Aim, BestKnown
  <1>4. NoneWorse'
    <2>1. \E C : candidates' = PruneBlockIndexCandidates(C, seqId', addr', tip')
      BY DEF Restart
    <2> QED
      BY <2>1 DEF NoneWorse, PruneBlockIndexCandidates, Worse
  <1>5. NoneMissing'
    <2>1. ASSUME NEW x \in linked', Ancestors[x] \cap failedValid = {}, ~WorseBy(seqId', addr', x, tip')
          PROVE  x \in candidates'
      <3>1. x \in index /\ Ancestors[x] \subseteq haveData /\ x \in Block
        BY <1>2, RestartIndex DEF TInv, TypeOK
      <3>2. ASSUME NEW a \in Ancestors[x], Failed(a) PROVE FALSE
        <4>1. a \in index
          BY <1>2, <3>2 DEF Failed, TInv, TypeOK
        <4>2. PICK f \in Ancestors[a] : f \in failedValid
          BY <1>2, <3>2, <4>1 DEF FailedHasCause, NoFailedAncestor
        <4> QED
          BY <2>1, <3>1, <4>2, AncestorsTransitive
      <3>3. Ancestors[x] \cap (failedValid \cup failedChild) = {}
        BY <3>2 DEF Failed
      <3> QED
        BY <1>2, <2>1, <3>1, <3>3, RestartCandidates
    <2> QED
      BY <1>1, <2>1 DEF NoneMissing, NoFailedAncestor, Worse
  <1> QED
    BY <1>1, <1>3, <1>4, <1>5 DEF KInv
-----------------------------------------------------------------------------
(* Every step keeps the candidates right. *)
LEMMA StepCandidates ==
    ASSUME OnlyInvalidate
    PROVE  KInv /\ [Next]_vars => KInv'
  <1> SUFFICES ASSUME KInv, [Next]_vars PROVE KInv'
    OBVIOUS
  <1>1. FInv'
    BY StepFlags, OnlyInvalidateAssumed DEF KInv
  <1>2. ~DiskMayFail /\ "reconsiderblock" \notin Operator /\ "preciousblock" \notin Operator
    BY DEF OnlyInvalidate
  <1>3. CASE UNCHANGED vars
    BY <1>1, <1>3 DEF KInv, StartSound, NoneWorse, NoneMissing, Remembered, Falling, Aim, BestKnown, Best, InChain,
                      NoFailedAncestor, Failed, Worse, vars, indexVars, seqVars, tipVars, abcVars, invVars
  <1>4. CASE Activate
    BY <1>1, <1>4, BeginCandidates, FindCandidates, DropCandidates, DisconnectCandidates,
       ConnectCandidates, ConnectFailsCandidates DEF Activate
  <1>5. CASE ReadError \/ FlushError \/ InvalidateError
    BY <1>2, <1>5 DEF ReadError, FlushError, InvalidateError
  <1>6. CASE AssertionFails
    BY <1>2, <1>6 DEF AssertionFails, KInv, FInv, CInv
  <1>7. CASE \E b \in Block : ReconsiderBlock(b) \/ PreciousBlock(b)
    BY <1>2, <1>7 DEF ReconsiderBlock, PreciousBlock
  <1>8. CASE \E b \in Block \ {Genesis} :
               AcceptBlockHeader(b) \/ RejectFailedDescendant(b) \/ AcceptBadBlock(b)
    BY <1>1, <1>8, HeaderCandidates
  <1>9. CASE \E b \in Block \ {Genesis} : AcceptBlock(b) \/ StartInvalidate(b)
    BY <1>1, <1>9, AcceptBlockCandidates, StartInvalidateCandidates
  <1>10. CASE InvalidateTip \/ FinishInvalidate
    BY <1>1, <1>10, InvalidateTipCandidates, FinishInvalidateCandidates
  <1>11. CASE RequestShutdown \/ Restart
    BY <1>1, <1>11, BeginCandidates, RestartedCandidates
  <1> QED
    BY <1>3, <1>4, <1>5, <1>6, <1>7, <1>8, <1>9, <1>10, <1>11 DEF Next

(* LinkedUnlessFailed turns data that has all arrived into links. *)
LEMMA CandidatesSettled == KInv => CandidatesExact /\ TipIsBest
  <1> SUFFICES ASSUME KInv PROVE CandidatesExact /\ TipIsBest
    OBVIOUS
  <1>1. TInv /\ LinkedUnlessFailed
    BY DEF KInv, FInv, CInv
  <1>2. CandidatesComplete
    <2> SUFFICES ASSUME CsMainFree, NEW b \in index, pc = "inv" => b \notin linked \ seen,
                        Ancestors[b] \subseteq haveData, ~Worse(b, tip), NoFailedAncestor(b)
                 PROVE  b \in candidates
      BY DEF CandidatesComplete, CompleteBut
    <2>1. b \in linked
      BY <1>1 DEF LinkedUnlessFailed
    <2>2. CASE pc = "inv"
      BY <2>1, <2>2 DEF KInv, Remembered
    <2> QED
      BY <2>1, <2>2 DEF KInv, NoneMissing, CsMainFree
  <1>3. CandidatesSound
    <2>1. candidates # {}
      BY TipCandidate, RoundCandidate
    <2>2. \A b \in candidates : Ancestors[b] \subseteq haveData
      BY <1>1, AncestorsBasic, WorseNow DEF TInv, TypeOK
    <2> QED
      BY <2>1, <2>2 DEF KInv, NoneWorse, CandidatesSound
  <1>4. TipIsBest
    BY DEF KInv, BestKnown, Best, TipIsBest
  <1> QED
    BY <1>2, <1>3, <1>4 DEF CandidatesExact

(* Whenever cs_main is free setBlockIndexCandidates holds no block that     *)
(* could not be the next tip, and lacks none that could, but for those      *)
(* linked during an InvalidateBlock that has not ended; at rest the tip is  *)
(* the best valid block: in every tree, order of arrival and interleaving,  *)
(* over reorganisations, failed connections, invalidateblock and restarts.  *)
THEOREM CandidatesCorrect ==
    ASSUME OnlyInvalidate
    PROVE  Spec => [](CandidatesExact /\ TipIsBest)
  <1> QED
    BY InitCandidates, StepCandidates, CandidatesSettled, PTL DEF Spec

(* ActivateBestChain releases cs_main with no worse a tip than it took it   *)
(* with, however many reorganisations failed under the lock.                *)
THEOREM RoundsGoForward ==
    ASSUME OnlyInvalidate
    PROVE  Spec => ForwardProgress
  <1>1. KInv /\ [Next]_vars =>
            [~CsMainFree /\ CsMainFree' => ReadError \/ FlushError \/ ~Worse(tip', startTip)]_vars
    <2> SUFFICES ASSUME KInv, Next, ~CsMainFree, CsMainFree', ~ReadError, ~FlushError
                 PROVE  ~Worse(tip', startTip)
      OBVIOUS
    <2>1. pc \notin {"idle", "abc", "inv"} /\ pc' \in {"idle", "abc", "inv"}
      BY DEF CsMainFree
    <2>2. NothingToDo \/ ConnectStep \/ ConnectFails
      BY <2>1 DEF Next, Activate, StartActivate, LockRound, DropCandidate, BeginStep, DisconnectStep,
                  AssertionFails, AcceptBlockHeader, RejectFailedDescendant, AcceptBadBlock, AcceptBlock,
                  BlockWanted, CsMainFree, StartInvalidate, ReconsiderBlock, PreciousBlock, InvalidateTip,
                  InvalidateError, FinishInvalidate, RequestShutdown, Restart, abcVars
    <2>3. CASE NothingToDo
      BY <2>3, NothingForward DEF NothingToDo, tipVars
    <2>4. CASE ConnectStep
      BY <2>1, <2>4 DEF ConnectStep, EndStep, abcVars
    <2>5. CASE ConnectFails
      BY <2>1, <2>5 DEF ConnectFails, EndStep, tipVars
    <2> QED
      BY <2>2, <2>3, <2>4, <2>5
  <1> QED
    BY <1>1, InitCandidates, StepCandidates, PTL DEF Spec, ForwardProgress
=============================================================================
