-------------------------- MODULE CoinsFlushProofs --------------------------
(***************************************************************************)
(* CoinsFlush keeps the coins exact and its stores in step, for every tree *)
(* of valid blocks and however often flushes and replays are interrupted.  *)
(***************************************************************************)
EXTENDS CoinsFlush, WellFoundedInduction, TLAPS

\* The leaves are small, but the definitions they rest on are not. Those that Zenon
\* does not settle soon name SMT.
USE ZenonT(10), SMTT(60)

(* The inductive invariant. *)

Item == Block \X {"data", "undo"}

TInv == /\ TypeOK
        /\ undo \in [Block -> [OutPoint -> Nat]]

(* An interrupted flush of the coins is the business of nobody but the one  *)
(* that goes to the same block.                                             *)
OrderInv ==
    /\ <<Genesis, "data">> \in indexDB
    /\ pc \in {"roll", "replay"} => db.heads # <<>>
    /\ db.heads # <<>> /\ pc \in {"run", "files"} => shutdown
    /\ db.heads # <<>> /\ pc \in {"run", "files", "coins", "replay"} => best = db.heads[1]

(* S has what ReplayBlocks may want to read of the chain of b. *)
HasChain(S, b) ==
    \A x \in Ancestors[b] : <<x, "data">> \in S /\ (x # Genesis => <<x, "undo">> \in S)

UtxoOrNone(b) == IF b = NoBlock THEN NoCoins ELSE Utxo(b)

(* Every coin is as at a, or as at b. *)
Between(view, a, b) == \A o \in OutPoint : view[o] = UtxoOrNone(a)[o] \/ view[o] = Utxo(b)[o]

(* A coins database that a start can go on from, with the items S in the    *)
(* block index database.                                                    *)
Sound(d, S) ==
    /\ d.heads = <<>> => d.coins = UtxoOrNone(d.best) /\ (d.best # NoBlock => HasChain(S, d.best))
    /\ d.heads # <<>> => /\ Between(d.coins, d.heads[2], d.heads[1])
                         /\ HasChain(S, d.heads[1])
                         /\ d.heads[2] # NoBlock => HasChain(S, d.heads[2])

(* The records of what each block spent. *)
UndoInv ==
    \A b \in Block \ {Genesis} :
        <<b, "undo">> \in items \cup indexDB => undo[b] = BlockUndo(Utxo(Parent[b]), b)

MemoryInv ==
    /\ lost = {} => pc # "error"
    /\ \A i \in items \ indexDB : i[1] \in dirty
    /\ pc \in {"run", "files", "coins"} => HasChain(items, best)
    /\ pc = "coins" => items \subseteq indexDB
    /\ pc \in {"run", "files", "coins", "replay"} => coins = Utxo(best)
    /\ pc \in {"roll", "replay"} => items = indexDB
    /\ pc = "roll" => /\ Between(coins, best, db.heads[1])
                      /\ best \in Ancestors[db.heads[1]] \/ HasChain(indexDB, best)

Safe == UndoInv /\ MemoryInv /\ Sound(db, indexDB) /\ Sound(dbSynced, indexDB)

FileTypes ==
    /\ durable \subseteq Item /\ lost \subseteq indexDB
    /\ file \in [Block -> Nat] /\ lastFile \in Nat /\ lastFileDB \in Nat

(* Undo records go with their blocks; no file is beyond the last. *)
PlacedInv ==
    /\ lost \cap durable = {} /\ lastFileDB <= lastFile
    /\ \A i \in items : file[i[1]] <= lastFile /\ <<i[1], "data">> \in items
    /\ \A i \in indexDB : file[i[1]] <= lastFileDB /\ <<i[1], "data">> \in indexDB
    /\ pc # "down" => indexDB \subseteq items

(* Nothing is in the index before the flush of its file, but for the undo   *)
(* records of older files; the data of those are flushed.                   *)
RiskInv ==
    /\ \A i \in items \ durable : i[2] = "data" => file[i[1]] = lastFile
    /\ pc = "files" => \A i \in items \ durable : i[2] = "undo" /\ file[i[1]] < lastFile
    /\ \A i \in indexDB \ durable : i[2] = "undo" /\ file[i[1]] < lastFileDB

IInv == TInv /\ OrderInv /\ PlacedInv /\ (~thrown => RiskInv /\ Safe)
-----------------------------------------------------------------------------
(* Facts about the tree. *)

(* Sets of naturals have a least element. *)
LEMMA LeastNatural ==
    ASSUME NEW T, T \subseteq Nat, T # {}
    PROVE  \E x \in T : \A y \in T : x <= y
  <1> DEFINE R == OpToRel(<, Nat)
  <1>1. IsWellFoundedOn(R, Nat)
    BY NatLessThanWellFounded, Zenon
  <1>2. \A x, y \in Nat : y < x => <<y, x>> \in R
    BY DEF OpToRel
  <1> HIDE DEF R
  <1>3. PICK x \in T : \A y \in T : ~(<<y, x>> \in R)
    BY <1>1, WFMin
  <1>4. ASSUME NEW y \in T PROVE x <= y
    <2>1. x \in Nat /\ y \in Nat /\ ~(<<y, x>> \in R)
      BY <1>3
    <2>2. ~(y < x)
      BY <1>2, <2>1
    <2> QED
      BY SMTT(60), <2>1, <2>2
  <1> QED
    BY <1>4

(* The ancestors of a block: it is one, they are closed under Parent, and   *)
(* they lie in every closed set that holds the block.                       *)
LEMMA AncestorsBasic ==
    ASSUME NEW b \in Block
    PROVE  /\ Ancestors[b] \subseteq Block
           /\ b \in Ancestors[b]
           /\ ParentClosed(Ancestors[b])
           /\ \A S \in SUBSET Block : b \in S /\ ParentClosed(S) => Ancestors[b] \subseteq S
  <1>1. Ancestors[b] = {a \in Block : \A S \in SUBSET Block : b \in S /\ ParentClosed(S) => a \in S}
    BY DEF Ancestors
  <1>2. ASSUME NEW x \in Ancestors[b] \ {Genesis}
        PROVE  Parent[x] \in Ancestors[b]
    <2>1. Parent[x] \in Block
      BY <1>1, BlocksAssumption
    <2>2. ASSUME NEW S \in SUBSET Block, b \in S, ParentClosed(S)
          PROVE  Parent[x] \in S
      BY <1>1, <2>2 DEF ParentClosed
    <2> QED
      BY <1>1, <2>1, <2>2
  <1>3. ParentClosed(Ancestors[b])
    BY <1>2 DEF ParentClosed
  <1> QED
    BY <1>1, <1>3

(* Being an ancestor is transitive. *)
LEMMA AncestorsTransitive ==
    ASSUME NEW b \in Block, NEW a \in Ancestors[b]
    PROVE  a \in Block /\ Ancestors[a] \subseteq Ancestors[b]
  BY AncestorsBasic

(* Genesis has no other ancestor, any other block those of its parent. *)
LEMMA AncestorsOfParent ==
    /\ Ancestors[Genesis] = {Genesis}
    /\ \A b \in Block \ {Genesis} : /\ Parent[b] \in Block
                                    /\ Ancestors[b] = Ancestors[Parent[b]] \cup {b}
  <1>1. Ancestors[Genesis] = {Genesis}
    <2>1. {Genesis} \in SUBSET Block /\ ParentClosed({Genesis}) /\ Genesis \in Block
      BY BlocksAssumption DEF ParentClosed
    <2> QED
      BY SMTT(60), <2>1, AncestorsBasic
  <1>2. ASSUME NEW b \in Block \ {Genesis}
        PROVE  Parent[b] \in Block /\ Ancestors[b] = Ancestors[Parent[b]] \cup {b}
    <2>1. Parent[b] \in Block
      BY BlocksAssumption
    <2>2. ParentClosed(Ancestors[Parent[b]] \cup {b})
      BY <2>1, AncestorsBasic DEF ParentClosed
    <2>3. Ancestors[b] \subseteq Ancestors[Parent[b]] \cup {b}
      BY SMTT(60), <2>1, <2>2, AncestorsBasic
    <2>4. Parent[b] \in Ancestors[b]
      BY AncestorsBasic DEF ParentClosed
    <2>5. Ancestors[Parent[b]] \subseteq Ancestors[b]
      BY <2>4, AncestorsTransitive
    <2> QED
      BY SMTT(60), <2>1, <2>3, <2>5, AncestorsBasic
  <1> QED
    BY <1>1, <1>2

(* An ancestor is not higher, so no block is an ancestor of its parent. *)
LEMMA AncestorsHeight ==
    /\ \A b \in Block : \A a \in Ancestors[b] : Height[a] <= Height[b]
    /\ \A b \in Block \ {Genesis} : b \notin Ancestors[Parent[b]]
  <1>1. ASSUME NEW b \in Block, NEW a \in Ancestors[b]
        PROVE  Height[a] <= Height[b]
    <2> DEFINE S == {x \in Block : Height[x] <= Height[b]}
    <2>1. Height \in [Block -> Nat]
      BY BlocksAssumption
    <2>2. ParentClosed(S)
      <3> SUFFICES ASSUME NEW x \in S \ {Genesis} PROVE Parent[x] \in S
        BY DEF ParentClosed
      <3>1. Height[x] = Height[Parent[x]] + 1 /\ Parent[x] \in Block
        BY BlocksAssumption
      <3>2. Height[x] \in Nat /\ Height[Parent[x]] \in Nat /\ Height[b] \in Nat
        BY <2>1, <3>1
      <3> QED
        BY SMTT(60), <3>1, <3>2
    <2>3. b \in S
      BY SMTT(60), <2>1
    <2> QED
      BY <2>2, <2>3, AncestorsBasic
  <1>2. ASSUME NEW b \in Block \ {Genesis}
        PROVE  b \notin Ancestors[Parent[b]]
    <2>1. /\ Parent[b] \in Block /\ Height[b] = Height[Parent[b]] + 1
          /\ Height[b] \in Nat /\ Height[Parent[b]] \in Nat
      BY BlocksAssumption
    <2> QED
      BY SMTT(60), <1>1, <2>1
  <1> QED
    BY <1>1, <1>2

(* Every block descends from Genesis: the lowest of its ancestors has no    *)
(* parent below it.                                                         *)
LEMMA GenesisIsAncestor ==
    ASSUME NEW b \in Block
    PROVE  Genesis \in Ancestors[b]
  <1> DEFINE H == {Height[a] : a \in Ancestors[b]}
  <1>1. H \subseteq Nat /\ H # {}
    BY SMTT(60), AncestorsBasic, BlocksAssumption
  <1>2. PICK h \in H : \A k \in H : h <= k
    BY <1>1, LeastNatural
  <1>3. PICK a \in Ancestors[b] : Height[a] = h
    OBVIOUS
  <1>4. CASE a = Genesis
    BY <1>4
  <1>5. CASE a # Genesis
    <2>1. a \in Block \ {Genesis} /\ Parent[a] \in Ancestors[b] /\ Parent[a] \in Block
      BY <1>5, AncestorsBasic, BlocksAssumption DEF ParentClosed
    <2>2. Height[a] = Height[Parent[a]] + 1 /\ Height[Parent[a]] \in Nat
      BY <2>1, BlocksAssumption
    <2>3. h <= Height[Parent[a]]
      BY <1>2, <2>1
    <2> QED
      BY SMTT(60), <1>3, <2>2, <2>3
  <1> QED
    BY <1>4, <1>5

(* Two blocks that are each other's ancestors are the same. *)
LEMMA AncestorsAntisymmetric ==
    ASSUME NEW a \in Block, NEW b \in Ancestors[a], a \in Ancestors[b]
    PROVE  a = b
  <1>1. b \in Block
    BY AncestorsBasic
  <1> SUFFICES ASSUME a # b PROVE FALSE
    OBVIOUS
  <1>2. a # Genesis
    BY <1>1, AncestorsOfParent
  <1>3. b \in Ancestors[Parent[a]] /\ Parent[a] \in Block
    BY SMTT(60), <1>2, AncestorsOfParent
  <1>4. a \in Ancestors[Parent[a]]
    BY <1>3, AncestorsTransitive
  <1> QED
    BY <1>2, <1>4, AncestorsHeight
-----------------------------------------------------------------------------
(* The coins of a chain, by its last block. *)

Tx == [in : SUBSET OutPoint, out : SUBSET OutPoint]

(* The transactions of a block that touch a coin, the first and the last.   *)
LEMMA TouchingFacts ==
    ASSUME NEW b \in Block, NEW o, Touching(b, o) # {}
    PROVE  /\ First(Touching(b, o)) \in Touching(b, o)
           /\ \A j \in Touching(b, o) : First(Touching(b, o)) <= j
           /\ Last(Touching(b, o)) \in Touching(b, o)
           /\ \A j \in Touching(b, o) : j <= Last(Touching(b, o))
  <1> DEFINE T == Touching(b, o)
  <1> DEFINE n == Len(Vtx[b])
  <1>1. Vtx[b] \in Seq(Tx)
    BY BlocksAssumption DEF Tx
  <1>2. n \in Nat /\ T \subseteq 1 .. n
    BY SMTT(60), <1>1 DEF Touching
  <1>3. \E i \in T : \A j \in T : i <= j
    BY <1>2, LeastNatural, SMTT(30)
  <1>4. \E i \in T : \A j \in T : j <= i
    <2> DEFINE D == {n - j : j \in T}
    <2>1. D \subseteq Nat /\ D # {}
      BY SMTT(60), <1>2
    <2>2. PICK d \in D : \A e \in D : d <= e
      BY <2>1, LeastNatural
    <2>3. PICK i \in T : d = n - i
      OBVIOUS
    <2>4. ASSUME NEW j \in T PROVE j <= i
      <3>1. n - i <= n - j
        BY <2>2, <2>3
      <3>2. i \in Nat /\ j \in Nat
        BY SMTT(60), <1>2
      <3> HIDE DEF T, n
      <3> QED
        BY <1>2, <3>1, <3>2, SMTT(30)
    <2> QED
      BY <2>4
  <1> HIDE DEF T
  <1>5. First(T) \in T /\ \A j \in T : First(T) <= j
    BY <1>3 DEF First
  <1>6. Last(T) \in T /\ \A j \in T : j <= Last(T)
    BY <1>4 DEF Last
  <1> QED
    BY <1>5, <1>6 DEF T

LEMMA TouchingIs ==
    ASSUME NEW b \in Block, NEW o
    PROVE  /\ o \in Made(b) <=> \E i \in DOMAIN Vtx[b] : o \in Vtx[b][i].out
           /\ o \in Used(b) <=> \E i \in DOMAIN Vtx[b] : o \in Vtx[b][i].in
           /\ Touching(b, o) = {} <=> o \notin Made(b) /\ o \notin Used(b)
  BY DEF Made, Used, Touching

(* On a chain a coin is made once, and made before it is used. *)
LEMMA ChainIsValid ==
    ASSUME NEW b \in Block, NEW o
    PROVE  /\ \A x, y \in Ancestors[b] : o \in Made(x) /\ o \in Made(y) => x = y
           /\ \A y \in Ancestors[b] : o \in Used(y) => \E x \in Ancestors[y] : o \in Made(x)
           /\ \A i, j \in DOMAIN Vtx[b] : o \in Vtx[b][i].out /\ o \in Vtx[b][j].out => i = j
           /\ \A i \in DOMAIN Vtx[b] : o \in Vtx[b][i].in =>
                 \/ \E x \in Ancestors[b] \ {b} : o \in Made(x)
                 \/ \E j \in 1 .. i - 1 : j \in DOMAIN Vtx[b] /\ o \in Vtx[b][j].out
  <1>1. \A x, y \in Ancestors[b] : o \in Made(x) /\ o \in Made(y) => x = y
    <2>1. \A x, y \in Ancestors[b] : x # y => Made(x) \cap Made(y) = {}
      BY BlocksAssumption
    <2> QED
      BY <2>1
  <1>2. \A i, j \in DOMAIN Vtx[b] : o \in Vtx[b][i].out /\ o \in Vtx[b][j].out => i = j
    <2>1. \A i, j \in DOMAIN Vtx[b] : i # j => Vtx[b][i].out \cap Vtx[b][j].out = {}
      BY BlocksAssumption
    <2> QED
      BY <2>1
  <1>3. ASSUME NEW c \in Block, NEW i \in DOMAIN Vtx[c], o \in Vtx[c][i].in
        PROVE  \/ \E x \in Ancestors[c] \ {c} : o \in Made(x)
               \/ \E j \in 1 .. i - 1 : j \in DOMAIN Vtx[c] /\ o \in Vtx[c][j].out
    <2>1. \/ \E x \in Ancestors[c] \ {c} : o \in Made(x)
          \/ \E j \in 1 .. i - 1 : o \in Vtx[c][j].out
      BY <1>3, BlocksAssumption
    <2>2. 1 .. i - 1 \subseteq DOMAIN Vtx[c]
      <3>1. Vtx[c] \in Seq(Tx)
        BY BlocksAssumption DEF Tx
      <3> QED
        BY <3>1, SMTT(30)
    <2> QED
      BY <2>1, <2>2
  <1>4. ASSUME NEW y \in Ancestors[b], o \in Used(y) PROVE \E x \in Ancestors[y] : o \in Made(x)
    <2>1. y \in Block /\ y \in Ancestors[y]
      BY AncestorsBasic
    <2>2. PICK i \in DOMAIN Vtx[y] : o \in Vtx[y][i].in
      BY <1>4, <2>1, TouchingIs
    <2>3. \/ \E x \in Ancestors[y] \ {y} : o \in Made(x)
          \/ \E j \in DOMAIN Vtx[y] : o \in Vtx[y][j].out
      BY <1>3, <2>1, <2>2
    <2> QED
      BY <2>1, <2>3, TouchingIs
  <1> QED
    BY <1>1, <1>2, <1>3, <1>4

(* Utxo, coin by coin. *)
LEMMA UtxoIs ==
    ASSUME NEW b \in Block, NEW o \in OutPoint
    PROVE  /\ (\E y \in Ancestors[b] : o \in Used(y)) => Utxo(b)[o] = 0
           /\ (\A x \in Ancestors[b] : o \notin Made(x)) => Utxo(b)[o] = 0
           /\ \A x \in Ancestors[b] : o \in Made(x) /\ (\A y \in Ancestors[b] : o \notin Used(y))
                 => Utxo(b)[o] = Height[x]
           /\ Utxo(b)[o] \in Nat
  <1> DEFINE P == \E x \in Ancestors[b] : o \in Made(x) /\ \A y \in Ancestors[b] : o \notin Used(y)
  <1>1. Utxo(b)[o] = IF P THEN Height[CHOOSE x \in Ancestors[b] : o \in Made(x)] ELSE 0
    BY DEF Utxo
  <1>2. ASSUME NEW x \in Ancestors[b], o \in Made(x)
        PROVE  (CHOOSE z \in Ancestors[b] : o \in Made(z)) = x
    <2>1. \A z \in Ancestors[b] : o \in Made(z) => z = x
      BY <1>2, ChainIsValid
    <2> QED
      BY <1>2, <2>1
  <1>3. \A x \in Ancestors[b] : Height[x] \in Nat
    BY AncestorsBasic, BlocksAssumption
  <1>4. ASSUME NEW x \in Ancestors[b], o \in Made(x), \A y \in Ancestors[b] : o \notin Used(y)
        PROVE  Utxo(b)[o] = Height[x]
    BY <1>1, <1>2, <1>4
  <1>5. CASE P
    <2>1. PICK x \in Ancestors[b] : o \in Made(x) /\ \A y \in Ancestors[b] : o \notin Used(y)
      BY <1>5
    <2>2. Utxo(b)[o] = Height[x] /\ Height[x] \in Nat
      BY <1>3, <1>4, <2>1
    <2> QED
      BY <1>4, <2>1, <2>2
  <1>6. CASE ~P
    <2>1. Utxo(b)[o] = 0
      BY <1>1, <1>6
    <2> QED
      BY SMTT(60), <1>6, <2>1
  <1> QED
    BY <1>5, <1>6

(* A block that does not touch a coin leaves it as it was. *)
LEMMA UtxoUntouched ==
    ASSUME NEW b \in Block \ {Genesis}, NEW o \in OutPoint, Touching(b, o) = {}
    PROVE  Utxo(b)[o] = Utxo(Parent[b])[o]
  <1> DEFINE p == Parent[b]
  <1>1. p \in Block /\ Ancestors[b] = Ancestors[p] \cup {b}
    BY AncestorsOfParent
  <1>2. o \notin Made(b) /\ o \notin Used(b)
    BY TouchingIs
  <1> HIDE DEF p
  <1>3. CASE \E y \in Ancestors[p] : o \in Used(y)
    BY SMTT(60), <1>1, <1>3, UtxoIs DEF p
  <1>4. CASE \A x \in Ancestors[p] : o \notin Made(x)
    BY SMTT(60), <1>1, <1>2, <1>4, UtxoIs DEF p
  <1>5. CASE (\A y \in Ancestors[p] : o \notin Used(y)) /\ \E x \in Ancestors[p] : o \in Made(x)
    <2>1. PICK x \in Ancestors[p] : o \in Made(x)
      BY <1>5
    <2>2. Utxo(p)[o] = Height[x]
      BY <1>1, <1>5, <2>1, UtxoIs
    <2>3. Utxo(b)[o] = Height[x]
      BY <1>1, <1>2, <1>5, <2>1, UtxoIs
    <2> QED
      BY <2>2, <2>3 DEF p
  <1> QED
    BY <1>3, <1>4, <1>5

(* What the last transaction of a block to touch a coin leaves of it.       *)
LEMMA UtxoRolledForward ==
    ASSUME NEW b \in Block, NEW o \in OutPoint, Touching(b, o) # {}
    PROVE  UpdateCoins(Vtx[b][Last(Touching(b, o))], Height[b], o) = Utxo(b)[o]
  <1> DEFINE T == Touching(b, o)
  <1> DEFINE i == Last(T)
  <1>1. i \in T /\ \A j \in T : j <= i
    BY TouchingFacts
  <1>2. i \in DOMAIN Vtx[b] /\ b \in Ancestors[b]
    BY <1>1, AncestorsBasic DEF Touching
  <1>3. DOMAIN Vtx[b] \subseteq Nat
    <2>1. Vtx[b] \in Seq(Tx)
      BY BlocksAssumption DEF Tx
    <2> QED
      BY SMTT(60), <2>1
  <1>4. CASE o \in Vtx[b][i].out
    <2>1. o \in Made(b)
      BY <1>2, <1>4, TouchingIs
    <2>2. ASSUME NEW y \in Ancestors[b], o \in Used(y) PROVE FALSE
      <3>1. PICK x \in Ancestors[y] : o \in Made(x)
        BY <2>2, ChainIsValid
      <3>2. x \in Ancestors[b]
        BY <2>2, <3>1, AncestorsTransitive
      <3>3. x = b
        BY <1>2, <2>1, <3>1, <3>2, ChainIsValid
      <3>4. y = b
        BY <2>2, <3>1, <3>3, AncestorsAntisymmetric
      <3>5. PICK k \in DOMAIN Vtx[b] : o \in Vtx[b][k].in
        BY <2>2, <3>4, TouchingIs
      <3>6. k \in T
        BY <3>5 DEF Touching
      <3>7. ~ \E z \in Ancestors[b] \ {b} : o \in Made(z)
        BY <1>2, <2>1, ChainIsValid
      <3>8. PICK j \in 1 .. k - 1 : j \in DOMAIN Vtx[b] /\ o \in Vtx[b][j].out
        BY <3>5, <3>7, ChainIsValid
      <3>9. j = i
        BY <1>2, <1>4, <3>8, ChainIsValid
      <3> HIDE DEF i, T
      <3>10. k <= i /\ k \in Nat /\ j \in Nat /\ j <= k - 1
        BY <1>1, <1>3, <3>5, <3>6, <3>8, SMTT(30)
      <3> QED
        BY <3>9, <3>10, SMTT(30)
    <2>3. Utxo(b)[o] = Height[b]
      BY <1>2, <2>1, <2>2, UtxoIs
    <2> QED
      BY <1>4, <2>3 DEF UpdateCoins
  <1>5. CASE o \notin Vtx[b][i].out
    <2>1. o \in Vtx[b][i].in
      BY <1>1, <1>5 DEF Touching
    <2>2. o \in Used(b)
      BY <1>2, <2>1, TouchingIs
    <2> QED
      BY <1>2, <1>5, <2>2, UtxoIs DEF UpdateCoins
  <1> QED
    BY <1>4, <1>5

(* What the undoing of the first transaction of a block to touch a coin     *)
(* leaves of it.                                                            *)
LEMMA UtxoRolledBack ==
    ASSUME NEW b \in Block \ {Genesis}, NEW o \in OutPoint, Touching(b, o) # {}
    PROVE  ApplyTxInUndo(Vtx[b][First(Touching(b, o))], BlockUndo(Utxo(Parent[b]), b), o) = Utxo(Parent[b])[o]
  <1> DEFINE T == Touching(b, o)
  <1> DEFINE i == First(T)
  <1> DEFINE u == BlockUndo(Utxo(Parent[b]), b)
  <1>1. i \in T /\ \A j \in T : i <= j
    BY TouchingFacts
  <1>2. /\ i \in DOMAIN Vtx[b] /\ b \in Ancestors[b] /\ Parent[b] \in Block
        /\ Ancestors[b] = Ancestors[Parent[b]] \cup {b} /\ b \notin Ancestors[Parent[b]]
    BY <1>1, AncestorsBasic, AncestorsOfParent, AncestorsHeight DEF Touching
  <1>3. DOMAIN Vtx[b] \subseteq Nat
    <2>1. Vtx[b] \in Seq(Tx)
      BY BlocksAssumption DEF Tx
    <2> QED
      BY SMTT(60), <2>1
  <1>4. CASE o \in Vtx[b][i].in
    <2>1. ASSUME NEW j \in 1 .. i - 1, j \in DOMAIN Vtx[b], o \in Vtx[b][j].out PROVE FALSE
      <3>1. j \in T
        BY <2>1 DEF Touching
      <3> HIDE DEF i, T
      <3>2. i <= j /\ i \in Nat /\ j \in Nat /\ j <= i - 1
        BY <1>1, <1>2, <1>3, <2>1, <3>1, SMTT(30)
      <3> QED
        BY <3>2, SMTT(30)
    <2>2. PICK x \in Ancestors[b] \ {b} : o \in Made(x)
      BY SMTT(60), <1>2, <1>4, <2>1, ChainIsValid
    <2>3. o \notin Made(b)
      BY <1>2, <2>2, ChainIsValid
    <2>4. o \in Used(b)
      BY <1>2, <1>4, TouchingIs
    <2>5. u[o] = Utxo(Parent[b])[o]
      BY <2>3, <2>4 DEF BlockUndo
    <2> QED
      BY <1>4, <2>5 DEF ApplyTxInUndo
  <1>5. CASE o \notin Vtx[b][i].in
    <2>1. o \in Made(b)
      BY <1>1, <1>2, <1>5, TouchingIs DEF Touching
    <2>2. \A x \in Ancestors[Parent[b]] : o \notin Made(x)
      BY <1>2, <2>1, ChainIsValid
    <2>3. Utxo(Parent[b])[o] = 0
      BY <1>2, <2>2, UtxoIs
    <2> QED
      BY <1>5, <2>3 DEF ApplyTxInUndo
  <1> QED
    BY <1>4, <1>5

(* RollforwardBlock and DisconnectBlock, for any view: a coin that the      *)
(* block touches is right afterwards, the others are as before.             *)
LEMMA Rolled ==
    ASSUME NEW b \in Block \ {Genesis}, NEW view
    PROVE  /\ \A o \in OutPoint :
                 RollforwardBlock(view, b)[o] = IF Touching(b, o) = {} THEN view[o] ELSE Utxo(b)[o]
           /\ undo[b] = BlockUndo(Utxo(Parent[b]), b) =>
                 \A o \in OutPoint :
                    DisconnectBlock(view, b)[o] = IF Touching(b, o) = {} THEN view[o] ELSE Utxo(Parent[b])[o]
  BY UtxoRolledForward, UtxoRolledBack DEF RollforwardBlock, DisconnectBlock

(* From the coins of one block to those of the next and back. *)
LEMMA RolledExactly ==
    ASSUME NEW b \in Block \ {Genesis}
    PROVE  /\ RollforwardBlock(Utxo(Parent[b]), b) = Utxo(b)
           /\ undo[b] = BlockUndo(Utxo(Parent[b]), b) => DisconnectBlock(Utxo(b), b) = Utxo(Parent[b])
  <1>1. \A o \in OutPoint : RollforwardBlock(Utxo(Parent[b]), b)[o] = Utxo(b)[o]
    BY SMTT(60), Rolled, UtxoUntouched
  <1>2. ASSUME undo[b] = BlockUndo(Utxo(Parent[b]), b)
        PROVE  \A o \in OutPoint : DisconnectBlock(Utxo(b), b)[o] = Utxo(Parent[b])[o]
    BY SMTT(60), <1>2, Rolled, UtxoUntouched
  <1> QED
    BY <1>1, <1>2 DEF RollforwardBlock, DisconnectBlock, Utxo

(* Each loop of ReplayBlocks keeps the coins between the block it has come  *)
(* to and the new tip.                                                      *)
LEMMA RolledBetween ==
    ASSUME NEW b \in Block \ {Genesis}, NEW new \in Block, NEW view
    PROVE  /\ Between(view, Parent[b], new) => Between(RollforwardBlock(view, b), b, new)
           /\ undo[b] = BlockUndo(Utxo(Parent[b]), b) /\ Between(view, b, new)
                 => Between(DisconnectBlock(view, b), Parent[b], new)
  <1>1. b # NoBlock /\ Parent[b] # NoBlock
    BY SMTT(60), BlocksAssumption
  <1> QED
    BY SMTT(60), <1>1, Rolled, UtxoUntouched DEF Between, UtxoOrNone

(* At the new tip they are exact. *)
LEMMA BetweenSame ==
    ASSUME NEW b \in Block, NEW view \in [OutPoint -> Nat], Between(view, b, b)
    PROVE  view = Utxo(b)
  <1>1. b # NoBlock
    BY BlocksAssumption
  <1>2. \A o \in OutPoint : view[o] = Utxo(b)[o]
    BY <1>1 DEF Between, UtxoOrNone
  <1> QED
    BY <1>2 DEF Utxo

(* There are no coins at the genesis block. *)
LEMMA UtxoOfGenesis == Utxo(Genesis) = NoCoins
  <1>1. Genesis \in Block /\ Vtx[Genesis] = <<>> /\ Ancestors[Genesis] = {Genesis}
    BY BlocksAssumption, AncestorsOfParent
  <1>2. \A o : o \notin Made(Genesis)
    BY SMTT(60), <1>1, TouchingIs
  <1>3. \A o \in OutPoint : Utxo(Genesis)[o] = 0
    BY <1>1, <1>2, UtxoIs
  <1> QED
    BY <1>3 DEF Utxo, NoCoins
-----------------------------------------------------------------------------
(* Types. *)

LEMMA InitInv == Init => IInv
  <1> SUFFICES ASSUME Init PROVE IInv
    OBVIOUS
  <1>1. Genesis \in Block /\ Ancestors[Genesis] = {Genesis} /\ Genesis # NoBlock
    BY BlocksAssumption, AncestorsOfParent
  <1>2. NoCoins \in [OutPoint -> Nat]
    BY DEF NoCoins
  <1>3. TInv
    <2>1. EmptyDB.coins \in [OutPoint -> Nat] /\ EmptyDB.best = NoBlock /\ EmptyDB.heads = <<>>
      BY <1>2 DEF EmptyDB
    <2>2. /\ items \subseteq Block \X {"data", "undo"} /\ indexDB = items
          /\ dirty = {} /\ thrown = FALSE /\ shutdown = FALSE /\ db = EmptyDB /\ dbSynced = EmptyDB
          /\ coins \in [OutPoint -> Nat] /\ best \in Block /\ pc = "run"
      BY SMTT(60), <1>1, <1>2 DEF Init
    <2>3. TypeOK
      <3>1. /\ durable \subseteq Block \X {"data", "undo"} /\ lost = {}
            /\ file \in [Block -> Nat] /\ lastFile \in Nat /\ lastFileDB \in Nat
        BY SMTT(60), <2>2 DEF Init
      <3> QED
        BY <2>1, <2>2, <3>1 DEF TypeOK
    <2> QED
      BY <1>2, <2>3 DEF TInv, Init
  <1>4. OrderInv
    BY DEF Init, OrderInv, EmptyDB
  <1>5. UndoInv
    BY DEF Init, UndoInv
  <1>6. HasChain(items, Genesis)
    BY <1>1 DEF Init, HasChain
  <1>7. MemoryInv
    BY <1>6, UtxoOfGenesis DEF Init, MemoryInv
  <1>8. Sound(EmptyDB, indexDB)
    BY DEF Sound, EmptyDB, UtxoOrNone
  <1>9. PlacedInv /\ RiskInv
    BY SMTT(60), <1>1 DEF Init, PlacedInv, RiskInv
  <1> QED
    BY <1>3, <1>4, <1>5, <1>7, <1>8, <1>9 DEF Init, IInv, Safe

(* The coins stay a function. *)
LEMMA RolledTypes ==
    ASSUME TInv, NEW b \in Block, NEW view \in [OutPoint -> Nat]
    PROVE  /\ RollforwardBlock(view, b) \in [OutPoint -> Nat]
           /\ DisconnectBlock(view, b) \in [OutPoint -> Nat]
           /\ BlockUndo(view, b) \in [OutPoint -> Nat]
  <1>1. Height[b] \in Nat /\ undo[b] \in [OutPoint -> Nat]
    BY BlocksAssumption DEF TInv
  <1> QED
    BY <1>1 DEF RollforwardBlock, DisconnectBlock, BlockUndo, UpdateCoins, ApplyTxInUndo

(* What the types say of a coins database. *)
DBType(d) ==
    /\ d.coins \in [OutPoint -> Nat]
    /\ \/ d.best \in Block \cup {NoBlock} /\ d.heads = <<>>
       \/ d.best = NoBlock /\ d.heads \in Block \X (Block \cup {NoBlock})

LEMMA DBFacts ==
    ASSUME NEW d, DBType(d), d.heads # <<>>
    PROVE  /\ d.best = NoBlock /\ d.heads[1] \in Block /\ d.heads[2] \in Block \cup {NoBlock}
           /\ Len(d.heads) = 2 /\ d.heads = <<d.heads[1], d.heads[2]>>
  BY SMTT(60) DEF DBType

LEMMA WrittenTypes ==
    ASSUME TInv
    PROVE  /\ OldTip \in Block \cup {NoBlock}
           /\ \A S : DBType(PartialDB(S))
           /\ DBType(FinalDB)
           /\ \A S : PartialDB(S).heads = <<best, OldTip>> /\ PartialDB(S).best = NoBlock /\ PartialDB(S).heads # <<>>
  <1>1. DBType(db) /\ coins \in [OutPoint -> Nat] /\ best \in Block
    BY DEF TInv, TypeOK, DBType
  <1>2. OldTip \in Block \cup {NoBlock}
    BY SMTT(60), <1>1, DBFacts DEF OldTip, DBType
  <1>3. ASSUME NEW S PROVE With(S) \in [OutPoint -> Nat]
    BY <1>1 DEF With, DBType
  <1>4. ASSUME NEW S PROVE DBType(PartialDB(S))
    BY <1>1, <1>2, <1>3 DEF PartialDB, DBType
  <1> QED
    BY <1>1, <1>2, <1>4 DEF PartialDB, DBType, FinalDB

(* What a flush of two files does. *)
LEMMA FlushFacts ==
    ASSUME TypeOK, NEW has \in SUBSET Item, NEW f, NEW kinds, Flush(has, f, kinds)
    PROVE  /\ durable \subseteq durable' /\ durable' \subseteq durable \cup (has \ lost)
           /\ shutdown' \in BOOLEAN /\ thrown' \in BOOLEAN
           /\ (shutdown => shutdown') /\ (thrown => thrown')
           /\ ~thrown' => \A i \in has \ lost : file[i[1]] = f /\ i[2] \in kinds => i \in durable'
  <1>1. PICK failed \in IF WriteMayFail THEN SUBSET kinds ELSE {{}} :
          /\ durable' = durable \cup {i \in has \ lost : file[i[1]] = f /\ i[2] \in kinds \ failed}
          /\ shutdown' = (shutdown \/ failed # {}) /\ thrown' = (thrown \/ failed # {})
    BY DEF Flush
  <1>2. shutdown \in BOOLEAN /\ thrown \in BOOLEAN
    BY DEF TypeOK
  <1> QED
    BY <1>1, <1>2

(* Steps that leave the files and what the index says of them alone. *)
Apart ==
    /\ UNCHANGED <<items, file, lastFile, durable, lost, indexDB, lastFileDB>>
    /\ pc' = "files" => pc = "files"
    /\ pc = "down" => pc' = "down"

(* Which steps do not. *)
LEMMA FileSteps ==
    ASSUME [Next]_vars
    PROVE  \/ Apart
           \/ \E b \in Block \ {Genesis} : AcceptBlock(b) \/ ConnectTip(b)
           \/ FlushBlockFile \/ WriteBatchSync \/ Crash \/ PowerFails \/ LoadChainTip \/ ReplayBlocks
  <1>1. DisconnectTip \/ ReadFails => Apart
    BY DEF DisconnectTip, ReadFails, Apart, fileVars, indexVars
  <1>2. WriteBatchSyncFails \/ BatchFails => Apart
    BY DEF WriteBatchSyncFails, BatchFails, Writing, Apart, fileVars, indexVars
  <1>3. WriteBatch \/ FinalBatch \/ SyncDB \/ FlushReplayed => Apart
    BY DEF WriteBatch, FinalBatch, SyncDB, FlushReplayed, Writing, Apart, memVars, fileVars, indexVars
  <1>4. (Rollback \/ \E b \in Block \ {Genesis} : Rollforward(b)) => Apart
    BY DEF Rollback, Rollforward, Apart, fileVars, indexVars
  <1>5. UNCHANGED vars => Apart
    BY DEF vars, Apart, memVars, fileVars, indexVars
  <1> QED
    BY <1>1, <1>2, <1>3, <1>4, <1>5 DEF Next

(* What AcceptBlock does to the files. *)
LEMMA AcceptFacts ==
    ASSUME TypeOK, NEW b \in Block \ {Genesis}, AcceptBlock(b)
    PROVE  /\ pc = "run" /\ pc' = "run" /\ <<b, "data">> \notin items /\ items' = items \cup {<<b, "data">>}
           /\ UNCHANGED <<lost, indexDB, lastFileDB>>
           /\ durable \subseteq durable' /\ durable' \subseteq durable \cup (items \ lost)
           /\ lastFile' \in Nat /\ lastFile <= lastFile' /\ file' = [file EXCEPT ![b] = lastFile']
           /\ shutdown' \in BOOLEAN /\ thrown' \in BOOLEAN /\ (thrown => thrown')
           /\ ~thrown' /\ lastFile' # lastFile => \A i \in items \ lost : file[i[1]] = lastFile /\ i[2] = "data" => i \in durable'
  <1>1. items \in SUBSET Item /\ lastFile \in Nat /\ shutdown \in BOOLEAN /\ thrown \in BOOLEAN
    BY DEF TypeOK, Item
  <1>2. /\ pc = "run" /\ pc' = "run" /\ <<b, "data">> \notin items /\ items' = items \cup {<<b, "data">>}
        /\ UNCHANGED <<lost, indexDB, lastFileDB>>
    BY DEF AcceptBlock, indexVars
  <1>3. CASE file' = [file EXCEPT ![b] = lastFile] /\ UNCHANGED <<lastFile, durable, shutdown, thrown>>
    BY SMTT(60), <1>1, <1>2, <1>3
  <1>4. CASE \E kinds \in {{"data"}, {"data", "undo"}} :
               Flush(items, lastFile, kinds) /\ file' = [file EXCEPT ![b] = lastFile + 1] /\ lastFile' = lastFile + 1
    <2>1. PICK kinds \in {{"data"}, {"data", "undo"}} : Flush(items, lastFile, kinds)
      BY <1>4
    <2>2. "data" \in kinds
      OBVIOUS
    <2>3. lastFile' \in Nat /\ lastFile <= lastFile' /\ file' = [file EXCEPT ![b] = lastFile']
      BY SMTT(60), <1>1, <1>4
    <2> QED
      BY SMTT(60), <1>1, <1>2, <2>1, <2>2, <2>3, FlushFacts
  <1> QED
    BY <1>3, <1>4 DEF AcceptBlock

(* And ConnectTip. *)
LEMMA ConnectFacts ==
    ASSUME TypeOK, NEW b \in Block \ {Genesis}, ConnectTip(b)
    PROVE  /\ pc = "run" /\ pc' = "run" /\ <<b, "data">> \in items /\ items' = items \cup {<<b, "undo">>}
           /\ UNCHANGED <<file, lastFile, lost, indexDB, lastFileDB>>
           /\ durable \subseteq durable' /\ durable' \subseteq durable \cup (items' \ lost)
           /\ shutdown' \in BOOLEAN /\ thrown' \in BOOLEAN /\ (thrown => thrown')
  <1>1. items \in SUBSET Item /\ shutdown \in BOOLEAN /\ thrown \in BOOLEAN
    BY DEF TypeOK, Item
  <1>2. /\ pc = "run" /\ pc' = "run" /\ <<b, "data">> \in items /\ items' = items \cup {<<b, "undo">>}
        /\ UNCHANGED <<file, lastFile, lost, indexDB, lastFileDB>>
    BY DEF ConnectTip, WriteUndo, indexVars
  <1>3. items' \in SUBSET Item
    BY SMTT(60), <1>1, <1>2 DEF Item
  <1>4. Flush(items', file[b], {"undo"}) \/ UNCHANGED <<durable, shutdown, thrown>>
    BY DEF ConnectTip, WriteUndo
  <1> QED
    BY <1>1, <1>2, <1>3, <1>4, FlushFacts

(* And a crash or a power failure. *)
LEMMA ForgetFacts ==
    ASSUME TypeOK, Crash \/ PowerFails
    PROVE  /\ pc' = "down" /\ items' = {} /\ dirty' = {} /\ lastFile' = lastFileDB
           /\ UNCHANGED <<undo, indexDB, lastFileDB, thrown>>
           /\ file' \in [Block -> Nat] /\ \A i \in indexDB : file'[i[1]] = file[i[1]]
           /\ lost' \subseteq lost \cup (indexDB \ durable) /\ lost \subseteq lost'
           /\ durable' \subseteq indexDB /\ durable \cap indexDB \subseteq durable' \cup lost
           /\ lost \cap durable = {} => lost' \cap durable' = {}
  <1>1. /\ pc' = "down" /\ items' = {} /\ dirty' = {} /\ lastFile' = lastFileDB
        /\ UNCHANGED <<undo, indexDB, lastFileDB, thrown>>
        /\ file' = [b \in Block |-> IF \E i \in indexDB : i[1] = b THEN file[b] ELSE 0]
    BY DEF Crash, PowerFails, Forget, indexVars
  <1>2. indexDB \subseteq Item /\ file \in [Block -> Nat]
    BY DEF TypeOK, Item
  <1>3. file' \in [Block -> Nat] /\ \A i \in indexDB : file'[i[1]] = file[i[1]]
    <2>1. \A i \in indexDB : i[1] \in Block
      BY SMTT(60), <1>2 DEF Item
    <2> QED
      BY SMTT(60), <1>1, <1>2, <2>1
  <1>4. CASE Crash
    BY <1>1, <1>3, <1>4 DEF Crash
  <1>5. CASE PowerFails
    BY <1>1, <1>3, <1>5 DEF PowerFails
  <1> QED
    BY <1>4, <1>5

LEMMA FileTypeStep == IInv /\ [Next]_vars => FileTypes'
  <1> SUFFICES ASSUME IInv, [Next]_vars PROVE FileTypes'
    OBVIOUS
  <1>1. TypeOK /\ FileTypes /\ items \subseteq Item /\ indexDB \subseteq Item /\ lost \subseteq indexDB
    BY DEF IInv, TInv, TypeOK, FileTypes, Item
  <1>2. CASE Apart
    BY <1>1, <1>2 DEF Apart, FileTypes
  <1>3. ASSUME NEW b \in Block \ {Genesis}, AcceptBlock(b) PROVE FileTypes'
    <2>1. <<b, "data">> \in Item
      BY DEF Item
    <2>2. /\ UNCHANGED <<lost, indexDB, lastFileDB>> /\ durable' \subseteq durable \cup (items \ lost)
          /\ lastFile' \in Nat /\ file' = [file EXCEPT ![b] = lastFile']
      BY <1>1, <1>3, AcceptFacts
    <2>3. file' \in [Block -> Nat]
      BY SMTT(60), <1>1, <2>2 DEF FileTypes
    <2> QED
      BY <1>1, <2>2, <2>3 DEF FileTypes
  <1>4. ASSUME NEW b \in Block \ {Genesis}, ConnectTip(b) PROVE FileTypes'
    <2>1. <<b, "undo">> \in Item
      BY DEF Item
    <2> QED
      BY <1>1, <1>4, <2>1, ConnectFacts DEF FileTypes
  <1>5. CASE FlushBlockFile
    BY <1>1, <1>5, FlushFacts DEF FlushBlockFile, FileTypes, indexVars
  <1>6. CASE WriteBatchSync
    BY <1>1, <1>6 DEF WriteBatchSync, FileTypes, fileVars
  <1>7. CASE Crash \/ PowerFails
    BY <1>1, <1>7, ForgetFacts DEF FileTypes
  <1>8. CASE LoadChainTip \/ ReplayBlocks
    BY <1>1, <1>8 DEF LoadChainTip, ReplayBlocks, FileTypes, fileVars, indexVars
  <1> QED
    BY <1>2, <1>3, <1>4, <1>5, <1>6, <1>7, <1>8, FileSteps

(* Where things are. *)
LEMMA PlacedStep == IInv /\ [Next]_vars => PlacedInv'
  <1> SUFFICES ASSUME IInv, [Next]_vars PROVE PlacedInv'
    OBVIOUS
  <1>1. /\ TypeOK /\ FileTypes /\ items \subseteq Item /\ indexDB \subseteq Item /\ lost \subseteq indexDB
        /\ PlacedInv
    BY DEF IInv, TInv, TypeOK, FileTypes, Item
  <1>2. CASE Apart
    BY <1>1, <1>2 DEF Apart, PlacedInv
  <1>3. ASSUME NEW b \in Block \ {Genesis}, AcceptBlock(b) PROVE PlacedInv'
    <2>1. /\ pc = "run" /\ <<b, "data">> \notin items /\ items' = items \cup {<<b, "data">>}
          /\ UNCHANGED <<lost, indexDB, lastFileDB>>
          /\ durable' \subseteq durable \cup (items \ lost)
          /\ lastFile' \in Nat /\ lastFile <= lastFile' /\ file' = [file EXCEPT ![b] = lastFile']
      BY <1>1, <1>3, AcceptFacts
    <2>2. lost' \cap durable' = {} /\ indexDB' \subseteq items'
      BY <1>1, <2>1 DEF PlacedInv
    <2>3. lastFileDB' <= lastFile'
      BY SMTT(60), <1>1, <2>1 DEF PlacedInv, FileTypes
    <2>4. \A i \in items : i[1] # b /\ i[1] \in Block
      BY SMTT(60), <1>1, <2>1 DEF PlacedInv, Item
    <2>5. \A i \in items : file'[i[1]] = file[i[1]]
      BY SMTT(60), <1>1, <2>1, <2>4 DEF FileTypes
    <2>6. ASSUME NEW i \in items' PROVE file'[i[1]] <= lastFile' /\ <<i[1], "data">> \in items'
      <3>1. CASE i \in items
        BY SMTT(60), <1>1, <2>1, <2>4, <2>5, <3>1 DEF PlacedInv, FileTypes
      <3>2. CASE i = <<b, "data">>
        BY SMTT(60), <1>1, <2>1, <3>2 DEF FileTypes
      <3> QED
        BY <2>1, <3>1, <3>2
    <2>7. ASSUME NEW i \in indexDB PROVE file'[i[1]] <= lastFileDB /\ <<i[1], "data">> \in indexDB
      BY <1>1, <2>1, <2>5 DEF PlacedInv
    <2> QED
      BY <2>1, <2>2, <2>3, <2>6, <2>7 DEF PlacedInv
  <1>4. ASSUME NEW b \in Block \ {Genesis}, ConnectTip(b) PROVE PlacedInv'
    <2>1. /\ pc = "run" /\ <<b, "data">> \in items /\ items' = items \cup {<<b, "undo">>}
          /\ UNCHANGED <<file, lastFile, lost, indexDB, lastFileDB>>
          /\ durable' \subseteq durable \cup (items' \ lost)
      BY <1>1, <1>4, ConnectFacts
    <2>2. lost' \cap durable' = {} /\ indexDB' \subseteq items'
      BY <1>1, <2>1 DEF PlacedInv
    <2>3. <<b, "data">>[1] = b /\ <<b, "undo">>[1] = b
      BY SMTT(60)
    <2>4. \A i \in items' : file[i[1]] <= lastFile /\ <<i[1], "data">> \in items'
      BY <1>1, <2>1, <2>3 DEF PlacedInv
    <2> QED
      BY <1>1, <2>1, <2>2, <2>4 DEF PlacedInv
  <1>5. CASE FlushBlockFile
    <2>1. /\ UNCHANGED <<items, file, lastFile, lost, indexDB, lastFileDB>> /\ pc = "run"
          /\ durable' \subseteq durable \cup (items \ lost)
      BY <1>1, <1>5, FlushFacts DEF FlushBlockFile, indexVars
    <2> QED
      BY <1>1, <2>1 DEF PlacedInv
  <1>6. CASE WriteBatchSync
    <2>1. /\ UNCHANGED <<items, file, lastFile, lost, durable>> /\ pc = "files" /\ lastFileDB' = lastFile
          /\ indexDB' = indexDB \cup {i \in items : i[1] \in dirty}
      BY <1>6 DEF WriteBatchSync, fileVars
    <2>2. \A i \in indexDB' : i \in items /\ <<i[1], "data">> \in indexDB'
      <3>1. \A i \in items : <<i[1], "data">>[1] = i[1]
        BY SMTT(60)
      <3> QED
        BY <1>1, <2>1, <3>1 DEF PlacedInv
    <2>3. lastFile <= lastFile
      BY SMTT(60), <1>1 DEF FileTypes
    <2> QED
      BY <1>1, <2>1, <2>2, <2>3 DEF PlacedInv
  <1>7. CASE Crash \/ PowerFails
    <2>1. lastFileDB <= lastFileDB
      BY SMTT(60), <1>1 DEF FileTypes
    <2> QED
      BY <1>1, <1>7, <2>1, ForgetFacts DEF PlacedInv
  <1>8. CASE LoadChainTip \/ ReplayBlocks
    <2>1. UNCHANGED <<file, lastFile, durable, lost, indexDB, lastFileDB>> /\ items' = indexDB
      BY <1>8 DEF LoadChainTip, ReplayBlocks, fileVars, indexVars
    <2>2. \A i \in indexDB : file[i[1]] <= lastFile
      <3>1. \A i \in indexDB : file[i[1]] \in Nat
        BY SMTT(60), <1>1 DEF FileTypes, Item
      <3>2. /\ lastFile \in Nat /\ lastFileDB \in Nat /\ lastFileDB <= lastFile
            /\ \A i \in indexDB : file[i[1]] <= lastFileDB
        BY <1>1 DEF FileTypes, PlacedInv
      <3> QED
        BY SMTT(60), <3>1, <3>2
    <2> QED
      BY <1>1, <2>1, <2>2 DEF PlacedInv
  <1> QED
    BY <1>2, <1>3, <1>4, <1>5, <1>6, <1>7, <1>8, FileSteps

(* What a power failure may take. *)
LEMMA RiskStep == IInv /\ [Next]_vars /\ ~thrown /\ ~thrown' => RiskInv'
  <1> SUFFICES ASSUME IInv, [Next]_vars, ~thrown, ~thrown' PROVE RiskInv'
    OBVIOUS
  <1>1. /\ TypeOK /\ FileTypes /\ items \subseteq Item /\ indexDB \subseteq Item /\ lost \subseteq indexDB
        /\ PlacedInv /\ RiskInv /\ lastFile \in Nat /\ lastFileDB \in Nat
        /\ \A i \in items \cup indexDB : i[1] \in Block /\ file[i[1]] \in Nat
    <2>1. /\ TypeOK /\ FileTypes /\ items \subseteq Item /\ indexDB \subseteq Item /\ lost \subseteq indexDB
          /\ PlacedInv /\ RiskInv /\ lastFile \in Nat /\ lastFileDB \in Nat
      BY DEF IInv, TInv, TypeOK, FileTypes, Item
    <2>2. \A i \in items \cup indexDB : i[1] \in Block /\ file[i[1]] \in Nat
      BY SMTT(60), <2>1 DEF FileTypes, Item
    <2> QED
      BY <2>1, <2>2
  <1>2. CASE Apart
    BY <1>1, <1>2 DEF Apart, RiskInv
  <1>3. ASSUME NEW b \in Block \ {Genesis}, AcceptBlock(b) PROVE RiskInv'
    <2>1. /\ pc = "run" /\ pc' = "run" /\ <<b, "data">> \notin items /\ items' = items \cup {<<b, "data">>}
          /\ UNCHANGED <<lost, indexDB, lastFileDB>> /\ durable \subseteq durable'
          /\ lastFile' \in Nat /\ file' = [file EXCEPT ![b] = lastFile']
          /\ lastFile' # lastFile => \A i \in items \ lost : file[i[1]] = lastFile /\ i[2] = "data" => i \in durable'
      BY <1>1, <1>3, AcceptFacts
    <2>2. \A i \in items : i[1] # b
      BY <1>1, <2>1 DEF PlacedInv
    <2>3. \A i \in items : file'[i[1]] = file[i[1]]
      BY SMTT(60), <1>1, <2>1, <2>2 DEF FileTypes
    <2>4. ASSUME NEW i \in items' \ durable', i[2] = "data" PROVE file'[i[1]] = lastFile'
      <3>1. CASE i = <<b, "data">>
        BY SMTT(60), <1>1, <2>1, <3>1 DEF FileTypes
      <3>2. CASE i \in items
        <4>1. i \notin durable /\ file[i[1]] = lastFile
          BY <1>1, <2>1, <2>4, <3>2 DEF RiskInv
        <4>2. i \notin lost
          <5>1. "data" # "undo"
            OBVIOUS
          <5> QED
            BY <1>1, <2>4, <4>1, <5>1 DEF RiskInv
        <4> QED
          BY <2>1, <2>3, <2>4, <3>2, <4>1, <4>2
      <3> QED
        BY <2>1, <3>1, <3>2
    <2>5. \A i \in indexDB \ durable' : i[2] = "undo" /\ file'[i[1]] < lastFileDB
      BY <1>1, <2>1, <2>3 DEF RiskInv, PlacedInv
    <2> QED
      BY <2>1, <2>4, <2>5 DEF RiskInv
  <1>4. ASSUME NEW b \in Block \ {Genesis}, ConnectTip(b) PROVE RiskInv'
    <2>1. /\ pc' = "run" /\ items' = items \cup {<<b, "undo">>} /\ <<b, "undo">>[2] # "data"
          /\ UNCHANGED <<file, lastFile, lost, indexDB, lastFileDB>> /\ durable \subseteq durable'
      BY <1>1, <1>4, ConnectFacts
    <2> QED
      BY <1>1, <2>1 DEF RiskInv
  <1>5. CASE FlushBlockFile
    <2>1. /\ UNCHANGED <<items, file, lastFile, lost, indexDB, lastFileDB>> /\ pc = "run" /\ durable \subseteq durable'
          /\ \A i \in items \ lost : file[i[1]] = lastFile /\ i[2] \in {"data", "undo"} => i \in durable'
      BY <1>1, <1>5, FlushFacts DEF FlushBlockFile, indexVars
    <2>2. ASSUME NEW i \in items \ durable' PROVE i[2] = "undo" /\ file[i[1]] < lastFile
      <3>5. i[2] \in {"data", "undo"}
        BY SMTT(60), <1>1 DEF Item
      <3>1. i[2] \in {"data", "undo"} /\ i \notin durable /\ file[i[1]] <= lastFile
        BY <1>1, <2>1, <3>5 DEF PlacedInv
      <3>2. CASE i \in lost
        <4>1. i[2] = "undo" /\ file[i[1]] < lastFileDB
          BY <1>1, <3>1, <3>2 DEF RiskInv
        <4> QED
          BY SMTT(60), <1>1, <4>1 DEF PlacedInv
      <3>3. CASE i \notin lost
        <4>1. file[i[1]] # lastFile
          BY <2>1, <3>1, <3>3
        <4>2. i[2] # "data"
          BY <1>1, <3>1, <4>1 DEF RiskInv
        <4> QED
          BY SMTT(60), <1>1, <3>1, <4>1, <4>2
      <3> QED
        BY <3>2, <3>3
    <2> QED
      BY <1>1, <2>1, <2>2 DEF RiskInv
  <1>6. CASE WriteBatchSync
    <2>1. /\ UNCHANGED <<items, file, lastFile, lost, durable>> /\ pc = "files" /\ lastFileDB' = lastFile
          /\ indexDB' \subseteq indexDB \cup items /\ pc' # "files"
      BY <1>6 DEF WriteBatchSync, fileVars
    <2>2. indexDB \subseteq items
      BY <1>1, <2>1 DEF PlacedInv
    <2> QED
      BY <1>1, <2>1, <2>2 DEF RiskInv
  <1>7. CASE Crash \/ PowerFails
    <2>1. /\ pc' = "down" /\ items' = {} /\ UNCHANGED <<indexDB, lastFileDB>>
          /\ \A i \in indexDB : file'[i[1]] = file[i[1]]
          /\ durable \cap indexDB \subseteq durable' \cup lost
      BY <1>1, <1>7, ForgetFacts
    <2>2. \A i \in indexDB \ durable' : i \notin durable
      BY <1>1, <2>1 DEF PlacedInv
    <2> QED
      BY <1>1, <2>1, <2>2 DEF RiskInv
  <1>8. CASE LoadChainTip \/ ReplayBlocks
    <2>1. UNCHANGED <<file, lastFile, durable, lost, indexDB, lastFileDB>> /\ items' = indexDB /\ pc' # "files"
      BY <1>8 DEF LoadChainTip, ReplayBlocks, fileVars, indexVars
    <2>2. "data" # "undo"
      OBVIOUS
    <2> QED
      BY <1>1, <2>1, <2>2 DEF RiskInv
  <1> QED
    BY <1>2, <1>3, <1>4, <1>5, <1>6, <1>7, <1>8, FileSteps

LEMMA TypeStep == IInv /\ [Next]_vars => TInv'
  <1> SUFFICES ASSUME IInv, [Next]_vars PROVE TInv'
    OBVIOUS
  <1>1. /\ TInv /\ OrderInv /\ Genesis \in Block
        /\ \A b \in Block \ {Genesis} : Parent[b] \in Block
    BY BlocksAssumption DEF IInv
  <1>2. TypeOK <=> /\ pc \in {"run", "files", "coins", "roll", "replay", "down", "error"}
                   /\ coins \in [OutPoint -> Nat] /\ best \in Block /\ shutdown \in BOOLEAN /\ thrown \in BOOLEAN
                   /\ items \subseteq Item /\ dirty \subseteq Block /\ indexDB \subseteq Item
                   /\ DBType(db) /\ DBType(dbSynced)
    BY <1>1 DEF TypeOK, Item, DBType, TInv
  <1>3. (TypeOK <=> /\ pc \in {"run", "files", "coins", "roll", "replay", "down", "error"}
                    /\ coins \in [OutPoint -> Nat] /\ best \in Block /\ shutdown \in BOOLEAN /\ thrown \in BOOLEAN
                    /\ items \subseteq Item /\ dirty \subseteq Block /\ indexDB \subseteq Item
                    /\ DBType(db) /\ DBType(dbSynced))'
    <2>1. FileTypes'
      BY FileTypeStep
    <2> QED
      BY <2>1 DEF TypeOK, Item, DBType, FileTypes
  <1>4. TypeOK /\ undo \in [Block -> [OutPoint -> Nat]]
    BY <1>1 DEF TInv
  <1>5. ASSUME NEW b \in Block \ {Genesis}, AcceptBlock(b) PROVE TInv'
    <2>1. /\ UNCHANGED <<pc, coins, best, undo, indexDB, db, dbSynced>>
          /\ items' = items \cup {<<b, "data">>} /\ dirty' = dirty \cup {b}
      BY <1>5 DEF AcceptBlock, indexVars
    <2>2. shutdown' \in BOOLEAN /\ thrown' \in BOOLEAN
      BY <1>4, <1>5, AcceptFacts
    <2>3. items' \subseteq Item
      BY SMTT(60), <1>2, <1>4, <2>1 DEF Item
    <2> QED
      BY <1>2, <1>3, <1>4, <2>1, <2>2, <2>3 DEF TInv, DBType
  <1>6. ASSUME NEW b \in Block \ {Genesis}, ConnectTip(b) PROVE TInv'
    <2>1. coins' \in [OutPoint -> Nat] /\ undo' \in [Block -> [OutPoint -> Nat]]
      BY <1>1, <1>2, <1>4, <1>6, RolledTypes DEF ConnectTip, WriteUndo
    <2>2. /\ UNCHANGED <<pc, indexDB, db, dbSynced>> /\ best' = b
          /\ items' = items \cup {<<b, "undo">>} /\ dirty' = dirty \cup {b}
      BY <1>6 DEF ConnectTip, WriteUndo, MarkDirty, indexVars
    <2>3. shutdown' \in BOOLEAN /\ thrown' \in BOOLEAN
      BY <1>4, <1>6, ConnectFacts
    <2>4. items' \subseteq Item
      BY SMTT(60), <1>2, <1>4, <2>2 DEF Item
    <2> QED
      BY <1>2, <1>3, <1>4, <2>1, <2>2, <2>3, <2>4 DEF TInv, DBType
  <1>19. CASE ReadFails
    BY <1>1, <1>2, <1>3, <1>4, <1>19 DEF ReadFails, TInv, fileVars, indexVars
  <1>20. CASE FlushBlockFile
    <2>1. items \in SUBSET Item
      BY <1>2, <1>4
    <2>2. shutdown' \in BOOLEAN /\ thrown' \in BOOLEAN
      BY <1>4, <1>20, <2>1, FlushFacts DEF FlushBlockFile
    <2> QED
      BY <1>2, <1>3, <1>4, <1>20, <2>2 DEF FlushBlockFile, TInv, indexVars
  <1>7. CASE DisconnectTip
    <2>1. coins' \in [OutPoint -> Nat]
      BY <1>1, <1>2, <1>4, <1>7, RolledTypes DEF DisconnectTip
    <2> QED
      BY <1>1, <1>2, <1>3, <1>4, <1>7, <2>1 DEF DisconnectTip, TInv, fileVars, indexVars
  <1>8. CASE WriteBatchSync \/ WriteBatchSyncFails
    BY <1>2, <1>3, <1>4, <1>8 DEF WriteBatchSync, WriteBatchSyncFails, TInv, memVars, fileVars, indexVars
  <1>9. CASE WriteBatch \/ FinalBatch
    <2>1. DBType(db')
      BY <1>1, <1>9, WrittenTypes DEF WriteBatch, FinalBatch
    <2> QED
      BY <1>2, <1>3, <1>4, <1>9, <2>1 DEF WriteBatch, FinalBatch, TInv, memVars, fileVars, indexVars
  <1>10. CASE BatchFails
    <2>1. coins' \in [OutPoint -> Nat]
      BY <1>2, <1>4, <1>10 DEF BatchFails, DBType
    <2> QED
      BY <1>2, <1>3, <1>4, <1>10, <2>1 DEF BatchFails, TInv, fileVars, indexVars
  <1>11. CASE SyncDB
    BY <1>2, <1>3, <1>4, <1>11 DEF SyncDB, TInv, memVars, fileVars, indexVars
  <1>12. CASE Crash \/ PowerFails
    <2>1. NoCoins \in [OutPoint -> Nat]
      BY DEF NoCoins
    <2> QED
      BY <1>1, <1>2, <1>3, <1>4, <1>12, <2>1 DEF Crash, PowerFails, Forget, TInv, indexVars
  <1>13. CASE LoadChainTip
    BY <1>1, <1>2, <1>3, <1>4, <1>13 DEF LoadChainTip, TInv, fileVars, indexVars, DBType
  <1>14. CASE ReplayBlocks
    <2>1. db.heads[2] \in Block \cup {NoBlock} /\ db.coins \in [OutPoint -> Nat]
      BY <1>2, <1>4, <1>14, DBFacts DEF ReplayBlocks, DBType
    <2> QED
      BY <1>1, <1>2, <1>3, <1>4, <1>14, <2>1 DEF ReplayBlocks, TInv, fileVars, indexVars
  <1>15. CASE Rollback
    <2>1. db.heads[1] \in Block /\ best \in Block /\ coins \in [OutPoint -> Nat]
      BY <1>1, <1>2, <1>4, <1>15, DBFacts DEF Rollback, OrderInv
    <2>2. Parent[best] \in Block
      BY <1>1, <1>15, <2>1, GenesisIsAncestor DEF Rollback
    <2>3. coins' \in [OutPoint -> Nat]
      BY SMTT(60), <1>1, <1>15, <2>1, RolledTypes DEF Rollback
    <2> QED
      BY <1>2, <1>3, <1>4, <1>15, <2>2, <2>3 DEF Rollback, TInv, fileVars, indexVars
  <1>16. ASSUME NEW b \in Block \ {Genesis}, Rollforward(b) PROVE TInv'
    <2>1. coins' \in [OutPoint -> Nat]
      BY SMTT(60), <1>1, <1>2, <1>4, <1>16, RolledTypes DEF Rollforward
    <2> QED
      BY <1>2, <1>3, <1>4, <1>16, <2>1 DEF Rollforward, TInv, fileVars, indexVars
  <1>17. CASE FlushReplayed
    BY <1>2, <1>3, <1>4, <1>17 DEF FlushReplayed, TInv, memVars, fileVars, indexVars
  <1>18. CASE UNCHANGED vars
    BY <1>2, <1>3, <1>4, <1>18 DEF vars, TInv, memVars, fileVars, indexVars
  <1> QED
    BY <1>5, <1>6, <1>7, <1>8, <1>9, <1>10, <1>11, <1>12, <1>13, <1>14, <1>15, <1>16, <1>17, <1>18, <1>19, <1>20 DEF Next

(* The order of the stores. *)
LEMMA OrderStep == IInv /\ [Next]_vars => OrderInv'
  <1> SUFFICES ASSUME IInv, [Next]_vars PROVE OrderInv'
    OBVIOUS
  <1>1. TInv /\ OrderInv
    BY DEF IInv
  <1>2. CASE \E b \in Block \ {Genesis} : AcceptBlock(b) \/ ConnectTip(b)
    BY <1>1, <1>2 DEF AcceptBlock, ConnectTip, OrderInv, indexVars
  <1>3. CASE DisconnectTip \/ ReadFails
    BY <1>1, <1>3 DEF DisconnectTip, ReadFails, OrderInv, fileVars, indexVars
  <1>4. CASE FlushBlockFile
    <2>1. items \in SUBSET Item /\ TypeOK
      BY <1>1 DEF TInv, TypeOK, Item
    <2>2. shutdown => shutdown'
      BY <1>4, <2>1, FlushFacts DEF FlushBlockFile
    <2> QED
      BY <1>1, <1>4, <2>2 DEF FlushBlockFile, OrderInv, indexVars
  <1>5. CASE WriteBatchSync \/ WriteBatchSyncFails
    BY <1>1, <1>5 DEF WriteBatchSync, WriteBatchSyncFails, OrderInv, fileVars, indexVars
  <1>6. CASE WriteBatch
    <2>1. db'.heads = <<best, OldTip>>
      BY <1>1, <1>6, WrittenTypes DEF WriteBatch
    <2>2. db'.heads[1] = best /\ db'.heads # <<>>
      BY SMTT(60), <2>1
    <2> QED
      BY <1>1, <1>6, <2>2 DEF WriteBatch, Writing, OrderInv, fileVars, indexVars, memVars
  <1>7. CASE FinalBatch
    <2>1. db'.heads = <<>>
      BY <1>7 DEF FinalBatch, FinalDB
    <2> QED
      BY <1>1, <1>7, <2>1 DEF FinalBatch, OrderInv, fileVars, indexVars
  <1>8. CASE BatchFails
    BY <1>1, <1>8 DEF BatchFails, Writing, OrderInv, fileVars, indexVars
  <1>9. CASE SyncDB \/ UNCHANGED vars
    BY <1>1, <1>9 DEF SyncDB, vars, OrderInv, fileVars, indexVars, memVars
  <1>10. CASE Crash \/ PowerFails
    BY <1>1, <1>10 DEF Crash, PowerFails, Forget, OrderInv, indexVars
  <1>11. CASE LoadChainTip
    BY <1>1, <1>11 DEF LoadChainTip, OrderInv, fileVars, indexVars
  <1>12. CASE ReplayBlocks
    BY <1>1, <1>12 DEF ReplayBlocks, OrderInv, fileVars, indexVars
  <1>13. CASE Rollback \/ \E b \in Block \ {Genesis} : Rollforward(b)
    BY <1>1, <1>13 DEF Rollback, Rollforward, OrderInv, fileVars, indexVars
  <1>14. CASE FlushReplayed
    BY <1>1, <1>14 DEF FlushReplayed, OrderInv, fileVars, indexVars, memVars
  <1> QED
    BY <1>2, <1>3, <1>4, <1>5, <1>6, <1>7, <1>8, <1>9, <1>10, <1>11, <1>12, <1>13, <1>14 DEF Next
-----------------------------------------------------------------------------
(* The coins and the chains. *)

(* HasChain along the tree. *)
LEMMA ChainSteps ==
    ASSUME NEW S, NEW b \in Block, HasChain(S, b)
    PROVE  /\ <<b, "data">> \in S /\ (b # Genesis => <<b, "undo">> \in S)
           /\ \A a \in Ancestors[b] : HasChain(S, a)
           /\ b # Genesis => HasChain(S, Parent[b])
  <1>1. b \in Ancestors[b] /\ \A a \in Ancestors[b] : Ancestors[a] \subseteq Ancestors[b]
    BY AncestorsBasic, AncestorsTransitive
  <1>2. \A a \in Ancestors[b] : HasChain(S, a)
    BY <1>1 DEF HasChain
  <1>3. b # Genesis => Parent[b] \in Ancestors[b]
    BY <1>1, AncestorsBasic DEF ParentClosed
  <1> QED
    BY <1>1, <1>2, <1>3 DEF HasChain

LEMMA ChainIn ==
    ASSUME NEW S, NEW T, S \subseteq T, NEW b, HasChain(S, b)
    PROVE  HasChain(T, b)
  BY DEF HasChain

LEMMA ChainGrows ==
    ASSUME NEW S, NEW b \in Block \ {Genesis}, HasChain(S, Parent[b]), <<b, "data">> \in S, <<b, "undo">> \in S
    PROVE  HasChain(S, b)
  <1>1. Ancestors[b] = Ancestors[Parent[b]] \cup {b}
    BY AncestorsOfParent
  <1> QED
    BY <1>1 DEF HasChain

(* A larger index harms no database. *)
LEMMA SoundGrows ==
    ASSUME NEW d, DBType(d), NEW S, NEW T, Sound(d, S), S \subseteq T
    PROVE  Sound(d, T)
  <1>1. CASE d.heads = <<>>
    <2>1. d.best \in Block \cup {NoBlock}
      BY <1>1 DEF DBType
    <2> QED
      BY <1>1, <2>1, ChainIn DEF Sound
  <1>2. CASE d.heads # <<>>
    <2>1. HasChain(T, d.heads[1])
      BY <1>2, ChainIn DEF Sound
    <2>2. d.heads[2] # NoBlock => HasChain(T, d.heads[2])
      BY SMTT(60), <1>2, ChainIn DEF Sound
    <2> QED
      BY <1>2, <2>1, <2>2 DEF Sound
  <1> QED
    BY <1>1, <1>2

(* What the actions below use of the invariant. *)
LEMMA SafeFacts ==
    ASSUME TInv, Safe
    PROVE  /\ best \in Block /\ best # NoBlock /\ coins \in [OutPoint -> Nat]
           /\ DBType(db) /\ DBType(dbSynced)
           /\ UndoInv /\ MemoryInv /\ Sound(db, indexDB) /\ Sound(dbSynced, indexDB)
  <1>1. TypeOK
    BY DEF TInv
  <1>2. best \in Block /\ coins \in [OutPoint -> Nat]
    BY <1>1 DEF TypeOK
  <1>3. DBType(db) /\ DBType(dbSynced)
    BY <1>1, Zenon DEF TypeOK, DBType
  <1>4. best # NoBlock
    BY <1>2, BlocksAssumption
  <1> QED
    BY <1>2, <1>3, <1>4 DEF Safe

(* The node at work. *)
LEMMA RunSafe ==
    ASSUME TInv, OrderInv, Safe,
           DisconnectTip \/ ReadFails \/ \E b \in Block \ {Genesis} : AcceptBlock(b) \/ ConnectTip(b)
    PROVE  Safe'
  <1>1. /\ best \in Block /\ UndoInv /\ MemoryInv /\ Sound(db, indexDB) /\ Sound(dbSynced, indexDB)
        /\ undo \in [Block -> [OutPoint -> Nat]] /\ items \subseteq Item
    BY DEF TInv, TypeOK, Safe, Item
  <1>2. ASSUME NEW b \in Block \ {Genesis}, AcceptBlock(b) PROVE Safe'
    <2>1. /\ pc' = "run" /\ pc = "run" /\ coins' = coins /\ best' = best /\ undo' = undo /\ indexDB' = indexDB
          /\ db' = db /\ dbSynced' = dbSynced /\ items' = items \cup {<<b, "data">>} /\ dirty' = dirty \cup {b}
      BY <1>2 DEF AcceptBlock, indexVars
    <2>2. UndoInv'
      BY <1>1, <2>1 DEF UndoInv, BlockUndo, Utxo, Made, Used
    <2>3. HasChain(items', best')
      <3>1. HasChain(items, best) /\ items \subseteq items'
        BY <1>1, <2>1 DEF MemoryInv
      <3>2. HasChain(items', best)
        BY <3>1, ChainIn
      <3> QED
        BY <2>1, <3>2
    <2>4. MemoryInv'
      BY SMTT(60), <1>1, <2>1, <2>3 DEF MemoryInv
    <2> QED
      BY <1>1, <2>1, <2>2, <2>4 DEF Safe
  <1>3. ASSUME NEW b \in Block \ {Genesis}, ConnectTip(b) PROVE Safe'
    <2>1. /\ pc' = "run" /\ pc = "run" /\ coins' = RollforwardBlock(coins, b) /\ best' = b /\ indexDB' = indexDB
          /\ db' = db /\ dbSynced' = dbSynced /\ items' = items \cup {<<b, "undo">>} /\ dirty' = dirty \cup {b}
          /\ undo' = IF <<b, "undo">> \in items THEN undo ELSE [undo EXCEPT ![b] = BlockUndo(coins, b)]
          /\ Parent[b] = best /\ <<b, "data">> \in items
      BY <1>3 DEF ConnectTip, WriteUndo, MarkDirty, indexVars
    <2>2. coins = Utxo(Parent[b])
      BY <1>1, <2>1 DEF MemoryInv
    <2>3. UndoInv'
      <3>1. ASSUME NEW x \in Block \ {Genesis}, <<x, "undo">> \in items' \cup indexDB'
            PROVE  undo'[x] = BlockUndo(Utxo(Parent[x]), x)
        <4>1. CASE x = b
          <5>1. CASE <<b, "undo">> \in items
            BY <1>1, <2>1, <4>1, <5>1 DEF UndoInv
          <5>2. CASE <<b, "undo">> \notin items
            BY <1>1, <2>1, <2>2, <4>1, <5>2
          <5> QED
            BY <5>1, <5>2
        <4>2. CASE x # b
          <5>1. <<x, "undo">> \in items \cup indexDB /\ undo'[x] = undo[x]
            BY <1>1, <2>1, <3>1, <4>2
          <5> QED
            BY <1>1, <5>1 DEF UndoInv
        <4> QED
          BY <4>1, <4>2
      <3> QED
        BY <3>1 DEF UndoInv
    <2>4. HasChain(items', b)
      <3>1. HasChain(items, Parent[b]) /\ items \subseteq items'
        BY <1>1, <2>1 DEF MemoryInv
      <3>2. HasChain(items', Parent[b]) /\ <<b, "data">> \in items' /\ <<b, "undo">> \in items'
        BY <2>1, <3>1, ChainIn
      <3> QED
        BY <3>2, ChainGrows
    <2>5. coins' = Utxo(b)
      BY <2>1, <2>2, RolledExactly
    <2>6. MemoryInv'
      BY SMTT(60), <1>1, <2>1, <2>4, <2>5 DEF MemoryInv
    <2> QED
      BY <1>1, <2>1, <2>3, <2>6 DEF Safe
  <1>4. CASE DisconnectTip
    <2>1. /\ pc' = "run" /\ pc = "run" /\ coins' = DisconnectBlock(coins, best) /\ best' = Parent[best]
          /\ undo' = undo /\ indexDB' = indexDB /\ best # Genesis
          /\ db' = db /\ dbSynced' = dbSynced /\ items' = items /\ dirty' = dirty
      BY <1>4 DEF DisconnectTip, fileVars, indexVars
    <2>2. UndoInv'
      BY <1>1, <2>1 DEF UndoInv
    <2>3. <<best, "undo">> \in items /\ HasChain(items', best') /\ coins = Utxo(best)
      BY <1>1, <2>1, ChainSteps DEF MemoryInv
    <2>4. undo[best] = BlockUndo(Utxo(Parent[best]), best)
      BY <1>1, <2>1, <2>3 DEF UndoInv
    <2>5. coins' = Utxo(best')
      BY <1>1, <2>1, <2>3, <2>4, RolledExactly
    <2>6. MemoryInv'
      BY <1>1, <2>1, <2>3, <2>5 DEF MemoryInv
    <2> QED
      BY <1>1, <2>1, <2>2, <2>6 DEF Safe
  <1>5. CASE ReadFails
    <2>1. UNCHANGED <<pc, coins, best, undo, indexDB, db, dbSynced, items, dirty, lost>>
      BY <1>5 DEF ReadFails, fileVars, indexVars
    <2> QED
      BY <1>1, <2>1 DEF Safe, UndoInv, MemoryInv
  <1> QED
    BY <1>2, <1>3, <1>4, <1>5

(* FlushStateToDisk up to the coins. *)
LEMMA FlushSafe ==
    ASSUME TInv, OrderInv, Safe, FlushBlockFile \/ WriteBatchSync
    PROVE  Safe'
  <1>1. /\ best \in Block /\ UndoInv /\ MemoryInv /\ Sound(db, indexDB) /\ Sound(dbSynced, indexDB)
        /\ items \subseteq Item /\ DBType(db) /\ DBType(dbSynced)
    BY DEF TInv, TypeOK, Safe, Item, DBType
  <1>2. CASE FlushBlockFile
    <2>1. /\ pc' = "files" /\ pc = "run" /\ coins' = coins /\ best' = best /\ undo' = undo /\ indexDB' = indexDB
          /\ db' = db /\ dbSynced' = dbSynced /\ items' = items /\ dirty' = dirty
      BY <1>2 DEF FlushBlockFile, indexVars
    <2> QED
      BY <1>1, <2>1 DEF Safe, UndoInv, MemoryInv
  <1>3. CASE WriteBatchSync
    <2>1. /\ pc' \in {"run", "coins"} /\ pc = "files" /\ coins' = coins /\ best' = best /\ undo' = undo
          /\ indexDB' = indexDB \cup {i \in items : i[1] \in dirty}
          /\ db' = db /\ dbSynced' = dbSynced /\ items' = items /\ dirty' = {}
      BY <1>3 DEF WriteBatchSync, fileVars, indexVars
    <2>2. items \subseteq indexDB' /\ indexDB \subseteq indexDB' /\ indexDB' \subseteq items \cup indexDB
      BY <1>1, <2>1 DEF MemoryInv
    <2>3. Sound(db, indexDB') /\ Sound(dbSynced, indexDB')
      BY <1>1, <2>2, SoundGrows
    <2>4. UndoInv'
      BY <1>1, <2>1, <2>2 DEF UndoInv
    <2>5. MemoryInv'
      BY <1>1, <2>1, <2>2 DEF MemoryInv
    <2> QED
      BY <2>1, <2>3, <2>4, <2>5 DEF Safe
  <1> QED
    BY <1>2, <1>3

(* BatchWrite *)
LEMMA WriteSafe ==
    ASSUME TInv, OrderInv, Safe, WriteBatch \/ FinalBatch
    PROVE  Safe'
  <1>1. /\ best \in Block /\ best # NoBlock /\ UndoInv /\ MemoryInv /\ Sound(db, indexDB) /\ Sound(dbSynced, indexDB)
        /\ DBType(db) /\ pc \in {"coins", "replay"}
    BY SafeFacts DEF WriteBatch, FinalBatch, Writing
  <1>2. coins = Utxo(best) /\ items \subseteq indexDB
    BY <1>1 DEF MemoryInv
  <1>3. HasChain(indexDB, best) /\ (pc = "replay" => items = indexDB) /\ (pc = "coins" => HasChain(items, best))
    <2>1. CASE pc = "coins"
      BY <1>1, <1>2, <2>1, ChainIn DEF MemoryInv
    <2>2. CASE pc = "replay"
      <3>1. best = db.heads[1] /\ db.heads # <<>> /\ items = indexDB
        BY <1>1, <2>2 DEF OrderInv, MemoryInv
      <3> QED
        BY <1>1, <2>2, <3>1 DEF Sound
    <2> QED
      BY <1>1, <2>1, <2>2
  <1>4. CASE WriteBatch
    <2>1. PICK S \in SUBSET Unwritten : db' = PartialDB(S)
      BY <1>4 DEF WriteBatch
    <2>2. /\ pc' = pc /\ coins' = coins /\ best' = best /\ undo' = undo /\ indexDB' = indexDB
          /\ dbSynced' = dbSynced /\ items' = items /\ dirty' = dirty
      BY <1>4 DEF WriteBatch, memVars, fileVars, indexVars
    <2>3. Between(db.coins, OldTip, best) /\ (OldTip # NoBlock => HasChain(indexDB, OldTip))
      <3>1. CASE db.heads = <<>>
        <4>1. OldTip = db.best
          BY SMTT(60), <3>1 DEF OldTip
        <4> QED
          BY <1>1, <3>1, <4>1 DEF Sound, Between
      <3>2. CASE db.heads # <<>>
        <4>1. OldTip = db.heads[2] /\ best = db.heads[1]
          BY <1>1, <3>2, DBFacts DEF OldTip, OrderInv
        <4> QED
          BY <1>1, <3>2, <4>1 DEF Sound
      <3> QED
        BY <3>1, <3>2
    <2>4. Between(With(S), OldTip, best)
      BY <1>2, <2>3 DEF Between, With
    <2>5. /\ PartialDB(S).coins = With(S) /\ PartialDB(S).heads # <<>>
          /\ PartialDB(S).heads[1] = best /\ PartialDB(S).heads[2] = OldTip
      BY DEF PartialDB
    <2>6. Sound(db', indexDB')
      BY <1>3, <2>1, <2>2, <2>3, <2>4, <2>5 DEF Sound
    <2>7. UndoInv' /\ MemoryInv'
      BY <1>1, <2>2 DEF UndoInv, MemoryInv
    <2> QED
      BY <1>1, <2>2, <2>6, <2>7 DEF Safe
  <1>5. CASE FinalBatch
    <2>1. /\ pc' = "run" /\ coins' = coins /\ best' = best /\ undo' = undo /\ indexDB' = indexDB
          /\ dbSynced' = dbSynced /\ items' = items /\ dirty' = dirty
          /\ db'.heads = <<>> /\ db'.best = best /\ db'.coins = coins
      BY <1>5 DEF FinalBatch, FinalDB, memVars, fileVars, indexVars
    <2>2. Sound(db', indexDB')
      BY <1>1, <1>2, <1>3, <2>1 DEF Sound, UtxoOrNone
    <2>3. HasChain(items, best)
      BY <1>1, <1>3
    <2>4. UndoInv' /\ MemoryInv'
      BY <1>1, <1>2, <2>1, <2>3 DEF UndoInv, MemoryInv
    <2> QED
      BY <1>1, <2>1, <2>2, <2>4 DEF Safe
  <1> QED
    BY <1>4, <1>5

(* The end of the process and the next start. *)
LEMMA RestartSafe ==
    ASSUME TInv, OrderInv, Safe, SyncDB \/ Crash \/ PowerFails \/ LoadChainTip \/ ReplayBlocks
    PROVE  Safe'
  <1>1. /\ best \in Block /\ UndoInv /\ MemoryInv /\ Sound(db, indexDB) /\ Sound(dbSynced, indexDB)
        /\ DBType(db) /\ <<Genesis, "data">> \in indexDB
        /\ Genesis \in Block /\ Genesis # NoBlock /\ Ancestors[Genesis] = {Genesis}
    <2>1. Genesis \in Block /\ Genesis # NoBlock /\ Ancestors[Genesis] = {Genesis}
      BY BlocksAssumption, AncestorsOfParent
    <2>2. <<Genesis, "data">> \in indexDB
      BY DEF OrderInv
    <2> QED
      BY <2>1, <2>2, SafeFacts
  <1>2. UtxoOrNone(NoBlock) = NoCoins /\ UtxoOrNone(Genesis) = NoCoins /\ Utxo(Genesis) = NoCoins
    BY <1>1, UtxoOfGenesis DEF UtxoOrNone
  <1>3. CASE SyncDB
    <2>1. /\ pc' = pc /\ coins' = coins /\ best' = best /\ undo' = undo /\ indexDB' = indexDB
          /\ db' = db /\ dbSynced' = db /\ items' = items /\ dirty' = dirty /\ lost' = lost
      BY <1>3 DEF SyncDB, memVars, fileVars, indexVars
    <2> QED
      BY <1>1, <2>1 DEF Safe, UndoInv, MemoryInv
  <1>4. CASE Crash \/ PowerFails
    <2>1. /\ pc' = "down" /\ undo' = undo /\ indexDB' = indexDB
          /\ db' \in {db, dbSynced} /\ dbSynced' = dbSynced /\ items' = {} /\ dirty' = {}
      BY <1>4 DEF Crash, PowerFails, Forget, indexVars
    <2> QED
      BY <1>1, <2>1 DEF Safe, UndoInv, MemoryInv
  <1>5. CASE LoadChainTip
    <2>1. /\ db.heads = <<>> /\ coins' = db.coins /\ undo' = undo /\ indexDB' = indexDB
          /\ db' = db /\ dbSynced' = dbSynced /\ items' = indexDB /\ dirty' = {}
      BY <1>5 DEF LoadChainTip, fileVars, indexVars
    <2>2. UndoInv'
      BY <1>1, <2>1 DEF UndoInv
    <2>3. pc' = "run" /\ coins' = Utxo(best') /\ HasChain(indexDB, best')
      <3>1. CASE db.best = NoBlock
        <4>1. pc' = "run" /\ best' = Genesis
          BY <1>5, <3>1 DEF LoadChainTip
        <4>2. db.coins = NoCoins
          BY <1>1, <1>2, <2>1, <3>1 DEF Sound
        <4>3. HasChain(indexDB, Genesis)
          BY <1>1 DEF HasChain
        <4> QED
          BY <1>2, <2>1, <4>1, <4>2, <4>3
      <3>2. CASE db.best # NoBlock
        <4>1. db.best \in Block
          BY <1>1, <3>2 DEF DBType
        <4>2. HasChain(indexDB, db.best) /\ db.coins = Utxo(db.best)
          BY <1>1, <2>1, <3>2 DEF Sound, UtxoOrNone
        <4>3. InIndexDB(db.best)
          BY <4>1, <4>2, ChainSteps DEF InIndexDB
        <4> QED
          BY <1>5, <3>2, <4>2, <4>3 DEF LoadChainTip
      <3> QED
        BY <3>1, <3>2
    <2>4. MemoryInv'
      BY <2>1, <2>3 DEF MemoryInv
    <2> QED
      BY <1>1, <2>1, <2>2, <2>4 DEF Safe
  <1>6. CASE ReplayBlocks
    <2>1. /\ db.heads # <<>> /\ coins' = db.coins /\ undo' = undo /\ indexDB' = indexDB
          /\ db' = db /\ dbSynced' = dbSynced /\ items' = indexDB /\ dirty' = {}
      BY <1>6 DEF ReplayBlocks, fileVars, indexVars
    <2>2. UndoInv'
      BY <1>1, <2>1 DEF UndoInv
    <2>3. db.heads[1] \in Block /\ db.heads[2] \in Block \cup {NoBlock}
      BY <1>1, <2>1, DBFacts
    <2>4. /\ Between(db.coins, db.heads[2], db.heads[1])
          /\ HasChain(indexDB, db.heads[1]) /\ (db.heads[2] # NoBlock => HasChain(indexDB, db.heads[2]))
      BY <1>1, <2>1 DEF Sound
    <2>5. InIndexDB(db.heads[1]) /\ (db.heads[2] # NoBlock => InIndexDB(db.heads[2]))
      BY <2>3, <2>4, ChainSteps DEF InIndexDB
    <2>6. pc' = "roll" /\ best' = IF db.heads[2] = NoBlock THEN Genesis ELSE db.heads[2]
      BY <1>6, <2>5 DEF ReplayBlocks
    <2>7. UtxoOrNone(best') = UtxoOrNone(db.heads[2])
      BY <1>2, <2>6
    <2>8. Between(db.coins, best', db.heads[1])
      BY <2>4, <2>7 DEF Between
    <2>9. best' \in Ancestors[db.heads[1]] \/ HasChain(indexDB, best')
      BY <2>3, <2>4, <2>6, GenesisIsAncestor
    <2>10. MemoryInv'
      BY <2>1, <2>6, <2>8, <2>9 DEF MemoryInv
    <2> QED
      BY <1>1, <2>1, <2>2, <2>10 DEF Safe
  <1> QED
    BY <1>3, <1>4, <1>5, <1>6

(* The two loops of ReplayBlocks, and its flush. *)
LEMMA ReplaySafe ==
    ASSUME TInv, OrderInv, Safe, Rollback \/ FlushReplayed \/ \E b \in Block \ {Genesis} : Rollforward(b)
    PROVE  Safe'
  <1>1. /\ pc = "roll" /\ best \in Block /\ coins \in [OutPoint -> Nat]
        /\ UndoInv /\ MemoryInv /\ Sound(db, indexDB) /\ Sound(dbSynced, indexDB)
        /\ DBType(db) /\ db.heads # <<>>
    <2>1. pc = "roll"
      BY DEF Rollback, Rollforward, FlushReplayed
    <2> QED
      BY <2>1, SafeFacts DEF OrderInv
  <1> DEFINE new == db.heads[1]
  <1>2. /\ new \in Block /\ HasChain(indexDB, new)
        /\ Between(coins, best, new) /\ items = indexDB
        /\ best \in Ancestors[new] \/ HasChain(indexDB, best)
    BY <1>1, DBFacts DEF MemoryInv, Sound
  <1> HIDE DEF new
  <1>3. CASE Rollback
    <2>1. best \notin Ancestors[new] /\ best # Genesis
      BY <1>2, <1>3, GenesisIsAncestor DEF Rollback, new
    <2>2. <<best, "data">> \in indexDB /\ <<best, "undo">> \in indexDB /\ HasChain(indexDB, Parent[best])
      BY <1>1, <1>2, <2>1, ChainSteps
    <2>3. CASE ~CanRead(best, {"data", "undo"})
      <3>1. lost # {}
        BY SMTT(60), <2>2, <2>3 DEF CanRead
      <3>2. pc' = "error" /\ UNCHANGED <<undo, indexDB, db, dbSynced, items, dirty, lost>>
        BY <1>3, <2>3 DEF Rollback, fileVars, indexVars
      <3> QED
        BY <1>1, <3>1, <3>2 DEF Safe, UndoInv, MemoryInv
    <2>4. CASE CanRead(best, {"data", "undo"})
      <3>1. /\ pc' = "roll" /\ coins' = DisconnectBlock(coins, best) /\ best' = Parent[best]
            /\ undo' = undo /\ indexDB' = indexDB /\ db' = db /\ dbSynced' = dbSynced
            /\ items' = items /\ dirty' = dirty
        BY <1>1, <1>3, <2>4 DEF Rollback, fileVars, indexVars
      <3>2. undo[best] = BlockUndo(Utxo(Parent[best]), best)
        BY <1>1, <2>1, <2>2 DEF UndoInv
      <3>3. Between(coins', best', new)
        BY <1>1, <1>2, <2>1, <3>1, <3>2, RolledBetween
      <3>4. UndoInv'
        BY <1>1, <3>1 DEF UndoInv
      <3>5. MemoryInv'
        BY <1>1, <1>2, <2>2, <3>1, <3>3 DEF MemoryInv, new
      <3> QED
        BY <1>1, <3>1, <3>4, <3>5 DEF Safe
    <2> QED
      BY <2>3, <2>4
  <1>4. ASSUME NEW b \in Block \ {Genesis}, Rollforward(b) PROVE Safe'
    <2>1. b \in Ancestors[new] /\ Parent[b] = best
      BY <1>4 DEF Rollforward, new
    <2>2. CASE ~CanRead(b, {"data"})
      <3>1. <<b, "data">> \in indexDB
        BY <1>2, <2>1 DEF HasChain
      <3>2. lost # {}
        BY SMTT(60), <2>2, <3>1 DEF CanRead
      <3>3. pc' = "error" /\ UNCHANGED <<undo, indexDB, db, dbSynced, items, dirty, lost>>
        BY <1>4, <2>2 DEF Rollforward, fileVars, indexVars
      <3> QED
        BY <1>1, <3>2, <3>3 DEF Safe, UndoInv, MemoryInv
    <2>3. CASE CanRead(b, {"data"})
      <3>1. /\ pc' = "roll" /\ coins' = RollforwardBlock(coins, b) /\ best' = b
            /\ undo' = undo /\ indexDB' = indexDB /\ db' = db /\ dbSynced' = dbSynced
            /\ items' = items /\ dirty' = dirty
        BY <1>1, <1>4, <2>3 DEF Rollforward, fileVars, indexVars
      <3>2. Between(coins', best', new)
        BY <1>2, <2>1, <3>1, RolledBetween
      <3>3. UndoInv'
        BY <1>1, <3>1 DEF UndoInv
      <3>4. MemoryInv'
        BY <1>1, <1>2, <2>1, <3>1, <3>2 DEF MemoryInv, new
      <3> QED
        BY <1>1, <3>1, <3>3, <3>4 DEF Safe
    <2> QED
      BY <2>2, <2>3
  <1>5. CASE FlushReplayed
    <2>1. /\ pc' = "replay" /\ best = new /\ coins' = coins /\ best' = best
          /\ undo' = undo /\ indexDB' = indexDB /\ db' = db /\ dbSynced' = dbSynced
          /\ items' = items /\ dirty' = dirty
      BY <1>5 DEF FlushReplayed, new, fileVars, indexVars, memVars
    <2>2. coins = Utxo(best)
      BY <1>1, <1>2, <2>1, BetweenSame
    <2>3. UndoInv' /\ MemoryInv'
      BY <1>1, <1>2, <2>1, <2>2 DEF UndoInv, MemoryInv
    <2> QED
      BY <1>1, <2>1, <2>3 DEF Safe
  <1> QED
    BY <1>3, <1>4, <1>5

(* As long as no write or flush has failed. *)
LEMMA SafeStep == IInv /\ [Next]_vars => (~thrown => RiskInv /\ Safe)'
  <1> SUFFICES ASSUME IInv, [Next]_vars, ~thrown' PROVE RiskInv' /\ Safe'
    OBVIOUS
  <1>1. TInv /\ OrderInv /\ thrown \in BOOLEAN
    BY DEF IInv, TInv, TypeOK
  <1>2. ~thrown
    <2>1. TypeOK /\ items \in SUBSET Item
      BY <1>1 DEF TInv, TypeOK, Item
    <2>2. \A b \in Block \ {Genesis} : AcceptBlock(b) \/ ConnectTip(b) => (thrown => thrown')
      BY <2>1, AcceptFacts, ConnectFacts
    <2>3. FlushBlockFile => (thrown => thrown')
      BY <2>1, FlushFacts DEF FlushBlockFile
    <2> QED
      BY <2>2, <2>3 DEF Next, vars, DisconnectTip, ReadFails, WriteBatchSync, WriteBatchSyncFails, WriteBatch, FinalBatch,
         BatchFails, SyncDB, Crash, PowerFails, Forget, LoadChainTip, ReplayBlocks, Rollback, Rollforward, FlushReplayed
  <1>3. Safe
    BY <1>2 DEF IInv
  <1>4. CASE UNCHANGED vars
    <2>1. UNCHANGED <<pc, coins, best, undo, indexDB, db, dbSynced, items, dirty, lost>>
      BY <1>4 DEF vars, memVars, fileVars, indexVars
    <2>2. UndoInv'
      BY <1>3, <2>1 DEF Safe, UndoInv
    <2>3. MemoryInv'
      BY <1>3, <2>1 DEF Safe, MemoryInv
    <2> QED
      BY <1>3, <1>4, <2>1, <2>2, <2>3, RiskStep, <1>2 DEF Safe
  <1>5. ~WriteBatchSyncFails /\ ~BatchFails
    BY DEF WriteBatchSyncFails, BatchFails
  <1> QED
    BY <1>1, <1>2, <1>3, <1>4, <1>5, RiskStep, RunSafe, FlushSafe, WriteSafe, RestartSafe, ReplaySafe DEF Next

(* The invariant holds in every reachable state. *)
LEMMA IInvAlways == Spec => []IInv
  <1>1. IInv /\ [Next]_vars => IInv'
    BY TypeStep, OrderStep, PlacedStep, SafeStep DEF IInv
  <1> QED
    BY <1>1, InitInv, PTL DEF Spec
-----------------------------------------------------------------------------
(* The coins are exact wherever the node says at which block they are: a    *)
(* coins database with a DB_BEST_BLOCK holds the unspent coins of that      *)
(* block's chain, CoinsTip() those of the tip, however often BatchWrite and *)
(* ReplayBlocks were interrupted, as long as no write or flush has failed.  *)
THEOREM CoinsAreExact == Spec => []CoinsExact
  <1>1. IInv => CoinsExact
    <2> SUFFICES ASSUME IInv PROVE CoinsExact
      OBVIOUS
    <2>1. ASSUME ~thrown PROVE ConsistentAt(db)
      <3>1. DBType(db) /\ Sound(db, indexDB)
        BY <2>1 DEF IInv, Safe, TInv, TypeOK, DBType
      <3> QED
        BY <3>1 DEF ConsistentAt, DBType, Sound, UtxoOrNone
    <2>2. CoinsOfTip
      BY DEF IInv, Safe, MemoryInv, CoinsOfTip
    <2> QED
      BY <2>1, <2>2 DEF CoinsExact, MarkedConsistent
  <1> QED
    BY <1>1, IInvAlways, PTL

(* FlushStateToDisk writes its three stores in an order in which they fit   *)
(* at every moment, as long as no write or flush has failed: of what the    *)
(* index refers to, a power failure can take undo records of older files    *)
(* only, a flush of the coins completes the transition it found, and a      *)
(* start misses no block, and no undo record unless one was so taken.       *)
THEOREM StoresAlwaysFit == Spec => []StoresFit
  <1>1. IInv => StoresFit
    <2> SUFFICES ASSUME IInv PROVE StoresFit
      OBVIOUS
    <2>1. TypeOK /\ OrderInv
      BY DEF IInv, TInv
    <2>2. AlwaysRestarts
      BY DEF IInv, Safe, MemoryInv, AlwaysRestarts
    <2>3. OnlyOlderUndoAtRisk /\ SameHead
      BY <2>1 DEF IInv, RiskInv, OrderInv, OnlyOlderUndoAtRisk, SameHead, Writing
    <2> QED
      BY <2>1, <2>2, <2>3 DEF StoresFit
  <1> QED
    BY <1>1, IInvAlways, PTL
=============================================================================
