--------------------------- MODULE MempoolProofs ---------------------------
(***************************************************************************)
(* Mempool keeps its entries, links and counts in order, for every set of  *)
(* transactions and blocks, through every reorganisation.                  *)
(***************************************************************************)
EXTENDS Mempool, FiniteSetTheorems, TLAPS

\* The leaves are small, but the definitions they rest on are not. Those that Zenon
\* does not settle soon name SMT.
USE ZenonT(10), SMTT(60)

(* The inductive invariant. *)

Spends(t, u) == Ins[t] \cap Outs[u] # {}

NoRepeat(s) == \A i, j \in DOMAIN s : i # j => s[i] # s[j]

PoolRecord == [pool : SUBSET Tx, parents : [Tx -> SUBSET Tx], children : [Tx -> SUBSET Tx],
               anc : [Tx -> Nat], desc : [Tx -> Nat]]

(* A transaction comes once, and after the ones it spends. *)
ChainOK(ch) ==
    /\ ch \in Seq(Blocks)
    /\ \A h, k \in DOMAIN ch : h # k => ToSet(ch[h]) \cap ToSet(ch[k]) = {}
    /\ \A h \in DOMAIN ch : \A i \in DOMAIN ch[h] : \A u \in Tx :
          Spends(ch[h][i], u) => \/ \E j \in DOMAIN ch[h] : j < i /\ u = ch[h][j]
                                 \/ \E k \in DOMAIN ch : k < h /\ u \in ToSet(ch[k])

(* The end s of the tip's block: what removeForBlock has not come to. *)
Rest(s, ch) ==
    /\ ch # <<>> /\ s \in Seq(Tx)
    /\ Len(s) <= Len(Last(ch))
    /\ \A i \in DOMAIN s : s[i] = Last(ch)[Len(Last(ch)) - Len(s) + i]

(* The queue goes from the end of the chain it was taken from to its front: *)
(* no transaction in it spends an earlier one, or itself.                   *)
Backwards(s) == NoRepeat(s) /\ \A i, j \in DOMAIN s : i <= j => ~Spends(s[j], s[i])

Forwards(s) == NoRepeat(s) /\ \A i, j \in DOMAIN s : i <= j => ~Spends(s[i], s[j])

(* Queued transactions Q are in no other place; they spend nothing of the   *)
(* pool but what came back before them, which does not spend them.          *)
QueueOK(Q, ch, pool, back, pending) ==
    /\ Q \cap pool = {}
    /\ Q \cap Confirmed(ch) \subseteq pending
    /\ \A t \in Q, p \in pool : Spends(t, p) => p \in back
    /\ \A t \in Q, a \in back : ~Spends(a, t)

(* What came back from the chain came back in its order, and spends nothing *)
(* of the pool but what came back before it.                                *)
BackOK(back, pool) ==
    /\ back \subseteq pool
    /\ \A a \in back, p \in pool : Spends(a, p) => p \in back

(* What an entry spends is a coin of the chain, or an output of the pool or *)
(* of the queue Q, or lost to a transaction removeForBlock has yet to come  *)
(* to.                                                                      *)
CoinOK(ch, pool, Q, pending) ==
    /\ \A t \in pool : Kind[t] = "normal"
    /\ pool \cap Confirmed(ch) \subseteq pending
    /\ \A t \in pool :
          Ins[t] \subseteq CoinsTip(ch) \cup Created(pool) \cup Created(Q) \cup Spent(pending)
    /\ \A t, u \in pool : t # u => Ins[t] \cap Ins[u] = {}

Placed(ch, pool, Q, back, pending) ==
    QueueOK(Q, ch, pool, back, pending) /\ CoinOK(ch, pool, Q, pending)

(* The links are those of the inputs, but for those from a transaction that *)
(* came back to the entries that were there before.                         *)
LinkOK(m, back, unlinked) ==
    /\ \A p, t \in Tx : p \in m.parents[t] <=>
            /\ p \in m.pool /\ t \in m.pool
            /\ Spends(t, p)
            /\ p \in unlinked => t \in back
    /\ \A p, t \in Tx : t \in m.children[p] <=> p \in m.parents[t]

Anc(m, t) == Reach(m.parents, {t})
Des(m, t) == Reach(m.children, {t})

CountOK(m) ==
    \A t \in Tx : /\ m.anc[t] = IF t \in m.pool THEN Cardinality(Anc(m, t)) ELSE 0
                  /\ m.desc[t] = IF t \in m.pool THEN Cardinality(Des(m, t)) ELSE 0

(* Between two turns of UpdateTransactionsFromBlock. *)
RelinkCountOK(m, back, unlinked) ==
    \A t \in Tx :
        /\ m.anc[t] = IF t \notin m.pool THEN 0
                      ELSE IF t \in back THEN Cardinality(Anc(m, t))
                      ELSE Cardinality(Anc(m, t) \ unlinked)
        /\ m.desc[t] = IF t \notin m.pool THEN 0
                       ELSE IF t \in unlinked THEN Cardinality(Des(m, t) \cap back)
                       ELSE Cardinality(Des(m, t))

(* The cached links and counts; back is what came back. *)
PoolOK(m, back) == m \in PoolRecord /\ LinkOK(m, back, back) /\ CountOK(m)

RelinkOK(m, back, unlinked) ==
    m \in PoolRecord /\ LinkOK(m, back, unlinked) /\ RelinkCountOK(m, back, unlinked)

Minable(ch, t) ==
    /\ CheckFinalTx(ch, t)
    /\ Ins[t] \cap Created(Immature(ch, {"coinbase"}, SpendMaturity(t))) = {}

(* Between two loops. *)
Resting ==
    /\ at \in {"idle", "expire", "trim", "drop", "disconnect", "connect"}
    /\ readded = <<>> /\ todo = <<>>
    /\ PoolOK(mp, {})
    /\ Placed(chain, mp.pool, ToSet(queue), {}, {})
    /\ at \in {"idle", "expire", "trim"} => queue = <<>> /\ \A t \in mp.pool : Minable(chain, t)
    /\ at = "idle" => Cardinality(mp.pool) <= MaxPool

(* In the loop over a connected block. *)
Connecting ==
    /\ at \in {"block", "reorgBlock"}
    /\ readded = <<>> /\ Rest(todo, chain)
    /\ PoolOK(mp, {})
    /\ Placed(chain, mp.pool, ToSet(queue), {}, ToSet(todo))
    /\ at = "block" => /\ queue = <<>>
                       /\ \A t \in mp.pool : Minable(chain, t)
                       /\ Cardinality(mp.pool) <= MaxPool

(* In the loop over the queue. *)
Resurrecting ==
    /\ at = "resurrect"
    /\ todo = <<>>
    /\ readded \in Seq(Tx) /\ Forwards(readded) /\ BackOK(ToSet(readded), mp.pool)
    /\ PoolOK(mp, ToSet(readded))
    /\ Placed(chain, mp.pool, ToSet(queue), ToSet(readded), {})

(* In the loop over vHashUpdate: what is done is not spent by what is not. *)
Relinking ==
    /\ at = "relink"
    /\ queue = <<>>
    /\ readded \in Seq(Tx) /\ NoRepeat(readded) /\ BackOK(ToSet(readded), mp.pool)
    /\ todo \in Seq(Tx) /\ Backwards(todo) /\ ToSet(todo) \subseteq ToSet(readded)
    /\ \A u \in ToSet(todo), p \in ToSet(readded) \ ToSet(todo) : ~Spends(u, p)
    /\ RelinkOK(mp, ToSet(readded), ToSet(todo))
    /\ Placed(chain, mp.pool, {}, ToSet(readded), {})

IInv ==
    /\ ChainOK(chain) /\ add \in BOOLEAN
    /\ queue \in Seq(Tx) /\ Backwards(queue)
    /\ Resting \/ Connecting \/ Resurrecting \/ Relinking
-----------------------------------------------------------------------------
(* The lists. *)

LEMMA ToSetIn ==
    ASSUME NEW T, NEW s \in Seq(T)
    PROVE  /\ ToSet(s) \in SUBSET T
           /\ \A i \in DOMAIN s : s[i] \in ToSet(s) /\ s[i] \in T
           /\ \A x \in ToSet(s) : \E i \in DOMAIN s : x = s[i]
           /\ DOMAIN s = 1 .. Len(s) /\ Len(s) \in Nat
           /\ s = <<>> <=> Len(s) = 0
           /\ s = <<>> => ToSet(s) = {}
  BY SMTT(60) DEF ToSet

LEMMA TailIs ==
    ASSUME NEW s \in Seq(Tx), s # <<>>, NoRepeat(s)
    PROVE  /\ Tail(s) \in Seq(Tx) /\ Head(s) \in ToSet(s) /\ Head(s) = s[1]
           /\ Len(Tail(s)) = Len(s) - 1
           /\ \A i \in DOMAIN Tail(s) : i + 1 \in DOMAIN s /\ Tail(s)[i] = s[i + 1]
           /\ ToSet(Tail(s)) = ToSet(s) \ {Head(s)}
           /\ NoRepeat(Tail(s))
  <1>1. DOMAIN s = 1 .. Len(s) /\ Len(s) \in Nat /\ Len(s) # 0
    BY SMTT(60), ToSetIn
  <1>2. /\ Tail(s) \in Seq(Tx) /\ Head(s) = s[1] /\ Len(Tail(s)) = Len(s) - 1
        /\ DOMAIN Tail(s) = 1 .. Len(s) - 1
        /\ \A i \in 1 .. Len(s) - 1 : i + 1 \in 1 .. Len(s) /\ Tail(s)[i] = s[i + 1]
    BY SMTT(60), <1>1
  <1>3. Head(s) \in ToSet(s)
    BY SMTT(60), <1>1, <1>2 DEF ToSet
  <1>4. NoRepeat(Tail(s))
    BY SMTT(60), <1>1, <1>2 DEF NoRepeat
  <1>5. ToSet(Tail(s)) \subseteq ToSet(s) \ {Head(s)}
    BY SMTT(60), <1>1, <1>2 DEF ToSet, NoRepeat
  <1>6. ToSet(s) \ {Head(s)} \subseteq ToSet(Tail(s))
    <2> SUFFICES ASSUME NEW i \in DOMAIN s, s[i] # Head(s) PROVE s[i] \in ToSet(Tail(s))
      BY DEF ToSet
    <2>1. i - 1 \in 1 .. Len(s) - 1 /\ Tail(s)[i - 1] = s[i]
      BY SMTT(60), <1>1, <1>2
    <2> QED
      BY <1>2, <2>1 DEF ToSet
  <1> QED
    BY <1>1, <1>2, <1>3, <1>4, <1>5, <1>6

LEMMA FrontIs ==
    ASSUME NEW s \in Seq(Tx), s # <<>>, NoRepeat(s)
    PROVE  /\ Front(s) \in Seq(Tx) /\ Last(s) \in ToSet(s) /\ Last(s) = s[Len(s)]
           /\ Len(Front(s)) = Len(s) - 1
           /\ \A i \in DOMAIN Front(s) : i \in DOMAIN s /\ Front(s)[i] = s[i]
           /\ ToSet(Front(s)) = ToSet(s) \ {Last(s)}
           /\ NoRepeat(Front(s))
  <1>1. DOMAIN s = 1 .. Len(s) /\ Len(s) \in Nat /\ Len(s) # 0
    BY SMTT(60), ToSetIn
  <1>2. /\ Front(s) \in Seq(Tx) /\ Len(Front(s)) = Len(s) - 1
        /\ DOMAIN Front(s) = 1 .. Len(s) - 1
        /\ \A i \in 1 .. Len(s) - 1 : i \in 1 .. Len(s) /\ Front(s)[i] = s[i]
    BY SMTT(60), <1>1 DEF Front
  <1>2a. Last(s) = s[Len(s)]
    BY DEF Last
  <1>3. Last(s) \in ToSet(s)
    BY SMTT(60), <1>1, <1>2a DEF ToSet
  <1>4. NoRepeat(Front(s))
    BY <1>1, <1>2 DEF NoRepeat
  <1>5. ToSet(Front(s)) \subseteq ToSet(s) \ {Last(s)}
    BY SMTT(60), <1>1, <1>2, <1>2a DEF ToSet, NoRepeat
  <1>6. ToSet(s) \ {Last(s)} \subseteq ToSet(Front(s))
    <2> SUFFICES ASSUME NEW i \in DOMAIN s, s[i] # Last(s) PROVE s[i] \in ToSet(Front(s))
      BY DEF ToSet
    <2>1. i \in 1 .. Len(s) - 1 /\ Front(s)[i] = s[i]
      BY SMTT(60), <1>1, <1>2, <1>2a
    <2> QED
      BY <1>2, <2>1 DEF ToSet
  <1> QED
    BY <1>1, <1>2, <1>2a, <1>3, <1>4, <1>5, <1>6

LEMMA AppendIs ==
    ASSUME NEW s \in Seq(Tx), NoRepeat(s), NEW t \in Tx \ ToSet(s)
    PROVE  /\ Append(s, t) \in Seq(Tx) /\ NoRepeat(Append(s, t))
           /\ ToSet(Append(s, t)) = ToSet(s) \cup {t}
           /\ DOMAIN Append(s, t) = 1 .. Len(s) + 1
           /\ \A i \in 1 .. Len(s) : Append(s, t)[i] = s[i] /\ s[i] \in ToSet(s)
           /\ Append(s, t)[Len(s) + 1] = t
  <1>1. DOMAIN s = 1 .. Len(s) /\ Len(s) \in Nat
    BY ToSetIn
  <1>2. /\ Append(s, t) \in Seq(Tx)
        /\ DOMAIN Append(s, t) = 1 .. Len(s) + 1
        /\ \A i \in 1 .. Len(s) : Append(s, t)[i] = s[i]
        /\ Append(s, t)[Len(s) + 1] = t
    BY SMTT(60), <1>1
  <1>3. \A i \in 1 .. Len(s) : s[i] \in ToSet(s)
    BY <1>1 DEF ToSet
  <1>4. NoRepeat(Append(s, t))
    BY SMTT(60), <1>1, <1>2, <1>3 DEF NoRepeat
  <1>5. ToSet(Append(s, t)) \subseteq ToSet(s) \cup {t}
    BY SMTT(60), <1>1, <1>2, <1>3 DEF ToSet
  <1>6. ToSet(s) \cup {t} \subseteq ToSet(Append(s, t))
    BY SMTT(60), <1>1, <1>2 DEF ToSet
  <1> QED
    BY <1>2, <1>3, <1>4, <1>5, <1>6

LEMMA ReverseIs ==
    ASSUME NEW s \in Seq(Tx)
    PROVE  /\ Reverse(s) \in Seq(Tx) /\ Len(Reverse(s)) = Len(s)
           /\ DOMAIN Reverse(s) = 1 .. Len(s)
           /\ \A i \in 1 .. Len(s) : Len(s) + 1 - i \in 1 .. Len(s) /\ Reverse(s)[i] = s[Len(s) + 1 - i]
           /\ ToSet(Reverse(s)) = ToSet(s)
  <1>1. DOMAIN s = 1 .. Len(s) /\ Len(s) \in Nat
    BY ToSetIn
  <1>2. /\ Reverse(s) \in Seq(Tx) /\ Len(Reverse(s)) = Len(s)
        /\ DOMAIN Reverse(s) = 1 .. Len(s)
        /\ \A i \in 1 .. Len(s) : Len(s) + 1 - i \in 1 .. Len(s) /\ Reverse(s)[i] = s[Len(s) + 1 - i]
    BY SMTT(60), <1>1 DEF Reverse
  <1>3. ToSet(Reverse(s)) \subseteq ToSet(s)
    BY <1>1, <1>2 DEF ToSet
  <1>4. ToSet(s) \subseteq ToSet(Reverse(s))
    <2> SUFFICES ASSUME NEW i \in DOMAIN s PROVE s[i] \in ToSet(Reverse(s))
      BY DEF ToSet
    <2>1. Len(s) + 1 - i \in 1 .. Len(s) /\ Len(s) + 1 - (Len(s) + 1 - i) = i
      BY SMTT(60), <1>1
    <2>2. Reverse(s)[Len(s) + 1 - i] = s[i]
      BY <1>2, <2>1
    <2> QED
      BY <1>2, <2>1, <2>2 DEF ToSet
  <1> QED
    BY <1>2, <1>3, <1>4

(* Erase takes one transaction out and keeps the order of the others. *)
LEMMA EraseIs ==
    ASSUME NEW s \in Seq(Tx), NEW t \in Tx, NoRepeat(s)
    PROVE  /\ Erase(s, t) \in Seq(Tx)
           /\ ToSet(Erase(s, t)) = ToSet(s) \ {t}
           /\ \A i, j \in DOMAIN Erase(s, t) : i <= j =>
                 \E a, b \in DOMAIN s : /\ a <= b /\ (i # j => a # b)
                                        /\ Erase(s, t)[i] = s[a] /\ Erase(s, t)[j] = s[b]
  <1>1. DOMAIN s = 1 .. Len(s) /\ Len(s) \in Nat
    BY ToSetIn
  <1>2. CASE t \notin ToSet(s)
    BY <1>1, <1>2 DEF Erase
  <1>3. CASE t \in ToSet(s)
    <2> DEFINE k == CHOOSE i \in DOMAIN s : s[i] = t
    <2>1. k \in 1 .. Len(s) /\ s[k] = t
      BY <1>1, <1>3 DEF ToSet
    <2>2. Erase(s, t) = RemoveAt(s, k)
      BY <1>3 DEF Erase
    <2> HIDE DEF k
    <2> DEFINE e == [j \in 1 .. Len(s) - 1 |-> IF j < k THEN s[j] ELSE s[j + 1]]
    <2>5. e \in Seq(Tx) /\ DOMAIN e = 1 .. Len(s) - 1
      BY SMTT(60), <1>1, <2>1
    <2>6. e = Erase(s, t)
      BY <2>2 DEF RemoveAt
    <2>7. \A i \in 1 .. Len(s) - 1 : e[i] = IF i < k THEN s[i] ELSE s[i + 1]
      OBVIOUS
    <2> HIDE DEF e
    <2>8. ASSUME NEW i \in DOMAIN e, NEW j \in DOMAIN e, i <= j
          PROVE  \E a, b \in DOMAIN s : /\ a <= b /\ (i # j => a # b)
                                        /\ e[i] = s[a] /\ e[j] = s[b]
      <3>0. i \in 1 .. Len(s) - 1 /\ j \in 1 .. Len(s) - 1
        BY <2>5
      <3> DEFINE a == IF i < k THEN i ELSE i + 1
                 b == IF j < k THEN j ELSE j + 1
      <3>1. a \in 1 .. Len(s) /\ b \in 1 .. Len(s) /\ a <= b /\ (i # j => a # b)
        BY SMTT(60), <1>1, <2>1, <2>8, <3>0
      <3>2. e[i] = s[a] /\ e[j] = s[b]
        BY <2>7, <3>0
      <3> HIDE DEF a, b
      <3> QED
        BY <1>1, <3>1, <3>2
    <2>9. ToSet(e) \subseteq ToSet(s) \ {t}
      <3> SUFFICES ASSUME NEW i \in 1 .. Len(s) - 1 PROVE e[i] \in ToSet(s) \ {t}
        BY <2>5 DEF ToSet
      <3> DEFINE a == IF i < k THEN i ELSE i + 1
      <3>1. a \in 1 .. Len(s) /\ a # k /\ e[i] = s[a]
        BY SMTT(60), <1>1, <2>1, <2>7
      <3> HIDE DEF a
      <3> QED
        BY <1>1, <2>1, <3>1 DEF ToSet, NoRepeat
    <2>10. ToSet(s) \ {t} \subseteq ToSet(e)
      <3> SUFFICES ASSUME NEW a \in 1 .. Len(s), s[a] # t PROVE s[a] \in ToSet(e)
        BY <1>1 DEF ToSet
      <3> DEFINE i == IF a < k THEN a ELSE a - 1
      <3>1. a # k
        BY <2>1
      <3>2. i \in 1 .. Len(s) - 1 /\ a = IF i < k THEN i ELSE i + 1
        BY SMTT(60), <1>1, <2>1, <3>1
      <3> HIDE DEF i
      <3>3. e[i] = s[a]
        BY <2>7, <3>2
      <3> QED
        BY <2>5, <3>2, <3>3 DEF ToSet
    <2> QED
      BY SMTT(60), <2>5, <2>6, <2>8, <2>9, <2>10
  <1> QED
    BY <1>2, <1>3
-----------------------------------------------------------------------------
(* The chain. *)

LEMMA BlockIs ==
    ASSUME NEW block \in Blocks
    PROVE  block \in Seq(Tx) /\ NoRepeat(block) /\ ToSet(block) \in SUBSET Tx
           /\ DOMAIN block = 1 .. Len(block) /\ Len(block) \in Nat
  <1>1. block \in Seq(Tx) /\ NoRepeat(block)
    BY MempoolAssumption DEF NoRepeat
  <1> QED
    BY <1>1, ToSetIn

(* What a chain confirms spends only what it confirms. *)
LEMMA ChainIs ==
    ASSUME NEW ch, ChainOK(ch)
    PROVE  /\ Confirmed(ch) \in SUBSET Tx
           /\ \A h \in DOMAIN ch : ch[h] \in Blocks /\ ToSet(ch[h]) \subseteq Confirmed(ch)
           /\ \A t \in Confirmed(ch) : \E h \in DOMAIN ch : t \in ToSet(ch[h])
           /\ DOMAIN ch = 1 .. Len(ch) /\ Len(ch) \in Nat
           /\ \A t \in Confirmed(ch), u \in Tx : Spends(t, u) => u \in Confirmed(ch)
  <1>1. ch \in Seq(Blocks)
    BY DEF ChainOK
  <1>2. DOMAIN ch = 1 .. Len(ch) /\ Len(ch) \in Nat /\ \A h \in DOMAIN ch : ch[h] \in Blocks
    BY SMTT(60), <1>1
  <1>3. \A t : t \in Confirmed(ch) <=> \E h \in DOMAIN ch : t \in ToSet(ch[h])
    BY DEF Confirmed
  <1>4. Confirmed(ch) \in SUBSET Tx
    BY <1>2, <1>3, BlockIs
  <1>5. ASSUME NEW t \in Confirmed(ch), NEW u \in Tx, Spends(t, u) PROVE u \in Confirmed(ch)
    <2>1. PICK h \in DOMAIN ch : t \in ToSet(ch[h])
      BY <1>3
    <2>2. PICK i \in DOMAIN ch[h] : t = ch[h][i]
      BY <2>1 DEF ToSet
    <2>3. \/ \E j \in DOMAIN ch[h] : j < i /\ u = ch[h][j]
          \/ \E k \in DOMAIN ch : k < h /\ u \in ToSet(ch[k])
      BY <1>5, <2>2 DEF ChainOK
    <2> QED
      BY <1>3, <2>3 DEF ToSet
  <1> QED
    BY <1>2, <1>3, <1>4, <1>5

(* An output has one creator. *)
LEMMA Creator ==
    ASSUME NEW o, NEW t \in Tx, o \in Outs[t], NEW S \in SUBSET Tx
    PROVE  o \in Created(S) <=> t \in S
  <1>1. \A u \in Tx : o \in Outs[u] => u = t
    BY MempoolAssumption
  <1>2. o \in Created(S) <=> \E u \in S : o \in Outs[u]
    BY DEF Created
  <1> QED
    BY <1>1, <1>2

(* A coin of the chain was made by the chain or by the genesis block. *)
LEMMA CoinMaker ==
    ASSUME NEW ch, Confirmed(ch) \in SUBSET Tx, NEW o \in CoinsTip(ch), NEW t \in Tx, o \in Outs[t]
    PROVE  t \in Confirmed(ch)
  <1>1. o \notin Genesis
    BY Creator DEF Genesis
  <1>2. o \in Created(Confirmed(ch))
    BY <1>1 DEF CoinsTip
  <1> QED
    BY <1>2, Creator

(* What connecting a block does to the chain. *)
LEMMA ConnectIs ==
    ASSUME NEW ch, ChainOK(ch), NEW block \in Blocks, ConnectBlock(ch, block)
    PROVE  /\ Confirmed(Append(ch, block)) = Confirmed(ch) \cup ToSet(block)
           /\ ToSet(block) \cap Confirmed(ch) = {}
           /\ DOMAIN Append(ch, block) = 1 .. Len(ch) + 1
           /\ Append(ch, block)[Len(ch) + 1] = block
           /\ \A h \in 1 .. Len(ch) : Append(ch, block)[h] = ch[h]
           /\ Len(Append(ch, block)) = Len(ch) + 1
           /\ ChainOK(Append(ch, block))
  <1> DEFINE c == Append(ch, block)
             n == Len(ch)
  <1>1. ch \in Seq(Blocks) /\ DOMAIN ch = 1 .. n /\ n \in Nat /\ Confirmed(ch) \in SUBSET Tx
    BY ChainIs DEF ChainOK
  <1>2. /\ c \in Seq(Blocks) /\ DOMAIN c = 1 .. n + 1 /\ c[n + 1] = block
        /\ \A h \in 1 .. n : c[h] = ch[h]
        /\ Len(c) = n + 1
    BY SMTT(60), <1>1
  <1> HIDE DEF c, n
  <1>3. \A t : t \in Confirmed(ch) <=> \E h \in 1 .. n : t \in ToSet(ch[h])
    BY <1>1 DEF Confirmed
  <1>4. \A t : t \in Confirmed(c) <=> \E h \in 1 .. n + 1 : t \in ToSet(c[h])
    BY <1>2 DEF Confirmed
  <1>5. n + 1 \in 1 .. n + 1 /\ \A h \in 1 .. n + 1 : h = n + 1 \/ h \in 1 .. n
    BY SMTT(60), <1>1
  <1>6. \A h \in 1 .. n : h \in 1 .. n + 1 /\ h < n + 1 /\ h # n + 1
    BY SMTT(60), <1>1
  <1>7. Confirmed(c) = Confirmed(ch) \cup ToSet(block)
    <2>1. ASSUME NEW t \in Confirmed(c) PROVE t \in Confirmed(ch) \cup ToSet(block)
      BY <1>2, <1>3, <1>4, <1>5
    <2>2. ASSUME NEW t \in Confirmed(ch) PROVE t \in Confirmed(c)
      BY <1>2, <1>3, <1>4, <1>6
    <2>3. ASSUME NEW t \in ToSet(block) PROVE t \in Confirmed(c)
      BY <1>2, <1>4, <1>5
    <2> QED
      BY <2>1, <2>2, <2>3
  <1>8. ToSet(block) \cap Confirmed(ch) = {}
    BY DEF ConnectBlock
  <1>9. \A h \in 1 .. n : ToSet(ch[h]) \cap ToSet(block) = {}
    BY <1>3, <1>8
  <1>10. \A h, k \in DOMAIN c : h # k => ToSet(c[h]) \cap ToSet(c[k]) = {}
    <2> SUFFICES ASSUME NEW h \in 1 .. n + 1, NEW k \in 1 .. n + 1, h # k
                 PROVE  ToSet(c[h]) \cap ToSet(c[k]) = {}
      BY <1>2
    <2>1. CASE h \in 1 .. n /\ k \in 1 .. n
      BY <1>1, <1>2, <2>1 DEF ChainOK
    <2>2. CASE h = n + 1
      <3>1. k \in 1 .. n
        BY <1>5, <2>2
      <3> QED
        BY <1>2, <1>9, <2>2, <3>1
    <2>3. CASE k = n + 1
      <3>1. h \in 1 .. n
        BY <1>5, <2>3
      <3> QED
        BY <1>2, <1>9, <2>3, <3>1
    <2> QED
      BY <1>5, <2>1, <2>2, <2>3
  <1>11. ASSUME NEW h \in DOMAIN c, NEW i \in DOMAIN c[h], NEW u \in Tx, Spends(c[h][i], u)
         PROVE  \/ \E j \in DOMAIN c[h] : j < i /\ u = c[h][j]
                \/ \E k \in DOMAIN c : k < h /\ u \in ToSet(c[k])
    <2>1. CASE h \in 1 .. n
      <3>1. c[h] = ch[h] /\ h \in DOMAIN ch
        BY <1>1, <1>2, <2>1
      <3>2. \/ \E j \in DOMAIN ch[h] : j < i /\ u = ch[h][j]
            \/ \E k \in DOMAIN ch : k < h /\ u \in ToSet(ch[k])
        BY <1>11, <3>1 DEF ChainOK
      <3> QED
        BY <1>1, <1>2, <1>6, <3>1, <3>2
    <2>2. CASE h = n + 1
      <3> DEFINE before == {block[j] : j \in 1 .. i - 1}
      <3>1. c[h] = block /\ i \in DOMAIN block
        BY <1>2, <2>2
      <3>2. DOMAIN block = 1 .. Len(block) /\ Len(block) \in Nat /\ \A j \in DOMAIN block : block[j] \in Tx
        BY BlockIs, ToSetIn
      <3>3. Ins[block[i]] \subseteq (CoinsTip(ch) \cup Created(before)) \ Spent(before)
        BY <3>1 DEF ConnectBlock
      <3>4. PICK o \in Ins[block[i]] : o \in Outs[u]
        BY <1>11, <3>1 DEF Spends
      <3>5. \A j \in 1 .. i - 1 : j \in DOMAIN block /\ j < i
        BY SMTT(60), <3>1, <3>2
      <3>6. before \in SUBSET Tx
        BY <3>2, <3>5
      <3>7. CASE o \in CoinsTip(ch)
        <4>1. u \in Confirmed(ch)
          BY <1>1, <3>4, <3>7, CoinMaker
        <4>2. PICK k \in 1 .. n : u \in ToSet(ch[k])
          BY <1>3, <4>1
        <4> QED
          BY <1>2, <1>6, <2>2, <4>2
      <3>8. CASE o \in Created(before)
        <4>1. u \in before
          BY SMTT(60), <3>4, <3>6, <3>8, Creator
        <4> QED
          BY <3>1, <3>5, <4>1
      <3> QED
        BY <3>3, <3>4, <3>7, <3>8
    <2> QED
      BY <1>2, <1>5, <2>1, <2>2
  <1>12. ChainOK(c)
    BY <1>2, <1>10, <1>11 DEF ChainOK
  <1> QED
    BY <1>2, <1>7, <1>8, <1>12 DEF c, n

(* What disconnecting the tip does to it. *)
LEMMA DisconnectIs ==
    ASSUME NEW ch, ChainOK(ch), ch # <<>>
    PROVE  /\ Last(ch) \in Blocks
           /\ Confirmed(ch) = Confirmed(Front(ch)) \cup ToSet(Last(ch))
           /\ ToSet(Last(ch)) \cap Confirmed(Front(ch)) = {}
           /\ ChainOK(Front(ch))
           /\ \A i, j \in DOMAIN Last(ch) : Spends(Last(ch)[i], Last(ch)[j]) => j < i
           /\ \A t \in Confirmed(Front(ch)), u \in ToSet(Last(ch)) : ~Spends(t, u)
  <1> DEFINE c == Front(ch)
             n == Len(ch)
             tip == Last(ch)
  <1>1. ch \in Seq(Blocks) /\ DOMAIN ch = 1 .. n /\ n \in Nat
    BY ChainIs DEF ChainOK
  <1>1a. n # 0
    BY SMTT(60), <1>1
  <1>2. /\ c \in Seq(Blocks) /\ DOMAIN c = 1 .. n - 1
        /\ \A h \in 1 .. n - 1 : c[h] = ch[h]
    BY SMTT(60), <1>1, <1>1a DEF Front
  <1>3. n \in 1 .. n /\ tip = ch[n] /\ tip \in Blocks
    BY SMTT(60), <1>1, <1>1a DEF Last
  <1> HIDE DEF c, n, tip
  <1>4. \A h \in 1 .. n - 1 : h \in 1 .. n /\ h # n /\ h < n
    BY SMTT(60), <1>1
  <1>5. \A h \in 1 .. n : h = n \/ h \in 1 .. n - 1
    BY SMTT(60), <1>1
  <1>6. \A t : t \in Confirmed(ch) <=> \E h \in 1 .. n : t \in ToSet(ch[h])
    BY <1>1 DEF Confirmed
  <1>7. \A t : t \in Confirmed(c) <=> \E h \in 1 .. n - 1 : t \in ToSet(ch[h])
    BY <1>2 DEF Confirmed
  <1>8. Confirmed(ch) = Confirmed(c) \cup ToSet(tip)
    <2>1. ASSUME NEW t \in Confirmed(ch) PROVE t \in Confirmed(c) \cup ToSet(tip)
      BY <1>3, <1>5, <1>6, <1>7
    <2>2. ASSUME NEW t \in Confirmed(c) PROVE t \in Confirmed(ch)
      BY <1>4, <1>6, <1>7
    <2>3. ASSUME NEW t \in ToSet(tip) PROVE t \in Confirmed(ch)
      BY <1>3, <1>6
    <2> QED
      BY <2>1, <2>2, <2>3
  <1>9. \A h, k \in 1 .. n : h # k => ToSet(ch[h]) \cap ToSet(ch[k]) = {}
    BY <1>1 DEF ChainOK
  <1>10. ToSet(tip) \cap Confirmed(c) = {}
    <2> SUFFICES ASSUME NEW t \in ToSet(tip), t \in Confirmed(c) PROVE FALSE
      OBVIOUS
    <2>1. PICK h \in 1 .. n - 1 : t \in ToSet(ch[h])
      BY <1>7
    <2> QED
      BY <1>3, <1>4, <1>9, <2>1
  <1>11. \A h \in 1 .. n : \A i \in DOMAIN ch[h] : \A u \in Tx :
            Spends(ch[h][i], u) => \/ \E j \in DOMAIN ch[h] : j < i /\ u = ch[h][j]
                                   \/ \E k \in 1 .. n : k < h /\ u \in ToSet(ch[k])
    BY <1>1 DEF ChainOK
  <1>12. \A h, k \in 1 .. n : k < h => k \in 1 .. n - 1
    BY SMTT(60), <1>1
  <1>13. ChainOK(c)
    <2>1. \A h, k \in DOMAIN c : h # k => ToSet(c[h]) \cap ToSet(c[k]) = {}
      BY <1>2, <1>4, <1>9
    <2>2. ASSUME NEW h \in DOMAIN c, NEW i \in DOMAIN c[h], NEW u \in Tx, Spends(c[h][i], u)
          PROVE  \/ \E j \in DOMAIN c[h] : j < i /\ u = c[h][j]
                 \/ \E k \in DOMAIN c : k < h /\ u \in ToSet(c[k])
      <3>1. c[h] = ch[h] /\ h \in 1 .. n
        BY <1>2, <1>4
      <3>2. \/ \E j \in DOMAIN ch[h] : j < i /\ u = ch[h][j]
            \/ \E k \in 1 .. n : k < h /\ u \in ToSet(ch[k])
        BY <1>11, <2>2, <3>1
      <3> QED
        BY <1>2, <1>12, <3>1, <3>2
    <2> QED
      BY <1>2, <2>1, <2>2 DEF ChainOK
  <1>14. /\ tip \in Seq(Tx) /\ NoRepeat(tip) /\ ToSet(tip) \in SUBSET Tx
         /\ DOMAIN tip = 1 .. Len(tip) /\ Len(tip) \in Nat
    BY <1>3, BlockIs
  <1>15. ASSUME NEW i \in DOMAIN tip, NEW j \in DOMAIN tip, Spends(tip[i], tip[j]) PROVE j < i
    <2>1. tip[j] \in ToSet(tip) /\ tip[j] \in Tx
      BY <1>14, ToSetIn
    <2>2. \/ \E k \in DOMAIN tip : k < i /\ tip[j] = tip[k]
          \/ \E k \in 1 .. n : k < n /\ tip[j] \in ToSet(ch[k])
      BY <1>3, <1>11, <1>15, <2>1
    <2>3. ~ \E k \in 1 .. n : k < n /\ tip[j] \in ToSet(ch[k])
      BY <1>3, <1>7, <1>10, <1>12, <2>1
    <2> QED
      BY <1>14, <2>2, <2>3 DEF NoRepeat
  <1>16. ASSUME NEW t \in Confirmed(c), NEW u \in ToSet(tip), Spends(t, u) PROVE FALSE
    <2>1. u \in Tx
      BY <1>14
    <2>2. u \in Confirmed(c)
      BY <1>13, <1>16, <2>1, ChainIs
    <2> QED
      BY <1>10, <2>2
  <1> QED
    BY <1>3, <1>8, <1>10, <1>13, <1>15, <1>16 DEF c, tip
-----------------------------------------------------------------------------
(* The loop over a connected block. *)

(* A transaction of the block spends what the loop is done with, and is     *)
(* spent in the chain by what the loop has yet to come to.                  *)
LEMMA RestIs ==
    ASSUME NEW ch, ChainOK(ch), NEW s, Rest(s, ch), s # <<>>
    PROVE  /\ NoRepeat(s) /\ Head(s) \in Confirmed(ch)
           /\ \A p \in Tx : Spends(Head(s), p) => p \in Confirmed(ch) \ ToSet(s)
           /\ \A u \in Confirmed(ch) : Spends(u, Head(s)) => u \in ToSet(Tail(s))
           /\ Rest(Tail(s), ch)
  <1> DEFINE tip == Last(ch)
             d == Len(tip) - Len(s)
             t == Head(s)
  <1>1. /\ tip \in Blocks /\ Confirmed(ch) = Confirmed(Front(ch)) \cup ToSet(tip)
        /\ ToSet(tip) \cap Confirmed(Front(ch)) = {}
        /\ \A i, j \in DOMAIN tip : Spends(tip[i], tip[j]) => j < i
        /\ \A x \in Confirmed(Front(ch)), u \in ToSet(tip) : ~Spends(x, u)
    BY DisconnectIs DEF Rest
  <1>2. /\ tip \in Seq(Tx) /\ NoRepeat(tip) /\ ToSet(tip) \in SUBSET Tx
        /\ DOMAIN tip = 1 .. Len(tip) /\ Len(tip) \in Nat
    BY <1>1, BlockIs
  <1>3. /\ s \in Seq(Tx) /\ DOMAIN s = 1 .. Len(s) /\ Len(s) \in Nat /\ Len(s) # 0
        /\ Len(s) <= Len(tip) /\ \A i \in DOMAIN s : s[i] = tip[d + i]
    BY ToSetIn DEF Rest
  <1>4. d \in Nat /\ \A i \in 1 .. Len(s) : d + i \in DOMAIN tip
    BY SMTT(60), <1>2, <1>3
  <1>5. NoRepeat(s)
    BY SMTT(60), <1>2, <1>3, <1>4 DEF NoRepeat
  <1>6. /\ Tail(s) \in Seq(Tx) /\ t = s[1] /\ Len(Tail(s)) = Len(s) - 1
        /\ \A i \in DOMAIN Tail(s) : i + 1 \in DOMAIN s /\ Tail(s)[i] = s[i + 1]
        /\ ToSet(Tail(s)) = ToSet(s) \ {t}
    BY <1>3, <1>5, TailIs
  <1>7. 1 \in DOMAIN s /\ t = tip[d + 1] /\ d + 1 \in DOMAIN tip
    BY SMTT(60), <1>3, <1>4, <1>6
  <1>8. t \in ToSet(tip) /\ t \in Confirmed(ch) /\ t \in Tx
    <2>1. t \in ToSet(tip)
      BY <1>7 DEF ToSet
    <2> QED
      BY <1>1, <1>2, <2>1
  <1>9. \A i \in DOMAIN tip : i > d => tip[i] \in ToSet(s)
    <2> SUFFICES ASSUME NEW i \in DOMAIN tip, i > d PROVE tip[i] \in ToSet(s)
      OBVIOUS
    <2>1. i - d \in DOMAIN s /\ d + (i - d) = i
      BY SMTT(60), <1>2, <1>3, <1>4
    <2>2. s[i - d] = tip[i]
      BY <1>3, <2>1
    <2> QED
      BY <2>1, <2>2 DEF ToSet
  <1>10. ASSUME NEW p \in Tx, Spends(t, p) PROVE p \in Confirmed(ch) \ ToSet(s)
    <2>1. p \in Confirmed(ch)
      BY <1>8, <1>10, ChainIs
    <2>2. ASSUME p \in ToSet(s) PROVE FALSE
      <3>1. PICK i \in DOMAIN s : p = s[i]
        BY <2>2 DEF ToSet
      <3>2. p = tip[d + i] /\ d + i \in DOMAIN tip
        BY <1>3, <1>4, <3>1
      <3>3. d + i < d + 1
        BY <1>1, <1>7, <1>10, <3>2
      <3> QED
        BY SMTT(60), <1>3, <1>4, <3>3
    <2> QED
      BY <2>1, <2>2
  <1>11. ASSUME NEW u \in Confirmed(ch), Spends(u, t) PROVE u \in ToSet(Tail(s))
    <2>1. u \in ToSet(tip)
      BY <1>1, <1>8, <1>11
    <2>2. PICK i \in DOMAIN tip : u = tip[i]
      BY <2>1 DEF ToSet
    <2>3. d + 1 < i
      BY <1>1, <1>7, <1>11, <2>2
    <2>4. u \in ToSet(s)
      BY SMTT(60), <1>2, <1>4, <1>9, <2>2, <2>3
    <2>5. u # t
      BY SMTT(60), <1>2, <1>4, <1>7, <2>2, <2>3 DEF NoRepeat
    <2> QED
      BY <1>6, <2>4, <2>5
  <1>12. Rest(Tail(s), ch)
    <2>1. Len(Tail(s)) <= Len(tip)
      BY SMTT(60), <1>2, <1>3, <1>6
    <2>2. ASSUME NEW i \in DOMAIN Tail(s) PROVE Tail(s)[i] = tip[Len(tip) - Len(Tail(s)) + i]
      <3>1. i + 1 \in DOMAIN s /\ Tail(s)[i] = s[i + 1] /\ s[i + 1] = tip[d + (i + 1)]
        BY <1>3, <1>6
      <3>1a. i \in 1 .. Len(Tail(s))
        BY SMTT(60), <1>6
      <3>2. d + (i + 1) = Len(tip) - Len(Tail(s)) + i
        BY SMTT(60), <1>2, <1>3, <1>6, <3>1a
      <3> QED
        BY <3>1, <3>2
    <2> QED
      BY <1>6, <2>1, <2>2 DEF Rest
  <1> QED
    BY <1>5, <1>8, <1>10, <1>11, <1>12
-----------------------------------------------------------------------------
(* What the entries spend. *)

(* Entries and queued transactions go, and nothing that stays spends them. *)
LEMMA CoinShrink ==
    ASSUME NEW ch, NEW pool \in SUBSET Tx, NEW Q \in SUBSET Tx, NEW pending,
           CoinOK(ch, pool, Q, pending),
           NEW kept \in SUBSET pool, NEW R \in SUBSET Q,
           \A t \in kept, p \in pool \ kept : ~Spends(t, p),
           \A t \in kept, q \in Q \ R : ~Spends(t, q)
    PROVE  CoinOK(ch, kept, R, pending)
  <1>1. ASSUME NEW t \in kept, NEW o \in Ins[t]
        PROVE  o \in CoinsTip(ch) \cup Created(kept) \cup Created(R) \cup Spent(pending)
    <2>1. o \in CoinsTip(ch) \cup Created(pool) \cup Created(Q) \cup Spent(pending)
      BY DEF CoinOK
    <2>2. ASSUME o \in Created(pool) PROVE o \in Created(kept)
      <3>1. PICK p \in pool : o \in Outs[p]
        BY <2>2 DEF Created
      <3>2. p \in kept
        BY <3>1 DEF Spends
      <3> QED
        BY <3>1, <3>2 DEF Created
    <2>3. ASSUME o \in Created(Q) PROVE o \in Created(R)
      <3>1. PICK q \in Q : o \in Outs[q]
        BY <2>3 DEF Created
      <3>2. q \in R
        BY <3>1 DEF Spends
      <3> QED
        BY <3>1, <3>2 DEF Created
    <2> QED
      BY <2>1, <2>2, <2>3
  <1>2. /\ \A t \in kept : Kind[t] = "normal"
        /\ kept \cap Confirmed(ch) \subseteq pending
        /\ \A t, u \in kept : t # u => Ins[t] \cap Ins[u] = {}
    BY DEF CoinOK
  <1> QED
    BY <1>1, <1>2 DEF CoinOK

(* A new entry whose coins are there, out of the queue or from outside. *)
LEMMA CoinAdd ==
    ASSUME NEW ch, NEW m, NEW Q \in SUBSET Tx, CoinOK(ch, m.pool, Q, {}),
           NEW t \in Tx, t \notin Confirmed(ch), PreChecks(m, ch, t)
    PROVE  CoinOK(ch, m.pool \cup {t}, Q \ {t}, {})
  <1> DEFINE new == m.pool \cup {t}
             R == Q \ {t}
  <1>1. /\ Kind[t] = "normal" /\ Spenders(m, Ins[t]) = {}
        /\ Ins[t] \subseteq CoinsTip(ch) \cup Created(m.pool)
    BY DEF PreChecks
  <1>2. Created(m.pool) \subseteq Created(new) /\ Created(Q) \subseteq Created(new) \cup Created(R)
    BY DEF Created
  <1>3. /\ \A u \in m.pool : Kind[u] = "normal" /\ u \notin Confirmed(ch)
        /\ \A u \in m.pool : Ins[u] \subseteq CoinsTip(ch) \cup Created(m.pool) \cup Created(Q) \cup Spent({})
        /\ \A x, y \in m.pool : x # y => Ins[x] \cap Ins[y] = {}
    BY DEF CoinOK
  <1>4. Spent({}) = {}
    BY DEF Spent
  <1>5. \A u \in m.pool : Ins[u] \cap Ins[t] = {}
    BY <1>1 DEF Spenders
  <1>6. \A u \in new : Kind[u] = "normal"
    BY <1>1, <1>3
  <1>7. new \cap Confirmed(ch) \subseteq {}
    BY <1>3
  <1>8. \A u \in new : Ins[u] \subseteq CoinsTip(ch) \cup Created(new) \cup Created(R) \cup Spent({})
    BY <1>1, <1>2, <1>3, <1>4
  <1>9. \A x, y \in new : x # y => Ins[x] \cap Ins[y] = {}
    BY <1>3, <1>5
  <1> QED
    BY <1>6, <1>7, <1>8, <1>9 DEF CoinOK

(* A block takes coins away; the loop over it is yet to run. *)
LEMMA CoinConnect ==
    ASSUME NEW ch, NEW c, NEW B, Confirmed(c) = Confirmed(ch) \cup B,
           NEW pool, NEW Q, CoinOK(ch, pool, Q, {})
    PROVE  CoinOK(c, pool, Q, B)
  <1>1. \A S, T : Created(S \cup T) = Created(S) \cup Created(T)
    BY DEF Created
  <1>2. \A S, T : Spent(S \cup T) = Spent(S) \cup Spent(T)
    BY DEF Spent
  <1>3. CoinsTip(ch) \subseteq CoinsTip(c) \cup Spent(B)
    BY SMTT(60), <1>1, <1>2 DEF CoinsTip
  <1>4. Spent({}) = {}
    BY DEF Spent
  <1> QED
    BY <1>3, <1>4 DEF CoinOK

(* The coins of a disconnected block are outputs of the queue. *)
LEMMA CoinDisconnect ==
    ASSUME NEW ch, NEW c, NEW B, Confirmed(ch) = Confirmed(c) \cup B,
           NEW pool, NEW Q, CoinOK(ch, pool, Q, {})
    PROVE  CoinOK(c, pool, Q \cup B, {})
  <1>1. \A S, T : Created(S \cup T) = Created(S) \cup Created(T)
    BY DEF Created
  <1>2. \A S, T : Spent(S \cup T) = Spent(S) \cup Spent(T)
    BY DEF Spent
  <1>3. CoinsTip(ch) \subseteq CoinsTip(c) \cup Created(B)
    BY SMTT(60), <1>1, <1>2 DEF CoinsTip
  <1> QED
    BY SMTT(60), <1>1, <1>3 DEF CoinOK

(* A turn of the loop over a connected block. *)
LEMMA CoinTurn ==
    ASSUME NEW ch, Confirmed(ch) \in SUBSET Tx, NEW pool \in SUBSET Tx, NEW Q \in SUBSET Tx,
           NEW pending \in SUBSET Tx, CoinOK(ch, pool, Q, pending),
           NEW t \in Confirmed(ch), \A u \in Confirmed(ch) : Spends(u, t) => u \in pending \ {t},
           NEW kept \in SUBSET pool, t \notin kept,
           \A x \in kept, p \in (pool \ kept) \ {t} : ~Spends(x, p),
           \A x \in kept : Ins[x] \cap Ins[t] = {}
    PROVE  CoinOK(ch, kept, Q \ {t}, pending \ {t})
  <1> DEFINE R == Q \ {t}
             rest == pending \ {t}
  <1>1. ASSUME NEW o \in Outs[t] PROVE o \in CoinsTip(ch) \cup Spent(rest)
    <2>1. o \in Created(Confirmed(ch))
      BY DEF Created
    <2>2. CASE o \in Spent(Confirmed(ch))
      <3>1. PICK u \in Confirmed(ch) : o \in Ins[u]
        BY <2>2 DEF Spent
      <3>2. u \in rest
        BY <3>1 DEF Spends
      <3> QED
        BY <3>1, <3>2 DEF Spent
    <2> QED
      BY <2>1, <2>2 DEF CoinsTip
  <1>2. ASSUME NEW x \in kept, NEW o \in Ins[x]
        PROVE  o \in CoinsTip(ch) \cup Created(kept) \cup Created(R) \cup Spent(rest)
    <2>1. o \in CoinsTip(ch) \cup Created(pool) \cup Created(Q) \cup Spent(pending)
      BY DEF CoinOK
    <2>2. CASE o \in Outs[t]
      BY <1>1, <2>2
    <2>3. CASE o \notin Outs[t]
      <3>1. ASSUME o \in Created(pool) PROVE o \in Created(kept)
        <4>1. PICK p \in pool : o \in Outs[p]
          BY <3>1 DEF Created
        <4>2. p \in kept
          BY <2>3, <4>1 DEF Spends
        <4> QED
          BY <4>1, <4>2 DEF Created
      <3>2. ASSUME o \in Created(Q) PROVE o \in Created(R)
        BY <2>3, <3>2 DEF Created
      <3>3. ASSUME o \in Spent(pending) PROVE o \in Spent(rest)
        <4>1. PICK u \in pending : o \in Ins[u]
          BY <3>3 DEF Spent
        <4>2. u # t
          BY <4>1
        <4> QED
          BY <4>1, <4>2 DEF Spent
      <3> QED
        BY <2>1, <3>1, <3>2, <3>3
    <2> QED
      BY <2>2, <2>3
  <1>3. /\ \A x \in kept : Kind[x] = "normal"
        /\ kept \cap Confirmed(ch) \subseteq rest
        /\ \A x, y \in kept : x # y => Ins[x] \cap Ins[y] = {}
    BY DEF CoinOK
  <1> QED
    BY <1>2, <1>3 DEF CoinOK

(* Nothing that passes PreChecks between two blocks is in the chain, and    *)
(* no entry spends it.                                                      *)
LEMMA FreshTx ==
    ASSUME NEW ch, ChainOK(ch), NEW m, m.pool \in SUBSET Tx, CoinOK(ch, m.pool, {}, {}),
           NEW t \in Tx, PreChecks(m, ch, t)
    PROVE  /\ t \notin Confirmed(ch) /\ ~Spends(t, t)
           /\ \A u \in m.pool : ~Spends(u, t)
  <1>1. /\ Confirmed(ch) \in SUBSET Tx
        /\ \A x \in Confirmed(ch), u \in Tx : Spends(x, u) => u \in Confirmed(ch)
    BY ChainIs
  <1>2. /\ Ins[t] \subseteq CoinsTip(ch) \cup Created(m.pool) /\ Kind[t] = "normal"
        /\ t \notin m.pool
    BY DEF PreChecks
  <1>3. Spent({}) = {} /\ Created({}) = {}
    BY DEF Spent, Created
  <1>4. \A u \in m.pool : u \notin Confirmed(ch) /\ Ins[u] \subseteq CoinsTip(ch) \cup Created(m.pool)
    BY <1>3 DEF CoinOK
  <1>5. t \notin Confirmed(ch)
    <2> SUFFICES ASSUME t \in Confirmed(ch) PROVE FALSE
      OBVIOUS
    <2>1. Ins[t] # {}
      BY <1>2, MempoolAssumption
    <2>2. PICK o \in Ins[t] : TRUE
      BY <2>1
    <2>3. o \notin CoinsTip(ch)
      BY <2>2 DEF CoinsTip, Spent
    <2>4. PICK p \in m.pool : o \in Outs[p]
      BY <1>2, <2>2, <2>3 DEF Created
    <2>5. Spends(t, p)
      BY <2>2, <2>4 DEF Spends
    <2> QED
      BY <1>1, <1>4, <2>5
  <1>6. ASSUME NEW o \in Outs[t] PROVE o \notin CoinsTip(ch) \cup Created(m.pool)
    BY SMTT(60), <1>1, <1>2, <1>5, CoinMaker, Creator
  <1> QED
    BY <1>2, <1>4, <1>5, <1>6 DEF Spends
-----------------------------------------------------------------------------
(* The order of the queue and of what came back. *)

LEMMA EmptyList ==
    /\ <<>> \in Seq(Tx) /\ ToSet(<<>>) = {} /\ NoRepeat(<<>>)
    /\ Backwards(<<>>) /\ Forwards(<<>>)
  BY SMTT(60) DEF ToSet, NoRepeat, Backwards, Forwards

LEMMA BackwardsTail ==
    ASSUME NEW s \in Seq(Tx), s # <<>>, Backwards(s)
    PROVE  /\ Backwards(Tail(s)) /\ ~Spends(Head(s), Head(s))
           /\ \A u \in ToSet(Tail(s)) : ~Spends(u, Head(s))
  <1>1. /\ NoRepeat(s) /\ \A i, j \in DOMAIN s : i <= j => ~Spends(s[j], s[i])
    BY DEF Backwards
  <1>2. /\ Tail(s) \in Seq(Tx) /\ Head(s) = s[1]
        /\ \A i \in DOMAIN Tail(s) : i + 1 \in DOMAIN s /\ Tail(s)[i] = s[i + 1]
        /\ NoRepeat(Tail(s))
    BY <1>1, TailIs
  <1>3. DOMAIN s = 1 .. Len(s) /\ Len(s) \in Nat /\ Len(s) # 0
    BY SMTT(60), ToSetIn
  <1>4. DOMAIN Tail(s) \subseteq Nat
    BY SMTT(60), <1>2
  <1>5. \A i, j \in DOMAIN Tail(s) : i <= j => ~Spends(Tail(s)[j], Tail(s)[i])
    <2> SUFFICES ASSUME NEW i \in DOMAIN Tail(s), NEW j \in DOMAIN Tail(s), i <= j
                 PROVE  ~Spends(Tail(s)[j], Tail(s)[i])
      OBVIOUS
    <2>1. i + 1 <= j + 1
      BY SMTT(60), <1>4
    <2> QED
      BY <1>1, <1>2, <2>1
  <1>6. 1 \in DOMAIN s
    BY SMTT(60), <1>3
  <1>7. ASSUME NEW u \in ToSet(Tail(s)) PROVE ~Spends(u, Head(s))
    <2>1. PICK i \in DOMAIN Tail(s) : u = Tail(s)[i]
      BY DEF ToSet
    <2>2. i + 1 \in DOMAIN s /\ u = s[i + 1] /\ 1 <= i + 1
      BY SMTT(60), <1>2, <1>4, <2>1
    <2> QED
      BY <1>1, <1>2, <1>6, <2>2
  <1>8. ~Spends(Head(s), Head(s))
    BY SMTT(60), <1>1, <1>2, <1>6
  <1> QED
    BY <1>2, <1>5, <1>7, <1>8 DEF Backwards

LEMMA BackwardsFront ==
    ASSUME NEW s \in Seq(Tx), s # <<>>, Backwards(s)
    PROVE  /\ Backwards(Front(s)) /\ ~Spends(Last(s), Last(s))
           /\ \A u \in ToSet(Front(s)) : ~Spends(Last(s), u)
  <1>1. /\ NoRepeat(s) /\ \A i, j \in DOMAIN s : i <= j => ~Spends(s[j], s[i])
    BY DEF Backwards
  <1>2. /\ Front(s) \in Seq(Tx) /\ Last(s) = s[Len(s)]
        /\ \A i \in DOMAIN Front(s) : i \in DOMAIN s /\ Front(s)[i] = s[i]
        /\ NoRepeat(Front(s))
    BY <1>1, FrontIs
  <1>3. DOMAIN s = 1 .. Len(s) /\ Len(s) \in Nat /\ Len(s) # 0
    BY SMTT(60), ToSetIn
  <1>5. \A i, j \in DOMAIN Front(s) : i <= j => ~Spends(Front(s)[j], Front(s)[i])
    BY <1>1, <1>2
  <1>6. Len(s) \in DOMAIN s
    BY SMTT(60), <1>3
  <1>7. ASSUME NEW u \in ToSet(Front(s)) PROVE ~Spends(Last(s), u)
    <2>1. PICK i \in DOMAIN Front(s) : u = Front(s)[i]
      BY DEF ToSet
    <2>2. i \in DOMAIN s /\ u = s[i] /\ i <= Len(s)
      BY SMTT(60), <1>2, <1>3, <2>1
    <2> QED
      BY <1>1, <1>2, <1>6, <2>2
  <1>8. ~Spends(Last(s), Last(s))
    BY SMTT(60), <1>1, <1>2, <1>3, <1>6
  <1> QED
    BY <1>2, <1>5, <1>7, <1>8 DEF Backwards

LEMMA BackwardsErase ==
    ASSUME NEW s \in Seq(Tx), NEW t \in Tx, Backwards(s)
    PROVE  Backwards(Erase(s, t))
  <1> DEFINE e == Erase(s, t)
  <1>1. /\ NoRepeat(s) /\ \A i, j \in DOMAIN s : i <= j => ~Spends(s[j], s[i])
    BY DEF Backwards
  <1>2. /\ e \in Seq(Tx)
        /\ \A i, j \in DOMAIN e : i <= j =>
              \E a, b \in DOMAIN s : /\ a <= b /\ (i # j => a # b)
                                     /\ e[i] = s[a] /\ e[j] = s[b]
    BY <1>1, EraseIs
  <1> HIDE DEF e
  <1>3. DOMAIN e = 1 .. Len(e) /\ Len(e) \in Nat
    BY <1>2, ToSetIn
  <1>4. ASSUME NEW i \in DOMAIN e, NEW j \in DOMAIN e, i <= j
        PROVE  ~Spends(e[j], e[i]) /\ (i # j => e[i] # e[j])
    <2>1. PICK a \in DOMAIN s, b \in DOMAIN s :
             a <= b /\ (i # j => a # b) /\ e[i] = s[a] /\ e[j] = s[b]
      BY SMTT(60), <1>2, <1>4
    <2> QED
      BY <1>1, <2>1 DEF NoRepeat
  <1>5. NoRepeat(e)
    <2> SUFFICES ASSUME NEW i \in DOMAIN e, NEW j \in DOMAIN e, i # j PROVE e[i] # e[j]
      BY DEF NoRepeat
    <2>1. i <= j \/ j <= i
      BY SMTT(60), <1>3
    <2> QED
      BY <1>4, <2>1
  <1> QED
    BY <1>4, <1>5 DEF Backwards, e

LEMMA ForwardsAppend ==
    ASSUME NEW s \in Seq(Tx), NEW t \in Tx \ ToSet(s), Forwards(s), ~Spends(t, t),
           \A u \in ToSet(s) : ~Spends(u, t)
    PROVE  Forwards(Append(s, t))
  <1> DEFINE e == Append(s, t)
  <1>1. NoRepeat(s) /\ \A i, j \in DOMAIN s : i <= j => ~Spends(s[i], s[j])
    BY DEF Forwards
  <1>2. /\ NoRepeat(e) /\ DOMAIN e = 1 .. Len(s) + 1
        /\ \A i \in 1 .. Len(s) : e[i] = s[i] /\ s[i] \in ToSet(s)
        /\ e[Len(s) + 1] = t
    BY <1>1, AppendIs
  <1> HIDE DEF e
  <1>3. DOMAIN s = 1 .. Len(s) /\ Len(s) \in Nat
    BY ToSetIn
  <1>4. ASSUME NEW i \in DOMAIN e, NEW j \in DOMAIN e, i <= j PROVE ~Spends(e[i], e[j])
    <2>1. CASE j \in 1 .. Len(s)
      <3>1. i \in 1 .. Len(s)
        BY SMTT(60), <1>2, <1>3, <1>4, <2>1
      <3> QED
        BY <1>1, <1>2, <1>3, <1>4, <2>1, <3>1
    <2>2. CASE j = Len(s) + 1
      <3>1. i \in 1 .. Len(s) \/ i = Len(s) + 1
        BY SMTT(60), <1>2, <1>3
      <3> QED
        BY <1>2, <2>2, <3>1
    <2> QED
      BY SMTT(60), <1>2, <1>3, <2>1, <2>2
  <1> QED
    BY <1>2, <1>4 DEF Forwards, e

LEMMA BackwardsReverse ==
    ASSUME NEW s \in Seq(Tx), Forwards(s)
    PROVE  Backwards(Reverse(s))
  <1> DEFINE e == Reverse(s)
             n == Len(s)
  <1>1. NoRepeat(s) /\ \A i, j \in DOMAIN s : i <= j => ~Spends(s[i], s[j])
    BY DEF Forwards
  <1>2. DOMAIN e = 1 .. n /\ \A i \in 1 .. n : n + 1 - i \in 1 .. n /\ e[i] = s[n + 1 - i]
    BY ReverseIs
  <1>3. DOMAIN s = 1 .. n /\ n \in Nat
    BY ToSetIn
  <1> HIDE DEF e, n
  <1>4. ASSUME NEW i \in DOMAIN e, NEW j \in DOMAIN e PROVE (i # j => e[i] # e[j]) /\ (i <= j => ~Spends(e[j], e[i]))
    <2>1. i \in 1 .. n /\ j \in 1 .. n
      BY <1>2
    <2>2. (i # j => n + 1 - i # n + 1 - j) /\ (i <= j => n + 1 - j <= n + 1 - i)
      BY SMTT(60), <1>3, <2>1
    <2> QED
      BY SMTT(60), <1>1, <1>2, <1>3, <2>1, <2>2 DEF NoRepeat
  <1> QED
    BY <1>4 DEF Backwards, NoRepeat, e

(* The queue grows by a block it has nothing of, that spends nothing of it. *)
LEMMA BackwardsConcat ==
    ASSUME NEW s \in Seq(Tx), NEW r \in Seq(Tx), Backwards(s), Backwards(r),
           ToSet(s) \cap ToSet(r) = {}, \A t \in ToSet(r), u \in ToSet(s) : ~Spends(t, u)
    PROVE  s \o r \in Seq(Tx) /\ Backwards(s \o r) /\ ToSet(s \o r) = ToSet(s) \cup ToSet(r)
  <1> DEFINE e == s \o r
             n == Len(s)
             k == Len(r)
  <1>1. /\ NoRepeat(s) /\ \A i, j \in DOMAIN s : i <= j => ~Spends(s[j], s[i])
        /\ NoRepeat(r) /\ \A i, j \in DOMAIN r : i <= j => ~Spends(r[j], r[i])
    BY DEF Backwards
  <1>2. DOMAIN s = 1 .. n /\ n \in Nat /\ DOMAIN r = 1 .. k /\ k \in Nat
    BY ToSetIn
  <1>3. e \in Seq(Tx) /\ DOMAIN e = 1 .. n + k
    BY SMTT(60), <1>2
  <1>4. \A i \in 1 .. n + k : e[i] = IF i <= n THEN s[i] ELSE r[i - n]
    BY SMTT(60), <1>2
  <1> HIDE DEF e, n, k
  <1>5. \A i \in 1 .. n : i \in 1 .. n + k /\ e[i] = s[i] /\ s[i] \in ToSet(s)
    BY SMTT(60), <1>2, <1>4 DEF ToSet
  <1>6. ASSUME NEW i \in 1 .. n + k, i > n PROVE i - n \in 1 .. k /\ e[i] = r[i - n] /\ r[i - n] \in ToSet(r)
    <2>1. i - n \in 1 .. k /\ ~(i <= n)
      BY SMTT(60), <1>2, <1>6
    <2> QED
      BY <1>2, <1>4, <2>1 DEF ToSet
  <1>7. ASSUME NEW i \in DOMAIN e, NEW j \in DOMAIN e, i <= j
        PROVE  ~Spends(e[j], e[i]) /\ (i # j => e[i] # e[j])
    <2>0. i \in 1 .. n + k /\ j \in 1 .. n + k
      BY <1>3
    <2>1. CASE j <= n
      <3>1. i \in 1 .. n /\ j \in 1 .. n
        BY SMTT(60), <1>2, <1>7, <2>0, <2>1
      <3> QED
        BY <1>1, <1>2, <1>5, <1>7, <3>1 DEF NoRepeat
    <2>2. CASE j > n /\ i <= n
      <3>1. i \in 1 .. n
        BY SMTT(60), <1>2, <2>0, <2>2
      <3>2. e[i] \in ToSet(s) /\ e[j] \in ToSet(r)
        BY <1>5, <1>6, <2>0, <2>2, <3>1
      <3> QED
        BY <3>2
    <2>3. CASE i > n /\ j > n
      <3>1. /\ i - n \in 1 .. k /\ e[i] = r[i - n] /\ j - n \in 1 .. k /\ e[j] = r[j - n]
        BY <1>6, <2>0, <2>3
      <3>2. i - n <= j - n /\ (i # j => i - n # j - n)
        BY SMTT(60), <1>2, <1>7, <2>0
      <3> QED
        BY <1>1, <1>2, <3>1, <3>2 DEF NoRepeat
    <2> QED
      BY SMTT(60), <1>2, <1>7, <2>0, <2>1, <2>2, <2>3
  <1>8. NoRepeat(e)
    <2> SUFFICES ASSUME NEW i \in DOMAIN e, NEW j \in DOMAIN e, i # j PROVE e[i] # e[j]
      BY DEF NoRepeat
    <2>1. i <= j \/ j <= i
      BY SMTT(60), <1>2, <1>3
    <2> QED
      BY <1>7, <2>1
  <1>9. ToSet(e) \subseteq ToSet(s) \cup ToSet(r)
    <2> SUFFICES ASSUME NEW i \in 1 .. n + k PROVE e[i] \in ToSet(s) \cup ToSet(r)
      BY <1>3 DEF ToSet
    <2>1. i \in 1 .. n \/ i > n
      BY SMTT(60), <1>2
    <2> QED
      BY <1>5, <1>6, <2>1
  <1>10. ToSet(s) \subseteq ToSet(e)
    BY <1>2, <1>3, <1>5 DEF ToSet
  <1>11. ToSet(r) \subseteq ToSet(e)
    <2> SUFFICES ASSUME NEW j \in 1 .. k PROVE r[j] \in ToSet(e)
      BY <1>2 DEF ToSet
    <2>1. n + j \in 1 .. n + k /\ n + j > n /\ (n + j) - n = j
      BY SMTT(60), <1>2
    <2>2. e[n + j] = r[j]
      BY <1>6, <2>1
    <2> QED
      BY <1>3, <2>1, <2>2 DEF ToSet
  <1> QED
    BY <1>3, <1>7, <1>8, <1>9, <1>10, <1>11 DEF Backwards, e
-----------------------------------------------------------------------------
(* Lock times, maturity and size. *)

LEMMA AcceptedMinable ==
    ASSUME NEW ch, NEW m, NEW t, PreChecks(m, ch, t)
    PROVE  Minable(ch, t)
  <1> DEFINE k == SpendMaturity(t)
  <1>1. CheckFinalTx(ch, t) /\ Ins[t] \cap Created(Immature(ch, {"coinbase", "coinstake"}, k)) = {}
    BY DEF PreChecks, MatureIn
  <1>2. Immature(ch, {"coinbase"}, k) \subseteq Immature(ch, {"coinbase", "coinstake"}, k)
    <2> HIDE DEF k
    <2> QED
      BY SMTT(60) DEF Immature
  <1>3. Created(Immature(ch, {"coinbase"}, k)) \subseteq Created(Immature(ch, {"coinbase", "coinstake"}, k))
    BY <1>2 DEF Created
  <1> QED
    BY <1>1, <1>3 DEF Minable

(* removeForReorg asks for no less than CheckTxInputs. *)
LEMMA ReorgMinable ==
    ASSUME NEW ch, NEW t, CheckFinalTx(ch, t), Ins[t] \cap Created(Immature(ch, {"coinbase"}, Maturity)) = {},
           NEW B, ch \in Seq(B)
    PROVE  Minable(ch, t)
  <1> DEFINE k == SpendMaturity(t)
  <1>1. k = Maturity \/ k = 0
    BY DEF SpendMaturity
  <1>2. Maturity \in Nat /\ DOMAIN ch = 1 .. Len(ch) /\ Len(ch) \in Nat
    BY SMTT(60), MempoolAssumption
  <1> HIDE DEF k
  <1>3. \A h \in 1 .. Len(ch) : Len(ch) + 1 < h + k => Len(ch) + 1 < h + Maturity
    BY SMTT(60), <1>1, <1>2
  <1>4. Immature(ch, {"coinbase"}, k) \subseteq Immature(ch, {"coinbase"}, Maturity)
    BY SMTT(60), <1>2, <1>3 DEF Immature
  <1>5. Created(Immature(ch, {"coinbase"}, k)) \subseteq Created(Immature(ch, {"coinbase"}, Maturity))
    BY <1>4 DEF Created
  <1> QED
    BY <1>5 DEF Minable, k

(* A block makes no entry immature: its coinbase is new. *)
LEMMA ConnectMinable ==
    ASSUME NEW ch, ChainOK(ch), NEW block \in Blocks, ConnectBlock(ch, block),
           NEW pool \in SUBSET Tx, CoinOK(ch, pool, {}, {}), NEW t \in pool, Minable(ch, t)
    PROVE  Minable(Append(ch, block), t)
  <1> DEFINE c == Append(ch, block)
             n == Len(ch)
             k == SpendMaturity(t)
             new == {u \in ToSet(block) : Kind[u] = "coinbase"}
  <1>1. /\ ToSet(block) \cap Confirmed(ch) = {}
        /\ DOMAIN c = 1 .. n + 1 /\ c[n + 1] = block /\ Len(c) = n + 1
        /\ \A h \in 1 .. n : c[h] = ch[h]
    BY ConnectIs
  <1>2. DOMAIN ch = 1 .. n /\ n \in Nat /\ Confirmed(ch) \in SUBSET Tx
    BY ChainIs
  <1>9. k \in Nat
    BY MempoolAssumption DEF SpendMaturity
  <1> HIDE DEF c, n, k
  <1>3. ToSet(block) \in SUBSET Tx
    BY BlockIs
  <1>4. Immature(c, {"coinbase"}, k) \subseteq Immature(ch, {"coinbase"}, k) \cup new
    <2> SUFFICES ASSUME NEW h \in 1 .. n + 1, NEW u \in ToSet(c[h]), Kind[u] = "coinbase",
                        (n + 1) + 1 < h + k
                 PROVE  u \in Immature(ch, {"coinbase"}, k) \cup new
      BY SMTT(60), <1>1 DEF Immature
    <2>1. CASE h = n + 1
      BY <1>1, <2>1
    <2>2. CASE h # n + 1
      <3>1. h \in 1 .. n /\ n + 1 < h + k
        BY SMTT(60), <1>2, <1>9, <2>2
      <3>2. u \in ToSet(ch[h])
        BY <1>1, <3>1
      <3> QED
        BY SMTT(60), <1>2, <3>1, <3>2 DEF Immature, n
    <2> QED
      BY <2>1, <2>2
  <1>5. ASSUME NEW o \in Ins[t], NEW u \in new PROVE o \notin Outs[u]
    <2>1. u \in Tx /\ u \notin Confirmed(ch) /\ u \notin pool
      BY <1>1, <1>3 DEF CoinOK
    <2>2. Created({}) = {} /\ Spent({}) = {}
      BY DEF Created, Spent
    <2>3. o \in CoinsTip(ch) \cup Created(pool)
      BY <2>2 DEF CoinOK
    <2> QED
      BY <1>2, <2>1, <2>3, CoinMaker, Creator
  <1>6. CheckFinalTx(ch, t) /\ Ins[t] \cap Created(Immature(ch, {"coinbase"}, k)) = {}
    BY DEF Minable, k
  <1>7. CheckFinalTx(c, t)
    <2>1. LockHeight[t] \in Nat
      BY MempoolAssumption
    <2> QED
      BY SMTT(60), <1>1, <1>2, <1>6, <2>1 DEF CheckFinalTx, n
  <1>8. ASSUME NEW o \in Ins[t], o \in Created(Immature(c, {"coinbase"}, k)) PROVE FALSE
    <2>1. PICK u \in Immature(c, {"coinbase"}, k) : o \in Outs[u]
      BY <1>8 DEF Created
    <2>2. u \in Immature(ch, {"coinbase"}, k)
      BY <1>4, <1>5, <2>1
    <2>3. o \in Created(Immature(ch, {"coinbase"}, k))
      BY <2>1, <2>2 DEF Created
    <2> QED
      BY <1>6, <2>3
  <1> QED
    BY <1>7, <1>8 DEF Minable, c, k
-----------------------------------------------------------------------------
(* Walks along the links. *)

(* Sets of naturals have a least element. *)
LEMMA LeastNatural ==
    ASSUME NEW T, T \subseteq Nat, T # {}
    PROVE  \E x \in T : \A y \in T : x <= y
  <1> DEFINE R == OpToRel(<, Nat)
  <1>1. IsWellFoundedOn(R, Nat)
    BY NatLessThanWellFounded, Zenon
  <1>2. \A x, y \in Nat : y < x => <<y, x>> \in R
    BY DEF OpToRel
  <1> HIDE DEF R
  <1>3. PICK x \in T : \A y \in T : ~(<<y, x>> \in R)
    BY <1>1, WFMin
  <1>4. ASSUME NEW y \in T PROVE x <= y
    <2>1. x \in Nat /\ y \in Nat /\ ~(<<y, x>> \in R)
      BY <1>3
    <2>2. ~(y < x)
      BY <1>2, <2>1
    <2> QED
      BY SMTT(60), <2>1, <2>2
  <1> QED
    BY <1>4

(* One more step along the links. *)
Further(link, X) == X \cup UNION {link[t] : t \in X}

(* The walk Reach speaks of exists: it can be made longer step by step. *)
LEMMA WalkExists ==
    ASSUME NEW link, NEW S, NEW N \in Nat
    PROVE  \E w : w = [n \in 0 .. N |-> IF n = 0 THEN S ELSE Further(link, w[n - 1])]
  <1> DEFINE Is(w, k) == w = [n \in 0 .. k |-> IF n = 0 THEN S ELSE Further(link, w[n - 1])]
             T == {k \in Nat : ~ \E w : Is(w, k)}
  <1> SUFFICES ASSUME N \in T PROVE FALSE
    OBVIOUS
  <1>1. PICK k \in T : \A j \in T : k <= j
    BY LeastNatural
  <1>2. k \in Nat /\ ~ \E w : Is(w, k)
    OBVIOUS
  <1>3. ASSUME k # 0 PROVE k - 1 \in Nat /\ k - 1 \notin T
    <2> HIDE DEF T
    <2> QED
      BY SMTT(60), <1>1, <1>2, <1>3
  <1>4. CASE k = 0
    <2>1. Is([n \in 0 .. 0 |-> S], 0)
      BY SMTT(60)
    <2> QED
      BY <1>2, <1>4, <2>1
  <1>5. CASE k # 0
    <2>1. k - 1 \in Nat /\ k - 1 \notin T
      BY <1>3, <1>5
    <2>2. PICK v : Is(v, k - 1)
      BY <2>1
    <2> DEFINE w == [n \in 0 .. k |-> IF n = k THEN Further(link, v[k - 1]) ELSE v[n]]
    <2>3. \A n \in 0 .. k - 1 : v[n] = IF n = 0 THEN S ELSE Further(link, v[n - 1])
      BY <2>2
    <2>4. \A n \in 0 .. k : w[n] = IF n = 0 THEN S ELSE Further(link, w[n - 1])
      <3> TAKE n \in 0 .. k
      <3>1. CASE n = k
        BY SMTT(60), <3>1, <1>2, <1>5
      <3>2. CASE n # k
        <4>1. n \in 0 .. k - 1 /\ w[n] = v[n] /\ (n # 0 => n - 1 \in 0 .. k /\ n - 1 # k /\ w[n - 1] = v[n - 1])
          BY SMTT(60), <3>2, <1>2
        <4> QED
          BY <4>1, <2>3
      <3> QED
        BY <3>1, <3>2
    <2>5. w = [n \in 0 .. k |-> w[n]]
      OBVIOUS
    <2> HIDE DEF w
    <2>6. Is(w, k)
      BY <2>4, <2>5
    <2> QED
      BY <2>6, <1>2
  <1> QED
    BY <1>4, <1>5

LEMMA ReachIsWalk ==
    ASSUME NEW link, NEW S
    PROVE  \E w : /\ DOMAIN w = 0 .. Cardinality(Tx)
                  /\ \A n \in 0 .. Cardinality(Tx) :
                        w[n] = IF n = 0 THEN S ELSE Further(link, w[n - 1])
                  /\ Reach(link, S) = w[Cardinality(Tx)]
  <1> DEFINE N == Cardinality(Tx)
             Is(w) == w = [n \in 0 .. N |-> IF n = 0 THEN S ELSE Further(link, w[n - 1])]
             w == CHOOSE w : Is(w)
  <1>1. N \in Nat
    BY MempoolAssumption, FS_CardinalityType
  <1>2. Reach(link, S) = w[N]
    BY DEF Reach, Further
  <1>3. Is(w)
    BY SMTT(60), <1>1, WalkExists
  <1> HIDE DEF w
  <1> QED
    BY <1>2, <1>3

Closed(link, X) == \A x \in X : link[x] \subseteq X

(* A walk that finds nothing new in one step has found everything. *)
LEMMA WalkStops ==
    ASSUME NEW link \in [Tx -> SUBSET Tx], NEW N \in Nat, NEW w,
           \A n \in 0 .. N : n # 0 => w[n] = Further(link, w[n - 1])
    PROVE  \A k \in 0 .. N : Further(link, w[k]) = w[k] => w[N] = w[k]
  <1> SUFFICES ASSUME NEW k \in 0 .. N, Further(link, w[k]) = w[k] PROVE w[N] = w[k]
    OBVIOUS
  <1> DEFINE T == {n \in k .. N : w[n] # w[k]}
  <1> SUFFICES ASSUME T # {} PROVE FALSE
    BY SMTT(60), k \in 0 .. N
  <1>1. PICK n \in T : \A j \in T : n <= j
    <2>1. T \subseteq Nat
      BY SMTT(60)
    <2> QED
      BY <2>1, LeastNatural
  <1>2. n \in k .. N /\ n # k /\ w[n] # w[k]
    OBVIOUS
  <1>3. n - 1 \in k .. N /\ n - 1 \notin T /\ n \in 0 .. N /\ n # 0
    BY SMTT(60), <1>1, <1>2
  <1>4. w[n - 1] = w[k]
    BY <1>3
  <1> QED
    BY <1>2, <1>3, <1>4

(* A walk that finds something new in every step gets larger and larger. *)
LEMMA WalkGrows ==
    ASSUME NEW N \in Nat, NEW w,
           \A n \in 0 .. N : w[n] \subseteq Tx,
           \A n \in 0 .. N : n # 0 => w[n - 1] \subseteq w[n] /\ w[n - 1] # w[n]
    PROVE  Cardinality(w[N]) >= N
  <1> DEFINE T == {n \in 0 .. N : ~(Cardinality(w[n]) >= n)}
  <1>0. \A n \in 0 .. N : IsFiniteSet(w[n]) /\ Cardinality(w[n]) \in Nat
    BY MempoolAssumption, FS_Subset, FS_CardinalityType
  <1> SUFFICES ASSUME T # {} PROVE FALSE
    BY SMTT(60)
  <1>1. PICK n \in T : \A j \in T : n <= j
    <2>1. T \subseteq Nat
      BY SMTT(60)
    <2> QED
      BY <2>1, LeastNatural
  <1>2. n \in 0 .. N /\ ~(Cardinality(w[n]) >= n)
    OBVIOUS
  <1>3. n # 0 /\ n - 1 \in 0 .. N /\ n - 1 \notin T
    BY SMTT(60), <1>0, <1>1, <1>2
  <1>4. Cardinality(w[n - 1]) >= n - 1
    BY <1>3
  <1>5. /\ w[n - 1] \subseteq w[n] /\ w[n - 1] # w[n]
        /\ IsFiniteSet(w[n]) /\ Cardinality(w[n]) \in Nat /\ Cardinality(w[n - 1]) \in Nat
    BY <1>0, <1>2, <1>3
  <1>6. Cardinality(w[n - 1]) <= Cardinality(w[n]) /\ Cardinality(w[n - 1]) # Cardinality(w[n])
    BY <1>5, FS_Subset
  <1> QED
    BY SMTT(60), <1>2, <1>3, <1>4, <1>5, <1>6

(* What Reach returns: a set of transactions that holds S and is closed     *)
(* under the links.                                                         *)
LEMMA ReachClosed ==
    ASSUME NEW link \in [Tx -> SUBSET Tx], NEW S \in SUBSET Tx
    PROVE  S \subseteq Reach(link, S) /\ Reach(link, S) \subseteq Tx /\ Closed(link, Reach(link, S))
  <1> DEFINE N == Cardinality(Tx)
  <1>0. N \in Nat
    BY MempoolAssumption, FS_CardinalityType
  <1>1. PICK w : /\ DOMAIN w = 0 .. N
                 /\ \A n \in 0 .. N : w[n] = IF n = 0 THEN S ELSE Further(link, w[n - 1])
                 /\ Reach(link, S) = w[N]
    BY SMTT(60), ReachIsWalk
  <1> HIDE DEF N
  <1>2. \A X \in SUBSET Tx : X \subseteq Further(link, X) /\ Further(link, X) \subseteq Tx
    BY DEF Further
  <1>3. \A n \in 0 .. N : S \subseteq w[n] /\ w[n] \subseteq Tx
    <2> DEFINE T == {n \in 0 .. N : ~(S \subseteq w[n] /\ w[n] \subseteq Tx)}
    <2> SUFFICES ASSUME T # {} PROVE FALSE
      OBVIOUS
    <2>1. PICK n \in T : \A j \in T : n <= j
      <3>1. T \subseteq Nat
        BY SMTT(60)
      <3> QED
        BY <3>1, LeastNatural
    <2>2. n \in 0 .. N /\ ~(S \subseteq w[n] /\ w[n] \subseteq Tx)
      OBVIOUS
    <2>3. n # 0
      BY <1>1, <2>2
    <2>4. n - 1 \in 0 .. N /\ n - 1 \notin T /\ w[n] = Further(link, w[n - 1])
      BY SMTT(60), <1>0, <1>1, <2>1, <2>2, <2>3
    <2>5. S \subseteq w[n - 1] /\ w[n - 1] \subseteq Tx
      BY <2>4
    <2> QED
      BY SMTT(60), <1>2, <2>2, <2>4, <2>5
  <1>4. Further(link, w[N]) = w[N]
    <2> SUFFICES ASSUME Further(link, w[N]) # w[N] PROVE FALSE
      OBVIOUS
    <2>1. \A n \in 0 .. N : n # 0 => w[n] = Further(link, w[n - 1])
      BY <1>1
    <2>2. \A n \in 0 .. N : Further(link, w[n]) = w[n] => w[N] = w[n]
      BY SMTT(60), <1>0, <2>1, WalkStops
    <2>3. \A n \in 0 .. N : n # 0 => w[n - 1] \subseteq w[n] /\ w[n - 1] # w[n]
      <3> SUFFICES ASSUME NEW n \in 0 .. N, n # 0 PROVE w[n - 1] \subseteq w[n] /\ w[n - 1] # w[n]
        OBVIOUS
      <3>1. n - 1 \in 0 .. N
        BY SMTT(60), <1>0
      <3> QED
        BY SMTT(60), <3>1, <1>2, <1>3, <2>1, <2>2
    <2>4. Cardinality(w[N]) >= N
      BY <1>0, <1>3, <2>3, WalkGrows
    <2>5. w[N] \in SUBSET Tx
      BY SMTT(60), <1>0, <1>3
    <2>6. w[N] # Tx
      BY <1>2, <2>5
    <2>7. Cardinality(w[N]) <= N /\ Cardinality(w[N]) # N /\ Cardinality(w[N]) \in Nat
      BY <2>5, <2>6, MempoolAssumption, FS_Subset, FS_CardinalityType DEF N
    <2> QED
      BY SMTT(60), <1>0, <2>4, <2>7
  <1>5. Closed(link, w[N])
    BY <1>4 DEF Closed, Further
  <1> QED
    BY SMTT(60), <1>0, <1>1, <1>3, <1>5

(* ... and no larger than it has to be. *)
LEMMA ReachLeast ==
    ASSUME NEW link \in [Tx -> SUBSET Tx], NEW S \in SUBSET Tx,
           NEW C, S \subseteq C, Closed(link, C)
    PROVE  Reach(link, S) \subseteq C
  <1> DEFINE N == Cardinality(Tx)
  <1>0. N \in Nat
    BY MempoolAssumption, FS_CardinalityType
  <1>1. PICK w : /\ \A n \in 0 .. N : w[n] = IF n = 0 THEN S ELSE Further(link, w[n - 1])
                 /\ Reach(link, S) = w[N]
    BY SMTT(60), ReachIsWalk
  <1> HIDE DEF N
  <1>2. \A X \in SUBSET C : Further(link, X) \subseteq C
    BY DEF Further, Closed
  <1> DEFINE T == {n \in 0 .. N : ~(w[n] \subseteq C)}
  <1>3. T = {}
    <2> SUFFICES ASSUME T # {} PROVE FALSE
      OBVIOUS
    <2>1. PICK n \in T : \A j \in T : n <= j
      <3>1. T \subseteq Nat
        BY SMTT(60)
      <3> QED
        BY <3>1, LeastNatural
    <2>2. n \in 0 .. N /\ ~(w[n] \subseteq C)
      OBVIOUS
    <2>3. n # 0
      BY <1>1, <2>2
    <2>4. n - 1 \in 0 .. N /\ n - 1 \notin T /\ w[n] = Further(link, w[n - 1])
      BY SMTT(60), <1>0, <1>1, <2>1, <2>2, <2>3
    <2> QED
      BY <1>2, <2>2, <2>4
  <1> QED
    BY SMTT(60), <1>0, <1>1, <1>3

Links == [Tx -> SUBSET Tx]

Converse(f, g) == \A p, t \in Tx : t \in f[p] <=> p \in g[t]

LEMMA ReachOne ==
    ASSUME NEW f \in Links, NEW u \in Tx
    PROVE  /\ u \in Reach(f, {u}) /\ Reach(f, {u}) \subseteq Tx
           /\ Closed(f, Reach(f, {u}))
  BY ReachClosed DEF Links

LEMMA ReachOneLeast ==
    ASSUME NEW f \in Links, NEW u \in Tx, NEW C, u \in C, Closed(f, C)
    PROVE  Reach(f, {u}) \subseteq C
  BY ReachLeast DEF Links

(* What is reached from something reached is reached. *)
LEMMA ReachTrans ==
    ASSUME NEW f \in Links, NEW S \in SUBSET Tx, NEW x \in Reach(f, S)
    PROVE  x \in Tx /\ Reach(f, {x}) \subseteq Reach(f, S)
  <1>1. Reach(f, S) \subseteq Tx /\ Closed(f, Reach(f, S))
    BY ReachClosed DEF Links
  <1> QED
    BY SMTT(60), <1>1, ReachLeast DEF Links

(* The walk from one transaction, first step first. *)
LEMMA ReachFrom ==
    ASSUME NEW f \in Links, NEW r \in Tx
    PROVE  Reach(f, {r}) = {r} \cup Reach(f, f[r])
  <1>1. f[r] \in SUBSET Tx
    BY DEF Links
  <1>2. f[r] \subseteq Reach(f, f[r]) /\ Closed(f, Reach(f, f[r]))
    BY <1>1, ReachClosed DEF Links
  <1>3. r \in Reach(f, {r}) /\ Closed(f, Reach(f, {r}))
    BY ReachClosed DEF Links
  <1>4. Closed(f, {r} \cup Reach(f, f[r]))
    BY <1>2 DEF Closed
  <1>5. Reach(f, {r}) \subseteq {r} \cup Reach(f, f[r])
    BY <1>4, ReachLeast DEF Links
  <1>6. f[r] \subseteq Reach(f, {r})
    BY <1>3 DEF Closed
  <1>7. Reach(f, f[r]) \subseteq Reach(f, {r})
    BY <1>1, <1>3, <1>6, ReachLeast DEF Links
  <1> QED
    BY <1>3, <1>5, <1>7

(* A walk along f from t to u is a walk along the converse of f from u to t. *)
LEMMA ReachBackOne ==
    ASSUME NEW f \in Links, NEW g \in Links, Converse(f, g),
           NEW t \in Tx, NEW u \in Reach(f, {t})
    PROVE  t \in Reach(g, {u})
  <1> DEFINE C == {x \in Tx : t \in Reach(g, {x})}
  <1>1. t \in C
    BY ReachClosed DEF Links
  <1>2. Closed(f, C)
    <2> SUFFICES ASSUME NEW x \in C, NEW y \in f[x] PROVE y \in C
      BY DEF Closed
    <2>1. x \in Tx /\ y \in Tx /\ x \in g[y]
      BY DEF Links, Converse
    <2>2. y \in Reach(g, {y}) /\ Closed(g, Reach(g, {y}))
      BY <2>1, ReachClosed DEF Links
    <2>3. x \in Reach(g, {y})
      BY <2>1, <2>2 DEF Closed
    <2>4. Reach(g, {x}) \subseteq Reach(g, {y})
      BY <2>1, <2>3, ReachTrans
    <2> QED
      BY <2>1, <2>4
  <1> HIDE DEF C
  <1>3. Reach(f, {t}) \subseteq C
    BY <1>1, <1>2, ReachLeast DEF Links
  <1> QED
    BY <1>3 DEF C

LEMMA ReachBack ==
    ASSUME NEW f \in Links, NEW g \in Links, Converse(f, g), NEW t \in Tx, NEW u \in Tx
    PROVE  u \in Reach(f, {t}) <=> t \in Reach(g, {u})
  <1>1. Converse(g, f)
    BY DEF Converse
  <1> QED
    BY <1>1, ReachBackOne

(* Taking out a set S that is closed under f: what f reached before, less S. *)
Without(f, S) == [u \in Tx |-> IF u \in S THEN {} ELSE f[u] \ S]

LEMMA CutForward ==
    ASSUME NEW f \in Links, NEW S \in SUBSET Tx, Closed(f, S), NEW u \in Tx \ S
    PROVE  Reach(Without(f, S), {u}) = Reach(f, {u}) \ S
  <1> DEFINE g == Without(f, S)
  <1>1. g \in Links
    BY SMTT(30) DEF Links, Without
  <1>1a. \A x \in Tx \ S : g[x] = f[x] \ S
    BY SMTT(30) DEF Without
  <1> HIDE DEF g
  <1>2. u \in Reach(f, {u}) /\ Reach(f, {u}) \subseteq Tx /\ Closed(f, Reach(f, {u}))
    BY ReachClosed DEF Links
  <1>3. u \in Reach(g, {u}) /\ Reach(g, {u}) \subseteq Tx /\ Closed(g, Reach(g, {u}))
    BY <1>1, ReachClosed DEF Links
  <1>5. Reach(g, {u}) \subseteq Reach(f, {u}) \ S
    <2> DEFINE C == Reach(f, {u}) \ S
    <2>1. u \in C /\ Closed(g, C)
      BY SMTT(60), <1>1a, <1>2 DEF Closed
    <2> HIDE DEF C
    <2>2. Reach(g, {u}) \subseteq C
      BY <1>1, <2>1, ReachOneLeast
    <2> QED
      BY <2>2 DEF C
  <1>6. Closed(f, Reach(g, {u}) \cup S)
    <2> SUFFICES ASSUME NEW x \in Reach(g, {u}) \cup S, NEW y \in f[x]
                 PROVE  y \in Reach(g, {u}) \cup S
      BY DEF Closed
    <2>1. CASE x \in S
      BY <2>1 DEF Closed
    <2>2. CASE x \notin S
      <3>1. x \in Tx \ S /\ x \in Reach(g, {u})
        BY <1>3, <2>2
      <3>2. y \notin S => y \in g[x]
        BY <1>1a, <3>1
      <3> QED
        BY <1>3, <3>1, <3>2 DEF Closed
    <2> QED
      BY <2>1, <2>2
  <1>7. Reach(f, {u}) \subseteq Reach(g, {u}) \cup S
    BY <1>3, <1>6, ReachOneLeast
  <1> QED
    BY <1>5, <1>7 DEF g

(* ... and what the converse reached from outside S is as before. *)
LEMMA CutBackward ==
    ASSUME NEW f \in Links, NEW g \in Links, Converse(f, g),
           NEW S \in SUBSET Tx, Closed(f, S), NEW u \in Tx \ S
    PROVE  Reach(Without(g, S), {u}) = Reach(g, {u})
  <1> DEFINE h == Without(g, S)
  <1>1. h \in Links /\ \A x \in Tx : h[x] \subseteq g[x]
    BY DEF Links, Without
  <1>2a. \A x \in Tx \ S : g[x] \cap S = {}
    BY DEF Links, Converse, Closed
  <1>2. \A x \in Tx \ S : h[x] = g[x]
    <2>1. \A x \in Tx \ S : h[x] = g[x] \ S
      BY SMTT(30) DEF Without
    <2> QED
      BY <1>2a, <2>1
  <1> HIDE DEF h
  <1>3. u \in Reach(g, {u}) /\ Reach(g, {u}) \subseteq Tx /\ Closed(g, Reach(g, {u}))
    BY ReachClosed DEF Links
  <1>4. u \in Reach(h, {u}) /\ Reach(h, {u}) \subseteq Tx /\ Closed(h, Reach(h, {u}))
    BY <1>1, ReachClosed DEF Links
  <1>5. Closed(h, Reach(g, {u}))
    BY <1>1, <1>3 DEF Closed
  <1>6. Reach(h, {u}) \subseteq Reach(g, {u})
    BY SMTT(60), <1>1, <1>3, <1>5, ReachLeast DEF Links
  <1>8. Reach(g, {u}) \subseteq Reach(h, {u})
    <2> DEFINE C == Reach(h, {u}) \ S
    <2>1. u \in C /\ Closed(g, C)
      BY <1>2, <1>2a, <1>4 DEF Closed
    <2> HIDE DEF C
    <2>2. Reach(g, {u}) \subseteq C
      BY <2>1, ReachOneLeast
    <2> QED
      BY <2>2 DEF C
  <1> QED
    BY <1>6, <1>8 DEF h
-----------------------------------------------------------------------------
(* Removing entries. *)

(* The links stay within the pool, and every one is kept at both its ends. *)
GraphOK(m) ==
    /\ m \in PoolRecord
    /\ Converse(m.children, m.parents)
    /\ \A u \in Tx : m.parents[u] \subseteq m.pool /\ (u \notin m.pool => m.parents[u] = {})

LEMMA GraphFacts ==
    ASSUME NEW m, GraphOK(m)
    PROVE  /\ m.pool \in SUBSET Tx /\ m.parents \in Links /\ m.children \in Links
           /\ m.anc \in [Tx -> Nat] /\ m.desc \in [Tx -> Nat]
           /\ Converse(m.children, m.parents) /\ Converse(m.parents, m.children)
           /\ \A u \in Tx : m.children[u] \subseteq m.pool /\ (u \notin m.pool => m.children[u] = {})
           /\ Closed(m.parents, m.pool) /\ Closed(m.children, m.pool)
  <1>1. /\ m.pool \in SUBSET Tx /\ m.parents \in Links /\ m.children \in Links
        /\ m.anc \in [Tx -> Nat] /\ m.desc \in [Tx -> Nat]
    BY DEF GraphOK, PoolRecord, Links
  <1>2. Converse(m.children, m.parents) /\ Converse(m.parents, m.children)
    BY DEF GraphOK, Converse
  <1>3. \A u \in Tx : m.children[u] \subseteq m.pool /\ (u \notin m.pool => m.children[u] = {})
    BY <1>1, <1>2 DEF GraphOK, Converse, Links
  <1> QED
    BY <1>1, <1>2, <1>3 DEF GraphOK, Closed

(* An ancestor has what it is an ancestor of as a descendant. *)
LEMMA AncDes ==
    ASSUME NEW m, GraphOK(m), NEW t \in Tx, NEW u \in Tx
    PROVE  u \in Des(m, t) <=> t \in Anc(m, u)
  BY GraphFacts, ReachBack DEF Anc, Des

(* Ancestors and descendants are finitely many entries. *)
LEMMA AncDesIn ==
    ASSUME NEW m, GraphOK(m), NEW t \in Tx
    PROVE  /\ t \in Anc(m, t) /\ t \in Des(m, t)
           /\ Anc(m, t) \subseteq Tx /\ Des(m, t) \subseteq Tx
           /\ Closed(m.parents, Anc(m, t)) /\ Closed(m.children, Des(m, t))
           /\ t \in m.pool => Anc(m, t) \subseteq m.pool /\ Des(m, t) \subseteq m.pool
           /\ IsFiniteSet(Anc(m, t)) /\ IsFiniteSet(Des(m, t))
           /\ Cardinality(Anc(m, t)) \in Nat /\ Cardinality(Des(m, t)) \in Nat
  <1>1. /\ m.parents \in Links /\ m.children \in Links
        /\ Closed(m.parents, m.pool) /\ Closed(m.children, m.pool)
    BY GraphFacts
  <1>2. /\ t \in Anc(m, t) /\ Anc(m, t) \subseteq Tx /\ Closed(m.parents, Anc(m, t))
        /\ t \in Des(m, t) /\ Des(m, t) \subseteq Tx /\ Closed(m.children, Des(m, t))
    BY <1>1, ReachOne DEF Anc, Des
  <1>3. t \in m.pool => Anc(m, t) \subseteq m.pool /\ Des(m, t) \subseteq m.pool
    BY <1>1, ReachOneLeast DEF Anc, Des
  <1>4. IsFiniteSet(Anc(m, t)) /\ IsFiniteSet(Des(m, t))
    BY <1>2, MempoolAssumption, FS_Subset
  <1> QED
    BY <1>2, <1>3, <1>4, FS_CardinalityType

(* What RemoveStaged leaves. *)
Left(n, m, S) ==
    /\ n.pool = m.pool \ S
    /\ n.parents = Without(m.parents, S) /\ n.children = Without(m.children, S)
    /\ n = [pool |-> n.pool, parents |-> n.parents, children |-> n.children,
            anc |-> n.anc, desc |-> n.desc]

LowerDesc(n, m, S) ==
    n.desc = [u \in Tx |-> IF u \in S THEN 0
                 ELSE m.desc[u] - Cardinality({r \in S : u \in Reach(m.parents, m.parents[r])})]

LowerAnc(n, m, S) ==
    n.anc = [u \in Tx |-> IF u \in S THEN 0
                 ELSE m.anc[u] - Cardinality({r \in S : u \in Des(m, r) \ {r}})]

SameAnc(n, m, S) == n.anc = [u \in Tx |-> IF u \in S THEN 0 ELSE m.anc[u]]

LEMMA RemoveStagedSameAnc ==
    ASSUME NEW m, NEW S
    PROVE  LET n == RemoveStaged(m, S, FALSE)
           IN  Left(n, m, S) /\ LowerDesc(n, m, S) /\ SameAnc(n, m, S)
  <1> DEFINE below == [r \in S |-> Des(m, r) \ {r}]
             above == [r \in S |-> Reach(m.parents, m.parents[r])]
             o == UpdateForRemoveFromMempool(m, S, FALSE)
             n == RemoveStaged(m, S, FALSE)
  <1>1. \A u : /\ {r \in S : u \in below[r]} = {r \in S : u \in Des(m, r) \ {r}}
               /\ {r \in S : u \in above[r]} = {r \in S : u \in Reach(m.parents, m.parents[r])}
    OBVIOUS
  <1>2. o = [pool     |-> m.pool,
             parents  |-> [u \in Tx |-> m.parents[u] \ S],
             children |-> [u \in Tx |-> m.children[u] \ S],
             anc      |-> [u \in Tx |->
                              m.anc[u]],
             desc     |-> [u \in Tx |-> m.desc[u] - Cardinality({r \in S : u \in above[r]})]]
    BY DEF UpdateForRemoveFromMempool, Des, CalculateDescendants
  <1> HIDE DEF below, above
  <1>3. n = [pool     |-> o.pool \ S,
             parents  |-> [u \in Tx |-> IF u \in S THEN {} ELSE o.parents[u]],
             children |-> [u \in Tx |-> IF u \in S THEN {} ELSE o.children[u]],
             anc      |-> [u \in Tx |-> IF u \in S THEN 0 ELSE o.anc[u]],
             desc     |-> [u \in Tx |-> IF u \in S THEN 0 ELSE o.desc[u]]]
    BY DEF RemoveStaged, removeUnchecked
  <1> HIDE DEF o, n
  <1>4. n.pool = m.pool \ S
    BY <1>2, <1>3
  <1>5. n.parents = Without(m.parents, S)
    BY <1>2, <1>3 DEF Without
  <1>6. n.children = Without(m.children, S)
    BY <1>2, <1>3 DEF Without
  <1>7. SameAnc(n, m, S)
    <2>1. n.anc = [u \in Tx |-> IF u \in S THEN 0 ELSE o.anc[u]]
      BY <1>3
    <2>2. \A u \in Tx : o.anc[u] = m.anc[u]
      BY <1>2
    <2> QED
      BY <2>1, <2>2 DEF SameAnc
  <1>8. LowerDesc(n, m, S)
    <2>1. n.desc = [u \in Tx |-> IF u \in S THEN 0 ELSE o.desc[u]]
      BY <1>3
    <2>2. o.desc = [u \in Tx |-> m.desc[u] - Cardinality({r \in S : u \in above[r]})]
      BY <1>2
    <2>3. \A u \in Tx : o.desc[u] = m.desc[u] - Cardinality({r \in S : u \in Reach(m.parents, m.parents[r])})
      BY <1>1, <2>2
    <2> QED
      BY <2>1, <2>3 DEF LowerDesc
  <1>9. n = [pool |-> n.pool, parents |-> n.parents, children |-> n.children,
             anc |-> n.anc, desc |-> n.desc]
    BY <1>3
  <1>10. Left(n, m, S)
    BY <1>4, <1>5, <1>6, <1>9 DEF Left
  <1> QED
    BY <1>7, <1>8, <1>10 DEF n

LEMMA RemoveStagedLowerAnc ==
    ASSUME NEW m, NEW S
    PROVE  LET n == RemoveStaged(m, S, TRUE)
           IN  Left(n, m, S) /\ LowerDesc(n, m, S) /\ LowerAnc(n, m, S)
  <1> DEFINE below == [r \in S |-> Des(m, r) \ {r}]
             above == [r \in S |-> Reach(m.parents, m.parents[r])]
             o == UpdateForRemoveFromMempool(m, S, TRUE)
             n == RemoveStaged(m, S, TRUE)
  <1>1. \A u : /\ {r \in S : u \in below[r]} = {r \in S : u \in Des(m, r) \ {r}}
               /\ {r \in S : u \in above[r]} = {r \in S : u \in Reach(m.parents, m.parents[r])}
    OBVIOUS
  <1>2. o = [pool     |-> m.pool,
             parents  |-> [u \in Tx |-> m.parents[u] \ S],
             children |-> [u \in Tx |-> m.children[u] \ S],
             anc      |-> [u \in Tx |->
                              m.anc[u] - Cardinality({r \in S : u \in below[r]})],
             desc     |-> [u \in Tx |-> m.desc[u] - Cardinality({r \in S : u \in above[r]})]]
    BY DEF UpdateForRemoveFromMempool, Des, CalculateDescendants
  <1> HIDE DEF below, above
  <1>3. n = [pool     |-> o.pool \ S,
             parents  |-> [u \in Tx |-> IF u \in S THEN {} ELSE o.parents[u]],
             children |-> [u \in Tx |-> IF u \in S THEN {} ELSE o.children[u]],
             anc      |-> [u \in Tx |-> IF u \in S THEN 0 ELSE o.anc[u]],
             desc     |-> [u \in Tx |-> IF u \in S THEN 0 ELSE o.desc[u]]]
    BY DEF RemoveStaged, removeUnchecked
  <1> HIDE DEF o, n
  <1>4. n.pool = m.pool \ S
    BY <1>2, <1>3
  <1>5. n.parents = Without(m.parents, S)
    BY <1>2, <1>3 DEF Without
  <1>6. n.children = Without(m.children, S)
    BY <1>2, <1>3 DEF Without
  <1>7. LowerAnc(n, m, S)
    <2>1. n.anc = [u \in Tx |-> IF u \in S THEN 0 ELSE o.anc[u]]
      BY <1>3
    <2>2. o.anc = [u \in Tx |-> m.anc[u] - Cardinality({r \in S : u \in below[r]})]
      BY <1>2
    <2>3. \A u \in Tx : o.anc[u] = m.anc[u] - Cardinality({r \in S : u \in Des(m, r) \ {r}})
      BY <1>1, <2>2
    <2> QED
      BY <2>1, <2>3 DEF LowerAnc
  <1>8. LowerDesc(n, m, S)
    <2>1. n.desc = [u \in Tx |-> IF u \in S THEN 0 ELSE o.desc[u]]
      BY <1>3
    <2>2. o.desc = [u \in Tx |-> m.desc[u] - Cardinality({r \in S : u \in above[r]})]
      BY <1>2
    <2>3. \A u \in Tx : o.desc[u] = m.desc[u] - Cardinality({r \in S : u \in Reach(m.parents, m.parents[r])})
      BY <1>1, <2>2
    <2> QED
      BY <2>1, <2>3 DEF LowerDesc
  <1>9. n = [pool |-> n.pool, parents |-> n.parents, children |-> n.children,
             anc |-> n.anc, desc |-> n.desc]
    BY <1>3
  <1>10. Left(n, m, S)
    BY <1>4, <1>5, <1>6, <1>9 DEF Left
  <1> QED
    BY <1>7, <1>8, <1>10 DEF n

(* The entries whose removal lowers the descendant count of u are its       *)
(* descendants among them; the same for ancestors.                          *)
LEMMA AboveBelow ==
    ASSUME NEW m, GraphOK(m), NEW S \in SUBSET Tx, NEW u \in Tx \ S
    PROVE  /\ {r \in S : u \in Reach(m.parents, m.parents[r])} = Des(m, u) \cap S
           /\ {r \in S : u \in Des(m, r) \ {r}} = Anc(m, u) \cap S
  <1>1. ASSUME NEW r \in S
        PROVE  /\ u \in Reach(m.parents, m.parents[r]) <=> r \in Des(m, u)
               /\ u \in Des(m, r) \ {r} <=> r \in Anc(m, u)
    <2>1. r \in Tx /\ r # u /\ m.parents \in Links
      BY GraphFacts
    <2>2. Anc(m, r) = {r} \cup Reach(m.parents, m.parents[r])
      BY <2>1, ReachFrom DEF Anc
    <2>3. /\ u \in Anc(m, r) <=> r \in Des(m, u)
          /\ u \in Des(m, r) <=> r \in Anc(m, u)
      BY <2>1, AncDes
    <2> QED
      BY <2>1, <2>2, <2>3
  <1> QED
    BY <1>1

LEMMA WithoutLinks ==
    ASSUME NEW m, GraphOK(m), NEW S \in SUBSET Tx
    PROVE  /\ Without(m.parents, S) \in Links /\ Without(m.children, S) \in Links
           /\ Converse(Without(m.children, S), Without(m.parents, S))
           /\ \A u \in Tx : /\ Without(m.parents, S)[u] \subseteq m.pool \ S
                            /\ u \notin m.pool \ S => Without(m.parents, S)[u] = {}
  <1>1. /\ m.parents \in Links /\ m.children \in Links /\ Converse(m.children, m.parents)
        /\ \A u \in Tx : m.parents[u] \subseteq m.pool /\ (u \notin m.pool => m.parents[u] = {})
    BY GraphFacts DEF GraphOK
  <1>2. \A u \in Tx : /\ Without(m.parents, S)[u] = IF u \in S THEN {} ELSE m.parents[u] \ S
                      /\ Without(m.children, S)[u] = IF u \in S THEN {} ELSE m.children[u] \ S
    BY DEF Without
  <1>3. Without(m.parents, S) \in Links /\ Without(m.children, S) \in Links
    BY <1>1 DEF Without, Links
  <1>4. Converse(Without(m.children, S), Without(m.parents, S))
    <2> SUFFICES ASSUME NEW p \in Tx, NEW t \in Tx
                 PROVE  t \in Without(m.children, S)[p] <=> p \in Without(m.parents, S)[t]
      BY DEF Converse
    <2>1. t \in m.children[p] <=> p \in m.parents[t]
      BY <1>1 DEF Converse
    <2>2. t \in Without(m.children, S)[p] <=> p \notin S /\ t \notin S /\ t \in m.children[p]
      BY <1>2
    <2>3. p \in Without(m.parents, S)[t] <=> t \notin S /\ p \notin S /\ p \in m.parents[t]
      BY <1>2
    <2> QED
      BY <2>1, <2>2, <2>3
  <1>5. \A u \in Tx : /\ Without(m.parents, S)[u] \subseteq m.pool \ S
                      /\ u \notin m.pool \ S => Without(m.parents, S)[u] = {}
    BY <1>1, <1>2
  <1> QED
    BY <1>3, <1>4, <1>5

(* Entries that go with all that spends them leave the counts exact. *)
LEMMA RemoveDown ==
    ASSUME NEW m, GraphOK(m), CountOK(m),
           NEW S \in SUBSET Tx, S \subseteq m.pool, Closed(m.children, S)
    PROVE  GraphOK(RemoveStaged(m, S, FALSE)) /\ CountOK(RemoveStaged(m, S, FALSE))
  <1> DEFINE n == RemoveStaged(m, S, FALSE)
  <1>0. Left(n, m, S) /\ LowerDesc(n, m, S) /\ SameAnc(n, m, S)
    BY RemoveStagedSameAnc
  <1> HIDE DEF n
  <1>1. /\ n.pool = m.pool \ S
        /\ n.parents = Without(m.parents, S) /\ n.children = Without(m.children, S)
        /\ n = [pool |-> n.pool, parents |-> n.parents, children |-> n.children,
                anc |-> n.anc, desc |-> n.desc]
    BY <1>0 DEF Left
  <1>3. /\ m.pool \in SUBSET Tx /\ m.parents \in Links /\ m.children \in Links
        /\ Converse(m.children, m.parents)
    BY GraphFacts
  <1>4. ASSUME NEW u \in Tx \ S PROVE Anc(n, u) = Anc(m, u) /\ Des(n, u) = Des(m, u) \ S
    <2>1. Reach(Without(m.children, S), {u}) = Reach(m.children, {u}) \ S
      BY <1>3, CutForward
    <2>2. Reach(Without(m.parents, S), {u}) = Reach(m.parents, {u})
      BY <1>3, CutBackward
    <2> QED
      BY <1>1, <2>1, <2>2 DEF Anc, Des
  <1>5. ASSUME NEW u \in Tx
        PROVE  /\ n.anc[u] = IF u \in n.pool THEN Cardinality(Anc(n, u)) ELSE 0
               /\ n.desc[u] = IF u \in n.pool THEN Cardinality(Des(n, u)) ELSE 0
               /\ n.anc[u] \in Nat /\ n.desc[u] \in Nat
    <2>1. CASE u \in S
      BY SMTT(60), <1>0, <1>1, <2>1 DEF SameAnc, LowerDesc
    <2>2. CASE u \notin S
      <3>1. /\ n.anc[u] = m.anc[u]
            /\ n.desc[u] = m.desc[u] - Cardinality(Des(m, u) \cap S)
        BY SMTT(60), <1>0, <2>2, AboveBelow DEF SameAnc, LowerDesc
      <3>2. Anc(n, u) = Anc(m, u) /\ Des(n, u) = Des(m, u) \ S
        BY <1>4, <2>2
      <3>3. CASE u \in m.pool
        <4>1. m.anc[u] = Cardinality(Anc(m, u)) /\ m.desc[u] = Cardinality(Des(m, u))
          BY <3>3 DEF CountOK
        <4>2. IsFiniteSet(Des(m, u)) /\ Cardinality(Anc(m, u)) \in Nat
          BY AncDesIn
        <4>3. /\ IsFiniteSet(Des(m, u) \ S)
              /\ Cardinality(Des(m, u) \ S) = Cardinality(Des(m, u)) - Cardinality(Des(m, u) \cap S)
          BY <4>2, FS_Difference
        <4>4. Cardinality(Des(m, u) \ S) \in Nat
          BY <4>3, FS_CardinalityType
        <4> QED
          BY <1>1, <2>2, <3>1, <3>2, <3>3, <4>1, <4>2, <4>3, <4>4
      <3>4. CASE u \notin m.pool
        <4>1. Des(m, u) \cap S = {}
          BY <3>4, AncDes, AncDesIn
        <4>2. m.anc[u] = 0 /\ m.desc[u] = 0
          BY <3>4 DEF CountOK
        <4>3. Cardinality(Des(m, u) \cap S) = 0
          BY <4>1, FS_EmptySet
        <4> QED
          BY SMTT(60), <1>1, <3>1, <3>4, <4>2, <4>3
      <3> QED
        BY <3>3, <3>4
    <2> QED
      BY <2>1, <2>2
  <1>6. n.anc \in [Tx -> Nat] /\ n.desc \in [Tx -> Nat]
    BY <1>0, <1>5 DEF SameAnc, LowerDesc
  <1>7. n \in PoolRecord
    BY SMTT(60), <1>1, <1>3, <1>6, WithoutLinks DEF PoolRecord, Links
  <1>8. GraphOK(n)
    BY SMTT(60), <1>1, <1>7, WithoutLinks DEF GraphOK
  <1>9. CountOK(n)
    BY <1>5 DEF CountOK
  <1> QED
    BY <1>8, <1>9 DEF n

(* So does an entry on its own that has no parent in the pool, when the     *)
(* counts of its descendants are lowered.                                   *)
LEMMA RemoveRoot ==
    ASSUME NEW m, GraphOK(m), CountOK(m), NEW t \in m.pool, m.parents[t] = {}
    PROVE  GraphOK(RemoveStaged(m, {t}, TRUE)) /\ CountOK(RemoveStaged(m, {t}, TRUE))
  <1> DEFINE n == RemoveStaged(m, {t}, TRUE)
             S == {t}
  <1>0. Left(n, m, S) /\ LowerDesc(n, m, S) /\ LowerAnc(n, m, S)
    BY RemoveStagedLowerAnc
  <1>1. /\ n.pool = m.pool \ S
        /\ n.parents = Without(m.parents, S) /\ n.children = Without(m.children, S)
        /\ n = [pool |-> n.pool, parents |-> n.parents, children |-> n.children,
                anc |-> n.anc, desc |-> n.desc]
    BY <1>0 DEF Left
  <1>3. /\ m.pool \in SUBSET Tx /\ m.parents \in Links /\ m.children \in Links
        /\ Converse(m.parents, m.children)
    BY GraphFacts
  <1>4. S \in SUBSET Tx /\ S \subseteq m.pool /\ Closed(m.parents, S) /\ \A u : u \in S <=> u = t
    BY <1>3 DEF Closed
  <1> HIDE DEF n, S
  <1>5. ASSUME NEW u \in Tx \ S PROVE Anc(n, u) = Anc(m, u) \ S /\ Des(n, u) = Des(m, u)
    <2>1. Reach(Without(m.parents, S), {u}) = Reach(m.parents, {u}) \ S
      BY <1>3, <1>4, CutForward
    <2>2. Reach(Without(m.children, S), {u}) = Reach(m.children, {u})
      BY SMTT(60), <1>3, <1>4, CutBackward
    <2> QED
      BY <1>1, <2>1, <2>2 DEF Anc, Des
  <1>6. Anc(m, t) \subseteq S
    BY <1>3, <1>4, ReachOneLeast DEF Anc
  <1>7. ASSUME NEW u \in Tx
        PROVE  /\ n.anc[u] = IF u \in n.pool THEN Cardinality(Anc(n, u)) ELSE 0
               /\ n.desc[u] = IF u \in n.pool THEN Cardinality(Des(n, u)) ELSE 0
               /\ n.anc[u] \in Nat /\ n.desc[u] \in Nat
    <2>1. CASE u \in S
      BY SMTT(60), <1>0, <1>1, <2>1 DEF LowerAnc, LowerDesc
    <2>2. CASE u \notin S
      <3>1. /\ n.anc[u] = m.anc[u] - Cardinality(Anc(m, u) \cap S)
            /\ n.desc[u] = m.desc[u] - Cardinality(Des(m, u) \cap S)
        BY SMTT(60), <1>0, <1>4, <2>2, AboveBelow DEF LowerAnc, LowerDesc
      <3>2. Anc(n, u) = Anc(m, u) \ S /\ Des(n, u) = Des(m, u)
        BY <1>5, <2>2
      <3>3. Des(m, u) \cap S = {}
        <4>1. t \in Tx /\ (t \in Des(m, u) <=> u \in Anc(m, t))
          BY <1>3, <1>4, AncDes
        <4> QED
          BY SMTT(60), <1>4, <1>6, <2>2, <4>1
      <3>4. n.desc[u] = m.desc[u]
        <4>1. m.desc[u] \in Nat
          BY SMTT(60), GraphFacts
        <4>2. Cardinality(Des(m, u) \cap S) = 0
          BY <3>3, FS_EmptySet
        <4> QED
          BY SMTT(60), <3>1, <4>1, <4>2
      <3>5. CASE u \in m.pool
        <4>1. m.anc[u] = Cardinality(Anc(m, u)) /\ m.desc[u] = Cardinality(Des(m, u))
          BY <3>5 DEF CountOK
        <4>2. IsFiniteSet(Anc(m, u)) /\ Cardinality(Des(m, u)) \in Nat
          BY AncDesIn
        <4>3. /\ IsFiniteSet(Anc(m, u) \ S)
              /\ Cardinality(Anc(m, u) \ S) = Cardinality(Anc(m, u)) - Cardinality(Anc(m, u) \cap S)
          BY <4>2, FS_Difference
        <4>4. Cardinality(Anc(m, u) \ S) \in Nat
          BY <4>3, FS_CardinalityType
        <4> QED
          BY <1>1, <2>2, <3>1, <3>2, <3>4, <3>5, <4>1, <4>2, <4>3, <4>4
      <3>6. CASE u \notin m.pool
        <4>1. Anc(m, u) \cap S = {}
          <5>1. t \in Tx /\ (t \in Anc(m, u) <=> u \in Des(m, t)) /\ Des(m, t) \subseteq m.pool
            BY <1>3, <1>4, AncDes, AncDesIn
          <5> QED
            BY SMTT(60), <1>4, <3>6, <5>1
        <4>2. m.anc[u] = 0 /\ m.desc[u] = 0
          BY <3>6 DEF CountOK
        <4>3. Cardinality(Anc(m, u) \cap S) = 0
          BY <4>1, FS_EmptySet
        <4> QED
          BY SMTT(60), <1>1, <3>1, <3>4, <3>6, <4>2, <4>3
      <3> QED
        BY <3>5, <3>6
    <2> QED
      BY <2>1, <2>2
  <1>8. n.anc \in [Tx -> Nat] /\ n.desc \in [Tx -> Nat]
    BY <1>0, <1>7 DEF LowerAnc, LowerDesc
  <1>9. n \in PoolRecord
    BY SMTT(60), <1>1, <1>3, <1>4, <1>8, WithoutLinks DEF PoolRecord, Links
  <1>10. GraphOK(n)
    <2>1. /\ Converse(n.children, n.parents)
          /\ \A u \in Tx : n.parents[u] \subseteq n.pool /\ (u \notin n.pool => n.parents[u] = {})
      <3>1. /\ Converse(Without(m.children, S), Without(m.parents, S))
            /\ \A u \in Tx : /\ Without(m.parents, S)[u] \subseteq m.pool \ S
                             /\ u \notin m.pool \ S => Without(m.parents, S)[u] = {}
        BY <1>4, WithoutLinks
      <3> QED
        BY <1>1, <3>1
    <2> QED
      BY <1>9, <2>1 DEF GraphOK
  <1>11. CountOK(n)
    BY <1>7 DEF CountOK
  <1> QED
    BY <1>10, <1>11 DEF n
-----------------------------------------------------------------------------
(* Adding an entry. *)

(* Links that agree on a closed set reach the same from within it. *)
LEMMA SameReach ==
    ASSUME NEW f \in Links, NEW g \in Links, NEW X \in SUBSET Tx, Closed(f, X),
           \A x \in X : f[x] = g[x], NEW S \in SUBSET X
    PROVE  Reach(g, S) = Reach(f, S) /\ Reach(f, S) \subseteq X
  <1>0. S \in SUBSET Tx /\ f \in [Tx -> SUBSET Tx] /\ g \in [Tx -> SUBSET Tx]
    BY DEF Links
  <1>1. Reach(f, S) \subseteq X
    BY <1>0, ReachLeast
  <1>2. S \subseteq Reach(f, S) /\ Closed(f, Reach(f, S))
    BY <1>0, ReachClosed
  <1>3. S \subseteq Reach(g, S) /\ Closed(g, Reach(g, S))
    BY <1>0, ReachClosed
  <1>4. Closed(g, Reach(f, S))
    BY <1>1, <1>2 DEF Closed
  <1>5. Reach(g, S) \subseteq Reach(f, S)
    BY <1>0, <1>2, <1>4, ReachLeast
  <1>6. Closed(f, Reach(g, S))
    BY <1>1, <1>3, <1>5 DEF Closed
  <1>7. Reach(f, S) \subseteq Reach(g, S)
    BY <1>0, <1>3, <1>6, ReachLeast
  <1> QED
    BY <1>1, <1>5, <1>7

(* The links of an added entry are at both their ends. *)
LEMMA AddIs ==
    ASSUME NEW m, GraphOK(m), NEW t \in Tx \ m.pool
    PROVE  LET n == addUnchecked(m, t)
               P == ParentsInPool(m, t)
               ancestors == Reach(m.parents, P)
           IN  /\ n.pool = m.pool \cup {t}
               /\ P \in SUBSET m.pool /\ ancestors \in SUBSET m.pool
               /\ n.parents \in Links /\ n.children \in Links
               /\ n.parents[t] = P
               /\ \A u \in Tx : u # t => n.parents[u] = m.parents[u]
               /\ Converse(n.children, n.parents)
               /\ n.anc = [m.anc EXCEPT ![t] = Cardinality(ancestors) + 1]
               /\ n.desc = [u \in Tx |-> IF u = t THEN 1
                                         ELSE IF u \in ancestors THEN m.desc[u] + 1
                                         ELSE m.desc[u]]
               /\ n = [pool |-> n.pool, parents |-> n.parents, children |-> n.children,
                       anc |-> n.anc, desc |-> n.desc]
  <1> DEFINE n == addUnchecked(m, t)
             P == ParentsInPool(m, t)
             ancestors == Reach(m.parents, P)
  <1>1. /\ m.pool \in SUBSET Tx /\ m.parents \in Links /\ m.children \in Links
        /\ Converse(m.children, m.parents) /\ Closed(m.parents, m.pool)
        /\ \A u \in Tx : m.children[u] \subseteq m.pool
    BY GraphFacts
  <1>2. P \in SUBSET m.pool
    BY DEF ParentsInPool
  <1>3. n = [pool     |-> m.pool \cup {t},
             parents  |-> [m.parents EXCEPT ![t] = P],
             children |-> [u \in Tx |-> IF u \in P THEN m.children[u] \cup {t} ELSE m.children[u]],
             anc      |-> [m.anc EXCEPT ![t] = Cardinality(ancestors) + 1],
             desc     |-> [u \in Tx |-> IF u = t THEN 1
                                        ELSE IF u \in ancestors THEN m.desc[u] + 1
                                        ELSE m.desc[u]]]
    BY DEF addUnchecked, CalculateMemPoolAncestors
  <1> HIDE DEF n, P
  <1>4. ancestors \in SUBSET m.pool
    <2>1. P \in SUBSET Tx
      BY <1>1, <1>2
    <2> QED
      BY <1>1, <1>2, <2>1, ReachLeast DEF Links
  <1> HIDE DEF ancestors
  <1>5. /\ n.pool = m.pool \cup {t}
        /\ n.parents = [m.parents EXCEPT ![t] = P]
        /\ n.children = [u \in Tx |-> IF u \in P THEN m.children[u] \cup {t} ELSE m.children[u]]
    BY <1>3
  <1>6. /\ n.anc = [m.anc EXCEPT ![t] = Cardinality(ancestors) + 1]
        /\ n.desc = [u \in Tx |-> IF u = t THEN 1
                                  ELSE IF u \in ancestors THEN m.desc[u] + 1
                                  ELSE m.desc[u]]
    BY <1>3
  <1>7. n = [pool |-> n.pool, parents |-> n.parents, children |-> n.children,
             anc |-> n.anc, desc |-> n.desc]
    BY <1>3
  <1>8. n.parents \in Links
    BY SMTT(60), <1>1, <1>2, <1>5 DEF Links
  <1>9. n.children \in Links
    BY SMTT(60), <1>1, <1>5 DEF Links
  <1>10. n.parents[t] = P /\ \A u \in Tx : u # t => n.parents[u] = m.parents[u]
    BY SMTT(60), <1>1, <1>5 DEF Links
  <1>11. Converse(n.children, n.parents)
    <2> SUFFICES ASSUME NEW p \in Tx, NEW u \in Tx
                 PROVE  u \in n.children[p] <=> p \in n.parents[u]
      BY DEF Converse
    <2>1. u \in m.children[p] <=> p \in m.parents[u]
      BY <1>1 DEF Converse
    <2>2. u \in n.children[p] <=> u \in m.children[p] \/ (p \in P /\ u = t)
      BY SMTT(60), <1>5
    <2>3. CASE u = t
      BY <1>1, <1>10, <2>2, <2>3
    <2>4. CASE u # t
      BY <1>10, <2>1, <2>2, <2>4
    <2> QED
      BY <2>3, <2>4
  <1> QED
    BY <1>2, <1>4, <1>5, <1>6, <1>7, <1>8, <1>9, <1>10, <1>11 DEF n, P, ancestors

(* An added entry that nothing in the pool is linked to leaves the counts   *)
(* exact.                                                                   *)
LEMMA AddCounts ==
    ASSUME NEW m, GraphOK(m), CountOK(m), NEW t \in Tx \ m.pool
    PROVE  GraphOK(addUnchecked(m, t)) /\ CountOK(addUnchecked(m, t))
  <1> DEFINE n == addUnchecked(m, t)
             P == ParentsInPool(m, t)
             ancestors == Reach(m.parents, P)
  <1>1. /\ n.pool = m.pool \cup {t}
        /\ P \in SUBSET m.pool /\ ancestors \in SUBSET m.pool
        /\ n.parents \in Links /\ n.children \in Links
        /\ n.parents[t] = P
        /\ \A u \in Tx : u # t => n.parents[u] = m.parents[u]
        /\ Converse(n.children, n.parents)
    BY AddIs
  <1>2. /\ n.anc = [m.anc EXCEPT ![t] = Cardinality(ancestors) + 1]
        /\ n.desc = [u \in Tx |-> IF u = t THEN 1
                                  ELSE IF u \in ancestors THEN m.desc[u] + 1
                                  ELSE m.desc[u]]
        /\ n = [pool |-> n.pool, parents |-> n.parents, children |-> n.children,
                anc |-> n.anc, desc |-> n.desc]
    BY AddIs
  <1> HIDE DEF n, P
  <1>3. /\ m.pool \in SUBSET Tx /\ m.parents \in Links
        /\ m.anc \in [Tx -> Nat] /\ m.desc \in [Tx -> Nat]
        /\ \A u \in Tx : m.parents[u] \subseteq m.pool /\ (u \notin m.pool => m.parents[u] = {})
    BY GraphFacts DEF GraphOK
  <1>4. IsFiniteSet(ancestors) /\ Cardinality(ancestors) \in Nat
    <2>1. ancestors \in SUBSET Tx
      BY <1>1, <1>3
    <2> QED
      BY <2>1, MempoolAssumption, FS_Subset, FS_CardinalityType
  <1> DEFINE X == Tx \ {t}
  <1>5. Closed(m.parents, X) /\ \A x \in X : m.parents[x] = n.parents[x]
    BY <1>1, <1>3 DEF Closed
  <1>6. X \in SUBSET Tx /\ P \in SUBSET X /\ \A u \in X : {u} \in SUBSET X
    BY <1>1, <1>3
  <1>6a. \A u : u \in X <=> u \in Tx /\ u # t
    OBVIOUS
  <1> HIDE DEF X
  <1>7. ASSUME NEW u \in X PROVE Anc(n, u) = Anc(m, u) /\ t \notin Anc(m, u)
    BY SMTT(60), <1>1, <1>3, <1>5, <1>6, <1>6a, SameReach DEF Anc
  <1>8. Reach(n.parents, P) = ancestors
    BY SMTT(60), <1>1, <1>3, <1>5, <1>6, SameReach
  <1> HIDE DEF ancestors
  <1>9. Anc(n, t) = {t} \cup ancestors
    BY <1>1, <1>8, ReachFrom DEF Anc
  <1>10. n.anc \in [Tx -> Nat] /\ n.desc \in [Tx -> Nat]
    BY SMTT(60), <1>2, <1>3, <1>4
  <1>11. GraphOK(n)
    <2>1. n \in PoolRecord
      BY <1>1, <1>2, <1>3, <1>10 DEF PoolRecord, Links
    <2>2. \A u \in Tx : n.parents[u] \subseteq n.pool /\ (u \notin n.pool => n.parents[u] = {})
      BY <1>1, <1>3
    <2> QED
      BY <1>1, <2>1, <2>2 DEF GraphOK
  <1>12. ASSUME NEW u \in X PROVE Des(n, u) = Des(m, u) \cup {x \in {t} : u \in ancestors} /\ t \notin Des(m, u)
    <2>1. u \in Tx /\ Des(n, u) \subseteq Tx /\ Des(m, u) \subseteq Tx
      BY <1>6a, <1>11, AncDesIn
    <2>2. ASSUME NEW x \in X PROVE x \in Des(n, u) <=> x \in Des(m, u)
      <3>1. x \in Des(n, u) <=> u \in Anc(n, x)
        BY <1>6a, <1>11, AncDes
      <3>2. x \in Des(m, u) <=> u \in Anc(m, x)
        BY <1>6a, AncDes
      <3> QED
        BY <1>7, <3>1, <3>2
    <2>3. t \in Des(n, u) <=> u \in ancestors
      <3>1. t \in Des(n, u) <=> u \in Anc(n, t)
        BY <1>6a, <1>11, AncDes
      <3> QED
        BY <1>6a, <1>9, <3>1
    <2>4. t \notin Des(m, u)
      <3>1. t \in Des(m, u) <=> u \in Anc(m, t)
        BY <1>6a, AncDes
      <3>2. Closed(m.parents, {t})
        BY <1>3 DEF Closed
      <3>3. Anc(m, t) \subseteq {t}
        BY <1>3, <3>2, ReachOneLeast DEF Anc
      <3> QED
        BY <1>6a, <3>1, <3>3
    <2> QED
      BY <1>6a, <2>1, <2>2, <2>3, <2>4
  <1>13. Des(n, t) = {t}
    <2>1. t \in Des(n, t) /\ Des(n, t) \subseteq Tx
      BY <1>11, AncDesIn
    <2>2. ASSUME NEW x \in X PROVE x \notin Des(n, t)
      <3>1. x \in Des(n, t) <=> t \in Anc(n, x)
        BY <1>6a, <1>11, AncDes
      <3> QED
        BY <1>7, <3>1
    <2> QED
      BY <1>6a, <2>1, <2>2
  <1>14. ASSUME NEW u \in Tx
         PROVE  /\ n.anc[u] = IF u \in n.pool THEN Cardinality(Anc(n, u)) ELSE 0
                /\ n.desc[u] = IF u \in n.pool THEN Cardinality(Des(n, u)) ELSE 0
    <2>1. CASE u = t
      <3>1. n.anc[t] = Cardinality(ancestors) + 1 /\ n.desc[t] = 1 /\ t \in n.pool
        BY <1>1, <1>2, <1>3
      <3>2. t \notin ancestors
        BY <1>1
      <3>3. Cardinality(ancestors \cup {t}) = Cardinality(ancestors) + 1
        BY <1>4, <3>2, FS_AddElement
      <3>4. ancestors \cup {t} = Anc(n, t)
        BY <1>9
      <3>5. Cardinality({t}) = 1
        BY FS_Singleton
      <3> QED
        BY <2>1, <3>1, <3>3, <3>4, <3>5, <1>13
    <2>2. CASE u # t
      <3>1. /\ u \in X /\ (u \in n.pool <=> u \in m.pool)
            /\ n.anc[u] = m.anc[u]
            /\ n.desc[u] = IF u \in ancestors THEN m.desc[u] + 1 ELSE m.desc[u]
        BY SMTT(60), <1>1, <1>2, <1>3, <1>6a, <2>2
      <3>2. /\ m.anc[u] = IF u \in m.pool THEN Cardinality(Anc(m, u)) ELSE 0
            /\ m.desc[u] = IF u \in m.pool THEN Cardinality(Des(m, u)) ELSE 0
        BY DEF CountOK
      <3>3. u \in ancestors => Cardinality(Des(m, u) \cup {t}) = Cardinality(Des(m, u)) + 1
        BY <1>12, <3>1, AncDesIn, FS_AddElement
      <3>4. Des(n, u) = IF u \in ancestors THEN Des(m, u) \cup {t} ELSE Des(m, u)
        BY <1>12, <3>1
      <3>5. u \in ancestors => u \in m.pool
        BY <1>1
      <3>6. Anc(n, u) = Anc(m, u)
        BY <1>7, <3>1
      <3> QED
        BY <3>1, <3>2, <3>3, <3>4, <3>5, <3>6
    <2> QED
      BY <2>1, <2>2
  <1>15. CountOK(n)
    BY <1>14 DEF CountOK
  <1> QED
    BY <1>11, <1>15 DEF n
-----------------------------------------------------------------------------
(* UpdateTransactionsFromBlock. *)

(* back are the transactions that came back, todoSet those of them whose    *)
(* turn has not come.                                                       *)
Turn(m, back, todoSet) ==
    /\ GraphOK(m) /\ LinkOK(m, back, todoSet)
    /\ back \subseteq m.pool /\ todoSet \subseteq back
    /\ \A a \in back, p \in m.pool : Spends(a, p) => p \in back
    /\ \A u \in todoSet, p \in back \ todoSet : ~Spends(u, p)

Relinked(n, m, t, back) ==
    LET found == Spenders(m, Outs[t]) \ back
        ds == Reach(n.children, n.children[t]) \ back
    IN  /\ n.pool = m.pool /\ found \in SUBSET m.pool
        /\ n.parents \in Links /\ n.children \in Links
        /\ \A u \in Tx : n.parents[u] = IF u \in found THEN m.parents[u] \cup {t}
                                                       ELSE m.parents[u]
        /\ Converse(n.children, n.parents)
        /\ n.anc = [u \in Tx |-> IF u \in ds THEN m.anc[u] + 1 ELSE m.anc[u]]
        /\ n.desc = [m.desc EXCEPT ![t] = m.desc[t] + Cardinality(ds)]
        /\ n = [pool |-> n.pool, parents |-> n.parents, children |-> n.children,
                anc |-> n.anc, desc |-> n.desc]

LEMMA LinkIs ==
    ASSUME NEW m, GraphOK(m), NEW back \in SUBSET Tx, NEW t \in m.pool
    PROVE  Relinked(UpdateTransactionsFromBlock(m, t, back), m, t, back)
  <1> DEFINE n == UpdateTransactionsFromBlock(m, t, back)
             k == LinkChildren(m, t, back)
             found == Spenders(m, Outs[t]) \ back
             ks == Reach(k.children, k.children[t]) \ back
  <1>1. /\ m.pool \in SUBSET Tx /\ m.parents \in Links /\ m.children \in Links
        /\ Converse(m.children, m.parents)
        /\ m.anc \in [Tx -> Nat] /\ m.desc \in [Tx -> Nat]
    BY GraphFacts
  <1>2. m = [pool |-> m.pool, parents |-> m.parents, children |-> m.children,
             anc |-> m.anc, desc |-> m.desc]
    BY DEF GraphOK, PoolRecord
  <1>3. found \in SUBSET m.pool
    BY DEF Spenders
  <1>4. k = [m EXCEPT !.children[t] = @ \cup found,
                      !.parents = [u \in Tx |-> IF u \in found THEN @[u] \cup {t} ELSE @[u]]]
    BY DEF LinkChildren
  <1> HIDE DEF found
  <1>5. /\ k.pool = m.pool /\ k.anc = m.anc /\ k.desc = m.desc
        /\ k.children = [m.children EXCEPT ![t] = @ \cup found]
        /\ k.parents = [u \in Tx |-> IF u \in found THEN m.parents[u] \cup {t} ELSE m.parents[u]]
        /\ k = [pool |-> k.pool, parents |-> k.parents, children |-> k.children,
                anc |-> k.anc, desc |-> k.desc]
    BY <1>2, <1>4
  <1>6. n = [k EXCEPT !.anc = [u \in Tx |-> IF u \in ks THEN @[u] + 1 ELSE @[u]],
                      !.desc[t] = @ + Cardinality(ks)]
    BY DEF UpdateTransactionsFromBlock, UpdateForDescendants, CalculateDescendants
  <1> HIDE DEF k, ks, n
  <1>7. /\ n.pool = k.pool /\ n.children = k.children /\ n.parents = k.parents
        /\ n.anc = [u \in Tx |-> IF u \in ks THEN k.anc[u] + 1 ELSE k.anc[u]]
        /\ n.desc = [k.desc EXCEPT ![t] = @ + Cardinality(ks)]
        /\ n = [pool |-> n.pool, parents |-> n.parents, children |-> n.children,
                anc |-> n.anc, desc |-> n.desc]
    BY <1>5, <1>6
  <1>8. ks = Reach(n.children, n.children[t]) \ back
    BY <1>7 DEF ks
  <1>9. n.parents \in Links
    BY SMTT(60), <1>1, <1>5, <1>7 DEF Links
  <1>10. n.children \in Links
    BY SMTT(60), <1>1, <1>3, <1>5, <1>7 DEF Links
  <1>11. Converse(n.children, n.parents)
    <2> SUFFICES ASSUME NEW p \in Tx, NEW u \in Tx
                 PROVE  u \in n.children[p] <=> p \in n.parents[u]
      BY DEF Converse
    <2>1. u \in m.children[p] <=> p \in m.parents[u]
      BY <1>1 DEF Converse
    <2>2. u \in n.children[p] <=> u \in m.children[p] \/ (p = t /\ u \in found)
      BY SMTT(60), <1>1, <1>5, <1>7 DEF Links
    <2>3. p \in n.parents[u] <=> p \in m.parents[u] \/ (p = t /\ u \in found)
      BY SMTT(60), <1>5, <1>7
    <2> QED
      BY <2>1, <2>2, <2>3
  <1>12. \A u \in Tx : n.parents[u] = IF u \in found THEN m.parents[u] \cup {t} ELSE m.parents[u]
    BY SMTT(60), <1>5, <1>7
  <1>13. /\ n.anc = [u \in Tx |-> IF u \in ks THEN m.anc[u] + 1 ELSE m.anc[u]]
         /\ n.desc = [m.desc EXCEPT ![t] = m.desc[t] + Cardinality(ks)]
    BY <1>5, <1>7
  <1> QED
    BY <1>3, <1>5, <1>7, <1>8, <1>9, <1>10, <1>11, <1>12, <1>13 DEF n, found, Relinked

(* A turn of the loop completes the links of t. *)
LEMMA TurnLinks ==
    ASSUME NEW m, NEW back \in SUBSET Tx, NEW rest \in SUBSET Tx, NEW t \in rest,
           Turn(m, back, rest)
    PROVE  LinkOK(UpdateTransactionsFromBlock(m, t, back), back, rest \ {t})
  <1> DEFINE n == UpdateTransactionsFromBlock(m, t, back)
             found == Spenders(m, Outs[t]) \ back
  <1>1. t \in m.pool /\ GraphOK(m)
    BY DEF Turn
  <1>2. /\ n.pool = m.pool /\ Converse(n.children, n.parents)
        /\ \A u \in Tx : n.parents[u] = IF u \in found THEN m.parents[u] \cup {t}
                                                       ELSE m.parents[u]
    <2>1. Relinked(n, m, t, back)
      BY <1>1, LinkIs
    <2> HIDE DEF n
    <2> QED
      BY <2>1 DEF Relinked
  <1> HIDE DEF n
  <1>3. \A u : u \in found <=> u \in m.pool /\ Spends(u, t) /\ u \notin back
    BY DEF Spenders, Spends
  <1> HIDE DEF found
  <1>4. ASSUME NEW p \in Tx, NEW u \in Tx
        PROVE  p \in n.parents[u] <=>
                  /\ p \in n.pool /\ u \in n.pool /\ Spends(u, p)
                  /\ p \in rest \ {t} => u \in back
    <2>1. p \in m.parents[u] <=>
             /\ p \in m.pool /\ u \in m.pool /\ Spends(u, p)
             /\ p \in rest => u \in back
      BY DEF Turn, LinkOK
    <2>2. p \in n.parents[u] <=> p \in m.parents[u] \/ (p = t /\ u \in found)
      BY <1>2
    <2>3. CASE p = t
      BY <1>1, <1>2, <1>3, <2>1, <2>2, <2>3
    <2>4. CASE p # t
      BY <1>2, <2>1, <2>2, <2>4
    <2> QED
      BY <2>3, <2>4
  <1>5. \A p, u \in Tx : u \in n.children[p] <=> p \in n.parents[u]
    BY <1>2 DEF Converse
  <1> QED
    BY <1>4, <1>5 DEF LinkOK, n

(* ... and counts t once wherever it is an ancestor now, and what it has    *)
(* gained for t.                                                            *)
LEMMA TurnCounts ==
    ASSUME NEW m, NEW back \in SUBSET Tx, NEW rest \in SUBSET Tx, NEW t \in rest,
           Turn(m, back, rest), RelinkCountOK(m, back, rest)
    PROVE  /\ GraphOK(UpdateTransactionsFromBlock(m, t, back))
           /\ RelinkCountOK(UpdateTransactionsFromBlock(m, t, back), back, rest \ {t})
  <1> DEFINE n == UpdateTransactionsFromBlock(m, t, back)
             found == Spenders(m, Outs[t]) \ back
             ds == Reach(n.children, n.children[t]) \ back
  <1>1. /\ t \in m.pool /\ t \in back /\ GraphOK(m) /\ back \subseteq m.pool /\ rest \subseteq back
        /\ LinkOK(m, back, rest)
        /\ \A a \in back, p \in m.pool : Spends(a, p) => p \in back
        /\ \A u \in rest, p \in back \ rest : ~Spends(u, p)
    BY DEF Turn
  <1>0. Relinked(n, m, t, back)
    BY <1>1, LinkIs
  <1> HIDE DEF n
  <1>2. /\ n.pool = m.pool /\ found \in SUBSET m.pool
        /\ n.parents \in Links /\ n.children \in Links
        /\ \A u \in Tx : n.parents[u] = IF u \in found THEN m.parents[u] \cup {t}
                                                       ELSE m.parents[u]
        /\ Converse(n.children, n.parents)
    BY <1>0 DEF Relinked
  <1>3. /\ n.anc = [u \in Tx |-> IF u \in ds THEN m.anc[u] + 1 ELSE m.anc[u]]
        /\ n.desc = [m.desc EXCEPT ![t] = m.desc[t] + Cardinality(ds)]
        /\ n = [pool |-> n.pool, parents |-> n.parents, children |-> n.children,
                anc |-> n.anc, desc |-> n.desc]
    BY <1>0 DEF Relinked
  <1>4. found \cap back = {}
    OBVIOUS
  <1> HIDE DEF found
  <1>5. /\ m.pool \in SUBSET Tx /\ m.parents \in Links /\ t \in Tx
        /\ m.anc \in [Tx -> Nat] /\ m.desc \in [Tx -> Nat]
        /\ \A u \in Tx : m.parents[u] \subseteq m.pool /\ (u \notin m.pool => m.parents[u] = {})
    BY <1>1, GraphFacts DEF GraphOK
  <1>6. Closed(m.parents, back) /\ Closed(m.parents, rest)
    <2> SUFFICES ASSUME NEW x \in back, NEW p \in m.parents[x]
                 PROVE  p \in back /\ (x \in rest => p \in rest)
      BY <1>1 DEF Closed
    <2>1. p \in Tx /\ p \in m.pool /\ Spends(x, p)
      BY <1>1, <1>5 DEF LinkOK, Links
    <2> QED
      BY <1>1, <2>1
  <1>7. Anc(m, t) \subseteq rest
    BY <1>5, <1>6, ReachOneLeast DEF Anc
  <1>8. ASSUME NEW x \in back PROVE Anc(n, x) = Anc(m, x) /\ Anc(m, x) \subseteq back
    <2>1. \A y \in back : m.parents[y] = n.parents[y]
      BY <1>2, <1>4
    <2>2. {x} \in SUBSET back
      OBVIOUS
    <2> QED
      BY SMTT(60), <1>2, <1>5, <1>6, <2>1, <2>2, SameReach DEF Anc
  <1>9. ASSUME NEW x \in Tx
        PROVE  Anc(m, x) \subseteq Anc(n, x) /\ Anc(n, x) \subseteq Anc(m, x) \cup Anc(m, t)
    <2>1. /\ x \in Anc(m, x) /\ Anc(m, x) \subseteq Tx /\ Closed(m.parents, Anc(m, x))
          /\ t \in Anc(m, t) /\ Anc(m, t) \subseteq Tx /\ Closed(m.parents, Anc(m, t))
      BY <1>1, <1>5, AncDesIn
    <2>2. x \in Anc(n, x) /\ Anc(n, x) \subseteq Tx /\ Closed(n.parents, Anc(n, x))
      BY <1>2, ReachOne DEF Anc
    <2>3. Closed(m.parents, Anc(n, x))
      BY <1>2, <2>2 DEF Closed
    <2>4. Anc(m, x) \subseteq Anc(n, x)
      BY SMTT(60), <1>5, <2>2, <2>3, ReachOneLeast DEF Anc
    <2> DEFINE C == Anc(m, x) \cup Anc(m, t)
    <2>5. x \in C /\ Closed(n.parents, C)
      BY <1>2, <2>1 DEF Closed
    <2> HIDE DEF C
    <2>6. Anc(n, x) \subseteq C
      BY <1>2, <2>5, ReachOneLeast DEF Anc
    <2> QED
      BY <2>4, <2>6 DEF C
  <1>10. ds \subseteq Tx /\ IsFiniteSet(ds) /\ Cardinality(ds) \in Nat
    <2>1. n.children[t] \in SUBSET Tx /\ n.children \in [Tx -> SUBSET Tx]
      BY <1>2, <1>5 DEF Links
    <2>2. Reach(n.children, n.children[t]) \subseteq Tx
      BY SMTT(60), <2>1, ReachClosed
    <2> QED
      BY <2>2, MempoolAssumption, FS_Subset, FS_CardinalityType
  <1>11. \A u \in Tx : u \in ds <=> u \notin back /\ t \in Anc(n, u)
    <2> TAKE u \in Tx
    <2>1. Reach(n.children, {t}) = {t} \cup Reach(n.children, n.children[t])
      BY <1>2, <1>5, ReachFrom
    <2>2. u \in Reach(n.children, {t}) <=> t \in Anc(n, u)
      BY <1>2, <1>5, ReachBack DEF Anc
    <2> QED
      BY <1>1, <2>1, <2>2
  <1> HIDE DEF ds
  <1>12. n.anc \in [Tx -> Nat] /\ n.desc \in [Tx -> Nat]
    BY SMTT(60), <1>3, <1>5, <1>10
  <1>13. GraphOK(n)
    <2>1. n \in PoolRecord
      BY <1>2, <1>3, <1>5, <1>12 DEF PoolRecord, Links
    <2>2. \A u \in Tx : n.parents[u] \subseteq n.pool /\ (u \notin n.pool => n.parents[u] = {})
      BY <1>1, <1>2, <1>5
    <2> QED
      BY <1>2, <2>1, <2>2 DEF GraphOK
  <1>14. ASSUME NEW x \in Tx PROVE Des(n, x) \cap back = Des(m, x) \cap back
    <2>1. ASSUME NEW y \in back PROVE y \in Des(n, x) <=> y \in Des(m, x)
      <3>1. y \in Des(n, x) <=> x \in Anc(n, y)
        BY <1>13, AncDes
      <3>2. y \in Des(m, x) <=> x \in Anc(m, y)
        BY <1>1, AncDes
      <3> QED
        BY <1>8, <3>1, <3>2
    <2> QED
      BY <2>1
  <1>15. ASSUME NEW x \in Tx \ rest PROVE Des(n, x) = Des(m, x)
    <2>1. ASSUME NEW y \in Tx PROVE y \in Des(n, x) <=> y \in Des(m, x)
      <3>1. y \in Des(n, x) <=> x \in Anc(n, y)
        BY <1>13, AncDes
      <3>2. y \in Des(m, x) <=> x \in Anc(m, y)
        BY <1>1, AncDes
      <3> QED
        BY <1>7, <1>9, <3>1, <3>2
    <2>2. Des(n, x) \subseteq Tx /\ Des(m, x) \subseteq Tx
      BY <1>1, <1>13, AncDesIn
    <2> QED
      BY <2>1, <2>2
  <1>16. ASSUME NEW u \in Tx
         PROVE  n.anc[u] = IF u \notin n.pool THEN 0
                           ELSE IF u \in back THEN Cardinality(Anc(n, u))
                           ELSE Cardinality(Anc(n, u) \ (rest \ {t}))
    <2>0. m.anc[u] = IF u \notin m.pool THEN 0
                     ELSE IF u \in back THEN Cardinality(Anc(m, u))
                     ELSE Cardinality(Anc(m, u) \ rest)
      BY DEF RelinkCountOK
    <2>1. CASE u \in back
      BY <1>1, <1>2, <1>3, <1>8, <1>11, <2>0, <2>1
    <2>2. CASE u \notin m.pool
      <3>1. u # t /\ n.parents[u] = {}
        BY <1>1, <1>2, <1>5, <2>2
      <3>2. Closed(n.parents, {u})
        BY <3>1 DEF Closed
      <3>3. Anc(n, u) \subseteq {u}
        BY <1>2, <3>2, ReachOneLeast DEF Anc
      <3>4. u \notin ds
        BY <1>11, <3>1, <3>3
      <3> QED
        BY <1>2, <1>3, <2>0, <2>2, <3>4
    <2>3. CASE u \in m.pool /\ u \notin back
      <3> DEFINE R == Anc(m, u) \ rest
      <3>1. t \notin R /\ IsFiniteSet(R)
        BY <1>1, AncDesIn, FS_Difference
      <3>2. Anc(n, u) \ (rest \ {t}) = IF t \in Anc(n, u) THEN R \cup {t} ELSE R
        BY <1>7, <1>9
      <3> HIDE DEF R
      <3>3. Cardinality(R \cup {t}) = Cardinality(R) + 1
        BY <3>1, FS_AddElement
      <3>4. m.anc[u] = Cardinality(R)
        BY <2>0, <2>3 DEF R
      <3>5. u \in ds <=> t \in Anc(n, u)
        BY <1>11, <2>3
      <3>6. n.anc[u] = IF u \in ds THEN m.anc[u] + 1 ELSE m.anc[u]
        BY <1>3
      <3>7. u \in n.pool
        BY <1>2, <2>3
      <3> QED
        BY <2>3, <3>2, <3>3, <3>4, <3>5, <3>6, <3>7
    <2> QED
      BY <2>1, <2>2, <2>3
  <1>17. ASSUME NEW u \in Tx
         PROVE  n.desc[u] = IF u \notin n.pool THEN 0
                            ELSE IF u \in rest \ {t} THEN Cardinality(Des(n, u) \cap back)
                            ELSE Cardinality(Des(n, u))
    <2>0. m.desc[u] = IF u \notin m.pool THEN 0
                      ELSE IF u \in rest THEN Cardinality(Des(m, u) \cap back)
                      ELSE Cardinality(Des(m, u))
      BY DEF RelinkCountOK
    <2>1. CASE u = t
      <3>1. m.desc[t] = Cardinality(Des(n, t) \cap back)
        BY <1>1, <1>5, <1>14, <2>0, <2>1
      <3>2. ds = Des(n, t) \ back
        <4>1. Des(n, t) \subseteq Tx /\ \A x \in Tx : x \in Des(n, t) <=> t \in Anc(n, x)
          BY <1>5, <1>13, AncDes, AncDesIn
        <4> QED
          BY <1>10, <1>11, <4>1
      <3>3. IsFiniteSet(Des(n, t)) /\ Cardinality(Des(n, t)) \in Nat
        BY <1>5, <1>13, AncDesIn
      <3>4. Cardinality(ds) = Cardinality(Des(n, t)) - Cardinality(Des(n, t) \cap back)
        BY <3>2, <3>3, FS_Difference
      <3>5. n.desc[t] = m.desc[t] + Cardinality(ds) /\ m.desc[t] \in Nat
        BY <1>3, <1>5
      <3>6. n.desc[t] = Cardinality(Des(n, t))
        BY SMTT(60), <3>1, <3>3, <3>4, <3>5
      <3> QED
        BY <1>1, <1>2, <2>1, <3>6
    <2>2. CASE u # t
      <3>1. n.desc[u] = m.desc[u]
        BY <1>3, <1>5, <2>2
      <3>2. CASE u \in rest
        BY <1>2, <1>14, <2>0, <2>2, <3>1, <3>2
      <3>3. CASE u \notin rest
        BY <1>2, <1>15, <2>0, <2>2, <3>1, <3>3
      <3> QED
        BY <3>2, <3>3
    <2> QED
      BY <2>1, <2>2
  <1>18. RelinkCountOK(n, back, rest \ {t})
    BY <1>16, <1>17 DEF RelinkCountOK
  <1> QED
    BY <1>13, <1>18 DEF n
-----------------------------------------------------------------------------
(* The cached links and counts through each operation on the pool. *)

LEMMA LinkGraph ==
    ASSUME NEW m \in PoolRecord, NEW back, NEW unlinked, LinkOK(m, back, unlinked)
    PROVE  GraphOK(m)
  <1>1. m.parents \in [Tx -> SUBSET Tx] /\ m.pool \in SUBSET Tx
    BY DEF PoolRecord
  <1>2. Converse(m.children, m.parents)
    BY DEF LinkOK, Converse
  <1>3. ASSUME NEW u \in Tx
        PROVE  m.parents[u] \subseteq m.pool /\ (u \notin m.pool => m.parents[u] = {})
    <2>1. \A p \in m.parents[u] : p \in Tx
      BY <1>1
    <2>2. \A p \in m.parents[u] : p \in m.pool /\ u \in m.pool
      BY <2>1 DEF LinkOK
    <2> QED
      BY <2>2
  <1> QED
    BY <1>2, <1>3 DEF GraphOK

(* The entries X leave the pool, and nothing that stays spends what leaves. *)
Cut(n, m, X, back) ==
    /\ n.pool \subseteq m.pool /\ n.pool \cap X = {}
    /\ \A t \in n.pool, p \in m.pool \ n.pool : ~Spends(t, p)
    /\ PoolOK(n, back) /\ BackOK(back, n.pool)

(* A removal that takes descendants along, of entries X that were there     *)
(* before the reorganisation.                                               *)
LEMMA RemoveWith ==
    ASSUME NEW m, NEW back \in SUBSET Tx, PoolOK(m, back), BackOK(back, m.pool),
           NEW X \in SUBSET m.pool, X \cap back = {}
    PROVE  Cut(RemoveStaged(m, CalculateDescendants(m, X), FALSE), m, X, back)
  <1> DEFINE S == CalculateDescendants(m, X)
  <1> DEFINE n == RemoveStaged(m, S, FALSE)
  <1>1. GraphOK(m) /\ CountOK(m) /\ m \in PoolRecord /\ LinkOK(m, back, back)
    BY LinkGraph DEF PoolOK
  <1>2. /\ m.pool \in SUBSET Tx /\ m.parents \in Links /\ m.children \in Links
        /\ Closed(m.children, m.pool)
    BY <1>1, GraphFacts
  <1>2a. m.children \in [Tx -> SUBSET Tx] /\ m.parents \in [Tx -> SUBSET Tx]
    BY <1>2 DEF Links
  <1>3. X \in SUBSET Tx
    BY <1>2
  <1>4. X \subseteq S /\ S \subseteq Tx /\ Closed(m.children, S)
    BY <1>2a, <1>3, ReachClosed DEF CalculateDescendants
  <1>5. S \subseteq m.pool
    BY <1>2, <1>2a, <1>3, ReachLeast DEF CalculateDescendants
  <1>6. \A p, t \in Tx : p \in m.parents[t] <=> /\ p \in m.pool /\ t \in m.pool
                                                /\ Spends(t, p) /\ (p \in back => t \in back)
    BY <1>1 DEF LinkOK
  <1>7. \A p, t \in Tx : t \in m.children[p] <=> p \in m.parents[t]
    BY <1>1 DEF LinkOK
  <1> DEFINE C == m.pool \ back
  <1>8. Closed(m.children, C)
    <2> SUFFICES ASSUME NEW p \in C, NEW t \in m.children[p] PROVE t \in C
      BY DEF Closed
    <2>1. p \in Tx /\ t \in Tx /\ p \in m.pool /\ p \notin back
      BY <1>2, <1>2a
    <2>2. t \in m.pool /\ Spends(t, p)
      BY <1>6, <1>7, <2>1
    <2> QED
      BY <2>1, <2>2 DEF BackOK
  <1>9. X \subseteq C
    OBVIOUS
  <1> HIDE DEF C
  <1>10. S \subseteq C
    BY <1>2a, <1>3, <1>8, <1>9, ReachLeast DEF CalculateDescendants
  <1>11. S \cap back = {}
    BY <1>10 DEF C
  <1> HIDE DEF S
  <1>12. Left(n, m, S)
    BY <1>1, <1>4, RemoveStagedSameAnc
  <1>13. GraphOK(n) /\ CountOK(n)
    BY <1>1, <1>4, <1>5, RemoveDown
  <1> HIDE DEF n
  <1>14. n.pool = m.pool \ S /\ n.parents = Without(m.parents, S) /\ n.children = Without(m.children, S)
    BY <1>12 DEF Left
  <1>15. ASSUME NEW t \in n.pool, NEW p \in m.pool \ n.pool, Spends(t, p) PROVE FALSE
    <2>1. t \in Tx /\ p \in Tx /\ t \in m.pool /\ p \in S /\ p \notin back /\ t \notin S
      BY <1>2, <1>5, <1>11, <1>14
    <2>2. t \in m.children[p]
      BY <1>6, <1>7, <1>15, <2>1
    <2> QED
      BY <1>4, <2>1, <2>2 DEF Closed
  <1>16. LinkOK(n, back, back)
    <2>1. \A p, t \in Tx : t \in n.children[p] <=> p \in n.parents[t]
      BY <1>13 DEF GraphOK, Converse
    <2>2. ASSUME NEW p \in Tx, NEW t \in Tx
          PROVE  p \in n.parents[t] <=> /\ p \in n.pool /\ t \in n.pool
                                        /\ Spends(t, p) /\ (p \in back => t \in back)
      <3>1. n.parents[t] = IF t \in S THEN {} ELSE m.parents[t] \ S
        BY <1>14 DEF Without
      <3> QED
        BY SMTT(60), <1>6, <1>14, <3>1
    <2> QED
      BY <2>1, <2>2 DEF LinkOK
  <1>17. n \in PoolRecord
    BY <1>13 DEF GraphOK
  <1>18. PoolOK(n, back)
    BY <1>13, <1>16, <1>17 DEF PoolOK
  <1>19. BackOK(back, n.pool)
    BY <1>11, <1>14 DEF BackOK
  <1> QED
    BY <1>4, <1>14, <1>15, <1>18, <1>19 DEF n, S, Cut

(* An entry that a block confirms leaves on its own. *)
LEMMA RemoveRootOK ==
    ASSUME NEW m, PoolOK(m, {}), NEW t \in m.pool, \A p \in m.pool : ~Spends(t, p)
    PROVE  /\ PoolOK(RemoveStaged(m, {t}, TRUE), {})
           /\ RemoveStaged(m, {t}, TRUE).pool = m.pool \ {t}
  <1> DEFINE n == RemoveStaged(m, {t}, TRUE)
             S == {t}
  <1>1. GraphOK(m) /\ CountOK(m) /\ m \in PoolRecord /\ LinkOK(m, {}, {})
    BY LinkGraph DEF PoolOK
  <1>2. /\ m.pool \in SUBSET Tx /\ m.parents \in Links /\ m.children \in Links
    BY <1>1, GraphFacts
  <1>3. t \in Tx
    BY <1>2
  <1>6. \A p, u \in Tx : p \in m.parents[u] <=> p \in m.pool /\ u \in m.pool /\ Spends(u, p)
    BY <1>1 DEF LinkOK
  <1>7. m.parents[t] = {}
    <2>1. m.parents[t] \subseteq Tx
      BY <1>2, <1>3 DEF Links
    <2> QED
      BY <1>3, <1>6, <2>1
  <1>8. GraphOK(n) /\ CountOK(n)
    BY <1>1, <1>7, RemoveRoot
  <1>9. Left(n, m, S)
    BY <1>1, <1>3, RemoveStagedLowerAnc
  <1> HIDE DEF n
  <1>10. n.pool = m.pool \ S /\ n.parents = Without(m.parents, S)
    BY <1>9 DEF Left
  <1>11. LinkOK(n, {}, {})
    <2>1. \A p, u \in Tx : u \in n.children[p] <=> p \in n.parents[u]
      BY <1>8 DEF GraphOK, Converse
    <2>2. ASSUME NEW p \in Tx, NEW u \in Tx
          PROVE  p \in n.parents[u] <=> p \in n.pool /\ u \in n.pool /\ Spends(u, p)
      <3>1. n.parents[u] = IF u \in S THEN {} ELSE m.parents[u] \ S
        BY <1>10 DEF Without
      <3> QED
        BY <1>6, <1>10, <3>1
    <2> QED
      BY <2>1, <2>2 DEF LinkOK
  <1>12. PoolOK(n, {})
    BY <1>8, <1>11 DEF PoolOK, GraphOK
  <1> QED
    BY <1>10, <1>12 DEF n

(* A new entry, on its own or on its way back from the chain. *)
LEMMA AddOK ==
    ASSUME NEW m, NEW back \in SUBSET Tx, NEW new \in SUBSET Tx, PoolOK(m, back),
           NEW t \in Tx \ m.pool, ~Spends(t, t),
           new = back \cup {t} \/ (new = {} /\ back = {}), t \notin back,
           \A u \in m.pool : Spends(u, t) => t \in new /\ u \notin back
    PROVE  PoolOK(addUnchecked(m, t), new) /\ addUnchecked(m, t).pool = m.pool \cup {t}
  <1> DEFINE n == addUnchecked(m, t)
             P == ParentsInPool(m, t)
  <1>1. GraphOK(m) /\ CountOK(m) /\ m \in PoolRecord /\ LinkOK(m, back, back)
    BY LinkGraph DEF PoolOK
  <1>2. m.pool \in SUBSET Tx
    BY <1>1, GraphFacts
  <1>3. n.pool = m.pool \cup {t} /\ n.parents[t] = P /\ \A u \in Tx : u # t => n.parents[u] = m.parents[u]
    BY <1>1, AddIs
  <1>4. GraphOK(n) /\ CountOK(n)
    BY <1>1, AddCounts
  <1> HIDE DEF n
  <1>5. \A p : p \in P <=> p \in m.pool /\ Spends(t, p)
    BY DEF ParentsInPool, Spends
  <1> HIDE DEF P
  <1>6. \A p, u \in Tx : p \in m.parents[u] <=> /\ p \in m.pool /\ u \in m.pool
                                                /\ Spends(u, p) /\ (p \in back => u \in back)
    BY <1>1 DEF LinkOK
  <1>7. LinkOK(n, new, new)
    <2>1. \A p, u \in Tx : u \in n.children[p] <=> p \in n.parents[u]
      BY <1>4 DEF GraphOK, Converse
    <2>2. ASSUME NEW p \in Tx, NEW u \in Tx
          PROVE  p \in n.parents[u] <=> /\ p \in n.pool /\ u \in n.pool
                                        /\ Spends(u, p) /\ (p \in new => u \in new)
      <3>1. CASE u = t
        BY <1>3, <1>5, <3>1
      <3>2. CASE u # t /\ p = t
        BY <1>3, <1>6, <3>2
      <3>3. CASE u # t /\ p # t
        BY <1>3, <1>6, <3>3
      <3> QED
        BY <3>1, <3>2, <3>3
    <2> QED
      BY <2>1, <2>2 DEF LinkOK
  <1>8. PoolOK(n, new)
    BY <1>4, <1>7 DEF PoolOK, GraphOK
  <1> QED
    BY <1>3, <1>8 DEF n

(* Before the first turn of the loop the counts are as the loop needs them: *)
(* no link leads from what came back to what was there.                     *)
LEMMA RelinkStarts ==
    ASSUME NEW m, NEW back \in SUBSET Tx, PoolOK(m, back)
    PROVE  RelinkOK(m, back, back)
  <1>1. GraphOK(m) /\ CountOK(m) /\ m \in PoolRecord /\ LinkOK(m, back, back)
    BY LinkGraph DEF PoolOK
  <1>2. m.pool \in SUBSET Tx /\ m.parents \in Links /\ m.children \in Links
    BY <1>1, GraphFacts
  <1>3. \A p, u \in Tx : p \in m.parents[u] => (p \in back => u \in back)
    BY <1>1 DEF LinkOK
  <1>4. \A p, u \in Tx : u \in m.children[p] <=> p \in m.parents[u]
    BY <1>1 DEF LinkOK
  <1> DEFINE C == Tx \ back
  <1>5. Closed(m.parents, C)
    BY <1>2, <1>3 DEF Closed, Links
  <1>6. Closed(m.children, back)
    BY <1>2, <1>3, <1>4 DEF Closed, Links
  <1> HIDE DEF C
  <1>7. ASSUME NEW u \in Tx \ back PROVE Anc(m, u) \ back = Anc(m, u)
    <2>1. u \in C
      BY DEF C
    <2>2. Anc(m, u) \subseteq C
      BY <1>2, <1>5, <2>1, ReachOneLeast DEF Anc
    <2> QED
      BY <2>2 DEF C
  <1>8. ASSUME NEW u \in back PROVE Des(m, u) \cap back = Des(m, u)
    <2>1. Des(m, u) \subseteq back
      BY <1>2, <1>6, ReachOneLeast DEF Des
    <2> QED
      BY <2>1
  <1>9. RelinkCountOK(m, back, back)
    <2> SUFFICES ASSUME NEW u \in Tx
                 PROVE  /\ m.anc[u] = IF u \notin m.pool THEN 0
                                      ELSE IF u \in back THEN Cardinality(Anc(m, u))
                                      ELSE Cardinality(Anc(m, u) \ back)
                        /\ m.desc[u] = IF u \notin m.pool THEN 0
                                       ELSE IF u \in back THEN Cardinality(Des(m, u) \cap back)
                                       ELSE Cardinality(Des(m, u))
      BY DEF RelinkCountOK
    <2>1. /\ m.anc[u] = IF u \in m.pool THEN Cardinality(Anc(m, u)) ELSE 0
          /\ m.desc[u] = IF u \in m.pool THEN Cardinality(Des(m, u)) ELSE 0
      BY <1>1 DEF CountOK
    <2>2. CASE u \in back
      BY <1>8, <2>1, <2>2
    <2>3. CASE u \notin back
      BY <1>7, <2>1, <2>3
    <2> QED
      BY <2>2, <2>3
  <1> QED
    BY <1>1, <1>9 DEF RelinkOK

LEMMA RelinkTurns ==
    ASSUME NEW m, NEW back \in SUBSET Tx, NEW rest \in SUBSET back, NEW t \in rest,
           RelinkOK(m, back, rest), BackOK(back, m.pool),
           \A u \in rest, p \in back \ rest : ~Spends(u, p)
    PROVE  /\ RelinkOK(UpdateTransactionsFromBlock(m, t, back), back, rest \ {t})
           /\ UpdateTransactionsFromBlock(m, t, back).pool = m.pool
  <1> DEFINE n == UpdateTransactionsFromBlock(m, t, back)
  <1>1. m \in PoolRecord /\ LinkOK(m, back, rest) /\ RelinkCountOK(m, back, rest)
    BY DEF RelinkOK
  <1>2. GraphOK(m)
    BY <1>1, LinkGraph
  <1>3. Turn(m, back, rest)
    BY <1>1, <1>2 DEF Turn, BackOK
  <1>4. rest \in SUBSET Tx /\ t \in m.pool
    BY DEF BackOK
  <1>5. LinkOK(n, back, rest \ {t})
    BY <1>3, <1>4, TurnLinks
  <1>6. GraphOK(n) /\ RelinkCountOK(n, back, rest \ {t})
    BY <1>1, <1>3, <1>4, TurnCounts
  <1>7. Relinked(n, m, t, back)
    BY <1>2, <1>4, LinkIs
  <1> HIDE DEF n
  <1>8. n.pool = m.pool
    BY <1>7 DEF Relinked
  <1> QED
    BY <1>5, <1>6, <1>8 DEF RelinkOK, GraphOK, n

(* After the last turn links and counts are complete. *)
LEMMA RelinkEnds ==
    ASSUME NEW m, NEW back \in SUBSET Tx, RelinkOK(m, back, {})
    PROVE  PoolOK(m, {})
  <1>1. m \in PoolRecord /\ LinkOK(m, back, {}) /\ RelinkCountOK(m, back, {})
    BY DEF RelinkOK
  <1>2. LinkOK(m, {}, {})
    BY <1>1 DEF LinkOK
  <1>3. CountOK(m)
    <2> SUFFICES ASSUME NEW u \in Tx
                 PROVE  /\ m.anc[u] = IF u \in m.pool THEN Cardinality(Anc(m, u)) ELSE 0
                        /\ m.desc[u] = IF u \in m.pool THEN Cardinality(Des(m, u)) ELSE 0
      BY DEF CountOK
    <2>1. Anc(m, u) \ {} = Anc(m, u)
      OBVIOUS
    <2>2. /\ m.anc[u] = IF u \notin m.pool THEN 0
                        ELSE IF u \in back THEN Cardinality(Anc(m, u))
                        ELSE Cardinality(Anc(m, u) \ {})
          /\ m.desc[u] = IF u \notin m.pool THEN 0
                         ELSE IF u \in {} THEN Cardinality(Des(m, u) \cap back)
                         ELSE Cardinality(Des(m, u))
      BY <1>1 DEF RelinkCountOK
    <2> QED
      BY <2>1, <2>2
  <1> QED
    BY <1>1, <1>2, <1>3 DEF PoolOK

LEMMA SmallerPool ==
    ASSUME NEW pool \in SUBSET Tx, NEW kept \in SUBSET pool, Cardinality(pool) <= MaxPool
    PROVE  Cardinality(kept) <= MaxPool
  <1>1. IsFiniteSet(pool) /\ IsFiniteSet(kept)
    BY MempoolAssumption, FS_Subset
  <1>2. Cardinality(kept) <= Cardinality(pool)
    BY <1>1, FS_Subset
  <1>3. Cardinality(kept) \in Nat /\ Cardinality(pool) \in Nat /\ MaxPool \in Nat
    BY <1>1, FS_CardinalityType, MempoolAssumption
  <1> QED
    BY SMTT(60), <1>2, <1>3
-----------------------------------------------------------------------------
(* Each step keeps the invariant. *)

LEMMA RemovePlaced ==
    ASSUME NEW ch, NEW m, NEW n, m.pool \in SUBSET Tx, NEW X, NEW back, Cut(n, m, X, back),
           NEW Q \in SUBSET Tx, NEW R \in SUBSET Q, NEW pending,
           Placed(ch, m.pool, Q, back, pending),
           \A t \in n.pool, q \in Q \ R : ~Spends(t, q)
    PROVE  Placed(ch, n.pool, R, back, pending)
  <1>1. n.pool \in SUBSET m.pool /\ \A t \in n.pool, p \in m.pool \ n.pool : ~Spends(t, p)
    BY DEF Cut
  <1>2. QueueOK(Q, ch, m.pool, back, pending) /\ CoinOK(ch, m.pool, Q, pending)
    BY DEF Placed
  <1>3. CoinOK(ch, n.pool, R, pending)
    BY <1>1, <1>2, CoinShrink
  <1>4. QueueOK(R, ch, n.pool, back, pending)
    BY <1>1, <1>2 DEF QueueOK
  <1> QED
    BY <1>3, <1>4 DEF Placed

LEMMA PoolIn ==
    ASSUME NEW m, NEW back, PoolOK(m, back)
    PROVE  m.pool \in SUBSET Tx
  BY DEF PoolOK, PoolRecord

(* A removal between two loops. *)
LEMMA RestingRemove ==
    ASSUME NEW m, NEW X \in SUBSET m.pool, PoolOK(m, {})
    PROVE  Cut(RemoveStaged(m, CalculateDescendants(m, X), FALSE), m, X, {})
  <1>1. BackOK({}, m.pool)
    BY DEF BackOK
  <1> DEFINE back == {}
  <1>2. back \in SUBSET Tx /\ X \cap back = {} /\ PoolOK(m, back) /\ BackOK(back, m.pool)
    BY <1>1
  <1> HIDE DEF back
  <1>3. Cut(RemoveStaged(m, CalculateDescendants(m, X), FALSE), m, X, back)
    BY <1>2, RemoveWith
  <1> QED
    BY <1>3 DEF back

(* ... and nothing else changes but the queue. *)
LEMMA RestingCut ==
    ASSUME NEW ch, NEW m, NEW n, PoolOK(m, {}), NEW X, Cut(n, m, X, {}),
           Placed(ch, m.pool, {}, {}, {})
    PROVE  PoolOK(n, {}) /\ n.pool \subseteq m.pool /\ Placed(ch, n.pool, {}, {}, {})
  <1>1. m.pool \in SUBSET Tx
    BY PoolIn
  <1> DEFINE Q == {}
  <1>2. Q \in SUBSET Tx /\ Q \in SUBSET Q /\ \A t \in n.pool, q \in Q \ Q : ~Spends(t, q)
    OBVIOUS
  <1>3. Placed(ch, m.pool, Q, {}, {})
    OBVIOUS
  <1> HIDE DEF Q
  <1>4. Placed(ch, n.pool, Q, {}, {})
    BY <1>1, <1>2, <1>3, RemovePlaced
  <1> QED
    BY <1>4 DEF Cut, Q

LEMMA InitIInv ==
    ASSUME Init PROVE IInv
  <1>1. /\ chain = <<>> /\ mp = Empty /\ queue = <<>> /\ readded = <<>> /\ todo = <<>>
        /\ at = "idle" /\ add = FALSE
    BY DEF Init
  <1>2. ChainOK(<<>>)
    BY SMTT(60) DEF ChainOK
  <1> DEFINE e == Empty
  <1>3. /\ e \in PoolRecord /\ e.pool = {}
        /\ \A t \in Tx : e.parents[t] = {} /\ e.children[t] = {} /\ e.anc[t] = 0 /\ e.desc[t] = 0
    BY DEF Empty, PoolRecord
  <1> HIDE DEF e
  <1>4. LinkOK(e, {}, {}) /\ CountOK(e)
    BY <1>3 DEF LinkOK, CountOK
  <1>5. PoolOK(e, {})
    BY <1>3, <1>4 DEF PoolOK
  <1>6. Placed(<<>>, {}, {}, {}, {})
    BY DEF Placed, QueueOK, CoinOK
  <1>7. Cardinality({}) <= MaxPool
    BY SMTT(60), FS_EmptySet, MempoolAssumption
  <1>8. mp = e
    BY <1>1 DEF e
  <1>9. Resting
    BY <1>1, <1>3, <1>5, <1>6, <1>7, <1>8, EmptyList DEF Resting
  <1> QED
    BY <1>1, <1>2, <1>9, EmptyList DEF IInv

LEMMA AcceptIInv ==
    ASSUME IInv, NEW t \in Tx, AcceptToMemoryPool(t) PROVE IInv'
  <1>1. /\ at = "idle" /\ PreChecks(mp, chain, t) /\ mp' = addUnchecked(mp, t) /\ at' = "expire"
        /\ chain' = chain /\ queue' = queue /\ readded' = readded /\ todo' = todo /\ add' = add
    BY DEF AcceptToMemoryPool
  <1>2. ChainOK(chain) /\ add \in BOOLEAN /\ Resting
    BY <1>1 DEF IInv, Connecting, Resurrecting, Relinking
  <1>3. /\ queue = <<>> /\ readded = <<>> /\ todo = <<>> /\ PoolOK(mp, {})
        /\ QueueOK({}, chain, mp.pool, {}, {}) /\ CoinOK(chain, mp.pool, {}, {})
        /\ \A u \in mp.pool : Minable(chain, u)
    BY <1>1, <1>2, EmptyList DEF Resting, Placed
  <1>4. mp.pool \in SUBSET Tx /\ t \notin mp.pool
    BY <1>1, <1>3, PoolIn DEF PreChecks
  <1>5. t \notin Confirmed(chain) /\ ~Spends(t, t) /\ \A u \in mp.pool : ~Spends(u, t)
    BY <1>1, <1>2, <1>3, <1>4, FreshTx
  <1>6. PoolOK(addUnchecked(mp, t), {}) /\ addUnchecked(mp, t).pool = mp.pool \cup {t}
    BY <1>3, <1>4, <1>5, AddOK
  <1>7. CoinOK(chain, mp.pool \cup {t}, {} \ {t}, {})
    BY <1>1, <1>3, <1>5, CoinAdd
  <1>8. {} \ {t} = {}
    OBVIOUS
  <1>9. CoinOK(chain, mp'.pool, {}, {}) /\ PoolOK(mp', {}) /\ mp'.pool = mp.pool \cup {t}
    BY <1>1, <1>6, <1>7, <1>8
  <1>10. QueueOK({}, chain, mp'.pool, {}, {})
    BY DEF QueueOK
  <1>11. \A u \in mp'.pool : Minable(chain, u)
    BY <1>1, <1>3, <1>9, AcceptedMinable
  <1>12. Resting'
    BY <1>1, <1>3, <1>9, <1>10, <1>11, EmptyList DEF Resting, Placed
  <1> QED
    BY <1>1, <1>2, <1>3, <1>12, EmptyList DEF IInv

LEMMA ExpireIInv ==
    ASSUME IInv, Expire PROVE IInv'
  <1>1. PICK old \in SUBSET mp.pool : mp' = RemoveStaged(mp, CalculateDescendants(mp, old), FALSE)
    BY DEF Expire
  <1>2. /\ at = "expire" /\ at' = "trim"
        /\ chain' = chain /\ queue' = queue /\ readded' = readded /\ todo' = todo /\ add' = add
    BY DEF Expire
  <1>3. ChainOK(chain) /\ add \in BOOLEAN /\ Resting
    BY <1>2 DEF IInv, Connecting, Resurrecting, Relinking
  <1>4. /\ queue = <<>> /\ readded = <<>> /\ todo = <<>> /\ PoolOK(mp, {})
        /\ Placed(chain, mp.pool, {}, {}, {})
        /\ \A u \in mp.pool : Minable(chain, u)
    BY <1>2, <1>3, EmptyList DEF Resting
  <1>5. PoolOK(mp', {}) /\ mp'.pool \subseteq mp.pool /\ Placed(chain, mp'.pool, {}, {}, {})
    <2>1. Cut(RemoveStaged(mp, CalculateDescendants(mp, old), FALSE), mp, old, {})
      BY <1>4, RestingRemove
    <2>2. Cut(mp', mp, old, {})
      BY <1>1, <2>1
    <2> QED
      BY <1>4, <2>2, RestingCut
  <1>6. Resting'
    BY <1>2, <1>4, <1>5, EmptyList DEF Resting
  <1> QED
    BY <1>2, <1>3, <1>4, <1>6, EmptyList DEF IInv

LEMMA TrimIInv ==
    ASSUME IInv, TrimToSize PROVE IInv'
  <1>1. \/ /\ Cardinality(mp.pool) > MaxPool
           /\ \E t \in mp.pool : mp' = RemoveStaged(mp, CalculateDescendants(mp, {t}), FALSE)
        \/ mp' = mp
    BY DEF TrimToSize
  <1>2. /\ at = "trim" /\ at' = TrimAgain(mp')
        /\ chain' = chain /\ queue' = queue /\ readded' = readded /\ todo' = todo /\ add' = add
    BY DEF TrimToSize
  <1>3. ChainOK(chain) /\ add \in BOOLEAN /\ Resting
    BY <1>2 DEF IInv, Connecting, Resurrecting, Relinking
  <1>4. /\ queue = <<>> /\ readded = <<>> /\ todo = <<>> /\ PoolOK(mp, {})
        /\ Placed(chain, mp.pool, {}, {}, {})
        /\ \A u \in mp.pool : Minable(chain, u)
    BY <1>2, <1>3, EmptyList DEF Resting
  <1>5. PoolOK(mp', {}) /\ mp'.pool \subseteq mp.pool /\ Placed(chain, mp'.pool, {}, {}, {})
    <2>1. CASE mp' = mp
      BY <1>4, <2>1
    <2>2. CASE mp' # mp
      <3>1. PICK t \in mp.pool : mp' = RemoveStaged(mp, CalculateDescendants(mp, {t}), FALSE)
        BY <1>1, <2>2
      <3>2. {t} \in SUBSET mp.pool
        OBVIOUS
      <3>3. Cut(RemoveStaged(mp, CalculateDescendants(mp, {t}), FALSE), mp, {t}, {})
        BY <1>4, <3>2, RestingRemove
      <3>4. Cut(mp', mp, {t}, {})
        BY <3>1, <3>3
      <3> QED
        BY <1>4, <3>4, RestingCut
    <2> QED
      BY <2>1, <2>2
  <1>6. at' \in {"idle", "trim"} /\ (at' = "idle" => Cardinality(mp'.pool) <= MaxPool)
    <2>1. mp'.pool \subseteq Tx
      BY <1>5, PoolIn
    <2>2. Cardinality(mp'.pool) \in Nat /\ MaxPool \in Nat
      BY <2>1, MempoolAssumption, FS_Subset, FS_CardinalityType
    <2> QED
      BY SMTT(60), <1>2, <2>2 DEF TrimAgain
  <1>7. Resting'
    BY <1>2, <1>4, <1>5, <1>6, EmptyList DEF Resting
  <1> QED
    BY <1>2, <1>3, <1>4, <1>7, EmptyList DEF IInv

LEMMA ConnectTipIInv ==
    ASSUME IInv, NEW block \in Blocks, ConnectTip(block) PROVE IInv'
  <1>1. /\ at \in {"idle", "disconnect", "connect"} /\ ConnectBlock(chain, block)
        /\ chain' = Append(chain, block) /\ todo' = block
        /\ at' = IF at = "idle" THEN "block" ELSE "reorgBlock"
        /\ mp' = mp /\ queue' = queue /\ readded' = readded /\ add' = add
    BY DEF ConnectTip
  <1>2. /\ ChainOK(chain) /\ add \in BOOLEAN /\ queue \in Seq(Tx) /\ Backwards(queue) /\ Resting
    BY <1>1 DEF IInv, Connecting, Resurrecting, Relinking
  <1>3. /\ readded = <<>> /\ PoolOK(mp, {})
        /\ QueueOK(ToSet(queue), chain, mp.pool, {}, {})
        /\ CoinOK(chain, mp.pool, ToSet(queue), {})
    BY <1>2 DEF Resting, Placed
  <1>4. /\ Confirmed(chain') = Confirmed(chain) \cup ToSet(block)
        /\ chain'[Len(chain) + 1] = block /\ Len(chain') = Len(chain) + 1
        /\ ChainOK(chain')
    BY <1>1, <1>2, ConnectIs
  <1>5. CoinOK(chain', mp.pool, ToSet(queue), ToSet(block))
    BY <1>3, <1>4, CoinConnect
  <1>6. QueueOK(ToSet(queue), chain', mp.pool, {}, ToSet(block))
    BY <1>3, <1>4 DEF QueueOK
  <1>7. block \in Seq(Tx) /\ DOMAIN block = 1 .. Len(block) /\ Len(block) \in Nat
    BY BlockIs
  <1>8. Last(chain') = block
    BY <1>4 DEF Last
  <1>9. Rest(block, chain')
    <2>1. chain' # <<>>
      BY SMTT(60), <1>1, <1>2 DEF ChainOK
    <2>2. \A i \in DOMAIN block : block[i] = block[Len(block) - Len(block) + i]
      BY SMTT(60), <1>7
    <2> QED
      BY SMTT(60), <1>7, <1>8, <2>1, <2>2 DEF Rest
  <1>10. ASSUME at = "idle"
         PROVE  /\ queue = <<>> /\ Cardinality(mp.pool) <= MaxPool
                /\ \A t \in mp.pool : Minable(chain', t)
    <2>1. /\ queue = <<>> /\ Cardinality(mp.pool) <= MaxPool
          /\ \A t \in mp.pool : Minable(chain, t)
      BY <1>2, <1>10 DEF Resting
    <2>2. CoinOK(chain, mp.pool, {}, {}) /\ mp.pool \in SUBSET Tx
      BY <1>3, <2>1, EmptyList, PoolIn
    <2>3. \A t \in mp.pool : Minable(Append(chain, block), t)
      BY <1>1, <1>2, <2>1, <2>2, ConnectMinable
    <2> QED
      BY <1>1, <2>1, <2>3
  <1>11. at' \in {"block", "reorgBlock"} /\ (at' = "block" => at = "idle")
    BY <1>1
  <1>12. Connecting'
    BY <1>1, <1>3, <1>5, <1>6, <1>9, <1>10, <1>11 DEF Connecting, Placed
  <1> QED
    BY <1>1, <1>2, <1>4, <1>12 DEF IInv

(* A turn of the loop: t leaves alone, what conflicts with it leaves with   *)
(* all that depends on it.                                                  *)
LEMMA BlockTurn ==
    ASSUME NEW m, PoolOK(m, {}), NEW t \in Tx,
           t \in m.pool => \A p \in m.pool : ~Spends(t, p)
    PROVE  /\ PoolOK(removeForBlock(m, t), {})
           /\ removeForBlock(m, t).pool \subseteq m.pool
           /\ t \notin removeForBlock(m, t).pool
           /\ \A x \in removeForBlock(m, t).pool, p \in (m.pool \ removeForBlock(m, t).pool) \ {t} :
                 ~Spends(x, p)
           /\ \A x \in removeForBlock(m, t).pool : Ins[x] \cap Ins[t] = {}
  <1> DEFINE k == RemoveConfirmed(m, t)
             X == Spenders(k, Ins[t]) \ {t}
             n == removeForBlock(m, t)
  <1>1. PoolOK(k, {}) /\ k.pool = m.pool \ {t}
    <2>1. CASE t \in m.pool
      BY <2>1, RemoveRootOK DEF RemoveConfirmed
    <2>2. CASE t \notin m.pool
      BY <2>2 DEF RemoveConfirmed
    <2> QED
      BY <2>1, <2>2
  <1>2. n = RemoveStaged(k, CalculateDescendants(k, X), FALSE)
    BY DEF removeForBlock, removeConflicts
  <1> HIDE DEF k, n
  <1>3. X \in SUBSET k.pool /\ \A x \in k.pool \ X : x = t \/ Ins[x] \cap Ins[t] = {}
    BY DEF Spenders
  <1> HIDE DEF X
  <1>4. Cut(n, k, X, {})
    BY <1>1, <1>2, <1>3, RestingRemove
  <1>5. /\ n.pool \subseteq k.pool /\ n.pool \cap X = {} /\ PoolOK(n, {})
        /\ \A x \in n.pool, p \in k.pool \ n.pool : ~Spends(x, p)
    BY <1>4 DEF Cut
  <1>6. n.pool \subseteq m.pool /\ t \notin n.pool
    BY <1>1, <1>5
  <1>7. \A x \in n.pool, p \in (m.pool \ n.pool) \ {t} : ~Spends(x, p)
    BY <1>1, <1>5
  <1>8. \A x \in n.pool : Ins[x] \cap Ins[t] = {}
    BY <1>1, <1>3, <1>5
  <1> QED
    BY <1>5, <1>6, <1>7, <1>8 DEF n

LEMMA RemoveForBlockIInv ==
    ASSUME IInv, RemoveForBlock PROVE IInv'
  <1> DEFINE t == Head(todo)
             n == removeForBlock(mp, t)
             Q == ToSet(queue)
  <1>1. /\ at \in {"block", "reorgBlock"} /\ todo # <<>>
        /\ mp' = n /\ queue' = Erase(queue, t) /\ todo' = Tail(todo)
        /\ chain' = chain /\ readded' = readded /\ at' = at /\ add' = add
    BY DEF RemoveForBlock
  <1>2. /\ ChainOK(chain) /\ add \in BOOLEAN /\ queue \in Seq(Tx) /\ Backwards(queue) /\ Connecting
    BY <1>1 DEF IInv, Resting, Resurrecting, Relinking
  <1>3. /\ readded = <<>> /\ Rest(todo, chain) /\ PoolOK(mp, {})
        /\ QueueOK(Q, chain, mp.pool, {}, ToSet(todo))
        /\ CoinOK(chain, mp.pool, Q, ToSet(todo))
        /\ at = "block" => /\ queue = <<>>
                           /\ \A u \in mp.pool : Minable(chain, u)
                           /\ Cardinality(mp.pool) <= MaxPool
    BY <1>2 DEF Connecting, Placed
  <1>4. /\ NoRepeat(todo) /\ t \in Confirmed(chain)
        /\ \A p \in Tx : Spends(t, p) => p \in Confirmed(chain) \ ToSet(todo)
        /\ \A u \in Confirmed(chain) : Spends(u, t) => u \in ToSet(Tail(todo))
        /\ Rest(Tail(todo), chain)
    BY <1>1, <1>2, <1>3, RestIs
  <1>5. todo \in Seq(Tx) /\ ToSet(todo) \in SUBSET Tx /\ Q \in SUBSET Tx
    BY <1>2, <1>3, ToSetIn DEF Rest
  <1>6. ToSet(Tail(todo)) = ToSet(todo) \ {t}
    BY <1>1, <1>4, <1>5, TailIs
  <1>7. Confirmed(chain) \in SUBSET Tx /\ t \in Tx
    BY <1>2, <1>4, ChainIs
  <1>8. mp.pool \in SUBSET Tx
    BY <1>3, PoolIn
  <1>9. \A p \in mp.pool : ~Spends(t, p)
    BY <1>3, <1>4, <1>8 DEF CoinOK
  <1> HIDE DEF t
  <1>10. /\ PoolOK(n, {}) /\ n.pool \subseteq mp.pool /\ t \notin n.pool
         /\ \A x \in n.pool, p \in (mp.pool \ n.pool) \ {t} : ~Spends(x, p)
         /\ \A x \in n.pool : Ins[x] \cap Ins[t] = {}
    BY <1>3, <1>7, <1>9, BlockTurn
  <1> HIDE DEF n, Q
  <1> DEFINE pool == mp.pool
             kept == n.pool
             pending == ToSet(todo)
  <1>11. CoinOK(chain, kept, Q \ {t}, pending \ {t})
    <2>1. /\ pool \in SUBSET Tx /\ pending \in SUBSET Tx /\ CoinOK(chain, pool, Q, pending)
          /\ \A u \in Confirmed(chain) : Spends(u, t) => u \in pending \ {t}
          /\ kept \in SUBSET pool /\ t \notin kept
          /\ \A x \in kept, p \in (pool \ kept) \ {t} : ~Spends(x, p)
          /\ \A x \in kept : Ins[x] \cap Ins[t] = {}
      BY <1>3, <1>4, <1>5, <1>6, <1>8, <1>10
    <2> HIDE DEF pool, kept, pending
    <2> QED
      BY <1>4, <1>5, <1>7, <2>1, CoinTurn
  <1>12. QueueOK(Q \ {t}, chain, kept, {}, pending \ {t})
    BY <1>3, <1>10 DEF QueueOK
  <1>13. queue' \in Seq(Tx) /\ ToSet(queue') = Q \ {t}
    BY <1>1, <1>2, <1>7, EraseIs DEF Backwards, Q
  <1>14. Backwards(queue')
    BY <1>1, <1>2, <1>7, BackwardsErase
  <1>15. ASSUME at = "block"
         PROVE  queue' = <<>> /\ Cardinality(n.pool) <= MaxPool /\ \A u \in n.pool : Minable(chain, u)
    <2>1. queue' = <<>>
      BY <1>1, <1>3, <1>15, EmptyList DEF Erase
    <2>2. Cardinality(n.pool) <= MaxPool
      BY <1>3, <1>8, <1>10, <1>15, SmallerPool
    <2> QED
      BY <1>3, <1>10, <1>15, <2>1, <2>2
  <1>16. Placed(chain, n.pool, ToSet(queue'), {}, ToSet(Tail(todo)))
    BY <1>6, <1>11, <1>12, <1>13 DEF Placed
  <1>17. Connecting'
    BY <1>1, <1>3, <1>4, <1>10, <1>15, <1>16 DEF Connecting
  <1> QED
    BY <1>1, <1>2, <1>13, <1>14, <1>17 DEF IInv

LEMMA TipConnectedIInv ==
    ASSUME IInv, TipConnected PROVE IInv'
  <1>1. /\ at \in {"block", "reorgBlock"} /\ todo = <<>> /\ at' = IF at = "block" THEN "idle" ELSE "connect"
        /\ chain' = chain /\ mp' = mp /\ queue' = queue /\ readded' = readded /\ todo' = todo
        /\ add' = add
    BY DEF TipConnected
  <1>2. /\ ChainOK(chain) /\ add \in BOOLEAN /\ queue \in Seq(Tx) /\ Backwards(queue) /\ Connecting
    BY <1>1 DEF IInv, Resting, Resurrecting, Relinking
  <1>3. at' \in {"idle", "connect"} /\ (at' = "idle" => at = "block")
    BY <1>1
  <1>4. Resting'
    BY <1>1, <1>2, <1>3, EmptyList DEF Connecting, Resting
  <1> QED
    BY <1>1, <1>2, <1>4 DEF IInv

LEMMA DisconnectTipIInv ==
    ASSUME IInv, DisconnectTip PROVE IInv'
  <1> DEFINE tip == Last(chain)
             B == ToSet(tip)
             Q == ToSet(queue)
             c == Front(chain)
  <1>1. /\ at \in {"idle", "disconnect"} /\ chain # <<>>
        /\ queue' = queue \o Reverse(tip) /\ chain' = c /\ at' = "drop"
        /\ mp' = mp /\ readded' = readded /\ todo' = todo /\ add' = add
    BY DEF DisconnectTip
  <1>2. /\ ChainOK(chain) /\ add \in BOOLEAN /\ queue \in Seq(Tx) /\ Backwards(queue) /\ Resting
    BY <1>1 DEF IInv, Connecting, Resurrecting, Relinking
  <1>3. /\ readded = <<>> /\ todo = <<>> /\ PoolOK(mp, {})
        /\ QueueOK(Q, chain, mp.pool, {}, {}) /\ CoinOK(chain, mp.pool, Q, {})
    BY <1>2 DEF Resting, Placed
  <1>4. /\ tip \in Blocks /\ Confirmed(chain) = Confirmed(c) \cup B
        /\ B \cap Confirmed(c) = {} /\ ChainOK(c)
        /\ \A i, j \in DOMAIN tip : Spends(tip[i], tip[j]) => j < i
    BY <1>1, <1>2, DisconnectIs
  <1>5. /\ tip \in Seq(Tx) /\ NoRepeat(tip) /\ B \in SUBSET Tx
        /\ DOMAIN tip = 1 .. Len(tip) /\ Len(tip) \in Nat
    BY <1>4, BlockIs
  <1>6. /\ Confirmed(chain) \in SUBSET Tx
        /\ \A t \in Confirmed(chain), u \in Tx : Spends(t, u) => u \in Confirmed(chain)
    BY <1>2, ChainIs
  <1>7. mp.pool \in SUBSET Tx /\ Q \in SUBSET Tx
    BY <1>2, <1>3, PoolIn, ToSetIn
  <1>8. mp.pool \cap Confirmed(chain) = {} /\ Q \cap Confirmed(chain) = {}
    BY <1>3 DEF CoinOK, QueueOK
  <1>9. Forwards(tip)
    <2>1. ASSUME NEW i \in DOMAIN tip, NEW j \in DOMAIN tip, i <= j, Spends(tip[i], tip[j]) PROVE FALSE
      <3>1. j < i
        BY <1>4, <2>1
      <3> QED
        BY SMTT(60), <1>5, <2>1, <3>1
    <2> QED
      BY <1>5, <2>1 DEF Forwards
  <1>10. Reverse(tip) \in Seq(Tx) /\ ToSet(Reverse(tip)) = B /\ Backwards(Reverse(tip))
    BY <1>5, <1>9, ReverseIs, BackwardsReverse
  <1> HIDE DEF tip, B, Q, c
  <1>11. Q \cap B = {} /\ \A t \in B, u \in Q : ~Spends(t, u)
    BY <1>4, <1>6, <1>7, <1>8
  <1>12. queue' \in Seq(Tx) /\ Backwards(queue') /\ ToSet(queue') = Q \cup B
    BY <1>1, <1>2, <1>10, <1>11, BackwardsConcat DEF Q
  <1>13. CoinOK(c, mp.pool, Q \cup B, {})
    BY <1>3, <1>4, CoinDisconnect
  <1>14. QueueOK(Q \cup B, c, mp.pool, {}, {})
    <2>1. (Q \cup B) \cap mp.pool = {}
      BY <1>3, <1>4, <1>8 DEF QueueOK
    <2>2. (Q \cup B) \cap Confirmed(c) = {}
      BY <1>4, <1>8
    <2>3. \A t \in Q \cup B, p \in mp.pool : ~Spends(t, p)
      BY <1>3, <1>4, <1>6, <1>7, <1>8 DEF QueueOK
    <2> QED
      BY <2>1, <2>2, <2>3 DEF QueueOK
  <1>15. Resting'
    BY <1>1, <1>3, <1>12, <1>13, <1>14 DEF Resting, Placed
  <1> QED
    BY <1>1, <1>2, <1>4, <1>12, <1>15 DEF IInv

(* A queued transaction is given up with all that depends on it. *)
LEMMA DropQueued ==
    ASSUME NEW ch, NEW m, NEW back \in SUBSET Tx, PoolOK(m, back), BackOK(back, m.pool),
           NEW Q \in SUBSET Tx, Placed(ch, m.pool, Q, back, {}), NEW t \in Q,
           NEW n, n = removeRecursive(m, t)
    PROVE  /\ PoolOK(n, back) /\ BackOK(back, n.pool)
           /\ Placed(ch, n.pool, Q \ {t}, back, {})
  <1> DEFINE X == Spenders(m, Outs[t])
             R == Q \ {t}
  <1>1. t \notin m.pool /\ \A a \in back : ~Spends(a, t)
    BY DEF Placed, QueueOK
  <1>2. n = RemoveStaged(m, CalculateDescendants(m, X), FALSE)
    BY <1>1 DEF removeRecursive
  <1>3. X \in SUBSET m.pool /\ X \cap back = {} /\ \A x \in m.pool \ X : ~Spends(x, t)
    BY <1>1 DEF Spenders, Spends
  <1> HIDE DEF X
  <1>4. Cut(n, m, X, back)
    BY <1>2, <1>3, RemoveWith
  <1>5. /\ n.pool \subseteq m.pool /\ n.pool \cap X = {}
        /\ PoolOK(n, back) /\ BackOK(back, n.pool)
    BY <1>4 DEF Cut
  <1>6. R \in SUBSET Q /\ \A x \in n.pool, q \in Q \ R : ~Spends(x, q)
    BY <1>3, <1>5
  <1>7. m.pool \in SUBSET Tx
    BY PoolIn
  <1> HIDE DEF R
  <1>8. Placed(ch, n.pool, R, back, {})
    BY <1>4, <1>6, <1>7, RemovePlaced
  <1> QED
    BY <1>5, <1>8 DEF R

LEMMA LimitQueueIInv ==
    ASSUME IInv, LimitQueue PROVE IInv'
  <1>1. /\ at = "drop" /\ chain' = chain /\ readded' = readded /\ todo' = todo /\ add' = add
    BY DEF LimitQueue
  <1>2. /\ ChainOK(chain) /\ add \in BOOLEAN /\ queue \in Seq(Tx) /\ Backwards(queue) /\ Resting
    BY <1>1 DEF IInv, Connecting, Resurrecting, Relinking
  <1>3. /\ readded = <<>> /\ todo = <<>> /\ PoolOK(mp, {})
        /\ Placed(chain, mp.pool, ToSet(queue), {}, {})
    BY <1>2 DEF Resting
  <1>4. CASE Len(queue) > MaxQueue
    <2> DEFINE t == Head(queue)
               Q == ToSet(queue)
               back == {}
    <2>1. mp' = removeRecursive(mp, t) /\ queue' = Tail(queue) /\ at' = "drop"
      BY <1>1, <1>4 DEF LimitQueue
    <2>2. queue # <<>>
      <3>1. MaxQueue \in Nat
        BY MempoolAssumption
      <3>2. Len(queue) # 0
        BY SMTT(60), <1>2, <1>4, <3>1
      <3> QED
        BY SMTT(60), <1>2, <3>2
    <2>3. NoRepeat(queue)
      BY <1>2 DEF Backwards
    <2>4. t \in Q /\ Tail(queue) \in Seq(Tx) /\ ToSet(Tail(queue)) = Q \ {t} /\ Backwards(Tail(queue))
      BY <1>2, <2>2, <2>3, TailIs, BackwardsTail
    <2>5. Q \in SUBSET Tx /\ back \in SUBSET Tx /\ BackOK(back, mp.pool)
      BY <1>2, ToSetIn DEF BackOK
    <2>6. PoolOK(mp, back) /\ Placed(chain, mp.pool, Q, back, {})
      BY <1>3
    <2> HIDE DEF t, Q, back
    <2>7. PoolOK(mp', back) /\ Placed(chain, mp'.pool, Q \ {t}, back, {})
      BY <2>1, <2>4, <2>5, <2>6, DropQueued
    <2>8. PoolOK(mp', {}) /\ Placed(chain, mp'.pool, ToSet(queue'), {}, {})
      BY <2>1, <2>4, <2>7 DEF back
    <2>9. Resting'
      BY <1>1, <1>3, <2>1, <2>8 DEF Resting
    <2> QED
      BY <1>1, <1>2, <2>1, <2>4, <2>9 DEF IInv
  <1>5. CASE ~(Len(queue) > MaxQueue)
    <2>1. at' = "disconnect" /\ mp' = mp /\ queue' = queue
      BY <1>5 DEF LimitQueue
    <2>2. Resting'
      BY <1>1, <1>3, <2>1 DEF Resting
    <2> QED
      BY <1>1, <1>2, <2>1, <2>2 DEF IInv
  <1> QED
    BY <1>4, <1>5

LEMMA BeginUpdateIInv ==
    ASSUME IInv, BeginUpdate PROVE IInv'
  <1>1. /\ at \in {"disconnect", "connect"} /\ at' = "resurrect" /\ add' \in BOOLEAN
        /\ chain' = chain /\ mp' = mp /\ queue' = queue /\ readded' = readded /\ todo' = todo
    BY DEF BeginUpdate
  <1>2. /\ ChainOK(chain) /\ queue \in Seq(Tx) /\ Backwards(queue) /\ Resting
    BY <1>1 DEF IInv, Connecting, Resurrecting, Relinking
  <1>3. BackOK({}, mp.pool)
    BY DEF BackOK
  <1>4. Resurrecting'
    BY <1>1, <1>2, <1>3, EmptyList DEF Resting, Resurrecting
  <1> QED
    BY <1>1, <1>2, <1>4 DEF IInv

(* A queued transaction comes back. *)
LEMMA ComeBack ==
    ASSUME NEW ch, NEW m, NEW back \in SUBSET Tx, PoolOK(m, back), BackOK(back, m.pool),
           NEW Q \in SUBSET Tx, Placed(ch, m.pool, Q, back, {}), NEW t \in Q,
           PreChecks(m, ch, t), ~Spends(t, t), \A u \in Q \ {t} : ~Spends(t, u),
           NEW n, n = addUnchecked(m, t)
    PROVE  /\ PoolOK(n, back \cup {t}) /\ BackOK(back \cup {t}, n.pool)
           /\ Placed(ch, n.pool, Q \ {t}, back \cup {t}, {})
  <1> DEFINE new == back \cup {t}
             R == Q \ {t}
  <1>1. /\ CoinOK(ch, m.pool, Q, {}) /\ Q \cap m.pool = {} /\ Q \cap Confirmed(ch) = {}
        /\ \A x \in Q, p \in m.pool : Spends(x, p) => p \in back
        /\ \A x \in Q, a \in back : ~Spends(a, x)
    BY DEF Placed, QueueOK
  <1>2. back \subseteq m.pool /\ \A a \in back, p \in m.pool : Spends(a, p) => p \in back
    BY DEF BackOK
  <1>3. t \in Tx \ m.pool /\ t \notin back /\ t \notin Confirmed(ch) /\ new \in SUBSET Tx
    BY <1>1, <1>2
  <1>4. \A u \in m.pool : Spends(u, t) => t \in new /\ u \notin back
    BY <1>1
  <1>4a. new = back \cup {t} \/ (new = {} /\ back = {})
    OBVIOUS
  <1> HIDE DEF new
  <1>5. PoolOK(addUnchecked(m, t), new) /\ addUnchecked(m, t).pool = m.pool \cup {t}
    BY <1>3, <1>4, <1>4a, AddOK
  <1>6. PoolOK(n, new) /\ n.pool = m.pool \cup {t}
    BY <1>5
  <1>7. CoinOK(ch, m.pool \cup {t}, Q \ {t}, {})
    BY <1>1, <1>3, CoinAdd
  <1>8. BackOK(new, n.pool)
    BY <1>1, <1>2, <1>6 DEF BackOK, new
  <1>9. QueueOK(R, ch, n.pool, new, {})
    <2>1. R \cap n.pool = {} /\ R \cap Confirmed(ch) \subseteq {}
      BY <1>1, <1>6
    <2>2. \A x \in R, p \in n.pool : Spends(x, p) => p \in new
      BY <1>1, <1>6 DEF new
    <2>3. \A x \in R, a \in new : ~Spends(a, x)
      BY <1>1 DEF new
    <2> QED
      BY <2>1, <2>2, <2>3 DEF QueueOK
  <1> QED
    BY <1>6, <1>7, <1>8, <1>9 DEF Placed, new

LEMMA ResurrectIInv ==
    ASSUME IInv, Resurrect PROVE IInv'
  <1> DEFINE t == Last(queue)
             Q == ToSet(queue)
             back == ToSet(readded)
  <1>1. /\ at = "resurrect" /\ queue # <<>> /\ queue' = Front(queue)
        /\ chain' = chain /\ todo' = todo /\ at' = at /\ add' = add
        /\ \/ PreChecks(mp, chain, t) /\ mp' = addUnchecked(mp, t) /\ readded' = Append(readded, t)
           \/ mp' = removeRecursive(mp, t) /\ readded' = readded
    BY DEF Resurrect
  <1>2. /\ ChainOK(chain) /\ add \in BOOLEAN /\ queue \in Seq(Tx) /\ Backwards(queue) /\ Resurrecting
    BY <1>1 DEF IInv, Resting, Connecting, Relinking
  <1>3. /\ todo = <<>> /\ readded \in Seq(Tx) /\ Forwards(readded) /\ BackOK(back, mp.pool)
        /\ PoolOK(mp, back) /\ Placed(chain, mp.pool, Q, back, {})
    BY <1>2 DEF Resurrecting
  <1>4. NoRepeat(queue)
    BY <1>2 DEF Backwards
  <1>5. t \in Q /\ Front(queue) \in Seq(Tx) /\ ToSet(Front(queue)) = Q \ {t}
    BY <1>1, <1>2, <1>4, FrontIs
  <1>6. Backwards(Front(queue)) /\ ~Spends(t, t) /\ \A u \in Q \ {t} : ~Spends(t, u)
    BY <1>1, <1>2, <1>5, BackwardsFront
  <1>7. Q \in SUBSET Tx /\ back \in SUBSET Tx
    BY <1>2, <1>3, ToSetIn
  <1>8. t \in Tx \ back /\ \A u \in back : ~Spends(u, t)
    BY <1>3, <1>5, <1>7 DEF Placed, QueueOK, BackOK
  <1> HIDE DEF t, Q
  <1>9. CASE PreChecks(mp, chain, t) /\ mp' = addUnchecked(mp, t) /\ readded' = Append(readded, t)
    <2>1. Forwards(readded') /\ readded' \in Seq(Tx) /\ ToSet(readded') = back \cup {t}
      BY <1>3, <1>6, <1>8, <1>9, AppendIs, ForwardsAppend DEF Forwards
    <2> HIDE DEF back
    <2>2. /\ PoolOK(mp', back \cup {t}) /\ BackOK(back \cup {t}, mp'.pool)
          /\ Placed(chain, mp'.pool, Q \ {t}, back \cup {t}, {})
      BY <1>3, <1>5, <1>6, <1>7, <1>9, ComeBack
    <2>3. Resurrecting'
      BY <1>1, <1>3, <1>5, <2>1, <2>2 DEF Resurrecting
    <2> QED
      BY <1>1, <1>2, <1>5, <1>6, <2>3 DEF IInv
  <1>10. CASE mp' = removeRecursive(mp, t) /\ readded' = readded
    <2>1. ToSet(readded') = back
      BY <1>10
    <2> HIDE DEF back
    <2>2. /\ PoolOK(mp', back) /\ BackOK(back, mp'.pool)
          /\ Placed(chain, mp'.pool, Q \ {t}, back, {})
      BY <1>3, <1>5, <1>7, <1>10, DropQueued
    <2>3. Resurrecting'
      BY <1>1, <1>3, <1>5, <1>10, <2>1, <2>2 DEF Resurrecting
    <2> QED
      BY <1>1, <1>2, <1>5, <1>6, <2>3 DEF IInv
  <1> QED
    BY <1>1, <1>9, <1>10

LEMMA BeginRelinkIInv ==
    ASSUME IInv, BeginRelink PROVE IInv'
  <1>1. /\ at = "resurrect" /\ queue = <<>> /\ todo' = Reverse(readded) /\ at' = "relink"
        /\ chain' = chain /\ mp' = mp /\ queue' = queue /\ readded' = readded /\ add' = add
    BY DEF BeginRelink, LinkOrder
  <1>2. /\ ChainOK(chain) /\ add \in BOOLEAN /\ queue \in Seq(Tx) /\ Backwards(queue) /\ Resurrecting
    BY <1>1 DEF IInv, Resting, Connecting, Relinking
  <1> DEFINE back == ToSet(readded)
  <1>3. /\ readded \in Seq(Tx) /\ Forwards(readded) /\ BackOK(back, mp.pool)
        /\ PoolOK(mp, back) /\ Placed(chain, mp.pool, {}, back, {})
    BY <1>1, <1>2, EmptyList DEF Resurrecting
  <1>4. todo' \in Seq(Tx) /\ Backwards(todo') /\ ToSet(todo') = back
    BY <1>1, <1>3, ReverseIs, BackwardsReverse
  <1>5. back \in SUBSET Tx
    BY <1>3, ToSetIn
  <1>6. RelinkOK(mp, back, back)
    BY <1>3, <1>5, RelinkStarts
  <1>7. NoRepeat(readded)
    BY <1>3 DEF Forwards
  <1>8. ToSet(readded') = back
    BY <1>1
  <1> HIDE DEF back
  <1>9. Relinking'
    BY <1>1, <1>3, <1>4, <1>6, <1>7, <1>8 DEF Relinking
  <1> QED
    BY <1>1, <1>2, <1>9 DEF IInv

LEMMA RelinkIInv ==
    ASSUME IInv, Relink PROVE IInv'
  <1> DEFINE t == Head(todo)
             back == ToSet(readded)
             rest == ToSet(todo)
  <1>1. /\ at = "relink" /\ todo # <<>> /\ mp' = UpdateTransactionsFromBlock(mp, t, back)
        /\ todo' = Tail(todo)
        /\ chain' = chain /\ queue' = queue /\ readded' = readded /\ at' = at /\ add' = add
    BY DEF Relink
  <1>2. /\ ChainOK(chain) /\ add \in BOOLEAN /\ queue \in Seq(Tx) /\ Backwards(queue) /\ Relinking
    BY <1>1 DEF IInv, Resting, Connecting, Resurrecting
  <1>3. /\ queue = <<>> /\ readded \in Seq(Tx) /\ NoRepeat(readded) /\ BackOK(back, mp.pool)
        /\ todo \in Seq(Tx) /\ Backwards(todo) /\ rest \subseteq back
        /\ \A u \in rest, p \in back \ rest : ~Spends(u, p)
        /\ RelinkOK(mp, back, rest) /\ Placed(chain, mp.pool, {}, back, {})
    BY <1>2 DEF Relinking
  <1>4. NoRepeat(todo)
    BY <1>3 DEF Backwards
  <1>5. t \in rest /\ Tail(todo) \in Seq(Tx) /\ ToSet(Tail(todo)) = rest \ {t}
    BY <1>1, <1>3, <1>4, TailIs
  <1>6. Backwards(Tail(todo)) /\ \A u \in rest \ {t} : ~Spends(u, t)
    BY <1>1, <1>3, <1>5, BackwardsTail
  <1>7. back \in SUBSET Tx
    BY <1>3, ToSetIn
  <1>7a. ToSet(readded') = back
    BY <1>1
  <1> HIDE DEF t, back, rest
  <1>8. RelinkOK(mp', back, rest \ {t}) /\ mp'.pool = mp.pool
    BY <1>1, <1>3, <1>5, <1>7, RelinkTurns
  <1>9. \A u \in rest \ {t}, p \in back \ (rest \ {t}) : ~Spends(u, p)
    BY <1>3, <1>6
  <1>10. Relinking'
    BY <1>1, <1>3, <1>5, <1>6, <1>7a, <1>8, <1>9 DEF Relinking
  <1> QED
    BY <1>1, <1>2, <1>10 DEF IInv

LEMMA FinishUpdateIInv ==
    ASSUME IInv, FinishUpdate PROVE IInv'
  <1> DEFINE X == NoLongerValid(mp, chain)
             back == ToSet(readded)
  <1>1. /\ at = "relink" /\ todo = <<>> /\ mp' = RemoveStaged(mp, CalculateDescendants(mp, X), FALSE)
        /\ readded' = <<>> /\ add' = FALSE /\ at' = "expire"
        /\ chain' = chain /\ queue' = queue /\ todo' = todo
    BY DEF FinishUpdate, removeForReorg
  <1>2. /\ ChainOK(chain) /\ queue \in Seq(Tx) /\ Backwards(queue) /\ Relinking
    BY <1>1 DEF IInv, Resting, Connecting, Resurrecting
  <1>3. /\ queue = <<>> /\ back \in SUBSET Tx /\ RelinkOK(mp, back, {})
        /\ QueueOK({}, chain, mp.pool, back, {}) /\ CoinOK(chain, mp.pool, {}, {})
    BY <1>1, <1>2, EmptyList, ToSetIn DEF Relinking, Placed
  <1>4. PoolOK(mp, {})
    BY <1>3, RelinkEnds
  <1>5. X \in SUBSET mp.pool /\ \A u \in mp.pool \ X : Minable(chain, u)
    <2>1. X \in SUBSET mp.pool
      BY DEF NoLongerValid
    <2>2. ASSUME NEW u \in mp.pool \ X PROVE Minable(chain, u)
      <3>1. CheckFinalTx(chain, u) /\ Ins[u] \cap Created(Immature(chain, {"coinbase"}, Maturity)) = {}
        BY DEF NoLongerValid
      <3>2. chain \in Seq(Blocks)
        BY <1>2 DEF ChainOK
      <3> QED
        BY <3>1, <3>2, ReorgMinable
    <2> QED
      BY <2>1, <2>2
  <1>6. Placed(chain, mp.pool, {}, {}, {})
    BY <1>3 DEF Placed, QueueOK
  <1> HIDE DEF X
  <1>7. Cut(mp', mp, X, {})
    BY <1>1, <1>4, <1>5, RestingRemove
  <1>8. PoolOK(mp', {}) /\ mp'.pool \subseteq mp.pool /\ Placed(chain, mp'.pool, {}, {}, {})
    BY <1>4, <1>6, <1>7, RestingCut
  <1>9. \A u \in mp'.pool : Minable(chain, u)
    BY <1>5, <1>7, <1>8 DEF Cut
  <1>10. Resting'
    BY <1>1, <1>3, <1>8, <1>9, EmptyList DEF Resting
  <1> QED
    BY <1>1, <1>2, <1>10 DEF IInv

LEMMA StutterIInv ==
    ASSUME IInv, UNCHANGED vars PROVE IInv'
  BY DEF IInv, Resting, Connecting, Resurrecting, Relinking, vars

(* The invariant is inductive: it holds of the empty pool, and every        *)
(* acceptance, removal, connected or disconnected block and every turn of   *)
(* the loops of a reorganisation keeps it.                                  *)
THEOREM PoolInvariant == Spec => []IInv
  <1>1. Init => IInv
    BY InitIInv
  <1>2. IInv /\ [Next]_vars => IInv'
    BY AcceptIInv, ExpireIInv, TrimIInv, ConnectTipIInv, RemoveForBlockIInv, TipConnectedIInv,
       DisconnectTipIInv, LimitQueueIInv, BeginUpdateIInv, ResurrectIInv, BeginRelinkIInv,
       RelinkIInv, FinishUpdateIInv, StutterIInv DEF Next
  <1> QED
    BY <1>1, <1>2, PTL DEF Spec
-----------------------------------------------------------------------------
(* What the invariant says. *)

(* What is in the pool at any time: sets of entries, linked to each other.  *)
LEMMA InvariantShape ==
    ASSUME IInv
    PROVE  \E back, unlinked : mp \in PoolRecord /\ LinkOK(mp, back, unlinked)
  BY DEF IInv, Resting, Connecting, Resurrecting, Relinking, PoolOK, RelinkOK

LEMMA InvariantTypes ==
    ASSUME IInv PROVE TypeOK
  <1>1. PICK back, unlinked : mp \in PoolRecord /\ LinkOK(mp, back, unlinked)
    BY InvariantShape
  <1>2. GraphOK(mp)
    BY <1>1, LinkGraph
  <1>3. /\ mp.pool \in SUBSET Tx /\ mp.parents \in Links /\ mp.children \in Links
        /\ mp.anc \in [Tx -> Nat] /\ mp.desc \in [Tx -> Nat]
        /\ \A u \in Tx : mp.children[u] \subseteq mp.pool /\ mp.parents[u] \subseteq mp.pool
    BY <1>2, GraphFacts DEF GraphOK
  <1>4. mp.parents \in [Tx -> SUBSET mp.pool] /\ mp.children \in [Tx -> SUBSET mp.pool]
    BY <1>3 DEF Links
  <1>5. queue \in Seq(Tx) /\ NoRepeat(queue) /\ add \in BOOLEAN
    BY DEF IInv, Backwards
  <1>6. CASE Resting
    <2>1. /\ at \in {"idle", "expire", "trim", "drop", "disconnect", "connect"}
          /\ readded = <<>> /\ todo = <<>>
          /\ at \in {"idle", "expire", "trim"} => queue = <<>>
          /\ ToSet(queue) \cap mp.pool = {} /\ ToSet(queue) \cap Confirmed(chain) = {}
      BY <1>6 DEF Resting, Placed, QueueOK
    <2>2. /\ readded \in Seq(Tx) /\ NoRepeat(readded) /\ todo \in Seq(Tx) /\ NoRepeat(todo)
      BY <2>1, EmptyList
    <2>3. \A s \in {queue, readded, todo} :
             s \in Seq(Tx) /\ \A i, j \in DOMAIN s : i # j => s[i] # s[j]
      BY <1>5, <2>2 DEF NoRepeat
    <2> QED
      BY <1>3, <1>4, <1>5, <2>1, <2>3 DEF TypeOK
  <1>7. CASE Connecting
    <2>1. /\ at \in {"block", "reorgBlock"} /\ readded = <<>> /\ Rest(todo, chain)
          /\ ToSet(queue) \cap mp.pool = {} /\ (at = "block" => queue = <<>>)
      BY <1>7 DEF Connecting, Placed, QueueOK
    <2>2. todo \in Seq(Tx) /\ NoRepeat(todo)
      <3>1. CASE todo = <<>>
        BY <3>1, EmptyList
      <3>2. CASE todo # <<>>
        BY <2>1, <3>2, RestIs DEF IInv, Rest
      <3> QED
        BY <3>1, <3>2
    <2>3. at # "reorgBlock" => ToSet(queue) \cap Confirmed(chain) = {}
      BY <2>1, EmptyList
    <2> QED
      BY <1>3, <1>4, <1>5, <2>1, <2>2, <2>3, EmptyList DEF TypeOK, NoRepeat
  <1>8. CASE Resurrecting
    <2>1. /\ at = "resurrect" /\ todo = <<>> /\ readded \in Seq(Tx) /\ NoRepeat(readded)
          /\ ToSet(queue) \cap mp.pool = {} /\ ToSet(queue) \cap Confirmed(chain) = {}
      BY <1>8 DEF Resurrecting, Placed, QueueOK, Forwards
    <2> QED
      BY <1>3, <1>4, <1>5, <2>1, EmptyList DEF TypeOK, NoRepeat
  <1>9. CASE Relinking
    <2>1. /\ at = "relink" /\ queue = <<>> /\ readded \in Seq(Tx) /\ NoRepeat(readded)
          /\ todo \in Seq(Tx) /\ NoRepeat(todo)
      BY <1>9 DEF Relinking, Backwards
    <2> QED
      BY <1>3, <1>4, <1>5, <2>1, EmptyList DEF TypeOK, NoRepeat
  <1> QED
    BY <1>6, <1>7, <1>8, <1>9 DEF IInv

(* The lists and the pool are what the code takes them for, and when the    *)
(* lock is given up the queue of disconnected transactions is empty, the    *)
(* pool is within -maxmempool, and every entry is final and spends no       *)
(* coinbase that CheckTxInputs would refuse it as immature (none before     *)
(* V3.1): for every set of transactions, every chain and every              *)
(* reorganisation.                                                          *)
THEOREM PoolStaysInOrder == Spec => []PoolInOrder
  <1>1. IInv => PoolInOrder
    <2> SUFFICES ASSUME IInv PROVE PoolInOrder
      OBVIOUS
    <2>1. TypeOK
      BY InvariantTypes
    <2>2. at = "idle" => Resting
      BY DEF IInv, Connecting, Resurrecting, Relinking
    <2>3. StaysMinable /\ PoolBounded
      BY <2>2 DEF StaysMinable, PoolBounded, Resting, Minable
    <2> QED
      BY <2>1, <2>3 DEF PoolInOrder
  <1> QED
    BY <1>1, PoolInvariant, PTL

(* When the lock is given up every input of every entry is a coin of the    *)
(* chain or an output of another entry, and no two entries spend the same:  *)
(* the removals of ConnectTip, LimitQueue and Resurrect between them forget *)
(* nothing that depended on a transaction that is gone.                     *)
THEOREM InputsStayAvailable == Spec => []InputsAvailable
  <1>1. IInv => InputsAvailable
    <2> SUFFICES ASSUME IInv, at = "idle"
                 PROVE  /\ \A t \in mp.pool : Ins[t] \subseteq CoinsTip(chain) \cup Created(mp.pool)
                        /\ \A t, u \in mp.pool : t # u => Ins[t] \cap Ins[u] = {}
      BY DEF InputsAvailable
    <2>1. CoinOK(chain, mp.pool, {}, {})
      BY EmptyList DEF IInv, Resting, Connecting, Resurrecting, Relinking, Placed
    <2>2. Created({}) = {} /\ Spent({}) = {}
      BY DEF Created, Spent
    <2> QED
      BY <2>1, <2>2 DEF CoinOK
  <1> QED
    BY <1>1, PoolInvariant, PTL

(* When the lock is given up the cached parents and children of every entry *)
(* are those its inputs say: UpdateTransactionsFromBlock has found every    *)
(* entry that spends a transaction that came back.                          *)
THEOREM LinksStayExact == Spec => []LinksExact
  <1>1. IInv => LinksExact
    <2> SUFFICES ASSUME IInv, at = "idle", NEW t \in mp.pool
                 PROVE  /\ mp.parents[t] = ParentsInPool(mp, t)
                        /\ mp.children[t] = Spenders(mp, Outs[t])
      BY DEF LinksExact
    <2>1. PoolOK(mp, {})
      BY DEF IInv, Resting, Connecting, Resurrecting, Relinking
    <2>2. /\ mp.pool \in SUBSET Tx /\ mp.parents \in [Tx -> SUBSET Tx]
          /\ mp.children \in [Tx -> SUBSET Tx]
      BY <2>1 DEF PoolOK, PoolRecord
    <2>3. /\ \A p, u \in Tx : p \in mp.parents[u] <=> p \in mp.pool /\ u \in mp.pool /\ Spends(u, p)
          /\ \A p, u \in Tx : u \in mp.children[p] <=> p \in mp.parents[u]
      BY <2>1 DEF PoolOK, LinkOK
    <2>4. t \in Tx /\ mp.parents[t] \subseteq Tx /\ mp.children[t] \subseteq Tx
      BY <2>2
    <2>5. mp.parents[t] = ParentsInPool(mp, t)
      BY SMTT(60), <2>2, <2>3, <2>4 DEF ParentsInPool, Spends
    <2>6. mp.children[t] = Spenders(mp, Outs[t])
      BY <2>2, <2>3, <2>4 DEF Spenders, Spends
    <2> QED
      BY <2>5, <2>6
  <1> QED
    BY <1>1, PoolInvariant, PTL

(* In the middle of a reorganisation too, outside the loop of               *)
(* UpdateTransactionsFromBlock, the cached ancestor and descendant counts   *)
(* are the numbers of entries the cached links reach: addUnchecked,         *)
(* UpdateForRemoveFromMempool and UpdateForDescendants agree on what they   *)
(* add and take away, whatever the shape of the graph of entries.           *)
THEOREM CountsStayExact == Spec => []CountsMatchLinks
  <1>1. IInv => CountsMatchLinks
    <2> SUFFICES ASSUME IInv, at # "relink", NEW t \in mp.pool
                 PROVE  /\ mp.anc[t] = Cardinality(Reach(mp.parents, {t}))
                        /\ mp.desc[t] = Cardinality(Reach(mp.children, {t}))
      BY DEF CountsMatchLinks
    <2>1. CountOK(mp) /\ mp.pool \in SUBSET Tx
      BY DEF IInv, Resting, Connecting, Resurrecting, Relinking, PoolOK, PoolRecord
    <2> QED
      BY <2>1 DEF CountOK, Anc, Des
  <1> QED
    BY <1>1, PoolInvariant, PTL
=============================================================================
