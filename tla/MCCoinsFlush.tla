---------------------------- MODULE MCCoinsFlush ----------------------------
(* Two branches: c1 followed by c2, and b1. The same transactions, one that *)
(* makes p and one from p to q, are in c1 and c2 and, both, in b1, where p  *)
(* is spent in the block that makes it: q has another height there.         *)
EXTENDS CoinsFlush, TLC

CONSTANTS g, c1, c2, b1, p, q

MCParent == c1 :> g @@ c2 :> c1 @@ b1 :> g
MCHeight == g :> 0 @@ c1 :> 1 @@ c2 :> 2 @@ b1 :> 1
MCVtx ==
    g  :> <<>> @@
    c1 :> <<[in |-> {}, out |-> {p}]>> @@
    c2 :> <<[in |-> {p}, out |-> {q}]>> @@
    b1 :> <<[in |-> {}, out |-> {p}], [in |-> {p}, out |-> {q}]>>
(* A process that met an error is followed to its end. *)
UpToFirstError == thrown => pc # "down"
=============================================================================
