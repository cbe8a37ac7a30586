---------------------------- MODULE MCChainstate ----------------------------
(* A small block tree for Chainstate:                                       *)
(*                                                                          *)
(*        a1 -- a2                                                          *)
(*       /                                                                  *)
(*      g -- b1 -- b2 -- b3                                                 *)
(*             \                                                            *)
(*              c2                                                          *)
EXTENDS Chainstate, TLC

CONSTANTS g, a1, a2, b1, b2, b3, c2

Tree == (a1 :> g) @@ (a2 :> a1) @@ (b1 :> g) @@ (b2 :> b1) @@ (b3 :> b2) @@ (c2 :> b1)

Levels == (g :> 0) @@ (a1 :> 1) @@ (b1 :> 1) @@ (a2 :> 2) @@ (b2 :> 2) @@ (c2 :> 2) @@ (b3 :> 3)

MCHeight == [b \in Block |-> Levels[b]]
MCWork == [b \in Block |-> Levels[b] + 1]
MCParent == [b \in Block \ {g} |-> Tree[b]]

(* Two ways the allocator may order the objects. *)
Upwards == (g :> 0) @@ (a1 :> 1) @@ (a2 :> 2) @@ (b1 :> 3) @@ (b2 :> 4) @@ (b3 :> 5) @@ (c2 :> 6)
MCLayouts == {[b \in Block |-> Upwards[b]], [b \in Block |-> 9 - Upwards[b]]}
MCMinSequenceId == -9
SmallMinSequenceId == -2
OneLayout == {[b \in Block |-> Upwards[b]]}
=============================================================================
