----------------------------- MODULE MCBaseIndex -----------------------------
(* Two branches above the genesis block, the second with more work. *)
EXTENDS BaseIndex

CONSTANTS g, a1, a2, b2

MCParent == [b \in {g, a1, a2, b2} |->
                CASE b = g -> NoBlock [] b = a1 -> g [] b \in {a2, b2} -> a1]

MCHeight == [b \in {g, a1, a2, b2, NoBlock} |->
                CASE b = NoBlock -> -1 [] b = g -> 0 [] b = a1 -> 1 [] b \in {a2, b2} -> 2]

MCWork == [b \in {g, a1, a2, b2, NoBlock} |->
                CASE b = NoBlock -> 0 [] b = g -> 1 [] b = a1 -> 2 [] b = a2 -> 3 [] b = b2 -> 4]
=============================================================================
