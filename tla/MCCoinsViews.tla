---------------------------- MODULE MCCoinsViews ----------------------------
(***************************************************************************)
(* CoinsViews for TLC. Outputs do not interact, coins are compared only    *)
(* with Spent and with each other, hashes only with NullHash: two of each  *)
(* reach every entry state at both cache levels side by side, and each of  *)
(* the three sets is symmetric.                                            *)
(***************************************************************************)
EXTENDS CoinsViews, TLC

Symmetry == Permutations(Outpoint) \cup Permutations(Coin) \cup Permutations(Hash)
=============================================================================
