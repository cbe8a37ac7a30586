----------------------------- MODULE MCStaking -----------------------------
(***************************************************************************)
(* An RPC worker beside the main thread, a chain whose tip moves to        *)
(* another height, a clock that enters a stake slot and an offset that     *)
(* comes and goes.                                                         *)
(***************************************************************************)
EXTENDS Staking

MCHeight == [b \in Block |-> IF b = "low" THEN 1 ELSE 2]
=============================================================================
