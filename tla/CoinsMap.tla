------------------------------ MODULE CoinsMap ------------------------------
(***************************************************************************)
(* What the stack of coins views promises, whatever it caches: the set of  *)
(* unspent outputs exists in three versions, each paired with the block it *)
(* is the state of.                                                        *)
(*                                                                         *)
(*   durable    what a restart finds in the coins database                 *)
(*   committed  what CoinsTip() shows: the state at the active tip         *)
(*   working    what the view of the block being connected or disconnected *)
(*              shows; equal to committed when there is no such view       *)
(*                                                                         *)
(* Reading a coin, caching it or dropping it from a cache is not a step.   *)
(***************************************************************************)
CONSTANTS Outpoint,   \* transaction outputs (COutPoint)
          Coin,       \* contents of an unspent output
          Spent,      \* no unspent output: IsSpent(), or no entry
          Hash,       \* block hashes
          NullHash    \* the null hash: no block yet

VARIABLES durable, committed, working

vars == <<durable, committed, working>>

State == [coins : [Outpoint -> Coin \cup {Spent}], best : Hash \cup {NullHash}]

Empty == [coins |-> [o \in Outpoint |-> Spent], best |-> NullHash]

Init == durable = Empty /\ committed = Empty /\ working = Empty

(* A coin is created, overwritten or spent in the working view. *)
Update == /\ \E o \in Outpoint, c \in Coin \cup {Spent} :
                working' = [working EXCEPT !.coins[o] = c]
          /\ UNCHANGED <<durable, committed>>

(* The working view is told which block it is the state of. *)
Stamp == /\ \E h \in Hash : working' = [working EXCEPT !.best = h]
         /\ UNCHANGED <<durable, committed>>

(* The block is done: all of its changes become visible at once. *)
Commit == committed' = working /\ UNCHANGED <<durable, working>>

(* The block failed: none of its changes ever becomes visible. *)
Discard == working' = committed /\ UNCHANGED <<durable, committed>>

(* The committed state is saved. *)
Sync == working = committed /\ durable' = committed /\ UNCHANGED <<committed, working>>

(* The process ends and starts again from the saved state. *)
Restart == committed' = durable /\ working' = durable /\ UNCHANGED durable

Next == Update \/ Stamp \/ Commit \/ Discard \/ Sync \/ Restart

Spec == Init /\ [][Next]_vars
=============================================================================
