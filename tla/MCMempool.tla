----------------------------- MODULE MCMempool -----------------------------
(***************************************************************************)
(* Instances of Mempool.  a has two outputs; b spends one of them, c the   *)
(* other and b's (a diamond), f spends c; x conflicts with b and waits for *)
(* height 1.  m is a coinbase and s a coinstake, spent by d and e, or m by *)
(* n, whose time is before V3.1.                                           *)
(***************************************************************************)
EXTENDS Mempool

MCTx == {"a", "b", "c", "x", "f", "m", "d", "s", "e", "n"}
MCOutpoint == {"g1", "g2", "a1", "a2", "b1", "c1", "m1", "s1"}
MCIns == [t \in MCTx |->
            CASE t = "a" -> {"g1"}       [] t = "b" -> {"a1"}
              [] t = "c" -> {"a2", "b1"} [] t = "x" -> {"a1"}
              [] t = "m" -> {}           [] t = "d" -> {"m1"}
              [] t = "s" -> {"g2"}       [] t = "e" -> {"s1"}
              [] t = "f" -> {"c1"}       [] t = "n" -> {"m1"}]
MCOuts == [t \in MCTx |->
            CASE t = "a" -> {"a1", "a2"} [] t = "b" -> {"b1"}
              [] t = "c" -> {"c1"}
              [] t = "m" -> {"m1"}       [] t = "s" -> {"s1"}
              [] OTHER -> {}]
MCKind == [t \in MCTx |-> CASE t = "m" -> "coinbase" [] t = "s" -> "coinstake"
                            [] OTHER -> "normal"]
MCV3_1 == MCTx \ {"n"}
MCLockHeight == [t \in MCTx |-> IF t = "x" THEN 1 ELSE 0]
MCBlocks == {<<>>, <<"m">>, <<"m", "a">>, <<"a">>, <<"b">>, <<"x">>, <<"c">>,
             <<"a", "b">>, <<"a", "b", "c">>, <<"s">>, <<"m", "n">>}
=============================================================================
