----------------------------- MODULE MCTxRequest -----------------------------
(* Three peers announce one transaction, and one of them another. *)
EXTENDS TxRequest

CONSTANTS p1, p2, p3, t1, t2

MCPeer == {p1, p2, p3}
MCTx == {t1, t2}
MCPriority ==
    [t \in MCTx |-> [p \in MCPeer |->
        CASE p = p1 -> 1 [] p = p2 -> 2 [] p = p3 -> 3]]
MCAnnouncers == [t \in MCTx |-> IF t = t1 THEN MCPeer ELSE {p1}]
=============================================================================
