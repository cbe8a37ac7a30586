--------------------------- MODULE TxRequestRules ----------------------------
(***************************************************************************)
(* What the tracker of transaction requests promises, in the three states  *)
(* its callers know of (txrequest.h), as the naive tracker of              *)
(* test/fuzz/txrequest.cpp states it: no index, no cached selection, and   *)
(* the answer of GetRequestable computed from every announcement.          *)
(***************************************************************************)
EXTENDS Integers

CONSTANTS
    Peer,
    Tx,           \* the transaction hashes
    Time,         \* times of requests, of expiries and of calls
    Priority,     \* Priority[t][p]: ComputePriority of p's announcement of t
    NoCall, NoReply

VARIABLES
    ann,          \* ann[t][p]: m_announcements
    call,         \* the GetRequestable that runs: its peer and its now
    reply         \* what GetRequestable returned and its caller still holds

vars == <<ann, call, reply>>

Nothing == [state |-> "NOTHING", time |-> 0]
Completed == [state |-> "COMPLETED", time |-> 0]

(* A transaction of which every announcement is COMPLETED is forgotten. *)
Cleanup(row) ==
    IF \A p \in Peer : row[p].state \in {"NOTHING", "COMPLETED"}
    THEN [p \in Peer |-> Nothing] ELSE row

(* The caller of GetRequestable goes through what it was given with         *)
(* RequestedTx and ForgetTxHash; any other call ends its hold on the rest.  *)
Handled(p, t) ==
    IF reply # NoReply /\ reply.peer = p /\ t \in reply.txs
    THEN [peer |-> reply.peer, txs |-> reply.txs \ {t}] ELSE NoReply

Init ==
    /\ ann = [t \in Tx |-> [p \in Peer |-> Nothing]]
    /\ call = NoCall
    /\ reply = NoReply

ReceivedInv(p, t, reqtime) ==
    /\ call = NoCall
    /\ IF ann[t][p] = Nothing
       THEN ann' = [ann EXCEPT ![t][p] = [state |-> "CANDIDATE", time |-> reqtime]]
       ELSE UNCHANGED ann
    /\ reply' = NoReply
    /\ UNCHANGED call

RequestedTx(p, t, expiry) ==
    /\ call = NoCall
    /\ IF ann[t][p].state = "CANDIDATE"
       THEN ann' = [ann EXCEPT ![t] = [q \in Peer |->
                        CASE q = p -> [state |-> "REQUESTED", time |-> expiry]
                          [] q # p /\ @[q].state = "REQUESTED" -> Completed
                          [] OTHER -> @[q]]]
       ELSE UNCHANGED ann
    /\ reply' = Handled(p, t)
    /\ UNCHANGED call

ReceivedResponse(p, t) ==
    /\ call = NoCall
    /\ IF ann[t][p] = Nothing
       THEN UNCHANGED ann
       ELSE ann' = [ann EXCEPT ![t] = Cleanup([@ EXCEPT ![p] = Completed])]
    /\ reply' = NoReply
    /\ UNCHANGED call

ForgetTxHash(t) ==
    /\ call = NoCall
    /\ ann' = [ann EXCEPT ![t] = [p \in Peer |-> Nothing]]
    /\ reply' = IF reply = NoReply THEN NoReply ELSE [peer |-> reply.peer, txs |-> reply.txs \ {t}]
    /\ UNCHANGED call

DisconnectedPeer(p) ==
    /\ call = NoCall
    /\ ann' = [t \in Tx |-> IF ann[t][p] = Nothing THEN ann[t]
                            ELSE Cleanup([ann[t] EXCEPT ![p] = Nothing])]
    /\ reply' = NoReply
    /\ UNCHANGED call

GetRequestable(p, now) ==
    /\ call = NoCall
    /\ call' = [peer |-> p, now |-> now]
    /\ reply' = NoReply
    /\ UNCHANGED ann

(* A request whose time is over is COMPLETED. *)
Expired(t, p) == ann[t][p].state = "REQUESTED" /\ ann[t][p].time <= call.now

Expire(t, p) ==
    /\ call # NoCall
    /\ Expired(t, p)
    /\ ann' = [ann EXCEPT ![t] = Cleanup([@ EXCEPT ![p] = Completed])]
    /\ UNCHANGED <<call, reply>>

(* The peer to ask for t: none while a request is in flight, and otherwise  *)
(* the one of highest priority among those whose reqtime has come.          *)
Viable(t, p) == ann[t][p].state = "CANDIDATE" /\ ann[t][p].time <= call.now

Selected(t, p) ==
    /\ Viable(t, p)
    /\ \A q \in Peer : ann[t][q].state # "REQUESTED"
    /\ \A q \in Peer : Viable(t, q) => Priority[t][q] <= Priority[t][p]

Answer ==
    /\ call # NoCall
    /\ \A t \in Tx, p \in Peer : ~Expired(t, p)
    /\ reply' = [peer |-> call.peer, txs |-> {t \in Tx : Selected(t, call.peer)}]
    /\ call' = NoCall
    /\ UNCHANGED ann

Next ==
    \/ \E p \in Peer, t \in Tx, time \in Time : ReceivedInv(p, t, time) \/ RequestedTx(p, t, time)
    \/ \E p \in Peer, t \in Tx : ReceivedResponse(p, t) \/ Expire(t, p)
    \/ \E t \in Tx : ForgetTxHash(t)
    \/ \E p \in Peer : DisconnectedPeer(p)
    \/ \E p \in Peer, now \in Time \cup {0} : GetRequestable(p, now)
    \/ Answer

Spec == Init /\ [][Next]_vars
=============================================================================
