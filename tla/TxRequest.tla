------------------------------ MODULE TxRequest ------------------------------
(***************************************************************************)
(* TxRequestTracker (txrequest.cpp): which transaction is asked of which   *)
(* peer. A CANDIDATE announcement is one of three: DELAYED until its       *)
(* reqtime, READY, or BEST, the READY one that is to be asked. The class   *)
(* keeps them in three ordered indexes and moves an announcement by        *)
(* looking at its neighbours only; SetTimePoint brings all of them up to   *)
(* date, one announcement at a time, when GetRequestable is called.        *)
(*                                                                         *)
(* Every operation of the class is here, called in any order and with a    *)
(* clock that also goes back. The order of the answer (m_sequence), the    *)
(* kind of hash (m_is_wtxid) and the statistics of m_peerinfo are not: the *)
(* counts are taken from the index.                                        *)
(***************************************************************************)
EXTENDS Integers, FiniteSets

CONSTANTS
    Peer,
    Tx,           \* the transaction hashes
    Time,         \* times of requests, of expiries and of calls
    Priority,     \* Priority[t][p]: PriorityComputer, the preferred bit on top
    Announcers,   \* bound: Announcers[t], the peers that may announce t
    NoCall, NoReply

ASSUME TxRequestAssumption ==
    /\ Time \subseteq Nat
    /\ Priority \in [Tx -> [Peer -> Int]]
    /\ Announcers \in [Tx -> SUBSET Peer]
    /\ \A t \in Tx : \A p, q \in Peer : p # q => Priority[t][p] # Priority[t][q]
    /\ \A t \in Tx : \A S \in SUBSET Peer : S # {} =>      \* as in a finite set of peers
          /\ \E p \in S : \A q \in S : Priority[t][q] <= Priority[t][p]
          /\ \E p \in S : \A q \in S : Priority[t][p] <= Priority[t][q]
    /\ NoCall \notin [peer : Peer, now : Nat]
    /\ NoReply \notin [peer : Peer, txs : SUBSET Tx]

VARIABLES
    ann,          \* ann[t][p]: m_index
    call,         \* the GetRequestable that runs: its peer and its now
    reply         \* what GetRequestable returned and its caller still holds

vars == <<ann, call, reply>>

State == {"DELAYED", "READY", "BEST", "REQUESTED", "COMPLETED"}
Nothing == [state |-> "NOTHING", time |-> 0]
Completed == [state |-> "COMPLETED", time |-> 0]   \* m_time is no longer of use
Announcement == [state : State \ {"COMPLETED"}, time : Time] \cup {Completed, Nothing}
Row == [Peer -> Announcement]

IsCandidate(a) == a.state \in {"DELAYED", "READY", "BEST"}
IsSelected(a) == a.state \in {"BEST", "REQUESTED"}
IsWaiting(a) == a.state \in {"REQUESTED", "DELAYED"}
IsSelectable(a) == a.state \in {"READY", "BEST"}
-----------------------------------------------------------------------------
(* ByTxHash: the announcements of t by state, and the READY ones by         *)
(* priority. The order of those of another state among themselves is of no  *)
(* use to the operations.                                                   *)
Rank == [DELAYED |-> 0, READY |-> 1, BEST |-> 2, REQUESTED |-> 3, COMPLETED |-> 4]

Tracked(row) == {p \in Peer : row[p] # Nothing}

Precedes(t, row, p, q) ==
    \/ Rank[row[p].state] < Rank[row[q].state]
    \/ row[p].state = "READY" /\ row[q].state = "READY" /\ Priority[t][p] < Priority[t][q]

After(t, row, p) == {q \in Tracked(row) : Precedes(t, row, p, q)}
Before(t, row, p) == {q \in Tracked(row) : Precedes(t, row, q, p)}

(* std::next(it) and std::prev(it) within the announcements of t. *)
IsNext(t, row, p, q) == q \in After(t, row, p) /\ After(t, row, p) \cap Before(t, row, q) = {}
IsPrev(t, row, p, q) == IsNext(t, row, q, p)

As(a, state) == [state |-> state, time |-> a.time]
SetState(row, p, state) == [row EXCEPT ![p] = As(row[p], state)]

PromoteCandidateReady_Bug(t, row, p) ==
    LET ready == SetState(row, p, "READY")
        best == {q \in After(t, ready, p) : ready[q].state = "BEST"}
    IN  IF \A q \in After(t, ready, p) : ready[q].state # "REQUESTED"
        THEN SetState([q \in Peer |-> IF q \in best THEN As(ready[q], "READY") ELSE ready[q]],
                      p, "BEST")
        ELSE ready

(* A DELAYED announcement becomes READY, and BEST when it takes the place   *)
(* of the announcement that follows it, or none follows.                    *)
PromoteCandidateReady(t, row, p) ==
    LET ready == SetState(row, p, "READY")
        next == {q \in Tracked(ready) : IsNext(t, ready, p, q)}
    IN  IF \A q \in next : ready[q].state = "COMPLETED"
        THEN SetState(ready, p, "BEST")
        ELSE LET q == CHOOSE q \in next : TRUE
             IN  IF ready[q].state = "BEST" /\ Priority[t][p] > Priority[t][q]
                 THEN SetState(SetState(ready, q, "READY"), p, "BEST")
                 ELSE ready

ChangeAndReselect_Bug(t, row, p, new) == [row EXCEPT ![p] = new]

ChangeForgotten_Bug(t, row, p, new) ==
    LET prev == {q \in Tracked(row) : IsPrev(t, row, p, q) /\ row[q].state = "READY"}
    IN  IF IsSelected(row[p]) /\ prev # {} THEN SetState(row, CHOOSE q \in prev : TRUE, "BEST") ELSE row

(* An announcement leaves its state for one that is not selected; the READY *)
(* one just before it, if it was selected, becomes BEST.                    *)
ChangeAndReselect(t, row, p, new) ==
    LET prev == {q \in Tracked(row) : IsPrev(t, row, p, q) /\ row[q].state = "READY"}
    IN  IF IsSelected(row[p]) /\ prev # {}
        THEN [SetState(row, CHOOSE q \in prev : TRUE, "BEST") EXCEPT ![p] = new]
        ELSE [row EXCEPT ![p] = new]

(* The code asks the same of the two neighbours of p alone. *)
IsOnlyNonCompleted(row, p) ==
    \A q \in Tracked(row) \ {p} : row[q].state = "COMPLETED"

Forgotten == [p \in Peer |-> Nothing]

MakeCompleted(t, row, p) ==
    CASE row[p].state = "COMPLETED" -> row
      [] row[p].state # "COMPLETED" /\ IsOnlyNonCompleted(row, p) -> Forgotten
      [] OTHER -> ChangeAndReselect(t, row, p, Completed)

Init ==
    /\ ann = [t \in Tx |-> Forgotten]
    /\ call = NoCall
    /\ reply = NoReply
-----------------------------------------------------------------------------
(* The operations. SendMessages goes through what GetRequestable gave it    *)
(* with RequestedTx and ForgetTxHash, all under cs_main: reply is what it   *)
(* has not come to yet.                                                     *)
Handled(p, t) ==
    IF reply # NoReply /\ reply.peer = p /\ t \in reply.txs
    THEN [peer |-> reply.peer, txs |-> reply.txs \ {t}] ELSE NoReply

ReceivedInv(p, t, reqtime) ==
    /\ call = NoCall
    /\ p \in Announcers[t]
    /\ ann[t][p] = Nothing
    /\ ann' = [ann EXCEPT ![t][p] = [state |-> "DELAYED", time |-> reqtime]]
    /\ reply' = NoReply
    /\ UNCHANGED call

(* Of the announcement of another peer, when p's was not BEST. *)
Unselect(row, p) ==
    [q \in Peer |->
        IF q = p \/ row[p].state = "BEST" THEN row[q]
        ELSE CASE row[q].state = "BEST" -> As(row[q], "READY")
               [] row[q].state = "REQUESTED" -> Completed
               [] OTHER -> row[q]]

RequestedTx(p, t, expiry) ==
    /\ call = NoCall
    /\ IsCandidate(ann[t][p])
    /\ ann' = [ann EXCEPT ![t] = [Unselect(@, p) EXCEPT ![p] = [state |-> "REQUESTED", time |-> expiry]]]
    /\ reply' = Handled(p, t)
    /\ UNCHANGED call

ReceivedResponse(p, t) ==
    /\ call = NoCall
    /\ ann[t][p] # Nothing
    /\ ann' = [ann EXCEPT ![t] = MakeCompleted(t, @, p)]
    /\ reply' = NoReply
    /\ UNCHANGED call

ForgetTxHash(t) ==
    /\ call = NoCall
    /\ ann' = [ann EXCEPT ![t] = Forgotten]
    /\ reply' = IF reply = NoReply THEN NoReply ELSE [peer |-> reply.peer, txs |-> reply.txs \ {t}]
    /\ UNCHANGED call

(* MakeCompleted, then Erase when the announcement is still there. *)
DisconnectedPeer(p) ==
    /\ call = NoCall
    /\ ann' = [t \in Tx |-> IF ann[t][p] = Nothing THEN ann[t]
                            ELSE [MakeCompleted(t, ann[t], p) EXCEPT ![p] = Nothing]]
    /\ reply' = NoReply
    /\ UNCHANGED call

GetRequestable(p, now) ==
    /\ call = NoCall
    /\ call' = [peer |-> p, now |-> now]
    /\ reply' = NoReply
    /\ UNCHANGED ann

(* SetTimePoint: ByTime has the announcements that wait at its front, the   *)
(* oldest first, and the ones that can be selected at its end. The second   *)
(* loop, over these, leaves nothing for the first.                          *)
Waits(t, p) == IsWaiting(ann[t][p]) /\ ann[t][p].time <= call.now
Early(t, p) == IsSelectable(ann[t][p]) /\ ann[t][p].time > call.now
NoneWaits == \A t \in Tx, p \in Peer : ~Waits(t, p)
NoneEarly == \A t \in Tx, p \in Peer : ~Early(t, p)

SetTimePointPast(t, p) ==
    /\ call # NoCall
    /\ Waits(t, p)
    /\ \A u \in Tx, q \in Peer : Waits(u, q) => ann[t][p].time <= ann[u][q].time
    /\ ann' = [ann EXCEPT ![t] = IF @[p].state = "DELAYED" THEN PromoteCandidateReady(t, @, p)
                                 ELSE MakeCompleted(t, @, p)]
    /\ UNCHANGED <<call, reply>>

SetTimePointFuture(t, p) ==
    /\ call # NoCall
    /\ NoneWaits
    /\ Early(t, p)
    /\ \A u \in Tx, q \in Peer : Early(u, q) => ann[t][p].time >= ann[u][q].time
    /\ ann' = [ann EXCEPT ![t] = ChangeAndReselect(t, @, p, As(@[p], "DELAYED"))]
    /\ UNCHANGED <<call, reply>>

(* What is left of GetRequestable. *)
ReturnRequestable ==
    /\ call # NoCall
    /\ NoneWaits /\ NoneEarly
    /\ reply' = [peer |-> call.peer, txs |-> {t \in Tx : ann[t][call.peer].state = "BEST"}]
    /\ call' = NoCall
    /\ UNCHANGED ann

SetTimePoint == \E t \in Tx, p \in Peer : SetTimePointPast(t, p) \/ SetTimePointFuture(t, p)

Next ==
    \/ \E p \in Peer, t \in Tx, time \in Time : ReceivedInv(p, t, time) \/ RequestedTx(p, t, time)
    \/ \E p \in Peer, t \in Tx : ReceivedResponse(p, t)
    \/ \E t \in Tx : ForgetTxHash(t)
    \/ \E p \in Peer : DisconnectedPeer(p)
    \/ \E p \in Peer, now \in Time \cup {0} : GetRequestable(p, now)
    \/ SetTimePoint
    \/ ReturnRequestable

Spec == Init /\ [][Next]_vars

(* GetRequestable runs to its end in the thread that called it. *)
FairSpec == Spec /\ WF_vars(SetTimePoint \/ ReturnRequestable)
-----------------------------------------------------------------------------
TypeOK ==
    /\ ann \in [Tx -> Row]
    /\ call \in [peer : Peer, now : Time \cup {0}] \cup {NoCall}
    /\ reply \in [peer : Peer, txs : SUBSET Tx] \cup {NoReply}

(* Between any two operations, and between any two steps of SetTimePoint,   *)
(* a transaction has at most one announcement that is BEST or REQUESTED, so *)
(* two requests for it are never in flight: the operations look only at the *)
(* neighbour of the announcement they change.                               *)
OneSelected ==
    \A t \in Tx : \A p, q \in Peer : IsSelected(ann[t][p]) /\ IsSelected(ann[t][q]) => p = q

(* A READY announcement is never left alone: another one of its transaction *)
(* is in flight, or is BEST with a priority above it. An announcement that  *)
(* is missed here is never asked for, however long its peer waits.          *)
ReadyBehindSelected ==
    \A t \in Tx, p \in Peer : ann[t][p].state = "READY" =>
        \E q \in Peer : \/ ann[t][q].state = "REQUESTED"
                        \/ ann[t][q].state = "BEST" /\ Priority[t][q] > Priority[t][p]

(* No transaction is kept for announcements that are all COMPLETED: it is   *)
(* forgotten with the last announcement that could still be asked for,      *)
(* whether a response, an expiry or a disconnection completed it.           *)
NeverOnlyCompleted ==
    \A t \in Tx, p \in Peer : ann[t][p].state = "COMPLETED" =>
        \E q \in Peer : ann[t][q].state \in State \ {"COMPLETED"}

(* What SendMessages was given stays BEST until it comes to it, so that the *)
(* branch of RequestedTx for an announcement that is not BEST, which its    *)
(* comment says never executes for such a caller, does not.                 *)
ReplyStaysBest ==
    reply # NoReply => \A t \in reply.txs : ann[t][reply.peer].state = "BEST"

(* The invariants of the class (SanityCheck, and the comments on State),    *)
(* between any two operations and in the middle of SetTimePoint.            *)
SelectionRight ==
    TypeOK /\ OneSelected /\ ReadyBehindSelected /\ NeverOnlyCompleted /\ ReplyStaysBest

(* A peer is asked for a transaction at most once per announcement: what    *)
(* was REQUESTED of it stays so, or COMPLETED, until it is forgotten.       *)
AskedOnce ==
    [][\A t \in Tx, p \in Peer :
          LET old == ann[t][p].state new == ann'[t][p].state
          IN  /\ old = "REQUESTED" => new \in {"REQUESTED", "COMPLETED", "NOTHING"}
              /\ old = "REQUESTED" /\ new = "REQUESTED" => ann'[t][p] = ann[t][p]
              /\ old = "COMPLETED" => new \in {"COMPLETED", "NOTHING"}]_vars

(* The two loops of SetTimePoint come to an end, whatever the indexes hold  *)
(* and wherever the clock went.                                             *)
GetRequestableReturns == (call # NoCall) ~> (call = NoCall)

(* What the naive tracker sees: one kind of CANDIDATE. *)
View(row) == [p \in Peer |-> IF IsCandidate(row[p]) THEN [state |-> "CANDIDATE", time |-> row[p].time]
                             ELSE row[p]]
naiveAnn == [t \in Tx |-> View(ann[t])]

Naive == INSTANCE TxRequestRules WITH ann <- naiveAnn

(* The tracker answers every sequence of calls as the naive one does: at    *)
(* each GetRequestable the peer is given exactly the transactions for which *)
(* it has the highest priority of the announcements whose time has come,    *)
(* with no request in flight, although DELAYED, READY and BEST were set     *)
(* by earlier calls at other times.                                         *)
AnswersAsNaive == Naive!Spec
=============================================================================
