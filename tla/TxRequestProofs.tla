--------------------------- MODULE TxRequestProofs ---------------------------
(* Proofs about TxRequest: the selection is right after every step, and the *)
(* tracker implements the naive one, for any peers, hashes and times.       *)
EXTENDS TxRequest, TLAPS

USE ZenonT(10), SMTT(60)

(* What the invariants say of the announcements of one transaction. *)
RowOne(row) == \A p, q \in Peer : IsSelected(row[p]) /\ IsSelected(row[q]) => p = q
RowReady(t, row) ==
    \A p \in Peer : row[p].state = "READY" =>
        \E q \in Peer : \/ row[q].state = "REQUESTED"
                        \/ row[q].state = "BEST" /\ Priority[t][q] > Priority[t][p]
RowLive(row) ==
    \A p \in Peer : row[p].state = "COMPLETED" =>
        \E q \in Peer : row[q].state \in State \ {"COMPLETED"}
RowOK(t, row) == row \in Row /\ RowOne(row) /\ RowReady(t, row) /\ RowLive(row)

LEMMA TimeType == \A time \in Time \cup {0} : time \in Nat
  BY SMTT(60), TxRequestAssumption

LEMMA RowType ==
    ASSUME NEW row \in Row, NEW p \in Peer
    PROVE  /\ row[p] \in {Nothing, Completed} \/ row[p].time \in Time
           /\ row[p] = [state |-> row[p].state, time |-> row[p].time]
           /\ row[p].state \in State \cup {"NOTHING"}
           /\ row[p] = Nothing <=> row[p].state = "NOTHING"
           /\ row[p] = Completed <=> row[p].state = "COMPLETED"
  BY SMTT(60) DEF Row, Announcement, Nothing, Completed, State

LEMMA SetStateType ==
    ASSUME NEW row \in Row, NEW p \in Peer, row[p].state \in State \ {"COMPLETED"},
           NEW s \in State \ {"COMPLETED"}
    PROVE  /\ SetState(row, p, s) \in Row
           /\ SetState(row, p, s)[p] = [state |-> s, time |-> row[p].time]
           /\ \A q \in Peer \ {p} : SetState(row, p, s)[q] = row[q]
  BY RowType DEF SetState, As, Row, Announcement, Nothing, Completed, State

(* The neighbours, spelt out for an announcement that is READY and for one  *)
(* that is selected.                                                        *)
LEMMA AfterReady ==
    ASSUME NEW t \in Tx, NEW row \in Row, NEW p \in Peer, row[p].state = "READY", NEW q \in Peer
    PROVE  q \in After(t, row, p) <=>
               \/ row[q].state \in {"BEST", "REQUESTED", "COMPLETED"}
               \/ row[q].state = "READY" /\ Priority[t][p] < Priority[t][q]
  <1>1. row[q].state \in State \cup {"NOTHING"} /\ (row[q] = Nothing <=> row[q].state = "NOTHING")
    BY RowType
  <1>2. Priority[t][p] \in Int /\ Priority[t][q] \in Int
    BY SMTT(60), TxRequestAssumption
  <1> QED BY SMTT(60), <1>1, <1>2 DEF After, Tracked, Precedes, Rank, State

LEMMA BeforeOf ==
    ASSUME NEW t \in Tx, NEW row \in Row, NEW p \in Peer, row[p] # Nothing, NEW q \in Peer
    PROVE  /\ row[p].state = "READY" => (q \in Before(t, row, p) <=>
                 row[q].state = "DELAYED" \/ (row[q].state = "READY" /\ Priority[t][q] < Priority[t][p]))
           /\ row[p].state = "BEST" => (q \in Before(t, row, p) <=> row[q].state \in {"DELAYED", "READY"})
           /\ row[p].state = "REQUESTED" =>
                 (q \in Before(t, row, p) <=> row[q].state \in {"DELAYED", "READY", "BEST"})
           /\ row[p].state = "COMPLETED" =>
                 (q \in Before(t, row, p) <=> row[q].state \in {"DELAYED", "READY", "BEST", "REQUESTED"})
  <1>1. /\ row[q].state \in State \cup {"NOTHING"} /\ (row[q] = Nothing <=> row[q].state = "NOTHING")
        /\ row[p].state \in State
    BY RowType
  <1>2. Priority[t][p] \in Int /\ Priority[t][q] \in Int
    BY SMTT(60), TxRequestAssumption
  <1>3. q \in Before(t, row, p) <=> row[q] # Nothing /\ Precedes(t, row, q, p)
    BY DEF Before, Tracked
  <1> QED BY SMTT(60), <1>1, <1>2, <1>3 DEF Precedes, Rank, State

(* A promotion keeps the row right, and shows the naive tracker nothing. *)
LEMMA PromoteRow ==
    ASSUME NEW t \in Tx, NEW row, RowOK(t, row), NEW p \in Peer, row[p].state = "DELAYED"
    PROVE  /\ RowOK(t, PromoteCandidateReady(t, row, p))
           /\ View(PromoteCandidateReady(t, row, p)) = View(row)
  <1> DEFINE ready == SetState(row, p, "READY")
             next == {q \in Tracked(ready) : IsNext(t, ready, p, q)}
             res == PromoteCandidateReady(t, row, p)
  <1>r. row \in Row /\ RowOne(row) /\ RowReady(t, row) /\ RowLive(row)
    BY DEF RowOK
  <1>p. row[p] # Nothing
    BY SMTT(60) DEF Nothing
  <1>1. /\ ready \in Row
        /\ ready[p] = [state |-> "READY", time |-> row[p].time]
        /\ \A q \in Peer \ {p} : ready[q] = row[q]
    BY SMTT(60), <1>r, <1>p, SetStateType DEF State
  <1>2. /\ ready[p].state = "READY" /\ ready[p].time = row[p].time
        /\ ready[p] # Nothing
    BY SMTT(60), <1>1 DEF Nothing
  <1>3. \A q \in Peer : Priority[t][q] \in Int
    BY SMTT(60), TxRequestAssumption
  <1>4. res = IF \A q \in next : ready[q].state = "COMPLETED"
              THEN SetState(ready, p, "BEST")
              ELSE LET q == CHOOSE q \in next : TRUE
                   IN  IF ready[q].state = "BEST" /\ Priority[t][p] > Priority[t][q]
                       THEN SetState(SetState(ready, q, "READY"), p, "BEST")
                       ELSE ready
    BY DEF PromoteCandidateReady
  <1>5. \A q \in Peer : q \in After(t, ready, p) <=>
               \/ ready[q].state \in {"BEST", "REQUESTED", "COMPLETED"}
               \/ ready[q].state = "READY" /\ Priority[t][p] < Priority[t][q]
    BY <1>1, <1>2, AfterReady
  <1>6. next = {q \in Peer : q \in After(t, ready, p) /\ After(t, ready, p) \cap Before(t, ready, q) = {}}
    BY DEF IsNext, Tracked, After
  <1>7. \A q \in Peer : ready[q].state = "READY" =>
             (\A r \in Peer : r \in Before(t, ready, q) <=>
                 ready[r].state = "DELAYED" \/ (ready[r].state = "READY" /\ Priority[t][r] < Priority[t][q]))
    <2> TAKE q \in Peer
    <2> HAVE ready[q].state = "READY"
    <2> ready[q] # Nothing
      BY SMTT(60) DEF Nothing
    <2> QED BY <1>1, BeforeOf
  <1>8. \A q \in Peer : ready[q].state = "BEST" =>
             (\A r \in Peer : r \in Before(t, ready, q) <=> ready[r].state \in {"DELAYED", "READY"})
    <2> TAKE q \in Peer
    <2> HAVE ready[q].state = "BEST"
    <2> ready[q] # Nothing
      BY SMTT(60) DEF Nothing
    <2> QED BY <1>1, BeforeOf
  <1>9. \A q \in Peer : ready[q].state = "REQUESTED" =>
             (\A r \in Peer : r \in Before(t, ready, q) <=> ready[r].state \in {"DELAYED", "READY", "BEST"})
    <2> TAKE q \in Peer
    <2> HAVE ready[q].state = "REQUESTED"
    <2> ready[q] # Nothing
      BY SMTT(60) DEF Nothing
    <2> QED BY <1>1, BeforeOf
  <1>10. \A q \in Peer : ready[q].state = "COMPLETED" =>
             (\A r \in Peer : r \in Before(t, ready, q) <=>
                 ready[r].state \in {"DELAYED", "READY", "BEST", "REQUESTED"})
    <2> TAKE q \in Peer
    <2> HAVE ready[q].state = "COMPLETED"
    <2> ready[q] # Nothing
      BY SMTT(60) DEF Nothing
    <2> QED BY <1>1, BeforeOf
  <1> HIDE DEF ready, next, res
  (* If one of a higher priority is READY, one of them follows at once. *)
  <1>11. ASSUME NEW q \in Peer, ready[q].state = "READY", Priority[t][p] < Priority[t][q]
         PROVE  \E m \in next : ready[m].state = "READY"
    <2> DEFINE S == {r \in Peer : ready[r].state = "READY" /\ Priority[t][p] < Priority[t][r]}
    <2>1. S \in SUBSET Peer /\ S # {}
      BY <1>11
    <2>2. PICK m \in S : \A r \in S : Priority[t][m] <= Priority[t][r]
      BY <2>1, TxRequestAssumption
    <2>3. m \in After(t, ready, p)
      BY <1>5
    <2>4. \A r \in Peer : ~(r \in After(t, ready, p) /\ r \in Before(t, ready, m))
      BY SMTT(60), <1>3, <1>5, <1>7, <2>2
    <2>5. After(t, ready, p) \cap Before(t, ready, m) = {}
      BY <2>4 DEF After, Tracked
    <2> QED BY <1>6, <2>3, <2>5
  (* If none is, the selected announcement follows. *)
  <1>12. ASSUME NEW q \in Peer, IsSelected(ready[q]),
                \A r \in Peer : ready[r].state = "READY" => ~(Priority[t][p] < Priority[t][r])
         PROVE  q \in next
    <2>1. q # p /\ row[q] = ready[q]
      BY <1>1, <1>2, <1>12 DEF IsSelected
    <2>2. \A r \in Peer : IsSelected(ready[r]) => r = q
      BY <1>1, <1>2, <1>r, <1>12, <2>1 DEF IsSelected, RowOne
    <2>3. q \in After(t, ready, p)
      BY <1>5, <1>12 DEF IsSelected
    <2>4. \A r \in Peer : ~(r \in After(t, ready, p) /\ r \in Before(t, ready, q))
      BY <1>5, <1>8, <1>9, <1>12, <2>2 DEF IsSelected
    <2>5. After(t, ready, p) \cap Before(t, ready, q) = {}
      BY <2>4 DEF After, Tracked
    <2> QED BY <1>6, <2>3, <2>5
  <1>13. ready[p].state \in State \ {"COMPLETED"} /\ {"BEST", "READY"} \subseteq State \ {"COMPLETED"}
    BY <1>2 DEF State
  <1>14. CASE \A q \in next : ready[q].state = "COMPLETED"
    <2>1. \A q \in Peer : ready[q].state = "READY" => ~(Priority[t][p] < Priority[t][q])
      BY <1>11, <1>14
    <2>2. \A q \in Peer : ~IsSelected(ready[q])
      BY <1>12, <1>14, <2>1 DEF IsSelected
    <2>3. \A q \in Peer \ {p} : ~IsSelected(row[q]) /\ row[q].state # "READY"
      BY <1>r, <1>1, <2>2 DEF RowReady, IsSelected
    <2>4. /\ res \in Row
          /\ res[p] = [state |-> "BEST", time |-> row[p].time]
          /\ \A q \in Peer \ {p} : res[q] = row[q]
      BY SMTT(60), <1>1, <1>2, <1>4, <1>13, <1>14, SetStateType
    <2>5. RowOK(t, res)
      BY SMTT(60), <2>3, <2>4 DEF RowOK, RowOne, RowReady, RowLive, IsSelected, State
    <2>6. View(res) = View(row)
      BY SMTT(60), <2>4 DEF View, IsCandidate
    <2> QED BY <2>5, <2>6 DEF res
  <1>15. CASE ~\A q \in next : ready[q].state = "COMPLETED"
    <2> DEFINE q == CHOOSE q \in next : TRUE
    <2>1. PICK m \in next : ready[m].state # "COMPLETED"
      BY <1>15
    <2>2. q \in next
      BY <2>1
    <2> HIDE DEF q
    <2>3. /\ q \in Peer /\ q \in After(t, ready, p) /\ m \in Peer /\ m \in After(t, ready, p)
          /\ ~(m \in Before(t, ready, q))
      BY <1>6, <2>1, <2>2
    <2>4. ready[q].state # "COMPLETED"
      BY <1>5, <1>10, <2>1, <2>3
    <2>5. \/ ready[q].state \in {"BEST", "REQUESTED"}
          \/ ready[q].state = "READY" /\ Priority[t][p] < Priority[t][q]
      BY <1>5, <2>3, <2>4
    <2>6. q # p /\ row[q] = ready[q]
      BY SMTT(60), <1>1, <1>2, <1>3, <2>3, <2>5
    <2>7. CASE ready[q].state = "BEST" /\ Priority[t][p] > Priority[t][q]
      <3> DEFINE mid == SetState(ready, q, "READY")
      <3>1. res = SetState(mid, p, "BEST")
        BY <1>4, <1>15, <2>7 DEF q
      <3>2. ready[q] # Nothing
        BY SMTT(60), <2>7 DEF Nothing
      <3>3. /\ mid \in Row /\ mid[q] = [state |-> "READY", time |-> ready[q].time]
            /\ \A r \in Peer \ {q} : mid[r] = ready[r]
        BY SMTT(60), <1>1, <1>13, <2>3, <2>7, SetStateType
      <3> HIDE DEF mid
      <3>4. mid[p] = ready[p]
        BY <2>6, <3>3
      <3>5. /\ res \in Row /\ res[p] = [state |-> "BEST", time |-> ready[p].time]
            /\ \A r \in Peer \ {p} : res[r] = mid[r]
        BY SMTT(60), <1>2, <1>13, <3>1, <3>3, <3>4, SetStateType
      <3>6. /\ res[p] = [state |-> "BEST", time |-> row[p].time]
            /\ res[q] = [state |-> "READY", time |-> row[q].time]
            /\ \A r \in Peer \ {p, q} : res[r] = row[r]
        BY <1>1, <1>2, <2>3, <2>6, <3>3, <3>5
      <3>7. \A r \in Peer \ {q} : ~IsSelected(row[r])
        BY <1>r, <2>3, <2>6, <2>7 DEF RowOne, IsSelected
      <3>8. \A r \in Peer : row[r].state = "READY" => Priority[t][p] > Priority[t][r]
        BY SMTT(60), <1>r, <1>3, <2>3, <2>6, <2>7, <3>7 DEF RowReady, IsSelected
      <3>9. RowOne(res) /\ RowLive(res)
        BY SMTT(60), <2>3, <3>6, <3>7 DEF RowOne, RowLive, IsSelected, State
      <3>10. RowReady(t, res)
        BY SMTT(60), <2>3, <2>7, <3>6, <3>8 DEF RowReady
      <3>11. View(res) = View(row)
        BY SMTT(60), <2>3, <2>6, <2>7, <3>6 DEF View, IsCandidate
      <3> QED BY <3>5, <3>9, <3>10, <3>11 DEF RowOK, res
    <2>8. CASE ~(ready[q].state = "BEST" /\ Priority[t][p] > Priority[t][q])
      <3>1. res = ready
        BY <1>4, <1>15, <2>8 DEF q
      <3>2. \E r \in Peer : \/ ready[r].state = "REQUESTED"
                            \/ ready[r].state = "BEST" /\ Priority[t][r] > Priority[t][p]
        <4>1. CASE ready[q].state = "READY"
          <5>1. PICK r \in Peer : \/ row[r].state = "REQUESTED"
                                  \/ row[r].state = "BEST" /\ Priority[t][r] > Priority[t][q]
            BY <1>r, <2>3, <2>6, <4>1 DEF RowReady
          <5>2. r # p /\ ready[r] = row[r]
            BY <1>1, <5>1
          <5> QED BY SMTT(60), <1>3, <2>3, <2>5, <4>1, <5>1, <5>2
        <4>2. CASE ready[q].state = "BEST"
          <5>1. Priority[t][q] # Priority[t][p] /\ Priority[t][q] \in Int /\ Priority[t][p] \in Int
            BY SMTT(60), <2>3, <2>6, TxRequestAssumption
          <5> QED BY SMTT(60), <2>3, <2>8, <4>2, <5>1
        <4> QED BY <2>3, <2>5, <4>1, <4>2
      <3>3. RowOne(ready) /\ RowLive(ready)
        BY <1>r, <1>1, <1>2 DEF RowOne, RowLive, IsSelected, State
      <3>4. RowReady(t, ready)
        BY SMTT(60), <1>r, <1>1, <1>2, <3>2 DEF RowReady
      <3>5. View(ready) = View(row)
        BY <1>1, <1>2 DEF View, IsCandidate
      <3> QED BY <1>1, <3>1, <3>3, <3>4, <3>5 DEF RowOK, res
    <2> QED BY <2>7, <2>8
  <1> QED BY <1>14, <1>15

(* After a change of p to a state that is not selected the rest of the row  *)
(* is right: the READY announcement of the highest priority has taken its   *)
(* place. Only candidates changed beside p.                                 *)
LEMMA ChangeRow ==
    ASSUME NEW t \in Tx, NEW row, RowOK(t, row), NEW p \in Peer, row[p] # Nothing,
           NEW new \in Announcement, new.state \in {"COMPLETED", "DELAYED"}
    PROVE  LET res == ChangeAndReselect(t, row, p, new)
           IN  /\ res \in Row /\ RowOne(res) /\ RowReady(t, res)
               /\ res[p] = new
               /\ \A q \in Peer \ {p} : View(res)[q] = View(row)[q]
               /\ \A q \in Peer \ {p} : row[q] # Nothing /\ row[q].state # "COMPLETED" =>
                      res[q].state \in State \ {"COMPLETED"}
  <1> DEFINE prev == {q \in Tracked(row) : IsPrev(t, row, p, q) /\ row[q].state = "READY"}
             res == ChangeAndReselect(t, row, p, new)
  <1>r. row \in Row /\ RowOne(row) /\ RowReady(t, row) /\ RowLive(row)
    BY DEF RowOK
  <1>3. \A q \in Peer : Priority[t][q] \in Int
    BY SMTT(60), TxRequestAssumption
  <1>4. \A q \in Peer : row[q].state \in State \cup {"NOTHING"} /\ (row[q] = Nothing <=> row[q].state = "NOTHING")
    BY <1>r, RowType
  <1> SUFFICES /\ res \in Row /\ RowOne(res) /\ RowReady(t, res)
               /\ res[p] = new
               /\ \A q \in Peer \ {p} : View(res)[q] = View(row)[q]
               /\ \A q \in Peer \ {p} : row[q] # Nothing /\ row[q].state # "COMPLETED" =>
                      res[q].state \in State \ {"COMPLETED"}
    OBVIOUS
  <1>5. CASE ~IsSelected(row[p])
    <2>1. res = [row EXCEPT ![p] = new]
      BY <1>5 DEF ChangeAndReselect
    <2> HIDE DEF res
    <2>2. res \in Row /\ res[p] = new /\ \A q \in Peer \ {p} : res[q] = row[q]
      BY <1>r, <2>1 DEF Row
    <2>3. RowOne(res)
      BY <1>r, <2>2 DEF RowOne, IsSelected
    <2>4. RowReady(t, res)
      BY SMTT(60), <1>r, <1>5, <2>2 DEF RowReady, IsSelected
    <2> QED BY <1>4, <2>2, <2>3, <2>4 DEF View
  <1>6. CASE IsSelected(row[p])
    <2>1. \A q \in Peer : q # p => ~IsSelected(row[q])
      BY <1>r, <1>6 DEF RowOne
    (* What is READY and of the highest priority is just before p. *)
    <2>2. ASSUME NEW q \in Peer, row[q].state = "READY"
          PROVE  q \in prev <=> \A r \in Peer : row[r].state = "READY" => Priority[t][r] <= Priority[t][q]
      <3>0. q # p /\ row[q] # Nothing
        BY <1>4, <1>6, <2>2 DEF IsSelected
      <3>1. \A r \in Peer : r \in After(t, row, q) <=>
               \/ row[r].state \in {"BEST", "REQUESTED", "COMPLETED"}
               \/ row[r].state = "READY" /\ Priority[t][q] < Priority[t][r]
        BY <1>r, <2>2, AfterReady
      <3>2. \A r \in Peer : r # p => (r \in Before(t, row, p) <=> row[r].state \in {"DELAYED", "READY"})
        BY <1>r, <1>6, <2>1, BeforeOf DEF IsSelected
      <3>3. ~(p \in Before(t, row, p))
        BY <1>r, <1>6, BeforeOf DEF IsSelected
      <3>4. p \in After(t, row, q)
        BY <1>6, <3>1 DEF IsSelected
      <3>5. q \in prev <=> \A r \in Peer : ~(r \in After(t, row, q) /\ r \in Before(t, row, p))
        BY <2>2, <3>0, <3>4 DEF IsPrev, IsNext, Tracked, After
      <3>6. \A r \in Peer : (r \in After(t, row, q) /\ r \in Before(t, row, p)) <=>
                            (row[r].state = "READY" /\ Priority[t][q] < Priority[t][r])
        BY <1>6, <3>1, <3>2, <3>3 DEF IsSelected
      <3> HIDE DEF prev
      <3> QED BY SMTT(60), <1>3, <3>5, <3>6
    <2>3. CASE prev = {}
      <3>1. \A q \in Peer : row[q].state # "READY"
        <4> SUFFICES ASSUME NEW q \in Peer, row[q].state = "READY" PROVE FALSE
          OBVIOUS
        <4> DEFINE S == {r \in Peer : row[r].state = "READY"}
        <4>1. S \in SUBSET Peer /\ S # {}
          OBVIOUS
        <4>2. PICK m \in S : \A r \in S : Priority[t][r] <= Priority[t][m]
          BY <4>1, TxRequestAssumption
        <4> HIDE DEF prev
        <4> QED BY <2>2, <2>3, <4>2
      <3>2. res = [row EXCEPT ![p] = new]
        BY <2>3 DEF ChangeAndReselect
      <3> HIDE DEF res, prev
      <3>3. res \in Row /\ res[p] = new /\ \A q \in Peer \ {p} : res[q] = row[q]
        BY <1>r, <3>2 DEF Row
      <3>4. RowOne(res) /\ RowReady(t, res)
        BY <2>1, <3>1, <3>3 DEF RowOne, RowReady, IsSelected
      <3> QED BY <1>4, <3>3, <3>4 DEF View
    <2>4. CASE prev # {}
      <3> DEFINE q == CHOOSE q \in prev : TRUE
                 mid == SetState(row, q, "BEST")
      <3>1. q \in prev
        BY <2>4
      <3>2. res = [mid EXCEPT ![p] = new]
        BY <1>6, <2>4 DEF ChangeAndReselect
      <3>3. q \in Peer /\ row[q].state = "READY" /\ row[q] # Nothing /\ q # p
        BY <1>6, <3>1 DEF Tracked, IsSelected
      <3> HIDE DEF q, prev, res
      <3>4. \A r \in Peer : row[r].state = "READY" => Priority[t][r] <= Priority[t][q]
        BY <2>2, <3>1, <3>3
      <3>5. /\ mid \in Row /\ mid[q] = [state |-> "BEST", time |-> row[q].time]
            /\ \A r \in Peer \ {q} : mid[r] = row[r]
        BY SMTT(60), <1>r, <3>3, SetStateType DEF State
      <3> HIDE DEF mid
      <3>6. /\ res \in Row /\ res[p] = new /\ res[q] = [state |-> "BEST", time |-> row[q].time]
            /\ \A r \in Peer \ {p, q} : res[r] = row[r]
        BY <3>2, <3>3, <3>5 DEF Row
      <3>7. RowOne(res)
        BY <2>1, <3>3, <3>6 DEF RowOne, IsSelected
      <3>8. \A r \in Peer \ {q} : row[r].state = "READY" => Priority[t][q] > Priority[t][r]
        <4> TAKE r \in Peer \ {q}
        <4>1. Priority[t][q] # Priority[t][r] /\ Priority[t][q] \in Int /\ Priority[t][r] \in Int
          BY SMTT(60), <3>3, TxRequestAssumption
        <4> QED BY SMTT(60), <3>4, <4>1
      <3>9. RowReady(t, res)
        BY SMTT(60), <3>3, <3>6, <3>8 DEF RowReady
      <3>10. \A r \in Peer \ {p} : View(res)[r] = View(row)[r]
        BY SMTT(60), <3>3, <3>6 DEF View, IsCandidate
      <3>11. \A r \in Peer \ {p} : row[r] # Nothing /\ row[r].state # "COMPLETED" =>
                 res[r].state \in State \ {"COMPLETED"}
        BY SMTT(60), <1>4, <3>3, <3>6 DEF State
      <3> QED BY <3>6, <3>7, <3>9, <3>10, <3>11
    <2> QED BY <2>3, <2>4
  <1> QED BY <1>5, <1>6

LEMMA MakeCompletedRow ==
    ASSUME NEW t \in Tx, NEW row, RowOK(t, row), NEW p \in Peer, row[p] # Nothing
    PROVE  /\ RowOK(t, MakeCompleted(t, row, p))
           /\ View(MakeCompleted(t, row, p)) = Naive!Cleanup([View(row) EXCEPT ![p] = Completed])
           /\ MakeCompleted(t, row, p) = Forgotten \/ MakeCompleted(t, row, p)[p] = Completed
           /\ MakeCompleted(t, row, p)[p] \in {Completed, Nothing}
  <1> DEFINE res == MakeCompleted(t, row, p)
             view == [View(row) EXCEPT ![p] = Completed]
  <1>r. row \in Row /\ RowOne(row) /\ RowReady(t, row) /\ RowLive(row)
    BY DEF RowOK
  <1>1. \A q \in Peer : /\ row[q].state \in State \cup {"NOTHING"}
                        /\ row[q] = Nothing <=> row[q].state = "NOTHING"
                        /\ row[q] = Completed <=> row[q].state = "COMPLETED"
    BY <1>r, RowType
  <1>2. /\ view = [q \in Peer |-> IF q = p THEN Completed ELSE View(row)[q]]
        /\ \A q \in Peer : View(row)[q].state \in {"NOTHING", "COMPLETED"} <=>
                           row[q].state \in {"NOTHING", "COMPLETED"}
    BY <1>1 DEF View, IsCandidate, State
  <1>3. CASE row[p].state = "COMPLETED"
    <2>1. res = row /\ row[p] = Completed
      BY <1>1, <1>3 DEF MakeCompleted
    <2>2. view = View(row)
      BY SMTT(60), <2>1, <1>2 DEF View, IsCandidate, Completed
    <2>3. PICK q \in Peer : row[q].state \in State \ {"COMPLETED"}
      BY <1>r, <1>3 DEF RowLive
    <2>4. ~(View(row)[q].state \in {"NOTHING", "COMPLETED"})
      BY <1>2, <2>3 DEF State
    <2>5. Naive!Cleanup(view) = view
      BY <2>2, <2>4 DEF Naive!Cleanup
    <2> QED BY <2>1, <2>2, <2>5
  <1>4. CASE row[p].state # "COMPLETED" /\ IsOnlyNonCompleted(row, p)
    <2>1. res = Forgotten
      BY <1>4 DEF MakeCompleted
    <2>2. \A q \in Peer \ {p} : row[q].state \in {"NOTHING", "COMPLETED"}
      BY <1>1, <1>4 DEF IsOnlyNonCompleted, Tracked
    <2>3. \A q \in Peer : view[q].state \in {"NOTHING", "COMPLETED"}
      BY <1>2, <2>2 DEF Completed
    <2>4. Naive!Cleanup(view) = Forgotten
      BY <2>3 DEF Naive!Cleanup, Naive!Nothing, Forgotten, Nothing
    <2>5. View(Forgotten) = Forgotten /\ RowOK(t, Forgotten) /\ Forgotten[p] = Nothing
      BY DEF View, Forgotten, Nothing, IsCandidate, RowOK, RowOne, RowReady, RowLive, IsSelected, Row, Announcement
    <2> QED BY <2>1, <2>4, <2>5
  <1>5. CASE row[p].state # "COMPLETED" /\ ~IsOnlyNonCompleted(row, p)
    <2>1. res = ChangeAndReselect(t, row, p, Completed)
      BY <1>5 DEF MakeCompleted
    <2>2. Completed \in Announcement /\ Completed.state \in {"COMPLETED", "DELAYED"}
      BY DEF Completed, Announcement
    <2> HIDE DEF res
    <2>3. /\ res \in Row /\ RowOne(res) /\ RowReady(t, res)
          /\ res[p] = Completed
          /\ \A q \in Peer \ {p} : View(res)[q] = View(row)[q]
          /\ \A q \in Peer \ {p} : row[q] # Nothing /\ row[q].state # "COMPLETED" =>
                 res[q].state \in State \ {"COMPLETED"}
      BY SMTT(60), <2>1, <2>2, ChangeRow
    <2>4. PICK q \in Peer \ {p} : row[q] # Nothing /\ row[q].state # "COMPLETED"
      BY <1>5 DEF IsOnlyNonCompleted, Tracked
    <2>5. RowOK(t, res)
      BY <2>3, <2>4 DEF RowOK, RowLive
    <2>6. View(res) = view
      <3>1. View(res)[p] = Completed
        BY SMTT(60), <2>3 DEF View, IsCandidate, Completed
      <3>2. View(res) = [r \in Peer |-> View(res)[r]]
        BY DEF View
      <3> QED BY <1>2, <2>3, <3>1, <3>2
    <2>7. ~(View(row)[q].state \in {"NOTHING", "COMPLETED"}) /\ view[q] = View(row)[q]
      BY <1>1, <1>2, <2>4
    <2> HIDE DEF view
    <2>8. Naive!Cleanup(view) = view
      BY <2>7 DEF Naive!Cleanup
    <2>9. RowOK(t, res) /\ View(res) = Naive!Cleanup(view) /\ res[p] = Completed
      BY <2>3, <2>5, <2>6, <2>8
    <2> QED BY <2>9 DEF res, view
  <1> QED BY <1>3, <1>4, <1>5

LEMMA InvRow ==
    ASSUME NEW t \in Tx, NEW row, RowOK(t, row), NEW p \in Peer, row[p] = Nothing, NEW time \in Time
    PROVE  LET res == [row EXCEPT ![p] = [state |-> "DELAYED", time |-> time]]
           IN  /\ RowOK(t, res)
               /\ View(res) = [View(row) EXCEPT ![p] = [state |-> "CANDIDATE", time |-> time]]
  <1> DEFINE res == [row EXCEPT ![p] = [state |-> "DELAYED", time |-> time]]
  <1>1. /\ res \in Row /\ res[p] = [state |-> "DELAYED", time |-> time]
        /\ \A q \in Peer \ {p} : res[q] = row[q]
    BY DEF RowOK, Row, Announcement, State
  <1> HIDE DEF res
  <1>2. RowOne(res) /\ RowLive(res)
    BY SMTT(60), <1>1 DEF RowOK, RowOne, RowLive, IsSelected, State
  <1>3. RowReady(t, res)
    BY SMTT(60), <1>1 DEF RowOK, RowReady, Nothing
  <1>4. View(res) = [View(row) EXCEPT ![p] = [state |-> "CANDIDATE", time |-> time]]
    <2>1. /\ View(res)[p] = [state |-> "CANDIDATE", time |-> time]
          /\ \A q \in Peer \ {p} : View(res)[q] = View(row)[q]
      BY SMTT(60), <1>1 DEF View, IsCandidate
    <2>2. View(res) = [q \in Peer |-> View(res)[q]] /\ View(row) = [q \in Peer |-> View(row)[q]]
      BY DEF View
    <2> QED BY <2>1, <2>2
  <1> QED BY <1>1, <1>2, <1>3, <1>4 DEF RowOK, res

LEMMA RequestRow ==
    ASSUME NEW t \in Tx, NEW row, RowOK(t, row), NEW p \in Peer, IsCandidate(row[p]), NEW expiry \in Time
    PROVE  LET res == [Unselect(row, p) EXCEPT ![p] = [state |-> "REQUESTED", time |-> expiry]]
           IN  /\ RowOK(t, res)
               /\ View(res) = [q \in Peer |->
                        CASE q = p -> [state |-> "REQUESTED", time |-> expiry]
                          [] q # p /\ View(row)[q].state = "REQUESTED" -> Completed
                          [] OTHER -> View(row)[q]]
               /\ \A q \in Peer \ {p} : row[q].state = "REQUESTED" => res[q] = Completed
               /\ \A q \in Peer \ {p} : row[q].state = "COMPLETED" => res[q] = row[q]
               /\ res[p] = [state |-> "REQUESTED", time |-> expiry]
  <1> DEFINE res == [Unselect(row, p) EXCEPT ![p] = [state |-> "REQUESTED", time |-> expiry]]
             other(q) == IF row[p].state = "BEST" THEN row[q]
                         ELSE IF row[q].state = "BEST" THEN [state |-> "READY", time |-> row[q].time]
                         ELSE IF row[q].state = "REQUESTED" THEN Completed ELSE row[q]
  <1>r. row \in Row /\ RowOne(row) /\ RowReady(t, row) /\ RowLive(row)
    BY DEF RowOK
  <1>1. \A q \in Peer : /\ row[q].state \in State \cup {"NOTHING"}
                        /\ row[q] \in {Nothing, Completed} \/ row[q].time \in Time
                        /\ row[q] = Nothing <=> row[q].state = "NOTHING"
                        /\ row[q] = Completed <=> row[q].state = "COMPLETED"
    BY <1>r, RowType
  <1>2. /\ res[p] = [state |-> "REQUESTED", time |-> expiry]
        /\ \A q \in Peer \ {p} : res[q] = other(q)
        /\ res = [q \in Peer |-> res[q]]
    BY DEF Unselect, As
  <1>3. \A q \in Peer \ {p} : other(q) \in Announcement /\ ~IsSelected(other(q))
    <2> TAKE q \in Peer \ {p}
    <2>1. row[p].state = "BEST" => ~IsSelected(row[q])
      BY <1>r DEF RowOne, IsSelected
    <2>2. row[q] \in Announcement
      BY <1>r DEF Row
    <2>3. row[q].state = "BEST" => row[q].time \in Time
      BY <1>1 DEF Nothing, Completed
    <2> QED BY <2>1, <2>2, <2>3 DEF IsSelected, Completed, Announcement, State
  <1> HIDE DEF res, other
  <1>4. res \in Row
    <2>1. [state |-> "REQUESTED", time |-> expiry] \in Announcement
      BY DEF Announcement, State
    <2>2. \A q \in Peer : res[q] \in Announcement
      BY <1>2, <1>3, <2>1
    <2> QED BY <1>2, <2>2 DEF Row
  <1>5. RowOne(res)
    BY <1>2, <1>3 DEF RowOne
  <1>6. RowReady(t, res) /\ RowLive(res)
    BY SMTT(60), <1>2 DEF RowReady, RowLive, State
  <1>7. \A q \in Peer \ {p} : /\ row[q].state = "REQUESTED" => res[q] = Completed
                              /\ row[q].state = "COMPLETED" => res[q] = row[q]
    <2>1. \A q \in Peer \ {p} : row[q].state = "REQUESTED" => row[p].state # "BEST"
      BY <1>r DEF RowOne, IsSelected
    <2> QED BY <1>2, <2>1 DEF other
  <1>8. \A q \in Peer \ {p} : View(res)[q] = IF View(row)[q].state = "REQUESTED" THEN Completed
                                             ELSE View(row)[q]
    <2> TAKE q \in Peer \ {p}
    <2>1. row[q].state = "REQUESTED" => row[p].state # "BEST"
      BY <1>r DEF RowOne, IsSelected
    <2>2. res[q] = other(q)
      BY <1>2
    <2> QED BY SMTT(60), <1>1, <2>1, <2>2 DEF View, other, IsCandidate, Completed
  <1>9. View(res)[p] = [state |-> "REQUESTED", time |-> expiry] /\ View(res) = [q \in Peer |-> View(res)[q]]
    BY SMTT(60), <1>2 DEF View, IsCandidate
  <1>10. View(res) = [q \in Peer |->
                        CASE q = p -> [state |-> "REQUESTED", time |-> expiry]
                          [] q # p /\ View(row)[q].state = "REQUESTED" -> Completed
                          [] OTHER -> View(row)[q]]
    BY <1>8, <1>9
  <1>11. RowOK(t, res)
    BY <1>4, <1>5, <1>6 DEF RowOK
  <1> QED BY <1>2, <1>7, <1>10, <1>11 DEF res

LEMMA DemoteRow ==
    ASSUME NEW t \in Tx, NEW row, RowOK(t, row), NEW p \in Peer, IsSelectable(row[p])
    PROVE  /\ RowOK(t, ChangeAndReselect(t, row, p, As(row[p], "DELAYED")))
           /\ View(ChangeAndReselect(t, row, p, As(row[p], "DELAYED"))) = View(row)
  <1> DEFINE new == As(row[p], "DELAYED")
             res == ChangeAndReselect(t, row, p, new)
  <1>1. /\ row \in Row /\ row[p] # Nothing /\ new \in Announcement /\ new.state = "DELAYED"
        /\ new = [state |-> "DELAYED", time |-> row[p].time]
    BY RowType DEF RowOK, As, Announcement, IsSelectable, Nothing, Completed, State
  <1> HIDE DEF new
  <1>2. /\ res \in Row /\ RowOne(res) /\ RowReady(t, res) /\ res[p] = new
        /\ \A q \in Peer \ {p} : View(res)[q] = View(row)[q]
    BY SMTT(60), <1>1, ChangeRow
  <1> HIDE DEF res
  <1>3. RowLive(res)
    BY <1>1, <1>2 DEF RowLive, State
  <1>4. View(res)[p] = View(row)[p]
    BY SMTT(60), <1>1, <1>2 DEF View, IsCandidate, IsSelectable
  <1>5. View(res) = [q \in Peer |-> View(res)[q]] /\ View(row) = [q \in Peer |-> View(row)[q]]
    BY DEF View
  <1>6. View(res) = View(row)
    BY <1>2, <1>4, <1>5
  <1> QED BY <1>2, <1>3, <1>6 DEF RowOK, res, new

LEMMA EraseRow ==
    ASSUME NEW t \in Tx, NEW row, RowOK(t, row), NEW p \in Peer, row[p] # Nothing
    PROVE  /\ RowOK(t, [MakeCompleted(t, row, p) EXCEPT ![p] = Nothing])
           /\ View([MakeCompleted(t, row, p) EXCEPT ![p] = Nothing])
                 = Naive!Cleanup([View(row) EXCEPT ![p] = Nothing])
  <1> DEFINE mid == MakeCompleted(t, row, p)
             res == [mid EXCEPT ![p] = Nothing]
             vC == [View(row) EXCEPT ![p] = Completed]
             vN == [View(row) EXCEPT ![p] = Nothing]
  <1>1. RowOK(t, mid) /\ View(mid) = Naive!Cleanup(vC) /\ mid[p] \in {Completed, Nothing}
    BY MakeCompletedRow
  <1> HIDE DEF mid
  <1>2. res \in Row /\ res[p] = Nothing /\ \A q \in Peer \ {p} : res[q] = mid[q]
    BY <1>1 DEF RowOK, Row, Announcement
  <1> HIDE DEF res
  <1>3. RowOne(res)
    BY SMTT(60), <1>1, <1>2 DEF RowOK, RowOne, IsSelected, Nothing
  <1>4. RowReady(t, res)
    BY SMTT(60), <1>1, <1>2 DEF RowOK, RowReady, Nothing, Completed
  <1>5. RowLive(res)
    BY SMTT(60), <1>1, <1>2 DEF RowOK, RowLive, Nothing, Completed, State
  <1>6. View(res) = [View(mid) EXCEPT ![p] = Nothing]
    <2>1. View(res)[p] = Nothing /\ \A q \in Peer \ {p} : View(res)[q] = View(mid)[q]
      BY SMTT(60), <1>2 DEF View, IsCandidate, Nothing
    <2>2. View(res) = [q \in Peer |-> View(res)[q]] /\ View(mid) = [q \in Peer |-> View(mid)[q]]
      BY DEF View
    <2> QED BY <2>1, <2>2
  <1>7. /\ vC = [q \in Peer |-> IF q = p THEN Completed ELSE View(row)[q]]
        /\ vN = [q \in Peer |-> IF q = p THEN Nothing ELSE View(row)[q]]
    BY DEF View
  <1> HIDE DEF vC, vN
  <1>8. (\A q \in Peer : vC[q].state \in {"NOTHING", "COMPLETED"}) <=>
        (\A q \in Peer : vN[q].state \in {"NOTHING", "COMPLETED"})
    BY <1>7 DEF Nothing, Completed
  <1>9. [Naive!Cleanup(vC) EXCEPT ![p] = Nothing] = Naive!Cleanup(vN)
    BY <1>7, <1>8 DEF Naive!Cleanup, Naive!Nothing, Nothing
  <1>10. View(res) = Naive!Cleanup(vN)
    BY <1>1, <1>6, <1>9
  <1> QED BY <1>2, <1>3, <1>4, <1>5, <1>10 DEF RowOK, res, mid, vN

(* While GetRequestable runs its caller holds no earlier answer. *)
Inv ==
    /\ TypeOK
    /\ \A t \in Tx : RowOK(t, ann[t])
    /\ ReplyStaysBest
    /\ call # NoCall => reply = NoReply

LEMMA InvInit == Init => Inv
  <1> SUFFICES ASSUME Init PROVE Inv
    OBVIOUS
  <1>1. \A t \in Tx : RowOK(t, Forgotten)
    BY DEF Forgotten, Nothing, RowOK, RowOne, RowReady, RowLive, IsSelected, Row, Announcement
  <1>2. \A t \in Tx : ann[t] = Forgotten
    BY DEF Init
  <1>3. TypeOK
    BY <1>1 DEF Init, TypeOK, RowOK
  <1> QED BY <1>1, <1>2, <1>3 DEF Init, Inv, ReplyStaysBest

(* A change of the row of t alone. *)
LEMMA RowChange ==
    ASSUME Inv, NEW t \in Tx, NEW res, ann' = [ann EXCEPT ![t] = res], RowOK(t, res)
    PROVE  /\ ann' \in [Tx -> Row]
           /\ \A u \in Tx : RowOK(u, ann'[u])
           /\ naiveAnn' = [naiveAnn EXCEPT ![t] = View(res)]
           /\ ann'[t] = res /\ \A u \in Tx \ {t} : ann'[u] = ann[u]
  <1>1. ann \in [Tx -> Row] /\ \A u \in Tx : RowOK(u, ann[u])
    BY DEF Inv, TypeOK
  <1>2. ann'[t] = res /\ (\A u \in Tx \ {t} : ann'[u] = ann[u]) /\ ann' \in [Tx -> Row]
    BY <1>1 DEF RowOK
  <1>3. naiveAnn = [u \in Tx |-> View(ann[u])] /\ naiveAnn' = [u \in Tx |-> View(ann'[u])]
    BY DEF naiveAnn, View, IsCandidate
  <1>4. naiveAnn' = [naiveAnn EXCEPT ![t] = View(res)]
    BY <1>2, <1>3
  <1> QED BY <1>1, <1>2, <1>4

(* The naive tracker sees a request, and a response, where there is one. *)
LEMMA ViewState ==
    ASSUME Inv, NEW t \in Tx, NEW p \in Peer
    PROVE  /\ naiveAnn[t] = View(ann[t])
           /\ naiveAnn[t][p] = Nothing <=> ann[t][p] = Nothing
           /\ naiveAnn[t][p].state = "CANDIDATE" <=> IsCandidate(ann[t][p])
           /\ naiveAnn[t][p].state = "REQUESTED" <=> ann[t][p].state = "REQUESTED"
           /\ naiveAnn[t][p].state = "COMPLETED" <=> ann[t][p].state = "COMPLETED"
           /\ naiveAnn[t][p].time = ann[t][p].time
  <1>1. naiveAnn[t] = View(ann[t])
    BY DEF naiveAnn
  <1>2. ann[t] \in Row
    BY DEF Inv, TypeOK
  <1>3. ann[t][p].state \in State \cup {"NOTHING"} /\ (ann[t][p] = Nothing <=> ann[t][p].state = "NOTHING")
    BY <1>2, RowType
  <1>4. CASE IsCandidate(ann[t][p])
    <2>1. naiveAnn[t][p] = [state |-> "CANDIDATE", time |-> ann[t][p].time]
      BY <1>1, <1>4 DEF View
    <2>2. naiveAnn[t][p].state = "CANDIDATE" /\ naiveAnn[t][p].time = ann[t][p].time
      BY SMTT(60), <2>1
    <2>3. naiveAnn[t][p] # Nothing /\ ann[t][p].state \notin {"NOTHING", "REQUESTED", "COMPLETED"}
      BY SMTT(60), <1>4, <2>2 DEF Nothing, IsCandidate
    <2> QED BY <1>1, <1>3, <1>4, <2>2, <2>3
  <1>5. CASE ~IsCandidate(ann[t][p])
    <2>1. naiveAnn[t][p] = ann[t][p]
      BY <1>1, <1>5 DEF View
    <2>2. ann[t][p].state # "CANDIDATE"
      BY <1>3 DEF State
    <2> QED BY SMTT(60), <1>1, <1>5, <2>1, <2>2
  <1> QED BY <1>4, <1>5

LEMMA ReceivedInvStep ==
    ASSUME Inv, NEW p \in Peer, NEW t \in Tx, NEW time \in Time, ReceivedInv(p, t, time)
    PROVE  Inv' /\ Naive!ReceivedInv(p, t, time)
  <1> DEFINE res == [ann[t] EXCEPT ![p] = [state |-> "DELAYED", time |-> time]]
  <1>1. ann \in [Tx -> Row] /\ RowOK(t, ann[t]) /\ ann[t][p] = Nothing
    BY DEF Inv, TypeOK, ReceivedInv
  <1>2. ann' = [ann EXCEPT ![t] = res]
    BY <1>1 DEF ReceivedInv, Row
  <1>3. RowOK(t, res) /\ View(res) = [View(ann[t]) EXCEPT ![p] = [state |-> "CANDIDATE", time |-> time]]
    BY SMTT(60), <1>1, InvRow
  <1> HIDE DEF res
  <1>4. /\ ann' \in [Tx -> Row] /\ \A u \in Tx : RowOK(u, ann'[u])
        /\ naiveAnn' = [naiveAnn EXCEPT ![t] = View(res)]
    BY <1>2, <1>3, RowChange
  <1>5. Inv'
    BY <1>4 DEF Inv, TypeOK, ReceivedInv, ReplyStaysBest
  <1>6. naiveAnn[t] = View(ann[t]) /\ naiveAnn[t][p] = Nothing
    BY <1>1, ViewState
  <1>7. naiveAnn' = [naiveAnn EXCEPT ![t][p] = [state |-> "CANDIDATE", time |-> time]]
    BY <1>3, <1>4, <1>6
  <1>8. Naive!ReceivedInv(p, t, time)
    BY <1>6, <1>7 DEF Naive!ReceivedInv, ReceivedInv, Naive!Nothing, Nothing
  <1> QED BY <1>5, <1>8

LEMMA RequestedTxStep ==
    ASSUME Inv, NEW p \in Peer, NEW t \in Tx, NEW time \in Time, RequestedTx(p, t, time)
    PROVE  Inv' /\ Naive!RequestedTx(p, t, time)
  <1> DEFINE res == [Unselect(ann[t], p) EXCEPT ![p] = [state |-> "REQUESTED", time |-> time]]
  <1>1. ann \in [Tx -> Row] /\ RowOK(t, ann[t]) /\ IsCandidate(ann[t][p])
    BY DEF Inv, TypeOK, RequestedTx
  <1>2. ann' = [ann EXCEPT ![t] = res]
    BY <1>1 DEF RequestedTx
  <1>3. /\ RowOK(t, res)
        /\ View(res) = [q \in Peer |->
                        CASE q = p -> [state |-> "REQUESTED", time |-> time]
                          [] q # p /\ View(ann[t])[q].state = "REQUESTED" -> Completed
                          [] OTHER -> View(ann[t])[q]]
    BY SMTT(60), <1>1, RequestRow
  <1> HIDE DEF res
  <1>4. /\ ann' \in [Tx -> Row] /\ \A u \in Tx : RowOK(u, ann'[u])
        /\ naiveAnn' = [naiveAnn EXCEPT ![t] = View(res)]
        /\ \A u \in Tx \ {t} : ann'[u] = ann[u]
    BY <1>2, <1>3, RowChange
  <1>5. /\ reply' \in [peer : Peer, txs : SUBSET Tx] \cup {NoReply}
        /\ ReplyStaysBest'
    <2>1. CASE reply # NoReply /\ reply.peer = p /\ t \in reply.txs
      <3>1. reply' = [peer |-> reply.peer, txs |-> reply.txs \ {t}]
        BY <2>1 DEF RequestedTx, Handled
      <3>2. reply \in [peer : Peer, txs : SUBSET Tx]
        BY <2>1 DEF Inv, TypeOK
      <3> QED BY <1>4, <2>1, <3>1, <3>2 DEF Inv, ReplyStaysBest
    <2>2. CASE ~(reply # NoReply /\ reply.peer = p /\ t \in reply.txs)
      BY <2>2 DEF RequestedTx, Handled, ReplyStaysBest
    <2> QED BY <2>1, <2>2
  <1>6. Inv'
    BY <1>4, <1>5 DEF Inv, TypeOK, RequestedTx
  <1>7. naiveAnn[t] = View(ann[t]) /\ naiveAnn[t][p].state = "CANDIDATE"
    BY <1>1, ViewState
  <1>8. naiveAnn' = [naiveAnn EXCEPT ![t] = [q \in Peer |->
                        CASE q = p -> [state |-> "REQUESTED", time |-> time]
                          [] q # p /\ naiveAnn[t][q].state = "REQUESTED" -> Completed
                          [] OTHER -> naiveAnn[t][q]]]
    BY SMTT(60), <1>3, <1>4, <1>7
  <1>9. Naive!RequestedTx(p, t, time)
    BY <1>7, <1>8 DEF Naive!RequestedTx, RequestedTx, Naive!Handled, Handled, Naive!Completed, Completed
  <1> QED BY <1>6, <1>9

LEMMA ReceivedResponseStep ==
    ASSUME Inv, NEW p \in Peer, NEW t \in Tx, ReceivedResponse(p, t)
    PROVE  Inv' /\ Naive!ReceivedResponse(p, t)
  <1> DEFINE res == MakeCompleted(t, ann[t], p)
  <1>1. ann \in [Tx -> Row] /\ RowOK(t, ann[t]) /\ ann[t][p] # Nothing
    BY DEF Inv, TypeOK, ReceivedResponse
  <1>2. ann' = [ann EXCEPT ![t] = res]
    BY <1>1 DEF ReceivedResponse
  <1>3. RowOK(t, res) /\ View(res) = Naive!Cleanup([View(ann[t]) EXCEPT ![p] = Completed])
    BY <1>1, MakeCompletedRow
  <1> HIDE DEF res
  <1>4. /\ ann' \in [Tx -> Row] /\ \A u \in Tx : RowOK(u, ann'[u])
        /\ naiveAnn' = [naiveAnn EXCEPT ![t] = View(res)]
    BY <1>2, <1>3, RowChange
  <1>5. Inv'
    BY <1>4 DEF Inv, TypeOK, ReceivedResponse, ReplyStaysBest
  <1>6. naiveAnn[t] = View(ann[t]) /\ naiveAnn[t][p] # Nothing
    BY <1>1, ViewState
  <1>7. naiveAnn' = [naiveAnn EXCEPT ![t] = Naive!Cleanup([naiveAnn[t] EXCEPT ![p] = Completed])]
    BY <1>3, <1>4, <1>6
  <1>8. Naive!ReceivedResponse(p, t)
    BY <1>6, <1>7 DEF Naive!ReceivedResponse, ReceivedResponse, Naive!Nothing, Nothing, Naive!Completed, Completed
  <1> QED BY <1>5, <1>8

LEMMA ForgetTxHashStep ==
    ASSUME Inv, NEW t \in Tx, ForgetTxHash(t)
    PROVE  Inv' /\ Naive!ForgetTxHash(t)
  <1>1. RowOK(t, Forgotten) /\ View(Forgotten) = Forgotten
    BY DEF Forgotten, Nothing, View, IsCandidate, RowOK, RowOne, RowReady, RowLive, IsSelected, Row, Announcement
  <1>2. /\ ann' \in [Tx -> Row] /\ \A u \in Tx : RowOK(u, ann'[u])
        /\ naiveAnn' = [naiveAnn EXCEPT ![t] = Forgotten]
        /\ \A u \in Tx \ {t} : ann'[u] = ann[u]
    BY <1>1, RowChange DEF ForgetTxHash
  <1>3. /\ reply' \in [peer : Peer, txs : SUBSET Tx] \cup {NoReply}
        /\ ReplyStaysBest'
    <2>1. CASE reply = NoReply
      BY <2>1 DEF ForgetTxHash, ReplyStaysBest
    <2>2. CASE reply # NoReply
      <3>1. reply' = [peer |-> reply.peer, txs |-> reply.txs \ {t}]
        BY <2>2 DEF ForgetTxHash
      <3>2. reply \in [peer : Peer, txs : SUBSET Tx]
        BY <2>2 DEF Inv, TypeOK
      <3> QED BY <1>2, <2>2, <3>1, <3>2 DEF Inv, ReplyStaysBest
    <2> QED BY <2>1, <2>2
  <1>4. Inv'
    BY <1>2, <1>3 DEF Inv, TypeOK, ForgetTxHash
  <1>5. Naive!ForgetTxHash(t)
    BY <1>2 DEF Naive!ForgetTxHash, ForgetTxHash, Forgotten, Naive!Nothing, Nothing
  <1> QED BY <1>4, <1>5

LEMMA DisconnectedPeerStep ==
    ASSUME Inv, NEW p \in Peer, DisconnectedPeer(p)
    PROVE  Inv' /\ Naive!DisconnectedPeer(p)
  <1>1. /\ ann \in [Tx -> Row] /\ \A t \in Tx : RowOK(t, ann[t])
        /\ ann' = [t \in Tx |-> IF ann[t][p] = Nothing THEN ann[t]
                                ELSE [MakeCompleted(t, ann[t], p) EXCEPT ![p] = Nothing]]
        /\ naiveAnn = [t \in Tx |-> View(ann[t])] /\ naiveAnn' = [t \in Tx |-> View(ann'[t])]
    BY DEF Inv, TypeOK, DisconnectedPeer, naiveAnn, View, IsCandidate
  <1>2. ASSUME NEW t \in Tx
        PROVE  /\ RowOK(t, ann'[t])
               /\ View(ann'[t]) = IF naiveAnn[t][p] = Nothing THEN naiveAnn[t]
                                  ELSE Naive!Cleanup([naiveAnn[t] EXCEPT ![p] = Nothing])
    <2>1. naiveAnn[t] = View(ann[t]) /\ (naiveAnn[t][p] = Nothing <=> ann[t][p] = Nothing)
      BY ViewState
    <2>2. CASE ann[t][p] = Nothing
      <3>1. ann'[t] = ann[t]
        BY <1>1, <2>2
      <3> QED BY <1>1, <2>1, <2>2, <3>1
    <2>3. CASE ann[t][p] # Nothing
      <3> DEFINE res == [MakeCompleted(t, ann[t], p) EXCEPT ![p] = Nothing]
      <3>1. ann'[t] = res
        BY <1>1, <2>3
      <3>2. RowOK(t, res) /\ View(res) = Naive!Cleanup([View(ann[t]) EXCEPT ![p] = Nothing])
        BY <1>1, <2>3, EraseRow
      <3> HIDE DEF res
      <3> QED BY <2>1, <2>3, <3>1, <3>2
    <2> QED BY <2>2, <2>3
  <1>3. ann' \in [Tx -> Row]
    <2>1. ann' = [t \in Tx |-> ann'[t]]
      BY <1>1
    <2> QED BY <1>2, <2>1 DEF RowOK
  <1>4. Inv'
    BY <1>2, <1>3 DEF Inv, TypeOK, DisconnectedPeer, ReplyStaysBest
  <1>5. naiveAnn' = [t \in Tx |-> IF naiveAnn[t][p] = Nothing THEN naiveAnn[t]
                                  ELSE Naive!Cleanup([naiveAnn[t] EXCEPT ![p] = Nothing])]
    BY <1>1, <1>2
  <1>6. Naive!DisconnectedPeer(p)
    BY <1>5 DEF Naive!DisconnectedPeer, DisconnectedPeer, Naive!Nothing, Nothing
  <1> QED BY <1>4, <1>6

LEMMA GetRequestableStep ==
    ASSUME Inv, NEW p \in Peer, NEW now \in Time \cup {0}, GetRequestable(p, now)
    PROVE  Inv' /\ Naive!GetRequestable(p, now)
  <1>1. naiveAnn' = naiveAnn
    BY DEF GetRequestable, naiveAnn, View, IsCandidate
  <1>2. Inv'
    BY DEF Inv, TypeOK, GetRequestable, ReplyStaysBest
  <1> QED BY <1>1, <1>2 DEF Naive!GetRequestable, GetRequestable

LEMMA SetTimePointPastStep ==
    ASSUME Inv, NEW p \in Peer, NEW t \in Tx, SetTimePointPast(t, p)
    PROVE  Inv' /\ (Naive!Expire(t, p) \/ naiveAnn' = naiveAnn)
  <1>1. /\ ann \in [Tx -> Row] /\ RowOK(t, ann[t]) /\ IsWaiting(ann[t][p]) /\ ann[t][p].time <= call.now
        /\ reply = NoReply /\ reply' = reply /\ call' = call /\ call # NoCall
    BY DEF Inv, TypeOK, SetTimePointPast, Waits
  <1>2. CASE ann[t][p].state = "DELAYED"
    <2> DEFINE res == PromoteCandidateReady(t, ann[t], p)
    <2>1. ann' = [ann EXCEPT ![t] = res]
      BY <1>1, <1>2 DEF SetTimePointPast
    <2>2. RowOK(t, res) /\ View(res) = View(ann[t])
      BY <1>1, <1>2, PromoteRow
    <2> HIDE DEF res
    <2>3. /\ ann' \in [Tx -> Row] /\ \A u \in Tx : RowOK(u, ann'[u])
          /\ naiveAnn' = [naiveAnn EXCEPT ![t] = View(res)]
      BY <2>1, <2>2, RowChange
    <2>4. naiveAnn' = naiveAnn
      BY <2>2, <2>3 DEF naiveAnn
    <2>5. Inv'
      BY <1>1, <2>3 DEF Inv, TypeOK, ReplyStaysBest
    <2> QED BY <2>4, <2>5
  <1>3. CASE ann[t][p].state = "REQUESTED"
    <2> DEFINE res == MakeCompleted(t, ann[t], p)
    <2>1. ann' = [ann EXCEPT ![t] = res]
      BY <1>1, <1>3 DEF SetTimePointPast
    <2>2. RowOK(t, res) /\ View(res) = Naive!Cleanup([View(ann[t]) EXCEPT ![p] = Completed])
      BY SMTT(60), <1>1, <1>3, MakeCompletedRow DEF Nothing
    <2> HIDE DEF res
    <2>3. /\ ann' \in [Tx -> Row] /\ \A u \in Tx : RowOK(u, ann'[u])
          /\ naiveAnn' = [naiveAnn EXCEPT ![t] = View(res)]
      BY <2>1, <2>2, RowChange
    <2>4. /\ naiveAnn[t] = View(ann[t]) /\ naiveAnn[t][p].state = "REQUESTED"
          /\ naiveAnn[t][p].time = ann[t][p].time
      BY <1>3, ViewState
    <2>5. naiveAnn' = [naiveAnn EXCEPT ![t] = Naive!Cleanup([naiveAnn[t] EXCEPT ![p] = Completed])]
      BY <2>2, <2>3, <2>4
    <2>6. Naive!Expire(t, p)
      BY <1>1, <2>4, <2>5 DEF Naive!Expire, Naive!Expired, Naive!Completed, Completed
    <2>7. Inv'
      BY <1>1, <2>3 DEF Inv, TypeOK, ReplyStaysBest
    <2> QED BY <2>6, <2>7
  <1> QED BY <1>1, <1>2, <1>3 DEF IsWaiting

LEMMA SetTimePointFutureStep ==
    ASSUME Inv, NEW p \in Peer, NEW t \in Tx, SetTimePointFuture(t, p)
    PROVE  Inv' /\ naiveAnn' = naiveAnn
  <1> DEFINE res == ChangeAndReselect(t, ann[t], p, As(ann[t][p], "DELAYED"))
  <1>1. /\ ann \in [Tx -> Row] /\ RowOK(t, ann[t]) /\ IsSelectable(ann[t][p])
        /\ reply = NoReply /\ reply' = reply /\ call' = call /\ call # NoCall
    BY DEF Inv, TypeOK, SetTimePointFuture, Early
  <1>2. ann' = [ann EXCEPT ![t] = res]
    BY <1>1 DEF SetTimePointFuture
  <1>3. RowOK(t, res) /\ View(res) = View(ann[t])
    BY <1>1, DemoteRow
  <1> HIDE DEF res
  <1>4. /\ ann' \in [Tx -> Row] /\ \A u \in Tx : RowOK(u, ann'[u])
        /\ naiveAnn' = [naiveAnn EXCEPT ![t] = View(res)]
    BY <1>2, <1>3, RowChange
  <1>5. naiveAnn' = naiveAnn
    BY <1>3, <1>4 DEF naiveAnn
  <1>6. Inv'
    BY <1>1, <1>4 DEF Inv, TypeOK, ReplyStaysBest
  <1> QED BY <1>5, <1>6

LEMMA ReturnRequestableStep ==
    ASSUME Inv, ReturnRequestable
    PROVE  Inv' /\ Naive!Answer
  <1> DEFINE p == call.peer
             now == call.now
  <1>1. /\ call # NoCall /\ p \in Peer /\ now \in Nat /\ ann' = ann /\ call' = NoCall
        /\ reply' = [peer |-> p, txs |-> {t \in Tx : ann[t][p].state = "BEST"}]
    BY TimeType DEF Inv, TypeOK, ReturnRequestable
  <1>2. naiveAnn' = naiveAnn
    BY <1>1 DEF naiveAnn, View, IsCandidate
  <1>3. Inv'
    BY <1>1 DEF Inv, TypeOK, ReplyStaysBest
  <1> HIDE DEF p, now
  <1>4. ASSUME NEW t \in Tx
        PROVE  ann[t][p].state = "BEST" <=> Naive!Selected(t, p)
    <2>1. ann[t] \in Row /\ RowOne(ann[t]) /\ RowReady(t, ann[t])
      BY DEF Inv, RowOK
    <2>2. ASSUME NEW q \in Peer
          PROVE  /\ Naive!Viable(t, q) <=> ann[t][q].state \in {"READY", "BEST"}
                 /\ naiveAnn[t][q].state = "REQUESTED" <=> ann[t][q].state = "REQUESTED"
      <3>1. /\ naiveAnn[t][q].state = "CANDIDATE" <=> IsCandidate(ann[t][q])
            /\ naiveAnn[t][q].state = "REQUESTED" <=> ann[t][q].state = "REQUESTED"
            /\ naiveAnn[t][q].time = ann[t][q].time
        BY ViewState
      <3>2. ann[t][q].state = "DELAYED" => ~(ann[t][q].time <= now)
        BY DEF ReturnRequestable, NoneWaits, Waits, IsWaiting, now
      <3>3. ann[t][q].state \in {"READY", "BEST"} => ~(ann[t][q].time > now)
        BY DEF ReturnRequestable, NoneEarly, Early, IsSelectable, now
      <3>4. IsCandidate(ann[t][q]) => ann[t][q].time \in Nat
        <4>1. ann[t][q] \in {Nothing, Completed} \/ ann[t][q].time \in Time
          BY <2>1, RowType
        <4> QED BY SMTT(60), <4>1, TimeType DEF IsCandidate, Nothing, Completed
      <3>5. IsCandidate(ann[t][q]) /\ ann[t][q].time <= now <=> ann[t][q].state \in {"READY", "BEST"}
        BY SMTT(60), <1>1, <3>2, <3>3, <3>4 DEF IsCandidate
      <3> QED BY <3>1, <3>5 DEF Naive!Viable, now
    <2>3. \A q \in Peer : Priority[t][q] \in Int
      BY SMTT(60), TxRequestAssumption
    <2>4. ASSUME ann[t][p].state = "BEST" PROVE Naive!Selected(t, p)
      <3>1. \A q \in Peer : q # p => ann[t][q].state \notin {"BEST", "REQUESTED"}
        BY <1>1, <2>1, <2>4 DEF RowOne, IsSelected
      <3>2. \A q \in Peer : ann[t][q].state = "READY" => Priority[t][q] < Priority[t][p]
        BY <1>1, <2>1, <2>3, <2>4, <3>1 DEF RowReady
      <3>3. \A q \in Peer : ann[t][q].state \in {"READY", "BEST"} => Priority[t][q] <= Priority[t][p]
        BY SMTT(60), <1>1, <2>3, <3>1, <3>2
      <3>4. \A q \in Peer : ann[t][q].state # "REQUESTED"
        BY <1>1, <2>4, <3>1
      <3> QED BY <1>1, <2>2, <2>4, <3>3, <3>4 DEF Naive!Selected
    <2>5. ASSUME Naive!Selected(t, p) PROVE ann[t][p].state = "BEST"
      <3>1. /\ ann[t][p].state \in {"READY", "BEST"}
            /\ \A q \in Peer : ann[t][q].state # "REQUESTED"
            /\ \A q \in Peer : ann[t][q].state \in {"READY", "BEST"} => Priority[t][q] <= Priority[t][p]
        BY <1>1, <2>2, <2>5 DEF Naive!Selected
      <3> QED BY SMTT(60), <1>1, <2>1, <2>3, <3>1 DEF RowReady
    <2> QED BY <2>4, <2>5
  <1>5. \A t \in Tx, q \in Peer : ~Naive!Expired(t, q)
    <2> TAKE t \in Tx, q \in Peer
    <2>1. /\ naiveAnn[t][q].state = "REQUESTED" <=> ann[t][q].state = "REQUESTED"
          /\ naiveAnn[t][q].time = ann[t][q].time
      BY ViewState
    <2> QED BY <2>1 DEF Naive!Expired, ReturnRequestable, NoneWaits, Waits, IsWaiting
  <1>6. {t \in Tx : ann[t][p].state = "BEST"} = {t \in Tx : Naive!Selected(t, p)}
    BY <1>4
  <1>7. Naive!Answer
    BY <1>1, <1>2, <1>5, <1>6 DEF Naive!Answer, p
  <1> QED BY <1>3, <1>7

LEMMA StepCorrect == Inv /\ [Next]_vars => Inv' /\ [Naive!Next]_(Naive!vars)
  <1> SUFFICES ASSUME Inv, [Next]_vars PROVE Inv' /\ [Naive!Next]_(Naive!vars)
    OBVIOUS
  <1>1. CASE UNCHANGED vars
    <2>1. naiveAnn' = naiveAnn
      BY <1>1 DEF vars, naiveAnn, View, IsCandidate
    <2>2. Inv'
      BY <1>1 DEF vars, Inv, TypeOK, ReplyStaysBest
    <2> QED BY <1>1, <2>1, <2>2 DEF vars, Naive!vars
  <1>2. ASSUME NEW p \in Peer, NEW t \in Tx, NEW time \in Time, ReceivedInv(p, t, time)
        PROVE  Inv' /\ Naive!Next
    BY <1>2, ReceivedInvStep DEF Naive!Next
  <1>3. ASSUME NEW p \in Peer, NEW t \in Tx, NEW time \in Time, RequestedTx(p, t, time)
        PROVE  Inv' /\ Naive!Next
    BY <1>3, RequestedTxStep DEF Naive!Next
  <1>4. ASSUME NEW p \in Peer, NEW t \in Tx, ReceivedResponse(p, t)
        PROVE  Inv' /\ Naive!Next
    BY <1>4, ReceivedResponseStep DEF Naive!Next
  <1>5. ASSUME NEW t \in Tx, ForgetTxHash(t)
        PROVE  Inv' /\ Naive!Next
    BY <1>5, ForgetTxHashStep DEF Naive!Next
  <1>6. ASSUME NEW p \in Peer, DisconnectedPeer(p)
        PROVE  Inv' /\ Naive!Next
    BY <1>6, DisconnectedPeerStep DEF Naive!Next
  <1>7. ASSUME NEW p \in Peer, NEW now \in Time \cup {0}, GetRequestable(p, now)
        PROVE  Inv' /\ Naive!Next
    BY <1>7, GetRequestableStep DEF Naive!Next
  <1>8. ASSUME NEW p \in Peer, NEW t \in Tx, SetTimePointPast(t, p)
        PROVE  Inv' /\ [Naive!Next]_(Naive!vars)
    <2>1. Inv' /\ (Naive!Expire(t, p) \/ naiveAnn' = naiveAnn)
      BY <1>8, SetTimePointPastStep
    <2>2. CASE Naive!Expire(t, p)
      BY <2>1, <2>2 DEF Naive!Next
    <2>3. CASE naiveAnn' = naiveAnn
      BY <1>8, <2>1, <2>3 DEF SetTimePointPast, Naive!vars
    <2> QED BY <2>1, <2>2, <2>3
  <1>9. ASSUME NEW p \in Peer, NEW t \in Tx, SetTimePointFuture(t, p)
        PROVE  Inv' /\ UNCHANGED Naive!vars
    BY <1>9, SetTimePointFutureStep DEF SetTimePointFuture, Naive!vars
  <1>10. CASE ReturnRequestable
    BY <1>10, ReturnRequestableStep DEF Naive!Next
  <1> QED BY <1>1, <1>2, <1>3, <1>4, <1>5, <1>6, <1>7, <1>8, <1>9, <1>10 DEF Next, SetTimePoint

LEMMA InvIsSafe == Inv => SelectionRight
  BY DEF Inv, RowOK, RowOne, RowReady, RowLive, OneSelected, ReadyBehindSelected, NeverOnlyCompleted, SelectionRight

(* The selection kept by TxRequestTracker (txrequest.cpp) is right after    *)
(* every operation and every step of SetTimePoint, for any peers, hashes,   *)
(* times and priorities: at most one announcement of a transaction is       *)
(* selected, none that is READY is left behind, a transaction does not      *)
(* outlive its announcements, and what GetRequestable gave stays BEST.      *)
THEOREM SelectionCorrect == Spec => []SelectionRight
  <1>1. Init => Inv
    BY InvInit
  <1>2. Inv /\ [Next]_vars => Inv'
    BY StepCorrect
  <1> QED BY <1>1, <1>2, InvIsSafe, PTL DEF Spec

(* TxRequestTracker implements the naive tracker of its fuzz test: every    *)
(* sequence of calls, at times that may go back, gets the same answers.     *)
THEOREM TrackerImplementsNaive == Spec => AnswersAsNaive
  <1>1. Init => Inv
    BY InvInit
  <1>2. Inv /\ [Next]_vars => Inv' /\ [Naive!Next]_(Naive!vars)
    BY StepCorrect
  <1>3. Init => Naive!Init
    <2> SUFFICES ASSUME Init PROVE Naive!Init
      OBVIOUS
    <2>1. View(Forgotten) = Forgotten
      BY DEF View, Forgotten, Nothing, IsCandidate
    <2>2. naiveAnn = [t \in Tx |-> Forgotten]
      BY <2>1 DEF Init, naiveAnn
    <2> QED BY <2>2 DEF Init, Naive!Init, Forgotten, Nothing, Naive!Nothing
  <1> QED BY <1>1, <1>2, <1>3, PTL DEF Spec, AnswersAsNaive, Naive!Spec

LEMMA AskedOnceStep ==
    ASSUME Inv, Inv', [Naive!Next]_(Naive!vars), NEW t \in Tx, NEW p \in Peer
    PROVE  LET old == ann[t][p].state new == ann'[t][p].state
           IN  /\ old = "REQUESTED" => new \in {"REQUESTED", "COMPLETED", "NOTHING"}
               /\ old = "REQUESTED" /\ new = "REQUESTED" => ann'[t][p] = ann[t][p]
               /\ old = "COMPLETED" => new \in {"COMPLETED", "NOTHING"}
  <1> DEFINE a == naiveAnn[t][p]
             b == naiveAnn'[t][p]
  <1>1. /\ naiveAnn = [u \in Tx |-> View(ann[u])] /\ naiveAnn' = [u \in Tx |-> View(ann'[u])]
        /\ \A u \in Tx : naiveAnn[u] = [q \in Peer |-> naiveAnn[u][q]]
    BY DEF naiveAnn, View, IsCandidate
  <1>2. ann[t] \in Row /\ ann'[t] \in Row
    BY DEF Inv, TypeOK
  <1>3. ann[t][p].state \in State \cup {"NOTHING"} /\ ann'[t][p].state \in State \cup {"NOTHING"}
    BY <1>2, RowType
  <1>4. /\ a = IF IsCandidate(ann[t][p]) THEN [state |-> "CANDIDATE", time |-> ann[t][p].time] ELSE ann[t][p]
        /\ b = IF IsCandidate(ann'[t][p]) THEN [state |-> "CANDIDATE", time |-> ann'[t][p].time] ELSE ann'[t][p]
    BY <1>1 DEF View
  <1> HIDE DEF a, b
  <1>5. /\ a.state = "REQUESTED" => b = a \/ b.state \in {"COMPLETED", "NOTHING"}
        /\ a.state = "COMPLETED" => b = a \/ b.state \in {"COMPLETED", "NOTHING"}
    <2>0. \A row, q : row = [r \in Peer |-> row[r]] =>
              Naive!Cleanup([row EXCEPT ![q] = Completed])[p] \in {row[p], Completed, Nothing}
      BY DEF Naive!Cleanup, Naive!Nothing, Nothing
    <2>00. \A row, q : row = [r \in Peer |-> row[r]] =>
              Naive!Cleanup([row EXCEPT ![q] = Nothing])[p] \in {row[p], Nothing}
      BY DEF Naive!Cleanup, Naive!Nothing, Nothing
    <2>1. CASE UNCHANGED Naive!vars
      BY <2>1 DEF Naive!vars, a, b
    <2>2. ASSUME NEW q \in Peer, NEW u \in Tx, NEW time \in Time, Naive!ReceivedInv(q, u, time)
          PROVE  b = a \/ a = Nothing
      <3>1. CASE naiveAnn[u][q] = Nothing
        <4>1. naiveAnn' = [naiveAnn EXCEPT ![u][q] = [state |-> "CANDIDATE", time |-> time]]
          BY <2>2, <3>1 DEF Naive!ReceivedInv, Naive!Nothing, Nothing
        <4>2. CASE u = t /\ q = p
          BY <3>1, <4>2 DEF a
        <4>3. CASE ~(u = t /\ q = p)
          <5>1. naiveAnn' = [naiveAnn EXCEPT ![u] = [naiveAnn[u] EXCEPT ![q] = [state |-> "CANDIDATE", time |-> time]]]
            BY <4>1
          <5>2. DOMAIN naiveAnn = Tx /\ DOMAIN naiveAnn[u] = Peer
            BY <1>1
          <5>3. b = IF u = t THEN [naiveAnn[u] EXCEPT ![q] = [state |-> "CANDIDATE", time |-> time]][p] ELSE a
            BY <1>1, <5>1 DEF a, b
          <5> QED BY <4>3, <5>2, <5>3 DEF a
        <4> QED BY <4>2, <4>3
      <3>2. CASE naiveAnn[u][q] # Nothing
        BY <2>2, <3>2 DEF Naive!ReceivedInv, Naive!Nothing, Nothing, a, b
      <3> QED BY <3>1, <3>2
    <2>3. ASSUME NEW q \in Peer, NEW u \in Tx, NEW time \in Time, Naive!RequestedTx(q, u, time)
          PROVE  b = a \/ b = Completed \/ a.state = "CANDIDATE"
      BY SMTT(60), <1>1, <2>3 DEF Naive!RequestedTx, Naive!Completed, Completed, a, b
    <2>4. ASSUME NEW q \in Peer, NEW u \in Tx, Naive!ReceivedResponse(q, u) \/ Naive!Expire(u, q)
          PROVE  b \in {a, Completed, Nothing}
      <3>1. \/ naiveAnn' = naiveAnn
            \/ naiveAnn' = [naiveAnn EXCEPT ![u] = Naive!Cleanup([naiveAnn[u] EXCEPT ![q] = Completed])]
        BY <2>4 DEF Naive!ReceivedResponse, Naive!Expire, Naive!Completed, Completed
      <3>2. Naive!Cleanup([naiveAnn[u] EXCEPT ![q] = Completed])[p] \in {naiveAnn[u][p], Completed, Nothing}
        BY <1>1, <2>0
      <3>3. CASE naiveAnn' = naiveAnn
        BY <3>3 DEF a, b
      <3>4. CASE naiveAnn' = [naiveAnn EXCEPT ![u] = Naive!Cleanup([naiveAnn[u] EXCEPT ![q] = Completed])]
        <4>1. b = IF u = t THEN Naive!Cleanup([naiveAnn[u] EXCEPT ![q] = Completed])[p] ELSE a
          BY <1>1, <3>4 DEF a, b
        <4> QED BY <3>2, <4>1 DEF a
      <3> QED BY <3>1, <3>3, <3>4
    <2>5. ASSUME NEW u \in Tx, Naive!ForgetTxHash(u)
          PROVE  b \in {a, Nothing}
      BY SMTT(60), <1>1, <2>5 DEF Naive!ForgetTxHash, Naive!Nothing, Nothing, a, b
    <2>6. ASSUME NEW q \in Peer, Naive!DisconnectedPeer(q)
          PROVE  b \in {a, Nothing}
      <3>1. naiveAnn'[t] = naiveAnn[t] \/ naiveAnn'[t] = Naive!Cleanup([naiveAnn[t] EXCEPT ![q] = Nothing])
        BY <2>6 DEF Naive!DisconnectedPeer, Naive!Nothing, Nothing
      <3> QED BY <1>1, <2>00, <3>1 DEF a, b
    <2>7. ASSUME NEW q \in Peer, NEW now \in Time \cup {0}, Naive!GetRequestable(q, now)
          PROVE  b = a
      BY <2>7 DEF Naive!GetRequestable, a, b
    <2>8. CASE Naive!Answer
      BY <2>8 DEF Naive!Answer, a, b
    <2> QED BY SMTT(60), <2>1, <2>2, <2>3, <2>4, <2>5, <2>6, <2>7, <2>8 DEF Naive!Next, Completed, Nothing
  <1>6. /\ IsCandidate(ann'[t][p]) => b.state = "CANDIDATE"
        /\ ~IsCandidate(ann'[t][p]) => b = ann'[t][p]
    BY <1>4
  <1>7. ASSUME ann[t][p].state \in {"REQUESTED", "COMPLETED"}
        PROVE  a = ann[t][p]
    BY <1>4, <1>7 DEF IsCandidate
  <1>8. ann[t][p].state \in {"REQUESTED", "COMPLETED"}
        => b = a \/ b.state \in {"COMPLETED", "NOTHING"}
    BY <1>5, <1>7
  <1>9. ann[t][p].state \in {"REQUESTED", "COMPLETED"}
        => ann'[t][p] = ann[t][p] \/ ann'[t][p].state \in {"COMPLETED", "NOTHING"}
    BY <1>6, <1>7, <1>8
  <1> QED BY <1>9

(* A peer is asked for a transaction at most once per announcement          *)
(* (RequestedTx, MakeCompleted), for any peers, hashes, times, priorities.  *)
THEOREM AskedAtMostOnce == Spec => AskedOnce
  <1>1. Init => Inv
    BY InvInit
  <1>2. Inv /\ [Next]_vars => Inv' /\ [Naive!Next]_(Naive!vars)
    BY StepCorrect
  <1>3. Inv /\ Inv' /\ [Naive!Next]_(Naive!vars) =>
          [\A t \in Tx, p \in Peer :
              LET old == ann[t][p].state new == ann'[t][p].state
              IN  /\ old = "REQUESTED" => new \in {"REQUESTED", "COMPLETED", "NOTHING"}
                  /\ old = "REQUESTED" /\ new = "REQUESTED" => ann'[t][p] = ann[t][p]
                  /\ old = "COMPLETED" => new \in {"COMPLETED", "NOTHING"}]_vars
    BY AskedOnceStep
  <1> QED BY <1>1, <1>2, <1>3, PTL DEF Spec, AskedOnce
=============================================================================
