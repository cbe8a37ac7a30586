-------------------------- MODULE CheckQueueProofs --------------------------
(***************************************************************************)
(* Proofs about the script check queue, for any number of workers, any     *)
(* checks and any batch size.                                              *)
(*                                                                         *)
(* What a thread does after it has counted its results (Continue) is the   *)
(* same for a thread that enters Loop, comes back from its checks or wakes *)
(* up: Counted says what the three have in common.                         *)
(***************************************************************************)
EXTENDS CheckQueue, FiniteSetTheorems, TLAPS

USE ZenonT(10), SMTT(60)

Idle == {t \in Thread : at[t] \in {"waiting", "woken"}}
Looping == {t \in Thread : at[t] \in InLoop /\ ~(at[t] = "enter" /\ held[t] = {})}

(* Where the threads are while the workers are started and stopped. *)
Places ==
    /\ requestStop <=> pool \in {"notifying", "joining"}
    /\ pool # "running" => at[Master] = "out"
    /\ \A t \in Worker : /\ at[t] \in InLoop \cup {"out"}
                         /\ pool = "running" => at[t] # "out"
                         /\ pool = "stopped" => at[t] = "out"

(* A check is in the queue or with one thread, which will report it. *)
Disjoint ==
    /\ \A t \in Thread : /\ held[t] \cap queue = {}
                         /\ held[t] # {} => at[t] \in {"work", "enter"}
                         /\ at[t] = "work" => held[t] # {}
    /\ \A t, u \in Thread : t # u => held[t] \cap held[u] = {}

Counts ==
    /\ nTodo = Cardinality(Outstanding)
    /\ nIdle = Cardinality(Idle)
    /\ pool = "running" => nTotal = Cardinality(Looping)

(* What is known of the checks in Done, if all is well and if not. *)
Known(allOk, Done) == IF allOk THEN Done \subseteq Good \cap ran ELSE ~(added \subseteq Good)

(* While a block is being checked fAllOk speaks of the checks that have     *)
(* been counted, and fOk of a thread of those it is about to report.        *)
Results ==
    IF at[Master] \in {"out", "returned"}
    THEN Outstanding = {} /\ fAllOk
    ELSE /\ ran \subseteq added /\ Outstanding \subseteq added
         /\ queue \cap ran = {}
         /\ Known(fAllOk, added \ Outstanding)
         /\ \A t \in Thread :
              /\ at[t] = "work" => held[t] \cap ran = {} /\ (~ok[t] => ~(added \subseteq Good))
              /\ at[t] = "enter" /\ held[t] # {} => Known(ok[t], held[t])

IInv == /\ TypeOK /\ Places /\ Disjoint /\ Counts /\ Results
        /\ MasterWillBeWoken /\ ResultExact

(* What the parameters of Continue are: the counters without what t was     *)
(* counted for, and the master notified if t had the last checks.           *)
Counted(t, idle, total, allOk, todo, notified) ==
    /\ at[t] \in {"enter", "woken"}
    /\ idle = Cardinality(Idle \ {t})
    /\ total \in Nat /\ (pool = "running" => total = Cardinality(Looping \cup {t}))
    /\ todo = Cardinality(Outstanding \ held[t])
    /\ allOk \in BOOLEAN
    /\ notified \subseteq {Master}
    /\ Master \in notified => at[Master] = "waiting"
    /\ held[t] # {} /\ todo = 0 /\ at[Master] = "waiting" => Master \in notified
    /\ IF at[Master] \in {"out", "returned"} THEN allOk
       ELSE Known(allOk, added \ (Outstanding \ held[t]))

(* The state in which Continue leaves t and what it has taken. *)
Moved(t, place, S, notified) ==
    /\ S \subseteq queue /\ queue' = queue \ S
    /\ held' = [held EXCEPT ![t] = S]
    /\ at' = [u \in Thread |-> IF u = t THEN place ELSE IF u \in notified THEN "woken" ELSE at[u]]
    /\ place \in {"returned", "waiting", "out", "work"}
    /\ place = "work" <=> S # {}
-----------------------------------------------------------------------------
(* All sets of threads and of checks are finite. *)
LEMMA Finite ==
    /\ \A S \in SUBSET Thread : IsFiniteSet(S) /\ Cardinality(S) \in Nat
    /\ \A S \in SUBSET Check : IsFiniteSet(S) /\ Cardinality(S) \in Nat
<1>1. IsFiniteSet(Thread)
  BY QueueAssumption, FS_AddElement DEF Thread
<1> QED
  BY <1>1, QueueAssumption, FS_Subset, FS_CardinalityType

(* Each way out of Loop's while moves t and leaves the rest alone; a batch  *)
(* is never empty.                                                          *)
LEMMA ContinueMoves ==
    ASSUME TypeOK, Disjoint, NEW t \in Thread,
           NEW idle, NEW total, NEW allOk, NEW todo, NEW notified,
           Counted(t, idle, total, allOk, todo, notified),
           Continue(t, idle, total, allOk, todo, notified)
    PROVE  \/ Return(t, idle, total, allOk, todo) /\ Moved(t, "returned", {}, notified)
           \/ Sleep(t, idle, total, allOk, todo, notified) /\ Moved(t, "waiting", {}, notified)
           \/ Stop(t, idle, total, allOk, todo, notified) /\ Moved(t, "out", {}, notified)
           \/ \E S : Take(t, idle, total, allOk, todo, notified) /\ Moved(t, "work", S, notified)
<1>1. CASE Return(t, idle, total, allOk, todo)
  <2>1. notified = {}
    BY <1>1 DEF Return, Counted
  <2>2. at' = [u \in Thread |-> IF u = t THEN "returned" ELSE IF u \in notified THEN "woken" ELSE at[u]]
    BY <1>1, <2>1 DEF Return, TypeOK
  <2> QED BY <1>1, <2>2 DEF Return, Moved
<1>2. CASE Sleep(t, idle, total, allOk, todo, notified)
  BY <1>2 DEF Sleep, Moved
<1>3. CASE Stop(t, idle, total, allOk, todo, notified)
  BY <1>3 DEF Stop, Moved
<1>4. CASE Take(t, idle, total, allOk, todo, notified)
  <2>1. PICK S \in SUBSET queue : /\ Cardinality(S) = BatchCount(idle, total)
                                  /\ queue' = queue \ S
                                  /\ held' = [held EXCEPT ![t] = S]
    BY <1>4 DEF Take, QueueWithout
  <2>2. BatchCount(idle, total) # 0
    BY SMTT(60) DEF BatchCount
  <2>3. S # {}
    BY <2>1, <2>2, FS_EmptySet
  <2> QED BY <1>4, <2>1, <2>3 DEF Take, Moved
<1> QED BY <1>1, <1>2, <1>3, <1>4 DEF Continue

(* Which sets of checks and threads a move changes. *)
LEMMA MovedSets ==
    ASSUME TypeOK, Disjoint, NEW t \in Thread,
           NEW place, NEW S, NEW notified, Moved(t, place, S, notified),
           at[t] \in {"enter", "woken"},
           notified \subseteq {Master}, Master \in notified => at[Master] = "waiting"
    PROVE  /\ Outstanding' = Outstanding \ held[t]
           /\ Idle' = IF place = "waiting" THEN (Idle \ {t}) \cup {t} ELSE Idle \ {t}
           /\ Looping' = IF place \in {"returned", "out"} THEN (Looping \cup {t}) \ {t}
                         ELSE Looping \cup {t}
<1> USE DEF Moved
<1>1. held'[t] = S /\ \A u \in Thread \ {t} : held'[u] = held[u]
  BY DEF TypeOK
<1>2. Outstanding' = Outstanding \ held[t]
  <2>1. ASSUME NEW c PROVE c \in Outstanding' => c \in Outstanding \ held[t]
    BY SMTT(60), <1>1 DEF Outstanding, Disjoint
  <2>2. ASSUME NEW c, c \in Outstanding \ held[t] PROVE c \in Outstanding'
    <3>1. CASE c \in queue
      BY <3>1, <1>1 DEF Outstanding
    <3>2. CASE \E u \in Thread : c \in held[u]
      BY <3>2, <2>2, <1>1 DEF Outstanding
    <3> QED BY <2>2, <3>1, <3>2 DEF Outstanding
  <2> QED BY <2>1, <2>2
<1>3. at'[t] = place /\ \A u \in Thread \ {t} : at'[u] = IF u \in notified THEN "woken" ELSE at[u]
  OBVIOUS
<1>4. Idle' = IF place = "waiting" THEN (Idle \ {t}) \cup {t} ELSE Idle \ {t}
  BY <1>3 DEF Idle
<1>5. \A u \in Thread \ {t} : u \in Looping' <=> u \in Looping
  BY <1>1, <1>3 DEF Looping, InLoop
<1>6. t \in Looping' <=> place \notin {"returned", "out"}
  BY <1>1, <1>3 DEF Looping, InLoop
<1>7. Looping \subseteq Thread /\ Looping' \subseteq Thread
  BY DEF Looping
<1>8. Looping' = IF place \in {"returned", "out"} THEN (Looping \cup {t}) \ {t} ELSE Looping \cup {t}
  BY SMTT(60), <1>5, <1>6, <1>7
<1> QED BY <1>2, <1>4, <1>8

(* The counters are right after Continue if they were before. *)
LEMMA ContinueCounts ==
    ASSUME TypeOK, Places, Disjoint, NEW t \in Thread,
           NEW idle, NEW total, NEW allOk, NEW todo, NEW notified,
           Counted(t, idle, total, allOk, todo, notified),
           Continue(t, idle, total, allOk, todo, notified),
           UNCHANGED <<requestStop, pool, added, ran>>
    PROVE  Counts' /\ nIdle' \in Nat /\ nTotal' \in Nat /\ nTodo' \in Nat
<1> DEFINE R == Outstanding \ held[t]
<1>1. Idle \ {t} \in SUBSET Thread /\ Looping \cup {t} \in SUBSET Thread /\ R \in SUBSET Check
  BY DEF Idle, Looping, Outstanding, TypeOK
<1>2. /\ Cardinality((Idle \ {t}) \cup {t}) = Cardinality(Idle \ {t}) + 1
      /\ Cardinality((Looping \cup {t}) \ {t}) = Cardinality(Looping \cup {t}) - 1
      /\ (Looping \cup {t}) \ {t} \in SUBSET Thread
  BY <1>1, Finite, FS_AddElement, FS_RemoveElement
<1>3. /\ Cardinality(Idle \ {t}) \in Nat /\ Cardinality(R) \in Nat
      /\ Cardinality((Looping \cup {t}) \ {t}) \in Nat
  BY <1>1, <1>2, Finite
<1>4. idle = Cardinality(Idle \ {t}) /\ todo = Cardinality(R) /\ total \in Nat
  BY DEF Counted
<1>5. notified \subseteq {Master} /\ (Master \in notified => at[Master] = "waiting")
      /\ at[t] \in {"enter", "woken"}
  BY DEF Counted
<1>6. ASSUME NEW place, NEW S, Moved(t, place, S, notified)
      PROVE  /\ Outstanding' = R
             /\ Idle' = IF place = "waiting" THEN (Idle \ {t}) \cup {t} ELSE Idle \ {t}
             /\ Looping' = IF place \in {"returned", "out"} THEN (Looping \cup {t}) \ {t}
                           ELSE Looping \cup {t}
  BY <1>5, <1>6, MovedSets
<1>7. CASE Return(t, idle, total, allOk, todo) /\ Moved(t, "returned", {}, notified)
  <2>1. pool = "running"
    BY <1>5, <1>7 DEF Return, Places
  <2>2. total - 1 = Cardinality((Looping \cup {t}) \ {t})
    BY <2>1, <1>2 DEF Counted
  <2>3. Outstanding' = R /\ Idle' = Idle \ {t} /\ Looping' = (Looping \cup {t}) \ {t}
    BY <1>7, <1>6
  <2> HIDE DEF R
  <2> QED BY <1>7, <1>3, <1>4, <2>2, <2>3 DEF Return, Counts
<1>8. CASE Sleep(t, idle, total, allOk, todo, notified) /\ Moved(t, "waiting", {}, notified)
  <2>1. Outstanding' = R /\ Idle' = (Idle \ {t}) \cup {t} /\ Looping' = Looping \cup {t}
    BY <1>8, <1>6
  <2>2. pool = "running" => total = Cardinality(Looping \cup {t})
    BY DEF Counted
  <2> HIDE DEF R
  <2> QED BY SMTT(60), <1>8, <1>2, <1>3, <1>4, <2>1, <2>2 DEF Sleep, MoreIdle, Counts
<1>9. CASE Stop(t, idle, total, allOk, todo, notified) /\ Moved(t, "out", {}, notified)
  <2>1. Outstanding' = R /\ Idle' = Idle \ {t}
    BY <1>9, <1>6
  <2>2. pool # "running"
    BY <1>9 DEF Stop, Places
  <2> HIDE DEF R
  <2> QED BY <1>9, <1>3, <1>4, <2>1, <2>2 DEF Stop, Counts
<1>10. ASSUME NEW S, Take(t, idle, total, allOk, todo, notified), Moved(t, "work", S, notified)
       PROVE  Counts' /\ nIdle' \in Nat /\ nTotal' \in Nat /\ nTodo' \in Nat
  <2>1. Outstanding' = R /\ Idle' = Idle \ {t} /\ Looping' = Looping \cup {t}
    BY SMTT(60), <1>10, <1>6
  <2>2. pool = "running" => total = Cardinality(Looping \cup {t})
    BY DEF Counted
  <2> HIDE DEF R
  <2> QED BY <1>10, <1>3, <1>4, <2>1, <2>2 DEF Take, Counts
<1> HIDE DEF R
<1> QED BY <1>7, <1>8, <1>9, <1>10, ContinueMoves

(* A move keeps the batches apart. *)
LEMMA MovedDisjoint ==
    ASSUME TypeOK, Disjoint, NEW t \in Thread,
           NEW place, NEW S, NEW notified, Moved(t, place, S, notified),
           notified \subseteq {Master}, Master \in notified => at[Master] = "waiting"
    PROVE  /\ held' \in [Thread -> SUBSET Check] /\ queue' \subseteq Check
           /\ at' \in [Thread -> InLoop \cup {"out", "adding", "returned"}]
           /\ Disjoint'
<1> USE DEF Moved
<1>1. held'[t] = S /\ \A u \in Thread \ {t} : held'[u] = held[u]
  BY DEF TypeOK
<1>2. at'[t] = place /\ \A u \in Thread \ {t} : at'[u] = IF u \in notified THEN "woken" ELSE at[u]
  OBVIOUS
<1>3. held' \in [Thread -> SUBSET Check] /\ queue' \subseteq Check
  BY DEF TypeOK
<1>4. at' \in [Thread -> InLoop \cup {"out", "adding", "returned"}]
  BY DEF TypeOK, InLoop
<1>5. ASSUME NEW u \in Thread
      PROVE  /\ held'[u] \cap queue' = {}
             /\ held'[u] # {} => at'[u] \in {"work", "enter"}
             /\ at'[u] = "work" => held'[u] # {}
  BY <1>1, <1>2 DEF Disjoint
<1>6. ASSUME NEW u \in Thread, NEW v \in Thread, u # v
      PROVE  held'[u] \cap held'[v] = {}
  BY <1>1, <1>6 DEF Disjoint
<1> QED BY <1>3, <1>4, <1>5, <1>6 DEF Disjoint

(* The invariant is kept by Continue. *)
LEMMA ContinueInv ==
    ASSUME IInv, NEW t \in Thread,
           NEW idle, NEW total, NEW allOk, NEW todo, NEW notified,
           Counted(t, idle, total, allOk, todo, notified),
           Continue(t, idle, total, allOk, todo, notified),
           UNCHANGED <<requestStop, pool, added, ran>>
    PROVE  IInv'
<1>1. TypeOK /\ Places /\ Disjoint /\ Counts /\ Results /\ MasterWillBeWoken /\ ResultExact
  BY DEF IInv
<1>2. Counts' /\ nIdle' \in Nat /\ nTotal' \in Nat /\ nTodo' \in Nat
  BY <1>1, ContinueCounts
<1>3. notified \subseteq {Master} /\ (Master \in notified => at[Master] = "waiting")
      /\ at[t] \in {"enter", "woken"} /\ allOk \in BOOLEAN
  BY DEF Counted
<1>4. PICK place, S : /\ Moved(t, place, S, notified)
                      /\ \/ place = "returned" /\ Return(t, idle, total, allOk, todo)
                         \/ place = "waiting" /\ Sleep(t, idle, total, allOk, todo, notified)
                         \/ place = "out" /\ Stop(t, idle, total, allOk, todo, notified)
                         \/ place = "work" /\ Take(t, idle, total, allOk, todo, notified)
  BY <1>1, ContinueMoves
<1>5. /\ held' \in [Thread -> SUBSET Check] /\ queue' \subseteq Check
      /\ at' \in [Thread -> InLoop \cup {"out", "adding", "returned"}]
      /\ Disjoint'
  BY <1>1, <1>3, <1>4, MovedDisjoint
<1>6. Outstanding' = Outstanding \ held[t]
  BY <1>1, <1>3, <1>4, MovedSets
<1>7. /\ held'[t] = S /\ \A u \in Thread \ {t} : held'[u] = held[u]
      /\ at'[t] = place
      /\ \A u \in Thread \ {t} : at'[u] = IF u \in notified THEN "woken" ELSE at[u]
      /\ S \subseteq queue /\ queue' = queue \ S /\ (place = "work" <=> S # {})
  BY <1>1, <1>4 DEF Moved, TypeOK
<1>8. Master \in Thread /\ Worker \subseteq Thread /\ Master \notin Worker
  BY QueueAssumption DEF Thread
<1>9. TypeOK'
  <2>1. CASE place = "returned"
    BY <2>1, <1>1, <1>2, <1>3, <1>4, <1>5 DEF TypeOK, Return, AllOkForNext
  <2>2. CASE place = "waiting"
    BY <2>2, <1>1, <1>2, <1>3, <1>4, <1>5 DEF TypeOK, Sleep
  <2>3. CASE place = "out"
    BY <2>3, <1>1, <1>2, <1>3, <1>4, <1>5 DEF TypeOK, Stop
  <2>4. CASE place = "work"
    <3>1. ok' = [ok EXCEPT ![t] = allOk] /\ fAllOk' = allOk /\ UNCHANGED result
      BY <2>4, <1>4 DEF Take
    <3> QED BY <3>1, <1>1, <1>2, <1>3, <1>5 DEF TypeOK
  <2> QED BY <1>4, <2>1, <2>2, <2>3, <2>4
<1>10. place = "out" <=> requestStop
  BY <1>4 DEF Return, Sleep, Stop, Take
<1>11. t = Master => ~requestStop
  BY <1>1, <1>3 DEF Places
<1>12. place = "returned" => t = Master
  BY <1>4 DEF Return
<1>13. Places'
  BY <1>1, <1>3, <1>4, <1>7, <1>8, <1>10, <1>11, <1>12 DEF Places, InLoop
<1>14. at[Master] \in {"out", "returned"} => /\ at'[Master] = at[Master] /\ t # Master
                                             /\ Outstanding = {} /\ allOk
                                             /\ place # "work" /\ place # "returned"
  <2> SUFFICES ASSUME at[Master] \in {"out", "returned"}
               PROVE  /\ at'[Master] = at[Master] /\ t # Master
                      /\ Outstanding = {} /\ allOk
                      /\ place # "work" /\ place # "returned"
    OBVIOUS
  <2>1. Outstanding = {} /\ allOk
    BY <1>1 DEF Results, Counted
  <2>2. queue = {}
    BY <2>1 DEF Outstanding
  <2> QED BY <1>3, <1>7, <1>8, <1>12, <2>1, <2>2
<1>15. place = "returned" => Outstanding' = {} /\ fAllOk' /\ result' = allOk
  <2>1. ASSUME place = "returned" PROVE todo = 0 /\ fAllOk' /\ result' = allOk
    BY <1>4, <2>1 DEF Return, AllOkForNext
  <2>2. Outstanding \ held[t] \in SUBSET Check
    BY <1>1 DEF Outstanding, TypeOK
  <2>3. todo = 0 => Outstanding \ held[t] = {}
    BY <2>2, Finite, FS_EmptySet DEF Counted
  <2> QED BY <1>6, <2>1, <2>3
<1>16. place # "returned" => fAllOk' = allOk /\ UNCHANGED result
  BY <1>4 DEF Sleep, Stop, Take
<1>17. ok' = IF place = "work" THEN [ok EXCEPT ![t] = allOk] ELSE ok
  BY <1>4 DEF Return, Sleep, Stop, Take
<1>18. at[Master] \notin {"out", "returned"} =>
          /\ ran \subseteq added /\ Outstanding \subseteq added /\ queue \cap ran = {}
          /\ Known(allOk, added \ Outstanding')
  BY <1>1, <1>6 DEF Results, Counted
<1>19. Results'
  <2>1. CASE at'[Master] \in {"out", "returned"}
    <3>1. CASE at[Master] \in {"out", "returned"}
      BY <3>1, <2>1, <1>6, <1>14, <1>16 DEF Results
    <3>2. CASE at[Master] \notin {"out", "returned"}
      <4>1. place = "returned"
        BY <3>2, <2>1, <1>3, <1>7, <1>8, <1>10, <1>11
      <4> QED BY <4>1, <2>1, <1>15 DEF Results
    <3> QED BY <3>1, <3>2
  <2>2. CASE at'[Master] \notin {"out", "returned"}
    <3>1. at[Master] \notin {"out", "returned"} /\ place # "returned"
      BY <2>2, <1>7, <1>12, <1>14
    <3>2. /\ ran' \subseteq added' /\ Outstanding' \subseteq added' /\ queue' \cap ran' = {}
          /\ Known(fAllOk, added \ Outstanding)'
      BY SMTT(60), <3>1, <1>6, <1>7, <1>16, <1>18 DEF Known
    <3>3. ASSUME NEW u \in Thread
          PROVE  /\ at'[u] = "work" => held'[u] \cap ran' = {} /\ (~ok'[u] => ~(added' \subseteq Good))
                 /\ at'[u] = "enter" /\ held'[u] # {} => Known(ok[u], held[u])'
      <4>1. CASE u = t
        BY <4>1, <3>1, <1>1, <1>4, <1>7, <1>17, <1>18 DEF Known, TypeOK
      <4>2. CASE u # t
        <5>1. held'[u] = held[u] /\ ok'[u] = ok[u] /\ (at'[u] \in {"work", "enter"} => at'[u] = at[u])
          BY <4>2, <1>1, <1>7, <1>17 DEF TypeOK
        <5> QED BY <5>1, <3>1, <1>1 DEF Results, Known
      <4> QED BY <4>1, <4>2
    <3> QED BY <2>2, <3>2, <3>3 DEF Results
  <2> QED BY <2>1, <2>2
<1>20. ResultExact'
  <2> SUFFICES ASSUME at'[Master] = "returned"
               PROVE  result' = (added \subseteq Good) /\ (result' => ran = added) /\ Outstanding' = {}
    BY DEF ResultExact
  <2>1. CASE at[Master] \in {"out", "returned"}
    BY SMTT(60), <2>1, <1>1, <1>6, <1>14, <1>16 DEF ResultExact
  <2>2. CASE at[Master] \notin {"out", "returned"}
    <3>1. place = "returned"
      BY <2>2, <1>3, <1>7, <1>8
    <3>2. Outstanding' = {} /\ result' = allOk
      BY <3>1, <1>15
    <3> QED BY <3>2, <2>2, <1>3, <1>18 DEF Known
  <2> QED BY <2>1, <2>2
<1>21. MasterWillBeWoken'
  <2> SUFFICES ASSUME at'[Master] = "waiting"
               PROVE  \E u \in Worker : held'[u] # {}
    BY <1>5, <1>8 DEF MasterWillBeWoken, Disjoint
  <2>1. CASE t = Master
    <3>1. place = "waiting" /\ todo # 0 /\ queue = {}
      BY <2>1, <1>4, <1>7 DEF Sleep
    <3>2. Outstanding' # {}
      BY <3>1, <1>6, FS_EmptySet DEF Counted
    <3>3. held'[Master] = {} /\ queue' = {}
      BY <2>1, <3>1, <1>7
    <3> QED BY <3>2, <3>3 DEF Outstanding, Thread
  <2>2. CASE t # Master
    <3>1. at[Master] = "waiting" /\ Master \notin notified
      BY <2>2, <1>7, <1>8
    <3>2. PICK u \in Worker : held[u] # {}
      BY <3>1, <1>1 DEF MasterWillBeWoken
    <3>3. CASE held[t] = {}
      BY <3>2, <3>3, <1>7, <1>8
    <3>4. CASE held[t] # {} /\ place = "work"
      BY <3>4, <2>2, <1>7 DEF Thread
    <3>5. CASE held[t] # {} /\ place # "work"
      <4>1. todo # 0
        BY <3>1, <3>5 DEF Counted
      <4>2. Outstanding' # {}
        BY <4>1, <1>6, FS_EmptySet DEF Counted
      <4>3. queue' = {}
        BY <3>1, <3>5, <1>1, <1>4, <1>7, <1>10, <1>12, <2>2 DEF Sleep, Places
      <4>4. held'[Master] = {}
        BY <3>1, <1>1, <1>7, <1>8, <2>2 DEF Disjoint
      <4> QED BY <4>2, <4>3, <4>4 DEF Outstanding, Thread
    <3> QED BY <3>3, <3>4, <3>5
  <2> QED BY <2>1, <2>2
<1> QED BY <1>2, <1>5, <1>9, <1>13, <1>19, <1>20, <1>21 DEF IInv
-----------------------------------------------------------------------------
(* The three ways into Continue have counted what t brings. *)
LEMMA EnterInv ==
    ASSUME IInv, NEW t \in Thread, Enter(t)
    PROVE  IInv'
<1>1. Idle \ {t} = Idle /\ t \notin Looping /\ Outstanding \ held[t] = Outstanding
  BY DEF Enter, Idle, Looping
<1>2. Looping \in SUBSET Thread
  BY DEF Looping
<1>3. Cardinality(Looping \cup {t}) = Cardinality(Looping) + 1
  BY <1>1, <1>2, Finite, FS_AddElement
<1>4. IF at[Master] \in {"out", "returned"} THEN fAllOk ELSE Known(fAllOk, added \ Outstanding)
  BY DEF IInv, Results
<1>5. Counted(t, nIdle, nTotal + 1, fAllOk, nTodo, {})
  BY SMTT(60), <1>1, <1>3, <1>4 DEF Counted, IInv, TypeOK, Counts, Enter
<1> QED BY <1>5, ContinueInv DEF Enter

LEMMA ReportInv ==
    ASSUME IInv, NEW t \in Thread, Report(t)
    PROVE  IInv'
<1> DEFINE todo == TodoWithout(t)
<1>1. Idle \ {t} = Idle /\ Looping \cup {t} = Looping
  BY DEF Report, Idle, Looping, InLoop
<1>2. Outstanding \in SUBSET Check /\ held[t] \in SUBSET Check /\ Outstanding \cap held[t] = held[t]
  BY DEF Outstanding, IInv, TypeOK
<1>3. todo = Cardinality(Outstanding \ held[t])
  <2>1. IsFiniteSet(Outstanding)
    BY <1>2, Finite
  <2>2. Cardinality(Outstanding \ held[t]) = Cardinality(Outstanding) - Cardinality(Outstanding \cap held[t])
    BY <2>1, FS_Difference
  <2>3. nTodo = Cardinality(Outstanding)
    BY DEF IInv, Counts
  <2> QED BY <1>2, <2>2, <2>3 DEF TodoWithout
<1>4. at[Master] \notin {"out", "returned"}
  BY <1>2 DEF IInv, Results, Report
<1>5. Known(AllOkWith(t), added \ (Outstanding \ held[t])) /\ AllOkWith(t) \in BOOLEAN
  BY <1>2, <1>4 DEF IInv, Results, Known, AllOkWith, Report, TypeOK
<1>6. at[Master] = "waiting" => t # Master
  BY DEF Report
<1> HIDE DEF todo
<1>7. Counted(t, nIdle, nTotal, AllOkWith(t), todo, LastNotifies(t, todo))
  BY <1>1, <1>3, <1>4, <1>5, <1>6 DEF Counted, IInv, TypeOK, Counts, Report, LastNotifies
<1> QED BY <1>7, ContinueInv DEF Report, todo

LEMMA WakeUpInv ==
    ASSUME IInv, NEW t \in Thread, WakeUp(t)
    PROVE  IInv'
<1>1. t \in Idle /\ Looping \cup {t} = Looping /\ held[t] = {}
  BY DEF WakeUp, Idle, Looping, InLoop, IInv, Disjoint
<1>2. Idle \in SUBSET Thread /\ Outstanding \ held[t] = Outstanding
  BY <1>1 DEF Idle
<1>3. Cardinality(Idle \ {t}) = Cardinality(Idle) - 1
  BY <1>1, <1>2, Finite, FS_RemoveElement
<1>4. Counted(t, nIdle - 1, nTotal, fAllOk, nTodo, {})
  BY <1>1, <1>2, <1>3 DEF Counted, IInv, TypeOK, Counts, Results, WakeUp
<1> QED BY <1>4, ContinueInv DEF WakeUp

(* A thread calls its checks. *)
LEMMA ExecuteInv ==
    ASSUME IInv, NEW t \in Thread, Execute(t)
    PROVE  IInv'
<1>1. PICK S \in Called(t) : ran' = ran \cup S /\ ok' = [ok EXCEPT ![t] = @ /\ S \subseteq Good]
  BY DEF Execute
<1>2. /\ at[t] = "work" /\ at' = [at EXCEPT ![t] = "enter"]
      /\ UNCHANGED <<queue, counters, requestStop, held, pool, added, result>>
  BY DEF Execute
<1>3. held[t] # {} /\ held[t] \subseteq Outstanding
  BY <1>2 DEF IInv, Disjoint, Outstanding
<1>4. at[Master] \notin {"out", "returned"}
  BY <1>3 DEF IInv, Results
<1>5. S \subseteq held[t] /\ (ok[t] /\ S \subseteq Good => S = held[t]) /\ (~ok[t] => S = {})
  <2>1. CASE ~ok[t] \/ held[t] \subseteq Good
    BY <2>1, <1>1 DEF Called
  <2>2. CASE ok[t] /\ ~(held[t] \subseteq Good)
    BY <2>2, <1>1 DEF Called
  <2> QED BY <2>1, <2>2
<1>6. UNCHANGED <<Outstanding, Idle, Looping>>
  BY <1>2, <1>3 DEF Outstanding, Idle, Looping, InLoop, IInv, TypeOK
<1>7. TypeOK'
  BY <1>1, <1>2, <1>5 DEF IInv, TypeOK, counters, InLoop
<1>8. Places' /\ Disjoint' /\ Counts' /\ MasterWillBeWoken'
  BY <1>2, <1>3, <1>6 DEF IInv, TypeOK, Places, Disjoint, Counts, MasterWillBeWoken, counters, InLoop, Thread
<1>9. at'[Master] \notin {"out", "returned"} /\ Master \in Thread
  BY <1>2, <1>4 DEF IInv, TypeOK, Thread
<1>10. /\ ran' \subseteq added' /\ Outstanding' \subseteq added' /\ queue' \cap ran' = {}
       /\ Known(fAllOk, added \ Outstanding)'
  BY <1>1, <1>2, <1>3, <1>4, <1>5, <1>6 DEF IInv, Results, Disjoint, Known, counters
<1>11. ASSUME NEW u \in Thread
       PROVE  /\ at'[u] = "work" => held'[u] \cap ran' = {} /\ (~ok'[u] => ~(added' \subseteq Good))
              /\ at'[u] = "enter" /\ held'[u] # {} => Known(ok[u], held[u])'
  <2>1. CASE u = t
    <3>1. at'[u] = "enter" /\ ok'[u] = (ok[t] /\ S \subseteq Good) /\ held'[u] = held[t]
      BY <2>1, <1>1, <1>2 DEF IInv, TypeOK
    <3>2. held[t] \subseteq added /\ (~ok[t] => ~(added \subseteq Good))
      BY <1>2, <1>3, <1>4 DEF IInv, Results
    <3> QED BY <3>1, <3>2, <1>1, <1>2, <1>5 DEF Known
  <2>2. CASE u # t
    <3>1. at'[u] = at[u] /\ ok'[u] = ok[u] /\ held'[u] = held[u] /\ held[u] \cap S = {}
      BY <2>2, <1>1, <1>2, <1>5 DEF IInv, TypeOK, Disjoint
    <3> QED BY <3>1, <1>1, <1>2, <1>4 DEF IInv, Results, Known
  <2> QED BY <2>1, <2>2
<1>12. Results' /\ ResultExact'
  BY <1>9, <1>10, <1>11 DEF Results, ResultExact
<1> QED BY <1>7, <1>8, <1>12 DEF IInv

(* Add: the new checks are queued, and workers may be woken. *)
LEMMA AddInv ==
    ASSUME IInv, NEW S \in SUBSET Check, Add(S)
    PROVE  IInv'
<1>1. /\ at[Master] = "adding" /\ S \cap added = {}
      /\ queue' = queue \cup S /\ added' = added \cup S
      /\ nTodo' = nTodo + Cardinality(S)
      /\ UNCHANGED <<nIdle, nTotal, fAllOk, requestStop, held, ok, pool, ran, result>>
  BY DEF Add
<1>2. /\ at' \in [Thread -> InLoop \cup {"out", "adding", "returned"}]
      /\ at'[Master] = at[Master]
      /\ \A u \in Thread : at'[u] = at[u] \/ (u \in Worker /\ at[u] = "waiting" /\ at'[u] = "woken")
  <2>1. at' \in NotifyAdd(S) /\ at \in [Thread -> InLoop \cup {"out", "adding", "returned"}]
    BY DEF Add, IInv, TypeOK
  <2>2. Worker \subseteq Thread /\ Master \in Thread /\ Master \notin Worker
    BY QueueAssumption DEF Thread
  <2>3. \/ \E t \in Worker : at[t] = "waiting" /\ at' = [at EXCEPT ![t] = "woken"]
        \/ at' = NotifyAll(Worker)
        \/ at' = at
    BY <2>1 DEF NotifyAdd
  <2> QED BY <2>1, <2>2, <2>3 DEF NotifyAll, InLoop
<1>3. Outstanding' = Outstanding \cup S /\ Outstanding \cap S = {}
  BY SMTT(60), <1>1 DEF Outstanding, IInv, Results
<1>4. Cardinality(Outstanding \cup S) = Cardinality(Outstanding) + Cardinality(S)
  <2>1. IsFiniteSet(Outstanding) /\ IsFiniteSet(S) /\ Cardinality(Outstanding) \in Nat /\ Cardinality(S) \in Nat
    BY SMTT(60), Finite DEF Outstanding, IInv, TypeOK
  <2>2. Cardinality(Outstanding \cap S) = 0
    BY <1>3, FS_EmptySet
  <2>3. Cardinality(Outstanding \cup S) =
            Cardinality(Outstanding) + Cardinality(S) - Cardinality(Outstanding \cap S)
    BY <2>1, FS_Union
  <2> QED BY SMTT(60), <2>1, <2>2, <2>3
<1>5. Idle' = Idle /\ Looping' = Looping
  BY <1>1, <1>2 DEF Idle, Looping, InLoop
<1>6. TypeOK'
  BY SMTT(60), <1>1, <1>2, Finite DEF IInv, TypeOK
<1>7. Counts'
  BY <1>1, <1>3, <1>4, <1>5 DEF IInv, Counts
<1>8. Places' /\ MasterWillBeWoken' /\ ResultExact'
  BY <1>1, <1>2, QueueAssumption DEF IInv, Places, MasterWillBeWoken, ResultExact, InLoop, Thread
<1>9. Disjoint'
  <2>1. \A u \in Thread : held[u] \cap S = {}
    BY <1>3 DEF Outstanding
  <2> QED BY <2>1, <1>1, <1>2 DEF IInv, Disjoint
<1>10. Results'
  <2>1. /\ ran' \subseteq added' /\ Outstanding' \subseteq added' /\ queue' \cap ran' = {}
        /\ Known(fAllOk, added \ Outstanding)'
    BY <1>1, <1>3 DEF IInv, Results, Known
  <2>2. \A u \in Thread :
          /\ at'[u] = "work" => held'[u] \cap ran' = {} /\ (~ok'[u] => ~(added' \subseteq Good))
          /\ at'[u] = "enter" /\ held'[u] # {} => Known(ok[u], held[u])'
    BY <1>1, <1>2 DEF IInv, Results, Known
  <2> QED BY <1>1, <1>2, <2>1, <2>2 DEF Results
<1> QED BY <1>6, <1>7, <1>8, <1>9, <1>10 DEF IInv

(* Steps that move threads between places and touch nothing else of Loop.   *)
LEMMA PlaceInv ==
    ASSUME IInv, CallWait \/ EndControl \/ NotifyWorkers \/ \E t \in Thread : SpuriousWakeUp(t)
    PROVE  IInv'
<1>1. UNCHANGED <<queue, counters, requestStop, held, ok, added, ran, result>>
  BY DEF CallWait, EndControl, NotifyWorkers, SpuriousWakeUp
<1>2. Outstanding' = Outstanding
  BY <1>1 DEF Outstanding
<1>3. Master \in Thread /\ Worker \subseteq Thread /\ Master \notin Worker
  BY QueueAssumption DEF Thread
<1>4. /\ at' \in [Thread -> InLoop \cup {"out", "adding", "returned"}]
      /\ \A u \in Thread : \/ at'[u] = at[u]
                           \/ at[u] = "waiting" /\ at'[u] = "woken"
                           \/ u = Master /\ at[u] = "adding" /\ at'[u] = "enter"
                           \/ u = Master /\ at[u] = "returned" /\ at'[u] = "out"
      /\ pool' = pool \/ (pool = "notifying" /\ pool' = "joining")
  <2>1. CASE CallWait BY <2>1, <1>3 DEF CallWait, IInv, TypeOK, InLoop
  <2>2. CASE EndControl BY <2>2, <1>3 DEF EndControl, IInv, TypeOK, InLoop
  <2>3. CASE NotifyWorkers BY <2>3, <1>3 DEF NotifyWorkers, NotifyStop, NotifyAll, IInv, TypeOK, InLoop
  <2>4. CASE \E t \in Thread : SpuriousWakeUp(t) BY <2>4, <1>3 DEF SpuriousWakeUp, IInv, TypeOK, InLoop
  <2> QED BY <2>1, <2>2, <2>3, <2>4
<1>5. at[Master] \in {"adding", "returned"} => held[Master] = {}
  BY <1>3 DEF IInv, Disjoint
<1>6. Idle' = Idle /\ Looping' = Looping
  BY <1>1, <1>4, <1>5 DEF Idle, Looping, InLoop
<1>7. TypeOK' /\ Counts'
  BY <1>1, <1>2, <1>4, <1>6 DEF IInv, TypeOK, Counts, counters
<1>8. Places'
  BY <1>1, <1>3, <1>4 DEF IInv, Places, InLoop
<1>9. Disjoint'
  BY <1>1, <1>4, <1>5 DEF IInv, Disjoint
<1>10. at'[Master] = "waiting" => at[Master] = "waiting"
  BY <1>3, <1>4
<1>11. MasterWillBeWoken'
  BY <1>1, <1>3, <1>9, <1>10 DEF IInv, MasterWillBeWoken, Disjoint
<1>12. ResultExact'
  BY <1>1, <1>2, <1>3, <1>4 DEF IInv, ResultExact
<1>13. Results'
  <2>1. at'[Master] \in {"out", "returned"} <=> at[Master] \in {"out", "returned"}
    BY <1>3, <1>4
  <2>2. CASE at[Master] \in {"out", "returned"}
    BY <2>1, <2>2, <1>1, <1>2 DEF IInv, Results, counters
  <2>3. CASE at[Master] \notin {"out", "returned"}
    BY <2>1, <2>3, <1>1, <1>2, <1>3, <1>4, <1>5 DEF IInv, Results, Known, counters
  <2> QED BY <2>2, <2>3
<1> QED BY <1>7, <1>8, <1>9, <1>11, <1>12, <1>13 DEF IInv

(* Steps while no block is being connected. *)
LEMMA OutsideInv ==
    ASSUME IInv, StartWorkerThreads \/ RequestStop \/ JoinWorkers \/ BeginControl
    PROVE  IInv'
<1>1. Master \in Thread /\ Worker \subseteq Thread /\ Master \notin Worker
  BY QueueAssumption DEF Thread
<1>2. at[Master] = "out"
  BY DEF StartWorkerThreads, RequestStop, JoinWorkers, BeginControl, IInv, Places
<1>3. UNCHANGED <<queue, held, nTodo, result>>
  BY DEF StartWorkerThreads, RequestStop, JoinWorkers, BeginControl, counters
<1>4. Outstanding = {} /\ fAllOk /\ queue = {} /\ \A u \in Thread : held[u] = {}
  BY <1>2 DEF IInv, Results, Outstanding
<1>5. Outstanding' = {} /\ nTodo' = Cardinality(Outstanding')
  BY <1>3, <1>4 DEF Outstanding, IInv, Counts
<1>6. \A u \in Thread : at[u] # "work"
  BY <1>4 DEF IInv, Disjoint
<1>7. CASE StartWorkerThreads
  <2>1. /\ pool = "stopped" /\ nIdle' = 0 /\ nTotal' = 0 /\ fAllOk' = TRUE /\ pool' = "running"
        /\ at' = [t \in Thread |-> IF t \in Worker THEN "enter" ELSE at[t]]
        /\ ok' = [t \in Thread |-> TRUE] /\ UNCHANGED <<requestStop, added, ran>>
    BY <1>7 DEF StartWorkerThreads
  <2>2. Idle' = {} /\ Looping' = {}
    BY <2>1, <1>1, <1>2, <1>3, <1>4 DEF Idle, Looping, InLoop, Thread
  <2>3. TypeOK'
    BY <2>1, <1>3 DEF IInv, TypeOK, InLoop
  <2>4. Places'
    BY <2>1, <1>1, <1>2 DEF IInv, Places, InLoop
  <2>5. Counts'
    BY <2>1, <2>2, <1>5, FS_EmptySet DEF Counts
  <2>6. Disjoint'
    BY <2>1, <1>3, <1>4, <1>6 DEF Disjoint
  <2>7. at'[Master] = "out"
    BY <2>1, <1>1, <1>2
  <2> QED BY <2>1, <2>3, <2>4, <2>5, <2>6, <2>7, <1>5
        DEF IInv, Results, MasterWillBeWoken, ResultExact
<1>8. CASE RequestStop \/ JoinWorkers
  <2>1. /\ UNCHANGED <<queue, counters, at, held, ok, added, ran, result>>
        /\ pool' # "running"
        /\ \/ requestStop' = TRUE /\ pool' = "notifying"
           \/ requestStop' = FALSE /\ pool' = "stopped" /\ \A t \in Worker : at[t] = "out"
    BY <1>8 DEF RequestStop, JoinWorkers
  <2>2. Idle' = Idle
    BY <2>1 DEF Idle
  <2>3. TypeOK'
    BY <2>1 DEF IInv, TypeOK, counters
  <2>4. Places'
    BY <2>1, <1>1, <1>2 DEF IInv, Places
  <2>5. Counts'
    BY <2>1, <2>2, <1>5 DEF IInv, Counts, counters
  <2>6. Disjoint' /\ MasterWillBeWoken' /\ ResultExact'
    BY <2>1, <1>2 DEF IInv, Disjoint, MasterWillBeWoken, ResultExact
  <2>7. Results'
    BY <2>1, <1>2, <1>4, <1>5 DEF Results, counters
  <2> QED BY <2>3, <2>4, <2>5, <2>6, <2>7 DEF IInv
<1>9. CASE BeginControl
  <2>1. /\ pool = "running" /\ at' = [at EXCEPT ![Master] = "adding"] /\ added' = {} /\ ran' = {}
        /\ UNCHANGED <<queue, counters, requestStop, held, ok, pool, result>>
    BY <1>9 DEF BeginControl
  <2>2. at'[Master] = "adding" /\ \A u \in Thread \ {Master} : at'[u] = at[u]
    BY <2>1, <1>1 DEF IInv, TypeOK
  <2>3. Idle' = Idle /\ Looping' = Looping
    BY <2>1, <2>2, <1>2 DEF Idle, Looping, InLoop
  <2>4. TypeOK'
    BY <2>1 DEF IInv, TypeOK, counters, InLoop
  <2>5. Places'
    BY <2>1, <2>2, <1>1 DEF IInv, Places
  <2>6. Counts'
    BY <2>1, <2>3, <1>5 DEF IInv, Counts, counters
  <2>7. Disjoint' /\ MasterWillBeWoken' /\ ResultExact'
    BY <2>1, <2>2, <1>4, <1>6 DEF Disjoint, MasterWillBeWoken, ResultExact
  <2>8. Results'
    BY <2>1, <2>2, <1>4, <1>5, <1>6 DEF Results, Known, counters
  <2> QED BY <2>4, <2>5, <2>6, <2>7, <2>8 DEF IInv
<1> QED BY <1>7, <1>8, <1>9

(* The invariant is inductive. *)
LEMMA Inductive ==
    /\ Init => IInv
    /\ IInv /\ [Next]_vars => IInv'
<1>1. ASSUME Init PROVE IInv
  <2>1. Outstanding = {} /\ Idle = {} /\ at[Master] = "out"
    BY <1>1 DEF Init, Outstanding, Idle, Thread
  <2>2. TypeOK /\ Places /\ Disjoint
    BY <1>1, <2>1 DEF Init, TypeOK, Places, Disjoint, InLoop, Thread
  <2>3. Counts
    BY <1>1, <2>1, FS_EmptySet DEF Init, Counts
  <2>4. Results /\ MasterWillBeWoken /\ ResultExact
    BY <1>1, <2>1 DEF Init, Results, MasterWillBeWoken, ResultExact
  <2> QED BY <2>2, <2>3, <2>4 DEF IInv
<1>2. ASSUME IInv, [Next]_vars PROVE IInv'
  <2>1. CASE StartWorkerThreads \/ RequestStop \/ JoinWorkers \/ BeginControl
    BY <1>2, <2>1, OutsideInv
  <2>2. CASE CallWait \/ EndControl \/ NotifyWorkers \/ \E t \in Thread : SpuriousWakeUp(t)
    BY <1>2, <2>2, PlaceInv
  <2>3. CASE \E S \in SUBSET Check : Add(S)
    BY <1>2, <2>3, AddInv
  <2>4. CASE \E t \in Thread : Step(t)
    BY <1>2, <2>4, EnterInv, ReportInv, WakeUpInv, ExecuteInv DEF Step
  <2>5. CASE UNCHANGED vars
    <3>1. UNCHANGED <<queue, nIdle, nTotal, fAllOk, nTodo, requestStop, at, held, ok, pool, added, ran, result>>
      BY <2>5 DEF vars, counters
    <3>2. UNCHANGED <<Outstanding, Idle, Looping>>
      BY <3>1 DEF Outstanding, Idle, Looping
    <3>3. TypeOK'
      BY <3>1, <1>2 DEF IInv, TypeOK
    <3>4. Places' /\ Disjoint'
      BY <3>1, <1>2 DEF IInv, Places, Disjoint
    <3>5. Counts' /\ MasterWillBeWoken' /\ ResultExact'
      BY <3>1, <3>2, <1>2 DEF IInv, Counts, MasterWillBeWoken, ResultExact
    <3>6. Results'
      BY <3>1, <3>2, <1>2 DEF IInv, Results, Known
    <3> QED BY <3>3, <3>4, <3>5, <3>6 DEF IInv
  <2> QED BY <1>2, <2>1, <2>2, <2>3, <2>4, <2>5 DEF Next, Control
<1> QED BY <1>1, <1>2
-----------------------------------------------------------------------------
(* Wait's answer, for any workers, checks and batch size: it is true        *)
(* exactly if all checks of the block return true, all of them were called, *)
(* and no thread has one left.                                              *)
THEOREM WaitCorrect == Spec => []ResultExact
<1>1. IInv => ResultExact
  BY DEF IInv
<1> QED BY <1>1, Inductive, PTL DEF Spec

(* nTodo, nIdle, nTotal and fAllOk, which the threads of Loop update in     *)
(* turn, are what they stand for; the next block finds them clean; and the  *)
(* master never waits for a notification that will not come.                *)
THEOREM BookkeepingCorrect == Spec => []BookkeepingExact
<1>1. IInv => BookkeepingExact
  <2> SUFFICES ASSUME IInv PROVE BookkeepingExact
    OBVIOUS
  <2>1. TypeOK /\ MasterWillBeWoken
    BY DEF IInv
  <2>2. CountersExact
    BY DEF IInv, Counts, CountersExact, Idle, Looping
  <2>3. CleanForNextBlock
    BY FS_EmptySet DEF IInv, Counts, Results, CleanForNextBlock
  <2> QED BY <2>1, <2>2, <2>3 DEF BookkeepingExact
<1> QED BY <1>1, Inductive, PTL DEF Spec

(* Loop hands no check to two threads and calls none twice. *)
THEOREM ChecksCalledOnce == Spec => CalledOnce
<1>1. ASSUME IInv, NEW t \in Thread, Execute(t) PROVE held[t] \cap ran = {}
  <2>1. at[t] = "work" /\ held[t] # {}
    BY <1>1 DEF Execute, IInv, Disjoint
  <2>2. Outstanding # {}
    BY <2>1 DEF Outstanding
  <2> QED BY <1>1, <2>1, <2>2 DEF IInv, Results
<1>2. IInv => [\A t \in Thread : Execute(t) => held[t] \cap ran = {}]_vars
  BY <1>1
<1> QED BY <1>2, Inductive, PTL DEF Spec, CalledOnce
=============================================================================
