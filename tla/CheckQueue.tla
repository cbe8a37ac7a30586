----------------------------- MODULE CheckQueue -----------------------------
(***************************************************************************)
(* CCheckQueue and CCheckQueueControl (checkqueue.h), with which           *)
(* ConnectBlock has the script checks of a block run by several threads:   *)
(* the master adds checks while it walks the block, and then works with    *)
(* the others until all of them are done.                                  *)
(*                                                                         *)
(* m_mutex is not a variable: what a thread does from taking it to giving  *)
(* it back, or to waiting, is one action. The queue is a set, since which  *)
(* of the queued checks is next does not matter.                           *)
(***************************************************************************)
EXTENDS Naturals, FiniteSets

CONSTANTS
    Worker,     \* the threads of m_worker_threads
    Master,     \* the thread that holds m_control_mutex
    Check,      \* the checks a block may have
    Good,       \* those that return true
    BatchSize   \* nBatchSize

ASSUME QueueAssumption ==
    /\ IsFiniteSet(Worker) /\ Master \notin Worker
    /\ IsFiniteSet(Check) /\ Good \subseteq Check
    /\ BatchSize \in Nat \ {0}

VARIABLES
    queue,       \* the checks nobody has taken yet
    nIdle, nTotal, fAllOk, nTodo, requestStop,
    at,          \* where each thread is
    held,        \* vChecks of each thread, until its results are counted
    ok,          \* fOk of each thread
    pool,        \* where StartWorkerThreads and StopWorkerThreads are
    added, ran,  \* the checks of this block, and those that were called
    result       \* what Wait returned

counters == <<nIdle, nTotal, fAllOk, nTodo>>
vars == <<queue, counters, requestStop, at, held, ok, pool, added, ran, result>>

Thread == Worker \cup {Master}

(* The places of a thread in Loop: about to lock m_mutex, in cond.wait,     *)
(* woken and about to lock again, and calling its checks.                   *)
InLoop == {"enter", "waiting", "woken", "work"}
-----------------------------------------------------------------------------
(* No worker runs, and no block is being connected. *)
Init ==
    /\ queue = {} /\ nIdle = 0 /\ nTotal = 0 /\ fAllOk = TRUE /\ nTodo = 0
    /\ requestStop = FALSE
    /\ at = [t \in Thread |-> "out"]
    /\ held = [t \in Thread |-> {}] /\ ok = [t \in Thread |-> TRUE]
    /\ pool = "stopped"
    /\ added = {} /\ ran = {} /\ result = TRUE

(* AppInitMain starts the workers before any block is connected. *)
StartWorkerThreads ==
    /\ pool = "stopped" /\ at[Master] = "out"
    /\ nIdle' = 0 /\ nTotal' = 0 /\ fAllOk' = TRUE
    /\ at' = [t \in Thread |-> IF t \in Worker THEN "enter" ELSE at[t]]
    /\ ok' = [t \in Thread |-> TRUE]
    /\ pool' = "running"
    /\ UNCHANGED <<queue, nTodo, requestStop, held, added, ran, result>>

(* Shutdown(): all that could connect a block has ended. *)
RequestStop ==
    /\ pool = "running" /\ at[Master] = "out"
    /\ requestStop' = TRUE /\ pool' = "notifying"
    /\ UNCHANGED <<queue, counters, at, held, ok, added, ran, result>>

NotifyAll(T) == [t \in Thread |-> IF t \in T /\ at[t] = "waiting" THEN "woken" ELSE at[t]]

NotifyStop_Bug == at

NotifyStop == NotifyAll(Worker)

NotifyWorkers ==
    /\ pool = "notifying"
    /\ at' = NotifyStop
    /\ pool' = "joining"
    /\ UNCHANGED <<queue, counters, requestStop, held, ok, added, ran, result>>

JoinWorkers ==
    /\ pool = "joining" /\ \A t \in Worker : at[t] = "out"
    /\ requestStop' = FALSE /\ pool' = "stopped"
    /\ UNCHANGED <<queue, counters, at, held, ok, added, ran, result>>
-----------------------------------------------------------------------------
(* ConnectBlock makes a CCheckQueueControl. *)
BeginControl ==
    /\ pool = "running" /\ at[Master] = "out"
    /\ at' = [at EXCEPT ![Master] = "adding"]
    /\ added' = {} /\ ran' = {}
    /\ UNCHANGED <<queue, counters, requestStop, held, ok, pool, result>>

(* Add wakes one worker for one check and all of them for more. *)
NotifyAdd(S) ==
    LET asleep == {t \in Worker : at[t] = "waiting"}
    IN  CASE Cardinality(S) = 1 /\ asleep # {} ->
                {[at EXCEPT ![t] = "woken"] : t \in asleep}
          [] Cardinality(S) > 1 -> {NotifyAll(Worker)}
          [] OTHER -> {at}

Add(S) ==
    /\ at[Master] = "adding" /\ S \cap added = {}
    /\ queue' = queue \cup S /\ added' = added \cup S
    /\ nTodo' = nTodo + Cardinality(S)
    /\ at' \in NotifyAdd(S)
    /\ UNCHANGED <<nIdle, nTotal, fAllOk, requestStop, held, ok, pool, ran, result>>

(* Wait, called by ConnectBlock, or by the destructor after an early return. *)
CallWait ==
    /\ at[Master] = "adding"
    /\ at' = [at EXCEPT ![Master] = "enter"]
    /\ UNCHANGED <<queue, counters, requestStop, held, ok, pool, added, ran, result>>

EndControl ==
    /\ at[Master] = "returned"
    /\ at' = [at EXCEPT ![Master] = "out"]
    /\ UNCHANGED <<queue, counters, requestStop, held, ok, pool, added, ran, result>>
-----------------------------------------------------------------------------
(* The rest of Loop's critical section, from its while on, with the values  *)
(* the counters have by then and the thread that was notified, if any.      *)

AllOkForNext_Bug(allOk) == allOk

(* "reset the status for new work later" *)
AllOkForNext(allOk) == TRUE

(* Nothing is left to do: the master returns. *)
Return(t, idle, total, allOk, todo) ==
    /\ queue = {} /\ ~requestStop
    /\ t = Master /\ todo = 0
    /\ nIdle' = idle /\ nTotal' = total - 1 /\ nTodo' = todo
    /\ result' = allOk /\ fAllOk' = AllOkForNext(allOk)
    /\ at' = [at EXCEPT ![t] = "returned"]
    /\ held' = [held EXCEPT ![t] = {}]
    /\ UNCHANGED <<queue, ok>>

(* nIdle once another thread waits. *)
MoreIdle(idle) == idle + 1

Sleep(t, idle, total, allOk, todo, notified) ==
    /\ queue = {} /\ ~requestStop
    /\ ~(t = Master /\ todo = 0)
    /\ nIdle' = MoreIdle(idle) /\ nTotal' = total /\ fAllOk' = allOk /\ nTodo' = todo
    /\ at' = [u \in Thread |-> IF u = t THEN "waiting" ELSE IF u \in notified THEN "woken" ELSE at[u]]
    /\ held' = [held EXCEPT ![t] = {}]
    /\ UNCHANGED <<queue, ok, result>>

(* The thread ends. *)
Stop(t, idle, total, allOk, todo, notified) ==
    /\ requestStop
    /\ nIdle' = idle /\ nTotal' = total /\ fAllOk' = allOk /\ nTodo' = todo
    /\ at' = [u \in Thread |-> IF u = t THEN "out" ELSE IF u \in notified THEN "woken" ELSE at[u]]
    /\ held' = [held EXCEPT ![t] = {}]
    /\ UNCHANGED <<queue, ok, result>>

(* How many checks to take: smaller and smaller batches, none empty. *)
BatchCount(idle, total) ==
    LET share == Cardinality(queue) \div (total + idle + 1)
        limited == IF share < BatchSize THEN share ELSE BatchSize
    IN  IF limited < 1 THEN 1 ELSE limited

QueueWithout_Bug(S) == queue

(* The queue once S was swapped into vChecks. *)
QueueWithout(S) == queue \ S

Take(t, idle, total, allOk, todo, notified) ==
    /\ queue # {} /\ ~requestStop
    /\ \E S \in SUBSET queue :
          /\ Cardinality(S) = BatchCount(idle, total)
          /\ queue' = QueueWithout(S)
          /\ held' = [held EXCEPT ![t] = S]
    /\ ok' = [ok EXCEPT ![t] = allOk]
    /\ nIdle' = idle /\ nTotal' = total /\ fAllOk' = allOk /\ nTodo' = todo
    /\ at' = [u \in Thread |-> IF u = t THEN "work" ELSE IF u \in notified THEN "woken" ELSE at[u]]
    /\ UNCHANGED result

Continue(t, idle, total, allOk, todo, notified) ==
    \/ Return(t, idle, total, allOk, todo)
    \/ Sleep(t, idle, total, allOk, todo, notified)
    \/ Stop(t, idle, total, allOk, todo, notified)
    \/ Take(t, idle, total, allOk, todo, notified)

LastNotifies_Bug(t, todo) == {}

(* Who has done the last check tells the master, if that is waiting. *)
LastNotifies(t, todo) ==
    IF todo = 0 /\ t # Master /\ at[Master] = "waiting" THEN {Master} ELSE {}

AllOkWith_Bug(t) == ok[t]

(* fAllOk with the results of t. *)
AllOkWith(t) == fAllOk /\ ok[t]

(* nTodo without the checks of t. *)
TodoWithout(t) == nTodo - Cardinality(held[t])

(* A thread starts Loop. *)
Enter(t) ==
    /\ at[t] = "enter" /\ held[t] = {}
    /\ Continue(t, nIdle, nTotal + 1, fAllOk, nTodo, {})
    /\ UNCHANGED <<requestStop, pool, added, ran>>

(* A thread comes back with its results. *)
Report(t) ==
    /\ at[t] = "enter" /\ held[t] # {}
    /\ LET todo == TodoWithout(t)
       IN  Continue(t, nIdle, nTotal, AllOkWith(t), todo, LastNotifies(t, todo))
    /\ UNCHANGED <<requestStop, pool, added, ran>>

(* A thread goes on after cond.wait. *)
WakeUp(t) ==
    /\ at[t] = "woken"
    /\ Continue(t, nIdle - 1, nTotal, fAllOk, nTodo, {})
    /\ UNCHANGED <<requestStop, pool, added, ran>>

(* The checks a thread calls: none if it knows of a failure, and none       *)
(* after the first that fails.                                              *)
Called(t) ==
    IF ~ok[t] THEN {{}}
    ELSE IF held[t] \subseteq Good THEN {held[t]}
    ELSE {S \in SUBSET held[t] : \E c \in S \ Good : S \ {c} \subseteq Good}

Execute(t) ==
    /\ at[t] = "work"
    /\ \E S \in Called(t) :
          /\ ran' = ran \cup S
          /\ ok' = [ok EXCEPT ![t] = @ /\ S \subseteq Good]
    /\ at' = [at EXCEPT ![t] = "enter"]
    /\ UNCHANGED <<queue, counters, requestStop, held, pool, added, result>>

(* cond.wait may return without a notification. *)
SpuriousWakeUp(t) ==
    /\ at[t] = "waiting"
    /\ at' = [at EXCEPT ![t] = "woken"]
    /\ UNCHANGED <<queue, counters, requestStop, held, ok, pool, added, ran, result>>

Step(t) == Enter(t) \/ Report(t) \/ WakeUp(t) \/ Execute(t)

Control == NotifyWorkers \/ JoinWorkers \/ CallWait \/ EndControl

Next ==
    \/ StartWorkerThreads \/ RequestStop \/ BeginControl \/ Control
    \/ \E S \in SUBSET Check : Add(S)
    \/ \E t \in Thread : Step(t) \/ SpuriousWakeUp(t)

Spec == Init /\ [][Next]_vars

(* A thread that is not waiting for a condition variable gets to run, and   *)
(* ConnectBlock and StopWorkerThreads go on.                                *)
FairSpec == Spec /\ WF_vars(Control) /\ \A t \in Thread : WF_vars(Step(t))
-----------------------------------------------------------------------------
(* The types of the counters and of the threads' places. *)
TypeOK ==
    /\ queue \subseteq Check /\ added \subseteq Check /\ ran \subseteq Check
    /\ nIdle \in Nat /\ nTotal \in Nat /\ nTodo \in Nat
    /\ fAllOk \in BOOLEAN /\ requestStop \in BOOLEAN /\ result \in BOOLEAN
    /\ at \in [Thread -> InLoop \cup {"out", "adding", "returned"}]
    /\ held \in [Thread -> SUBSET Check] /\ ok \in [Thread -> BOOLEAN]
    /\ pool \in {"stopped", "running", "notifying", "joining"}

Outstanding == queue \cup UNION {held[t] : t \in Thread}

(* Wait: the block is accepted if and only if every check that was added    *)
(* returns true, and then every one was called; and no thread still has a   *)
(* check, whose transaction may be gone once ConnectBlock has returned.     *)
ResultExact ==
    at[Master] = "returned" =>
        /\ result = (added \subseteq Good)
        /\ result => ran = added
        /\ Outstanding = {}

(* A failed block leaves nothing behind that the next block could notice.   *)
CleanForNextBlock == at[Master] = "out" => Outstanding = {} /\ nTodo = 0 /\ fAllOk

(* nTodo is the number of checks that are queued or in some batch, and      *)
(* nIdle and nTotal are the threads that wait and the threads in Loop:      *)
(* the clean-up at the start of Loop counts each batch exactly once.        *)
CountersExact ==
    /\ nTodo = Cardinality(Outstanding)
    /\ pool = "running" =>
        /\ nIdle = Cardinality({t \in Thread : at[t] \in {"waiting", "woken"}})
        /\ nTotal = Cardinality({t \in Thread : /\ at[t] \in InLoop
                                               /\ ~(at[t] = "enter" /\ held[t] = {})})

(* "Test that checks are not called more than once": no check is handed to  *)
(* two threads or called twice.                                             *)
CalledOnce == [][\A t \in Thread : Execute(t) => held[t] \cap ran = {}]_vars

(* No notification is lost: when the master waits, some worker still has    *)
(* checks to report, and will tell it.                                      *)
MasterWillBeWoken ==
    at[Master] = "waiting" => \E t \in Worker : held[t] # {} /\ at[t] \in {"work", "enter"}

(* What the threads leave in the shared counters for each other and for the *)
(* next block is right at every moment, however they interleave in Loop.    *)
BookkeepingExact == TypeOK /\ CleanForNextBlock /\ CountersExact /\ MasterWillBeWoken

(* Wait always returns. *)
WaitReturns == (at[Master] = "enter") ~> (at[Master] = "returned")

(* StopWorkerThreads always returns. *)
StopReturns == requestStop ~> pool = "stopped"
=============================================================================
