--------------------------- MODULE StakingProofs ---------------------------
(***************************************************************************)
(* Proofs about the stake miner for any number of callers, any block       *)
(* index, any slot and any bounds.                                         *)
(*                                                                         *)
(*  - Each block given to ProcessNewBlock has a later coinstake time than  *)
(*    those before it, by TimeInv: what is under way is later than what    *)
(*    was sent, nothing is later than nLastCoinStakeSearchTime, and that   *)
(*    is not ahead of an adjusted time that has never stepped back.        *)
(*  - No thread is left behind StopStaking, by StopInv: from the return of *)
(*    StopHTTPServer on nobody is left to start one.                       *)
(*  - Calls end the process only after an overlap or a cleared flag, by    *)
(*    QuietInv: while no two calls have overlapped, at most one is under   *)
(*    way, and outside the calls there is a thread only if fEnableStaking  *)
(*    is set or was cleared beside the thread.                             *)
(*  - The types, by these and PlaceInv: at most one caller waits for the   *)
(*    thread, and a thread exists exactly while the object is joinable.    *)
(***************************************************************************)
EXTENDS Staking, FiniteSetTheorems, TLAPS

USE ZenonT(10), SMTT(60)

TimeInv ==
    /\ clock \in StartTime .. MaxTime /\ offset \in Offsets \cup {0}
    /\ lastSearch \in Int /\ -1 <= lastSearch
    /\ \A t \in sent : t \in Int /\ lastSearch # -1 /\ t <= lastSearch
    /\ \A t \in before :
          t \in Int /\ t <= GetAdjustedTime /\ (lastSearch # -1 => t <= lastSearch)
    /\ stepped => before = {}
    /\ ~stepped => lastSearch <= GetAdjustedTime
    /\ miner \in {"nonce", "check", "submit"} =>
          /\ block.time \in Int /\ lastSearch # -1 /\ block.time <= lastSearch
          /\ \A t \in sent \cup before : t < block.time

CallPlace == {"idle", "run", "check", "set", "spawn", "clear", "off", "interrupt", "stop",
              "test", "enter", "join", "net", "server", "stopped"}

CallType == [at : CallPlace, of : {"none", "interrupt", "stop"}]

\* The main thread is past StopHTTPServer.
Stopping == call[Main].at \in {"stop", "stopped"} \/ call[Main].of = "stop"

StopInv ==
    /\ call \in [Threads -> CallType]
    /\ joinable \in BOOLEAN /\ (joinable <=> miner # "none")
    /\ \A c \in Threads :
          call[c].at \in {"test", "enter", "join"} => call[c].of # "none"
    /\ Stopping => ServerIdle
    /\ call[Main].at = "stopped" => ~joinable

\* What a caller inside a call relies on.
Relies(c) ==
    /\ call[c].at = "check" /\ fault = "none" => (joinable => enabled)
    /\ call[c].at \in {"set", "spawn"} /\ fault = "none" => ~joinable
    /\ call[c].at = "spawn" => enabled
    /\ call[c].at = "enter" => joinable
    /\ call[c].at # "join" => joiner = {}

Quiet ==
    /\ \A c, d \in Inside : c = d
    /\ Inside = {} => (fault = "none" => (joinable => enabled)) /\ joiner = {}
    /\ \A c \in Inside : Relies(c)

QuietInv == fault # "overlap" /\ ~dead => Quiet

(***************************************************************************)
(* Timestamps.                                                             *)
(***************************************************************************)

\* The adjusted time is a time.
LEMMA Adjusted ==
    ASSUME clock \in StartTime .. MaxTime, offset \in Offsets \cup {0}
    PROVE  GetAdjustedTime \in Nat /\ clock \in Int /\ offset \in Int
<1>1. StartTime \in Nat /\ MaxTime \in Nat
  BY SMTT(60), StakingAssumption
<1>2. clock \in Int /\ clock >= StartTime
  BY SMTT(60), <1>1
<1>3. offset \in Int /\ StartTime + offset >= 0
  BY SMTT(60), <1>1, StakingAssumption
<1> QED
  BY SMTT(60), <1>1, <1>2, <1>3 DEF GetAdjustedTime

\* Masking the low bits of a time never moves it forward (CreateNewBlock).
LEMMA MaskedTime ==
    ASSUME GetAdjustedTime \in Nat
    PROVE  SearchTime \in Int /\ SearchTime <= GetAdjustedTime
<1> DEFINE now == GetAdjustedTime
<1>1. Slot \in Nat \ {0}
  BY StakingAssumption
<1>2. now \in Nat /\ SearchTime = now - (now % Slot)
  BY DEF SearchTime
<1> HIDE DEF now
<1>3. now % Slot \in 0 .. (Slot - 1)
  BY SMTT(60), <1>1, <1>2
<1>4. SearchTime \in Int /\ SearchTime <= now
  BY SMTT(60), <1>1, <1>2, <1>3
<1> QED
  BY <1>4 DEF now

\* The initial state has sent nothing.
LEMMA TimeInit == Init => TimeInv
<1> SUFFICES ASSUME Init PROVE TimeInv
  OBVIOUS
<1>1. StartTime \in Nat /\ MaxTime \in Nat /\ StartTime <= MaxTime
  BY SMTT(60), StakingAssumption
<1>2. /\ clock = StartTime /\ offset = 0 /\ stepped = FALSE /\ before = {} /\ sent = {}
      /\ lastSearch = -1 /\ miner = "none"
  BY DEF Init
<1>3. clock \in StartTime .. MaxTime /\ offset \in Offsets \cup {0}
  BY SMTT(60), <1>1, <1>2
<1>4. GetAdjustedTime \in Nat
  BY <1>3, Adjusted
<1> QED
  BY SMTT(60), <1>2, <1>3, <1>4 DEF TimeInv

\* A new offset keeps what was sent behind the adjusted time, or steps back.
LEMMA NewOffset ==
    ASSUME TimeInv, NEW o \in Offsets \cup {0}, NEW times, SetOffset(o, times),
           clock' = clock,
           \A t \in times : t \in Int /\ (~stepped => t <= GetAdjustedTime)
    PROVE  /\ clock' \in StartTime .. MaxTime /\ offset' \in Offsets \cup {0}
           /\ stepped' => before' = {}
           /\ ~stepped' => ~stepped /\ before' = times /\ GetAdjustedTime <= GetAdjustedTime'
           /\ GetAdjustedTime \in Nat /\ GetAdjustedTime' \in Nat
           /\ \A t \in before' : t \in times /\ t <= GetAdjustedTime'
<1>1. clock \in StartTime .. MaxTime /\ offset \in Offsets \cup {0}
  BY DEF TimeInv
<1>2. clock' \in StartTime .. MaxTime /\ offset' \in Offsets \cup {0} /\ offset' = o
  BY <1>1 DEF SetOffset
<1>3. GetAdjustedTime \in Nat /\ clock \in Int /\ offset \in Int
  BY <1>1, Adjusted
<1>4. clock' + o \in Nat /\ o \in Int
  <2>1. StartTime \in Nat /\ MaxTime \in Nat /\ clock >= StartTime
    BY SMTT(60), <1>1, StakingAssumption
  <2>2. o \in Int /\ StartTime + o >= 0
    BY SMTT(60), <2>1, StakingAssumption
  <2> QED
    BY SMTT(60), <1>3, <2>1, <2>2
<1>5. GetAdjustedTime' = clock + o /\ GetAdjustedTime = clock + offset
  BY <1>2 DEF GetAdjustedTime
<1>6. stepped' => before' = {}
  BY DEF SetOffset
<1>7. ~stepped' => ~stepped /\ ~(o < offset) /\ before' = times
  BY DEF SetOffset
<1>8. ~stepped' => GetAdjustedTime <= GetAdjustedTime'
  BY SMTT(60), <1>3, <1>4, <1>5, <1>7
<1>9. \A t \in before' : t \in times /\ t <= GetAdjustedTime'
  BY SMTT(60), <1>3, <1>4, <1>5, <1>6, <1>7, <1>8
<1> QED
  BY <1>2, <1>3, <1>4, <1>5, <1>6, <1>7, <1>8, <1>9

\* Every step keeps the order of the timestamps.
LEMMA TimeNext == TimeInv /\ [Next]_vars => TimeInv'
<1> SUFFICES ASSUME TimeInv, [Next]_vars PROVE TimeInv'
  OBVIOUS
<1>0. GetAdjustedTime \in Nat
  BY Adjusted DEF TimeInv
<1>a. ASSUME UNCHANGED <<chainVars, lastSearch, sent>>,
             miner' \in {"nonce", "check", "submit"} =>
                /\ miner \in {"nonce", "check", "submit"}
                /\ block'.time = block.time
      PROVE  TimeInv'
  BY <1>a DEF TimeInv, chainVars, GetAdjustedTime
<1>1. CASE CreateNewBlock
  <2>1. SearchTime \in Int /\ SearchTime <= GetAdjustedTime
    BY <1>0, MaskedTime
  <2>2. UNCHANGED <<clock, offset, stepped, before, sent, GetAdjustedTime>>
    BY <1>1 DEF CreateNewBlock, MinerAt, MinerOnly, chainVars, GetAdjustedTime
  <2>3. CASE NewSlot
    <3>1. lastSearch # -1
      BY SMTT(60), <1>0, <2>1, <2>3 DEF NewSlot, SearchedUntil
    <3>2. SearchTime > lastSearch /\ lastSearch' = SearchTime
      BY <1>1, <2>3, <3>1 DEF NewSlot, SearchedUntil, CreateNewBlock
    <3>3. lastSearch' \in Int /\ -1 <= lastSearch' /\ lastSearch' # -1 /\ lastSearch <= lastSearch'
      BY SMTT(60), <2>1, <3>1, <3>2 DEF TimeInv
    <3>4. \A t \in sent \cup before : t \in Int /\ t <= lastSearch /\ t < SearchTime
      BY SMTT(60), <2>1, <3>1, <3>2 DEF TimeInv
    <3>5. miner' = "sleep" \/ block'.time = SearchTime
      BY SMTT(60), <1>1 DEF CreateNewBlock
    <3>6. \A t \in sent \cup before : t <= lastSearch'
      BY SMTT(60), <2>1, <3>2, <3>4
    <3>7. lastSearch' <= GetAdjustedTime'
      BY <2>1, <2>2, <3>2
    <3>8. block'.time = SearchTime => block'.time \in Int /\ block'.time <= lastSearch'
      BY SMTT(60), <2>1, <3>2
    <3> QED
      BY <2>2, <3>2, <3>3, <3>4, <3>5, <3>6, <3>7, <3>8 DEF TimeInv
  <2>4. CASE ~NewSlot
    <3>1. miner' = "sleep" /\ lastSearch' = SearchedUntil
      BY <1>1, <2>4 DEF CreateNewBlock
    <3>2. CASE lastSearch = -1
      BY SMTT(60), <1>0, <2>2, <3>1, <3>2 DEF SearchedUntil, TimeInv
    <3>3. CASE lastSearch # -1
      BY <2>2, <3>1, <3>3 DEF SearchedUntil, TimeInv
    <3> QED
      BY <3>2, <3>3
  <2> QED
    BY <2>3, <2>4
<1>2. CASE IncrementExtraNonce
  <2>1. UNCHANGED <<chainVars, lastSearch, sent>> /\ miner = "nonce"
    BY <1>2 DEF IncrementExtraNonce, MinerOnly
  <2>2. miner' \in {"nonce", "check", "submit"} => block'.time = block.time
    BY SMTT(60), <1>2 DEF IncrementExtraNonce
  <2> QED
    BY <1>a, <2>1, <2>2
<1>3. CASE ProcessNewBlock
  <2>1. /\ UNCHANGED <<clock, offset, stepped, before, lastSearch, GetAdjustedTime>>
        /\ sent' = sent \cup {block.time} /\ miner' = "sleep" /\ miner = "submit"
    BY <1>3 DEF ProcessNewBlock, MinerAt, MinerOnly, chainVars, GetAdjustedTime
  <2> QED
    BY <2>1 DEF TimeInv
<1>4. CASE Start \/ Loop \/ GiveUp \/ Ready \/ ReadTip \/ ProcessBlockFound \/ SleepFor
  <2>1. UNCHANGED <<chainVars, lastSearch, sent>>
    BY <1>4 DEF Start, Loop, GiveUp, Ready, ReadTip, ProcessBlockFound, SleepFor, MinerAt, MinerOnly
  <2>2. miner' \in {"nonce", "check", "submit"} => miner = "check" /\ block' = block
    BY <1>4 DEF Start, Loop, GiveUp, Ready, ReadTip, ProcessBlockFound, SleepFor, MinerAt
  <2> QED
    BY <1>a, <2>1, <2>2
<1>5. CASE Tick
  <2>1. /\ clock' = clock + 1 /\ clock < MaxTime
        /\ UNCHANGED <<offset, stepped, before, miner, block, lastSearch, sent>>
    BY <1>5 DEF Tick, minerVars
  <2>2. clock \in Int /\ offset \in Int /\ StartTime \in Int /\ MaxTime \in Int
    BY SMTT(60), Adjusted, StakingAssumption DEF TimeInv
  <2>3. clock' \in StartTime .. MaxTime /\ GetAdjustedTime' = GetAdjustedTime + 1
    BY SMTT(60), <2>1, <2>2 DEF TimeInv, GetAdjustedTime
  <2>4. /\ lastSearch <= GetAdjustedTime => lastSearch <= GetAdjustedTime'
        /\ \A t \in before : t <= GetAdjustedTime'
    BY SMTT(60), <1>0, <2>3 DEF TimeInv
  <2> QED
    BY <2>1, <2>3, <2>4 DEF TimeInv
<1>6. CASE SetTip \/ TipSet \/ RequestShutdown
  BY SMTT(60), <1>6 DEF SetTip, TipSet, RequestShutdown, TimeInv, minerVars, chainVars, GetAdjustedTime
<1>7. ASSUME NEW c \in Threads, Call(c) PROVE TimeInv'
  <2>1. UNCHANGED <<chainVars, block, lastSearch, sent>>
    BY <1>7 DEF Call, MinePoSCheck, MinePoSSet, MinePoSSpawn, MinePoSOff, InterruptStaking,
                StopStaking, TestJoinable, EnterJoin, JoinReturns, CallerAt, CallerOnly
  <2>2. miner' \in {miner, "start", "none"}
    BY <1>7 DEF Call, MinePoSCheck, MinePoSSet, MinePoSSpawn, MinePoSOff, InterruptStaking,
                StopStaking, TestJoinable, EnterJoin, JoinReturns
  <2> QED
    BY <1>a, <2>1, <2>2
<1>8. ASSUME NEW c \in Caller, StakingRPC(c) PROVE TimeInv'
  BY <1>8, <1>a DEF StakingRPC, CallerAt, CallerOnly
<1>9. CASE MainThread
  BY <1>9, <1>a DEF MainThread, Interrupt, InterruptNet, StopHTTPServer, CallerAt, CallerOnly,
              minerVars
<1>10. CASE Restart
  <2>1. /\ clock' = clock /\ SetOffset(0, before \cup sent)
        /\ lastSearch' = -1 /\ sent' = {} /\ miner' = "none"
    BY <1>10 DEF Restart, Process
  <2>2. \A t \in before \cup sent : t \in Int /\ (~stepped => t <= GetAdjustedTime)
    BY SMTT(60), <1>0 DEF TimeInv
  <2>3. /\ clock' \in StartTime .. MaxTime /\ offset' \in Offsets \cup {0}
        /\ stepped' => before' = {}
        /\ GetAdjustedTime' \in Nat
        /\ \A t \in before' : t \in before \cup sent /\ t <= GetAdjustedTime'
    BY <2>1, <2>2, NewOffset
  <2>4. lastSearch' \in Int /\ -1 <= lastSearch' /\ lastSearch' <= GetAdjustedTime'
    BY SMTT(60), <2>1, <2>3
  <2> QED
    BY <2>1, <2>2, <2>3, <2>4 DEF TimeInv
<1>11. CASE AddTimeData
  <2>1. PICK o \in Offsets \cup {0} : SetOffset(o, before)
    BY <1>11 DEF AddTimeData
  <2>2. UNCHANGED <<clock, miner, block, lastSearch, sent>>
    BY <1>11 DEF AddTimeData, minerVars
  <2>3. \A t \in before : t \in Int /\ (~stepped => t <= GetAdjustedTime)
    BY DEF TimeInv
  <2>4. /\ clock' \in StartTime .. MaxTime /\ offset' \in Offsets \cup {0}
        /\ stepped' => before' = {}
        /\ ~stepped' => ~stepped /\ before' = before /\ GetAdjustedTime <= GetAdjustedTime'
        /\ GetAdjustedTime \in Nat /\ GetAdjustedTime' \in Nat
        /\ \A t \in before' : t \in before /\ t <= GetAdjustedTime'
    BY <2>1, <2>2, <2>3, NewOffset
  <2>5. ~stepped' => lastSearch <= GetAdjustedTime'
    BY SMTT(60), <2>4 DEF TimeInv
  <2> QED
    BY <2>2, <2>4, <2>5 DEF TimeInv
<1>12. CASE UNCHANGED vars
  BY <1>12, <1>a DEF vars, minerVars
<1> QED
  BY <1>1, <1>2, <1>3, <1>4, <1>5, <1>6, <1>7, <1>8, <1>9, <1>10, <1>11, <1>12 DEF Next, Miner

\* A block given to ProcessNewBlock has a later coinstake time than all that this
\* process gave before, whatever the adjusted time does, and than those of earlier
\* processes while the adjusted time has never stepped back.
THEOREM SlotsSearchedOnce == Spec => OnePerSlot
<1>1. TimeInv /\ [Next]_vars
        => [ProcessNewBlock => \A t \in sent \cup before : t < block.time]_vars
  BY DEF TimeInv, ProcessNewBlock, MinerAt
<1> QED
  BY <1>1, TimeInit, TimeNext, PTL DEF Spec, OnePerSlot

(***************************************************************************)
(* The thread and its callers.                                             *)
(***************************************************************************)

\* What the node and the miner do beside the calls leaves the callers, the flag and
\* the thread object alone; the miner never becomes or stops being a thread by itself.
LEMMA Besides ==
    ASSUME \/ SetTip \/ TipSet \/ Tick \/ AddTimeData \/ Miner \/ Ready \/ RequestShutdown
           \/ UNCHANGED vars
    PROVE  /\ UNCHANGED <<call, joiner, fault, enabled, joinable>>
           /\ miner # "none" <=> miner' # "none"
           /\ ~dead' => ~dead
<1>1. CASE SetTip \/ TipSet \/ Tick \/ AddTimeData \/ RequestShutdown \/ UNCHANGED vars
  BY SMTT(60), <1>1 DEF SetTip, TipSet, Tick, AddTimeData, RequestShutdown, Alive, vars, callVars, minerVars
<1>2. CASE Miner \/ Ready
  <2>1. UNCHANGED <<call, joiner, fault, enabled, joinable>> /\ ~dead
    BY <1>2 DEF Miner, Start, Loop, GiveUp, Ready, ReadTip, CreateNewBlock,
                IncrementExtraNonce, ProcessBlockFound, ProcessNewBlock, SleepFor,
                MinerAt, MinerOnly, Alive, callVars
  <2>2. miner # "none" /\ miner' # "none"
    BY <1>2 DEF Miner, Start, Loop, GiveUp, Ready, ReadTip, CreateNewBlock,
                IncrementExtraNonce, ProcessBlockFound, ProcessNewBlock, SleepFor, MinerAt
  <2> QED
    BY <2>1, <2>2
<1> QED
  BY <1>1, <1>2

\* The places of the callers are records.
LEMMA Places ==
    \A p \in CallPlace : At(p) \in CallType /\ At(p).at = p /\ At(p).of = "none"
  BY DEF At, CallType

\* The record a process starts with.
LEMMA FirstPlaces ==
    ASSUME NEW f, NEW place \in FirstPlace, f = Started(place)
    PROVE  /\ f \in [Threads -> CallType]
           /\ \A c \in Threads : f[c].of = "none" /\ f[c].at \in {"idle", "check", "clear"}
           /\ \A c \in Threads : c # Main => f[c].at = "idle"
           /\ f[Main].at \in {"check", "clear"} /\ f[Main].of = "none"
<1>1. Main \in Threads /\ place \in {"check", "clear"}
  BY DEF Threads, FirstPlace
<1>a. f = [c \in Threads |-> At(IF c = Main THEN place ELSE "idle")]
  BY DEF Started
<1>2. \A c \in Threads : f[c] = At(IF c = Main THEN place ELSE "idle")
  BY <1>a
<1>3. \A c \in Threads :
        /\ f[c] \in CallType /\ f[c].of = "none"
        /\ f[c].at = (IF c = Main THEN place ELSE "idle")
  <2>1. place \in CallPlace /\ "idle" \in CallPlace
    BY <1>1 DEF CallPlace
  <2>2. \A p \in {place, "idle"} : At(p) \in CallType /\ At(p).at = p /\ At(p).of = "none"
    BY <2>1, Places
  <2>3. f[Main] = At(place) /\ \A c \in Threads : c # Main => f[c] = At("idle")
    BY <1>1, <1>2
  <2> QED
    BY <2>2, <2>3
<1>4. f \in [Threads -> CallType]
  <2>1. \A c \in Threads : At(IF c = Main THEN place ELSE "idle") \in CallType
    BY <1>2, <1>3
  <2> QED
    BY <1>a, <2>1
<1> QED
  BY <1>1, <1>3, <1>4

\* A process starts with no thread and nobody past StopHTTPServer.
LEMMA StopInit == Init => StopInv
<1> SUFFICES ASSUME Init PROVE StopInv
  OBVIOUS
<1>1. /\ call \in [Threads -> CallType]
      /\ \A c \in Threads : call[c].of = "none" /\ call[c].at \in {"idle", "check", "clear"}
      /\ call[Main].at \in {"check", "clear"} /\ call[Main].of = "none"
  BY FirstPlaces DEF Init
<1>2. joinable = FALSE /\ miner = "none"
  BY DEF Init
<1> QED
  BY <1>1, <1>2 DEF StopInv, Stopping

\* A step of a caller keeps StopInv.
LEMMA StopCall ==
    ASSUME StopInv, NEW c \in Threads, Call(c)
    PROVE  StopInv'
<1>1. Main \in Threads /\ Main \notin Caller /\ \A d \in Caller : d \in Threads /\ d # Main
  BY StakingAssumption DEF Threads
<1>2. PICK where \in CallType : call' = [call EXCEPT ![c] = where]
  <2>1. Back(c) \in CallType /\ Joined(c) \in CallType
    BY DEF Back, Joined, At, CallType, CallPlace
  <2>2. call[c].of \in {"none", "interrupt", "stop"}
    BY DEF StopInv, CallType
  <2>3. /\ \A p \in {"set", "spawn", "interrupt"} : At(p) \in CallType
        /\ \A o \in {"interrupt", "stop"} : [at |-> "test", of |-> o] \in CallType
        /\ \A p \in {"enter", "join"} : [at |-> p, of |-> call[c].of] \in CallType
    BY <2>2 DEF At, CallType, CallPlace
  <2>4. CASE MinePoSCheck(c) \/ MinePoSSet(c) \/ MinePoSSpawn(c) \/ MinePoSOff(c)
    BY <2>1, <2>3, <2>4 DEF MinePoSCheck, MinePoSSet, MinePoSSpawn, MinePoSOff, Goto
  <2>5. CASE InterruptStaking(c) \/ StopStaking(c)
    BY <2>3, <2>5 DEF InterruptStaking, StopStaking, Goto
  <2>6. CASE TestJoinable(c) \/ EnterJoin(c) \/ JoinReturns(c)
    BY <2>1, <2>3, <2>6 DEF TestJoinable, EnterJoin, JoinReturns, Goto
  <2> QED
    BY <2>4, <2>5, <2>6 DEF Call
<1>3. /\ call' \in [Threads -> CallType]
      /\ \A d \in Threads : d # c => call'[d] = call[d]
      /\ call'[c] = where
  BY <1>2 DEF StopInv
<1>4. call[c].at # "idle" /\ call[c].at # "stopped"
  BY DEF Call, MinePoSCheck, MinePoSSet, MinePoSSpawn, MinePoSOff, InterruptStaking,
         StopStaking, TestJoinable, EnterJoin, JoinReturns, CallerAt
<1>5. (joinable \in BOOLEAN /\ (joinable <=> miner # "none"))'
  <2>1. \/ UNCHANGED <<joinable, miner>>
        \/ joinable' = TRUE /\ miner' = "start"
        \/ joinable' = FALSE /\ miner' = "none"
    <3>1. CASE MinePoSSpawn(c)
      BY <3>1 DEF MinePoSSpawn
    <3>2. CASE JoinReturns(c)
      BY <3>2 DEF JoinReturns, JoinReady
    <3>3. CASE ~MinePoSSpawn(c) /\ ~JoinReturns(c)
      BY <3>3 DEF Call, MinePoSCheck, MinePoSSet, MinePoSOff, InterruptStaking, StopStaking,
                  TestJoinable, EnterJoin
    <3> QED
      BY <3>1, <3>2, <3>3
  <2>2. joinable \in BOOLEAN /\ (joinable <=> miner # "none")
    BY DEF StopInv
  <2>3. CASE UNCHANGED <<joinable, miner>>
    BY <2>2, <2>3
  <2>4. CASE joinable' = TRUE /\ miner' = "start"
    BY <2>4
  <2>5. CASE joinable' = FALSE /\ miner' = "none"
    BY <2>5
  <2> QED
    BY <2>1, <2>3, <2>4, <2>5
<1>6. where.at \in {"test", "enter", "join"} => where.of # "none"
  BY SMTT(60), <1>3 DEF Call, MinePoSCheck, MinePoSSet, MinePoSSpawn, MinePoSOff, InterruptStaking,
         StopStaking, TestJoinable, EnterJoin, JoinReturns, Goto, At, Back, Joined,
         StopInv, CallerAt
<1>7. c = Main /\ Stopping' => Stopping
  BY SMTT(60), <1>3, <1>1 DEF Call, MinePoSCheck, MinePoSSet, MinePoSSpawn, MinePoSOff,
         InterruptStaking, StopStaking, TestJoinable, EnterJoin, JoinReturns, Goto, At,
         Back, Joined, StopInv, CallerAt, Stopping, CallType
<1>8. c # Main => c \in Caller /\ (Stopping' <=> Stopping)
  BY <1>3, <1>1 DEF Stopping, Threads
<1>9. c # Main => ~Stopping
  BY <1>8, <1>4 DEF StopInv, ServerIdle
<1>10. (Stopping => ServerIdle)'
  BY <1>1, <1>3, <1>7, <1>8, <1>9 DEF StopInv, ServerIdle
<1>11. (call[Main].at = "stopped" => ~joinable)'
  <2>1. CASE c = Main
    BY SMTT(60), <2>1, <1>3 DEF Call, MinePoSCheck, MinePoSSet, MinePoSSpawn, MinePoSOff,
         InterruptStaking, StopStaking, TestJoinable, EnterJoin, JoinReturns, Goto, At,
         Back, Joined, StopInv
  <2>2. CASE c # Main
    BY <2>2, <1>8, <1>9 DEF Stopping
  <2> QED
    BY <2>1, <2>2
<1> QED
  BY <1>3, <1>5, <1>6, <1>10, <1>11 DEF StopInv

\* Every step keeps StopInv.
LEMMA StopNext == StopInv /\ [Next]_vars => StopInv'
<1> SUFFICES ASSUME StopInv, [Next]_vars PROVE StopInv'
  OBVIOUS
<1>0. Main \in Threads /\ Main \notin Caller /\ \A d \in Caller : d \in Threads /\ d # Main
  BY StakingAssumption DEF Threads
<1>1. CASE \/ SetTip \/ TipSet \/ Tick \/ AddTimeData \/ Miner \/ Ready \/ RequestShutdown
           \/ UNCHANGED vars
  BY SMTT(60), <1>1, Besides DEF StopInv, Stopping, ServerIdle
<1>2. ASSUME NEW c \in Threads, Call(c) PROVE StopInv'
  BY <1>2, StopCall
<1>3. ASSUME NEW c \in Caller, StakingRPC(c) PROVE StopInv'
  <2>1. /\ call' \in [Threads -> CallType]
        /\ \A d \in Threads : d # c => call'[d] = call[d]
        /\ call'[c].at \in {"check", "clear", "off"}
    <3>1. PICK p \in {"check", "clear", "off"} : call' = [call EXCEPT ![c] = At(p)]
      BY <1>3 DEF StakingRPC, Goto
    <3>2. At(p) \in CallType /\ At(p).at = p
      BY Places DEF CallPlace
    <3> QED
      BY <1>0, <3>1, <3>2 DEF StopInv
  <2>2. ~Stopping /\ ~Stopping'
    BY <1>0, <1>3, <2>1 DEF StakingRPC, ServerRuns, Stopping
  <2>3. UNCHANGED <<joinable, miner>>
    BY <1>3 DEF StakingRPC
  <2> QED
    BY <2>1, <2>2, <2>3 DEF StopInv, Stopping
<1>4. CASE MainThread
  <2>1. /\ call' \in [Threads -> CallType]
        /\ \A d \in Threads : d # Main => call'[d] = call[d]
        /\ call'[Main].at \in {"interrupt", "server", "stop"} /\ call'[Main].of = "none"
        /\ UNCHANGED <<joinable, miner>>
    <3>1. PICK p \in {"interrupt", "server", "stop"} : call' = [call EXCEPT ![Main] = At(p)]
      BY <1>4 DEF MainThread, Interrupt, InterruptNet, StopHTTPServer, Goto
    <3>2. At(p) \in CallType /\ At(p).at = p /\ At(p).of = "none"
      BY Places DEF CallPlace
    <3>3. UNCHANGED <<joinable, miner>>
      BY <1>4 DEF MainThread, Interrupt, InterruptNet, StopHTTPServer, minerVars
    <3> QED
      BY <1>0, <3>1, <3>2, <3>3 DEF StopInv
  <2>2. call'[Main].at = "stop" => ServerIdle
    BY SMTT(60), <1>0, <1>4, <2>1 DEF MainThread, Interrupt, InterruptNet, StopHTTPServer, Goto, At, StopInv
  <2>3. (Stopping => ServerIdle)'
    BY SMTT(60), <1>0, <2>1, <2>2 DEF Stopping, ServerIdle
  <2> QED
    BY <2>1, <2>3 DEF StopInv
<1>5. CASE Restart
  <2>1. /\ call' \in [Threads -> CallType]
        /\ \A c \in Threads :
              call'[c].of = "none" /\ call'[c].at \in {"idle", "check", "clear"}
        /\ call'[Main].at \in {"check", "clear"} /\ call'[Main].of = "none"
    BY <1>5, FirstPlaces DEF Restart, Process
  <2>2. joinable' = FALSE /\ miner' = "none"
    BY <1>5 DEF Restart, Process
  <2> QED
    BY <2>1, <2>2 DEF StopInv, Stopping
<1> QED
  BY <1>1, <1>2, <1>3, <1>4, <1>5 DEF Next

\* When Shutdown() goes on to free what the thread uses, there is no thread.
THEOREM StopLeavesNoThread == Spec => []StoppedForGood
<1>1. StopInv => StoppedForGood
  BY DEF StopInv, StoppedForGood
<1> QED
  BY <1>1, StopInit, StopNext, PTL DEF Spec

(***************************************************************************)
(* Calls that do not overlap.                                              *)
(***************************************************************************)

\* A caller that takes a step is inside its call, in a living process.
LEMMA CallerInside ==
    ASSUME NEW c \in Threads, Call(c)
    PROVE  c \in Inside /\ ~dead /\ fault' \in {fault, "cleared", "none"}
           /\ (fault = "overlap" => fault' = "overlap")
  BY DEF Call, MinePoSCheck, MinePoSSet, MinePoSSpawn, MinePoSOff, InterruptStaking,
         StopStaking, TestJoinable, EnterJoin, JoinReturns, CallerAt, Inside, Alive

\* What the only caller relies on keeps it from ending the process.
LEMMA QuietCallLives ==
    ASSUME NEW c \in Threads, Relies(c), fault = "none", Call(c)
    PROVE  ~dead'
<1>1. CASE MinePoSSpawn(c)
  <2>1. ~joinable
    BY <1>1 DEF MinePoSSpawn, CallerAt, Relies
  <2> QED
    BY <1>1, <2>1 DEF MinePoSSpawn, CallerAt, Alive
<1>2. CASE EnterJoin(c)
  <2>1. joinable /\ joiner = {}
    BY <1>2 DEF EnterJoin, CallerAt, Relies
  <2> QED
    BY <1>2, <2>1 DEF EnterJoin, CallerAt, Alive
<1>3. CASE ~MinePoSSpawn(c) /\ ~EnterJoin(c)
  BY <1>3 DEF Call, MinePoSCheck, MinePoSSet, MinePoSOff, InterruptStaking, StopStaking,
              TestJoinable, JoinReturns, CallerAt, Alive
<1> QED
  BY <1>1, <1>2, <1>3

\* The step of the only caller leaves behind what the next caller relies on.
LEMMA QuietCall ==
    ASSUME StopInv, Quiet, NEW c \in Threads, Call(c)
    PROVE  Quiet'
<1> DEFINE Out == {"idle", "run", "net", "server", "stopped"}
<1>1. c \in Inside /\ Inside \subseteq {c} /\ Relies(c)
  BY CallerInside DEF Quiet
<1>2. /\ \A d \in Threads : d # c => call'[d] = call[d]
      /\ c \in DOMAIN call
  BY DEF Call, MinePoSCheck, MinePoSSet, MinePoSSpawn, MinePoSOff, InterruptStaking,
         StopStaking, TestJoinable, EnterJoin, JoinReturns, Goto, StopInv
<1>3. Inside' \subseteq {c} /\ (c \in Inside' <=> call'[c].at \notin Out)
  BY <1>1, <1>2 DEF Inside
<1>4. /\ call'[c].at \in Out =>
            (fault' = "none" => (joinable' => enabled')) /\ joiner' = {}
      /\ call'[c].at \notin Out => Relies(c)'
  <2> HIDE DEF Out
  <2>0. /\ At("set").at = "set" /\ At("spawn").at = "spawn"
        /\ At("interrupt").at = "interrupt" /\ At("stop").at = "stop"
        /\ Back(c).at \in {"run", "idle"}
    BY DEF At, Back
  <2>1. CASE MinePoSCheck(c) /\ UNCHANGED fault
    <3>1. call'[c] = IF enabled THEN Back(c) ELSE At("set")
      BY <1>2, <2>1 DEF MinePoSCheck, Goto
    <3>2. /\ joinable' = joinable /\ enabled' = enabled /\ joiner' = joiner
          /\ (fault = "none" => (joinable => enabled)) /\ joiner = {}
      BY <1>1, <2>1 DEF MinePoSCheck, CallerAt, Relies
    <3> QED
      BY <2>0, <2>1, <3>1, <3>2 DEF Out, Relies
  <2>2. CASE MinePoSSet(c) /\ UNCHANGED fault
    <3>1. call'[c] = At("spawn") /\ enabled' = TRUE
      BY <1>2, <2>2 DEF MinePoSSet, Goto
    <3>2. joinable' = joinable /\ (fault = "none" => ~joinable) /\ joiner' = {}
      BY <1>1, <2>2 DEF MinePoSSet, CallerAt, Relies
    <3> QED
      BY <2>0, <2>2, <3>1, <3>2 DEF Out, Relies
  <2>3. CASE MinePoSSpawn(c)
    <3>1. call'[c] = Back(c)
      BY <1>2, <2>3 DEF MinePoSSpawn, Goto
    <3>2. enabled' = enabled /\ enabled /\ joiner' = {}
      BY <1>1, <2>3 DEF MinePoSSpawn, CallerAt, Relies
    <3> QED
      BY <2>0, <3>1, <3>2 DEF Out
  <2>4. CASE MinePoSOff(c)
    <3>1. joinable' = joinable /\ joiner' = {}
      BY <1>1, <2>4 DEF MinePoSOff, CallerAt, Relies
    <3>2. CASE call'[c] = At("interrupt")
      BY <2>0, <3>1, <3>2 DEF Out, Relies
    <3>3. CASE call'[c] = Back(c) /\ fault' = IF fault = "none" /\ joinable THEN "cleared" ELSE fault
      BY <2>0, <3>1, <3>3 DEF Out, Relies
    <3> QED
      BY <1>2, <2>4, <3>2, <3>3 DEF MinePoSOff, Goto
  <2>5. CASE InterruptStaking(c)
    <3>1. call'[c] = [at |-> "test", of |-> "interrupt"]
      BY <1>2, <2>5 DEF InterruptStaking, Goto
    <3>2. joiner' = {}
      BY <1>1, <2>5 DEF InterruptStaking, CallerAt, Relies
    <3> QED
      BY SMTT(60), <3>1, <3>2 DEF Out, Relies
  <2>6. CASE StopStaking(c)
    <3>1. call'[c] = [at |-> "test", of |-> "stop"]
      BY <1>2, <2>6 DEF StopStaking, Goto
    <3>2. joiner' = {}
      BY <1>1, <2>6 DEF StopStaking, CallerAt, Relies
    <3> QED
      BY SMTT(60), <3>1, <3>2 DEF Out, Relies
  <2>7. ASSUME call'[c] = Joined(c), ~joinable', joiner' = {}
        PROVE  /\ call'[c].at \in Out =>
                     (fault' = "none" => (joinable' => enabled')) /\ joiner' = {}
               /\ call'[c].at \notin Out => Relies(c)'
    <3>1. call'[c].at \in {"net", "stop", "stopped", "idle"} /\ call'[c].of = "none"
      BY SMTT(60), <2>7 DEF Joined, At
    <3> QED
      BY <2>7, <3>1 DEF Out, Relies
  <2>8. CASE TestJoinable(c)
    <3>1. /\ call'[c] = IF joinable THEN [at |-> "enter", of |-> call[c].of] ELSE Joined(c)
          /\ joinable' = joinable
      BY <1>2, <2>8 DEF TestJoinable, Goto
    <3>2. joiner' = {}
      BY <1>1, <2>8 DEF TestJoinable, CallerAt, Relies
    <3>3. CASE joinable
      BY SMTT(60), <3>1, <3>2, <3>3 DEF Out, Relies
    <3>4. CASE ~joinable
      BY <2>7, <3>1, <3>2, <3>4
    <3> QED
      BY <3>3, <3>4
  <2>9. CASE EnterJoin(c)
    <3>1. joinable /\ joiner = {}
      BY <1>1, <2>9 DEF EnterJoin, CallerAt, Relies
    <3>2. call'[c] = [at |-> "join", of |-> call[c].of]
      BY <1>2, <2>9, <3>1 DEF EnterJoin, Goto
    <3> QED
      BY SMTT(60), <3>2 DEF Out, Relies
  <2>10. CASE JoinReturns(c)
    BY <1>2, <2>7, <2>10 DEF JoinReturns, Goto
  <2> QED
    BY <2>1, <2>2, <2>3, <2>4, <2>5, <2>6, <2>8, <2>9, <2>10 DEF Call
<1> QED
  BY <1>3, <1>4 DEF Quiet

\* A call that begins while none is under way finds what it relies on.
LEMMA QuietBegin ==
    ASSUME StopInv, Quiet, NEW c \in Threads, c \notin Inside, Inside \ {c} = {},
           NEW p \in {"check", "clear", "off", "interrupt", "stop"},
           call' = [call EXCEPT ![c] = At(p)],
           UNCHANGED <<joinable, enabled, joiner, fault>>
    PROVE  Quiet'
<1>1. Inside = {} /\ (fault = "none" => (joinable => enabled)) /\ joiner = {}
  BY DEF Quiet
<1>2. /\ \A d \in Threads : d # c => call'[d] = call[d]
      /\ call'[c].at = p
  BY Places DEF StopInv, CallPlace
<1>3. Inside' = {c}
  BY <1>1, <1>2 DEF Inside
<1>4. Relies(c)'
  BY <1>1, <1>2 DEF Relies
<1> QED
  BY <1>3, <1>4 DEF Quiet

\* A new process has one caller, the main thread, and no thread.
LEMMA QuietInit == Init => Quiet
<1> SUFFICES ASSUME Init PROVE Quiet
  OBVIOUS
<1>1. /\ \A c \in Threads : c # Main => call[c].at = "idle"
      /\ call[Main].at \in {"check", "clear"}
  BY FirstPlaces DEF Init
<1>2. ~joinable /\ joiner = {}
  BY DEF Init
<1>3. Inside = {Main}
  BY <1>1 DEF Inside, Threads
<1> QED
  BY <1>1, <1>2, <1>3 DEF Quiet, Relies

\* Every step keeps QuietInv.
LEMMA QuietNext == StopInv /\ QuietInv /\ [Next]_vars => QuietInv'
<1> SUFFICES ASSUME StopInv, QuietInv, [Next]_vars, fault' # "overlap", ~dead' PROVE Quiet'
  BY DEF QuietInv
<1>0. Main \in Threads /\ Main \notin Caller /\ \A d \in Caller : d \in Threads /\ d # Main
  BY StakingAssumption DEF Threads
<1>1. CASE \/ SetTip \/ TipSet \/ Tick \/ AddTimeData \/ Miner \/ Ready \/ RequestShutdown
           \/ UNCHANGED vars
  <2>1. UNCHANGED <<call, joiner, fault, enabled, joinable>> /\ ~dead
    BY <1>1, Besides
  <2>2. Quiet
    BY <2>1 DEF QuietInv
  <2> QED
    BY <2>1, <2>2 DEF Quiet, Inside, Relies
<1>2. ASSUME NEW c \in Threads, Call(c) PROVE Quiet'
  BY <1>2, CallerInside, QuietCall DEF QuietInv
<1>3. ASSUME NEW c \in Caller, StakingRPC(c) PROVE Quiet'
  <2>1. PICK p \in {"check", "clear", "off"} : call' = [call EXCEPT ![c] = At(p)]
    BY <1>3 DEF StakingRPC, Goto
  <2>2. /\ fault # "overlap" /\ fault' = fault /\ ~dead
        /\ Inside \ {c} = {} /\ c \notin Inside
    BY <1>3 DEF StakingRPC, Begin, CallerAt, Alive, Inside
  <2>3. UNCHANGED <<joinable, enabled, joiner>>
    BY <1>3 DEF StakingRPC
  <2> QED
    BY <1>0, <2>1, <2>2, <2>3, QuietBegin DEF QuietInv
<1>4. CASE Interrupt \/ StopHTTPServer
  <2>1. PICK p \in {"interrupt", "stop"} : call' = [call EXCEPT ![Main] = At(p)]
    BY <1>4 DEF Interrupt, StopHTTPServer, Goto
  <2>2. /\ fault # "overlap" /\ fault' = fault /\ ~dead
        /\ Inside \ {Main} = {} /\ Main \notin Inside
    BY <1>4 DEF Interrupt, StopHTTPServer, Begin, CallerAt, Alive, Inside
  <2>3. UNCHANGED <<joinable, enabled, joiner>>
    BY <1>4 DEF Interrupt, StopHTTPServer
  <2> QED
    BY <1>0, <2>1, <2>2, <2>3, QuietBegin DEF QuietInv
<1>5. CASE InterruptNet
  <2>1. /\ call' = [call EXCEPT ![Main] = At("server")] /\ call[Main].at = "net" /\ ~dead
        /\ UNCHANGED <<joiner, fault, enabled, joinable>>
    BY <1>5 DEF InterruptNet, Goto, Alive
  <2>2. /\ \A d \in Threads : d # Main => call'[d] = call[d]
        /\ call'[Main].at = "server"
    BY <1>0, <2>1, Places DEF StopInv, CallPlace
  <2>3. Inside' = Inside /\ Main \notin Inside
    BY <2>1, <2>2 DEF Inside
  <2>4. Quiet
    BY <2>1 DEF QuietInv
  <2>5. \A d \in Inside : call'[d] = call[d]
    BY <2>2, <2>3 DEF Inside
  <2> QED
    BY <2>1, <2>3, <2>4, <2>5 DEF Quiet, Relies
<1>6. CASE Restart
  <2>1. /\ \A c \in Threads : c # Main => call'[c].at = "idle"
        /\ call'[Main].at \in {"check", "clear"}
    BY <1>6, FirstPlaces DEF Restart, Process
  <2>2. ~joinable' /\ joiner' = {}
    BY <1>6 DEF Restart, Process
  <2>3. Inside' = {Main}
    BY <2>1 DEF Inside, Threads
  <2> QED
    BY <2>1, <2>2, <2>3 DEF Quiet, Relies
<1> QED
  BY <1>1, <1>2, <1>3, <1>4, <1>5, <1>6 DEF Next, MainThread

\* MinePoS, InterruptStaking and StopStaking end the process only after two calls
\* have overlapped or a staking(true) has cleared the flag beside the thread.
THEOREM SeparateCallsLive == Spec => AbortHasCause
<1>1. QuietInv /\ [Next]_vars
        => [\A c \in Threads : ~dead /\ dead' /\ Call(c) => fault # "none"]_vars
  <2> SUFFICES ASSUME QuietInv, NEW c \in Threads, ~dead, Call(c), fault = "none"
               PROVE  ~dead'
    OBVIOUS
  <2>1. Relies(c)
    BY CallerInside DEF QuietInv, Quiet
  <2> QED
    BY <2>1, QuietCallLives
<1>2. Init => QuietInv
  BY QuietInit DEF QuietInv
<1> QED
  BY <1>1, <1>2, QuietNext, StopInit, StopNext, PTL DEF Spec, AbortHasCause

(***************************************************************************)
(* Types.                                                                  *)
(***************************************************************************)

\* The parts of TypeOK that are inductive by themselves.
PlaceInv ==
    /\ tip \in Block /\ moves \in 0 .. MaxMoves
    /\ fault \in {"none", "cleared", "overlap"} /\ stepped \in BOOLEAN
    /\ miner \in Place /\ prev \in Block \cup {NoBlock}
    /\ joiner = {} \/ \E c \in Threads : joiner = {c}
    /\ writing \in BOOLEAN /\ enabled \in BOOLEAN /\ net \in BOOLEAN
    /\ shutdown \in BOOLEAN /\ dead \in BOOLEAN

\* A process starts with no thread and nobody in join().
LEMMA PlaceInit == Init => PlaceInv
<1> SUFFICES ASSUME Init PROVE PlaceInv
  OBVIOUS
<1>1. moves \in 0 .. MaxMoves
  BY StakingAssumption, SMTT(30) DEF Init
<1>2. tip \in Block /\ miner \in Place /\ prev \in Block \cup {NoBlock} /\ joiner = {}
  BY StakingAssumption DEF Init, Place
<1>3. /\ writing \in BOOLEAN /\ enabled \in BOOLEAN /\ net \in BOOLEAN
      /\ fault \in {"none", "cleared", "overlap"} /\ stepped \in BOOLEAN
      /\ shutdown \in BOOLEAN /\ dead \in BOOLEAN
  BY DEF Init
<1> QED
  BY <1>1, <1>2, <1>3 DEF PlaceInv

\* Every step keeps PlaceInv.
LEMMA PlaceNext == PlaceInv /\ [Next]_vars => PlaceInv'
<1> SUFFICES ASSUME PlaceInv, [Next]_vars PROVE PlaceInv'
  OBVIOUS
<1>1. CASE SetTip \/ TipSet \/ Tick \/ AddTimeData
  <2>1. UNCHANGED <<miner, prev, joiner, enabled, net, fault, shutdown, dead>>
    BY <1>1 DEF SetTip, TipSet, Tick, AddTimeData, minerVars, callVars
  <2>2. tip' \in Block /\ writing' \in BOOLEAN /\ stepped' \in BOOLEAN
    BY <1>1 DEF SetTip, TipSet, Tick, AddTimeData, SetOffset, PlaceInv
  <2>3. moves' \in 0 .. MaxMoves
    BY <1>1, StakingAssumption, SMTT(30) DEF SetTip, TipSet, Tick, AddTimeData, PlaceInv
  <2> QED
    BY <2>1, <2>2, <2>3 DEF PlaceInv
<1>2. CASE Miner \/ Ready
  <2>1. UNCHANGED <<tip, writing, moves, stepped, joiner, fault, enabled, net, shutdown>>
    BY <1>2 DEF Miner, Start, Loop, GiveUp, Ready, ReadTip, CreateNewBlock, IncrementExtraNonce,
                ProcessBlockFound, ProcessNewBlock, SleepFor, MinerAt, MinerOnly, chainVars, callVars
  <2>2. dead' \in {dead, TRUE}
    BY <1>2 DEF Miner, Start, Loop, GiveUp, Ready, ReadTip, CreateNewBlock, IncrementExtraNonce,
                ProcessBlockFound, ProcessNewBlock, SleepFor, MinerAt
  <2>3. prev' \in {prev, tip, NoBlock}
    BY <1>2 DEF Miner, Start, Loop, GiveUp, Ready, ReadTip, CreateNewBlock, IncrementExtraNonce,
                ProcessBlockFound, ProcessNewBlock, SleepFor
  <2>4. miner' \in Place
    BY <1>2 DEF Miner, Start, Loop, GiveUp, Ready, ReadTip, CreateNewBlock, IncrementExtraNonce,
                ProcessBlockFound, ProcessNewBlock, SleepFor, PlaceInv, Place
  <2> QED
    BY <2>1, <2>2, <2>3, <2>4 DEF PlaceInv
<1>3. ASSUME NEW c \in Threads, Call(c) PROVE PlaceInv'
  <2>1. UNCHANGED <<tip, writing, moves, stepped, prev, net, shutdown>>
    BY <1>3 DEF Call, MinePoSCheck, MinePoSSet, MinePoSSpawn, MinePoSOff, InterruptStaking, StopStaking,
                TestJoinable, EnterJoin, JoinReturns, CallerAt, CallerOnly, chainVars
  <2>2. miner' \in {miner, "start", "none"} /\ joiner' \in {joiner, {}, {c}}
    BY <1>3 DEF Call, MinePoSCheck, MinePoSSet, MinePoSSpawn, MinePoSOff, InterruptStaking, StopStaking,
                TestJoinable, EnterJoin, JoinReturns
  <2>3. enabled' \in {enabled, TRUE, FALSE} /\ dead' \in {dead, TRUE, FALSE}
    BY <1>3 DEF Call, MinePoSCheck, MinePoSSet, MinePoSSpawn, MinePoSOff, InterruptStaking, StopStaking,
                TestJoinable, EnterJoin, JoinReturns
  <2>4. miner' \in Place /\ (joiner' = {} \/ \E d \in Threads : joiner' = {d})
    BY <2>2 DEF PlaceInv, Place
  <2>5. enabled' \in BOOLEAN /\ dead' \in BOOLEAN
    BY <2>3 DEF PlaceInv
  <2>6. fault' \in {"none", "cleared", "overlap"}
    BY <1>3, CallerInside DEF PlaceInv
  <2> QED
    BY <2>1, <2>4, <2>5, <2>6 DEF PlaceInv
<1>4. CASE MainThread \/ \E c \in Caller : StakingRPC(c)
  <2>1. UNCHANGED <<tip, writing, moves, stepped, miner, prev, joiner, enabled, shutdown, dead>>
    BY <1>4 DEF MainThread, Interrupt, InterruptNet, StopHTTPServer, StakingRPC, CallerAt, CallerOnly,
                chainVars, minerVars
  <2>2. net' \in {net, TRUE} /\ fault' \in {fault, "overlap"}
    BY <1>4 DEF MainThread, Interrupt, InterruptNet, StopHTTPServer, StakingRPC, CallerAt, CallerOnly,
                Begin, PlaceInv
  <2> QED
    BY <2>1, <2>2 DEF PlaceInv
<1>5. CASE RequestShutdown
  BY <1>5 DEF RequestShutdown, chainVars, minerVars, callVars, PlaceInv
<1>6. CASE Restart
  <2>1. /\ UNCHANGED <<tip, moves>> /\ miner' \in Place /\ prev' = NoBlock /\ joiner' = {}
    BY <1>6 DEF Restart, Process, Place
  <2>2. /\ writing' \in BOOLEAN /\ enabled' \in BOOLEAN /\ net' \in BOOLEAN
        /\ fault' \in {"none", "cleared", "overlap"} /\ stepped' \in BOOLEAN
        /\ shutdown' \in BOOLEAN /\ dead' \in BOOLEAN
    BY <1>6 DEF Restart, Process, SetOffset, PlaceInv
  <2> QED
    BY <2>1, <2>2 DEF PlaceInv
<1>7. CASE UNCHANGED vars
  BY <1>7 DEF vars, chainVars, minerVars, callVars, PlaceInv
<1> QED
  BY <1>1, <1>2, <1>3, <1>4, <1>5, <1>6, <1>7 DEF Next

\* The stake miner and its callers keep their types: at most one caller waits for the
\* thread, and there is a thread exactly while threadStakeMiner is joinable.
THEOREM StakingTypes == Spec => []TypeOK
<1>1. PlaceInv /\ TimeInv /\ StopInv => TypeOK
  <2> SUFFICES ASSUME PlaceInv, TimeInv, StopInv PROVE TypeOK
    OBVIOUS
  <2>1. lastSearch \in Int /\ lastSearch >= -1
    BY SMTT(30) DEF TimeInv
  <2>2. joiner \subseteq Threads /\ Cardinality(joiner) <= 1
    <3>1. CASE joiner = {}
      BY SMTT(60), <3>1, FS_EmptySet
    <3>2. ASSUME NEW c \in Threads, joiner = {c} PROVE joiner \subseteq Threads /\ Cardinality(joiner) <= 1
      <4>1. Cardinality({c}) = 1
        BY FS_Singleton
      <4> QED
        BY SMTT(60), <3>2, <4>1
    <3> QED
      BY <3>1, <3>2 DEF PlaceInv
  <2> QED
    BY <2>1, <2>2 DEF PlaceInv, TimeInv, StopInv, TypeOK
<1> QED
  BY <1>1, PlaceInit, PlaceNext, TimeInit, TimeNext, StopInit, StopNext, PTL DEF Spec
=============================================================================
