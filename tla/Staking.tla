------------------------------ MODULE Staking ------------------------------
(***************************************************************************)
(* The proof-of-stake miner: the thread PoSMiner of miner.cpp, the calls   *)
(* that start and stop it (MinePoS at the end of AppInitMain and in the    *)
(* staking RPC, InterruptStaking, StopStaking), the shutdown of the node   *)
(* and an active chain that moves meanwhile.                               *)
(*                                                                         *)
(* The thread object threadStakeMiner and the flag fEnableStaking are      *)
(* shared by all callers; no lock protects the pair.  Whether a coin of    *)
(* the wallet is a kernel, whether the wallet is locked or has no private  *)
(* keys, which transactions fill a block and whether the node is in sync   *)
(* are left open.                                                          *)
(***************************************************************************)
EXTENDS Integers, FiniteSets

CONSTANTS
    Caller,         \* RPC worker threads
    Block,          \* the block index
    Height,         \* nHeight
    StartTip,       \* the tip at the start
    NoBlock,        \* nullptr
    StakingArg,     \* -staking
    Slot,           \* nStakeTimestampMask + 1, in units of the clock
    Offsets,        \* what nTimeOffset may become
    StartTime,      \* the clock at the start
    MaxTime,        \* bound on the clock
    MaxMoves        \* bound on the changes of the tip

Main == "main"

ASSUME StakingAssumption ==
    /\ Height \in [Block -> Nat] /\ NoBlock \notin Block /\ StartTip \in Block
    /\ StakingArg \in BOOLEAN
    /\ Slot \in Nat \ {0} /\ MaxTime \in Nat /\ MaxMoves \in Nat
    /\ StartTime \in 0 .. MaxTime
    /\ Offsets \subseteq Int /\ \A o \in Offsets : StartTime + o >= 0
    /\ Main \notin Caller

VARIABLES
    tip,        \* m_chain.Tip()
    writing,    \* a thread with cs_main is inside CChain::SetTip
    moves,      \* how often the tip has changed
    clock,      \* GetTime()
    offset,     \* nTimeOffset
    stepped,    \* history: the adjusted time has stepped back, now or earlier
    lastSearch, \* nLastCoinStakeSearchTime, -1 before its initialisation
    enabled,    \* fEnableStaking
    joinable,   \* threadStakeMiner.joinable()
    miner,      \* where the thread is
    prev,       \* its pindexPrev
    block,      \* its block template
    net,        \* connman->interruptNet
    call,       \* where each caller is
    joiner,     \* the callers inside threadStakeMiner.join()
    fault,      \* history: "overlap" when two calls have overlapped in this process,
                \* "cleared" when a staking(true) has cleared the flag beside the thread
    shutdown,   \* ShutdownRequested()
    dead,       \* the process was ended by std::terminate or a bad access
    sent,       \* history: the coinstake times of the blocks this process gave to
                \* ProcessNewBlock
    before      \* history: those of the processes before it, as long as the adjusted
                \* time has not stepped back

chainVars == <<tip, writing, moves, clock, offset, stepped, before>>
minerVars == <<miner, prev, block, lastSearch, sent>>
callVars == <<call, joiner, fault>>
vars == <<chainVars, minerVars, callVars, enabled, joinable, net, shutdown, dead>>

Threads == Caller \cup {Main}

\* Nothing runs in a process that has ended.
Alive == ~dead

(***************************************************************************)
(* The rest of the node.                                                   *)
(***************************************************************************)

\* CChain::SetTip grows the vector before it fills the new slot in.
SetTip ==
    /\ Alive /\ ~writing /\ moves < MaxMoves
    /\ writing' = TRUE
    /\ \E b \in Block \ {tip} : tip' = b
    /\ moves' = moves + 1
    /\ UNCHANGED <<clock, offset, stepped, before, minerVars, callVars, enabled,
                   joinable, net, shutdown, dead>>

TipSet ==
    /\ Alive /\ writing
    /\ writing' = FALSE
    /\ UNCHANGED <<tip, moves, clock, offset, stepped, before, minerVars, callVars, enabled,
                   joinable, net, shutdown, dead>>

GetAdjustedTime == clock + offset

Tick ==
    /\ Alive /\ clock < MaxTime
    /\ clock' = clock + 1
    /\ UNCHANGED <<tip, writing, moves, offset, stepped, before, minerVars, callVars,
                   enabled, joinable, net, shutdown, dead>>

\* A new offset, and what was sent before it by earlier processes.
SetOffset(o, times) ==
    /\ offset' = o
    /\ stepped' = (stepped \/ o < offset)
    /\ before' = IF stepped' THEN {} ELSE times

\* The median of what the peers say, or 0 when it is out of bounds.
AddTimeData ==
    /\ Alive
    /\ \E o \in (Offsets \cup {0}) \ {offset} : SetOffset(o, before)
    /\ UNCHANGED <<tip, writing, moves, clock, minerVars, callVars, enabled, joinable, net,
                   shutdown, dead>>

(***************************************************************************)
(* The thread.                                                             *)
(***************************************************************************)

MinerOnly == UNCHANGED <<chainVars, callVars, enabled, joinable, net, shutdown>>

MinerAt(place) ==
    /\ Alive /\ miner = place
    /\ MinerOnly /\ UNCHANGED dead

\* The keypool may have run out, and -staking=0 ends the thread at once.
Start ==
    /\ MinerAt("start")
    /\ miner' \in (IF StakingArg THEN {"loop", "ended"} ELSE {"ended"})
    /\ UNCHANGED <<prev, block, lastSearch, sent>>

\* The head of the loop, then the wallet and the network are looked at.
Loop ==
    /\ MinerAt("loop")
    /\ miner' \in (IF ~enabled \/ shutdown THEN {"ended"} ELSE {"wait", "read"})
    /\ UNCHANGED <<prev, block, lastSearch, sent>>

\* The mutant waits on for the wallet or the network while the node shuts down.
WaitEnds_Bug == net

WaitEnds == shutdown \/ ~enabled \/ net

\* The loops that wait for an unlocked wallet, for peers and for the sync: each turn
\* looks whether to give up, or finds after its pause that there is nothing left to
\* wait for.
GiveUp ==
    /\ MinerAt("wait")
    /\ WaitEnds
    /\ miner' = "ended"
    /\ UNCHANGED <<prev, block, lastSearch, sent>>

Ready ==
    /\ MinerAt("wait")
    /\ miner' = "read"
    /\ UNCHANGED <<prev, block, lastSearch, sent>>

\* pindexPrev = m_chain.Tip() without cs_main: a reader that meets SetTip may find
\* the empty slot.
ReadTip ==
    /\ MinerAt("read")
    /\ prev' \in (IF writing THEN {tip, NoBlock} ELSE {tip})
    /\ miner' = "create"
    /\ UNCHANGED <<block, lastSearch, sent>>

SearchTime == GetAdjustedTime - (GetAdjustedTime % Slot)

SearchedUntil == IF lastSearch = -1 THEN GetAdjustedTime ELSE lastSearch

\* The mutant searches the last slot again.
NewSlot_Bug == SearchTime >= SearchedUntil

NewSlot == SearchTime > SearchedUntil

\* CreateNewBlock with cs_wallet and cs_main: a slot is searched once, and what is
\* found is built on the tip of now.  The time kept is that of the coinstake; the
\* block's own, the latest of all its transactions, is left open.
CreateNewBlock ==
    /\ MinerAt("create")
    /\ ~writing
    /\ \/ /\ NewSlot
          /\ block' = [prev |-> tip, time |-> SearchTime]
          /\ miner' = "nonce" /\ UNCHANGED prev
       \/ miner' = "sleep" /\ prev' = NoBlock /\ block' = NoBlock
    /\ lastSearch' = IF NewSlot THEN SearchTime ELSE SearchedUntil
    /\ UNCHANGED sent

\* IncrementExtraNonce takes the height from pindexPrev; then SignBlock, which may
\* fail.
IncrementExtraNonce ==
    /\ Alive /\ miner = "nonce" /\ MinerOnly
    /\ IF prev = NoBlock
       THEN dead' = TRUE /\ UNCHANGED <<miner, prev, block>>
       ELSE /\ \/ /\ miner' = "check"
                  /\ block' = [prev |-> block.prev, time |-> block.time,
                               height |-> Height[prev] + 1]
               \/ miner' = "loop" /\ block' = NoBlock
            /\ prev' = NoBlock /\ UNCHANGED dead
    /\ UNCHANGED <<lastSearch, sent>>

\* ProcessBlockFound: the block must still extend the tip, and cs_main is given up.
ProcessBlockFound ==
    /\ MinerAt("check")
    /\ ~writing
    /\ \/ block.prev = tip /\ miner' = "submit" /\ UNCHANGED block
       \/ miner' = "sleep" /\ block' = NoBlock
    /\ UNCHANGED <<prev, lastSearch, sent>>

ProcessNewBlock ==
    /\ MinerAt("submit")
    /\ sent' = sent \cup {block.time}
    /\ miner' = "sleep" /\ block' = NoBlock
    /\ UNCHANGED <<prev, lastSearch>>

\* The pauses at the end of a turn.
SleepFor ==
    /\ MinerAt("sleep")
    /\ miner' = IF net THEN "ended" ELSE "loop"
    /\ UNCHANGED <<prev, block, lastSearch, sent>>

Miner ==
    Start \/ Loop \/ GiveUp \/ ReadTip \/ CreateNewBlock \/ IncrementExtraNonce
    \/ ProcessBlockFound \/ ProcessNewBlock \/ SleepFor

(***************************************************************************)
(* The callers.  call[c].of says in which of InterruptStaking and          *)
(* StopStaking a caller is on its way into join().                         *)
(***************************************************************************)

CallerOnly == UNCHANGED <<chainVars, prev, block, lastSearch, sent, net, shutdown>>

CallerAt(c, place) ==
    /\ Alive /\ call[c].at = place
    /\ CallerOnly

\* The callers inside MinePoS, InterruptStaking or StopStaking.
Inside == {c \in Threads :
             call[c].at \notin {"idle", "run", "net", "server", "stopped"}}

\* c begins a call.
Begin(c) ==
    fault' = IF Inside \ {c} # {} THEN "overlap" ELSE fault

At(place) == [at |-> place, of |-> "none"]

Goto(c, where) == call' = [call EXCEPT ![c] = where]

\* Where a caller is when MinePoS returns.
Back(c) == At(IF c = Main THEN "run" ELSE "idle")

\* The workers serve what is queued until StopHTTPServer has joined them.
ServerRuns ==
    /\ call[Main].at \notin {"stop", "stopped"}
    /\ call[Main].of # "stop"

\* The staking RPC: staking(true), on a first wallet with private keys ("check") or
\* without ("clear"), and staking(false).
StakingRPC(c) ==
    /\ CallerAt(c, "idle")
    /\ ServerRuns
    /\ \E place \in {"check", "clear", "off"} : Goto(c, At(place))
    /\ Begin(c)
    /\ UNCHANGED <<joiner, enabled, joinable, miner, dead>>

\* The mutant does not ask whether there is a thread already.
MinePoSCheck_Bug(c) ==
    /\ CallerAt(c, "check")
    /\ Goto(c, At("set"))
    /\ UNCHANGED <<joiner, enabled, joinable, miner, dead>>

\* MinePoS(true): the test of the flag, the flag, and the thread.
MinePoSCheck(c) ==
    /\ CallerAt(c, "check")
    /\ Goto(c, IF enabled THEN Back(c) ELSE At("set"))
    /\ UNCHANGED <<joiner, enabled, joinable, miner, dead>>

MinePoSSet(c) ==
    /\ CallerAt(c, "set")
    /\ enabled' = TRUE
    /\ Goto(c, At("spawn"))
    /\ UNCHANGED <<joiner, joinable, miner, dead>>

\* Assigning to a std::thread that is joinable calls std::terminate.
MinePoSSpawn(c) ==
    /\ CallerAt(c, "spawn")
    /\ IF joinable
       THEN dead' = TRUE /\ UNCHANGED <<joinable, miner>>
       ELSE joinable' = TRUE /\ miner' = "start" /\ UNCHANGED dead
    /\ Goto(c, Back(c))
    /\ UNCHANGED <<joiner, enabled>>

\* MinePoS(false), and MinePoS(true) on a wallet without private keys: only
\* staking(false) goes on to InterruptStaking.
MinePoSOff(c) ==
    /\ \/ CallerAt(c, "off") /\ Goto(c, At("interrupt")) /\ UNCHANGED fault
       \/ /\ CallerAt(c, "clear") /\ Goto(c, Back(c))
          /\ fault' = IF fault = "none" /\ joinable THEN "cleared" ELSE fault
    /\ enabled' = FALSE
    /\ UNCHANGED <<joiner, joinable, miner, dead>>

InterruptStaking(c) ==
    /\ CallerAt(c, "interrupt")
    /\ enabled' = FALSE
    /\ Goto(c, [at |-> "test", of |-> "interrupt"])
    /\ UNCHANGED <<joiner, joinable, miner, dead>>

StopStaking(c) ==
    /\ CallerAt(c, "stop")
    /\ Goto(c, [at |-> "test", of |-> "stop"])
    /\ UNCHANGED <<joiner, enabled, joinable, miner, dead>>

\* Where a caller is when InterruptStaking or StopStaking returns.
Joined(c) ==
    At(IF call[c].of = "interrupt" THEN (IF c = Main THEN "net" ELSE "stop")
                                   ELSE (IF c = Main THEN "stopped" ELSE "idle"))

TestJoinable(c) ==
    /\ CallerAt(c, "test")
    /\ Goto(c, IF joinable THEN [at |-> "enter", of |-> call[c].of] ELSE Joined(c))
    /\ UNCHANGED <<joiner, enabled, joinable, miner, dead>>

\* join() throws when there is no thread any more or another caller waits for it;
\* the RPC server answers with the error, the main thread ends the process.
EnterJoin(c) ==
    /\ CallerAt(c, "enter")
    /\ IF joinable /\ joiner = {}
       THEN /\ joiner' = {c}
            /\ Goto(c, [at |-> "join", of |-> call[c].of])
            /\ UNCHANGED dead
       ELSE /\ dead' = (c = Main)
            /\ Goto(c, Back(c))
            /\ UNCHANGED joiner
    /\ UNCHANGED <<enabled, joinable, miner>>

\* The mutant does not wait for the thread.
JoinReady_Bug == TRUE

JoinReady == miner = "ended"

JoinReturns(c) ==
    /\ CallerAt(c, "join")
    /\ JoinReady
    /\ joinable' = FALSE
    /\ joiner' = {}
    /\ fault' = IF fault = "cleared" THEN "none" ELSE fault
    /\ miner' = IF miner = "ended" THEN "none" ELSE miner
    /\ Goto(c, Joined(c))
    /\ UNCHANGED <<enabled, dead>>

Call(c) ==
    \/ /\ \/ MinePoSCheck(c) \/ MinePoSSet(c) \/ MinePoSSpawn(c)
          \/ InterruptStaking(c) \/ StopStaking(c) \/ TestJoinable(c) \/ EnterJoin(c)
       /\ UNCHANGED fault
    \/ MinePoSOff(c) \/ JoinReturns(c)

(***************************************************************************)
(* The main thread after the start.                                        *)
(***************************************************************************)

RequestShutdown ==
    /\ Alive /\ ~shutdown
    /\ shutdown' = TRUE
    /\ UNCHANGED <<chainVars, minerVars, callVars, enabled, joinable, net, dead>>

\* WaitForShutdown returns and Interrupt() begins.
Interrupt ==
    /\ CallerAt(Main, "run")
    /\ shutdown
    /\ Goto(Main, At("interrupt"))
    /\ Begin(Main)
    /\ UNCHANGED <<joiner, enabled, joinable, miner, dead>>

InterruptNet ==
    /\ Alive /\ call[Main].at = "net"
    /\ net' = TRUE
    /\ Goto(Main, At("server"))
    /\ UNCHANGED <<chainVars, minerVars, joiner, fault, enabled, joinable, shutdown,
                   dead>>

\* The mutant goes on while calls are being served.
ServerIdle_Bug == TRUE

ServerIdle == \A c \in Caller : call[c].at = "idle"

\* StopHTTPServer waits for the workers.
StopHTTPServer ==
    /\ CallerAt(Main, "server")
    /\ ServerIdle
    /\ Goto(Main, At("stop"))
    /\ Begin(Main)
    /\ UNCHANGED <<joiner, enabled, joinable, miner, dead>>

MainThread == Interrupt \/ InterruptNet \/ StopHTTPServer

\* The last step of AppInitMain is MinePoS(-staking) on the first wallet.
FirstPlace == IF StakingArg THEN {"check", "clear"} ELSE {"clear"}

Started(place) == [c \in Threads |-> At(IF c = Main THEN place ELSE "idle")]

\* The state of a process that has just loaded its chain.
Process ==
    /\ lastSearch' = -1 /\ enabled' = FALSE /\ joinable' = FALSE
    /\ miner' = "none" /\ prev' = NoBlock /\ block' = NoBlock
    /\ net' = FALSE /\ shutdown' = FALSE /\ dead' = FALSE
    /\ \E place \in FirstPlace : call' = Started(place)
    /\ joiner' = {} /\ fault' = "none" /\ writing' = FALSE
    /\ sent' = {}

\* The process ends, in order or not, and is started again; nTimeOffset is lost.
Restart ==
    /\ Process
    /\ SetOffset(0, before \cup sent)
    /\ UNCHANGED <<tip, moves, clock>>

Init ==
    /\ tip = StartTip /\ moves = 0 /\ clock = StartTime /\ offset = 0 /\ stepped = FALSE /\ before = {}
    /\ lastSearch = -1 /\ enabled = FALSE /\ joinable = FALSE
    /\ miner = "none" /\ prev = NoBlock /\ block = NoBlock
    /\ net = FALSE /\ shutdown = FALSE /\ dead = FALSE
    /\ \E place \in FirstPlace : call = Started(place)
    /\ joiner = {} /\ fault = "none" /\ writing = FALSE
    /\ sent = {}

Next ==
    \/ SetTip \/ TipSet \/ Tick \/ AddTimeData
    \/ Miner \/ Ready
    \/ \E c \in Caller : StakingRPC(c)
    \/ \E c \in Threads : Call(c)
    \/ RequestShutdown \/ MainThread
    \/ Restart

Spec == Init /\ [][Next]_vars

\* Threads that can go on do; nobody has to call, unlock the wallet, connect to a
\* peer, move the tip or restart.  InterruptHTTPServer refuses new requests, so the
\* queue StopHTTPServer waits for runs dry (SF).
FairSpec ==
    /\ Spec
    /\ WF_vars(Miner) /\ WF_vars(TipSet) /\ WF_vars(MainThread)
    /\ SF_vars(StopHTTPServer)
    /\ \A c \in Threads : WF_vars(Call(c))

(***************************************************************************)
(* Properties.                                                             *)
(***************************************************************************)

Place == {"none", "start", "loop", "wait", "read", "create", "nonce", "check",
          "submit", "sleep", "ended"}

\* The variables hold the kinds of values the code gives them, and a thread exists
\* exactly as long as threadStakeMiner is joinable.
TypeOK ==
    /\ tip \in Block /\ moves \in 0 .. MaxMoves /\ clock \in StartTime .. MaxTime
    /\ offset \in Offsets \cup {0} /\ lastSearch \in Int /\ lastSearch >= -1
    /\ miner \in Place
    /\ joinable <=> miner # "none"
    /\ prev \in Block \cup {NoBlock}
    /\ joiner \subseteq Threads /\ Cardinality(joiner) <= 1
    /\ fault \in {"none", "cleared", "overlap"}
    /\ {writing, stepped, enabled, net, shutdown, dead} \subseteq BOOLEAN

\* Each block given to ProcessNewBlock has a later coinstake time than all that this
\* process gave before, though threads come and go and the adjusted time steps back: a
\* slot is searched for kernels once (nLastCoinStakeSearchTime).  It is also later
\* than those of earlier processes, for the search begins after the present, unless
\* the adjusted time was set back, as by the loss of nTimeOffset at a restart.
OnePerSlot ==
    [][ProcessNewBlock =>
          \A t \in sent \cup before : t < block.time]_vars

\* When Shutdown() goes on to free what the thread uses (StopStaking has returned),
\* no thread is left, though an RPC call may have started one after Interrupt() had
\* waited for the last.
StoppedForGood ==
    call[Main].at = "stopped" /\ ~dead => miner = "none" /\ ~joinable

\* The process dies in MinePoS, InterruptStaking or StopStaking only after two calls
\* have overlapped, or when a staking(true) on a wallet without private keys has
\* cleared the flag and left its thread to the next staking(true).
AbortHasCause ==
    [][\A c \in Threads :
          ~dead /\ dead' /\ Call(c) => fault # "none"]_vars

\* staking(false) returns, and so does every other call, unless calls overlap: a
\* MinePoS(true) that sets the flag again after staking(false) has cleared it makes
\* the latter wait for a thread that goes on.
CallReturns ==
    \A c \in Caller : (call[c].at # "idle") ~> (call[c].at = "idle" \/ dead \/ fault = "overlap")

\* A requested shutdown gets past StopStaking, whatever the miner is waiting for.
ShutdownEnds == shutdown ~> (call[Main].at = "stopped" \/ dead \/ ~shutdown)

\* Every block given to ProcessNewBlock carries the height of its place in the chain
\* in its coinbase: "Height first in coinbase required for block.version=2".
CoinbaseHeightRight ==
    [][ProcessNewBlock => block.height = Height[block.prev] + 1]_vars
=============================================================================
