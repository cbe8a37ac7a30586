SPECIFICATION FairSpec
CONSTANTS
    Caller = {"c1"}
    Block = {"low", "high"}
    Height <- MCHeight
    StartTip = "low"
    NoBlock = NoBlock
    StakingArg = TRUE
    Slot = 2
    Offsets = {1}
    StartTime = 1
    MaxTime = 2
    MaxMoves = 1
INVARIANTS
    TypeOK
    StoppedForGood
PROPERTIES
    OnePerSlot
    AbortHasCause
    CallReturns
    ShutdownEnds
