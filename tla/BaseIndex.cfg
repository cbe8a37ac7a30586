CONSTANTS
    g = g
    a1 = a1
    a2 = a2
    b2 = b2
    Block = {g, a1, a2, b2}
    Genesis = g
    NoBlock = NoBlock
    Parent <- MCParent
    Height <- MCHeight
    Work <- MCWork
    StartTips = {NoBlock, a2}
    MaxPending = 2
    Failing = {"block", "commit", "rewind", "syncblock"}
    InterruptAt = {"fresh", "loop", "commit", "write", "lastcommit", "done", "failed"}
    CrashAt = {"fresh", "loop", "commit", "write", "lastcommit", "done", "failed"}
SPECIFICATION FairSpec
INVARIANTS IndexSound CaughtUpWhenDrained
PROPERTIES CatchesUp 
