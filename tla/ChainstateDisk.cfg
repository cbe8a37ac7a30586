CONSTANTS
    g = g
    a1 = a1
    a2 = a2
    b1 = b1
    b2 = b2
    b3 = b3
    c2 = c2
    Genesis = g
    NoBlock = NoBlock
    Block = {g, b1, b2, c2}
    Parent <- MCParent
    Height <- MCHeight
    ChainWork <- MCWork
    Time <- MCHeight
    Layouts <- OneLayout
    BadBlock = {}
    BadConnect = {b2}
    MaxReorganizationDepth = 10
    CoinbaseMaturity = 10
    MinSequenceId <- MCMinSequenceId
    Operator = {"invalidateblock", "reconsiderblock"}
    DiskMayFail = TRUE
SPECIFICATION Spec
INVARIANT FailedBlocksFlagged
PROPERTY CompleteAfterRestart
CHECK_DEADLOCK FALSE
