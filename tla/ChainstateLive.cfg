CONSTANTS
    g = g
    a1 = a1
    a2 = a2
    b1 = b1
    b2 = b2
    b3 = b3
    c2 = c2
    Genesis = g
    NoBlock = NoBlock
    Block = {g, a1, b1, b2}
    Parent <- MCParent
    Height <- MCHeight
    ChainWork <- MCWork
    Time <- MCHeight
    Layouts <- OneLayout
    BadBlock = {}
    BadConnect = {b1}
    MaxReorganizationDepth = 10
    CoinbaseMaturity = 10
    MinSequenceId <- SmallMinSequenceId
    Operator = {"preciousblock"}
    DiskMayFail = FALSE
SPECIFICATION FairSpec
INVARIANT TypeOK
PROPERTIES BestBlockActivated ActivateEnds
