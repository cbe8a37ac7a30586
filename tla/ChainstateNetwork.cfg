CONSTANTS
    g = g
    a1 = a1
    a2 = a2
    b1 = b1
    b2 = b2
    b3 = b3
    c2 = c2
    Genesis = g
    NoBlock = NoBlock
    Block = {g, a1, a2, b1, b2, b3, c2}
    Parent <- MCParent
    Height <- MCHeight
    ChainWork <- MCWork
    Time <- MCHeight
    Layouts <- OneLayout
    BadBlock = {c2}
    BadConnect = {b2}
    MaxReorganizationDepth = 2
    CoinbaseMaturity = 2
    MinSequenceId <- MCMinSequenceId
    Operator = {}
    DiskMayFail = FALSE
SPECIFICATION Spec
INVARIANTS CandidatesExact IndexLinked NoInnocentFailed TipIsBest
PROPERTIES ForwardProgress
