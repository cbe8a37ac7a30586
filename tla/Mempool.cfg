SPECIFICATION Spec
CONSTANTS
    Tx <- MCTx
    Outpoint <- MCOutpoint
    Ins <- MCIns
    Outs <- MCOuts
    Kind <- MCKind
    LockHeight <- MCLockHeight
    Blocks <- MCBlocks
    Maturity = 2
    V3_1 <- MCV3_1
    MaxHeight = 3
    MaxPool = 4
    MaxQueue = 3
    MaxAncestors = 4
    MaxDescendants = 3
INVARIANTS
    PoolInOrder
    InputsAvailable
    LinksExact
    CountsMatchLinks
