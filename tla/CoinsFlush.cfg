CONSTANTS
    g = g
    c1 = c1
    c2 = c2
    b1 = b1
    p = p
    q = q
    Block = {g, c1, c2, b1}
    Genesis = g
    NoBlock = NoBlock
    OutPoint = {p, q}
    Parent <- MCParent
    Height <- MCHeight
    Vtx <- MCVtx
    WriteMayFail = TRUE
    MaxFile = 1
SPECIFICATION Spec
INVARIANTS CoinsExact StoresFit
CONSTRAINT UpToFirstError
