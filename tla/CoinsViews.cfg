CONSTANTS
    Outpoint = {o1, o2}
    Coin = {c1, c2}
    Spent = Spent
    Hash = {h1, h2}
    NullHash = NullHash
SPECIFICATION Spec
SYMMETRY Symmetry
INVARIANT EntriesRight
PROPERTY ImplementsCoinsMap
