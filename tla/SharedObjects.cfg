CONSTANTS
    Threads = {t1, t2}
    Callers = {t1, t2}
    NoThread = NoThread
    Nodes <- MCNodes
    Keys = {1}
    MapValues = {1, 2}
    Addresses = {a1, a2, a3}
    Sizes = {1, 2}
    NoBlock = NoBlock
    BlocksIn32 = 4
    LargestFile = 6
    Users = {t1, t2, t3}
    References = {r1, r2, r3}
    Nobody = Nobody
SPECIFICATION MCSpec
SYMMETRY MCSymmetry
INVARIANTS
    IteratorsStayValid
    RightHandProtected
    EveryBlockListed
    BlocksStayApart
    LivesWhileReferenced
PROPERTIES
    ImplementsAtomicContainers
