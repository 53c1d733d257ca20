CONSTANTS
    t1 = t1
    t2 = t2
    t3 = t3
    t4 = t4
    NoThread = NoThread
    Threads <- MCThreads
    threshold = 4
    AtomicSignalAndWait = TRUE
    MaxRounds = 3
SPECIFICATION BarrierSpec
INVARIANTS
    Together
PROPERTIES
    ImplementsBarrier
    LetOutEventually
