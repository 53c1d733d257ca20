CONSTANTS
    w1 = w1
    w2 = w2
    p1 = p1
    p2 = p2
    NoThread = NoThread
    Workers <- MCWorkers
    Producers <- MCProducers
    SemMax = 2
    MaxCalls = 2
SPECIFICATION Spec
INVARIANTS
    Accounting
    WokenFindsItem
PROPERTIES
    ImplementsWorkQueue
    ItemsServed
    WorkersReleased
