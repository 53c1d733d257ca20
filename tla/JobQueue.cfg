CONSTANTS
    g1 = g1
    g2 = g2
    a1 = a1
    a2 = a2
    NoOwner = NoOwner
    Getters <- MCGetters
    Adders <- MCAdders
    SemMax = 2
    MaxCalls = 2
SPECIFICATION QueueSpec
INVARIANTS
    Accounting
    FrontDefined
PROPERTIES
    ImplementsWorkQueue
    JobsServed
