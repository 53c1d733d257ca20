CONSTANTS
    c1 = c1
    c2 = c2
    r1 = r1
    r2 = r2
    w1 = w1
    w2 = w2
    Cookies <- MCCookies
    Raisers <- MCRaisers
    Waiters <- MCWaiters
    MaxRegistrations = 2
SPECIFICATION EventSpec
INVARIANTS
    HeldIsRegistered
    RevocableUnlessOrphaned
PROPERTIES
    RaiseReachesListeners
    WaitersLetOut
