CONSTANT MaxCount = 12
SPECIFICATION FairSpec
INVARIANTS
    AddAgrees
    DeleteAgrees
    FindAgrees
PROPERTY CallsReturn
