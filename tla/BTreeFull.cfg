CONSTANTS
    MaxKey = 9
    FewKeys = 7
    FewBlocks = 8
    r1 = r1
    r2 = r2
    NoRecord = NoRecord
    Keys <- MCKeys
    Records = {r1}
    records_per_node = 3
    MaxBlocks = 12
    AllocationMayFail = TRUE
    MappingMayFail = TRUE
SPECIFICATION Spec
CONSTRAINTS
    MCConstraint
INVARIANTS
    WellFormed
PROPERTIES
    LossOnlyInSplits
