CONSTANTS
    MaxKey = 9
    r1 = r1
    r2 = r2
    NoRecord = NoRecord
    Keys <- MCKeys
    Records = {r1}
    records_per_node = 3
    MaxBlocks = 12
    AllocationMayFail = FALSE
    MappingMayFail = FALSE
SPECIFICATION Spec
INVARIANTS
    Ordered
    UniformDepth
PROPERTIES
    ImplementsDictionary
