CONSTANTS
    MaxKey = 7
    r1 = r1
    r2 = r2
    NoRecord = NoRecord
    Keys <- MCKeys
    Records = {r1}
    records_per_node = 3
    MaxBlocks = 8
    AllocationMayFail = TRUE
    MappingMayFail = FALSE
SPECIFICATION Spec
INVARIANTS
    FindSeesWhatInsertSees
