CONSTANTS
    MaxRecords = 17
    Arrays <- MCArrays
    Sought <- MCSought
    SIZE = 4
    W = 16
    Chars = {1, 2}
    Others <- MCOthers
    Counts = {0, 1, 3, 4, 5, 15}
SPECIFICATION Spec
INVARIANTS
    InBounds
    Correct
    
    ReadsAgree
PROPERTIES
    Terminates
