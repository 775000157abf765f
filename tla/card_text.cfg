SPECIFICATION Spec
CONSTANTS
    MaxLen = 12
    Soft = 4
    Chunk = 3
    MaxJSON = 10
    Marker = 1
    Others <- LittleOrMuch
    PerElement = 2
    MaxTries = 3
INVARIANTS TypeOK ThreadContinuesCard  CutsAtLines
CHECK_DEADLOCK FALSE
