SPECIFICATION Spec
CONSTANTS
    MaxLen = 12
    Soft = 4
    Chunk = 3
    MaxJSON = 10
    Marker = 1
    Others <- Little
    PerElement = 2
    MaxTries = 3
INVARIANT RetriesOnce
CHECK_DEADLOCK FALSE
