CONSTANTS
    c1 = c1
    c2 = c2
    Calls <- TwoCalls
    BufCap = 2
    MaxDeltas = 2
    MaxSteps = 2
    CtxMayEnd = TRUE
    PatchResults <- AnyPatch
SPECIFICATION FairSpec
INVARIANTS TypeOK CleanMeansShown FinalCardComplete
PROPERTIES CardNeverGoesBack ReturnsWhileLive
CHECK_DEADLOCK FALSE
