SPECIFICATION Spec
CONSTANTS
    Parts <- ThreeCalls
    Caps = {1, 2}
    BufCap = 2
    Styles = {"indexed", "unindexed", "nameless"}
INVARIANTS TypeOK   MessageFaithful ResultsInCallOrder
 
CHECK_DEADLOCK FALSE
