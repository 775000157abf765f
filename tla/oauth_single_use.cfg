SPECIFICATION Spec
CONSTANTS
    call1 = call1
    call2 = call2
    callback1 = callback1
    callback2 = callback2
    Calls = {call1, call2}
    Callbacks = {callback1}
    MaxPairs = 3
INVARIANT NeverAskedAgain
SYMMETRY Symmetry
