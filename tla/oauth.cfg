SPECIFICATION Spec
CONSTANTS
    call1 = call1
    call2 = call2
    callback1 = callback1
    callback2 = callback2
    Calls = {call1}
    Callbacks = {callback1, callback2}
    MaxPairs = 4
INVARIANTS TypeOK  StoredIsCurrent NotifiedUserHasCredential
PROPERTIES NeverOlder
SYMMETRY Symmetry
