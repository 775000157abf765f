SPECIFICATION Spec
CONSTANTS
    a1 = a1
    a2 = a2
    a3 = a3
    a4 = a4
    a5 = a5
    near = near
    far = far
    Attempts = {a1, a2, a3, a4, a5}
    IPs = {near, far}
    IPOf <- Sources
    Burst = 2
    Window = 3
    ScanEvery = 4
    MaxDelay = 1
    MaxClock = 6
INVARIANTS TypeOK BurstBound
PROPERTIES RefusedOnlyWhenFull
