SPECIFICATION FairSpec
CONSTANTS
    m1 = m1
    m2 = m2
    m3 = m3
    clear1 = clear1
    switch1 = switch1
    old = old
    new = new
    Messages = {m1, m2}
    Clears = {}
    Switches = {}
    Instances = {old, new}
    InstanceOf <- Placement
    LockTTL = 1
    TurnCap = 2
    MaxSteps = 1
    MaxMessages = 1
    RedisFaults = TRUE
    TurnsFitLease = FALSE
    DefaultProvider = DefaultProvider
    NoSession = NoSession
    NoOwner = NoOwner
INVARIANTS TypeOK LeaseExclusive NoOrphanedLock
PROPERTIES TurnEnds LockFreed
