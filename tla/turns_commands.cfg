SPECIFICATION Spec
CONSTANTS
    m1 = m1
    m2 = m2
    m3 = m3
    clear1 = clear1
    switch1 = switch1
    old = old
    new = new
    Messages = {m1, m2}
    Clears = {clear1}
    Switches = {switch1}
    Instances = {old}
    InstanceOf <- Placement
    LockTTL = 1
    TurnCap = 2
    MaxSteps = 1
    MaxMessages = 3
    RedisFaults = FALSE
    TurnsFitLease = FALSE
    DefaultProvider = DefaultProvider
    NoSession = NoSession
    NoOwner = NoOwner
INVARIANT NoRowSkipped
