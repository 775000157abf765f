SPECIFICATION Spec
CONSTANTS
    m1 = m1
    m2 = m2
    m3 = m3
    clear1 = clear1
    switch1 = switch1
    old = old
    new = new
    Messages = {m1, m2}
    Clears = {}
    Switches = {}
    Instances = {old, new}
    InstanceOf <- Placement
    LockTTL = 2
    TurnCap = 10
    MaxSteps = 2
    MaxMessages = 5
    RedisFaults = TRUE
    TurnsFitLease = TRUE
    DefaultProvider = DefaultProvider
    NoSession = NoSession
    NoOwner = NoOwner
INVARIANTS SingleFlight AnswerStored AnsweredTurnsPaired
PROPERTIES FencedWrites 
