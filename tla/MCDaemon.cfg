SPECIFICATION FairSpec
CONSTANTS
    Calls = {c1, c2}
    MaxDaemons = 2
    MaxExits = 1
    None = None
CHECK_DEADLOCK FALSE
INVARIANTS ServingIsReachable StopIsHonest CapabilityLife
PROPERTIES CallsReturn
