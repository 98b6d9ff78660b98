SPECIFICATION FairSpec
CONSTANTS
    Callers = {c1}
    Controls = {k1, k2}
    Chans = {h1, h2}
    MaxVaults = 2
    NoChan = NoChan
    Nobody = Nobody
CHECK_DEADLOCK FALSE
INVARIANTS LockedHasNoSSH UnlockedIsUsable
PROPERTIES ControlReturns
