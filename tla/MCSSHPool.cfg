SPECIFICATION Spec
CONSTANTS
    Users = {u1, u2}
    Admins = {a1, a2}
    Targets = {t1}
    Configs = {c1, c2}
    Specs = {s1, s2}
    Entries = {e1, e2, e3}
    NoEntry = NoEntry
    Nobody = Nobody
    MaxRevision = 2
    MaxGeneration = 2
SYMMETRY MCSymmetry
CHECK_DEADLOCK FALSE
INVARIANTS CommandIsCurrent SuspendedIsQuiet NoLeakedConnection NoLostWakeUp
