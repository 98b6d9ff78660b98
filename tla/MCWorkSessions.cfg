SPECIFICATION FairSpec
CONSTANTS
    Users = {u1, u2}
    Sessions = {s1, s2}
    Owners = {o1}
    Targets = {t1}
    IdleTimeout = 1
    MaxTime = 1
    None = None
INVARIANTS EndIsReportedRight
PROPERTIES NoEarlyExpiry SessionsSettle
