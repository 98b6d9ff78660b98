SPECIFICATION FairSpec
CONSTANTS
    Owners = {o1}
    Requests = {r1, r2}
    Maintainers = {m1, m2}
    MaxSessions = 2
CHECK_DEADLOCK FALSE
PROPERTIES MaintenanceIsExclusive ClearSparesOthers IdleExitIsIdle DeadOwnerIsCleared
