SPECIFICATION FairSpec
CONSTANTS
    Callers = {c1, c2}
    QueueSize = 1
    MaxBytes = 1
    Archives = 2
    Earlier = 2
    MaxEvents = 5
    MaxCrashes = 1
CHECK_DEADLOCK FALSE
INVARIANTS AckedIsKept ClosedIsFinal
PROPERTIES CallsReturn
