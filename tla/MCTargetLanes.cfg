SPECIFICATION FairSpec
CONSTANTS
    Targets = {t1}
    Callers = {c1, c2, c3, c4}
    Lanes = {l1, l2}
    NoTarget = NoTarget
    NoLane = NoLane
INVARIANTS WriteExclusive QueueHasOwner
PROPERTIES EventuallyServed
