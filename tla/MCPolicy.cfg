SPECIFICATION Spec
CONSTANTS
    SSHRequests <- MCSSHRequests
    SQLRequests <- MCSQLRequests
CHECK_DEADLOCK FALSE
INVARIANTS KnownIsTrue ChainIsStopped SQLVerdictHolds
