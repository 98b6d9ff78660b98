SPECIFICATION Spec
CONSTANTS
    MaxDeployments = 2
    MaxChanges = 2
CHECK_DEADLOCK FALSE
INVARIANTS NothingIsLost OutcomeIsTrue Recoverable
