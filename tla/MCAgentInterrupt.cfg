SPECIFICATION Spec
CONSTANTS
    MaxSteps = 2
    Timeout = 2
    MaxRequests = 4
INVARIANT InterruptCancels
CHECK_DEADLOCK FALSE
