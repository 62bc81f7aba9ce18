SPECIFICATION Spec
CONSTANTS
    NumRequests = 2
    MaxSentences = 1
    SentenceCapacity = 1
    AudioCapacity = 1
    Interrupters = {i1}
    MaxInterrupts = 2
    Stopper = stopper
INVARIANTS
    ControlOK
    WaitIsCovered
    LeftoversAreFailed
    OkMeansAllSpoken
CHECK_DEADLOCK FALSE
