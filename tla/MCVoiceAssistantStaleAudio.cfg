SPECIFICATION Spec
CONSTANTS
    NumRequests = 1
    MaxSentences = 1
    SentenceCapacity = 1
    AudioCapacity = 1
    Interrupters = {i1}
    MaxInterrupts = 1
    Stopper = stopper
INVARIANTS
    OutputStopsFirst
CHECK_DEADLOCK FALSE
