SPECIFICATION FairSpec
CONSTANTS
    NumRequests = 1
    MaxSentences = 1
    SentenceCapacity = 1
    AudioCapacity = 1
    Interrupters = {i1}
    MaxInterrupts = 1
    Stopper = stopper
PROPERTIES
    InterruptNeverStrands
CHECK_DEADLOCK FALSE
