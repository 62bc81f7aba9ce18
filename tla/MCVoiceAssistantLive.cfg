SPECIFICATION FairSpec
CONSTANTS
    NumRequests = 1
    MaxSentences = 2
    SentenceCapacity = 1
    AudioCapacity = 1
    Interrupters = {i1}
    MaxInterrupts = 1
    Stopper = stopper
INVARIANTS
    SpokenInOrder
    AtMostOneStale
PROPERTIES
    ProcessTextReturns
    StopReturns
CHECK_DEADLOCK FALSE
