CONSTANTS
    q1 = q1
    o1 = o1
    Questions = {q1}
    Requests = {q1, o1}
    MaxChunks = 1
    NoReq = NoReq
SPECIFICATION FairSpec
INVARIANT CancelIsAimed
INVARIANT NeverBusy
PROPERTY ImplementsAnswerStream
PROPERTY ShutdownCompletes
CHECK_DEADLOCK FALSE
