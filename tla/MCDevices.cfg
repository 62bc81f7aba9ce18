SPECIFICATION DevicesSpec
CONSTANTS
    Threads = {t1, t2, t3}
    Values = {v1, v2}
    Capacity = 2
    NoCall = NoCall
    Pending = Pending
    NullOpt = NullOpt
    MaxWait = 2
    MaxRecordings = 3
    Periods = 1
    Readers = {r1, r2}
    Frames <- MCFrames
    ByteBits = 1
    MaxEdges = 16
    MaxHumidity = 1000
    MaxTemperature = 1100
    NoReader = NoReader
    NoFrame = NoFrame
INVARIANTS
    NoLostWakeup
    InterruptIsNoFault
    PartialOnlyAfterStop
    StopIsNoFault
    CacheIsLastGood
    DecodedIsSent
PROPERTIES
    CloseReleasesEveryone
    ImplementsAtomicQueue
    StopEndsRecording
    CancelEndsRecording
    StopEndsTransfer
    EveryReadReturns
CHECK_DEADLOCK FALSE
