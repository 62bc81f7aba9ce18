SPECIFICATION FairSpec
CONSTANT MaxTurns = 3
INVARIANTS TurnsAreJoined TurnsAreAccounted StopIsHeeded
PROPERTY RunReturns
CHECK_DEADLOCK FALSE
