SPECIFICATION Spec
CONSTANT MaxTurns = 3
INVARIANT CancelsOnlyCurrent
CHECK_DEADLOCK FALSE
