SPECIFICATION FairSpec
CONSTANT MaxTurns = 3
PROPERTY SpeechIsNotCut
CHECK_DEADLOCK FALSE
