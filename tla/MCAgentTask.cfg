SPECIFICATION TaskSpec
CONSTANTS
    MaxSteps = 2
    Timeout = 2
    MaxRequests = 3
    Phrases <- MCPhrases
INVARIANTS
    WritesAreConfirmed
    DroppedIsNeverExecuted
    EmergencyClears
    PromptHasAction
    AnswerIsTrue
CHECK_DEADLOCK FALSE
