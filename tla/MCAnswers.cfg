SPECIFICATION Spec
CONSTANTS
    Queries = {q1, q2}
    Questions <- MCQuestions
    MaxParts = 2
    NoQuery = NoQuery
    Texts = {"a", "reworded", "other", "longer"}
    Ids <- MCIds
    MaxEdits = 2
    MaxLoads = 2
    MaxBuilds = 2
    Chunks = {1, 2, 3}
    SparseScores = {0, 1, 2}
    DenseScores = {0, 1, 2}
    MinimumSimilarity = 1
    MinimumSparse = 2
    MinimumDense = 2
    Settings <- MCSettings
    RrfK = 1
    Scale = 12
    Bytes = {"a", " ", "!", "x", "y"}
    Space = {" "}
    Delimiters <- MCDelimiters
    MaxText = 5
INVARIANTS
    OnlyAskedAreCancelled
    EmergencyIsGuarded
    LoadedBelongsTogether
    BetterComesFirst
    CuttingDoesNotMatter
PROPERTIES
    ImplementsAnswerStream
    NotRefused
CHECK_DEADLOCK FALSE
