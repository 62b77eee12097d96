SPECIFICATION EvaluationSpec
CONSTANTS
    Items <- MCItems
    MaxItems = 3
    Values <- MCValues
    MaxObservables = 2
    MaxSource = 100
    MaxName = 2
    MaxImport = 2
    MinTokens = 1
    MaxTokens = 2
    Full = 10
    BinWidth = 2
    BinCount = 5
    Threshold = 8
    MinCases = 4
    MaxCases = 5
    MinClassCases = 1
    MinPrecision = 9
    MinRecall = 8
    MaxBrier = 15
    BrierUnit = 1
    MaxEce = 1
    Confidences = {0, 7, 8, 10}
    Texts = {t1, t2}
    NumCases = 2
    FullScore = 1
    ModelAnswers = {0, 1, 2}
    ServerPrompt = "p"
    PinnedPrompt = "p"
    Digests = {d1, d2}
    MaxEdits = 2
    Bytes = {0, 1, 2, 3}
    Printable = {1, 2, 3}
    Magics <- MCMagics
    Patterns <- MCPatterns
    Walk <- MCWalk
    MaxPayload = 3
    MaxText = 2
    MaxSegments = 2
    NumRecipes = 2
    MinExpected = 1
    RawSegments <- MCRawSegments
    Versions = {v1, v2}
SYMMETRY Symmetric
INVARIANTS ScanIsRight ReportIsConsistent EvidenceFits QualityIsBound
