\* The three programs from every environment that varies one section, the parser
\* over every short category file, and two batch runs, the second of which may
\* find the first one's output in its source.
SPECIFICATION Spec
CONSTANTS
    Names <- MCNames
    Lower <- MCLower
    Unknown = "unknown"
    Inputs <- MCInputs
    Suffix <- MCSuffix
    OutputFile = 3
    MaxInputChars = 1
    NoProbability = NoProbability
    NaN = NaN
    ClassificationError = ClassificationError
    Lengths = {1, 2}
    Responses <- MCResponses
    MaxRuns = 2
INVARIANTS
    ParseTypeOK
    ParserAgrees
    CategoriesAreSound
    StartedIsConfigured
    CredentialsAreGuaranteed
    RoutesAgree
    OldOutputIsKept
    OutputIsTheBatch
CHECK_DEADLOCK FALSE
