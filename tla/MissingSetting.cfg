\* The batch command without a classifier's credentials.
SPECIFICATION Spec
CONSTANTS
    Names <- MCNames
    Lower <- MCLower
    Unknown = "unknown"
    Inputs <- MCInputs
    Suffix <- MCSuffix
    OutputFile = 3
    MaxInputChars = 1
    NoProbability = NoProbability
    NaN = NaN
    ClassificationError = ClassificationError
    Lengths = {1, 2}
    Responses <- MCResponses
    MaxRuns = 1
INVARIANTS
    FailureIsAnExitCode
CHECK_DEADLOCK FALSE
