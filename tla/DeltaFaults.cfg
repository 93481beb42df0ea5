\* One file, two replicas: attempts and commits that fail, replicas that die,
\* and a person who labels the row or resets it at any moment.
SPECIFICATION Spec
CONSTANTS
    f = f
    g = g
    h1 = h1
    h2 = h2
    r1 = r1
    r2 = r2
    None = None
    Items = {f}
    Hashes = {h1, h2}
    Procs = {r1, r2}
    Slots = {1, 2, 3}
    Unsupported = {}
    Poison = {}
    MaxSeq = 2
    Faults = {"graph", "commit", "crash"}
    MaxFaults = 2
    Operations = {"override", "reset"}
    MaxOps = 1
SYMMETRY Symmetry
INVARIANTS
    TypeOK
    MessageHasRow
    InFlightHasWork
    FailedHasMessage
    SettledIsAudited
    CompletedIsLabelled
PROPERTIES
    OverrideStands
