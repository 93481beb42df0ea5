\* Two files and the walker alone: pages of every length, interruptions, failed
\* requests, failed sends and crashes while the library changes.
SPECIFICATION Spec
CONSTANTS
    f = f
    g = g
    h1 = h1
    h2 = h2
    r1 = r1
    r2 = r2
    None = None
    Items = {f, g}
    Hashes = {h1, h2}
    Procs = {}
    Slots = {1, 2}
    Unsupported = {}
    Poison = {}
    MaxSeq = 4
    Faults = {"graph", "walkcrash", "send"}
    MaxFaults = 1
    Operations = {}
    MaxOps = 0
SYMMETRY Symmetry
INVARIANTS
    NoChangeSkipped
PROPERTIES
    ImplementsCursor
    PipelineSpec
