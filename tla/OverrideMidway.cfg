\* A person labels a file while a replica classifies it.
SPECIFICATION Spec
CONSTANTS
    f = f
    g = g
    h1 = h1
    h2 = h2
    r1 = r1
    r2 = r2
    None = None
    Items = {f}
    Hashes = {h1, h2}
    Procs = {r1}
    Slots = {1, 2}
    Unsupported = {}
    Poison = {}
    MaxSeq = 1
    Faults = {}
    MaxFaults = 0
    Operations = {"override"}
    MaxOps = 1
PROPERTIES
    DeletedWhenSettled
