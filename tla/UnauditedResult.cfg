\* A replica dies between the result and its audit row.
SPECIFICATION Spec
CONSTANTS
    f = f
    g = g
    h1 = h1
    h2 = h2
    r1 = r1
    r2 = r2
    None = None
    Items = {f}
    Hashes = {h1, h2}
    Procs = {r1}
    Slots = {1, 2}
    Unsupported = {}
    Poison = {}
    MaxSeq = 1
    Faults = {"crash"}
    MaxFaults = 1
    Operations = {}
    MaxOps = 0
INVARIANTS
    ResultIsAudited
