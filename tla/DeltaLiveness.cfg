\* One file, two replicas: progress with failing attempts, commits and replicas, and
\* messages that reappear while a replica still works.
SPECIFICATION FairSpec
CONSTANTS
    f = f
    g = g
    h1 = h1
    h2 = h2
    r1 = r1
    r2 = r2
    None = None
    Items = {f}
    Hashes = {h1, h2}
    Procs = {r1, r2}
    Slots = {1, 2}
    Unsupported = {}
    Poison = {}
    MaxSeq = 2
    Faults = {"graph", "commit", "crash", "lease"}
    MaxFaults = 1
    Operations = {}
    MaxOps = 0
INVARIANTS
    InFlightIsOwned
PROPERTIES
    InFlightSettles
    ChangesAreNoticed
