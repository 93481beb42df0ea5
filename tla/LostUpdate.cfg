\* A file that changes while its message is processed.
SPECIFICATION FairSpec
CONSTANTS
    f = f
    g = g
    h1 = h1
    h2 = h2
    r1 = r1
    r2 = r2
    None = None
    Items = {f}
    Hashes = {h1, h2}
    Procs = {r1}
    Slots = {1, 2}
    Unsupported = {}
    Poison = {}
    MaxSeq = 2
    Faults = {}
    MaxFaults = 0
    Operations = {}
    MaxOps = 0
PROPERTIES
    StaleSkipIsRequeued
