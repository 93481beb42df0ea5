\* One file whose hash comes from its bytes or from the listing, and which changes into
\* a type no extractor reads or out of it; one replica, every fault, a reset.
SPECIFICATION FairSpec
CONSTANTS
    f = f
    g = g
    h1 = h1
    h2 = h2
    r1 = r1
    r2 = r2
    None = None
    Items = {f}
    Hashes = {h1, h2}
    Procs = {r1}
    Slots = {1, 2, 3}
    Unsupported = {h2}
    Poison = {}
    MaxSeq = 2
    Faults = {"graph", "commit", "crash", "walkcrash", "send", "ttl"}
    MaxFaults = 1
    Operations = {"reset"}
    MaxOps = 1
    HashOf = {"bytes", "listing"}
    Unlisted = {}
    Recurring = FALSE
INVARIANTS
    TypeOK
    MessageHasRow
PROPERTIES
    PipelineSpec
    
    
    StaleSkipIsRequeued
