\* Two readers, a pool of one entry: evictions, damaged files, kills.
SPECIFICATION Spec
CONSTANTS
    Threads = {t1, t2}
    Chunks = {c1, c2}
    Entries = {e1, e2, e3}
    Capacity = 1
    Cancellable = {t1}
    EgsChunks = {c1}
    Corruptible = {c2}
    DiskStates = {"absent", "partial", "bad", "good"}
    MayRestart = TRUE
    NoEntry = NoEntry
    Null = Null
    Garbage = Garbage
    Damaged = Damaged
SYMMETRY EntrySymmetry
INVARIANTS TypeOK OneEntryPerChunk ReadableAsDelivered ServedAsDelivered
PROPERTIES StoreSpec
