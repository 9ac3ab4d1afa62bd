\* Two readers of two chunks, damaged files.
SPECIFICATION Spec
CONSTANTS
    Threads = {t1, t2}
    Chunks = {c1, c2}
    Entries = {e1, e2, e3}
    Capacity = 1
    Cancellable = {}
    EgsChunks = {}
    Corruptible = {}
    DiskStates = {"absent", "bad", "good"}
    MayRestart = FALSE
    NoEntry = NoEntry
    Null = Null
    Garbage = Garbage
    Damaged = Damaged
INVARIANT LocalCopyExists
CHECK_DEADLOCK FALSE
