\* Two readers of one chunk, nobody cancels: the program as it is wired.
SPECIFICATION FairSpec
CONSTANTS
    Threads = {t1, t2}
    Chunks = {c1}
    Entries = {e1}
    Capacity = 1
    Cancellable = {}
    EgsChunks = {}
    Corruptible = {}
    DiskStates = {"absent"}
    MayRestart = FALSE
    NoEntry = NoEntry
    Null = Null
    Garbage = Garbage
    Damaged = Damaged
PROPERTIES WaiterReleased
CHECK_DEADLOCK FALSE
