\* Three readers, room for every chunk, no kill.
SPECIFICATION FairSpec
CONSTANTS
    Threads = {t1, t2, t3}
    Chunks = {c1}
    Entries = {e1}
    Capacity = 1
    Cancellable = {t1}
    EgsChunks = {}
    Corruptible = {}
    DiskStates = {"absent", "bad", "good"}
    MayRestart = FALSE
    NoEntry = NoEntry
    Null = Null
    Garbage = Garbage
    Damaged = Damaged
PROPERTIES OnlyBufferRace WorkerFinishes
CHECK_DEADLOCK FALSE
