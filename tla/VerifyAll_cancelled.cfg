\* One chunk, whole: what a verification that is cancelled may do to it.
SPECIFICATION Spec
CONSTANTS
    N = 1
    ThreadCount = 2
    DiskStates = {"good"}
    Corruptible = {}
    MayCancel = TRUE
    Played = {}
PROPERTIES RemovesInvalidOnly
CHECK_DEADLOCK FALSE
