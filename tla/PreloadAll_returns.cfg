\* Nobody cancels, nothing is killed: does Update come to an end?
SPECIFICATION FairSpec
CONSTANTS
    Workers = {w1, w2}
    N = 2
    Stale = {s1}
    DiskStates = {"absent"}
    MayCancel = FALSE
    MaxKills = 0
PROPERTIES UpdateReturns
CHECK_DEADLOCK FALSE
