\* An update that is killed in the middle, and what the next one finds.
SPECIFICATION Spec
CONSTANTS
    Workers = {w1, w2}
    N = 2
    Stale = {s1}
    DiskStates = {"absent"}
    MayCancel = FALSE
    MaxKills = 1
INVARIANTS NoneMissingMeansWhole
CHECK_DEADLOCK FALSE
