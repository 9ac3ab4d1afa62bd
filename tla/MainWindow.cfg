\* Three chunks in any state, two threads at a time, a user who may cancel, a game that
\* reads, and the next verification; two releases, two progress windows, two clicks
\* that are not on Update.
SPECIFICATION WindowSpec
CONSTANTS
    N = 3
    ThreadCount = 2
    DiskStates = {"absent", "partial", "bad", "good"}
    Corruptible = {2}
    MayCancel = TRUE
    Played = {1}
    MaxReleases = 2
    Mounts = {1}
    Tasks = {1, 2}
    MaxClicks = 2
INVARIANTS WindowTypeOK ThreadsBounded ThreadsJoined VerifiedComplete 
PROPERTIES VerificationEnds NewestPlayable
CHECK_DEADLOCK FALSE
