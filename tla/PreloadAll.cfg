\* Two workers, two chunks and an old one, one kill, a user who may cancel.
SPECIFICATION FairSpec
CONSTANTS
    Workers = {w1, w2}
    N = 2
    Stale = {s1}
    DiskStates = {"absent", "whole"}
    MayCancel = TRUE
    MaxKills = 1
INVARIANTS TypeOK HandedOutOnce ReturnedComplete LockedOutAtEnd
PROPERTIES ManifestFilesStay EveryChunkArrives
\* The joins with iterMtx held may block for ever (PreloadAll_returns.cfg).
CHECK_DEADLOCK FALSE
