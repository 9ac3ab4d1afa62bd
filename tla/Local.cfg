\* Every file of up to three parts and every request up to one byte behind its end;
\* three threads with contexts; two names in two levels; two workers for three
\* chunks; three files of the game with two threads; two folders; three processes.
SPECIFICATION LocalSpec
CONSTANTS
    c1 = c1
    c2 = c2
    MaxParts = 3
    Chunks = {c1, c2}
    Window <- MCWindow
    Files <- MCFiles
    MaxLength = 4
    CtxThreads = {t1, t2, t3}
    NoThread = NoThread
    Names = {"a", "b"}
    Depth = 2
    Workers = {w1, w2}
    NChunks = 3
    Binaries = {b1, b2}
    Plain = {f1}
    ThreadCount = 2
    Dirs = {d1, d2}
    Processes = {p1, p2, p3}
INVARIANTS LocalTypeOK InBounds ReadExact CtxExclusive ListingExact QueryExact SetUpWhole
INVARIANTS SettingsSaved ChunksReadable OneInstance
SYMMETRY FolderSymmetry
CHECK_DEADLOCK FALSE
