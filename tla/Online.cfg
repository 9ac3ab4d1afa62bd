\* Two attempts of a request with a body of one piece, two threads that mount,
\* tokens of two hours west and east of Greenwich, a chunk of three bytes in up
\* to three pieces.
SPECIFICATION Spec
CONSTANTS
    Retries = 2
    BodyLen = 1
    AnswerLen = 1
    Mounters = {m1, m2}
    Life = 2
    Zones <- MCZones
    TokenLife = 2
    TokenZones <- MCZones
    WindowSize = 3
    MaxPieces = 3
INVARIANTS TypeOK OwnAnswer CleanAnswer ManifestWhole AloneNeverCrashes JoinsPieces
PROPERTIES RequestReturns ManifestArrives LatestAnswered PlayLaunches
CHECK_DEADLOCK FALSE
