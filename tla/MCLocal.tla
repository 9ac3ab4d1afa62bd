------------------------------ MODULE MCLocal ------------------------------
(***************************************************************************)
(* What EGL2 does on this computer around the storage of the chunks: reads *)
(* of mounted files, the mounted directories, the compression contexts,    *)
(* the statistics, the directory of the game, the settings, the start.     *)
(* Each module takes what it needs of another one as a choice, so that     *)
(* they share no state, what one does is the same whatever the others do,  *)
(* and the run takes them one at a time: "part" is the one that a          *)
(* behaviour is about.                                                     *)
(***************************************************************************)
EXTENDS MCFileRead, CtxPool, Directory, StorageStats, SetupGameDir, Settings, AppStart

VARIABLE part

\* Nothing tells the two folders apart.
FolderSymmetry == Permutations(Dirs)

\* The parts that the behaviour is not about keep one initial state.
LocalInit ==
    /\ part \in {"read", "contexts", "directory", "statistics", "setup", "settings", "start"}
    /\ IF part = "read" THEN TRUE ELSE file = CHOOSE f \in Files : TRUE
    /\ IF part = "directory" THEN TRUE ELSE manifest = {}
    /\ IF part = "statistics" THEN TRUE ELSE onDisk = {}
    /\ IF part = "settings" THEN TRUE ELSE config = NoConfig /\ dirs = {}
    /\ IF part = "start" THEN TRUE ELSE dll = "absent" /\ devMode = FALSE
    /\ Init /\ CtxInit /\ DirInit /\ QueryInit /\ GameDirInit /\ SetInit /\ AppInit

OnlyRead ==
    /\ part = "read"
    /\ UNCHANGED <<part, ctxVars, dirVars, queryVars, gameDirVars, setVars, appVars>>
OnlyContexts ==
    /\ part = "contexts"
    /\ UNCHANGED <<part, vars, dirVars, queryVars, gameDirVars, setVars, appVars>>
OnlyDirectory ==
    /\ part = "directory"
    /\ UNCHANGED <<part, vars, ctxVars, queryVars, gameDirVars, setVars, appVars>>
OnlyStatistics ==
    /\ part = "statistics"
    /\ UNCHANGED <<part, vars, ctxVars, dirVars, gameDirVars, setVars, appVars>>
OnlySetup ==
    /\ part = "setup"
    /\ UNCHANGED <<part, vars, ctxVars, dirVars, queryVars, setVars, appVars>>
OnlySettings ==
    /\ part = "settings"
    /\ UNCHANGED <<part, vars, ctxVars, dirVars, queryVars, gameDirVars, appVars>>
OnlyStart ==
    /\ part = "start"
    /\ UNCHANGED <<part, vars, ctxVars, dirVars, queryVars, gameDirVars, setVars>>

LocalNext ==
    \/ Next /\ OnlyRead
    \/ CtxNext /\ OnlyContexts
    \/ DirNext /\ OnlyDirectory
    \/ QueryNext /\ OnlyStatistics
    \/ GameDirNext /\ OnlySetup
    \/ SetNext /\ OnlySettings
    \/ AppNext /\ OnlyStart

LocalSpec == LocalInit /\ [][LocalNext]_<<part, vars, ctxVars, dirVars, queryVars,
                                          gameDirVars, setVars, appVars>>

-----------------------------------------------------------------------------
\* The type invariants of the seven parts.
LocalTypeOK ==
    /\ TypeOK /\ CtxTypeOK /\ DirTypeOK /\ QueryTypeOK
    /\ GameDirTypeOK /\ SetTypeOK /\ AppTypeOK

=============================================================================
