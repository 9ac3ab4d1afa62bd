------------------------------ MODULE AppStart -----------------------------
(***************************************************************************)
(* cApp::InitThread in several processes: the single instance check, the   *)
(* files it loads, the developer mode that symlinks need, and the two      *)
(* relaunches, as administrator and back as the user of the shell.         *)
(***************************************************************************)
EXTENDS Naturals, FiniteSets

CONSTANT Processes

VARIABLES proc,      \* where each process is, and whether it is elevated
          owner,     \* who has made the mutex "EGL2Instance"
          holders,   \* the processes with a handle to it
          dll,       \* the Oodle library in the data folder
          devMode    \* the developer mode of Windows

appVars == <<proc, owner, holders, dll, devMode>>

NotStarted == [at |-> "none", admin |-> FALSE, passed |-> FALSE]

AppTypeOK ==
    /\ proc \in [Processes -> [at : {"none", "check", "oodle", "fetch", "write", "reload",
                                     "workaround", "main", "leaving", "gone"},
                               admin : BOOLEAN, passed : BOOLEAN]]
    /\ owner \in {"none", "user", "admin"} /\ holders \subseteq Processes
    /\ dll \in {"absent", "partial", "whole"} /\ devMode \in BOOLEAN

AppInit ==
    /\ proc = [p \in Processes |-> NotStarted]
    /\ owner = "none" /\ holders = {}
    /\ dll \in {"absent", "partial", "whole"} /\ devMode \in BOOLEAN

GoesTo(p, at) == proc' = [proc EXCEPT ![p].at = at]

-----------------------------------------------------------------------------
StartProcess(p, admin) ==
    /\ proc[p].at = "none"
    /\ proc' = [proc EXCEPT ![p] = [at |-> "check", admin |-> admin, passed |-> FALSE]]
    /\ UNCHANGED <<owner, holders, dll, devMode>>

\* Mutant: the answer of IsAnotherRunning is not asked for.
AnotherIgnored == FALSE

IsAnotherRunning == holders # {}

\* The mutex of an elevated process cannot be opened by one that is not: Create
\* fails, which is logged, and the process goes on ("passed").
CheckInstance(p) ==
    /\ proc[p].at = "check"
    /\ IF owner = "admin" /\ ~proc[p].admin
       THEN /\ proc' = [proc EXCEPT ![p].at = "oodle", ![p].passed = TRUE]
            /\ UNCHANGED <<owner, holders>>
       ELSE /\ GoesTo(p, IF IsAnotherRunning THEN "leaving" ELSE "oodle")
            /\ owner' = IF holders # {} THEN owner
                        ELSE IF proc[p].admin THEN "admin" ELSE "user"
            /\ holders' = holders \cup {p}
    /\ UNCHANGED <<dll, devMode>>

(***************************************************************************)
(* LoadOodle. A library that cannot be loaded is removed, if nobody has it *)
(* open, found in the index, downloaded and written under its own name.    *)
(***************************************************************************)
LoadDll == dll = "whole"

LoadOodle(p) ==
    /\ proc[p].at = "oodle"
    /\ IF LoadDll THEN GoesTo(p, "workaround") /\ UNCHANGED dll
       ELSE GoesTo(p, "fetch") /\ dll' \in {"absent", dll}
    /\ UNCHANGED <<owner, holders, devMode>>

ParseData(p) ==
    /\ proc[p].at = "fetch"
    /\ \E got \in BOOLEAN : GoesTo(p, IF got THEN "write" ELSE "leaving")
    /\ UNCHANGED <<owner, holders, dll, devMode>>

\* The other processes read the file meanwhile, and perhaps write it too.
WriteDll(p) ==
    /\ proc[p].at = "write" /\ GoesTo(p, "reload")
    /\ dll' \in {dll, "partial", "whole"}
    /\ UNCHANGED <<owner, holders, devMode>>

ReloadDll(p) ==
    /\ proc[p].at = "reload" /\ GoesTo(p, IF LoadDll THEN "workaround" ELSE "leaving")
    /\ UNCHANGED <<owner, holders, dll, devMode>>

-----------------------------------------------------------------------------
\* The locale, the folders, WinFsp and the help file: one of them is missing.
GiveUp(p) ==
    /\ proc[p].at \in {"check", "oodle", "workaround"} /\ GoesTo(p, "leaving")
    /\ UNCHANGED <<owner, holders, dll, devMode>>

Relaunch(p, admin) ==
    \E q \in Processes :
        /\ proc[q].at = "none"
        /\ proc' = [proc EXCEPT ![p].at = "leaving",
                                ![q] = [at |-> "check", admin |-> admin, passed |-> FALSE]]

\* The user may refuse the elevation, the registry the value, the shell its token;
\* this process leaves all the same.
Workaround(p) ==
    /\ proc[p].at = "workaround"
    /\ IF ~proc[p].admin
       THEN /\ IF devMode THEN GoesTo(p, "main") ELSE Relaunch(p, TRUE) \/ GoesTo(p, "leaving")
            /\ UNCHANGED devMode
       ELSE /\ devMode' \in {devMode, TRUE}
            /\ Relaunch(p, FALSE) \/ GoesTo(p, "leaving")
    /\ UNCHANGED <<owner, holders, dll>>

\* The destructor of cApp gives the handle back; the window has been closed, or
\* the process is killed, in the middle of a write too.
EndProcess(p) ==
    /\ proc[p].at \notin {"none", "gone"} /\ GoesTo(p, "gone")
    /\ holders' = holders \ {p}
    /\ owner' = IF holders' = {} THEN "none" ELSE owner
    /\ dll' \in IF proc[p].at = "write" THEN {dll, "partial"} ELSE {dll}
    /\ UNCHANGED devMode

AppNext ==
    \E p \in Processes :
        \/ \E admin \in BOOLEAN : StartProcess(p, admin)
        \/ CheckInstance(p)
        \/ LoadOodle(p) \/ ParseData(p) \/ WriteDll(p) \/ ReloadDll(p)
        \/ GiveUp(p) \/ Workaround(p) \/ EndProcess(p)

AppSpec == AppInit /\ [][AppNext]_appVars

-----------------------------------------------------------------------------
\* Two processes have a main window only if one of them was let through because
\* an elevated one held the name, and none is elevated or without the developer
\* mode that its symlinks need, whatever is started, relaunched and killed at
\* the same time (cApp.cpp:69-80, 220-281).
OneInstance ==
    LET windows == {p \in Processes : proc[p].at = "main"}
    IN  /\ Cardinality({p \in windows : ~proc[p].passed}) <= 1
        /\ windows # {} => devMode /\ \A p \in windows : ~proc[p].admin
=============================================================================
