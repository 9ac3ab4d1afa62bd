---------------------------- MODULE SetupGameDir ---------------------------
(***************************************************************************)
(* MountedBuild::SetupGameDirectory: the directory that the game starts    *)
(* from. Files under a Binaries folder are copied from the mounted build,  *)
(* the others are symlinks into it. A deque of threads, one for each file; *)
(* the process can be killed and the game can run meanwhile.               *)
(***************************************************************************)
EXTENDS Naturals, Sequences, FiniteSets, SequencesExt

CONSTANTS Binaries, Plain,   \* the files of the build, each in one of the two
          ThreadCount

VARIABLES entry,     \* what is at the path of each file
          setup,     \* where SetupGameDirectory is
          left,      \* the files it has not come to
          deque,     \* its threads: files, and the one that counts
          stage,     \* where the thread of each file is
          failed,    \* the files that an error has been logged for
          locked     \* binaries that the game runs

gameDirVars == <<entry, setup, left, deque, stage, failed, locked>>

GameFiles == Binaries \cup Plain
Counter == "count"

ASSUME GameDirAssumption == IsFiniteSet(GameFiles) /\ Counter \notin GameFiles

\* "old": of another build. "stale": a symlink to another mount directory.
GameDirTypeOK ==
    /\ entry \in [GameFiles -> {"absent", "whole", "old", "partial", "link", "stale"}]
    /\ setup \in {"idle", "running", "over"}
    /\ left \in Seq(GameFiles) /\ deque \in Seq(GameFiles \cup {Counter})
    /\ stage \in [GameFiles \cup {Counter} ->
                    {"idle", "folders", "compare", "preload", "remove", "copy", "copying", "link",
                     "done"}]
    /\ failed \subseteq GameFiles /\ locked \subseteq Binaries

Idle == [f \in GameFiles \cup {Counter} |-> "idle"]

GameDirInit ==
    /\ entry = [f \in GameFiles |-> "absent"]
    /\ setup = "idle" /\ left = <<>> /\ deque = <<>> /\ stage = Idle
    /\ failed = {} /\ locked = {}

-----------------------------------------------------------------------------
Begin ==
    /\ setup = "idle" /\ setup' = "running"
    /\ left' \in SetToSeqs(GameFiles)
    /\ deque' = <<Counter>> /\ stage' = [Idle EXCEPT ![Counter] = "folders"]
    /\ failed' = {}
    /\ UNCHANGED <<entry, locked>>

CountBinaries ==
    /\ stage[Counter] = "folders" /\ stage' = [stage EXCEPT ![Counter] = "done"]
    /\ UNCHANGED <<entry, setup, left, deque, failed, locked>>

Spawn ==
    /\ setup = "running" /\ left # <<>> /\ Len(deque) < ThreadCount
    /\ deque' = Append(deque, Head(left)) /\ left' = Tail(left)
    /\ stage' = [stage EXCEPT ![Head(left)] = "folders"]
    /\ UNCHANGED <<entry, setup, failed, locked>>

\* The semaphore, and the loop at the end.
JoinFront ==
    /\ setup = "running" /\ deque # <<>> /\ (left = <<>> \/ Len(deque) >= ThreadCount)
    /\ stage[Head(deque)] = "done"
    /\ deque' = Tail(deque)
    /\ UNCHANGED <<entry, setup, left, stage, failed, locked>>

\* Mutant: the threads that are left are not joined.
AllJoinedEarly == TRUE

AllJoined == deque = <<>>

Finish ==
    /\ setup = "running" /\ left = <<>> /\ AllJoined
    /\ setup' = "over"
    /\ UNCHANGED <<entry, left, deque, stage, failed, locked>>

-----------------------------------------------------------------------------
\* The thread of a file. An error is logged, and the thread goes on or returns.
At(f, s) == setup # "idle" /\ stage[f] = s
Go(f, s) == stage' = [stage EXCEPT ![f] = s]
Put(f, e) == entry' = [entry EXCEPT ![f] = e]
Fail(f) == failed' = failed \cup {f}
Rest == <<setup, left, deque, locked>>

CreateFolders(f) ==
    /\ At(f, "folders")
    /\ \/ Go(f, IF f \in Binaries THEN "compare" ELSE "link") /\ UNCHANGED failed
       \/ Go(f, "done") /\ Fail(f)
    /\ UNCHANGED <<entry, Rest>>

\* Mutant: the size is compared, the hash is not.
CompareSize(f) == entry[f] \in {"whole", "old", "partial"}

\* The status, the size and the SHA-1 hash.
CompareFile(f) == entry[f] = "whole"

Compare(f) ==
    /\ At(f, "compare")
    /\ Go(f, IF CompareFile(f) THEN "done" ELSE "preload")
    /\ UNCHANGED <<entry, failed, Rest>>

PreloadFile(f) == At(f, "preload") /\ Go(f, "remove") /\ UNCHANGED <<entry, failed, Rest>>

\* A binary of the running game cannot be removed; that is logged only.
RemoveFile(f) ==
    /\ At(f, "remove") /\ Go(f, "copy")
    /\ IF f \in locked THEN UNCHANGED entry ELSE Put(f, "absent")
    /\ UNCHANGED <<failed, Rest>>

CopyBegins(f) ==
    /\ At(f, "copy")
    /\ IF f \in locked
       THEN Go(f, "done") /\ Fail(f) /\ UNCHANGED entry
       ELSE Go(f, "copying") /\ Put(f, "partial") /\ UNCHANGED failed
    /\ UNCHANGED Rest

CopyEnds(f) ==
    /\ At(f, "copying") /\ Go(f, "done")
    /\ \/ Put(f, "whole") /\ UNCHANGED failed
       \/ Fail(f) /\ UNCHANGED entry
    /\ UNCHANGED Rest

\* A symlink that leads elsewhere is removed and made again, in two steps that can
\* fail; what is no symlink is in the way of one.
Link(f) ==
    /\ At(f, "link") /\ Go(f, "done")
    /\ CASE entry[f] = "link" -> UNCHANGED <<entry, failed>>
         [] entry[f] = "stale" -> \/ Put(f, "link") /\ UNCHANGED failed
                                  \/ \E e \in {"stale", "absent"} : Put(f, e) /\ Fail(f)
         [] entry[f] = "absent" -> \/ Put(f, "link") /\ UNCHANGED failed
                                   \/ Fail(f) /\ UNCHANGED entry
         [] OTHER -> Fail(f) /\ UNCHANGED entry
    /\ UNCHANGED Rest

FileStep(f) ==
    \/ CreateFolders(f) \/ Compare(f) \/ PreloadFile(f) \/ RemoveFile(f)
    \/ CopyBegins(f) \/ CopyEnds(f) \/ Link(f)

-----------------------------------------------------------------------------
Kill ==
    /\ setup = "running" /\ setup' = "idle"
    /\ left' = <<>> /\ deque' = <<>> /\ stage' = Idle
    /\ UNCHANGED <<entry, failed, locked>>

\* LaunchGame needs the executable; the game may go on when EGL2 is killed.
LaunchGame(f) ==
    /\ f \in Binaries \ locked /\ setup # "idle" /\ entry[f] \in {"whole", "old"}
    /\ locked' = locked \cup {f}
    /\ UNCHANGED <<entry, setup, left, deque, stage, failed>>

GameEnds ==
    /\ locked # {} /\ locked' = {}
    /\ UNCHANGED <<entry, setup, left, deque, stage, failed>>

\* Another build, in which some files are others, or another cache directory.
NewBuild ==
    /\ setup # "running" /\ setup' = "idle" /\ stage' = Idle
    /\ \E changed \in SUBSET GameFiles :
         entry' = [f \in GameFiles |->
                     IF f \in changed /\ entry[f] = "whole" THEN "old"
                     ELSE IF f \in changed /\ entry[f] = "link" THEN "stale" ELSE entry[f]]
    /\ UNCHANGED <<left, deque, failed, locked>>

GameDirNext ==
    \/ Begin \/ CountBinaries \/ Spawn \/ JoinFront \/ Finish
    \/ \E f \in GameFiles : FileStep(f) \/ LaunchGame(f)
    \/ Kill \/ GameEnds \/ NewBuild

GameDirSpec == GameDirInit /\ [][GameDirNext]_gameDirVars

-----------------------------------------------------------------------------
\* When SetupGameDirectory returns, every binary is the one of the build and every
\* other file leads to it, whatever an earlier build or a kill has left there;
\* those that are not have been logged (MountedBuild.cpp:224-288).
SetUpWhole ==
    setup = "over" =>
        \A f \in GameFiles \ failed : entry[f] = IF f \in Binaries THEN "whole" ELSE "link"
=============================================================================
