---------------------------- MODULE PreloadAll -----------------------------
(***************************************************************************)
(* "Update": MountedBuild::PreloadAllChunks (MountedBuild.cpp:290-354) with *)
(* PurgeUnusedChunks and GetMissingChunkCount.  Workers take the missing   *)
(* chunks of the manifest from one iterator, guarded by iterMtx, and       *)
(* download them; the main thread waits on iterCv for the end of the list  *)
(* or for the user's cancel flag, then joins everybody; a thread beside    *)
(* them removes the files of chunks the manifest no longer has.            *)
(* What a download delivers is written as it is (ChunkPool compares it):   *)
(* here a file is whole when all of it has been written.                   *)
(***************************************************************************)
EXTENDS Naturals, FiniteSets

CONSTANTS
    Workers,     \* threadCount download threads
    N,           \* length of Build.ChunkManifestList
    Stale,       \* chunks of an older manifest
    DiskStates,  \* what a cache file may hold before the first update
    MayCancel,   \* whether the user may press Cancel
    MaxKills     \* bound: how often the process ends in the middle

Manifest == 1 .. N

FileState == {"absent", "partial", "whole"}

ASSUME WorkersAssumption == IsFiniteSet(Workers)
ASSUME ListAssumption == N \in Nat /\ Stale \intersect Manifest = {}
ASSUME ChoiceAssumption ==
    DiskStates \subseteq FileState /\ MayCancel \in BOOLEAN /\ MaxKills \in Nat

VARIABLES
    disk,       \* the cache file of each chunk
    chunkIter,  \* index of the next chunk to look at
    chunkDone,  \* the list is used up
    pc,         \* where each worker is in threadJob
    item,       \* the chunk it took last
    main,       \* where the main thread is; it holds iterMtx while it joins
    purging,    \* the purge thread is at work
    unseen,     \* files it will come by
    guids,      \* its ManifestGuids: those it has not come by
    counted,    \* setMaxThread is through
    prog,       \* calls of onProg
    cancelled,  \* the user's cancel_flag
    cut,        \* history: files found cut short when this update began
    kills

jobs == <<chunkIter, chunkDone, item>>
purge == <<purging, unseen, guids>>
rest == <<purge, counted, cut, kills>>
vars == <<disk, chunkIter, chunkDone, pc, item, main, purging, unseen, guids, counted,
          prog, cancelled, cut, kills>>

Labels == {"check", "get", "notify", "download", "got", "write", "prog", "exit"}

Downloaded(c) == disk[c] # "absent"

Goto(w, l) == pc' = [pc EXCEPT ![w] = l]

----------------------------------------------------------------------------
\* What flag.cancelled() may answer.  Cancel sets the flag and goes on to delete it
\* (onEnd of RUN_PROGRESS), so that afterwards any value is read from its memory.
FlagReads == IF cancelled THEN BOOLEAN ELSE {FALSE}

\* while (!chunkDone && !flag.cancelled())
Check(w) ==
    /\ pc[w] = "check"
    /\ \E flag \in FlagReads : Goto(w, IF chunkDone \/ flag THEN "exit" ELSE "get")
    /\ UNCHANGED <<disk, jobs, main, rest, prog, cancelled>>

\* A worker holds iterMtx only within its step; the main thread while it joins.
MutexFree == main # "join"

Ahead == {c \in Manifest : c >= chunkIter /\ ~Downloaded(c)}

\* Mutant: the chunks in between are skipped.
IsLast(c) == \A d \in Ahead : d <= c

IsFirst(c) == \A d \in Ahead : c <= d

\* Mutant: return chunkIter
IterStays(c) == c

\* return chunkIter++
IterAfter(c) == c + 1

\* The lambda GetChunk, one step: only workers create the files it looks at, and
\* only behind the iterator.
Take(w) ==
    /\ pc[w] = "get" /\ MutexFree
    /\ \E c \in Ahead :
          /\ IsFirst(c)
          /\ item' = [item EXCEPT ![w] = c]
          /\ chunkIter' = IterAfter(c)
    /\ Goto(w, "download")
    /\ UNCHANGED <<disk, chunkDone, main, rest, prog, cancelled>>

\* Mutant: the iterator moves on although it is at the end.
TakeNonePastEnd(w) ==
    /\ pc[w] = "get" /\ MutexFree
    /\ Ahead = {}
    /\ chunkIter' = (IF chunkDone THEN chunkIter ELSE N) + 1
    /\ chunkDone' = TRUE
    /\ Goto(w, "notify")
    /\ UNCHANGED <<disk, item, main, rest, prog, cancelled>>

TakeNone(w) ==
    /\ pc[w] = "get" /\ MutexFree
    /\ Ahead = {}
    /\ chunkIter' = N + 1
    /\ chunkDone' = TRUE
    /\ Goto(w, "notify")
    /\ UNCHANGED <<disk, item, main, rest, prog, cancelled>>

\* iterCv.notify_all() after the unlock, then return.
Notify(w) ==
    /\ pc[w] = "notify"
    /\ main' = IF main = "waiting" THEN "woken" ELSE main
    /\ Goto(w, "exit")
    /\ UNCHANGED <<disk, jobs, rest, prog, cancelled>>

\* DownloadChunk: requests are repeated until one succeeds or the flag is set;
\* a flag seen before WriteChunk skips the file.
Download(w) ==
    /\ pc[w] = "download"
    /\ \E flag \in FlagReads : Goto(w, IF flag THEN "prog" ELSE "got")
    /\ UNCHANGED <<disk, jobs, main, rest, prog, cancelled>>

\* The listing of a directory may show a file that is made meanwhile, or not; it
\* shows no file twice.
OpenForWrite(w) ==
    /\ pc[w] = "got"
    /\ \/ TRUE \in FlagReads /\ Goto(w, "prog") /\ UNCHANGED <<disk, unseen>>
       \/ /\ Goto(w, "write")
          /\ disk' = [disk EXCEPT ![item[w]] = "partial"]
          /\ \/ UNCHANGED unseen
             \/ purging /\ unseen' = unseen \union {item[w]}
    /\ UNCHANGED <<jobs, main, purging, guids, counted, cut, kills, prog, cancelled>>

CloseWrite(w) ==
    /\ pc[w] = "write"
    /\ disk' = [disk EXCEPT ![item[w]] = "whole"]
    /\ Goto(w, "prog")
    /\ UNCHANGED <<jobs, main, rest, prog, cancelled>>

OnProg(w) ==
    /\ pc[w] = "prog"
    /\ prog' = prog + 1
    /\ Goto(w, "check")
    /\ UNCHANGED <<disk, jobs, main, rest, cancelled>>

----------------------------------------------------------------------------
\* Mutant: iterCv.wait without a predicate.
MainWaitUnchecked ==
    /\ main \in {"lock", "woken"}
    /\ main' = IF main = "woken" THEN "join" ELSE "waiting"
    /\ UNCHANGED <<disk, jobs, pc, rest, prog, cancelled>>

\* iterCv.wait: locks iterMtx, evaluates the predicate, and sleeps or goes on to
\* the joins, with iterMtx held to the end of the function.
MainWait ==
    /\ main \in {"lock", "woken"}
    /\ \E flag \in FlagReads : main' = IF chunkDone \/ flag THEN "join" ELSE "waiting"
    /\ UNCHANGED <<disk, jobs, pc, rest, prog, cancelled>>

SpuriousWakeup ==
    /\ main = "waiting"
    /\ main' = "woken"
    /\ UNCHANGED <<disk, jobs, pc, rest, prog, cancelled>>

\* Mutant: the last worker is not joined.
ExitedButOne == Cardinality({w \in Workers : pc[w] # "exit"}) <= 1

Exited == \A w \in Workers : pc[w] = "exit"

\* The joins of the workers, the purge thread and the counting thread; onFinish.
MainJoin ==
    /\ main = "join"
    /\ Exited /\ ~purging /\ counted
    /\ main' = "returned"
    /\ UNCHANGED <<disk, jobs, pc, rest, prog, cancelled>>

\* Mutant: the GUID in the file name is read with the wrong byte order.
UnusedMisread(f) == TRUE

\* ManifestGuids.erase(guid) finds nothing: the file is of no chunk of the manifest,
\* or of one that has been come by.
Unused(f) == f \notin guids

\* PurgeUnusedChunks comes by one file of the cache directory. (iterator.pop() leaves
\* directories that hold no chunk files, as the one of the game.)
PurgeVisit(f) ==
    /\ f \in unseen
    /\ unseen' = unseen \ {f}
    /\ guids' = guids \ {f}
    /\ disk' = IF Unused(f) THEN [disk EXCEPT ![f] = "absent"] ELSE disk
    /\ UNCHANGED <<jobs, pc, main, purging, counted, prog, cancelled, cut, kills>>

PurgeEnd ==
    /\ purging /\ unseen = {}
    /\ purging' = FALSE
    /\ UNCHANGED <<disk, jobs, pc, main, unseen, guids, counted, prog, cancelled, cut,
                   kills>>

PurgeCancelled ==
    /\ unseen # {} /\ TRUE \in FlagReads
    /\ purging' = FALSE /\ unseen' = {}
    /\ UNCHANGED <<disk, jobs, pc, main, guids, counted, prog, cancelled, cut, kills>>

\* setMax(GetMissingChunkCount()), while downloads are under way: what it counts goes
\* to the progress bar only.
CountMissing ==
    /\ ~counted
    /\ counted' = TRUE
    /\ UNCHANGED <<disk, jobs, pc, main, purge, prog, cancelled, cut, kills>>

\* cProgress::Cancel sets the flag and deletes it; nothing notifies iterCv.
Cancel ==
    /\ MayCancel /\ ~cancelled /\ main # "returned"
    /\ cancelled' = TRUE
    /\ UNCHANGED <<disk, jobs, pc, main, rest, prog>>

----------------------------------------------------------------------------
\* The files the purge thread's directory_iterator will come by at least.
Present(d) == {f \in Manifest \union Stale : d[f] # "absent"}

CutShort(d) == {c \in Manifest : d[c] = "partial"}

Init ==
    /\ disk \in [Manifest \union Stale -> DiskStates]
    /\ chunkIter = 1 /\ chunkDone = FALSE
    /\ pc = [w \in Workers |-> "check"]
    /\ item = [w \in Workers |-> 0]
    /\ main = "lock"
    /\ purging = TRUE /\ unseen = Present(disk) /\ guids = Manifest
    /\ counted = FALSE /\ prog = 0
    /\ cancelled = FALSE
    /\ cut = CutShort(disk)
    /\ kills = 0

\* PreloadAllChunks starts over what the cache directory holds now.
Begin ==
    /\ chunkIter' = 1 /\ chunkDone' = FALSE
    /\ pc' = [w \in Workers |-> "check"]
    /\ item' = [w \in Workers |-> 0]
    /\ main' = "lock"
    /\ purging' = TRUE /\ unseen' = Present(disk) /\ guids' = Manifest
    /\ counted' = FALSE /\ prog' = 0
    /\ cancelled' = FALSE
    /\ cut' = CutShort(disk)
    /\ UNCHANGED disk

Again == main = "returned" /\ Begin /\ UNCHANGED kills

Kill == main # "returned" /\ kills < MaxKills /\ Begin /\ kills' = kills + 1

\* fs::remove throws when another program has the unused file open; nothing catches
\* it in the thread, and the process ends.
PurgeThrows(f) ==
    f \in unseen /\ Unused(f) /\ kills < MaxKills /\ Begin /\ kills' = kills + 1

Work(w) ==
    \/ Check(w) \/ Take(w) \/ TakeNone(w) \/ Notify(w) \/ Download(w)
    \/ OpenForWrite(w) \/ CloseWrite(w) \/ OnProg(w)

MainStep == MainWait \/ MainJoin

Purge == PurgeEnd \/ PurgeCancelled \/ \E f \in Manifest \union Stale : PurgeVisit(f)

Next ==
    \/ \E w \in Workers : Work(w)
    \/ MainStep \/ SpuriousWakeup \/ Purge \/ CountMissing
    \/ Cancel \/ Again \/ Kill \/ \E f \in Stale : PurgeThrows(f)

Fairness ==
    /\ \A w \in Workers : WF_vars(Work(w))
    /\ WF_vars(MainStep) /\ WF_vars(Purge) /\ WF_vars(CountMissing)

Spec == Init /\ [][Next]_vars

FairSpec == Spec /\ Fairness

----------------------------------------------------------------------------
(* Properties *)

\* Every variable holds what its declaration says.
TypeOK ==
    /\ disk \in [Manifest \union Stale -> FileState]
    /\ chunkIter \in 1 .. N + 1 /\ chunkDone \in BOOLEAN
    /\ pc \in [Workers -> Labels] /\ item \in [Workers -> 0 .. N]
    /\ main \in {"lock", "waiting", "woken", "join", "returned"}
    /\ purging \in BOOLEAN /\ unseen \subseteq Manifest \union Stale
    /\ guids \subseteq Manifest
    /\ counted \in BOOLEAN /\ prog \in Nat
    /\ cancelled \in BOOLEAN /\ cut \subseteq Manifest /\ kills \in 0 .. MaxKills

HasItem(w) == pc[w] \in {"download", "got", "write", "prog"}

\* Two workers never download the same chunk: no file has two writers, and
\* onProg counts each chunk at most once.
HandedOutOnce ==
    /\ \A v, w \in Workers : v # w /\ HasItem(v) /\ HasItem(w) => item[v] # item[w]
    /\ prog + Cardinality({w \in Workers : HasItem(w)}) < chunkIter

\* What an update may leave of a chunk: the whole file, or one that an earlier process
\* left cut short, which passes for downloaded (NoneMissingMeansWhole).
Arrived(c) == disk[c] = "whole" \/ c \in cut

\* An update that returns and was not cancelled has every chunk of the manifest on
\* disk and no chunk of another one, whichever worker met the end of the list; none
\* of the files it wrote itself is left half-written.
ReturnedComplete ==
    main = "returned" /\ ~cancelled =>
        /\ \A c \in Manifest : Downloaded(c) /\ Arrived(c)
        /\ \A f \in Stale : ~Downloaded(f)

\* Nothing an update does takes away a file of the manifest, although the purge thread
\* walks the directory while the workers create files in it, and uses up the GUID of
\* every file it comes by: it comes by none a second time (MountedBuild.cpp:416-441).
ManifestFilesStay ==
    [][\A c \in Manifest : Downloaded(c) => disk'[c] # "absent"]_vars

\* The main thread joins with iterMtx held, so a worker on its way to the iterator is
\* locked out for good; unless the user cancelled, no chunk is lost by that.
LockedOutAtEnd ==
    main = "join" /\ ~cancelled =>
        \A w \in Workers : pc[w] = "get" => Ahead = {}

\* Whether or not the function ever returns, an update that nobody cancels and that
\* is not killed again gets every chunk it found missing, to the end of its file.
EveryChunkArrives ==
    [](main = "lock" => <>(cancelled \/ \A c \in Manifest : Arrived(c)))

\* README.md:26 "When your game finishes updating/installing": an update that
\* nobody cancels finishes.
UpdateReturns == main = "lock" ~> main = "returned"

\* No thread of the update has taken a step: its missing chunks are those that
\* GetMissingChunkCount found for the button.
AtStart ==
    main = "lock" /\ chunkIter = 1 /\ ~chunkDone /\ \A w \in Workers : pc[w] = "check"

\* help/MAIN_BTN_PLAY.htm:14 '"Update" if ... you don't have all of Fortnite's files
\* downloaded': when an update would start, no missing chunk means that every file is
\* whole.
NoneMissingMeansWhole ==
    AtStart /\ (\A c \in Manifest : Downloaded(c)) =>
        \A c \in Manifest : disk[c] = "whole"

=============================================================================
