----------------------------- MODULE VerifyAll -----------------------------
(***************************************************************************)
(* "Verify": MountedBuild::VerifyAllChunks (MountedBuild.cpp:356-400) with *)
(* VerifyChunk, DeleteChunk and DownloadChunk (storage/storage.cpp).  The  *)
(* main thread goes through the manifest and starts a thread for each      *)
(* chunk that has a file, at most ThreadCount at a time: a deque of        *)
(* threads serves as semaphore, whose oldest member is joined for a place. *)
(* A thread reads and hashes its file; a damaged one is removed and        *)
(* downloaded again, and nothing looks at what the download brought.  The  *)
(* game may read from the mounted drive meanwhile.                         *)
(***************************************************************************)
EXTENDS Naturals, Sequences

CONSTANTS
    N,            \* length of Build.ChunkManifestList
    ThreadCount,  \* Settings.ThreadCount, at least 1 (cSetup.cpp:156)
    DiskStates,   \* what a cache file may hold before the first verification
    Corruptible,  \* chunks that a download may deliver damaged
    MayCancel,    \* whether the user may press Cancel
    Played        \* chunks that somebody reads from the mounted drive

Manifest == 1 .. N

\* The thread of chunk c is called c; Counter is the one that counts the files.
Counter == 0

AllThreads == 0 .. N

FileState == {"absent", "partial", "bad", "good"}

ASSUME ListAssumption == N \in Nat
ASSUME ThreadsAssumption == ThreadCount \in Nat \ {0}
ASSUME ChoiceAssumption ==
    DiskStates \subseteq FileState /\ Corruptible \subseteq Manifest
    /\ MayCancel \in BOOLEAN /\ Played \subseteq Manifest

VARIABLES
    disk,       \* the cache file of each chunk
    held,       \* chunks whose file a reader of the mounted drive has open
    leaked,     \* chunks whose file ReadChunk returned from without fclose
    main,       \* where VerifyAllChunks is, or "terminated": the process is gone
    chunk,      \* its loop variable
    threads,    \* its deque of threads, oldest first
    pc,         \* where each thread is
    found,      \* the cache files when the function was called (never read by it)
    cancelled   \* the user pressed Cancel

calls == <<main, chunk, threads, found>>
vars == <<disk, held, leaked, main, chunk, threads, pc, found, cancelled>>

Labels == {"none", "count", "verify", "rejected", "delete", "deleted",
           "got", "write", "prog", "ended"}

Downloaded(c) == disk[c] # "absent"

Goto(t, l) == pc' = [pc EXCEPT ![t] = l]

\* What flag.cancelled() may answer.  Cancel sets the flag and goes on to delete it
\* (onEnd of RUN_PROGRESS), so that afterwards any value is read from its memory.
FlagReads == IF cancelled THEN BOOLEAN ELSE {FALSE}

----------------------------------------------------------------------------
(* The calling thread *)

\* Mutant: the iterator goes on before the thread has started.
NextChunkTwice ==
    /\ main = "loop" /\ chunk <= N
    /\ main' = IF Downloaded(chunk) THEN "place" ELSE "loop"
    /\ chunk' = chunk + 1
    /\ UNCHANGED <<disk, held, leaked, threads, pc, found, cancelled>>

\* if (!IsChunkDownloaded(chunk)) continue; only a chunk's own thread removes its file.
NextChunk ==
    /\ main = "loop" /\ chunk <= N
    /\ IF Downloaded(chunk)
       THEN main' = "place" /\ UNCHANGED chunk
       ELSE chunk' = chunk + 1 /\ UNCHANGED main
    /\ UNCHANGED <<disk, held, leaked, threads, pc, found, cancelled>>

\* Mutant: while (threads.size() > threadCount)
FullOneLate == Len(threads) > ThreadCount

\* while (threads.size() >= threadCount)
Full == Len(threads) >= ThreadCount

\* Mutant: the thread is joined and stays in the deque.
OthersKept == threads

\* threads.pop_front()
Others == Tail(threads)

JoinFront ==
    /\ main = "place" /\ Full
    /\ pc[Head(threads)] = "ended"
    /\ threads' = Others
    /\ UNCHANGED <<disk, held, leaked, main, chunk, pc, found, cancelled>>

\* The flag is asked, then the thread of the chunk starts.
Start ==
    /\ main = "place" /\ ~Full
    /\ \/ /\ TRUE \in FlagReads
          /\ main' = "join"
          /\ UNCHANGED <<chunk, threads, pc>>
       \/ /\ threads' = Append(threads, chunk)
          /\ Goto(chunk, "verify")
          /\ chunk' = chunk + 1
          /\ main' = "loop"
    /\ UNCHANGED <<disk, held, leaked, found, cancelled>>

EndOfList ==
    /\ main = "loop" /\ chunk > N
    /\ main' = "join"
    /\ UNCHANGED <<disk, held, leaked, chunk, threads, pc, found, cancelled>>

\* Mutant: the youngest thread is not joined.
ToJoinButOne == 1 .. Len(threads) - 1

ToJoin == 1 .. Len(threads)

\* The joins at the end; then onFinish.
JoinAll ==
    /\ main = "join"
    /\ \A i \in ToJoin : pc[threads[i]] = "ended"
    /\ main' = "returned"
    /\ UNCHANGED <<disk, held, leaked, chunk, threads, pc, found, cancelled>>

----------------------------------------------------------------------------
(* The threads *)

\* setMax of the number of files
Count ==
    /\ pc[Counter] = "count"
    /\ Goto(Counter, "ended")
    /\ UNCHANGED <<disk, held, leaked, calls, cancelled>>

\* Mutant: a file whose header can be read is taken for a chunk.
IntactByHeader(c) == disk[c] \in {"bad", "good"}

\* The header is read and the data have the chunk's hash.
Intact(c) == disk[c] = "good"

\* VerifyChunk: false if the flag is seen between header and data, or if the file
\* is not the chunk.  A header cut short is whatever the stack held, and a version that
\* is not 0 returns from ReadChunk without fclose.
Verify(c) ==
    /\ pc[c] = "verify"
    /\ Goto(c, IF Intact(c) THEN "prog" ELSE "rejected")
    /\ leaked' \in IF disk[c] = "partial" THEN {leaked, leaked \union {c}} ELSE {leaked}
    /\ UNCHANGED <<disk, held, calls, cancelled>>

VerifyCancelled(c) ==
    /\ pc[c] = "verify"
    /\ TRUE \in FlagReads
    /\ Goto(c, "rejected")
    /\ UNCHANGED <<disk, held, leaked, calls, cancelled>>

\* if (flag.cancelled()) return; before the file is removed
Rejected(c) ==
    /\ pc[c] = "rejected"
    /\ \E flag \in FlagReads : Goto(c, IF flag THEN "ended" ELSE "delete")
    /\ UNCHANGED <<disk, held, leaked, calls, cancelled>>

\* DeleteChunk.  The CRT opens files without FILE_SHARE_DELETE.
Delete(c) ==
    /\ pc[c] = "delete" /\ c \notin held \union leaked
    /\ disk' = [disk EXCEPT ![c] = "absent"]
    /\ Goto(c, "deleted")
    /\ UNCHANGED <<held, leaked, calls, cancelled>>

\* fs::remove throws, nothing in the thread catches, and std::terminate ends the
\* process; handles are closed with it, a file that was being written stays as it is.
DeleteThrows(c) ==
    /\ pc[c] = "delete" /\ c \in held \union leaked
    /\ main' = "terminated"
    /\ pc' = [t \in AllThreads |-> "none"]
    /\ held' = {} /\ leaked' = {}
    /\ UNCHANGED <<disk, chunk, threads, found, cancelled>>

\* The flag is asked again, then DownloadChunk, forced, asks until it has an answer;
\* it gives up when it sees the flag, and onProg is called all the same.
Redownload(c) ==
    /\ pc[c] = "deleted"
    /\ \/ Goto(c, "got")
       \/ TRUE \in FlagReads /\ (Goto(c, "ended") \/ Goto(c, "prog"))
    /\ UNCHANGED <<disk, held, leaked, calls, cancelled>>

OpenForWrite(c) ==
    /\ pc[c] = "got"
    /\ \/ Goto(c, "write") /\ disk' = [disk EXCEPT ![c] = "partial"]
       \/ TRUE \in FlagReads /\ Goto(c, "prog") /\ UNCHANGED disk
    /\ UNCHANGED <<held, leaked, calls, cancelled>>

\* What is written is what the CDN's answer was decompressed to: only its magic is
\* compared, libdeflate_zlib_decompress's result is ignored and nothing is hashed.
Delivered(c) == IF c \in Corruptible THEN {"good", "bad"} ELSE {"good"}

CloseWrite(c) ==
    /\ pc[c] = "write"
    /\ \E f \in Delivered(c) : disk' = [disk EXCEPT ![c] = f]
    /\ Goto(c, "prog")
    /\ UNCHANGED <<held, leaked, calls, cancelled>>

OnProg(c) ==
    /\ pc[c] = "prog"
    /\ Goto(c, "ended")
    /\ UNCHANGED <<disk, held, leaked, calls, cancelled>>

----------------------------------------------------------------------------
(* The user, and the game *)

Cancel ==
    /\ MayCancel /\ ~cancelled /\ main \notin {"returned", "terminated"}
    /\ cancelled' = TRUE
    /\ UNCHANGED <<disk, held, leaked, calls, pc>>

\* GetChunk on the mounted drive opens a cache file for a moment.
ReaderOpens(c) ==
    /\ c \in Played /\ main # "terminated" /\ c \notin held /\ Downloaded(c)
    /\ held' = held \union {c}
    /\ UNCHANGED <<disk, leaked, calls, pc, cancelled>>

ReaderCloses(c) ==
    /\ c \in held
    /\ held' = held \ {c}
    /\ UNCHANGED <<disk, leaked, calls, pc, cancelled>>

\* The next verification, in the same process or in a new one.
Again ==
    /\ main \in {"returned", "terminated"}
    /\ main' = "loop" /\ chunk' = 1 /\ threads' = <<Counter>>
    /\ pc' = [t \in AllThreads |-> IF t = Counter THEN "count" ELSE "none"]
    /\ found' = disk
    /\ cancelled' = FALSE
    /\ UNCHANGED <<disk, held, leaked>>

Init ==
    /\ disk \in [Manifest -> DiskStates]
    /\ held = {} /\ leaked = {}
    /\ main = "loop" /\ chunk = 1 /\ threads = <<Counter>>
    /\ pc = [t \in AllThreads |-> IF t = Counter THEN "count" ELSE "none"]
    /\ found = disk
    /\ cancelled = FALSE

MainStep == NextChunk \/ JoinFront \/ Start \/ EndOfList \/ JoinAll

Work(c) ==
    \/ Verify(c) \/ VerifyCancelled(c) \/ Rejected(c) \/ Delete(c) \/ DeleteThrows(c)
    \/ Redownload(c) \/ OpenForWrite(c) \/ CloseWrite(c) \/ OnProg(c)

Next ==
    \/ MainStep \/ Count
    \/ \E c \in Manifest : Work(c) \/ ReaderOpens(c) \/ ReaderCloses(c)
    \/ Cancel \/ Again

\* Every thread runs; requests are answered in the end.
Fairness ==
    /\ WF_vars(MainStep) /\ WF_vars(Count)
    /\ \A c \in Manifest : WF_vars(Work(c))

Spec == Init /\ [][Next]_vars

FairSpec == Spec /\ Fairness

----------------------------------------------------------------------------
(* Properties *)

\* Every variable holds what its declaration says.
TypeOK ==
    /\ disk \in [Manifest -> FileState] /\ found \in [Manifest -> FileState]
    /\ held \subseteq Manifest /\ leaked \subseteq Manifest
    /\ main \in {"loop", "place", "join", "returned", "terminated"}
    /\ chunk \in 1 .. N + 1 /\ (main = "place" => chunk <= N)
    /\ threads \in Seq(AllThreads)
    /\ pc \in [AllThreads -> Labels]
    /\ cancelled \in BOOLEAN

\* The deque is the semaphore it is meant to be: never more than ThreadCount threads
\* run, although finished ones stay in it until they come to its front.
ThreadsBounded ==
    /\ Len(threads) <= ThreadCount
    /\ \A t \in AllThreads : pc[t] \notin {"none", "ended"} =>
           \E i \in 1 .. Len(threads) : threads[i] = t

\* When the function returns none of its threads is left: they refer to its locals.
ThreadsJoined == main = "returned" => \A t \in AllThreads : pc[t] \in {"none", "ended"}

\* What a verification may leave of a file it found: nothing worse than a file that
\* was downloaded again, if the file was damaged or the flag was misread; and if it
\* was cancelled what was found, or no file.
Left(c) ==
    {"good"} \union (IF found[c] = "good" /\ ~cancelled THEN {} ELSE Delivered(c))
             \union (IF cancelled THEN {"absent", found[c]} ELSE {})

\* help/MAIN_BTN_VERIFY.htm: a verification that returns uncancelled has made every
\* file it found whole, however the damaged ones were spread over the threads, but for
\* those whose download came damaged again. A cancelled one is no excuse for a file
\* that was cut short by it: the joins wait for the thread that writes.
VerifiedComplete ==
    main = "returned" => \A c \in Manifest : found[c] # "absent" => disk[c] \in Left(c)

\* A verification comes to an end, cancelled or not, whatever order its threads end in,
\* unless an exception ends the process.
VerifyEnds == main = "loop" ~> main \in {"returned", "terminated"}

\* help/MAIN_BTN_VERIFY.htm:14: "Verifies the integrity of your install by removing
\* invalid data": a verification removes no whole file, cancelled or not.
RemovesInvalidOnly ==
    [][\A c \in Manifest : disk[c] = "good" => disk'[c] = "good"]_vars

=============================================================================
