---------------------------- MODULE StorageStats ---------------------------
(***************************************************************************)
(* MountedBuild::QueryChunks for the storage window: workers take the      *)
(* chunks of the manifest one after the other and report each to the       *)
(* window, whose cancel flag is a member of the window itself.             *)
(***************************************************************************)
EXTENDS Naturals

CONSTANTS Workers, NChunks   \* the chunks are 1 .. NChunks

ASSUME QueryAssumption == NChunks \in Nat \ {0}

VARIABLES iter,       \* chunkIter
          chunkDone,
          main,       \* where the thread of the window is
          worker,     \* where each worker is, and its chunk
          flag,       \* of the window
          onDisk,     \* the chunks that have a file; a verification changes it
          reported,   \* what onQuery has been told
          last,       \* onQuery({}, true) has been called
          broken      \* the end was passed, or something missing was used

queryVars == <<iter, chunkDone, main, worker, flag, onDisk, reported, last, broken>>

QueryChunkIds == 1 .. NChunks
End == NChunks + 1

QueryTypeOK ==
    /\ iter \in 1 .. End + 1 /\ chunkDone \in BOOLEAN
    /\ main \in {"start", "waiting", "joining", "returned"}
    /\ worker \in [Workers -> [at : {"test", "get", "ask", "metadata", "report", "done"},
                               chunk : 0 .. End + 1, local : BOOLEAN]]
    /\ flag \in {"clear", "cancelled", "freed"}
    /\ onDisk \subseteq QueryChunkIds
    /\ reported \in [QueryChunkIds -> {"no", "local", "remote", "twice"}]
    /\ last \in BOOLEAN /\ broken \in BOOLEAN

QueryInit ==
    /\ iter = 1 /\ chunkDone = FALSE /\ main = "start"
    /\ worker = [w \in Workers |-> [at |-> "test", chunk |-> 0, local |-> FALSE]]
    /\ flag = "clear" /\ onDisk \in SUBSET QueryChunkIds
    /\ reported = [c \in QueryChunkIds |-> "no"]
    /\ last = FALSE /\ broken = FALSE

MoveTo(w, at) == worker' = [worker EXCEPT ![w].at = at]

\* A freed flag reads as anything.
Cancelled == IF flag = "freed" THEN BOOLEAN ELSE {flag = "cancelled"}

-----------------------------------------------------------------------------
Test(w) ==
    /\ worker[w].at = "test"
    /\ \E c \in Cancelled : MoveTo(w, IF chunkDone \/ c THEN "done" ELSE "get")
    /\ UNCHANGED <<iter, chunkDone, main, flag, onDisk, reported, last, broken>>

\* iterMtx is free unless main joins: it joins with the lock of its wait.
\* The increment comes first, of an iterator at the end too.
GetChunk(w) ==
    /\ worker[w].at = "get" /\ main # "joining"
    /\ iter' = iter + 1
    /\ IF iter' = End
       THEN chunkDone' = TRUE /\ MoveTo(w, "done") /\ UNCHANGED broken
       ELSE /\ worker' = [worker EXCEPT ![w].at = "ask", ![w].chunk = iter']
            /\ broken' = (iter = End)
            /\ UNCHANGED chunkDone
    /\ UNCHANGED <<main, flag, onDisk, reported, last>>

IsChunkDownloaded(w) ==
    /\ worker[w].at = "ask"
    /\ \E c \in Cancelled :
         IF c THEN MoveTo(w, "done")
         ELSE LET local == worker[w].chunk \in onDisk
              IN  worker' = [worker EXCEPT ![w].local = local,
                                           ![w].at = IF local THEN "metadata" ELSE "report"]
    /\ UNCHANGED <<iter, chunkDone, main, flag, onDisk, reported, last, broken>>

\* fopen of a file that is gone, and fread of the null pointer.
GetChunkMetadata(w) ==
    /\ worker[w].at = "metadata"
    /\ broken' = (worker[w].chunk \notin onDisk)
    /\ MoveTo(w, "report")
    /\ UNCHANGED <<iter, chunkDone, main, flag, onDisk, reported, last>>

AddChunkData(c, local) ==
    reported' = [reported EXCEPT ![c] = IF @ # "no" THEN "twice"
                                        ELSE IF local THEN "local" ELSE "remote"]

Report(w) ==
    /\ worker[w].at = "report"
    /\ \E c \in Cancelled :
         IF c THEN MoveTo(w, "done") /\ UNCHANGED <<reported, broken>>
         ELSE /\ AddChunkData(worker[w].chunk, worker[w].local)
              /\ broken' = (flag = "freed")   \* the window is gone
              /\ MoveTo(w, "test")
    /\ UNCHANGED <<iter, chunkDone, main, flag, onDisk, last>>

-----------------------------------------------------------------------------
\* iterCv.wait; Cancel does not notify, so that only a spurious wakeup, or the
\* lock coming late, lets main see it.
Wait ==
    /\ main \in {"start", "waiting"}
    /\ \E c \in Cancelled : main' = IF chunkDone \/ c THEN "joining" ELSE "waiting"
    /\ UNCHANGED <<iter, chunkDone, worker, flag, onDisk, reported, last, broken>>

\* Mutant: the workers are detached.
JoinedDetached == TRUE

Joined == \A w \in Workers : worker[w].at = "done"

JoinWorkers ==
    /\ main = "joining" /\ Joined
    /\ \E c \in Cancelled : last' = ~c /\ broken' = (~c /\ flag = "freed")
    /\ main' = "returned"
    /\ UNCHANGED <<iter, chunkDone, worker, flag, onDisk, reported>>

-----------------------------------------------------------------------------
\* cStorage::OnClose, and the deletion of the window when the UI is idle.
CloseStorage ==
    /\ flag = "clear" /\ flag' = "cancelled"
    /\ UNCHANGED <<iter, chunkDone, main, worker, onDisk, reported, last, broken>>

FreeWindow ==
    /\ flag = "cancelled" /\ flag' = "freed"
    /\ UNCHANGED <<iter, chunkDone, main, worker, onDisk, reported, last, broken>>

\* A verification, or a read of the game.
ChangeDisk(c) ==
    /\ onDisk' \in {onDisk \cup {c}, onDisk \ {c}}
    /\ UNCHANGED <<iter, chunkDone, main, worker, flag, reported, last, broken>>

WorkerStep(w) ==
    Test(w) \/ GetChunk(w) \/ IsChunkDownloaded(w) \/ GetChunkMetadata(w) \/ Report(w)

\* What happens after the undefined is not followed.
QueryNext ==
    /\ ~broken
    /\ \/ \E w \in Workers : WorkerStep(w)
       \/ Wait \/ JoinWorkers
       \/ CloseStorage \/ FreeWindow
       \/ \E c \in QueryChunkIds : ChangeDisk(c)

QuerySpec == QueryInit /\ [][QueryNext]_queryVars

-----------------------------------------------------------------------------
\* The window is told of no chunk twice, and of the end only when it has been told of
\* every chunk after the first of the manifest, however the workers interleave. The
\* first is passed over (`++chunkIter`, MountedBuild.cpp:460), so that the totals
\* lack it; what a worker finds past the end is not followed.
QueryExact ==
    ~broken =>
        /\ \A c \in QueryChunkIds : reported[c] # "twice"
        /\ last => \A c \in QueryChunkIds \ {1} : reported[c] # "no"
=============================================================================
