----------------------------- MODULE ChunkPool -----------------------------
(***************************************************************************)
(* The chunk store of EGL2: Storage::GetChunk and everything it calls      *)
(* (storage/storage.cpp).  Reader threads ask for chunks.  A bounded FIFO  *)
(* pool (ChunkPool, guarded by ChunkPoolMutex) holds one CHUNK_POOL_DATA   *)
(* per chunk: an atomic Status, the decompressed Buffer and a condition    *)
(* variable.  Below it is the cache directory, one file per chunk, and     *)
(* below that the CDN.                                                     *)
(*                                                                         *)
(* GetChunk keeps a reference into the pool across file and network calls, *)
(* with no lock held, so each access to the entry is a step of its own.    *)
(* Undefined behaviour ends the process: `fault` names it, and nothing     *)
(* happens afterwards but a restart.  Contents are abstracted to which     *)
(* chunk's own bytes a buffer holds, or Damaged (the bytes of a download   *)
(* that came damaged, which nothing notices), Garbage (bytes of a file     *)
(* that fails its hash) or Null.                                           *)
(***************************************************************************)
EXTENDS Naturals, Sequences

CONSTANTS
    Threads,      \* WinFsp dispatcher and setup threads that call GetChunk
    Chunks,       \* chunk GUIDs
    Entries,      \* identities of CHUNK_POOL_DATA objects
    Capacity,     \* ChunkPoolCapacity
    Cancellable,  \* threads whose cancel_flag somebody may set
    EgsChunks,    \* chunks an official launcher install can provide
    Corruptible,  \* chunks that a download from the CDN may deliver damaged
    DiskStates,   \* what a cache file may hold when the process first starts
    MayRestart,   \* whether the process may be killed and started again
    NoEntry, Null, Garbage, Damaged

\* "mixed" is a file being written by threads that hold different bytes.
FileState == {"absent", "partial", "mixed", "bad", "good"}

Data == Chunks \union {Null, Garbage, Damaged}

ASSUME CapacityAssumption == Capacity \in Nat \ {0}
ASSUME NamesAssumption ==
    /\ NoEntry \notin Entries
    /\ {Null, Garbage, Damaged} \intersect Chunks = {}
    /\ Null # Garbage /\ Null # Damaged /\ Garbage # Damaged
ASSUME SetsAssumption ==
    /\ Cancellable \subseteq Threads
    /\ EgsChunks \subseteq Chunks /\ Corruptible \subseteq Chunks
    /\ DiskStates \subseteq FileState
    /\ MayRestart \in BOOLEAN

VARIABLES
    pool,       \* ChunkPool: entries, oldest first
    entry,      \* the fields of each CHUNK_POOL_DATA
    disk,       \* the cache file of each chunk
    leaked,     \* chunks whose file is held by a FILE* that is never closed
    pc,         \* where each thread is in GetChunk
    ref,        \* GetChunk's `data` reference
    want,       \* GetChunk's argument
    data,       \* GetChunk's local chunkData
    cancelled,  \* threads whose cancel_flag is set
    got,        \* what each thread's last call returned
    fault       \* the undefined behaviour that ended the process, if any

files == <<disk, leaked>>
args == <<ref, want, cancelled>>
vars == <<pool, entry, disk, leaked, pc, ref, want, data, cancelled, got, fault>>

CHUNK_STATUS == {"Unavailable", "Grabbing", "Available", "Reading", "Readable"}

\* Labels at which the next step uses the pool entry through `data`.
TouchLabels == {"enter", "grab", "giveUp", "load", "restore", "publish",
                "ready", "notify", "wait", "parking", "return"}

Labels == {"idle", "download", "got", "write", "open", "read", "reject", "asleep"}
          \union TouchLabels

PoolData == [chunk : Chunks \union {Null}, status : CHUNK_STATUS, buffer : Data]

Blank == [chunk |-> Null, status |-> "Unavailable", buffer |-> Null]

----------------------------------------------------------------------------
Pooled == {pool[i] : i \in 1 .. Len(pool)}

\* The reference is to an entry that pop_front has not destroyed.
Live(t) == ref[t] \in Pooled

Goto(t, l) == pc' = [pc EXCEPT ![t] = l]

Status(t) == entry[ref[t]].status

SetStatus(t, s) == entry' = [entry EXCEPT ![ref[t]].status = s]

\* Threads with the chunk's file open, for reading or for writing.
Readers(c) == {t \in Threads : pc[t] = "read" /\ want[t] = c}
Writers(c) == {t \in Threads : pc[t] = "write" /\ want[t] = c}

----------------------------------------------------------------------------
\* Mutant: the kind of the file is taken for the status.
UnpooledStatusIsFileState(c) == disk[c]

\* GetUnpooledChunkStatus: a regular file in the cache directory, of any
\* content, counts as a downloaded chunk.
UnpooledStatus(c) == IF disk[c] = "absent" THEN "Unavailable" ELSE "Available"

\* Mutant: the loop runs while size() > Capacity.
KeptOneTooMany == IF Len(pool) <= Capacity THEN pool
                  ELSE SubSeq(pool, Len(pool) - Capacity + 2, Len(pool))

\* What is left of the pool once it has room for one more entry: the loop
\* pops the front without asking whether a thread still refers to it.
Kept == IF Len(pool) < Capacity THEN pool
        ELSE SubSeq(pool, Len(pool) - Capacity + 2, Len(pool))

PooledFor(c) == {e \in Pooled : entry[e].chunk = c}

\* An object that is neither in the pool nor referred to by any thread.
Fresh(e) == e \in Entries \ Pooled /\ \A t \in Threads : ref[t] # e

InsertEntry(e, c) ==
    /\ pool' = Append(Kept, e)
    /\ entry' = [x \in Entries |->
                   CASE x = e -> [chunk |-> c, status |-> UnpooledStatus(c),
                                  buffer |-> Null]
                     [] x \in {Kept[i] : i \in 1 .. Len(Kept)} -> entry[x]
                     [] OTHER -> Blank]

\* GetPoolData, atomic under ChunkPoolMutex: the entry of the chunk, or a new one.
GetPoolData(t, c) ==
    \/ \E e \in PooledFor(c) : ref' = [ref EXCEPT ![t] = e] /\ UNCHANGED <<pool, entry>>
    \/ /\ PooledFor(c) = {}
       /\ \E e \in Entries : /\ Fresh(e)
                             /\ InsertEntry(e, c)
                             /\ ref' = [ref EXCEPT ![t] = e]

Call(t, c) ==
    /\ pc[t] = "idle"
    /\ GetPoolData(t, c)
    /\ want' = [want EXCEPT ![t] = c]
    /\ got' = [got EXCEPT ![t] = Null]
    /\ cancelled' = cancelled \ {t}
    /\ Goto(t, "enter")
    /\ UNCHANGED <<disk, leaked, data, fault>>

\* Somebody sets the thread's flag; nothing notifies a condition variable.
Cancel(t) ==
    /\ t \in Cancellable \ cancelled /\ pc[t] # "idle"
    /\ cancelled' = cancelled \union {t}
    /\ UNCHANGED <<pool, entry, disk, leaked, pc, ref, want, data, got, fault>>

Answer(t, d) ==
    /\ Goto(t, "idle")
    /\ got' = [got EXCEPT ![t] = d]
    /\ ref' = [ref EXCEPT ![t] = NoEntry]
    /\ data' = [data EXCEPT ![t] = Null]
    /\ UNCHANGED <<pool, entry, disk, leaked, want, cancelled, fault>>

\* SAFE_FLAG_RETURN(nullptr) before anything was done.
AnswerCancelled(t) ==
    /\ pc[t] \in {"enter", "grab", "wait"} /\ Live(t)
    /\ t \in cancelled
    /\ Answer(t, Null)

Case(s) ==
    CASE s = "Unavailable" -> "grab"
      [] s = "Available" -> "load"
      [] s \in {"Grabbing", "Reading"} -> "wait"
      [] s = "Readable" -> "return"

\* switch (data.Status)
Enter(t) ==
    /\ pc[t] = "enter" /\ Live(t) /\ t \notin cancelled
    /\ Goto(t, Case(Status(t)))
    /\ UNCHANGED <<pool, entry, files, args, data, got, fault>>

----------------------------------------------------------------------------
\* redownloadChunk: and DownloadChunk.
Grab(t) ==
    /\ pc[t] = "grab" /\ Live(t) /\ t \notin cancelled
    /\ SetStatus(t, "Grabbing")
    /\ Goto(t, "download")
    /\ UNCHANGED <<pool, files, args, data, got, fault>>

\* What the CDN's answer is decompressed to: only its magic is compared, the
\* result of libdeflate_zlib_decompress is ignored and nothing is hashed.
Delivered(c) == IF c \in Corruptible THEN {c, Damaged} ELSE {c}

\* The launcher's install (EGSProvider hashes what it reads) or the CDN provides
\* the chunk.  A failed request and a bad magic start DownloadChunk again and
\* leave no trace: a stutter here.
Download(t) ==
    /\ pc[t] = "download"
    /\ \/ want[t] \in EgsChunks /\ data' = [data EXCEPT ![t] = want[t]]
       \/ /\ t \notin cancelled
          /\ \E d \in Delivered(want[t]) : data' = [data EXCEPT ![t] = d]
    /\ Goto(t, "got")
    /\ UNCHANGED <<pool, entry, files, args, got, fault>>

\* Mutant: a failed request is given up, not tried again.
DownloadGivenUp(t) ==
    /\ pc[t] = "download"
    /\ Goto(t, "giveUp")
    /\ UNCHANGED <<pool, entry, files, args, data, got, fault>>

\* The request is given up, or the flag is seen before the body is decompressed.
DownloadCancelled(t) ==
    /\ pc[t] = "download" /\ t \in cancelled
    /\ Goto(t, "giveUp")
    /\ UNCHANGED <<pool, entry, files, args, data, got, fault>>

\* Mutant: the status that the file branch restores.
GiveUpAvailable(t) ==
    /\ pc[t] = "giveUp" /\ Live(t)
    /\ SetStatus(t, "Available")
    /\ Goto(t, "return")
    /\ UNCHANGED <<pool, files, args, data, got, fault>>

GiveUp(t) ==
    /\ pc[t] = "giveUp" /\ Live(t)
    /\ SetStatus(t, "Unavailable")
    /\ Goto(t, "return")
    /\ UNCHANGED <<pool, files, args, data, got, fault>>

\* A flag set by now keeps the data and skips the file.
SkipWrite(t) ==
    /\ pc[t] = "got" /\ t \in cancelled
    /\ Goto(t, "publish")
    /\ UNCHANGED <<pool, entry, files, args, data, got, fault>>

\* WriteChunk: fopen "wb" truncates whatever is there, under whoever reads or
\* writes it.
OpenForWrite(t) ==
    /\ pc[t] = "got" /\ t \notin cancelled
    /\ disk' = [disk EXCEPT ![want[t]] =
                  IF \A u \in Writers(want[t]) : data[u] = data[t] THEN "partial"
                  ELSE "mixed"]
    /\ Goto(t, "write")
    /\ UNCHANGED <<pool, entry, leaked, args, data, got, fault>>

\* fclose: the file is whole once no other writer has it truncated, and as good
\* as the bytes that were written; of different bytes either may be left.
Written(t) ==
    IF disk[want[t]] = "mixed" THEN {"good", "bad"}
    ELSE IF data[t] = want[t] THEN {"good"} ELSE {"bad"}

CloseWrite(t) ==
    /\ pc[t] = "write"
    /\ IF Writers(want[t]) = {t}
       THEN \E f \in Written(t) : disk' = [disk EXCEPT ![want[t]] = f]
       ELSE disk' = disk
    /\ Goto(t, "publish")
    /\ UNCHANGED <<pool, entry, leaked, args, data, got, fault>>

----------------------------------------------------------------------------
\* case CHUNK_STATUS::Available, ReadChunk and the hash check.
Load(t) ==
    /\ pc[t] = "load" /\ Live(t)
    /\ SetStatus(t, "Reading")
    /\ Goto(t, "open")
    /\ UNCHANGED <<pool, files, args, data, got, fault>>

OpenForRead(t) ==
    /\ pc[t] = "open" /\ disk[want[t]] # "absent"
    /\ Goto(t, "read")
    /\ UNCHANGED <<pool, entry, files, args, data, got, fault>>

\* fopen's NULL is not checked before fread.
OpenMissingFile(t) ==
    /\ pc[t] = "open" /\ disk[want[t]] = "absent"
    /\ fault' = "missingFile"
    /\ UNCHANGED <<pool, entry, files, pc, args, data, got>>

\* Mutant: a file that fails is read again.
ReadAgain(t) == IF t \in cancelled THEN "restore" ELSE "open"

\* ReadChunk returned false, or the hash differs.
AfterFailedRead(t) == IF t \in cancelled THEN "restore" ELSE "reject"

\* Only an empty or truncated file has no valid header; the FILE* is not closed.
ReadBadHeader(t) ==
    /\ pc[t] = "read" /\ disk[want[t]] \in {"partial", "mixed"}
    /\ leaked' = leaked \union {want[t]}
    /\ Goto(t, AfterFailedRead(t))
    /\ UNCHANGED <<pool, entry, disk, args, data, got, fault>>

ReadCancelled(t) ==
    /\ pc[t] = "read" /\ t \in cancelled
    /\ Goto(t, "restore")
    /\ UNCHANGED <<pool, entry, files, args, data, got, fault>>

\* Mutant: StorageVerifyHashes is not set.
HashUnchecked(c) == TRUE

\* VerifyHash: GetStorageFlags always sets StorageVerifyHashes.
HashMatches(c) == disk[c] = "good"

ReadFile(t) ==
    /\ pc[t] = "read"
    /\ data' = [data EXCEPT ![t] = IF disk[want[t]] = "good" THEN want[t] ELSE Garbage]
    /\ Goto(t, IF HashMatches(want[t]) THEN "publish" ELSE AfterFailedRead(t))
    /\ UNCHANGED <<pool, entry, files, args, got, fault>>

Restore(t) ==
    /\ pc[t] = "restore" /\ Live(t)
    /\ SetStatus(t, "Available")
    /\ Goto(t, "return")
    /\ UNCHANGED <<pool, files, args, data, got, fault>>

\* fopen does not share delete access, so removing an open file throws.
OpenElsewhere(c) == c \in leaked \/ Readers(c) \union Writers(c) # {}

\* DeleteChunk, then goto redownloadChunk; no file is no error.
Reject(t) ==
    /\ pc[t] = "reject"
    /\ disk[want[t]] = "absent" \/ ~OpenElsewhere(want[t])
    /\ disk' = [disk EXCEPT ![want[t]] = "absent"]
    /\ Goto(t, "grab")
    /\ UNCHANGED <<pool, entry, leaked, args, data, got, fault>>

RejectOpenFile(t) ==
    /\ pc[t] = "reject"
    /\ disk[want[t]] # "absent" /\ OpenElsewhere(want[t])
    /\ fault' = "removeOpenFile"
    /\ UNCHANGED <<pool, entry, files, pc, args, data, got>>

----------------------------------------------------------------------------
\* Handing the data to the pool: three unlocked steps.
Publish(t) ==
    /\ pc[t] = "publish" /\ Live(t)
    /\ entry' = [entry EXCEPT ![ref[t]].buffer = data[t]]
    /\ Goto(t, "ready")
    /\ UNCHANGED <<pool, files, args, data, got, fault>>

SetReadable(t) ==
    /\ pc[t] = "ready" /\ Live(t)
    /\ SetStatus(t, "Readable")
    /\ Goto(t, "notify")
    /\ UNCHANGED <<pool, files, args, data, got, fault>>

Waiters(e) == {u \in Threads : pc[u] = "asleep" /\ ref[u] = e}

NotifyAll(t) ==
    /\ pc[t] = "notify" /\ Live(t)
    /\ pc' = [u \in Threads |-> CASE u = t -> "return"
                                  [] u \in Waiters(ref[t]) -> "wait"
                                  [] OTHER -> pc[u]]
    /\ UNCHANGED <<pool, entry, files, args, data, got, fault>>

\* CV.wait under CV_Mutex: the predicate, then going to sleep.  No notifier
\* takes CV_Mutex, so a notification can fall between the two.
MutexFree(t) == \A u \in Threads : ~(pc[u] = "parking" /\ ref[u] = ref[t])

WaitDone(t) ==
    /\ pc[t] = "wait" /\ Live(t) /\ MutexFree(t) /\ t \notin cancelled
    /\ Status(t) = "Readable"
    /\ Goto(t, "return")
    /\ UNCHANGED <<pool, entry, files, args, data, got, fault>>

WaitMore(t) ==
    /\ pc[t] = "wait" /\ Live(t) /\ MutexFree(t) /\ t \notin cancelled
    /\ Status(t) # "Readable"
    /\ Goto(t, "parking")
    /\ UNCHANGED <<pool, entry, files, args, data, got, fault>>

Sleep(t) ==
    /\ pc[t] = "parking" /\ Live(t)
    /\ Goto(t, "asleep")
    /\ UNCHANGED <<pool, entry, files, args, data, got, fault>>

\* Mutant: wait without a predicate.
WakeupUnchecked(t) ==
    /\ pc[t] = "asleep"
    /\ Goto(t, "return")
    /\ UNCHANGED <<pool, entry, files, args, data, got, fault>>

SpuriousWakeup(t) ==
    /\ pc[t] = "asleep"
    /\ Goto(t, "wait")
    /\ UNCHANGED <<pool, entry, files, args, data, got, fault>>

\* return data.Buffer.first
Return(t) ==
    /\ pc[t] = "return" /\ Live(t)
    /\ Answer(t, entry[ref[t]].buffer)

\* The entry was destroyed while GetChunk still refers to it.
UseDestroyedEntry(t) ==
    /\ pc[t] \in TouchLabels /\ ~Live(t)
    /\ fault' = "destroyedEntry"
    /\ UNCHANGED <<pool, entry, files, pc, args, data, got>>

\* Two unordered accesses to the shared_ptr Buffer, one of them its assignment.
BufferRace(t) ==
    /\ pc[t] = "publish" /\ Live(t)
    /\ \E u \in Threads \ {t} : pc[u] \in {"publish", "return"} /\ ref[u] = ref[t]
    /\ fault' = "bufferRace"
    /\ UNCHANGED <<pool, entry, files, pc, args, data, got>>

----------------------------------------------------------------------------
Start ==
    /\ pool' = <<>>
    /\ entry' = [e \in Entries |-> Blank]
    /\ leaked' = {}
    /\ pc' = [t \in Threads |-> "idle"]
    /\ ref' = [t \in Threads |-> NoEntry]
    /\ want' = [t \in Threads |-> Null]
    /\ data' = [t \in Threads |-> Null]
    /\ cancelled' = {}
    /\ got' = [t \in Threads |-> Null]
    /\ fault' = "none"

\* The process dies, by a fault or by being killed, and is started again.
Restart == MayRestart /\ Start /\ UNCHANGED disk

Init ==
    /\ disk \in [Chunks -> DiskStates]
    /\ pool = <<>>
    /\ entry = [e \in Entries |-> Blank]
    /\ leaked = {}
    /\ pc = [t \in Threads |-> "idle"]
    /\ ref = [t \in Threads |-> NoEntry]
    /\ want = [t \in Threads |-> Null]
    /\ data = [t \in Threads |-> Null]
    /\ cancelled = {}
    /\ got = [t \in Threads |-> Null]
    /\ fault = "none"

\* What a thread inside GetChunk does by itself.
Step(t) ==
    \/ AnswerCancelled(t) \/ Enter(t) \/ Grab(t) \/ Download(t)
    \/ DownloadCancelled(t) \/ GiveUp(t) \/ SkipWrite(t) \/ OpenForWrite(t)
    \/ CloseWrite(t) \/ Load(t) \/ OpenForRead(t) \/ OpenMissingFile(t)
    \/ ReadBadHeader(t) \/ ReadCancelled(t) \/ ReadFile(t) \/ Restore(t)
    \/ Reject(t) \/ RejectOpenFile(t) \/ Publish(t) \/ SetReadable(t)
    \/ NotifyAll(t) \/ WaitDone(t) \/ WaitMore(t) \/ Sleep(t) \/ Return(t)
    \/ UseDestroyedEntry(t)

Running(t) == fault = "none" /\ Step(t)

Next ==
    \/ fault = "none" /\ \E t \in Threads :
          \/ \E c \in Chunks : Call(t, c)
          \/ Step(t)
          \/ Cancel(t) \/ SpuriousWakeup(t) \/ BufferRace(t)
    \/ Restart

\* The scheduler runs every runnable thread, and a download that is retried
\* for ever is answered in the end; nothing else is fair.
Fairness == \A t \in Threads : WF_vars(Running(t))

Spec == Init /\ [][Next]_vars

FairSpec == Spec /\ Fairness

----------------------------------------------------------------------------
(* Properties *)

\* Every variable holds what its declaration says.
TypeOK ==
    /\ pool \in Seq(Entries)
    /\ entry \in [Entries -> PoolData]
    /\ disk \in [Chunks -> FileState]
    /\ leaked \subseteq Chunks
    /\ pc \in [Threads -> Labels]
    /\ ref \in [Threads -> Entries \union {NoEntry}]
    /\ want \in [Threads -> Chunks \union {Null}]
    /\ data \in [Threads -> Data]
    /\ cancelled \subseteq Threads
    /\ got \in [Threads -> Data]
    /\ fault \in {"none", "missingFile", "removeOpenFile", "destroyedEntry", "bufferRace"}

\* The pool stays within ChunkPoolCapacity and holds a chunk once (GetPoolData
\* searches and inserts under one lock): two readers of one chunk share an entry.
OneEntryPerChunk ==
    /\ Len(pool) <= Capacity
    /\ \A i, j \in 1 .. Len(pool) :
          entry[pool[i]].chunk = entry[pool[j]].chunk => i = j

\* Whatever the interleaving of readers, evictions and redownloads, an entry
\* marked Readable holds the bytes of its own chunk, as the network delivered
\* them: no reader that skips the file and the network on the strength of Status
\* sees an empty buffer, another chunk, or bytes of a file that fails its hash.
ReadableAsDelivered ==
    \A e \in Pooled :
        entry[e].status = "Readable" => entry[e].buffer \in Delivered(entry[e].chunk)

\* A finished call that was not cancelled returned the chunk it asked for, although
\* cache files may be damaged, truncated by a kill, written from a damaged
\* download, or rewritten while being read: the file's hash stops all of these.
\* What it does not stop is the damage in the call's own download (storage.cpp:253
\* ignores the decompressor's result): that is served, and published in the pool.
ServedAsDelivered ==
    \A t \in Threads :
        pc[t] = "idle" /\ want[t] # Null /\ t \notin cancelled => got[t] \in Delivered(want[t])

\* GetChunk behaves like a read of content that only a download can have damaged
\* (ChunkStore) until it faults.
Store == INSTANCE ChunkStore
           WITH busy <- {t \in Threads : pc[t] # "idle"}, up <- (fault = "none")

StoreSpec == Store!Spec

\* With room for every chunk and no kill, a process that starts from whole files
\* meets nothing worse than the race on Buffer: no entry is destroyed in use, no
\* file that Status promised is missing, and none is removed under a reader.
OnlyBufferRace ==
    (\A c \in Chunks : disk[c] \in {"absent", "good"})
        => [](fault \in {"none", "bufferRace"})

\* The thread that reads or downloads a chunk (the one others wait for) always
\* finishes its call, through rejected files, redownloads and cancelled requests.
WorkerFinishes ==
    \A t \in Threads : pc[t] \in {"download", "open"} ~> (pc[t] = "idle" \/ fault # "none")

\* storage.cpp:109 "downloading from server, wait until mutex releases": a waiter
\* leaves when the entry is Readable.
WaiterReleased ==
    \A t \in Threads : pc[t] = "asleep" ~> (pc[t] # "asleep" \/ fault # "none")

\* storage.h:48 "Readable from local copy": a thread that goes to the file finds one.
LocalCopyExists == fault # "missingFile"

=============================================================================
