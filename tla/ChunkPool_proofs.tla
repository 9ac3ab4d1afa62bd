-------------------------- MODULE ChunkPool_proofs --------------------------
(***************************************************************************)
(* Theorems about ChunkPool for any number of threads and chunks and any   *)
(* capacity.                                                               *)
(***************************************************************************)
EXTENDS ChunkPool, Integers, FiniteSetTheorems, TLAPS

KeptEntries == {Kept[i] : i \in 1 .. Len(Kept)}

\* Eviction makes room for one entry and keeps a tail of the pool.
LEMMA KeptIsTail ==
    ASSUME pool \in Seq(Entries)
    PROVE  /\ Kept \in Seq(Entries)
           /\ Len(Kept) < Capacity
           /\ \E k \in Nat : \A i \in 1 .. Len(Kept) :
                 i + k \in 1 .. Len(pool) /\ Kept[i] = pool[i + k]
<1>. USE CapacityAssumption
<1>1. CASE Len(pool) < Capacity
  <2>1. Kept = pool
    BY <1>1 DEF Kept
  <2>2. \A i \in 1 .. Len(Kept) : i + 0 \in 1 .. Len(pool) /\ Kept[i] = pool[i + 0]
    BY <2>1
  <2>. QED
    BY <1>1, <2>1, <2>2
<1>2. CASE ~(Len(pool) < Capacity)
  <2>. DEFINE k == Len(pool) - Capacity + 1
  <2>1. Kept = SubSeq(pool, k + 1, Len(pool))
    BY <1>2 DEF Kept
  <2>2. k \in Nat /\ k <= Len(pool) /\ Len(pool) \in Nat
    BY <1>2
  <2>3. Kept \in Seq(Entries) /\ Len(Kept) = Capacity - 1
    BY <2>1, <2>2, <1>2
  <2>4. \A i \in 1 .. Len(Kept) : i + k \in 1 .. Len(pool) /\ Kept[i] = pool[i + k]
    <3>. SUFFICES ASSUME NEW i \in 1 .. Len(Kept)
                  PROVE  i + k \in 1 .. Len(pool) /\ Kept[i] = pool[i + k]
      OBVIOUS
    <3>1. i \in Int /\ 1 <= i /\ i <= Len(pool) - k
      BY <2>2, <2>3
    <3>2. i + k \in 1 .. Len(pool)
      BY <2>2, <3>1
    <3>3. Kept[i] = pool[(k + 1) + i - 1]
      BY <2>1, <2>2, <3>1
    <3>. QED
      BY <2>2, <3>1, <3>2, <3>3
  <2>5. \E j \in Nat : \A i \in 1 .. Len(Kept) :
           i + j \in 1 .. Len(pool) /\ Kept[i] = pool[i + j]
    <3>. HIDE DEF k
    <3>. QED
      BY <2>2, <2>4
  <2>6. Len(Kept) < Capacity
    BY <2>3
  <2>. QED
    BY <2>3, <2>5, <2>6
<1>. QED
  BY <1>1, <1>2

\* A pool that made room and took one entry: its length, members and entries.
LEMMA AppendPool ==
    ASSUME pool \in Seq(Entries), NEW e \in Entries, pool' = Append(Kept, e)
    PROVE  /\ pool' \in Seq(Entries)
           /\ Pooled' = KeptEntries \union {e}
           /\ KeptEntries \subseteq Pooled
<1>1. Kept \in Seq(Entries)
  BY KeptIsTail
<1>2. Len(pool') = Len(Kept) + 1 /\ Len(Kept) \in Nat /\ pool' \in Seq(Entries)
  BY <1>1
<1>3. \A i \in 1 .. Len(Kept) : pool'[i] = Kept[i]
  BY <1>1
<1>4. pool'[Len(Kept) + 1] = e
  BY <1>1
<1>5. Pooled' = KeptEntries \union {e}
  BY <1>2, <1>3, <1>4 DEF Pooled, KeptEntries
<1>6. KeptEntries \subseteq Pooled
  BY KeptIsTail DEF Pooled, KeptEntries
<1>. QED
  BY <1>2, <1>5, <1>6

----------------------------------------------------------------------------
(* The inductive invariant *)

\* A thread inside GetChunk has an argument and a reference.
InCall ==
    \A t \in Threads :
        IF pc[t] = "idle" THEN ref[t] = NoEntry
        ELSE ref[t] \in Entries /\ want[t] \in Chunks

\* As long as the reference is live it is to the entry of the chunk asked for.
RefMatches ==
    \A t \in Threads :
        pc[t] # "idle" /\ Live(t) => entry[ref[t]].chunk = want[t]

\* A buffer is empty or as delivered, and a Readable entry has one.
BuffersDelivered ==
    \A e \in Entries :
        /\ entry[e].buffer \in {Null} \union Delivered(entry[e].chunk)
        /\ entry[e].status = "Readable" => entry[e].buffer \in Delivered(entry[e].chunk)

\* What a thread knows from where it is.
LocalsDelivered ==
    \A t \in Threads :
        /\ pc[t] \in {"got", "write", "publish"} => data[t] \in Delivered(want[t])
        /\ pc[t] \in {"giveUp", "restore"} => t \in cancelled
        /\ pc[t] \in {"ready", "notify"} /\ Live(t)
              => entry[ref[t]].buffer \in Delivered(want[t])
        /\ pc[t] = "return" /\ Live(t) /\ t \notin cancelled
              => entry[ref[t]].buffer \in Delivered(want[t])

IInv == TypeOK /\ InCall /\ RefMatches /\ BuffersDelivered /\ LocalsDelivered /\ ServedAsDelivered

----------------------------------------------------------------------------
\* The initial states satisfy the invariant.
LEMMA InitIInv == Init => IInv
<1>. SUFFICES ASSUME Init PROVE IInv
  OBVIOUS
<1>. USE NamesAssumption, SetsAssumption DEF Init
<1>1. TypeOK
  <2>1. Blank \in PoolData
    BY DEF Blank, PoolData, Data, CHUNK_STATUS
  <2>2. pool \in Seq(Entries) /\ entry \in [Entries -> PoolData]
    BY <2>1
  <2>3. disk \in [Chunks -> FileState]
    OBVIOUS
  <2>. QED
    BY <2>2, <2>3 DEF TypeOK, Data, Labels
<1>2. InCall /\ RefMatches /\ BuffersDelivered
  BY DEF InCall, RefMatches, BuffersDelivered, Blank
<1>3. LocalsDelivered /\ ServedAsDelivered
  BY DEF LocalsDelivered, ServedAsDelivered
<1>. QED
  BY <1>1, <1>2, <1>3 DEF IInv

\* switch (data.Status) has a case for every status, and answers from memory
\* only what is Readable.
LEMMA CaseLabels ==
    ASSUME NEW s \in CHUNK_STATUS
    PROVE  /\ Case(s) \in {"grab", "load", "wait", "return"}
           /\ Case(s) = "return" => s = "Readable"
BY DEF CHUNK_STATUS, Case

\* A thread inside GetChunk, or its environment, moves: one step per action.
LEMMA ActionIInv ==
    ASSUME IInv, NEW t \in Threads, fault = "none",
           Step(t) \/ Cancel(t) \/ SpuriousWakeup(t) \/ BufferRace(t)
    PROVE  IInv'
<1>. USE NamesAssumption
     DEF IInv, TypeOK, InCall, RefMatches, BuffersDelivered, LocalsDelivered,
     ServedAsDelivered,
         Labels, TouchLabels, Data, CHUNK_STATUS, PoolData, FileState, Live, Pooled,
         Goto, files, args
<1>1. CASE AnswerCancelled(t)
  BY <1>1 DEF AnswerCancelled, Answer
<1>2. CASE Enter(t)
  BY <1>2 DEF Enter, Case, Status
<1>3. CASE Grab(t)
  <2>1. ref[t] \in Entries /\ entry' = [entry EXCEPT ![ref[t]].status = "Grabbing"]
    BY <1>3 DEF Grab, SetStatus
  <2>2. \A e \in Entries : /\ entry'[e].chunk = entry[e].chunk
                            /\ entry'[e].buffer = entry[e].buffer
                            /\ entry'[e].status = IF e = ref[t] THEN "Grabbing"
                                                  ELSE entry[e].status
    BY <2>1
  <2>3. entry' \in [Entries -> PoolData]
    BY <2>1
  <2>. QED
    BY <1>3, <2>1, <2>2, <2>3 DEF Grab
<1>4. CASE Download(t)
  <2>1. PICK d \in Data : d \in Delivered(want[t]) /\ data' = [data EXCEPT ![t] = d]
    BY <1>4 DEF Download, Delivered
  <2>. QED
    BY <1>4, <2>1 DEF Download
<1>5. CASE DownloadCancelled(t)
  BY <1>5 DEF DownloadCancelled
<1>6. CASE GiveUp(t)
  <2>1. ref[t] \in Entries /\ entry' = [entry EXCEPT ![ref[t]].status = "Unavailable"]
    BY <1>6 DEF GiveUp, SetStatus
  <2>2. \A e \in Entries : /\ entry'[e].chunk = entry[e].chunk
                            /\ entry'[e].buffer = entry[e].buffer
                            /\ entry'[e].status = IF e = ref[t] THEN "Unavailable"
                                                  ELSE entry[e].status
    BY <2>1
  <2>3. entry' \in [Entries -> PoolData]
    BY <2>1
  <2>. QED
    BY <1>6, <2>1, <2>2, <2>3 DEF GiveUp
<1>7. CASE SkipWrite(t)
  BY <1>7 DEF SkipWrite
<1>8. CASE OpenForWrite(t)
  BY <1>8 DEF OpenForWrite
<1>9. CASE CloseWrite(t)
  <2>1. PICK f \in FileState : disk' \in {disk, [disk EXCEPT ![want[t]] = f]}
    BY <1>9 DEF CloseWrite, Written
  <2>. QED
    BY <1>9, <2>1 DEF CloseWrite
<1>10. CASE Load(t)
  <2>1. ref[t] \in Entries /\ entry' = [entry EXCEPT ![ref[t]].status = "Reading"]
    BY <1>10 DEF Load, SetStatus
  <2>2. \A e \in Entries : /\ entry'[e].chunk = entry[e].chunk
                            /\ entry'[e].buffer = entry[e].buffer
                            /\ entry'[e].status = IF e = ref[t] THEN "Reading"
                                                  ELSE entry[e].status
    BY <2>1
  <2>3. entry' \in [Entries -> PoolData]
    BY <2>1
  <2>. QED
    BY <1>10, <2>1, <2>2, <2>3 DEF Load
<1>11. CASE OpenForRead(t)
  BY <1>11 DEF OpenForRead
<1>12. CASE OpenMissingFile(t)
  BY <1>12 DEF OpenMissingFile
<1>13. CASE ReadBadHeader(t)
  BY <1>13 DEF ReadBadHeader, AfterFailedRead
<1>14. CASE ReadCancelled(t)
  BY <1>14 DEF ReadCancelled
<1>15. CASE ReadFile(t)
  <2>1. PICK d \in Data, l \in {"publish", "restore", "reject"} :
          /\ data' = [data EXCEPT ![t] = d] /\ pc' = [pc EXCEPT ![t] = l]
          /\ l = "publish" => d \in Delivered(want[t])
          /\ l = "restore" => t \in cancelled
    BY <1>15 DEF ReadFile, AfterFailedRead, HashMatches, Delivered
  <2>. QED
    BY <1>15, <2>1 DEF ReadFile
<1>16. CASE Restore(t)
  <2>1. ref[t] \in Entries /\ entry' = [entry EXCEPT ![ref[t]].status = "Available"]
    BY <1>16 DEF Restore, SetStatus
  <2>2. \A e \in Entries : /\ entry'[e].chunk = entry[e].chunk
                            /\ entry'[e].buffer = entry[e].buffer
                            /\ entry'[e].status = IF e = ref[t] THEN "Available"
                                                  ELSE entry[e].status
    BY <2>1
  <2>3. entry' \in [Entries -> PoolData]
    BY <2>1
  <2>. QED
    BY <1>16, <2>1, <2>2, <2>3 DEF Restore
<1>17. CASE Reject(t)
  BY <1>17 DEF Reject
<1>18. CASE RejectOpenFile(t)
  BY <1>18 DEF RejectOpenFile
<1>19. CASE Publish(t)
  <2>1. /\ ref[t] \in Entries /\ data[t] \in Delivered(want[t]) /\ entry[ref[t]].chunk = want[t]
        /\ want[t] \in Chunks /\ data[t] \in Data
    BY <1>19 DEF Publish
  <2>2. /\ entry' = [entry EXCEPT ![ref[t]].buffer = data[t]]
        /\ pc' = [pc EXCEPT ![t] = "ready"]
        /\ UNCHANGED <<pool, disk, leaked, ref, want, cancelled, data, got, fault>>
    BY <1>19 DEF Publish
  <2>3. /\ TypeOK' /\ InCall'
    BY <2>1, <2>2
  <2>4. \A e \in Entries : /\ entry'[e].chunk = entry[e].chunk
                            /\ entry'[e].status = entry[e].status
                            /\ entry'[e].buffer = IF e = ref[t] THEN data[t]
                                                  ELSE entry[e].buffer
    BY <2>1, <2>2
  <2>5. RefMatches' /\ BuffersDelivered' /\ ServedAsDelivered'
    BY <2>1, <2>2, <2>4
  <2>6. LocalsDelivered'
    BY <2>1, <2>2, <2>4
  <2>. QED
    BY <2>3, <2>5, <2>6
<1>20. CASE SetReadable(t)
  <2>1. ref[t] \in Entries /\ entry' = [entry EXCEPT ![ref[t]].status = "Readable"]
    BY <1>20 DEF SetReadable, SetStatus
  <2>2. \A e \in Entries : /\ entry'[e].chunk = entry[e].chunk
                            /\ entry'[e].buffer = entry[e].buffer
                            /\ entry'[e].status = IF e = ref[t] THEN "Readable"
                                                  ELSE entry[e].status
    BY <2>1
  <2>3. entry' \in [Entries -> PoolData]
    BY <2>1
  <2>. QED
    BY <1>20, <2>1, <2>2, <2>3 DEF SetReadable
<1>21. CASE NotifyAll(t)
  BY <1>21 DEF NotifyAll, Waiters
<1>22. CASE WaitDone(t)
  BY <1>22 DEF WaitDone, Status
<1>23. CASE WaitMore(t)
  BY <1>23 DEF WaitMore
<1>24. CASE Sleep(t)
  BY <1>24 DEF Sleep
<1>25. CASE Return(t)
  BY <1>25 DEF Return, Answer
<1>26. CASE UseDestroyedEntry(t)
  BY <1>26 DEF UseDestroyedEntry
<1>27. CASE Cancel(t)
  BY <1>27 DEF Cancel
<1>28. CASE SpuriousWakeup(t)
  BY <1>28 DEF SpuriousWakeup
<1>29. CASE BufferRace(t)
  BY <1>29 DEF BufferRace
<1>. QED
  BY <1>1, <1>2, <1>3, <1>4, <1>5, <1>6, <1>7, <1>8, <1>9, <1>10, <1>11,
     <1>12, <1>13, <1>14, <1>15, <1>16, <1>17, <1>18, <1>19, <1>20, <1>21,
     <1>22, <1>23, <1>24, <1>25, <1>26, <1>27, <1>28, <1>29 DEF Step

\* A new entry leaves the entries that stay in the pool alone, and no other
\* thread refers to it.
LEMMA InsertEffect ==
    ASSUME IInv, NEW e \in Entries, NEW c \in Chunks, Fresh(e), InsertEntry(e, c)
    PROVE  /\ pool' \in Seq(Entries) /\ entry' \in [Entries -> PoolData]
           /\ entry'[e].chunk = c
           /\ \A u \in Threads : ref[u] # e
           /\ \A x \in Entries : x # e /\ x \in Pooled' =>
                 x \in Pooled /\ entry'[x] = entry[x]
           /\ \A x \in Entries : /\ entry'[x].buffer \in {Null} \union Delivered(entry'[x].chunk)
                                 /\ entry'[x].status = "Readable"
                                       => entry'[x].buffer \in Delivered(entry'[x].chunk)
<1>. DEFINE new == [chunk |-> c, status |-> UnpooledStatus(c), buffer |-> Null]
<1>1. pool \in Seq(Entries) /\ entry \in [Entries -> PoolData]
  BY DEF IInv, TypeOK
<1>2. /\ pool' = Append(Kept, e)
      /\ entry' = [x \in Entries |-> CASE x = e -> new
                                       [] x \in KeptEntries -> entry[x]
                                       [] OTHER -> Blank]
  BY DEF InsertEntry, KeptEntries
<1>3. /\ pool' \in Seq(Entries)
      /\ Pooled' = KeptEntries \union {e}
      /\ KeptEntries \subseteq Pooled
  BY <1>1, <1>2, AppendPool
<1>4. e \notin Pooled /\ \A u \in Threads : ref[u] # e
  BY DEF Fresh
<1>5. entry'[e] = new
  <2>. HIDE DEF new
  <2>. QED
    BY <1>2, <1>3, <1>4
<1>6. \A x \in Entries : x # e => entry'[x] = IF x \in KeptEntries THEN entry[x] ELSE Blank
  BY <1>2, <1>3
<1>7. new \in PoolData /\ Blank \in PoolData
  BY DEF PoolData, Blank, UnpooledStatus, CHUNK_STATUS, Data
<1>8. entry' \in [Entries -> PoolData]
  BY <1>1, <1>2, <1>7
<1>9. \A x \in Entries : x # e /\ x \in Pooled' => x \in Pooled /\ entry'[x] = entry[x]
  BY <1>3, <1>6
<1>10. \A x \in Entries : /\ entry'[x].buffer \in {Null} \union Delivered(entry'[x].chunk)
                          /\ entry'[x].status = "Readable"
                                => entry'[x].buffer \in Delivered(entry'[x].chunk)
  <2>. SUFFICES ASSUME NEW x \in Entries
                PROVE  /\ entry'[x].buffer \in {Null} \union Delivered(entry'[x].chunk)
                       /\ entry'[x].status = "Readable"
                             => entry'[x].buffer \in Delivered(entry'[x].chunk)
    OBVIOUS
  <2>1. CASE x = e
    BY <1>5, <2>1 DEF UnpooledStatus
  <2>2. CASE x # e /\ x \in KeptEntries
    BY <1>6, <2>2 DEF IInv, BuffersDelivered, Delivered
  <2>3. CASE x # e /\ x \notin KeptEntries
    BY <1>6, <2>3 DEF Blank
  <2>. QED
    BY <2>1, <2>2, <2>3
<1>. QED
  BY <1>3, <1>4, <1>5, <1>8, <1>9, <1>10

\* GetPoolData gives the caller an entry of its chunk and disturbs no other call.
LEMMA CallIInv ==
    ASSUME IInv, NEW t \in Threads, NEW c \in Chunks, Call(t, c)
    PROVE  IInv'
<1>. USE NamesAssumption
<1>1. /\ pc[t] = "idle" /\ pc' = [pc EXCEPT ![t] = "enter"]
      /\ want' = [want EXCEPT ![t] = c]
      /\ got' = [got EXCEPT ![t] = Null]
      /\ cancelled' = cancelled \ {t}
      /\ UNCHANGED <<disk, leaked, data, fault>>
  BY DEF Call, Goto
<1>2. PICK e \in Entries :
         /\ ref' = [ref EXCEPT ![t] = e]
         /\ \/ e \in Pooled /\ entry[e].chunk = c /\ UNCHANGED <<pool, entry>>
            \/ Fresh(e) /\ InsertEntry(e, c)
  <2>1. Pooled \subseteq Entries
    BY DEF Pooled, IInv, TypeOK
  <2>. QED
    BY <2>1 DEF Call, GetPoolData, PooledFor
<1>3. /\ pool' \in Seq(Entries) /\ entry' \in [Entries -> PoolData]
      /\ entry'[e].chunk = c
      /\ \A u \in Threads \ {t} : Live(u)' =>
            pc[u] = "idle" \/ (Live(u) /\ entry'[ref[u]] = entry[ref[u]])
      /\ BuffersDelivered'
  <2>1. CASE e \in Pooled /\ entry[e].chunk = c /\ UNCHANGED <<pool, entry>>
    BY <1>2, <2>1 DEF IInv, TypeOK, BuffersDelivered, Live, Pooled, Delivered
  <2>2. CASE Fresh(e) /\ InsertEntry(e, c)
    BY <1>2, <2>2, InsertEffect DEF IInv, TypeOK, InCall, BuffersDelivered, Live, Delivered
  <2>. QED
    BY <1>2, <2>1, <2>2
<1>4. TypeOK' /\ InCall'
  BY <1>1, <1>2, <1>3 DEF IInv, TypeOK, InCall, Labels, TouchLabels, Data
<1>5. RefMatches'
  BY <1>1, <1>2, <1>3 DEF IInv, TypeOK, InCall, RefMatches
<1>6. LocalsDelivered'
  BY <1>1, <1>2, <1>3 DEF IInv, TypeOK, InCall, LocalsDelivered
<1>7. ServedAsDelivered'
  BY <1>1 DEF IInv, TypeOK, ServedAsDelivered
<1>. QED
  BY <1>3, <1>4, <1>5, <1>6, <1>7 DEF IInv

\* A restart forgets everything but the cache files.
LEMMA RestartIInv == ASSUME IInv, Restart PROVE IInv'
<1>. USE NamesAssumption
<1>1. /\ pool' = <<>> /\ leaked' = {} /\ cancelled' = {} /\ fault' = "none"
      /\ entry' = [e \in Entries |-> Blank]
      /\ pc' = [t \in Threads |-> "idle"] /\ ref' = [t \in Threads |-> NoEntry]
      /\ want' = [t \in Threads |-> Null] /\ data' = [t \in Threads |-> Null]
      /\ got' = [t \in Threads |-> Null] /\ disk' = disk
  BY DEF Restart, Start
<1>2. TypeOK'
  <2>1. Blank \in PoolData
    BY DEF Blank, PoolData, Data, CHUNK_STATUS
  <2>2. pool' \in Seq(Entries) /\ entry' \in [Entries -> PoolData]
    BY <1>1, <2>1
  <2>. QED
    BY <1>1, <2>2 DEF IInv, TypeOK, Data, Labels
<1>3. InCall' /\ RefMatches' /\ BuffersDelivered'
  BY <1>1 DEF InCall, RefMatches, BuffersDelivered, Blank
<1>4. LocalsDelivered' /\ ServedAsDelivered'
  BY <1>1 DEF LocalsDelivered, ServedAsDelivered
<1>. QED
  BY <1>2, <1>3, <1>4 DEF IInv

\* A step that changes no variable.
LEMMA StutterIInv == ASSUME IInv, UNCHANGED vars PROVE IInv'
BY DEF vars, IInv, TypeOK, InCall, RefMatches, BuffersDelivered, LocalsDelivered,
   ServedAsDelivered,
       Live, Pooled

\* The invariant is inductive.
LEMMA NextIInv == IInv /\ [Next]_vars => IInv'
<1>. SUFFICES ASSUME IInv, [Next]_vars PROVE IInv'
  OBVIOUS
<1>1. CASE UNCHANGED vars
  BY <1>1, StutterIInv
<1>2. CASE Restart
  BY <1>2, RestartIInv
<1>3. ASSUME fault = "none", NEW t \in Threads, NEW c \in Chunks, Call(t, c)
      PROVE  IInv'
  BY <1>3, CallIInv
<1>4. ASSUME fault = "none", NEW t \in Threads,
             Step(t) \/ Cancel(t) \/ SpuriousWakeup(t) \/ BufferRace(t)
      PROVE  IInv'
  BY <1>4, ActionIInv
<1>. QED
  BY <1>1, <1>2, <1>3, <1>4 DEF Next

\* The inductive invariant holds throughout.
LEMMA Invariance == Spec => []IInv
BY InitIInv, NextIInv, PTL DEF Spec

----------------------------------------------------------------------------
\* The types of ChunkPool's variables, for any number of threads and chunks.
THEOREM TypeCorrect == Spec => []TypeOK
<1>1. IInv => TypeOK
  BY DEF IInv
<1>. QED
  BY <1>1, Invariance, PTL

\* What Status = Readable promises to a reader that takes no lock (storage.cpp:117).
THEOREM ReadableEntriesDelivered == Spec => []ReadableAsDelivered
<1>1. IInv => ReadableAsDelivered
  BY DEF IInv, TypeOK, BuffersDelivered, ReadableAsDelivered, Pooled
<1>. QED
  BY <1>1, Invariance, PTL

\* What GetChunk promises to its caller (storage.cpp:52-126).
THEOREM CallsServedDelivered == Spec => []ServedAsDelivered
<1>1. IInv => ServedAsDelivered
  BY DEF IInv
<1>. QED
  BY <1>1, Invariance, PTL

----------------------------------------------------------------------------
(* One entry per chunk *)

\* Only GetPoolData moves entries or renames them.
LEMMA ActionKeepsPool ==
    ASSUME IInv, NEW t \in Threads,
           Step(t) \/ Cancel(t) \/ SpuriousWakeup(t) \/ BufferRace(t)
    PROVE  pool' = pool /\ \A e \in Entries : entry'[e].chunk = entry[e].chunk
<1>. USE DEF IInv, TypeOK, InCall, Goto, files, args
<1>1. ASSUME NEW s \in CHUNK_STATUS, SetStatus(t, s)
      PROVE  \A e \in Entries : entry'[e].chunk = entry[e].chunk
  BY <1>1 DEF SetStatus, PoolData
<1>2. CASE Grab(t) \/ GiveUp(t) \/ Load(t) \/ Restore(t) \/ SetReadable(t)
  BY <1>1, <1>2 DEF Grab, GiveUp, Load, Restore, SetReadable, CHUNK_STATUS
<1>3. CASE Publish(t)
  BY <1>3 DEF Publish, PoolData
<1>4. CASE \/ AnswerCancelled(t) \/ Enter(t) \/ Download(t)
           \/ DownloadCancelled(t) \/ SkipWrite(t) \/ OpenForWrite(t)
           \/ CloseWrite(t) \/ OpenForRead(t) \/ OpenMissingFile(t)
           \/ ReadBadHeader(t) \/ ReadCancelled(t) \/ ReadFile(t)
           \/ Reject(t) \/ RejectOpenFile(t) \/ NotifyAll(t) \/ WaitDone(t)
           \/ WaitMore(t) \/ Sleep(t) \/ Return(t) \/ UseDestroyedEntry(t)
           \/ Cancel(t) \/ SpuriousWakeup(t) \/ BufferRace(t)
  BY <1>4 DEF AnswerCancelled, Enter, Download, DownloadCancelled, SkipWrite,
     OpenForWrite, CloseWrite, OpenForRead, OpenMissingFile, ReadBadHeader,
     ReadCancelled, ReadFile, Reject, RejectOpenFile, NotifyAll, WaitDone, WaitMore,
     Sleep, Return, UseDestroyedEntry, Cancel, SpuriousWakeup, BufferRace, Answer
<1>. QED
  BY <1>2, <1>3, <1>4 DEF Step

\* GetPoolData inserts a chunk only when no entry of the pool has it.
LEMMA InsertOneEntry ==
    ASSUME IInv, OneEntryPerChunk, NEW e \in Entries, NEW c \in Chunks,
           PooledFor(c) = {}, Fresh(e), InsertEntry(e, c)
    PROVE  OneEntryPerChunk'
<1>1. pool \in Seq(Entries) /\ pool' = Append(Kept, e)
  BY DEF IInv, TypeOK, InsertEntry
<1>2. PICK k \in Nat : \A i \in 1 .. Len(Kept) :
         i + k \in 1 .. Len(pool) /\ Kept[i] = pool[i + k]
  BY <1>1, KeptIsTail
<1>3. /\ Kept \in Seq(Entries) /\ Len(Kept) \in Nat /\ Len(Kept) < Capacity
      /\ Len(pool') = Len(Kept) + 1
      /\ \A i \in 1 .. Len(Kept) : pool'[i] = Kept[i]
      /\ pool'[Len(Kept) + 1] = e
  BY <1>1, KeptIsTail
<1>4. \A i \in 1 .. Len(Kept) : /\ pool'[i] = pool[i + k]
                                /\ pool'[i] \in Pooled /\ pool'[i] \in Entries
                                /\ pool'[i] # e /\ pool'[i] \in Pooled'
  BY <1>1, <1>2, <1>3 DEF Pooled, Fresh
<1>5. \A i \in 1 .. Len(Kept) : entry'[pool'[i]] = entry[pool[i + k]]
  BY <1>4, InsertEffect
<1>6. entry'[e].chunk = c
  BY InsertEffect
<1>7. \A i \in 1 .. Len(Kept) : entry'[pool'[i]].chunk # c
  BY <1>4, <1>5 DEF PooledFor
<1>8. ASSUME NEW i \in 1 .. Len(pool'), NEW j \in 1 .. Len(pool'),
             entry'[pool'[i]].chunk = entry'[pool'[j]].chunk
      PROVE  i = j
  <2>1. CASE i \in 1 .. Len(Kept) /\ j \in 1 .. Len(Kept)
    <3>1. i + k \in 1 .. Len(pool) /\ j + k \in 1 .. Len(pool)
      BY <1>2, <2>1
    <3>2. entry[pool[i + k]].chunk = entry[pool[j + k]].chunk
      BY <1>5, <1>8, <2>1
    <3>3. i + k = j + k
      BY <3>1, <3>2 DEF OneEntryPerChunk
    <3>. QED
      BY <3>3
  <2>2. CASE ~(i \in 1 .. Len(Kept) /\ j \in 1 .. Len(Kept))
    BY <1>3, <1>6, <1>7, <1>8, <2>2
  <2>. QED
    BY <2>1, <2>2
<1>9. Len(pool') <= Capacity
  BY <1>3, CapacityAssumption
<1>. QED
  BY <1>8, <1>9 DEF OneEntryPerChunk

\* The pool never holds a chunk twice nor outgrows its capacity (storage.cpp:141-159).
THEOREM PoolHasOneEntryPerChunk == Spec => []OneEntryPerChunk
<1>1. Init => OneEntryPerChunk
  BY CapacityAssumption DEF Init, OneEntryPerChunk
<1>2. IInv /\ OneEntryPerChunk /\ [Next]_vars => OneEntryPerChunk'
  <2>. SUFFICES ASSUME IInv, OneEntryPerChunk, [Next]_vars
                PROVE  OneEntryPerChunk'
    OBVIOUS
  <2>1. CASE UNCHANGED vars
    BY <2>1 DEF vars, OneEntryPerChunk
  <2>2. CASE Restart
    <3>1. pool' = <<>>
      BY <2>2 DEF Restart, Start
    <3>. QED
      BY <3>1, CapacityAssumption DEF OneEntryPerChunk
  <2>3. ASSUME NEW t \in Threads, NEW c \in Chunks, Call(t, c)
        PROVE  OneEntryPerChunk'
    <3>1. CASE UNCHANGED <<pool, entry>>
      BY <3>1 DEF OneEntryPerChunk
    <3>2. CASE \E e \in Entries : PooledFor(c) = {} /\ Fresh(e) /\ InsertEntry(e, c)
      BY <3>2, InsertOneEntry
    <3>. QED
      BY <2>3, <3>1, <3>2 DEF Call, GetPoolData
  <2>4. ASSUME NEW t \in Threads,
               Step(t) \/ Cancel(t) \/ SpuriousWakeup(t) \/ BufferRace(t)
        PROVE  OneEntryPerChunk'
    <3>1. pool' = pool /\ \A e \in Entries : entry'[e].chunk = entry[e].chunk
      BY <2>4, ActionKeepsPool
    <3>2. \A i \in 1 .. Len(pool) : pool[i] \in Entries
      BY DEF IInv, TypeOK
    <3>. QED
      BY <3>1, <3>2 DEF OneEntryPerChunk
  <2>. QED
    BY <2>1, <2>2, <2>3, <2>4 DEF Next
<1>. QED
  BY <1>1, <1>2, Invariance, PTL DEF Spec

----------------------------------------------------------------------------
(* Room for every chunk, and whole files *)

\* Where a thread downloads, and where it goes by the file.
WriteLabels == {"grab", "download", "giveUp", "got", "write", "reject"}
ReadLabels == {"load", "open", "read", "reject", "restore"}

\* A file that was there at the start is never written, and one that was not is
\* never read: its entry goes to Readable without Available.
ReadOnly(c) ==
    /\ disk[c] = "good"
    /\ \A t \in Threads : want[t] = c => pc[t] \notin WriteLabels
    /\ \A e \in PooledFor(c) : entry[e].status \notin {"Unavailable", "Grabbing"}

WriteOnly(c) ==
    /\ disk[c] # "absent" => PooledFor(c) # {}
    /\ \A t \in Threads : want[t] = c => pc[t] \notin ReadLabels
    /\ \A e \in PooledFor(c) : entry[e].status \notin {"Available", "Reading"}

\* Nothing is evicted, so that every reference stays live.
RoomyInv ==
    /\ IInv /\ OneEntryPerChunk
    /\ \A t \in Threads : pc[t] # "idle" => Live(t)
    /\ \A e \in Pooled : entry[e].chunk \in Chunks
    /\ \A c \in Chunks : ReadOnly(c) \/ WriteOnly(c)
    /\ fault \in {"none", "bufferRace"}

\* A step of t that touches no entry but its own, and no file but its chunk's.
LEMMA RoomyStep ==
    ASSUME RoomyInv, NEW t \in Threads, pc[t] # "idle",
           pool' = pool, want' = want, IInv', OneEntryPerChunk',
           \A e \in Entries : entry'[e].chunk = entry[e].chunk,
           \A u \in Threads \ {t} : /\ ref'[u] = ref[u]
                                    /\ pc'[u] = pc[u] \/ (pc'[u] = "wait" /\ pc[u] # "idle"),
           pc'[t] = "idle" \/ ref'[t] = ref[t],
           \A c \in Chunks : c # want[t] => disk'[c] = disk[c],
           \A e \in Entries : e # ref[t] => entry'[e].status = entry[e].status,
           ReadOnly(want[t]) => /\ disk'[want[t]] = "good" /\ pc'[t] \notin WriteLabels
                                /\ entry'[ref[t]].status \notin {"Unavailable", "Grabbing"},
           WriteOnly(want[t]) => /\ pc'[t] \notin ReadLabels
                                 /\ entry'[ref[t]].status \notin {"Available", "Reading"},
           fault' \in {"none", "bufferRace"}
    PROVE  RoomyInv'
<1>1. /\ Pooled' = Pooled /\ Pooled \subseteq Entries
      /\ \A c : PooledFor(c)' = PooledFor(c) /\ PooledFor(c) \subseteq Entries
  BY DEF RoomyInv, IInv, TypeOK, Pooled, PooledFor
<1>2. ref[t] \in PooledFor(want[t]) /\ want[t] \in Chunks
  BY DEF RoomyInv, IInv, InCall, RefMatches, Live, PooledFor
<1>3. \A u \in Threads : pc'[u] # "idle" => Live(u)'
  BY <1>1 DEF RoomyInv, Live
<1>4. \A e \in Pooled' : entry'[e].chunk \in Chunks'
  BY <1>1 DEF RoomyInv
<1>5. ASSUME NEW c \in Chunks, ReadOnly(c) PROVE ReadOnly(c)'
  <2>1. "wait" \notin WriteLabels
    BY DEF WriteLabels
  <2>2. disk'[c] = "good"
    BY <1>5 DEF ReadOnly
  <2>3. \A u \in Threads : want'[u] = c => pc'[u] \notin WriteLabels
    BY <1>5, <2>1 DEF ReadOnly
  <2>4. \A e \in PooledFor(c) : entry'[e].status \notin {"Unavailable", "Grabbing"}
    <3>1. ASSUME NEW e \in PooledFor(c), e = ref[t] PROVE c = want[t]
      BY <1>2, <3>1 DEF PooledFor
    <3>. QED
      BY <1>1, <1>5, <3>1 DEF ReadOnly
  <2>. QED
    BY <1>1, <2>2, <2>3, <2>4 DEF ReadOnly
<1>6. ASSUME NEW c \in Chunks, WriteOnly(c) PROVE WriteOnly(c)'
  <2>1. "wait" \notin ReadLabels
    BY DEF ReadLabels
  <2>2. disk'[c] # "absent" => PooledFor(c) # {}
    BY <1>2, <1>6 DEF WriteOnly
  <2>3. \A u \in Threads : want'[u] = c => pc'[u] \notin ReadLabels
    BY <1>6, <2>1 DEF WriteOnly
  <2>4. \A e \in PooledFor(c) : entry'[e].status \notin {"Available", "Reading"}
    <3>1. ASSUME NEW e \in PooledFor(c), e = ref[t] PROVE c = want[t]
      BY <1>2, <3>1 DEF PooledFor
    <3>. QED
      BY <1>1, <1>6, <3>1 DEF WriteOnly
  <2>. QED
    BY <1>1, <2>2, <2>3, <2>4 DEF WriteOnly
<1>. QED
  BY <1>3, <1>4, <1>5, <1>6 DEF RoomyInv

\* What each action of GetChunk does to the entry, the file and the place of its thread.
LEMMA RoomyAction ==
    ASSUME RoomyInv, fault = "none", NEW t \in Threads,
           Step(t) \/ Cancel(t) \/ SpuriousWakeup(t) \/ BufferRace(t)
    PROVE  RoomyInv'
<1>1. IInv'
  BY ActionIInv DEF RoomyInv
<1>2. pool' = pool /\ \A e \in Entries : entry'[e].chunk = entry[e].chunk
  BY ActionKeepsPool DEF RoomyInv
<1>3. OneEntryPerChunk'
  <2>1. \A i \in 1 .. Len(pool) : pool[i] \in Entries
    BY DEF RoomyInv, IInv, TypeOK
  <2>. QED
    BY <1>2, <2>1 DEF RoomyInv, OneEntryPerChunk
<1>4. pc[t] # "idle"
  BY DEF Step, AnswerCancelled, Enter, Grab, Download, DownloadCancelled, GiveUp, SkipWrite,
     OpenForWrite, CloseWrite, Load, OpenForRead, OpenMissingFile, ReadBadHeader,
     ReadCancelled, ReadFile, Restore, Reject, RejectOpenFile, Publish, SetReadable,
     NotifyAll, WaitDone, WaitMore, Sleep, Return, UseDestroyedEntry, TouchLabels,
     Cancel, SpuriousWakeup, BufferRace
<1>5. /\ ref[t] \in Entries /\ want[t] \in Chunks /\ Live(t)
      /\ ref[t] \in PooledFor(want[t])
      /\ ReadOnly(want[t]) \/ WriteOnly(want[t])
      /\ pc \in [Threads -> Labels] /\ ref \in [Threads -> Entries \union {NoEntry}]
      /\ disk \in [Chunks -> FileState]
      /\ entry \in [Entries -> PoolData]
      /\ fault \in {"none", "bufferRace"}
  BY <1>4 DEF RoomyInv, IInv, TypeOK, InCall, RefMatches, Live, PooledFor
<1>6. /\ ReadOnly(want[t]) => /\ disk[want[t]] = "good" /\ pc[t] \notin WriteLabels
                              /\ entry[ref[t]].status \notin {"Unavailable", "Grabbing"}
      /\ WriteOnly(want[t]) => /\ pc[t] \notin ReadLabels
                               /\ entry[ref[t]].status \notin {"Available", "Reading"}
  BY <1>5 DEF ReadOnly, WriteOnly
<1>7. ASSUME NEW s \in CHUNK_STATUS, SetStatus(t, s)
      PROVE  /\ entry'[ref[t]].status = s
             /\ \A e \in Entries : e # ref[t] => entry'[e].status = entry[e].status
  BY <1>5, <1>7 DEF SetStatus, PoolData
<1>8. ASSUME NEW l, ref' = ref, want' = want, pc' = [pc EXCEPT ![t] = l], fault' = fault
      PROVE  /\ pc'[t] = l /\ ref'[t] = ref[t] /\ fault' \in {"none", "bufferRace"}
             /\ \A u \in Threads \ {t} : ref'[u] = ref[u] /\ pc'[u] = pc[u]
  BY <1>5, <1>8
<1> USE DEF Goto, files, args, WriteLabels, ReadLabels
<1>9. CASE Grab(t) \/ GiveUp(t)
  <2>1. PICK s \in {"Grabbing", "Unavailable"}, l \in {"download", "return"} :
          /\ SetStatus(t, s) /\ Goto(t, l) /\ UNCHANGED <<ref, want, disk, fault>>
          /\ pc[t] \in {"grab", "giveUp"}
    BY <1>9 DEF Grab, GiveUp
  <2>2. s \in CHUNK_STATUS
    BY <2>1 DEF CHUNK_STATUS
  <2>3. ~ReadOnly(want[t])
    BY <1>6, <2>1
  <2>. QED
    BY <1>1, <1>2, <1>3, <1>4, <1>7, <1>8, <2>1, <2>2, <2>3, RoomyStep
<1>10. CASE Load(t) \/ Restore(t)
  <2>1. PICK s \in {"Reading", "Available"}, l \in {"open", "return"} :
          /\ SetStatus(t, s) /\ Goto(t, l) /\ UNCHANGED <<ref, want, disk, fault>>
          /\ pc[t] \in {"load", "restore"}
    BY <1>10 DEF Load, Restore
  <2>2. s \in CHUNK_STATUS
    BY <2>1 DEF CHUNK_STATUS
  <2>3. ~WriteOnly(want[t])
    BY <1>6, <2>1
  <2>. QED
    BY <1>1, <1>2, <1>3, <1>4, <1>6, <1>7, <1>8, <2>1, <2>2, <2>3, RoomyStep
<1>11. CASE SetReadable(t)
  <2>1. SetStatus(t, "Readable") /\ Goto(t, "notify") /\ UNCHANGED <<ref, want, disk, fault>>
    BY <1>11 DEF SetReadable
  <2>2. "Readable" \in CHUNK_STATUS
    BY DEF CHUNK_STATUS
  <2>3. /\ entry'[ref[t]].status = "Readable"
        /\ \A e \in Entries : e # ref[t] => entry'[e].status = entry[e].status
    BY <1>7, <2>1, <2>2
  <2>4. /\ pc'[t] = "notify" /\ ref'[t] = ref[t] /\ fault' \in {"none", "bufferRace"}
        /\ \A u \in Threads \ {t} : ref'[u] = ref[u] /\ pc'[u] = pc[u]
    BY <1>8, <2>1
  <2>. QED
    BY <1>1, <1>2, <1>3, <1>4, <1>6, <2>1, <2>3, <2>4, RoomyStep
<1>12. CASE Publish(t)
  <2>1. /\ entry' = [entry EXCEPT ![ref[t]].buffer = data[t]]
        /\ Goto(t, "ready") /\ UNCHANGED <<ref, want, disk, fault>>
    BY <1>12 DEF Publish
  <2>2. \A e \in Entries : entry'[e].status = entry[e].status
    BY <1>5, <2>1 DEF PoolData
  <2>. QED
    BY <1>1, <1>2, <1>3, <1>4, <1>5, <1>6, <1>8, <2>1, <2>2, RoomyStep
<1>13. CASE Enter(t)
  <2>1. /\ Goto(t, Case(Status(t))) /\ UNCHANGED <<ref, want, disk, fault, entry>>
    BY <1>13 DEF Enter
  <2>2. /\ ReadOnly(want[t]) => Case(Status(t)) \in {"load", "wait", "return"}
        /\ WriteOnly(want[t]) => Case(Status(t)) \in {"grab", "wait", "return"}
    <3>1. Status(t) \in CHUNK_STATUS
      BY <1>5 DEF Status, PoolData
    <3>. QED
      BY <1>6, <3>1 DEF Case, Status, CHUNK_STATUS
  <2>. HIDE DEF Goto
  <2>3. pc' = [pc EXCEPT ![t] = Case(Status(t))]
    BY <2>1 DEF Goto
  <2>. QED
    BY <1>1, <1>2, <1>3, <1>4, <1>5, <1>6, <1>8, <2>1, <2>2, <2>3, RoomyStep
<1>14. CASE \/ Download(t) \/ DownloadCancelled(t) \/ SkipWrite(t) \/ OpenForRead(t)
            \/ ReadBadHeader(t) \/ ReadCancelled(t) \/ ReadFile(t)
            \/ WaitDone(t) \/ WaitMore(t) \/ Sleep(t) \/ SpuriousWakeup(t)
  <2>1. UNCHANGED <<ref, want, disk, fault, entry>>
    BY <1>14 DEF Download, DownloadCancelled, SkipWrite, OpenForRead, ReadBadHeader,
       ReadCancelled, ReadFile, WaitDone, WaitMore, Sleep, SpuriousWakeup
  <2>2. \E l : /\ pc' = [pc EXCEPT ![t] = l]
               /\ ReadOnly(want[t]) => l \notin WriteLabels
               /\ WriteOnly(want[t]) => l \notin ReadLabels
    <3>1. CASE Download(t) \/ DownloadCancelled(t) \/ SkipWrite(t)
      BY <1>6, <3>1 DEF Download, DownloadCancelled, SkipWrite
    <3>2. CASE OpenForRead(t) \/ ReadCancelled(t)
      BY <1>6, <3>2 DEF OpenForRead, ReadCancelled
    <3>3. CASE ReadBadHeader(t) \/ ReadFile(t)
      <4>1. ReadOnly(want[t]) /\ ~WriteOnly(want[t]) /\ disk[want[t]] = "good"
        BY <1>5, <1>6, <3>3 DEF ReadBadHeader, ReadFile
      <4>2. pc' = [pc EXCEPT ![t] = "publish"]
        BY <3>3, <4>1 DEF ReadBadHeader, ReadFile, HashMatches
      <4>. QED
        BY <4>1, <4>2
    <3>4. CASE WaitDone(t) \/ WaitMore(t) \/ Sleep(t) \/ SpuriousWakeup(t)
      BY <3>4 DEF WaitDone, WaitMore, Sleep, SpuriousWakeup
    <3>. QED
      BY <1>14, <3>1, <3>2, <3>3, <3>4
  <2>. QED
    BY <1>1, <1>2, <1>3, <1>4, <1>5, <1>6, <1>8, <2>1, <2>2, RoomyStep
<1>15. CASE OpenForWrite(t) \/ CloseWrite(t)
  <2>1. /\ UNCHANGED <<ref, want, fault, entry>> /\ pc[t] \in {"got", "write"}
        /\ \E l \in {"write", "publish"} : pc' = [pc EXCEPT ![t] = l]
        /\ \A c \in Chunks : c # want[t] => disk'[c] = disk[c]
    BY <1>5, <1>15 DEF OpenForWrite, CloseWrite
  <2>2. ~ReadOnly(want[t])
    BY <1>6, <2>1
  <2>. QED
    BY <1>1, <1>2, <1>3, <1>4, <1>5, <1>6, <1>8, <2>1, <2>2, RoomyStep
<1>16. CASE \/ OpenMissingFile(t) \/ Reject(t) \/ RejectOpenFile(t) \/ UseDestroyedEntry(t)
  <2>1. ~(OpenMissingFile(t) \/ Reject(t) \/ RejectOpenFile(t))
    BY <1>5, <1>6 DEF OpenMissingFile, Reject, RejectOpenFile
  <2>. QED
    BY <1>5, <1>16, <2>1 DEF UseDestroyedEntry
<1>17. CASE AnswerCancelled(t) \/ Return(t)
  <2>1. /\ pc'[t] = "idle" /\ UNCHANGED <<want, disk, entry, fault>>
        /\ \A u \in Threads \ {t} : ref'[u] = ref[u] /\ pc'[u] = pc[u]
    BY <1>5, <1>17 DEF AnswerCancelled, Return, Answer
  <2>. QED
    BY <1>1, <1>2, <1>3, <1>4, <1>5, <1>6, <2>1, RoomyStep
<1>18. CASE NotifyAll(t)
  <2>1. /\ UNCHANGED <<ref, want, disk, entry, fault>>
        /\ pc' = [u \in Threads |-> CASE u = t -> "return"
                                      [] u \in Waiters(ref[t]) -> "wait"
                                      [] OTHER -> pc[u]]
    BY <1>18 DEF NotifyAll
  <2>2. /\ pc'[t] = "return"
        /\ \A u \in Threads \ {t} :
             pc'[u] = pc[u] \/ (pc'[u] = "wait" /\ pc[u] # "idle")
    <3>1. pc'[t] = "return"
      <4>1. t \notin Waiters(ref[t])
        BY <1>18 DEF NotifyAll, Waiters
      <4>. QED
        BY <2>1, <4>1
    <3>2. ASSUME NEW u \in Threads \ {t}, u \in Waiters(ref[t])
          PROVE  pc'[u] = "wait" /\ pc[u] # "idle"
      <4>1. pc[u] = "asleep"
        BY <3>2 DEF Waiters
      <4>2. pc'[u] = "wait"
        BY <2>1, <3>2
      <4>. QED
        BY <4>1, <4>2
    <3>3. ASSUME NEW u \in Threads \ {t}, u \notin Waiters(ref[t])
          PROVE  pc'[u] = pc[u]
      BY <2>1, <3>3
    <3>. QED
      BY <3>1, <3>2, <3>3
  <2>. QED
    BY <1>1, <1>2, <1>3, <1>4, <1>5, <1>6, <2>1, <2>2, RoomyStep
<1>19. CASE Cancel(t) \/ BufferRace(t)
  <2>1. /\ UNCHANGED <<pc, ref, want, disk, entry>>
        /\ fault' \in {fault, "bufferRace"}
    BY <1>19 DEF Cancel, BufferRace
  <2>. QED
    BY <1>1, <1>2, <1>3, <1>4, <1>5, <1>6, <2>1, RoomyStep
<1>. QED
  BY <1>9, <1>10, <1>11, <1>12, <1>13, <1>14, <1>15, <1>16, <1>17, <1>18, <1>19 DEF Step

\* A chunk that is not in the pool finds room in it.
LEMMA NothingEvicted ==
    ASSUME RoomyInv, NEW c \in Chunks, PooledFor(c) = {},
           IsFiniteSet(Chunks), Cardinality(Chunks) <= Capacity
    PROVE  Kept = pool
<1>1. pool \in Seq(Entries) /\ Len(pool) \in Nat /\ Capacity \in Nat
  BY CapacityAssumption DEF RoomyInv, IInv, TypeOK
<1>2. SUFFICES ASSUME Len(pool) >= Capacity PROVE FALSE
  BY <1>1 DEF Kept
<1>. DEFINE I == 1 .. Len(pool)
            f == [i \in I |-> entry[pool[i]].chunk]
<1>3. f \in [I -> Chunks \ {c}]
  BY <1>1 DEF RoomyInv, Pooled, PooledFor
<1>4. IsFiniteSet(I) /\ Cardinality(I) = Len(pool)
  <2>1. 1 \in Int /\ Len(pool) \in Int
    BY <1>1
  <2>2. IsFiniteSet(I) /\ Cardinality(I) = IF 1 > Len(pool) THEN 0 ELSE Len(pool) - 1 + 1
    BY <2>1, FS_Interval
  <2>. QED
    BY <1>1, <2>2
<1>5. /\ IsFiniteSet(Chunks \ {c}) /\ Cardinality(Chunks) \in Nat
      /\ Cardinality(Chunks \ {c}) = Cardinality(Chunks) - 1
  BY FS_RemoveElement, FS_CardinalityType
<1>6. Cardinality(Chunks \ {c}) < Cardinality(I)
  BY <1>1, <1>2, <1>4, <1>5
<1>. HIDE DEF I
<1>7. \E i, j \in I : i # j /\ f[i] = f[j]
  <2>. HIDE DEF f
  <2>. QED
    BY <1>3, <1>4, <1>5, <1>6, FS_PigeonHole
<1>. QED
  BY <1>7 DEF RoomyInv, OneEntryPerChunk, I

LEMMA RoomyCall ==
    ASSUME RoomyInv, NEW t \in Threads, NEW c \in Chunks, Call(t, c),
           IsFiniteSet(Chunks), Cardinality(Chunks) <= Capacity
    PROVE  RoomyInv'
<1>1. IInv'
  BY CallIInv DEF RoomyInv
<1>2. /\ pc[t] = "idle" /\ pc'[t] = "enter" /\ want'[t] = c /\ UNCHANGED <<disk, fault>>
      /\ \A u \in Threads \ {t} : pc'[u] = pc[u] /\ want'[u] = want[u]
  BY DEF Call, Goto, RoomyInv, IInv, TypeOK
<1>3. PICK e \in Entries :
         /\ ref' = [ref EXCEPT ![t] = e]
         /\ \/ e \in PooledFor(c) /\ UNCHANGED <<pool, entry>>
            \/ PooledFor(c) = {} /\ Fresh(e) /\ InsertEntry(e, c)
  <2>1. Pooled \subseteq Entries
    BY DEF Pooled, RoomyInv, IInv, TypeOK
  <2>. QED
    BY <2>1 DEF Call, GetPoolData, PooledFor
<1>4. /\ Pooled \subseteq Entries /\ OneEntryPerChunk'
      /\ Pooled' = Pooled \union {e} /\ entry'[e].chunk = c
      /\ \A x \in Pooled : entry'[x] = entry[x]
      /\ e \in Pooled \/ (PooledFor(c) = {} /\ entry'[e].status = UnpooledStatus(c))
  <2>1. Pooled \subseteq Entries
    BY DEF Pooled, RoomyInv, IInv, TypeOK
  <2>2. CASE e \in PooledFor(c) /\ UNCHANGED <<pool, entry>>
    BY <2>1, <2>2 DEF PooledFor, Pooled, RoomyInv, OneEntryPerChunk
  <2>3. CASE PooledFor(c) = {} /\ Fresh(e) /\ InsertEntry(e, c)
    <3>1. OneEntryPerChunk'
      BY <2>3, InsertOneEntry DEF RoomyInv
    <3>2. pool \in Seq(Entries) /\ KeptEntries = Pooled
      BY <2>3, NothingEvicted DEF KeptEntries, Pooled, RoomyInv, IInv, TypeOK
    <3>3. Pooled' = Pooled \union {e}
      BY <2>3, <3>2, AppendPool DEF InsertEntry
    <3>. DEFINE new == [chunk |-> c, status |-> UnpooledStatus(c), buffer |-> Null]
    <3>4. entry' = [x \in Entries |-> CASE x = e -> new
                                        [] x \in KeptEntries -> entry[x]
                                        [] OTHER -> Blank]
      BY <2>3 DEF InsertEntry, KeptEntries
    <3>5. e \notin Pooled
      BY <2>3 DEF Fresh
    <3>6. entry'[e] = new
      <4>. HIDE DEF new
      <4>. QED
        BY <3>2, <3>4, <3>5
    <3>7. \A x \in Pooled : entry'[x] = entry[x]
      BY <2>1, <3>2, <3>4, <3>5
    <3>. QED
      BY <2>1, <2>3, <3>1, <3>3, <3>6, <3>7
  <2>. QED
    BY <1>3, <2>2, <2>3
<1>5. \A u \in Threads : pc'[u] # "idle" => Live(u)'
  BY <1>2, <1>3, <1>4 DEF RoomyInv, IInv, TypeOK, Live
<1>6. \A x \in Pooled' : entry'[x].chunk \in Chunks'
  BY <1>4 DEF RoomyInv
<1>7. ASSUME NEW d \in Chunks, d # c \/ e \in Pooled
      PROVE  PooledFor(d)' = PooledFor(d) /\ \A x \in PooledFor(d) : entry'[x] = entry[x]
  BY <1>4, <1>7 DEF PooledFor
<1>8. ASSUME e \notin Pooled
      PROVE  /\ PooledFor(c)' = {e} /\ PooledFor(c) = {}
             /\ entry'[e].status = UnpooledStatus(c)
  BY <1>4, <1>8 DEF PooledFor
<1>9. ASSUME NEW d \in Chunks
      PROVE (ReadOnly(d) => ReadOnly(d)') /\ (WriteOnly(d) => WriteOnly(d)')
  <2>1. "enter" \notin WriteLabels /\ "enter" \notin ReadLabels
    BY DEF WriteLabels, ReadLabels
  <2>2. \A u \in Threads : want'[u] = d => pc'[u] = "enter" \/ (pc'[u] = pc[u] /\ want[u] = d)
    BY <1>2
  <2>3. CASE d # c \/ e \in Pooled
    BY <1>2, <1>7, <2>1, <2>2, <2>3 DEF ReadOnly, WriteOnly
  <2>4. CASE d = c /\ e \notin Pooled
    <3>1. ReadOnly(d) => UnpooledStatus(c) = "Available"
      BY <2>4 DEF ReadOnly, UnpooledStatus
    <3>2. WriteOnly(d) => UnpooledStatus(c) = "Unavailable"
      BY <1>8, <2>4 DEF WriteOnly, UnpooledStatus
    <3>. QED
      BY <1>2, <1>8, <2>1, <2>2, <2>4, <3>1, <3>2 DEF ReadOnly, WriteOnly
  <2>. QED
    BY <2>3, <2>4
<1>10. \A d \in Chunks : (ReadOnly(d) \/ WriteOnly(d))'
  BY <1>9 DEF RoomyInv
<1>. QED
  BY <1>1, <1>2, <1>4, <1>5, <1>6, <1>10 DEF RoomyInv

\* With room for every chunk and no kill, a process that starts from whole files meets
\* nothing worse than the race on Buffer: GetPoolData (storage.cpp:141-159) then evicts
\* nothing that GetChunk still refers to, and no file that Status promised goes away.
THEOREM WholeFilesOnlyRace ==
    ASSUME IsFiniteSet(Chunks), Cardinality(Chunks) <= Capacity, ~MayRestart
    PROVE  Spec => OnlyBufferRace
<1>. DEFINE Whole == \A c \in Chunks : disk[c] \in {"absent", "good"}
            OnlyRace == fault \in {"none", "bufferRace"}
<1>1. Init /\ Whole => RoomyInv
  <2>. SUFFICES ASSUME Init, Whole PROVE RoomyInv
    OBVIOUS
  <2>1. IInv
    BY InitIInv
  <2>2. Pooled = {} /\ OneEntryPerChunk
    BY CapacityAssumption DEF Init, Pooled, OneEntryPerChunk
  <2>3. ASSUME NEW c \in Chunks PROVE ReadOnly(c) \/ WriteOnly(c)
    BY <2>2 DEF Init, ReadOnly, WriteOnly, PooledFor, WriteLabels, ReadLabels
  <2>. QED
    BY <2>1, <2>2, <2>3 DEF RoomyInv, Init
<1>2. RoomyInv /\ [Next]_vars => RoomyInv'
  <2>. SUFFICES ASSUME RoomyInv, [Next]_vars PROVE RoomyInv'
    OBVIOUS
  <2>1. CASE UNCHANGED vars
    <3>1. IInv'
      BY <2>1, StutterIInv DEF RoomyInv
    <3>. QED
      BY <2>1, <3>1 DEF vars, RoomyInv, OneEntryPerChunk, Live, Pooled, PooledFor,
         ReadOnly, WriteOnly
  <2>2. ASSUME NEW t \in Threads, NEW c \in Chunks, Call(t, c) PROVE RoomyInv'
    BY <2>2, RoomyCall
  <2>3. ASSUME fault = "none", NEW t \in Threads,
               Step(t) \/ Cancel(t) \/ SpuriousWakeup(t) \/ BufferRace(t)
        PROVE  RoomyInv'
    BY <2>3, RoomyAction
  <2>4. ~Restart
    BY DEF Restart
  <2>. QED
    BY <2>1, <2>2, <2>3, <2>4 DEF Next
<1>3. RoomyInv => OnlyRace
  BY DEF RoomyInv
<1>4. OnlyBufferRace <=> (Whole => []OnlyRace)
  BY DEF OnlyBufferRace
<1>. HIDE DEF Whole, OnlyRace
<1>. QED
  BY <1>1, <1>2, <1>3, <1>4, PTL DEF Spec

----------------------------------------------------------------------------
(* GetChunk implements ChunkStore *)

busy == {t \in Threads : pc[t] # "idle"}

\* An answer is a Reply: intact, or Null to a cancelled caller.
LEMMA AnswerIsReply ==
    ASSUME IInv, fault = "none", NEW t \in Threads,
           AnswerCancelled(t) \/ Return(t)
    PROVE  Store!Reply(t)
<1>. USE DEF IInv, TypeOK, InCall
<1>1. PICK d : /\ pc[t] # "idle" /\ Answer(t, d)
               /\ d \in Delivered(want[t]) \/ (d = Null /\ t \in cancelled)
  <2>1. CASE AnswerCancelled(t)
    BY <2>1 DEF AnswerCancelled
  <2>2. CASE Return(t)
    <3>1. /\ pc[t] = "return" /\ Live(t) /\ ref[t] \in Entries
          /\ Answer(t, entry[ref[t]].buffer)
      BY <2>2 DEF Return
    <3>2. \/ entry[ref[t]].buffer \in Delivered(want[t])
          \/ entry[ref[t]].buffer = Null /\ t \in cancelled
      BY <3>1 DEF LocalsDelivered, BuffersDelivered, RefMatches
    <3>. QED
      BY <3>1, <3>2
  <2>. QED
    BY <2>1, <2>2
<1>2. /\ pc' = [pc EXCEPT ![t] = "idle"] /\ got' = [got EXCEPT ![t] = d]
      /\ UNCHANGED <<want, cancelled, fault>>
  BY <1>1 DEF Answer, Goto
<1>3. busy' = busy \ {t} /\ t \in busy
  BY <1>1, <1>2 DEF busy
<1>4. /\ d \in {want[t], Damaged, Null} /\ want[t] \in Chunks
      /\ d = Damaged => want[t] \in Corruptible
      /\ d = Null => t \in cancelled
  BY <1>1, NamesAssumption DEF Delivered
<1>. QED
  BY <1>2, <1>3, <1>4 DEF Store!Reply, busy

\* Every other step inside GetChunk is invisible, or breaks the process.
LEMMA InnerStepIsHidden ==
    ASSUME IInv, fault = "none", NEW t \in Threads,
           Step(t) \/ SpuriousWakeup(t) \/ BufferRace(t),
           ~AnswerCancelled(t), ~Return(t)
    PROVE  UNCHANGED Store!vars \/ Store!Break
<1>. USE DEF IInv, TypeOK, Goto, files, args, Labels, TouchLabels
<1>1. CASE OpenMissingFile(t) \/ RejectOpenFile(t) \/ UseDestroyedEntry(t) \/ BufferRace(t)
  BY <1>1 DEF OpenMissingFile, RejectOpenFile, UseDestroyedEntry, BufferRace, Store!Break
<1>2. CASE \/ Enter(t) \/ Grab(t) \/ Download(t) \/ DownloadCancelled(t) \/ GiveUp(t)
           \/ SkipWrite(t) \/ OpenForWrite(t) \/ CloseWrite(t) \/ Load(t)
           \/ OpenForRead(t) \/ ReadBadHeader(t) \/ ReadCancelled(t) \/ ReadFile(t)
           \/ Restore(t) \/ Reject(t) \/ Publish(t) \/ SetReadable(t) \/ NotifyAll(t)
           \/ WaitDone(t) \/ WaitMore(t) \/ Sleep(t) \/ SpuriousWakeup(t)
  <2>1. UNCHANGED <<want, got, cancelled, fault>>
    BY <1>2 DEF Enter, Grab, Download, DownloadCancelled, GiveUp, SkipWrite,
       OpenForWrite, CloseWrite, Load, OpenForRead, ReadBadHeader, ReadCancelled,
       ReadFile, Restore, Reject, Publish, SetReadable, NotifyAll, WaitDone, WaitMore,
       Sleep, SpuriousWakeup
  <2>2. \A u \in Threads : pc'[u] = "idle" <=> pc[u] = "idle"
    <3>1. CASE Enter(t)
      <4>1. Status(t) \in CHUNK_STATUS
        BY <3>1 DEF Enter, Status, PoolData, InCall
      <4>2. Case(Status(t)) # "idle"
        BY <4>1, CaseLabels
      <4>. QED
        BY <3>1, <4>2 DEF Enter
    <3>2. CASE NotifyAll(t)
      BY <3>2 DEF NotifyAll, Waiters
    <3>3. CASE ~Enter(t) /\ ~NotifyAll(t)
      BY <1>2, <3>3 DEF Grab, Download, DownloadCancelled, GiveUp, SkipWrite,
         OpenForWrite, CloseWrite, Load, OpenForRead, ReadBadHeader, ReadCancelled,
         ReadFile, AfterFailedRead, Restore, Reject, Publish, SetReadable, WaitDone,
         WaitMore, Sleep, SpuriousWakeup
    <3>. QED
      BY <3>1, <3>2, <3>3
  <2>. QED
    BY <2>1, <2>2 DEF Store!vars
<1>. QED
  BY <1>1, <1>2 DEF Step

\* Every step of the pool is a step of ChunkStore or invisible to it.
LEMMA StepRefines == IInv /\ [Next]_vars => [Store!Next]_(Store!vars)
<1>. SUFFICES ASSUME IInv, [Next]_vars PROVE Store!Next \/ UNCHANGED Store!vars
  OBVIOUS
<1>. USE DEF IInv, TypeOK
<1>1. CASE UNCHANGED vars
  BY <1>1 DEF vars, Store!vars
<1>2. CASE Restart
  BY <1>2 DEF Restart, Start, Store!Next, Store!Restart
<1>3. ASSUME fault = "none", NEW t \in Threads, NEW c \in Chunks, Call(t, c)
      PROVE  Store!Next
  <2>1. Store!Ask(t, c)
    BY <1>3 DEF Call, Goto, Store!Ask, Labels, TouchLabels
  <2>. QED
    BY <2>1 DEF Store!Next
<1>4. ASSUME fault = "none", NEW t \in Threads, Cancel(t)
      PROVE  Store!Next
  <2>1. Store!Cancel(t)
    BY <1>4 DEF Cancel, Store!Cancel
  <2>. QED
    BY <2>1 DEF Store!Next
<1>5. ASSUME fault = "none", NEW t \in Threads,
             Step(t) \/ SpuriousWakeup(t) \/ BufferRace(t)
      PROVE  Store!Next \/ UNCHANGED Store!vars
  <2>1. CASE AnswerCancelled(t) \/ Return(t)
    BY <1>5, <2>1, AnswerIsReply DEF Store!Next
  <2>2. CASE ~AnswerCancelled(t) /\ ~Return(t)
    BY <1>5, <2>2, InnerStepIsHidden DEF Store!Next
  <2>. QED
    BY <2>1, <2>2
<1>. QED
  BY <1>1, <1>2, <1>3, <1>4, <1>5 DEF Next

\* GetChunk is a read of immutable content until it faults (storage.cpp:52-126).
THEOREM Refinement == Spec => StoreSpec
<1>1. Init => Store!Init
  BY DEF Init, Store!Init
<1>. QED
  BY <1>1, StepRefines, Invariance, PTL DEF Spec, StoreSpec, Store!Spec
=====
