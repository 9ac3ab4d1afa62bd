--------------------------- MODULE Threads_proofs --------------------------
(***************************************************************************)
(* The parts of EGL2 whose threads share their work on this computer: the  *)
(* compression contexts, the statistics of the storage, and the setup of   *)
(* the game directory; for any number of threads, chunks and files.        *)
(***************************************************************************)
EXTENDS CtxPool, StorageStats, SetupGameDir,
        FiniteSetTheorems, FunctionTheorems, SequenceTheorems, TLAPS

-----------------------------------------------------------------------------
(***************************************************************************)
(* For any finite set of threads: a context has one user, and there are    *)
(* never more contexts than threads. The invariant ties the two deques to  *)
(* the places of the threads, and counts, for the thread that walks the    *)
(* deques, those it has met on its way: they may have released their       *)
(* context since, but cannot take another one while it walks.              *)
(***************************************************************************)
\* What a user is at is there, and locked by it.
Holders ==
    /\ ctxs = Len(holder)
    /\ \A t \in Users : using[t] \in 1 .. ctxs /\ holder[using[t]] = t

\* What is locked has a user.
Locked ==
    \A i \in 1 .. ctxs :
        holder[i] \in CtxThreads => holder[i] \in Users /\ using[holder[i]] = i

\* The others that are not at a place the walk has still to come to.
Passed == {u \in CtxThreads \ {finder} : using[u] < using[finder]}

Walk ==
    finder \in CtxThreads =>
        using[finder] \in 1 .. ctxs + 1 /\ using[finder] - 1 <= Cardinality(Passed)

Bound == ctxs <= Cardinality(CtxThreads)

CtxInv == CtxTypeOK /\ Holders /\ Locked /\ Walk /\ Bound

USE CtxAssumption

-----------------------------------------------------------------------------
\* A part of the threads is finite, and no more than all of them.
LEMMA PartsFinite ==
    ASSUME NEW S \in SUBSET CtxThreads
    PROVE  /\ IsFiniteSet(S)
           /\ Cardinality(S) \in Nat /\ Cardinality(CtxThreads) \in Nat
           /\ Cardinality(S) <= Cardinality(CtxThreads)
<1>1. IsFiniteSet(S) /\ Cardinality(S) <= Cardinality(CtxThreads) BY FS_Subset
<1> QED BY <1>1, FS_CardinalityType

\* Without one thread there is one less.
LEMMA OthersFewer ==
    ASSUME NEW t \in CtxThreads, NEW S \in SUBSET (CtxThreads \ {t})
    PROVE  Cardinality(S) + 1 <= Cardinality(CtxThreads)
<1>1. IsFiniteSet(S) BY PartsFinite
<1>2. /\ IsFiniteSet(S \cup {t}) /\ Cardinality(S \cup {t}) = Cardinality(S) + 1
  BY <1>1, FS_AddElement
<1>3. Cardinality(S \cup {t}) <= Cardinality(CtxThreads) BY PartsFinite
<1> QED BY <1>2, <1>3

\* A set with one element more than another is larger.
LEMMA OneMore ==
    ASSUME NEW T \in SUBSET CtxThreads, NEW S \in SUBSET T, NEW u \in T, u \notin S
    PROVE  Cardinality(S) + 1 <= Cardinality(T)
<1>1. IsFiniteSet(S) /\ IsFiniteSet(T) BY PartsFinite
<1>2. Cardinality(S \cup {u}) = Cardinality(S) + 1 BY <1>1, FS_AddElement
<1>3. S \cup {u} \in SUBSET T OBVIOUS
<1>4. Cardinality(S \cup {u}) <= Cardinality(T) BY <1>1, <1>3, FS_Subset
<1> QED BY <1>2, <1>4

-----------------------------------------------------------------------------
LEMMA CtxInitInv == CtxInit => CtxInv
<1> SUFFICES ASSUME CtxInit PROVE CtxInv OBVIOUS
<1> USE DEF CtxInit
<1>1. CtxTypeOK BY DEF CtxTypeOK
<1>2. Users = {} BY DEF Users
<1>3. Holders /\ Locked /\ Walk BY <1>2 DEF Holders, Locked, Walk
<1>4. Bound BY PartsFinite DEF Bound
<1> QED BY <1>1, <1>3, <1>4 DEF CtxInv

LEMMA LockPoolKeeps ==
    ASSUME CtxInv, NEW t \in CtxThreads, LockPool(t)
    PROVE  CtxInv'
<1> USE DEF CtxInv, LockPool
<1>1. CtxTypeOK' BY DEF CtxTypeOK
<1>2. Users' = Users BY DEF Users, CtxTypeOK
<1>3. \A u \in Users : using'[u] = using[u] BY DEF Users, CtxTypeOK
<1>4. Holders' BY <1>2, <1>3 DEF Holders
<1>5. Locked' BY <1>2, <1>3 DEF Locked
<1>6. Walk'
  <2>1. Passed' \in SUBSET CtxThreads BY DEF Passed
  <2>2. using'[t] = 1 /\ finder' = t /\ ctxs' \in Nat BY DEF CtxTypeOK
  <2> QED BY <2>1, <2>2, PartsFinite DEF Walk
<1>7. Bound' BY DEF Bound
<1> QED BY <1>1, <1>4, <1>5, <1>6, <1>7

LEMMA TryLockKeeps ==
    ASSUME CtxInv, NEW t \in CtxThreads, TryLock(t)
    PROVE  CtxInv'
<1> USE DEF CtxInv
<1>1. /\ using[t] \in 1 .. ctxs /\ finder = t /\ ctxs \in Nat /\ ctxs' = ctxs
      /\ ctxs = Len(holder) /\ using \in [CtxThreads -> Nat]
      /\ holder \in Seq(CtxThreads \cup {NoThread})
  BY DEF TryLock, Walk, CtxTypeOK, Holders
<1>2. t \notin Users BY <1>1 DEF Users
<1>3. CASE Free(using[t])
  <2>1. /\ holder' = [holder EXCEPT ![using[t]] = t] /\ finder' = NoThread /\ using' = using
    BY <1>3 DEF TryLock
  <2>2. CtxTypeOK' BY <1>1, <2>1 DEF CtxTypeOK
  <2>3. Users' = Users \cup {t} BY <1>1, <2>1 DEF Users
  <2>4. \A u \in Users : using[u] # using[t]
    BY <1>1, <1>3 DEF Free, Holders, Users
  <2>5. Holders' BY <1>1, <2>1, <2>3, <2>4 DEF Holders
  <2>6. Locked' BY <1>1, <2>1, <2>3, <2>4 DEF Locked
  <2>7. Walk' BY <2>1 DEF Walk
  <2>8. Bound' BY <1>1 DEF Bound
  <2> QED BY <2>2, <2>5, <2>6, <2>7, <2>8
<1>4. CASE ~Free(using[t])
  <2>1. using' = [using EXCEPT ![t] = @ + 1] /\ holder' = holder /\ finder' = finder
    BY <1>4 DEF TryLock
  <2>2. CtxTypeOK' BY <1>1, <2>1 DEF CtxTypeOK
  <2>3. Users' = Users /\ \A u \in Users : using'[u] = using[u]
    BY <1>1, <1>2, <2>1 DEF Users
  <2>4. Holders' BY <1>1, <2>1, <2>3 DEF Holders
  <2>5. Locked' BY <1>1, <2>1, <2>3 DEF Locked
  <2>6. PICK u \in Users : using[u] = using[t]
    BY <1>1, <1>4 DEF Free, Locked
  <2>7. /\ Passed \in SUBSET Passed' /\ Passed' \in SUBSET CtxThreads
        /\ u \in Passed' /\ u \notin Passed
    BY <1>1, <1>2, <2>1, <2>6 DEF Passed, Users
  <2>8. Cardinality(Passed) + 1 <= Cardinality(Passed') BY <2>7, OneMore
  <2>9. Cardinality(Passed) \in Nat /\ Cardinality(Passed') \in Nat
    BY <2>7, PartsFinite
  <2>10. using'[t] = using[t] + 1 BY <1>1, <2>1
  <2>11. Walk' BY <1>1, <2>1, <2>8, <2>9, <2>10 DEF Walk
  <2>12. Bound' BY <1>1 DEF Bound
  <2> QED BY <2>2, <2>4, <2>5, <2>11, <2>12
<1> QED BY <1>3, <1>4

LEMMA CreateKeeps ==
    ASSUME CtxInv, NEW t \in CtxThreads, Create(t)
    PROVE  CtxInv'
<1> USE DEF CtxInv
<1>1. /\ using[t] = ctxs + 1 /\ finder = t /\ ctxs \in Nat /\ ctxs' = ctxs + 1
      /\ ctxs = Len(holder) /\ using \in [CtxThreads -> Nat] /\ using' = using
      /\ holder \in Seq(CtxThreads \cup {NoThread})
      /\ holder' = Append(holder, t) /\ finder' = NoThread
  BY DEF Create, Walk, CtxTypeOK, Holders
<1>2. t \notin Users BY <1>1 DEF Users
<1>3. CtxTypeOK' BY <1>1 DEF CtxTypeOK
<1>4. Users' = Users \cup {t} BY <1>1 DEF Users
<1>5. /\ Len(holder') = ctxs + 1 /\ holder'[ctxs + 1] = t
      /\ \A i \in 1 .. ctxs : holder'[i] = holder[i]
  BY <1>1
<1>6. Holders' BY <1>1, <1>4, <1>5 DEF Holders
<1>7. Locked'
  <2> SUFFICES ASSUME NEW i \in 1 .. ctxs + 1, holder'[i] \in CtxThreads
               PROVE  holder'[i] \in Users' /\ using'[holder'[i]] = i
    BY <1>1 DEF Locked
  <2>1. CASE i \in 1 .. ctxs BY <2>1, <1>1, <1>4, <1>5 DEF Locked
  <2>2. CASE i = ctxs + 1 BY <2>2, <1>1, <1>4, <1>5
  <2> QED BY <2>1, <2>2, <1>1
<1>8. Walk' BY <1>1 DEF Walk
<1>9. Bound'
  <2>1. Passed \in SUBSET (CtxThreads \ {t}) BY <1>1 DEF Passed
  <2>2. Cardinality(Passed) + 1 <= Cardinality(CtxThreads) BY <2>1, OthersFewer
  <2>3. Cardinality(Passed) \in Nat /\ Cardinality(CtxThreads) \in Nat
    BY <2>1, PartsFinite
  <2>4. ctxs <= Cardinality(Passed) BY <1>1, <2>3 DEF Walk
  <2> QED BY <1>1, <2>2, <2>3, <2>4 DEF Bound
<1> QED BY <1>3, <1>6, <1>7, <1>8, <1>9

LEMMA ReleaseKeeps ==
    ASSUME CtxInv, NEW t \in CtxThreads, Release(t)
    PROVE  CtxInv'
<1> USE DEF CtxInv
<1>1. /\ t \in Users /\ ctxs \in Nat /\ ctxs' = ctxs /\ finder' = finder
      /\ ctxs = Len(holder) /\ using \in [CtxThreads -> Nat]
      /\ holder \in Seq(CtxThreads \cup {NoThread})
      /\ holder' = [holder EXCEPT ![using[t]] = NoThread]
      /\ using' = [using EXCEPT ![t] = 0]
      /\ using[t] \in 1 .. ctxs /\ holder[using[t]] = t /\ finder # t
  BY DEF Release, CtxTypeOK, Holders, Users
<1>2. CtxTypeOK' BY <1>1 DEF CtxTypeOK
<1>3. Users' = Users \ {t} /\ \A u \in Users' : using'[u] = using[u]
  BY <1>1 DEF Users
<1>4. \A u \in Users' : using[u] # using[t]
  BY <1>1, <1>3 DEF Holders
<1>5. Holders' BY <1>1, <1>3, <1>4 DEF Holders
<1>6. Locked' BY <1>1, <1>3 DEF Locked
<1>7. Walk'
  <2> SUFFICES ASSUME finder \in CtxThreads
               PROVE  /\ using'[finder] \in 1 .. ctxs + 1
                      /\ using'[finder] - 1 <= Cardinality(Passed')
    BY <1>1 DEF Walk
  <2>1. using'[finder] = using[finder] BY <1>1
  <2>2. Passed \in SUBSET Passed' /\ Passed' \in SUBSET CtxThreads
    BY <1>1, <2>1 DEF Passed, Walk
  <2>3. IsFiniteSet(Passed') BY <2>2, PartsFinite
  <2>4. Cardinality(Passed) <= Cardinality(Passed') BY <2>2, <2>3, FS_Subset
  <2>5. Cardinality(Passed) \in Nat /\ Cardinality(Passed') \in Nat
    BY <2>2, PartsFinite
  <2> QED BY <1>1, <2>1, <2>4, <2>5 DEF Walk
<1>8. Bound' BY <1>1 DEF Bound
<1> QED BY <1>2, <1>5, <1>6, <1>7, <1>8

LEMMA CtxNextKeeps == CtxInv /\ [CtxNext]_ctxVars => CtxInv'
<1> SUFFICES ASSUME CtxInv, [CtxNext]_ctxVars PROVE CtxInv' OBVIOUS
<1>1. CASE UNCHANGED ctxVars
  BY <1>1 DEF ctxVars, CtxInv, CtxTypeOK, Holders, Locked, Walk, Bound, Users, Passed
<1>2. CASE CtxNext
  BY <1>2, LockPoolKeeps, TryLockKeeps, CreateKeeps, ReleaseKeeps DEF CtxNext
<1> QED BY <1>1, <1>2

-----------------------------------------------------------------------------
\* The invariant of GetCtx and of those who have called it.
THEOREM CtxInvariant == CtxSpec => []CtxInv
BY CtxInitInv, CtxNextKeeps, PTL DEF CtxSpec

\* Every variable keeps its type, for any number of threads.
THEOREM CtxTypeCorrect == CtxSpec => []CtxTypeOK
<1>1. CtxInv => CtxTypeOK BY DEF CtxInv
<1> QED BY <1>1, CtxInvariant, PTL

\* A context has one user at a time, is there before it is used, and there are
\* never more contexts than threads (compression.h:28-41).
THEOREM ContextsExclusive == CtxSpec => []CtxExclusive
<1>1. CtxInv => CtxExclusive
  <2> SUFFICES ASSUME CtxInv PROVE CtxExclusive OBVIOUS
  <2>1. \A t \in Users : using[t] \in 1 .. ctxs /\ holder[using[t]] = t /\ ctxs \in Nat
    BY DEF CtxInv, Holders, CtxTypeOK
  <2> QED BY <2>1 DEF CtxInv, Bound, CtxExclusive
<1> QED BY <1>1, CtxInvariant, PTL

HIDE CtxAssumption

-----------------------------------------------------------------------------
(***************************************************************************)
(* QueryExact for any number of workers and chunks. A chunk is in the      *)
(* hands of one worker from GetChunk to Report, since the iterator only    *)
(* goes forward; behind the iterator everything is reported or in          *)
(* somebody's hands as long as the window has not been closed; and the     *)
(* joins begin behind the last chunk. All of it ends with the first use of *)
(* something that is gone, after which no step is followed.                *)
(***************************************************************************)
Holding == {w \in Workers : worker[w].at \in {"ask", "metadata", "report"}}

\* The iterator, and what is still before it.
Ahead ==
    /\ iter <= End /\ (chunkDone <=> iter = End)
    /\ reported[1] = "no"
    /\ \A c \in QueryChunkIds : c > iter => reported[c] = "no"

\* What a worker holds is behind the iterator, not reported, and its own.
Held ==
    /\ \A w \in Holding :
         /\ worker[w].chunk \in 2 .. NChunks /\ worker[w].chunk <= iter
         /\ reported[worker[w].chunk] = "no"
    /\ \A v, w \in Holding : worker[v].chunk = worker[w].chunk => v = w

Once == \A c \in QueryChunkIds : reported[c] # "twice"

HeldChunks == {worker[w].chunk : w \in Holding}

\* Nothing behind the iterator is forgotten.
Behind ==
    flag = "clear" =>
        \A c \in QueryChunkIds \ {1} : c <= iter => reported[c] # "no" \/ c \in HeldChunks

JoinsAtEnd == flag = "clear" /\ main = "joining" => chunkDone

Final == last => \A c \in QueryChunkIds \ {1} : reported[c] # "no"

QueryInv ==
    /\ QueryTypeOK
    /\ ~broken => Ahead /\ Held /\ Once /\ Behind /\ JoinsAtEnd /\ Final

USE QueryAssumption

-----------------------------------------------------------------------------
LEMMA QueryInitInv ==
    ASSUME QueryInit
    PROVE  QueryInv
<1>1. Holding = {}
  <2>1. \A w \in Workers : worker[w].at = "test" BY DEF QueryInit
  <2> QED BY <2>1 DEF Holding
<1>2. \A c \in QueryChunkIds : reported[c] = "no" BY DEF QueryInit
<1>3. QueryTypeOK
  <2>1. 1 \in 1 .. End + 1 /\ 0 \in 0 .. End + 1 BY DEF End
  <2>2. worker \in [Workers -> [at : {"test", "get", "ask", "metadata", "report", "done"},
                               chunk : 0 .. End + 1, local : BOOLEAN]]
    BY <2>1 DEF QueryInit
  <2>3. reported \in [QueryChunkIds -> {"no", "local", "remote", "twice"}]
    BY DEF QueryInit
  <2> QED BY <2>1, <2>2, <2>3 DEF QueryInit, QueryTypeOK
<1>4. Ahead BY <1>2 DEF QueryInit, Ahead, QueryChunkIds, End
<1>5. Held /\ Once BY <1>1, <1>2 DEF Held, Once
<1>6. Behind BY DEF QueryInit, Behind, QueryChunkIds
<1>7. JoinsAtEnd /\ Final BY DEF QueryInit, JoinsAtEnd, Final
<1> QED BY <1>3, <1>4, <1>5, <1>6, <1>7 DEF QueryInv

\* Test, the flag and the directory leave what is held as it is.
LEMMA KeepsHeld ==
    ASSUME QueryInv, ~broken, QueryTypeOK',
           UNCHANGED <<iter, chunkDone, reported, last>>,
           Holding' = Holding, \A w \in Holding : worker'[w].chunk = worker[w].chunk,
           flag' = "clear" => flag = "clear",
           flag' = "clear" /\ main' = "joining" => chunkDone
    PROVE  QueryInv'
<1>1. HeldChunks' = HeldChunks BY DEF HeldChunks
<1>2. Ahead' /\ Once' /\ Final' BY DEF QueryInv, Ahead, Once, Final
<1>3. Held' BY DEF QueryInv, Held
<1>4. Behind' BY <1>1 DEF QueryInv, Behind
<1>5. JoinsAtEnd' BY DEF JoinsAtEnd
<1> QED BY <1>2, <1>3, <1>4, <1>5 DEF QueryInv

LEMMA TestKeeps ==
    ASSUME QueryInv, ~broken, NEW w \in Workers, Test(w)
    PROVE  QueryInv'
<1>1. QueryTypeOK' BY DEF Test, MoveTo, QueryInv, QueryTypeOK
<1>2. worker[w].at = "test" /\ worker'[w].at \in {"get", "done"}
  BY DEF Test, MoveTo, QueryInv, QueryTypeOK
<1>3. \A v \in Workers \ {w} : worker'[v] = worker[v]
  BY DEF Test, MoveTo, QueryInv, QueryTypeOK
<1>4. Holding' = Holding BY <1>2, <1>3 DEF Holding
<1>5. \A v \in Holding : worker'[v].chunk = worker[v].chunk BY <1>2, <1>3 DEF Holding
<1> QED BY <1>1, <1>4, <1>5, KeepsHeld DEF Test, QueryInv, JoinsAtEnd

LEMMA GetChunkMetadataKeeps ==
    ASSUME QueryInv, ~broken, NEW w \in Workers, GetChunkMetadata(w)
    PROVE  QueryInv'
<1>1. QueryTypeOK' BY DEF GetChunkMetadata, MoveTo, QueryInv, QueryTypeOK
<1>2. /\ worker[w].at = "metadata" /\ worker'[w].at = "report"
      /\ worker'[w].chunk = worker[w].chunk
  BY DEF GetChunkMetadata, MoveTo, QueryInv, QueryTypeOK
<1>3. \A v \in Workers \ {w} : worker'[v] = worker[v]
  BY DEF GetChunkMetadata, MoveTo, QueryInv, QueryTypeOK
<1>4. Holding' = Holding BY <1>2, <1>3 DEF Holding
<1>5. \A v \in Holding : worker'[v].chunk = worker[v].chunk BY <1>2, <1>3 DEF Holding
<1> QED BY <1>1, <1>4, <1>5, KeepsHeld DEF GetChunkMetadata, QueryInv, JoinsAtEnd

\* The window: the flag, and the other steps that touch no worker.
LEMMA WindowKeeps ==
    ASSUME QueryInv, ~broken,
           Wait \/ CloseStorage \/ FreeWindow \/ \E c \in QueryChunkIds : ChangeDisk(c)
    PROVE  QueryInv'
<1>1. QueryTypeOK'
  BY DEF Wait, CloseStorage, FreeWindow, ChangeDisk, QueryInv, QueryTypeOK
<1>2. UNCHANGED <<iter, chunkDone, worker, reported, last>>
  BY DEF Wait, CloseStorage, FreeWindow, ChangeDisk
<1>3. Holding' = Holding BY <1>2 DEF Holding
<1>4. flag' = "clear" => flag = "clear"
  BY DEF Wait, CloseStorage, FreeWindow, ChangeDisk
<1>5. ASSUME flag' = "clear", main' = "joining" PROVE chunkDone
  BY <1>4, <1>5 DEF Wait, CloseStorage, FreeWindow, ChangeDisk, Cancelled, QueryInv, JoinsAtEnd
<1> QED BY <1>1, <1>2, <1>3, <1>4, <1>5, KeepsHeld

-----------------------------------------------------------------------------
LEMMA GetChunkKeeps ==
    ASSUME QueryInv, ~broken, NEW w \in Workers, GetChunk(w)
    PROVE  QueryInv'
<1> USE DEF End, QueryChunkIds
<1>1. iter \in 1 .. End /\ iter' = iter + 1 /\ UNCHANGED <<main, flag, reported, last>>
  BY DEF GetChunk, QueryInv, Ahead, QueryTypeOK
<1>2. worker[w].at = "get" /\ \A v \in Workers \ {w} : worker'[v] = worker[v]
  BY DEF GetChunk, MoveTo, QueryInv, QueryTypeOK
<1>3. QueryTypeOK'
  <2>1. iter + 1 \in 1 .. End + 1 BY <1>1
  <2>2. worker' \in [Workers -> [at : {"test", "get", "ask", "metadata", "report", "done"},
                                chunk : 0 .. End + 1, local : BOOLEAN]]
    <3>1. CASE worker' = [worker EXCEPT ![w].at = "done"]
      BY <3>1 DEF QueryInv, QueryTypeOK
    <3>2. CASE worker' = [worker EXCEPT ![w].at = "ask", ![w].chunk = iter + 1]
      <4>1. iter + 1 \in 0 .. End + 1 BY <2>1
      <4> QED BY <3>2, <4>1 DEF QueryInv, QueryTypeOK
    <3> QED BY <1>1, <3>1, <3>2 DEF GetChunk, MoveTo
  <2>3. chunkDone' \in BOOLEAN /\ broken' \in BOOLEAN
    BY <1>1 DEF GetChunk, QueryInv, QueryTypeOK
  <2> QED BY <1>1, <2>1, <2>2, <2>3 DEF GetChunk, QueryInv, QueryTypeOK
<1>4. CASE iter' = End
  <2>1. worker'[w].at = "done" /\ chunkDone' BY <1>4 DEF GetChunk, MoveTo, QueryInv, QueryTypeOK
  <2>2. Holding' = Holding /\ \A v \in Holding : worker'[v] = worker[v]
    BY <1>2, <2>1 DEF Holding
  <2>3. HeldChunks' = HeldChunks BY <2>2 DEF HeldChunks
  <2>4. Ahead' BY <1>1, <1>4, <2>1 DEF QueryInv, Ahead
  <2>5. Held' BY <1>1, <2>2 DEF QueryInv, Held, QueryTypeOK
  <2>6. Behind' BY <1>1, <1>4, <2>3 DEF QueryInv, Behind
  <2>7. Once' /\ JoinsAtEnd' /\ Final' BY <1>1, <2>1 DEF QueryInv, Once, JoinsAtEnd, Final
  <2> QED BY <1>3, <2>4, <2>5, <2>6, <2>7 DEF QueryInv
<1>5. CASE iter' # End
  <2>1. /\ worker'[w].at = "ask" /\ worker'[w].chunk = iter + 1
        /\ broken' = (iter = End) /\ UNCHANGED chunkDone
    BY <1>1, <1>5 DEF GetChunk, QueryInv, QueryTypeOK
  <2> SUFFICES ASSUME ~broken' PROVE QueryInv' BY <1>3 DEF QueryInv
  <2>2. iter # End BY <2>1
  <2>3. iter + 1 \in 2 .. NChunks BY <1>1, <1>5, <2>2
  <2>4. Holding' = Holding \cup {w} /\ w \notin Holding
    BY <1>2, <2>1 DEF Holding
  <2>5. \A v \in Holding : worker'[v] = worker[v] /\ v # w BY <1>2, <2>4 DEF Holding
  <2>6. HeldChunks' = HeldChunks \cup {iter + 1} BY <2>1, <2>4, <2>5 DEF HeldChunks
  <2>7. Ahead' BY <1>1, <1>5, <2>1, <2>3 DEF QueryInv, Ahead
  <2>8. Held'
    <3>1. ASSUME NEW v \in Holding' PROVE
            /\ worker'[v].chunk \in 2 .. NChunks /\ worker'[v].chunk <= iter'
            /\ reported'[worker'[v].chunk] = "no"
      <4>1. CASE v = w BY <4>1, <1>1, <2>1, <2>3 DEF QueryInv, Ahead
      <4>2. CASE v \in Holding BY <4>2, <1>1, <2>5 DEF QueryInv, Held
      <4> QED BY <4>1, <4>2, <2>4
    <3>2. \A v \in Holding : worker'[v].chunk # iter + 1
      BY <1>1, <2>5 DEF QueryInv, Held
    <3>3. ASSUME NEW u \in Holding', NEW v \in Holding', worker'[u].chunk = worker'[v].chunk
          PROVE  u = v
      BY <3>2, <3>3, <2>1, <2>4, <2>5 DEF QueryInv, Held
    <3> QED BY <3>1, <3>3 DEF Held
  <2>9. Behind' BY <1>1, <2>3, <2>6 DEF QueryInv, Behind, QueryTypeOK
  <2>10. Once' /\ JoinsAtEnd' /\ Final' BY <1>1, <2>1 DEF QueryInv, Once, JoinsAtEnd, Final
  <2> QED BY <1>3, <2>7, <2>8, <2>9, <2>10 DEF QueryInv
<1> QED BY <1>4, <1>5

\* A worker that lets its chunk go unreported has seen the flag.
LEMMA GivesUp ==
    ASSUME QueryInv, ~broken, NEW w \in Holding, QueryTypeOK',
           UNCHANGED <<iter, chunkDone, main, flag, reported, last>>,
           flag # "clear", Holding' = Holding \ {w},
           \A v \in Holding' : worker'[v] = worker[v]
    PROVE  QueryInv'
<1>1. Held' BY DEF QueryInv, Held
<1>2. Ahead' /\ Once' /\ Behind' /\ JoinsAtEnd' /\ Final'
  BY DEF QueryInv, Ahead, Once, Behind, JoinsAtEnd, Final
<1> QED BY <1>1, <1>2 DEF QueryInv

LEMMA IsChunkDownloadedKeeps ==
    ASSUME QueryInv, ~broken, NEW w \in Workers, IsChunkDownloaded(w)
    PROVE  QueryInv'
<1>1. /\ UNCHANGED <<iter, chunkDone, main, flag, reported, last, broken>>
      /\ worker[w].at = "ask" /\ \A v \in Workers \ {w} : worker'[v] = worker[v]
  BY DEF IsChunkDownloaded, MoveTo, QueryInv, QueryTypeOK
<1>2. QueryTypeOK' BY DEF IsChunkDownloaded, MoveTo, QueryInv, QueryTypeOK
<1>3. PICK c \in Cancelled :
        IF c THEN MoveTo(w, "done")
        ELSE LET local == worker[w].chunk \in onDisk
             IN  worker' = [worker EXCEPT ![w].local = local,
                                          ![w].at = IF local THEN "metadata" ELSE "report"]
  BY DEF IsChunkDownloaded
<1>4. CASE c
  <2>1. worker'[w].at = "done" BY <1>3, <1>4 DEF MoveTo, QueryInv, QueryTypeOK
  <2>2. flag # "clear" BY <1>4 DEF Cancelled
  <2>3. Holding' = Holding \ {w} /\ w \in Holding BY <1>1, <2>1 DEF Holding
  <2> QED BY <1>1, <1>2, <2>2, <2>3, GivesUp DEF Holding
<1>5. CASE ~c
  <2>1. worker'[w].at \in {"metadata", "report"} /\ worker'[w].chunk = worker[w].chunk
    BY <1>3, <1>5 DEF QueryInv, QueryTypeOK
  <2>2. Holding' = Holding BY <1>1, <2>1 DEF Holding
  <2>3. \A v \in Holding : worker'[v].chunk = worker[v].chunk
    BY <1>1, <2>1 DEF Holding
  <2> QED BY <1>1, <1>2, <2>2, <2>3, KeepsHeld DEF QueryInv, JoinsAtEnd
<1> QED BY <1>4, <1>5

LEMMA ReportKeeps ==
    ASSUME QueryInv, ~broken, NEW w \in Workers, Report(w)
    PROVE  QueryInv'
<1>1. /\ UNCHANGED <<iter, chunkDone, main, flag, last>>
      /\ worker[w].at = "report" /\ \A v \in Workers \ {w} : worker'[v] = worker[v]
      /\ worker'[w].at \in {"done", "test"}
  BY DEF Report, MoveTo, QueryInv, QueryTypeOK
<1>2. QueryTypeOK'
  <2>1. worker' \in [Workers -> [at : {"test", "get", "ask", "metadata", "report", "done"},
                                chunk : 0 .. End + 1, local : BOOLEAN]]
    BY DEF Report, MoveTo, QueryInv, QueryTypeOK
  <2>2. reported' \in [QueryChunkIds -> {"no", "local", "remote", "twice"}]
    BY DEF Report, AddChunkData, QueryInv, QueryTypeOK
  <2>3. broken' \in BOOLEAN BY DEF Report, QueryInv, QueryTypeOK
  <2> QED BY <1>1, <2>1, <2>2, <2>3 DEF Report, QueryInv, QueryTypeOK
<1>3. PICK c \in Cancelled :
        IF c THEN MoveTo(w, "done") /\ UNCHANGED <<reported, broken>>
        ELSE /\ AddChunkData(worker[w].chunk, worker[w].local)
             /\ broken' = (flag = "freed")
             /\ MoveTo(w, "test")
  BY DEF Report
<1>4. Holding' = Holding \ {w} /\ w \in Holding BY <1>1 DEF Holding
<1>5. CASE c
  <2>1. flag # "clear" BY <1>5 DEF Cancelled
  <2> QED BY <1>1, <1>2, <1>3, <1>4, <1>5, <2>1, GivesUp DEF Holding
<1>6. CASE ~c
  <2> DEFINE k == worker[w].chunk
  <2>1. k \in 2 .. NChunks /\ k <= iter /\ reported[k] = "no" BY <1>4 DEF QueryInv, Held
  <2>2. /\ reported' = [reported EXCEPT ![k] = reported'[k]]
        /\ reported'[k] \in {"local", "remote"}
    BY <1>3, <1>6, <2>1 DEF AddChunkData, QueryInv, QueryTypeOK, QueryChunkIds
  <2> HIDE DEF k
  <2>3. \A d \in QueryChunkIds \ {k} : reported'[d] = reported[d]
    BY <2>1, <2>2 DEF QueryInv, QueryTypeOK, QueryChunkIds
  <2>4. Ahead' BY <1>1, <2>1, <2>3 DEF QueryInv, Ahead, QueryChunkIds, QueryTypeOK
  <2>5. \A v \in Holding' : worker'[v] = worker[v] /\ worker[v].chunk # k
    BY <1>1, <1>4 DEF QueryInv, Held, Holding, k
  <2>6. Held'
    BY <1>1, <1>4, <2>3, <2>5 DEF QueryInv, Held, QueryChunkIds
  <2>7. HeldChunks \subseteq HeldChunks' \cup {k} BY <1>4, <2>5 DEF HeldChunks, k
  <2>8. Behind' BY <1>1, <2>2, <2>3, <2>7 DEF QueryInv, Behind
  <2>9. Once' BY <2>2, <2>3 DEF QueryInv, Once
  <2>10. JoinsAtEnd' /\ Final'
    BY <1>1, <2>2, <2>3 DEF QueryInv, JoinsAtEnd, Final
  <2> QED BY <1>2, <2>4, <2>6, <2>8, <2>9, <2>10 DEF QueryInv
<1> QED BY <1>5, <1>6

LEMMA JoinWorkersKeeps ==
    ASSUME QueryInv, ~broken, JoinWorkers
    PROVE  QueryInv'
<1>1. /\ UNCHANGED <<iter, chunkDone, worker, flag, reported>> /\ main = "joining"
      /\ main' = "returned" /\ Joined
  BY DEF JoinWorkers
<1>2. QueryTypeOK' BY DEF JoinWorkers, Cancelled, QueryInv, QueryTypeOK
<1>3. Holding' = Holding /\ HeldChunks' = HeldChunks BY <1>1 DEF Holding, HeldChunks
<1>4. ASSUME last', ~broken' PROVE \A c \in QueryChunkIds \ {1} : reported[c] # "no"
  <2>1. flag = "clear" BY <1>4 DEF JoinWorkers, Cancelled, QueryInv, QueryTypeOK
  <2>2. chunkDone BY <1>1, <2>1 DEF QueryInv, JoinsAtEnd
  <2>3. Holding = {} BY <1>1 DEF Holding, Joined
  <2>4. HeldChunks = {} BY <2>3 DEF HeldChunks
  <2>5. iter = End BY <2>2 DEF QueryInv, Ahead
  <2>6. \A c \in QueryChunkIds : c <= iter BY <2>5 DEF QueryChunkIds, End
  <2> QED BY <2>1, <2>4, <2>6 DEF QueryInv, Behind
<1>5. Ahead' /\ Held' /\ Once' /\ Behind' /\ JoinsAtEnd'
  BY <1>1, <1>3 DEF QueryInv, Ahead, Held, Once, Behind, JoinsAtEnd
<1> QED BY <1>1, <1>2, <1>4, <1>5 DEF QueryInv, Final

LEMMA QueryNextKeeps ==
    ASSUME QueryInv, [QueryNext]_queryVars
    PROVE  QueryInv'
<1>1. CASE QueryNext
  <2>1. ~broken BY <1>1 DEF QueryNext
  <2>2. ASSUME NEW w \in Workers, WorkerStep(w) PROVE QueryInv'
    BY <2>1, <2>2, TestKeeps, GetChunkKeeps, IsChunkDownloadedKeeps,
       GetChunkMetadataKeeps, ReportKeeps DEF WorkerStep
  <2> QED BY <1>1, <2>1, <2>2, WindowKeeps, JoinWorkersKeeps DEF QueryNext
<1>2. CASE UNCHANGED queryVars
  BY <1>2 DEF queryVars, QueryInv, QueryTypeOK, Ahead, Held, Once, Behind, JoinsAtEnd, Final,
              Holding, HeldChunks
<1> QED BY <1>1, <1>2

\* The invariant holds in every reachable state, of any number of workers.
THEOREM QueryInvariant == QuerySpec => []QueryInv
<1>1. QueryInit => QueryInv BY QueryInitInv
<1>2. QueryInv /\ [QueryNext]_queryVars => QueryInv' BY QueryNextKeeps
<1> QED BY <1>1, <1>2, PTL DEF QuerySpec

\* QueryChunks reports no chunk twice, and gives its totals as final only when all
\* but the first have been reported, for any manifest and any number of workers.
THEOREM TotalsExact == QuerySpec => []QueryExact
<1>1. QueryInv => QueryExact BY DEF QueryInv, Ahead, Once, Final, QueryExact
<1> QED BY <1>1, QueryInvariant, PTL

HIDE QueryAssumption

-----------------------------------------------------------------------------
(***************************************************************************)
(* SetUpWhole for any files, any number of threads, kills and builds. A    *)
(* file is still to come, in the deque, or done; what is done is in place  *)
(* or has been logged; and the function returns when nothing is to come    *)
(* and the deque is empty. A kill and a new build start from the           *)
(* beginning, whatever they leave on disk.                                 *)
(***************************************************************************)
InLeft(f) == \E i \in 1 .. Len(left) : left[i] = f
InDeque(f) == \E i \in 1 .. Len(deque) : deque[i] = f

InPlace(f) == entry[f] = IF f \in Binaries THEN "whole" ELSE "link"

\* The steps of a binary's thread are not those of another file's.
OwnSteps ==
    \A f \in GameFiles :
        /\ stage[f] \in {"compare", "preload", "remove", "copy", "copying"} => f \in Binaries
        /\ stage[f] = "link" => f \notin Binaries

DoneInPlace == \A f \in GameFiles : stage[f] = "done" => InPlace(f) \/ f \in failed

\* While the function runs, no file is forgotten; afterwards all are done.
Tracked ==
    /\ setup = "running" =>
         \A f \in GameFiles : InLeft(f) \/ InDeque(f) \/ stage[f] = "done"
    /\ setup = "over" => \A f \in GameFiles : stage[f] = "done"

GameDirInv == GameDirTypeOK /\ OwnSteps /\ DoneInPlace /\ Tracked

USE GameDirAssumption

-----------------------------------------------------------------------------
LEMMA IdleType ==
    Idle \in [GameFiles \cup {Counter} ->
                {"idle", "folders", "compare", "preload", "remove", "copy", "copying", "link",
                 "done"}]
BY DEF Idle

LEMMA GameDirInitInv == ASSUME GameDirInit PROVE GameDirInv
<1>1. GameDirTypeOK
  BY IdleType, EmptySeq DEF GameDirInit, GameDirTypeOK
<1>2. OwnSteps /\ DoneInPlace BY DEF GameDirInit, Idle, OwnSteps, DoneInPlace
<1>3. Tracked BY DEF GameDirInit, Tracked
<1> QED BY <1>1, <1>2, <1>3 DEF GameDirInv

\* An order of the files names each of them.
LEMMA OrderHasAll ==
    ASSUME NEW s \in SetToSeqs(GameFiles)
    PROVE  /\ s \in Seq(GameFiles)
           /\ \A f \in GameFiles : \E i \in 1 .. Len(s) : s[i] = f
<1> DEFINE n == Cardinality(GameFiles)
<1>1. n \in Nat BY FS_CardinalityType
<1>2. s \in [1 .. n -> GameFiles] /\ \A i, j \in 1 .. n : i # j => s[i] # s[j]
  BY DEF SetToSeqs
<1>3. s \in Seq(GameFiles) /\ Len(s) = n BY <1>1, <1>2, IsASeq, LenProperties
<1>4. s \in Injection(1 .. n, GameFiles) BY <1>2, Fun_IsInj
<1>5. Cardinality(1 .. n) = n BY <1>1, FS_Interval
<1>6. s \in Surjection(1 .. n, GameFiles) BY <1>4, <1>5, FS_Injection
<1> QED BY <1>3, <1>6, Fun_SurjectionProperties

-----------------------------------------------------------------------------
(***************************************************************************)
(* The calling thread.                                                     *)
(***************************************************************************)
LEMMA BeginKeeps == ASSUME GameDirInv, Begin PROVE GameDirInv'
<1>1. left' \in Seq(GameFiles) /\ \A f \in GameFiles : InLeft(f)'
  BY OrderHasAll DEF Begin, InLeft
<1>2. <<Counter>> \in Seq(GameFiles \cup {Counter}) OBVIOUS
<1>3. stage' \in [GameFiles \cup {Counter} ->
                    {"idle", "folders", "compare", "preload", "remove", "copy", "copying",
                     "link", "done"}]
  BY IdleType DEF Begin
<1>4. GameDirTypeOK' BY <1>1, <1>2, <1>3 DEF Begin, GameDirInv, GameDirTypeOK
<1>5. \A f \in GameFiles : stage'[f] = "idle" BY DEF Begin, Idle
<1>6. OwnSteps' /\ DoneInPlace' BY <1>5 DEF OwnSteps, DoneInPlace
<1>7. Tracked' BY <1>1 DEF Begin, Tracked
<1> QED BY <1>4, <1>6, <1>7 DEF GameDirInv

LEMMA CountKeeps == ASSUME GameDirInv, CountBinaries PROVE GameDirInv'
<1>1. GameDirTypeOK' BY DEF CountBinaries, GameDirInv, GameDirTypeOK
<1>2. \A f \in GameFiles : stage'[f] = stage[f]
  BY DEF CountBinaries, GameDirInv, GameDirTypeOK
<1>3. OwnSteps' /\ DoneInPlace'
  BY <1>2 DEF CountBinaries, GameDirInv, OwnSteps, DoneInPlace, InPlace
<1>4. Tracked' BY <1>2 DEF CountBinaries, GameDirInv, Tracked, InLeft, InDeque
<1> QED BY <1>1, <1>3, <1>4 DEF GameDirInv

LEMMA SpawnKeeps == ASSUME GameDirInv, Spawn PROVE GameDirInv'
<1>1. /\ left \in Seq(GameFiles) /\ left # <<>>
      /\ deque \in Seq(GameFiles \cup {Counter})
  BY DEF Spawn, GameDirInv, GameDirTypeOK
<1> PICK h \in GameFiles : h = Head(left) BY <1>1, HeadTailProperties
<1>2. /\ h = left[1]
      /\ left' \in Seq(GameFiles) /\ Len(left') = Len(left) - 1
      /\ \A i \in 1 .. Len(left) - 1 : left'[i] = left[i + 1]
  BY <1>1, HeadTailProperties DEF Spawn
<1>3. /\ deque' \in Seq(GameFiles \cup {Counter}) /\ Len(deque') = Len(deque) + 1
      /\ \A i \in 1 .. Len(deque) : deque'[i] = deque[i]
      /\ deque'[Len(deque) + 1] = h
  BY <1>1, <1>2, AppendProperties DEF Spawn
<1>4. /\ stage' = [stage EXCEPT ![h] = "folders"]
      /\ UNCHANGED <<entry, setup, failed, locked>> /\ setup = "running"
  BY DEF Spawn
<1>5. GameDirTypeOK' BY <1>2, <1>3, <1>4 DEF GameDirInv, GameDirTypeOK
<1>6. \A f \in GameFiles : f # h => stage'[f] = stage[f]
  BY <1>4 DEF GameDirInv, GameDirTypeOK
<1>7. stage'[h] = "folders" BY <1>2, <1>4 DEF GameDirInv, GameDirTypeOK
<1>8. OwnSteps' /\ DoneInPlace'
  BY <1>4, <1>6, <1>7 DEF GameDirInv, OwnSteps, DoneInPlace, InPlace
<1>9. InDeque(h)'
  <2>1. Len(deque) + 1 \in 1 .. Len(deque') BY <1>1, <1>3, LenProperties
  <2> QED BY <2>1, <1>3 DEF InDeque
<1>10. ASSUME NEW f \in GameFiles, f # h PROVE (InLeft(f) \/ InDeque(f) \/ stage[f] = "done") =>
                                             (InLeft(f) \/ InDeque(f) \/ stage[f] = "done")'
  <2>1. ASSUME InLeft(f) PROVE InLeft(f)'
    <3>1. PICK i \in 1 .. Len(left) : left[i] = f BY <2>1 DEF InLeft
    <3>2. i # 1 BY <3>1, <1>2, <1>10
    <3>3. i - 1 \in 1 .. Len(left) - 1 /\ (i - 1) + 1 = i BY <3>1, <3>2, <1>1, LenProperties
    <3>4. left'[i - 1] = f BY <3>1, <3>3, <1>2
    <3> QED BY <3>3, <3>4, <1>2 DEF InLeft
  <2>2. ASSUME InDeque(f) PROVE InDeque(f)'
    <3>1. PICK i \in 1 .. Len(deque) : deque[i] = f BY <2>2 DEF InDeque
    <3>2. i \in 1 .. Len(deque') BY <3>1, <1>1, <1>3, LenProperties
    <3> QED BY <3>1, <3>2, <1>3 DEF InDeque
  <2> QED BY <2>1, <2>2, <1>6, <1>10
<1>11. Tracked' BY <1>4, <1>9, <1>10 DEF GameDirInv, Tracked
<1> QED BY <1>5, <1>8, <1>11 DEF GameDirInv

\* The thread that is joined is done; the one that counts is no file.
LEMMA JoinKeeps == ASSUME GameDirInv, JoinFront PROVE GameDirInv'
<1>1. deque \in Seq(GameFiles \cup {Counter}) /\ deque # <<>>
  BY DEF JoinFront, GameDirInv, GameDirTypeOK
<1>2. /\ Head(deque) = deque[1] /\ stage[Head(deque)] = "done"
      /\ deque' \in Seq(GameFiles \cup {Counter}) /\ Len(deque') = Len(deque) - 1
      /\ \A i \in 1 .. Len(deque) - 1 : deque'[i] = deque[i + 1]
  BY <1>1, HeadTailProperties DEF JoinFront
<1>3. UNCHANGED <<entry, setup, left, stage, failed, locked>> BY DEF JoinFront
<1>4. GameDirTypeOK' BY <1>2, <1>3 DEF GameDirInv, GameDirTypeOK
<1>5. OwnSteps' /\ DoneInPlace' BY <1>3 DEF GameDirInv, OwnSteps, DoneInPlace, InPlace
<1>6. ASSUME NEW f \in GameFiles, InDeque(f) PROVE InDeque(f)' \/ stage[f] = "done"
  <2>1. PICK i \in 1 .. Len(deque) : deque[i] = f BY <1>6 DEF InDeque
  <2>2. CASE i = 1 BY <2>1, <2>2, <1>2
  <2>3. CASE i # 1
    <3>1. i - 1 \in 1 .. Len(deque) - 1 /\ (i - 1) + 1 = i BY <2>1, <2>3, <1>1, LenProperties
    <3>2. deque'[i - 1] = f BY <2>1, <3>1, <1>2
    <3> QED BY <3>1, <3>2, <1>2 DEF InDeque
  <2> QED BY <2>2, <2>3
<1>7. Tracked' BY <1>3, <1>6 DEF GameDirInv, Tracked, InLeft
<1> QED BY <1>4, <1>5, <1>7 DEF GameDirInv

\* Nothing to come and nothing to join: everything is done.
LEMMA FinishKeeps == ASSUME GameDirInv, Finish PROVE GameDirInv'
<1>1. left = <<>> /\ deque = <<>> /\ setup = "running" /\ setup' = "over"
  BY DEF Finish, AllJoined
<1>2. UNCHANGED <<entry, left, deque, stage, failed, locked>> BY DEF Finish
<1>3. \A f \in GameFiles : ~InLeft(f) /\ ~InDeque(f) BY <1>1 DEF InLeft, InDeque
<1>4. GameDirTypeOK' BY <1>1, <1>2 DEF GameDirInv, GameDirTypeOK
<1>5. OwnSteps' /\ DoneInPlace' BY <1>2 DEF GameDirInv, OwnSteps, DoneInPlace, InPlace
<1>6. Tracked' BY <1>1, <1>2, <1>3 DEF GameDirInv, Tracked
<1> QED BY <1>4, <1>5, <1>6 DEF GameDirInv

-----------------------------------------------------------------------------
(***************************************************************************)
(* The thread of a file. It moves its own stage, changes its own entry,    *)
(* and takes back no failure.                                              *)
(***************************************************************************)
LEMMA OneFile ==
    ASSUME GameDirInv, NEW f \in GameFiles, NEW s, stage[f] # "done", setup # "idle",
           stage' = [stage EXCEPT ![f] = s], UNCHANGED <<setup, left, deque, locked>>,
           GameDirTypeOK', failed \subseteq failed',
           \A g \in GameFiles \ {f} : entry'[g] = entry[g],
           s \in {"compare", "preload", "remove", "copy", "copying"} => f \in Binaries,
           s = "link" => f \notin Binaries,
           s = "done" => InPlace(f)' \/ f \in failed'
    PROVE  GameDirInv'
<1>1. stage'[f] = s /\ \A g \in GameFiles \ {f} : stage'[g] = stage[g]
  BY DEF GameDirInv, GameDirTypeOK
<1>2. setup = "running" BY DEF GameDirInv, GameDirTypeOK, Tracked
<1>3. OwnSteps' BY <1>1 DEF GameDirInv, OwnSteps
<1>4. DoneInPlace' BY <1>1 DEF GameDirInv, DoneInPlace, InPlace
<1>5. Tracked' BY <1>1, <1>2 DEF GameDirInv, Tracked, InLeft, InDeque
<1> QED BY <1>3, <1>4, <1>5 DEF GameDirInv

LEMMA FileKeeps == ASSUME GameDirInv, NEW f \in GameFiles, FileStep(f) PROVE GameDirInv'
<1> USE DEF At, Go, Put, Fail, Rest
<1>1. CASE CreateFolders(f)
  <2>1. PICK s \in {"compare", "link", "done"} : Go(f, s) BY <1>1 DEF CreateFolders
  <2>2. GameDirTypeOK' BY <1>1, <2>1 DEF CreateFolders, GameDirInv, GameDirTypeOK
  <2>3. CASE Go(f, IF f \in Binaries THEN "compare" ELSE "link") /\ UNCHANGED failed
    BY <1>1, <2>2, <2>3, OneFile DEF CreateFolders
  <2>4. CASE Go(f, "done") /\ Fail(f)
    BY <1>1, <2>2, <2>4, OneFile DEF CreateFolders
  <2> QED BY <1>1, <2>3, <2>4 DEF CreateFolders
<1>2. CASE Compare(f)
  <2>1. GameDirTypeOK' BY <1>2 DEF Compare, GameDirInv, GameDirTypeOK
  <2>2. f \in Binaries BY <1>2 DEF Compare, GameDirInv, OwnSteps
  <2>3. CASE CompareFile(f)
    <3>1. InPlace(f)' BY <1>2, <2>2, <2>3 DEF Compare, CompareFile, InPlace
    <3> QED BY <1>2, <2>1, <2>2, <2>3, <3>1, OneFile DEF Compare
  <2>4. CASE ~CompareFile(f) BY <1>2, <2>1, <2>2, <2>4, OneFile DEF Compare
  <2> QED BY <2>3, <2>4
<1>3. CASE PreloadFile(f)
  <2>1. GameDirTypeOK' BY <1>3 DEF PreloadFile, GameDirInv, GameDirTypeOK
  <2>2. f \in Binaries BY <1>3 DEF PreloadFile, GameDirInv, OwnSteps
  <2> QED BY <1>3, <2>1, <2>2, OneFile DEF PreloadFile
<1>4. CASE RemoveFile(f)
  <2>1. GameDirTypeOK' BY <1>4 DEF RemoveFile, GameDirInv, GameDirTypeOK
  <2>2. f \in Binaries BY <1>4 DEF RemoveFile, GameDirInv, OwnSteps
  <2>3. \A g \in GameFiles \ {f} : entry'[g] = entry[g]
    BY <1>4 DEF RemoveFile, GameDirInv, GameDirTypeOK
  <2> QED BY <1>4, <2>1, <2>2, <2>3, OneFile DEF RemoveFile
<1>5. CASE CopyBegins(f)
  <2>1. GameDirTypeOK' BY <1>5 DEF CopyBegins, GameDirInv, GameDirTypeOK
  <2>2. f \in Binaries BY <1>5 DEF CopyBegins, GameDirInv, OwnSteps
  <2>3. \A g \in GameFiles \ {f} : entry'[g] = entry[g]
    BY <1>5 DEF CopyBegins, GameDirInv, GameDirTypeOK
  <2>4. CASE f \in locked BY <1>5, <2>1, <2>2, <2>3, <2>4, OneFile DEF CopyBegins
  <2>5. CASE f \notin locked BY <1>5, <2>1, <2>2, <2>3, <2>5, OneFile DEF CopyBegins
  <2> QED BY <2>4, <2>5
<1>6. CASE CopyEnds(f)
  <2>1. GameDirTypeOK' BY <1>6 DEF CopyEnds, GameDirInv, GameDirTypeOK
  <2>2. f \in Binaries BY <1>6 DEF CopyEnds, GameDirInv, OwnSteps
  <2>3. \A g \in GameFiles \ {f} : entry'[g] = entry[g]
    BY <1>6 DEF CopyEnds, GameDirInv, GameDirTypeOK
  <2>4. failed \subseteq failed' /\ (InPlace(f)' \/ f \in failed')
    BY <1>6, <2>2 DEF CopyEnds, InPlace, GameDirInv, GameDirTypeOK
  <2> QED BY <1>6, <2>1, <2>2, <2>3, <2>4, OneFile DEF CopyEnds
<1>7. CASE Link(f)
  <2>1. GameDirTypeOK' BY <1>7 DEF Link, GameDirInv, GameDirTypeOK
  <2>2. f \notin Binaries BY <1>7 DEF Link, GameDirInv, OwnSteps
  <2>3. \A g \in GameFiles \ {f} : entry'[g] = entry[g]
    BY <1>7 DEF Link, GameDirInv, GameDirTypeOK
  <2>4. failed \subseteq failed' /\ (InPlace(f)' \/ f \in failed')
    BY <1>7, <2>2 DEF Link, InPlace, GameDirInv, GameDirTypeOK
  <2> QED BY <1>7, <2>1, <2>2, <2>3, <2>4, OneFile DEF Link
<1> QED BY <1>1, <1>2, <1>3, <1>4, <1>5, <1>6, <1>7 DEF FileStep

-----------------------------------------------------------------------------
(***************************************************************************)
(* What happens to the directory from outside.                             *)
(***************************************************************************)
LEMMA StartsAnew ==
    ASSUME GameDirInv, setup' = "idle", stage' = Idle, GameDirTypeOK'
    PROVE  GameDirInv'
<1>1. \A f \in GameFiles : stage'[f] = "idle" BY DEF Idle
<1>2. OwnSteps' /\ DoneInPlace' BY <1>1 DEF OwnSteps, DoneInPlace
<1>3. Tracked' BY DEF Tracked
<1> QED BY <1>2, <1>3 DEF GameDirInv

LEMMA OutsideKeeps ==
    ASSUME GameDirInv, Kill \/ GameEnds \/ NewBuild \/ \E f \in GameFiles : LaunchGame(f)
    PROVE  GameDirInv'
<1>1. CASE Kill
  <2>1. GameDirTypeOK' BY <1>1, IdleType, EmptySeq DEF Kill, GameDirInv, GameDirTypeOK
  <2> QED BY <1>1, <2>1, StartsAnew DEF Kill
<1>2. CASE NewBuild
  <2>1. entry' \in [GameFiles -> {"absent", "whole", "old", "partial", "link", "stale"}]
    BY <1>2 DEF NewBuild, GameDirInv, GameDirTypeOK
  <2>2. GameDirTypeOK' BY <1>2, <2>1, IdleType DEF NewBuild, GameDirInv, GameDirTypeOK
  <2> QED BY <1>2, <2>2, StartsAnew DEF NewBuild
<1>3. CASE GameEnds \/ \E f \in GameFiles : LaunchGame(f)
  <2>1. UNCHANGED <<entry, setup, left, deque, stage, failed>>
    BY <1>3 DEF GameEnds, LaunchGame
  <2>2. GameDirTypeOK' BY <1>3, <2>1 DEF GameEnds, LaunchGame, GameDirInv, GameDirTypeOK
  <2> QED BY <2>1, <2>2
      DEF GameDirInv, OwnSteps, DoneInPlace, InPlace, Tracked, InLeft, InDeque
<1> QED BY <1>1, <1>2, <1>3

LEMMA GameDirNextKeeps == ASSUME GameDirInv, [GameDirNext]_gameDirVars PROVE GameDirInv'
<1>1. CASE GameDirNext
  BY <1>1, BeginKeeps, CountKeeps, SpawnKeeps, JoinKeeps, FinishKeeps, FileKeeps,
     OutsideKeeps DEF GameDirNext
<1>2. CASE UNCHANGED gameDirVars
  BY <1>2 DEF gameDirVars, GameDirInv, GameDirTypeOK, OwnSteps, DoneInPlace, InPlace, Tracked,
              InLeft, InDeque
<1> QED BY <1>1, <1>2

\* The inductive invariant of SetupGameDirectory.
THEOREM GameDirInvariant == GameDirSpec => []GameDirInv
<1>1. GameDirInit => GameDirInv BY GameDirInitInv
<1>2. GameDirInv /\ [GameDirNext]_gameDirVars => GameDirInv' BY GameDirNextKeeps
<1> QED BY <1>1, <1>2, PTL DEF GameDirSpec

\* When SetupGameDirectory returns, every file that has not been logged is in place,
\* for any files, any number of threads, and any sequence of kills, games and builds.
THEOREM GameDirSetUp == GameDirSpec => []SetUpWhole
<1>1. GameDirInv => SetUpWhole BY DEF GameDirInv, Tracked, DoneInPlace, InPlace, SetUpWhole
<1> QED BY <1>1, GameDirInvariant, PTL

HIDE GameDirAssumption
=============================================================================
