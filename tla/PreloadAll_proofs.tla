------------------------- MODULE PreloadAll_proofs -------------------------
(***************************************************************************)
(* What TLAPS proves of PreloadAll, for any number of workers and chunks,  *)
(* any old cache directory, any number of kills.                           *)
(***************************************************************************)
EXTENDS PreloadAll, FiniteSetTheorems, TLAPS

\* The workers that are busy with a chunk.
Holders == {w \in Workers : HasItem(w)}

\* What a worker holds lies behind the iterator.
ItemsBehind == \A w \in Workers : HasItem(w) => 1 <= item[w] /\ item[w] < chunkIter

\* Once the list is used up the iterator stands at its end.
AtEnd == chunkDone => chunkIter = N + 1

\* A chunk behind the iterator is on disk, or a worker is about to write it.
BehindIsTaken ==
    ~cancelled => \A c \in Manifest :
        c < chunkIter =>
            Downloaded(c) \/ \E w \in Workers : pc[w] \in {"download", "got"} /\ item[w] = c

\* Without a cancel a worker leaves only at the end of the list.
LeavesAtEnd ==
    ~cancelled => \A w \in Workers : pc[w] \in {"notify", "exit"} => chunkDone

\* Without a cancel the main thread goes on to its joins only at the end of the list.
JoinsAtEnd == main \in {"join", "returned"} /\ ~cancelled => chunkDone

\* When the function has returned its threads are gone.
AllJoined == main = "returned" => Exited /\ ~purging /\ counted

\* A file of an old manifest is still to be visited.
StaleUnseen == ~cancelled => \A f \in Stale : Downloaded(f) => purging /\ f \in unseen

\* A chunk that a worker is about to write is not on disk yet.
NotYetThere ==
    \A w \in Workers : pc[w] \in {"download", "got"} => ~Downloaded(item[w])

\* The purge thread has come by no file that is still to be listed, or made.
GuidsLeft ==
    \A c \in Manifest : /\ c \in unseen => Downloaded(c) /\ c \in guids
                        /\ ~Downloaded(c) => c \in guids

\* A file that is not whole was so when the update began, or is being written.
CutOrWritten ==
    \A c \in Manifest : disk[c] = "partial" =>
        c \in cut \/ \E w \in Workers : pc[w] = "write" /\ item[w] = c

IInv ==
    /\ TypeOK /\ ItemsBehind /\ HandedOutOnce
    /\ AtEnd /\ BehindIsTaken /\ LeavesAtEnd /\ JoinsAtEnd
    /\ AllJoined /\ StaleUnseen /\ NotYetThere /\ GuidsLeft /\ CutOrWritten

----------------------------------------------------------------------------
\* The busy workers can be counted.
LEMMA HoldersFinite == IsFiniteSet(Holders) /\ Cardinality(Holders) \in Nat
<1>1. IsFiniteSet(Holders)  BY WorkersAssumption, FS_Subset DEF Holders
<1>. QED  BY <1>1, FS_CardinalityType

\* No set of workers is counted when nobody is busy.
LEMMA NoHolders == ASSUME \A w \in Workers : ~HasItem(w) PROVE Cardinality(Holders) = 0
<1>1. Holders = {}  BY DEF Holders
<1>. QED  BY <1>1, FS_EmptySet

----------------------------------------------------------------------------
\* PreloadAllChunks starts in a state of the invariant.
LEMMA InitIInv == Init => IInv
<1>. SUFFICES ASSUME Init PROVE IInv  OBVIOUS
<1>1. TypeOK
  <2>1. disk \in [Manifest \union Stale -> FileState]  BY ChoiceAssumption DEF Init
  <2>2. 1 \in 1 .. N + 1 /\ 0 \in 0 .. N /\ N \in 0 .. N /\ 0 \in 0 .. MaxKills
    BY ListAssumption, ChoiceAssumption
  <2>3. Present(disk) \subseteq Manifest \union Stale /\ CutShort(disk) \subseteq Manifest
    BY DEF Present, CutShort
  <2>4. pc \in [Workers -> Labels] /\ item \in [Workers -> 0 .. N]
    BY <2>2 DEF Init, Labels
  <2>. QED  BY <2>1, <2>2, <2>3, <2>4 DEF Init, TypeOK
<1>2. \A w \in Workers : ~HasItem(w)  BY DEF Init, HasItem
<1>3. HandedOutOnce
  BY <1>2, NoHolders DEF HandedOutOnce, Holders, Init
<1>4. BehindIsTaken  BY DEF Init, BehindIsTaken, Manifest
<1>5. StaleUnseen  BY DEF Init, StaleUnseen, Present, Downloaded
<1>6. GuidsLeft  BY DEF Init, GuidsLeft, Present, Downloaded
<1>7. CutOrWritten  BY DEF Init, CutOrWritten, CutShort
<1>8. NotYetThere  BY DEF Init, NotYetThere
<1>. QED  BY <1>1, <1>2, <1>3, <1>4, <1>5, <1>6, <1>7, <1>8
          DEF IInv, ItemsBehind, AtEnd, LeavesAtEnd, JoinsAtEnd, AllJoined, Init

\* So it does when it is called again, over whatever the cache directory holds.
LEMMA BeginIInv ==
    ASSUME TypeOK, Begin, kills' \in 0 .. MaxKills
    PROVE  IInv'
<1>1. TypeOK'
  <2>1. 1 \in 1 .. N + 1 /\ 0 \in 0 .. N /\ N \in 0 .. N  BY ListAssumption
  <2>2. /\ unseen' \subseteq Manifest \union Stale /\ guids' \subseteq Manifest
        /\ cut' \subseteq Manifest
    BY DEF Begin, Present, CutShort
  <2>3. pc' \in [Workers -> Labels] /\ item' \in [Workers -> 0 .. N]
    BY <2>1 DEF Begin, Labels
  <2>. QED  BY <2>1, <2>2, <2>3 DEF Begin, TypeOK
<1>2. \A w \in Workers : ~HasItem(w)'  BY DEF Begin, HasItem
<1>3. Holders' = {}  BY <1>2 DEF Holders
<1>4. HandedOutOnce'
  <2>1. Cardinality(Holders') = 0  BY <1>3, FS_EmptySet
  <2>. QED  BY <1>2, <2>1 DEF HandedOutOnce, Holders, Begin
<1>5. BehindIsTaken'  BY DEF Begin, BehindIsTaken, Manifest
<1>6. StaleUnseen'  BY DEF Begin, StaleUnseen, Present, Downloaded
<1>7. GuidsLeft'  BY DEF Begin, GuidsLeft, Present, Downloaded
<1>8. CutOrWritten'  BY DEF Begin, CutOrWritten, CutShort
<1>9. NotYetThere'  BY DEF Begin, NotYetThere
<1>. QED  BY <1>1, <1>2, <1>4, <1>5, <1>6, <1>7, <1>8, <1>9
          DEF IInv, ItemsBehind, AtEnd, LeavesAtEnd, JoinsAtEnd, AllJoined, Begin

----------------------------------------------------------------------------
\* No step leaves the types.
LEMMA NextTypeOK == ASSUME IInv, Next PROVE TypeOK'
<1>. USE ListAssumption, ChoiceAssumption
<1>0. TypeOK  BY DEF IInv
<1>1. ASSUME NEW w \in Workers, Check(w) PROVE TypeOK'
  BY <1>0, <1>1 DEF TypeOK, Check, Goto, Labels, jobs, rest, purge
<1>2. ASSUME NEW w \in Workers, Take(w) PROVE TypeOK'
  <2>1. PICK c \in Ahead : item' = [item EXCEPT ![w] = c] /\ chunkIter' = c + 1
    BY <1>0, <1>2 DEF Take, IterAfter
  <2>2. c \in 0 .. N /\ c + 1 \in 1 .. N + 1  BY <2>1 DEF Ahead, Manifest
  <2>3. item' \in [Workers -> 0 .. N] /\ chunkIter' \in 1 .. N + 1
    BY <1>0, <2>1, <2>2 DEF TypeOK
  <2>. QED  BY <1>0, <1>2, <2>3 DEF TypeOK, Take, Goto, Labels, rest, purge
<1>3. ASSUME NEW w \in Workers, TakeNone(w) PROVE TypeOK'
  <2>1. N + 1 \in 1 .. N + 1  OBVIOUS
  <2>. QED  BY <1>0, <1>3, <2>1 DEF TypeOK, TakeNone, Goto, Labels, rest, purge
<1>4. ASSUME NEW w \in Workers, Notify(w) PROVE TypeOK'
  BY <1>0, <1>4 DEF TypeOK, Notify, Goto, Labels, jobs, rest, purge
<1>5. ASSUME NEW w \in Workers, Download(w) PROVE TypeOK'
  BY <1>0, <1>5 DEF TypeOK, Download, Goto, Labels, jobs, rest, purge
<1>6. ASSUME NEW w \in Workers, OpenForWrite(w) PROVE TypeOK'
  <2>1. disk' \in [Manifest \union Stale -> FileState]
    BY <1>0, <1>6 DEF TypeOK, OpenForWrite, FileState
  <2>2. unseen' \subseteq Manifest \union Stale
    <3>1. CASE unseen' = unseen  BY <1>0, <3>1 DEF TypeOK
    <3>2. CASE unseen' = unseen \union {item[w]} /\ item[w] \in Manifest
      BY <1>0, <3>2 DEF TypeOK
    <3>3. pc[w] = "got" => item[w] \in Manifest
      BY DEF IInv, TypeOK, ItemsBehind, HasItem, Manifest
    <3>. QED  BY <1>0, <1>6, <3>1, <3>2, <3>3 DEF OpenForWrite
  <2>. QED  BY <1>0, <1>6, <2>1, <2>2 DEF TypeOK, OpenForWrite, Goto, Labels, jobs, rest,
               purge
<1>7. ASSUME NEW w \in Workers, CloseWrite(w) PROVE TypeOK'
  <2>1. disk' \in [Manifest \union Stale -> FileState]
    BY <1>0, <1>7 DEF TypeOK, CloseWrite, FileState
  <2>. QED  BY <1>0, <1>7, <2>1 DEF TypeOK, CloseWrite, Goto, Labels, jobs, rest, purge
<1>8. ASSUME NEW w \in Workers, OnProg(w) PROVE TypeOK'
  BY <1>0, <1>8 DEF TypeOK, OnProg, Goto, Labels, jobs, rest, purge
<1>9. CASE MainStep \/ SpuriousWakeup
  BY <1>0, <1>9 DEF TypeOK, MainStep, MainWait, MainJoin, SpuriousWakeup, jobs, rest, purge
<1>10. CASE PurgeEnd \/ PurgeCancelled
  BY <1>0, <1>10 DEF TypeOK, PurgeEnd, PurgeCancelled, jobs
<1>11. ASSUME NEW f \in Manifest \union Stale, PurgeVisit(f) PROVE TypeOK'
  <2>1. disk' \in [Manifest \union Stale -> FileState]
    BY <1>0, <1>11 DEF TypeOK, PurgeVisit, FileState
  <2>. QED  BY <1>0, <1>11, <2>1 DEF TypeOK, PurgeVisit, jobs
<1>12. CASE CountMissing  BY <1>0, <1>12 DEF TypeOK, CountMissing, jobs, purge
<1>13. CASE Cancel
  BY <1>0, <1>13 DEF TypeOK, Cancel, jobs, rest, purge
<1>14. CASE Again
  <2>1. kills' \in 0 .. MaxKills  BY <1>0, <1>14 DEF Again, TypeOK
  <2>. QED  BY <1>0, <1>14, <2>1, BeginIInv DEF Again, IInv
<1>15. CASE Kill \/ \E f \in Stale : PurgeThrows(f)
  <2>1. kills' \in 0 .. MaxKills  BY <1>0, <1>15 DEF Kill, PurgeThrows, TypeOK
  <2>. QED  BY <1>0, <1>15, <2>1, BeginIInv DEF Kill, PurgeThrows, IInv
<1>. QED
  BY <1>1, <1>2, <1>3, <1>4, <1>5, <1>6, <1>7, <1>8, <1>9, <1>10, <1>11, <1>12, <1>13,
     <1>14, <1>15 DEF Next, Work, Purge

----------------------------------------------------------------------------
\* A worker that takes a chunk holds one behind the new iterator, and nobody else's.
LEMMA TakeHandsOut ==
    ASSUME IInv, NEW w \in Workers, Take(w)
    PROVE  ItemsBehind' /\ HandedOutOnce'
<1>. USE ListAssumption
<1>1. PICK c \in Ahead : item' = [item EXCEPT ![w] = c] /\ chunkIter' = c + 1
  BY DEF Take, IterAfter
<1>2. c \in Manifest /\ c \in Nat /\ chunkIter \in Nat /\ chunkIter <= c /\ 1 <= c
  BY <1>1 DEF Ahead, Manifest, IInv, TypeOK
<1>3. item \in [Workers -> 0 .. N] /\ pc \in [Workers -> Labels] /\ prog \in Nat
  BY DEF IInv, TypeOK
<1>4. ~HasItem(w) /\ HasItem(w)' /\ item'[w] = c
  BY <1>1, <1>3 DEF Take, Goto, HasItem
<1>5. \A v \in Workers \ {w} : (HasItem(v)' <=> HasItem(v)) /\ item'[v] = item[v]
  BY <1>1, <1>3 DEF Take, Goto, HasItem
<1>6. \A v \in Workers \ {w} : HasItem(v) => item[v] < c
  BY <1>2, <1>3 DEF IInv, ItemsBehind
<1>7. ItemsBehind'
  <2>. SUFFICES ASSUME NEW v \in Workers, HasItem(v)'
                PROVE  1 <= item'[v] /\ item'[v] < chunkIter'
    BY DEF ItemsBehind
  <2>1. CASE v = w  BY <2>1, <1>1, <1>2, <1>4
  <2>2. CASE v # w
    <3>1. 1 <= item[v] /\ item[v] < c /\ item'[v] = item[v]
      BY <2>2, <1>5, <1>6 DEF IInv, ItemsBehind
    <3>. QED  BY <3>1, <1>1, <1>2, <1>3
  <2>. QED  BY <2>1, <2>2
<1>8. \A u, v \in Workers : u # v /\ HasItem(u)' /\ HasItem(v)' => item'[u] # item'[v]
  <2>. SUFFICES ASSUME NEW u \in Workers, NEW v \in Workers,
                       u # v, HasItem(u)', HasItem(v)'
                PROVE  item'[u] # item'[v]
    OBVIOUS
  <2>1. CASE u = w  BY <2>1, <1>2, <1>3, <1>4, <1>5, <1>6
  <2>2. CASE v = w  BY <2>2, <1>2, <1>3, <1>4, <1>5, <1>6
  <2>3. CASE u # w /\ v # w  BY <2>3, <1>5 DEF IInv, HandedOutOnce
  <2>. QED  BY <2>1, <2>2, <2>3
<1>9. prog' + Cardinality(Holders') < chunkIter'
  <2>1. Holders' = Holders \union {w} /\ w \notin Holders
    BY <1>4, <1>5 DEF Holders
  <2>2. Cardinality(Holders') = Cardinality(Holders) + 1
    BY <2>1, HoldersFinite, FS_AddElement
  <2>3. prog + Cardinality(Holders) < chunkIter /\ prog' = prog
    BY DEF IInv, HandedOutOnce, Holders, Take
  <2>. QED  BY <2>2, <2>3, <1>1, <1>2, <1>3, HoldersFinite
<1>. QED  BY <1>7, <1>8, <1>9 DEF HandedOutOnce, Holders

\* A worker that has called onProg has no chunk any more.
LEMMA OnProgHandsOut ==
    ASSUME IInv, NEW w \in Workers, OnProg(w)
    PROVE  ItemsBehind' /\ HandedOutOnce'
<1>1. pc \in [Workers -> Labels] /\ prog \in Nat /\ chunkIter \in Nat
  BY ListAssumption DEF IInv, TypeOK
<1>2. HasItem(w) /\ ~HasItem(w)'  BY <1>1 DEF OnProg, Goto, HasItem
<1>3. \A v \in Workers \ {w} : HasItem(v)' <=> HasItem(v)
  BY <1>1 DEF OnProg, Goto, HasItem
<1>4. item' = item /\ chunkIter' = chunkIter /\ prog' = prog + 1
  BY DEF OnProg, jobs
<1>5. Holders' = Holders \ {w} /\ w \in Holders  BY <1>2, <1>3 DEF Holders
<1>6. Cardinality(Holders') = Cardinality(Holders) - 1
  BY <1>5, HoldersFinite, FS_RemoveElement
<1>7. prog + Cardinality(Holders) < chunkIter  BY DEF IInv, HandedOutOnce, Holders
<1>8. prog' + Cardinality(Holders') < chunkIter'
  BY <1>1, <1>4, <1>6, <1>7, HoldersFinite
<1>9. \A v \in Workers : HasItem(v)' => HasItem(v)  BY <1>2, <1>3
<1>. QED  BY <1>4, <1>8, <1>9 DEF IInv, ItemsBehind, HandedOutOnce, Holders

\* A step that changes neither the items nor who is busy.
LEMMA SameHolders ==
    ASSUME IInv, item' = item, prog' = prog, chunkIter <= chunkIter', chunkIter' \in Nat,
           \A w \in Workers : HasItem(w)' <=> HasItem(w)
    PROVE  ItemsBehind' /\ HandedOutOnce'
<1>1. Holders' = Holders  BY DEF Holders
<1>2. item \in [Workers -> 0 .. N] /\ prog \in Nat /\ chunkIter \in Nat
  BY ListAssumption DEF IInv, TypeOK
<1>3. prog + Cardinality(Holders) < chunkIter  BY DEF IInv, HandedOutOnce, Holders
<1>4. prog' + Cardinality(Holders') < chunkIter'  BY <1>1, <1>2, <1>3, HoldersFinite
<1>5. ItemsBehind'
  <2>. SUFFICES ASSUME NEW v \in Workers, HasItem(v)'
                PROVE  1 <= item[v] /\ item[v] < chunkIter'
    BY DEF ItemsBehind
  <2>1. 1 <= item[v] /\ item[v] < chunkIter  BY DEF IInv, ItemsBehind
  <2>. QED  BY <2>1, <1>2, ListAssumption
<1>. QED  BY <1>4, <1>5 DEF IInv, HandedOutOnce, Holders

\* No step hands a chunk out twice.
LEMMA NextHandsOut == ASSUME IInv, Next PROVE ItemsBehind' /\ HandedOutOnce'
<1>. DEFINE G == ItemsBehind' /\ HandedOutOnce'
<1>. USE ListAssumption
<1>0. pc \in [Workers -> Labels] /\ chunkIter \in Nat /\ chunkIter <= N + 1 /\ N + 1 \in Nat
  BY DEF IInv, TypeOK
<1>1. ASSUME NEW w \in Workers,
             Check(w) \/ Notify(w) \/ Download(w) \/ OpenForWrite(w) \/ CloseWrite(w)
      PROVE  G
  <2>1. \A v \in Workers : HasItem(v)' <=> HasItem(v)
    BY <1>0, <1>1 DEF Check, Notify, Download, OpenForWrite, CloseWrite, Goto, HasItem
  <2>2. item' = item /\ prog' = prog /\ chunkIter' = chunkIter
    BY <1>1 DEF Check, Notify, Download, OpenForWrite, CloseWrite, jobs
  <2>. QED  BY <1>0, <2>1, <2>2, SameHolders
<1>2. ASSUME NEW w \in Workers, Take(w) PROVE G  BY <1>2, TakeHandsOut
<1>3. ASSUME NEW w \in Workers, TakeNone(w) PROVE G
  <2>1. \A v \in Workers : HasItem(v)' <=> HasItem(v)
    BY <1>0, <1>3 DEF TakeNone, Goto, HasItem
  <2>2. item' = item /\ prog' = prog /\ chunkIter' = N + 1
    BY <1>3 DEF TakeNone
  <2>. QED  BY <1>0, <2>1, <2>2, SameHolders
<1>4. ASSUME NEW w \in Workers, OnProg(w) PROVE G  BY <1>4, OnProgHandsOut
<1>5. CASE MainStep \/ SpuriousWakeup \/ Purge \/ CountMissing \/ Cancel
  <2>1. \A v \in Workers : HasItem(v)' <=> HasItem(v)
    BY <1>5 DEF MainStep, MainWait, MainJoin, SpuriousWakeup, Purge, PurgeEnd,
       PurgeCancelled,
                PurgeVisit, CountMissing, Cancel, HasItem
  <2>2. item' = item /\ prog' = prog /\ chunkIter' = chunkIter
    BY <1>5 DEF MainStep, MainWait, MainJoin, SpuriousWakeup, Purge, PurgeEnd,
       PurgeCancelled,
                PurgeVisit, CountMissing, Cancel, jobs
  <2>. QED  BY <1>0, <2>1, <2>2, SameHolders
<1>6. CASE Again \/ Kill \/ \E f \in Stale : PurgeThrows(f)
  BY <1>6, NextTypeOK, BeginIInv DEF Again, Kill, PurgeThrows, IInv, TypeOK
<1>. QED  BY <1>1, <1>2, <1>3, <1>4, <1>5, <1>6 DEF Next, Work

----------------------------------------------------------------------------
\* The iterator only stands at its end, and only goes on, under the lock.
LEMMA NextAtEnd == ASSUME IInv, Next PROVE AtEnd'
<1>. USE DEF AtEnd
<1>1. AtEnd  BY DEF IInv
<1>2. ASSUME NEW w \in Workers, Take(w) PROVE AtEnd'
  <2>1. PICK c \in Ahead : chunkIter <= c /\ c <= N
    BY <1>2, ListAssumption DEF Take, Ahead, Manifest
  <2>2. ~chunkDone
    BY <1>1, <2>1, ListAssumption DEF Ahead, Manifest, IInv, TypeOK
  <2>. QED  BY <1>2, <2>2 DEF Take
<1>3. ASSUME NEW w \in Workers, TakeNone(w) PROVE AtEnd'  BY <1>3 DEF TakeNone
<1>4. ASSUME NEW w \in Workers,
             Check(w) \/ Notify(w) \/ Download(w) \/ OpenForWrite(w) \/ CloseWrite(w)
             \/ OnProg(w)
      PROVE  AtEnd'
  BY <1>1, <1>4 DEF Check, Notify, Download, OpenForWrite, CloseWrite, OnProg, jobs
<1>5. CASE MainStep \/ SpuriousWakeup \/ Purge \/ CountMissing \/ Cancel
  BY <1>1, <1>5 DEF MainStep, MainWait, MainJoin, SpuriousWakeup, Purge, PurgeEnd,
     PurgeCancelled,
                    PurgeVisit, CountMissing, Cancel, jobs
<1>6. CASE Again \/ Kill \/ \E f \in Stale : PurgeThrows(f)
  BY <1>6 DEF Again, Kill, PurgeThrows, Begin
<1>. QED  BY <1>2, <1>3, <1>4, <1>5, <1>6 DEF Next, Work

\* A chunk that a worker is about to write, as BehindIsTaken has it.
Awaited(c) == \E w \in Workers : pc[w] \in {"download", "got"} /\ item[w] = c

\* No chunk gets behind the iterator unless it is on disk or somebody writes it.
LEMMA NextBehindIsTaken == ASSUME IInv, Next PROVE BehindIsTaken'
<1>. USE ListAssumption
<1>. SUFFICES ASSUME ~cancelled', NEW c \in Manifest, c < chunkIter'
              PROVE  Downloaded(c)' \/ Awaited(c)'
  BY DEF BehindIsTaken, Awaited, Manifest
<1>0. /\ disk \in [Manifest \union Stale -> FileState] /\ pc \in [Workers -> Labels]
      /\ item \in [Workers -> 0 .. N] /\ chunkIter \in Nat
      /\ c \in Nat /\ 1 <= c /\ c <= N
  BY DEF IInv, TypeOK, Manifest
<1>1. ~cancelled /\ c < chunkIter => Downloaded(c) \/ Awaited(c)
  BY DEF IInv, BehindIsTaken, Awaited
<1>2. ASSUME NEW w \in Workers, Take(w) PROVE Downloaded(c)' \/ Awaited(c)'
  <2>1. PICK d \in Ahead : /\ IsFirst(d) /\ item' = [item EXCEPT ![w] = d]
                           /\ chunkIter' = d + 1
    BY <1>2 DEF Take, IterAfter
  <2>2. d \in Nat /\ d \in Manifest  BY <2>1 DEF Ahead, Manifest
  <2>3. c <= d  BY <1>0, <2>1, <2>2
  <2>4. pc'[w] = "download" /\ item'[w] = d
    BY <1>0, <1>2, <2>1 DEF Take, Goto
  <2>5. \A v \in Workers \ {w} : pc'[v] = pc[v] /\ item'[v] = item[v]
    BY <1>0, <1>2, <2>1 DEF Take, Goto
  <2>6. pc[w] = "get" /\ disk' = disk /\ ~cancelled  BY <1>2 DEF Take
  <2>7. CASE c = d  BY <2>4, <2>7 DEF Awaited
  <2>8. CASE c < chunkIter  BY <1>1, <2>5, <2>6, <2>8 DEF Awaited, Downloaded
  <2>9. CASE c # d /\ chunkIter <= c
    <3>1. c \notin Ahead
      <4>. SUFFICES ASSUME c \in Ahead PROVE FALSE  OBVIOUS
      <4>1. d <= c  BY <2>1 DEF IsFirst
      <4>. QED  BY <1>0, <2>2, <2>3, <2>9, <4>1
    <3>. QED  BY <2>6, <2>9, <3>1 DEF Ahead, Downloaded
  <2>. QED  BY <1>0, <2>7, <2>8, <2>9
<1>3. ASSUME NEW w \in Workers, TakeNone(w) PROVE Downloaded(c)' \/ Awaited(c)'
  <2>1. pc[w] = "get" /\ disk' = disk /\ item' = item /\ ~cancelled /\ Ahead = {}
    BY <1>3 DEF TakeNone
  <2>2. \A v \in Workers \ {w} : pc'[v] = pc[v]  BY <1>0, <1>3 DEF TakeNone, Goto
  <2>3. CASE c < chunkIter  BY <1>1, <2>1, <2>2, <2>3 DEF Awaited, Downloaded
  <2>4. CASE chunkIter <= c  BY <2>1, <2>4 DEF Ahead, Downloaded
  <2>. QED  BY <1>0, <2>3, <2>4
<1>4. ASSUME NEW w \in Workers, Check(w) \/ Notify(w) \/ OnProg(w)
      PROVE  Downloaded(c)' \/ Awaited(c)'
  <2>1. /\ pc[w] \notin {"download", "got"} /\ disk' = disk /\ item' = item
        /\ chunkIter' = chunkIter /\ cancelled' = cancelled
    BY <1>4 DEF Check, Notify, OnProg, jobs
  <2>2. \A v \in Workers \ {w} : pc'[v] = pc[v]
    BY <1>0, <1>4 DEF Check, Notify, OnProg, Goto
  <2>. QED  BY <1>1, <2>1, <2>2 DEF Awaited, Downloaded
<1>5. ASSUME NEW w \in Workers, Download(w) PROVE Downloaded(c)' \/ Awaited(c)'
  <2>1. /\ disk' = disk /\ item' = item /\ chunkIter' = chunkIter
        /\ cancelled' = cancelled
    BY <1>5 DEF Download, jobs
  <2>2. pc'[w] = "got" /\ \A v \in Workers \ {w} : pc'[v] = pc[v]
    BY <1>0, <1>5, <2>1 DEF Download, Goto, FlagReads
  <2>. QED  BY <1>1, <2>1, <2>2 DEF Awaited, Downloaded
<1>6. ASSUME NEW w \in Workers, OpenForWrite(w) PROVE Downloaded(c)' \/ Awaited(c)'
  <2>1. /\ item' = item /\ chunkIter' = chunkIter /\ ~cancelled
        /\ disk' = [disk EXCEPT ![item[w]] = "partial"]
    BY <1>6 DEF OpenForWrite, FlagReads, jobs
  <2>2. \A v \in Workers \ {w} : pc'[v] = pc[v]
    BY <1>0, <1>6 DEF OpenForWrite, Goto
  <2>3. Downloaded(c) => Downloaded(c)'  BY <1>0, <2>1 DEF Downloaded
  <2>4. item[w] = c => Downloaded(c)'  BY <1>0, <2>1 DEF Downloaded
  <2>. QED  BY <1>1, <2>1, <2>2, <2>3, <2>4 DEF Awaited
<1>7. ASSUME NEW w \in Workers, CloseWrite(w) PROVE Downloaded(c)' \/ Awaited(c)'
  <2>1. /\ item' = item /\ chunkIter' = chunkIter /\ cancelled' = cancelled
        /\ pc[w] = "write" /\ disk' = [disk EXCEPT ![item[w]] = "whole"]
    BY <1>7 DEF CloseWrite, jobs
  <2>2. \A v \in Workers \ {w} : pc'[v] = pc[v]  BY <1>0, <1>7 DEF CloseWrite, Goto
  <2>3. Downloaded(c) => Downloaded(c)'  BY <1>0, <2>1 DEF Downloaded
  <2>. QED  BY <1>1, <2>1, <2>2, <2>3 DEF Awaited
<1>8. CASE MainStep \/ SpuriousWakeup \/ CountMissing \/ Cancel
  BY <1>1, <1>8 DEF MainStep, MainWait, MainJoin, SpuriousWakeup, CountMissing, Cancel,
                    jobs, rest, purge, Awaited, Downloaded
<1>9. CASE PurgeEnd \/ PurgeCancelled
  BY <1>1, <1>9 DEF PurgeEnd, PurgeCancelled, FlagReads, jobs, Awaited, Downloaded
<1>10. ASSUME NEW f \in Manifest \union Stale, PurgeVisit(f)
       PROVE  Downloaded(c)' \/ Awaited(c)'
  <2>1. disk'[c] = disk[c]  BY <1>0, <1>10 DEF PurgeVisit, Unused, IInv, GuidsLeft
  <2>. QED  BY <1>1, <1>10, <2>1 DEF PurgeVisit, jobs, Awaited, Downloaded
<1>11. CASE Again \/ Kill \/ \E f \in Stale : PurgeThrows(f)
  BY <1>0, <1>11 DEF Again, Kill, PurgeThrows, Begin
<1>. QED
  BY <1>2, <1>3, <1>4, <1>5, <1>6, <1>7, <1>8, <1>9, <1>10, <1>11 DEF Next, Work, Purge

\* Without a cancel, nobody leaves and nobody joins before the end of the list.
LEMMA NextEnds == ASSUME IInv, Next PROVE LeavesAtEnd' /\ JoinsAtEnd'
<1>. DEFINE G == LeavesAtEnd' /\ JoinsAtEnd'
<1>. USE DEF LeavesAtEnd, JoinsAtEnd
<1>0. pc \in [Workers -> Labels] /\ LeavesAtEnd /\ JoinsAtEnd  BY DEF IInv, TypeOK
<1>1. ASSUME NEW w \in Workers, Check(w) PROVE G
  BY <1>0, <1>1 DEF Check, FlagReads, Goto, jobs
<1>2. ASSUME NEW w \in Workers, Take(w) PROVE G
  BY <1>0, <1>2 DEF Take, Goto
<1>3. ASSUME NEW w \in Workers, TakeNone(w) PROVE G
  BY <1>0, <1>3 DEF TakeNone, Goto
<1>4. ASSUME NEW w \in Workers, Notify(w) PROVE G
  BY <1>0, <1>4 DEF Notify, Goto, jobs
<1>5. ASSUME NEW w \in Workers,
             Download(w) \/ OpenForWrite(w) \/ CloseWrite(w) \/ OnProg(w)
      PROVE  G
  BY <1>0, <1>5 DEF Download, OpenForWrite, CloseWrite, OnProg, Goto, jobs
<1>6. CASE MainStep \/ SpuriousWakeup \/ Purge \/ CountMissing \/ Cancel
  BY <1>0, <1>6 DEF MainStep, MainWait, FlagReads, MainJoin, SpuriousWakeup, Purge,
                    PurgeEnd, PurgeCancelled, PurgeVisit, CountMissing, Cancel, jobs
<1>7. CASE Again \/ Kill \/ \E f \in Stale : PurgeThrows(f)
  BY <1>7 DEF Again, Kill, PurgeThrows, Begin
<1>. QED  BY <1>1, <1>2, <1>3, <1>4, <1>5, <1>6, <1>7 DEF Next, Work

\* The function returns after its threads, and starts none before it is called again.
LEMMA NextAllJoined == ASSUME IInv, Next PROVE AllJoined'
<1>. USE DEF AllJoined, Exited
<1>0. AllJoined  BY DEF IInv
<1>1. ASSUME NEW w \in Workers, Work(w) PROVE AllJoined'
  <2>1. pc[w] # "exit"
    BY <1>1 DEF Work, Check, Take, TakeNone, Notify, Download, OpenForWrite, CloseWrite,
                OnProg
  <2>2. main # "returned"  BY <1>0, <2>1
  <2>3. main' # "returned"
    BY <1>1, <2>2 DEF Work, Check, Take, TakeNone, Notify, Download, OpenForWrite,
                      CloseWrite, OnProg
  <2>. QED  BY <2>3
<1>2. CASE MainStep \/ SpuriousWakeup
  BY <1>2 DEF MainStep, MainWait, MainJoin, SpuriousWakeup, rest, purge
<1>3. CASE Purge \/ CountMissing \/ Cancel
  BY <1>0, <1>3 DEF Purge, PurgeEnd, PurgeCancelled, PurgeVisit, CountMissing, Cancel, rest
<1>4. CASE Again \/ Kill \/ \E f \in Stale : PurgeThrows(f)
  BY <1>4 DEF Again, Kill, PurgeThrows, Begin
<1>. QED  BY <1>1, <1>2, <1>3, <1>4 DEF Next

\* No worker writes a file of an old manifest, and the purge skips none.
LEMMA NextStaleUnseen == ASSUME IInv, Next PROVE StaleUnseen'
<1>. USE ListAssumption
<1>. SUFFICES ASSUME ~cancelled', NEW f \in Stale, Downloaded(f)'
              PROVE  purging' /\ f \in unseen'
  BY DEF StaleUnseen
<1>0. /\ disk \in [Manifest \union Stale -> FileState] /\ item \in [Workers -> 0 .. N]
      /\ f \in Manifest \union Stale /\ f \notin Manifest /\ f \notin guids
  BY DEF IInv, TypeOK
<1>1. ~cancelled /\ Downloaded(f) => purging /\ f \in unseen  BY DEF IInv, StaleUnseen
<1>2. ASSUME NEW w \in Workers, OpenForWrite(w) \/ CloseWrite(w)
      PROVE purging' /\ f \in unseen'
  <2>1. HasItem(w) \/ disk' = disk
    BY <1>2 DEF OpenForWrite, CloseWrite, HasItem
  <2>2. HasItem(w) => item[w] \in Manifest
    BY <1>0 DEF IInv, ItemsBehind, Manifest
  <2>3. disk'[f] = disk[f]
    BY <1>0, <1>2, <2>1, <2>2 DEF OpenForWrite, CloseWrite
  <2>. QED  BY <1>1, <1>2, <2>3 DEF OpenForWrite, CloseWrite, rest, purge, Downloaded
<1>3. ASSUME NEW w \in Workers,
             Check(w) \/ Take(w) \/ TakeNone(w) \/ Notify(w) \/ Download(w) \/ OnProg(w)
      PROVE  purging' /\ f \in unseen'
  BY <1>1, <1>3 DEF Check, Take, TakeNone, Notify, Download, OnProg, rest, purge,
                    Downloaded
<1>4. CASE MainStep \/ SpuriousWakeup \/ CountMissing \/ Cancel
  BY <1>1, <1>4 DEF MainStep, MainWait, MainJoin, SpuriousWakeup, CountMissing, Cancel,
                    rest, purge, Downloaded
<1>5. CASE PurgeEnd \/ PurgeCancelled
  <2>1. (unseen = {} /\ disk' = disk /\ ~cancelled) \/ cancelled'
    BY <1>5 DEF PurgeEnd, PurgeCancelled, FlagReads
  <2>. QED  BY <1>1, <2>1, <1>5 DEF PurgeEnd, PurgeCancelled, FlagReads, Downloaded
<1>6. ASSUME NEW g \in Manifest \union Stale, PurgeVisit(g) PROVE purging' /\ f \in unseen'
  <2>1. CASE g = f
    <3>1. disk'[f] = "absent"  BY <1>0, <1>6, <2>1 DEF PurgeVisit, Unused
    <3>. QED  BY <3>1 DEF Downloaded
  <2>2. CASE g # f
    <3>1. disk'[f] = disk[f] /\ unseen' = unseen \ {g} /\ purging' = purging /\ ~cancelled
      BY <1>0, <1>6, <2>2 DEF PurgeVisit
    <3>. QED  BY <1>1, <2>2, <3>1 DEF Downloaded
  <2>. QED  BY <2>1, <2>2
<1>7. CASE Again \/ Kill \/ \E g \in Stale : PurgeThrows(g)
  BY <1>0, <1>7 DEF Again, Kill, PurgeThrows, Begin, Present, Downloaded
<1>. QED  BY <1>2, <1>3, <1>4, <1>5, <1>6, <1>7 DEF Next, Work, Purge

\* Only the worker that holds a chunk makes its file.
LEMMA NextNotYetThere == ASSUME IInv, Next PROVE NotYetThere'
<1>. USE ListAssumption
<1>. SUFFICES ASSUME NEW v \in Workers, pc'[v] \in {"download", "got"}
              PROVE  ~Downloaded(item[v])'
  BY DEF NotYetThere
<1>. DEFINE G == disk'[item'[v]] = "absent"
<1>0. /\ disk \in [Manifest \union Stale -> FileState] /\ pc \in [Workers -> Labels]
      /\ item \in [Workers -> 0 .. N]
  BY DEF IInv, TypeOK
<1>1. pc[v] \in {"download", "got"} => disk[item[v]] = "absent" /\ item[v] \in Manifest
  BY <1>0 DEF IInv, NotYetThere, Downloaded, ItemsBehind, HasItem, Manifest
<1>2. ASSUME NEW w \in Workers, Take(w) PROVE G
  <2>1. PICK d \in Ahead : item' = [item EXCEPT ![w] = d]  BY <1>2 DEF Take
  <2>2. disk[d] = "absent" /\ disk' = disk  BY <1>2, <2>1 DEF Take, Ahead, Downloaded
  <2>3. CASE v = w  BY <1>0, <2>1, <2>2, <2>3
  <2>4. CASE v # w
    <3>1. pc'[v] = pc[v] /\ item'[v] = item[v]  BY <1>0, <1>2, <2>1, <2>4 DEF Take, Goto
    <3>. QED  BY <1>1, <2>2, <3>1
  <2>. QED  BY <2>3, <2>4
<1>3. ASSUME NEW w \in Workers, OpenForWrite(w) \/ CloseWrite(w) PROVE G
  <2>1. item' = item  BY <1>3 DEF OpenForWrite, CloseWrite, jobs
  <2>2. v # w  BY <1>0, <1>3 DEF OpenForWrite, CloseWrite, Goto
  <2>3. pc'[v] = pc[v]  BY <1>0, <1>3, <2>2 DEF OpenForWrite, CloseWrite, Goto
  <2>4. item[w] # item[v]
    BY <1>3, <2>2, <2>3 DEF IInv, HandedOutOnce, HasItem, OpenForWrite, CloseWrite
  <2>5. disk'[item[v]] = disk[item[v]]
    BY <1>0, <1>1, <1>3, <2>3, <2>4 DEF OpenForWrite, CloseWrite
  <2>. QED  BY <1>1, <2>1, <2>3, <2>5
<1>4. ASSUME NEW w \in Workers,
             Check(w) \/ TakeNone(w) \/ Notify(w) \/ Download(w) \/ OnProg(w)
      PROVE  G
  <2>1. disk' = disk /\ item' = item
    BY <1>4 DEF Check, TakeNone, Notify, Download, OnProg, jobs
  <2>2. pc[v] \in {"download", "got"}
    BY <1>0, <1>4 DEF Check, TakeNone, Notify, Download, OnProg, Goto
  <2>. QED  BY <1>1, <2>1, <2>2
<1>5. CASE MainStep \/ SpuriousWakeup \/ PurgeEnd \/ PurgeCancelled \/ CountMissing
           \/ Cancel
  BY <1>1, <1>5 DEF MainStep, MainWait, MainJoin, SpuriousWakeup, PurgeEnd,
                    PurgeCancelled, CountMissing, Cancel, jobs, Downloaded
<1>6. ASSUME NEW f \in Manifest \union Stale, PurgeVisit(f) PROVE G
  BY <1>0, <1>1, <1>6 DEF PurgeVisit, jobs
<1>7. CASE Again \/ Kill \/ \E f \in Stale : PurgeThrows(f)
  BY <1>7 DEF Again, Kill, PurgeThrows, Begin
<1>. QED  BY <1>2, <1>3, <1>4, <1>5, <1>6, <1>7 DEF Next, Work, Purge, Downloaded

\* A file is listed once, before or after it is made, and then its GUID is used up.
LEMMA NextGuidsLeft == ASSUME IInv, Next PROVE GuidsLeft'
<1>. USE ListAssumption
<1>. SUFFICES ASSUME NEW c \in Manifest
              PROVE  /\ c \in unseen' => Downloaded(c)' /\ c \in guids'
                     /\ ~Downloaded(c)' => c \in guids'
  BY DEF GuidsLeft
<1>. DEFINE G == /\ c \in unseen' => Downloaded(c)' /\ c \in guids'
                 /\ ~Downloaded(c)' => c \in guids'
<1>0. /\ disk \in [Manifest \union Stale -> FileState] /\ item \in [Workers -> 0 .. N]
      /\ c \in Manifest \union Stale
  BY DEF IInv, TypeOK
<1>1. /\ c \in unseen => Downloaded(c) /\ c \in guids
      /\ ~Downloaded(c) => c \in guids
  BY DEF IInv, GuidsLeft
<1>2. ASSUME NEW w \in Workers, OpenForWrite(w) PROVE G
  <2>1. guids' = guids /\ pc[w] = "got"  BY <1>2 DEF OpenForWrite
  <2>2. ~Downloaded(item[w])  BY <2>1 DEF IInv, NotYetThere
  <2>3. Downloaded(c) => Downloaded(c)'
    BY <1>0, <1>2 DEF OpenForWrite, Downloaded
  <2>4. CASE unseen' = unseen  BY <1>1, <2>1, <2>3, <2>4
  <2>5. CASE /\ unseen' = unseen \union {item[w]}
             /\ disk' = [disk EXCEPT ![item[w]] = "partial"]
    <3>1. CASE c = item[w]
      <4>1. Downloaded(c)'  BY <1>0, <2>5, <3>1 DEF Downloaded
      <4>. QED  BY <1>1, <2>1, <2>2, <3>1, <4>1
    <3>2. CASE c # item[w]  BY <1>1, <2>1, <2>3, <2>5, <3>2
    <3>. QED  BY <3>1, <3>2
  <2>. QED  BY <1>2, <2>4, <2>5 DEF OpenForWrite
<1>3. ASSUME NEW w \in Workers, CloseWrite(w) PROVE G
  BY <1>0, <1>1, <1>3 DEF CloseWrite, rest, purge, Downloaded
<1>4. ASSUME NEW w \in Workers,
             Check(w) \/ Take(w) \/ TakeNone(w) \/ Notify(w) \/ Download(w) \/ OnProg(w)
      PROVE  G
  BY <1>1, <1>4 DEF Check, Take, TakeNone, Notify, Download, OnProg, rest, purge, Downloaded
<1>5. CASE MainStep \/ SpuriousWakeup \/ PurgeEnd \/ PurgeCancelled \/ CountMissing
           \/ Cancel
  BY <1>1, <1>5 DEF MainStep, MainWait, MainJoin, SpuriousWakeup, PurgeEnd,
                    PurgeCancelled, CountMissing, Cancel, rest, purge, Downloaded
<1>6. ASSUME NEW f \in Manifest \union Stale, PurgeVisit(f) PROVE G
  <2>1. /\ f \in unseen /\ unseen' = unseen \ {f} /\ guids' = guids \ {f}
        /\ disk' = IF f \notin guids THEN [disk EXCEPT ![f] = "absent"] ELSE disk
    BY <1>6 DEF PurgeVisit, Unused
  <2>2. CASE f = c
    <3>1. Downloaded(c) /\ c \in guids  BY <1>1, <2>1, <2>2
    <3>. QED  BY <2>1, <2>2, <3>1 DEF Downloaded
  <2>3. CASE f # c  BY <1>0, <1>1, <2>1, <2>3 DEF Downloaded
  <2>. QED  BY <2>2, <2>3
<1>7. CASE Again \/ Kill \/ \E f \in Stale : PurgeThrows(f)
  BY <1>7 DEF Again, Kill, PurgeThrows, Begin, Present, Downloaded
<1>8. ASSUME NEW w \in Workers, Work(w) PROVE G  BY <1>2, <1>3, <1>4, <1>8 DEF Work
<1>9. CASE Purge  BY <1>5, <1>6, <1>9 DEF Purge
<1>. QED  BY <1>5, <1>7, <1>8, <1>9 DEF Next

\* A worker that has opened a file writes it to its end.
LEMMA NextCutOrWritten == ASSUME IInv, Next PROVE CutOrWritten'
<1>. USE ListAssumption
<1>. DEFINE Writes(w, c) == pc[w] = "write" /\ item[w] = c
<1>. SUFFICES ASSUME NEW c \in Manifest, disk'[c] = "partial"
              PROVE  c \in cut' \/ \E w \in Workers : Writes(w, c)'
  BY DEF CutOrWritten
<1>. DEFINE G == c \in cut' \/ \E w \in Workers : pc'[w] = "write" /\ item'[w] = c
<1>0. /\ disk \in [Manifest \union Stale -> FileState] /\ pc \in [Workers -> Labels]
      /\ item \in [Workers -> 0 .. N] /\ c \in Manifest \union Stale
  BY DEF IInv, TypeOK
<1>1. disk[c] = "partial" =>
        c \in cut \/ \E w \in Workers : pc[w] = "write" /\ item[w] = c
  BY DEF IInv, CutOrWritten
<1>2. ASSUME NEW w \in Workers, OpenForWrite(w) PROVE G
  <2>1. item' = item /\ cut' = cut /\ pc[w] = "got"  BY <1>2 DEF OpenForWrite, jobs
  <2>2. \A u \in Workers \ {w} : pc'[u] = pc[u]  BY <1>0, <1>2 DEF OpenForWrite, Goto
  <2>3. CASE disk[c] = "partial"  BY <1>1, <2>1, <2>2, <2>3
  <2>4. CASE disk[c] # "partial"
    <3>1. item[w] = c /\ pc'[w] = "write"
      BY <1>0, <1>2, <2>4 DEF OpenForWrite, Goto
    <3>. QED  BY <2>1, <3>1
  <2>. QED  BY <2>3, <2>4
<1>3. ASSUME NEW w \in Workers, CloseWrite(w) PROVE G
  <2>1. item' = item /\ cut' = cut  BY <1>3 DEF CloseWrite, jobs, rest
  <2>2. \A u \in Workers \ {w} : pc'[u] = pc[u]  BY <1>0, <1>3 DEF CloseWrite, Goto
  <2>3. item[w] # c /\ disk[c] = "partial"  BY <1>0, <1>3 DEF CloseWrite
  <2>. QED  BY <1>1, <2>1, <2>2, <2>3
<1>4. ASSUME NEW w \in Workers,
             Check(w) \/ Take(w) \/ TakeNone(w) \/ Notify(w) \/ Download(w) \/ OnProg(w)
      PROVE  G
  <2>1. disk' = disk /\ cut' = cut
    BY <1>4 DEF Check, Take, TakeNone, Notify, Download, OnProg, rest
  <2>2. \A u \in Workers : pc[u] = "write" => pc'[u] = "write" /\ item'[u] = item[u]
    BY <1>0, <1>4 DEF Check, Take, TakeNone, Notify, Download, OnProg, Goto, jobs
  <2>. QED  BY <1>1, <2>1, <2>2
<1>5. CASE MainStep \/ SpuriousWakeup \/ PurgeEnd \/ PurgeCancelled \/ CountMissing
           \/ Cancel
  BY <1>1, <1>5 DEF MainStep, MainWait, MainJoin, SpuriousWakeup, PurgeEnd,
                    PurgeCancelled, CountMissing, Cancel, jobs, rest
<1>6. ASSUME NEW f \in Manifest \union Stale, PurgeVisit(f) PROVE G
  <2>1. disk[c] = "partial"  BY <1>0, <1>6 DEF PurgeVisit
  <2>. QED  BY <1>1, <1>6, <2>1 DEF PurgeVisit, jobs
<1>7. CASE Again \/ Kill \/ \E f \in Stale : PurgeThrows(f)
  BY <1>7 DEF Again, Kill, PurgeThrows, Begin, CutShort
<1>. QED  BY <1>2, <1>3, <1>4, <1>5, <1>6, <1>7 DEF Next, Work, Purge

\* The invariant is inductive.
LEMMA NextIInv == IInv /\ [Next]_vars => IInv'
<1>1. IInv /\ Next => IInv'
  BY NextTypeOK, NextHandsOut, NextAtEnd, NextBehindIsTaken, NextEnds, NextAllJoined,
     NextStaleUnseen, NextNotYetThere, NextGuidsLeft, NextCutOrWritten DEF IInv
<1>2. IInv /\ UNCHANGED vars => IInv'
  BY DEF IInv, vars, jobs, rest, purge, TypeOK, ItemsBehind, HandedOutOnce, HasItem, AtEnd,
         BehindIsTaken, LeavesAtEnd, JoinsAtEnd, AllJoined, Exited, StaleUnseen,
         NotYetThere, GuidsLeft, CutOrWritten, Downloaded
<1>. QED  BY <1>1, <1>2

\* What the invariant says of an update that returned uncancelled: the list is used up,
\* nobody is left to write, and no file of an old manifest is left to visit.
LEMMA IInvComplete == IInv => ReturnedComplete
<1>. SUFFICES ASSUME IInv, main = "returned", ~cancelled PROVE ReturnedComplete
  BY DEF ReturnedComplete
<1>1. chunkIter = N + 1  BY DEF IInv, JoinsAtEnd, AtEnd
<1>2. \A w \in Workers : pc[w] \notin {"download", "got", "write"}
  BY DEF IInv, AllJoined, Exited
<1>3. ASSUME NEW c \in Manifest PROVE Downloaded(c) /\ Arrived(c)
  <2>1. c < chunkIter  BY <1>1, ListAssumption DEF Manifest
  <2>2. Downloaded(c)  BY <1>2, <2>1 DEF IInv, BehindIsTaken
  <2>3. disk[c] = "partial" => c \in cut  BY <1>2 DEF IInv, CutOrWritten
  <2>4. disk[c] \in FileState  BY DEF IInv, TypeOK
  <2>. QED  BY <2>2, <2>3, <2>4 DEF Downloaded, Arrived, FileState
<1>4. ASSUME NEW f \in Stale PROVE ~Downloaded(f)
  BY DEF IInv, AllJoined, StaleUnseen
<1>. QED  BY <1>3, <1>4 DEF ReturnedComplete

\* What it says of a worker locked out by the joins: nothing is left to take.
LEMMA IInvLockedOut == IInv => LockedOutAtEnd
<1>. SUFFICES ASSUME IInv, main = "join", ~cancelled PROVE Ahead = {}
  BY DEF LockedOutAtEnd
<1>1. chunkIter = N + 1  BY DEF IInv, JoinsAtEnd, AtEnd
<1>. QED  BY <1>1, ListAssumption DEF Ahead, Manifest

\* A single step takes no file of the manifest away.
LEMMA StepKeepsFiles ==
    ASSUME IInv, Next
    PROVE  \A c \in Manifest : Downloaded(c) => disk'[c] # "absent"
<1>. SUFFICES ASSUME NEW c \in Manifest, disk[c] # "absent" PROVE disk'[c] # "absent"
  BY DEF Downloaded
<1>0. disk \in [Manifest \union Stale -> FileState]  BY DEF IInv, TypeOK
<1>1. ASSUME NEW w \in Workers, Work(w) PROVE disk'[c] # "absent"
  BY <1>0, <1>1 DEF Work, Check, Take, TakeNone, Notify, Download, OpenForWrite,
                    CloseWrite, OnProg
<1>2. ASSUME NEW f \in Manifest \union Stale, PurgeVisit(f) PROVE disk'[c] # "absent"
  BY <1>0, <1>2 DEF PurgeVisit, Unused, IInv, GuidsLeft
<1>3. CASE \/ MainStep \/ SpuriousWakeup \/ PurgeEnd \/ PurgeCancelled \/ CountMissing
           \/ Cancel \/ Again \/ Kill \/ \E f \in Stale : PurgeThrows(f)
  BY <1>3 DEF MainStep, MainWait, MainJoin, SpuriousWakeup, PurgeEnd, PurgeCancelled,
              CountMissing, Cancel, Again, Kill, PurgeThrows, Begin
<1>. QED  BY <1>1, <1>2, <1>3 DEF Next, Purge

----------------------------------------------------------------------------
\* The inductive invariant holds in every behaviour.
THEOREM IInvHolds == Spec => []IInv
<1>. QED  BY InitIInv, NextIInv, PTL DEF Spec

\* Every variable keeps its type, for any instance.
THEOREM TypeCorrect == Spec => []TypeOK
<1>1. IInv => TypeOK  BY DEF IInv
<1>. QED  BY <1>1, IInvHolds, PTL

\* No two workers of threadJob have the same chunk, and onProg is called at most once
\* for each chunk that was taken.
THEOREM HandsOutOnce == Spec => []HandedOutOnce
<1>1. IInv => HandedOutOnce  BY DEF IInv
<1>. QED  BY <1>1, IInvHolds, PTL

\* PreloadAllChunks returns uncancelled only over a complete cache directory, in which
\* every file it wrote is whole.
THEOREM ReturnsComplete == Spec => []ReturnedComplete
<1>. QED  BY IInvComplete, IInvHolds, PTL

\* The joins with iterMtx held lock workers out only when nothing is left to take.
THEOREM LocksOutAtEnd == Spec => []LockedOutAtEnd
<1>. QED  BY IInvLockedOut, IInvHolds, PTL

\* The purge thread leaves the files of the manifest alone, in whatever order it comes
\* by them and whichever of the new ones it is shown: none is there to be listed once
\* its GUID is used up (GuidsLeft).
THEOREM KeepsManifestFiles == Spec => ManifestFilesStay
<1>1. IInv /\ [Next]_vars =>
        [\A c \in Manifest : Downloaded(c) => disk'[c] # "absent"]_vars
  BY StepKeepsFiles
<1>. QED  BY <1>1, IInvHolds, PTL DEF Spec, ManifestFilesStay
=============================================================================
