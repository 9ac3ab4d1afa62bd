-------------------------- MODULE VerifyAll_proofs -------------------------
(***************************************************************************)
(* What TLAPS proves of VerifyAll, for any number of chunks and threads,   *)
(* any cache directory and any number of verifications.                    *)
(***************************************************************************)
EXTENDS VerifyAll, TLAPS

\* A thread that runs is in the deque.
Tracked ==
    \A t \in AllThreads : pc[t] \notin {"none", "ended"} =>
        \E i \in 1 .. Len(threads) : threads[i] = t

\* The loop has yet to come to these chunks, and their files are as they were.
Untouched ==
    \A c \in Manifest : c >= chunk => pc[c] = "none" /\ disk[c] = found[c]

\* What is on disk of a chunk, by where its thread is: as it was found until it is
\* removed, which happens to a whole file only if the flag was misread; and when the
\* thread is done, what a verification may leave.
FileAt(c) ==
    /\ pc[c] = "none" /\ c < chunk => found[c] = "absent"
    /\ pc[c] \in {"verify", "rejected", "delete"} => disk[c] = found[c]
    /\ pc[c] \in {"deleted", "got"} => disk[c] = "absent"
    /\ pc[c] \in {"rejected", "delete", "deleted", "got", "write"} =>
           found[c] # "good" \/ cancelled
    /\ pc[c] \in {"prog", "ended"} => disk[c] \in Left(c)

Handled == main # "terminated" => \A c \in Manifest : FileAt(c)

\* Without a cancel the joins come after the last chunk.
JoinsAtEnd == main \in {"join", "returned"} /\ ~cancelled => chunk = N + 1

IInv ==
    /\ TypeOK /\ Len(threads) <= ThreadCount /\ Tracked /\ ThreadsJoined
    /\ main # "terminated" => Untouched
    /\ Handled /\ JoinsAtEnd

----------------------------------------------------------------------------
\* The variables of the calling thread, and those of the threads, as Init has them.
LEMMA InitIInv == Init => IInv
<1>. USE ListAssumption, ThreadsAssumption, ChoiceAssumption
<1>. SUFFICES ASSUME Init PROVE IInv  OBVIOUS
<1>1. pc \in [AllThreads -> Labels]  BY DEF Init, Labels, AllThreads
<1>2. threads \in Seq(AllThreads) /\ Len(threads) = 1 /\ threads[1] = Counter
  BY DEF Init, AllThreads, Counter
<1>3. disk \in [Manifest -> FileState] /\ 1 \in 1 .. N + 1  BY DEF Init
<1>4. TypeOK  BY <1>1, <1>2, <1>3 DEF Init, TypeOK
<1>5. \A t \in AllThreads : t # Counter => pc[t] = "none"  BY DEF Init
<1>6. Tracked  BY <1>2, <1>5 DEF Tracked
<1>7. Untouched
  <2>1. \A c \in Manifest : c \in AllThreads /\ c # Counter
    BY DEF Manifest, AllThreads, Counter
  <2>. QED  BY <1>5, <2>1 DEF Init, Untouched
<1>8. Handled
  <2>1. \A c \in Manifest : pc[c] = "none" /\ ~(c < chunk)
    BY <1>5 DEF Init, Manifest, AllThreads, Counter
  <2>. QED  BY <2>1 DEF Handled, FileAt
<1>. QED  BY <1>2, <1>4, <1>6, <1>7, <1>8 DEF IInv, Init, ThreadsJoined, JoinsAtEnd

\* The next verification starts in a state of the invariant.
LEMMA AgainIInv == ASSUME TypeOK, Again PROVE IInv'
<1>. USE ListAssumption, ThreadsAssumption
<1>1. pc' \in [AllThreads -> Labels]  BY DEF Again, Labels, AllThreads
<1>2. threads' \in Seq(AllThreads) /\ Len(threads') = 1 /\ threads'[1] = Counter
  BY DEF Again, AllThreads, Counter
<1>3. 1 \in 1 .. N + 1  OBVIOUS
<1>4. TypeOK'  BY <1>1, <1>2, <1>3 DEF Again, TypeOK
<1>5. \A t \in AllThreads : t # Counter => pc'[t] = "none"  BY DEF Again
<1>6. Tracked'  BY <1>2, <1>5 DEF Tracked
<1>7. Untouched'
  <2>1. \A c \in Manifest : c \in AllThreads /\ c # Counter
    BY DEF Manifest, AllThreads, Counter
  <2>. QED  BY <1>5, <2>1 DEF Again, Untouched, Downloaded
<1>8. Handled'
  <2>1. \A c \in Manifest : pc'[c] = "none" /\ ~(c < chunk')
    BY <1>5 DEF Again, Manifest, AllThreads, Counter
  <2>. QED  BY <2>1 DEF Handled, FileAt
<1>. QED  BY <1>2, <1>4, <1>6, <1>7, <1>8 DEF IInv, Again, ThreadsJoined, JoinsAtEnd

----------------------------------------------------------------------------
\* A step of the calling thread keeps the types.
LEMMA MainTypeOK == ASSUME IInv, MainStep PROVE TypeOK'
<1>. USE ListAssumption, ThreadsAssumption
<1>0. TypeOK  BY DEF IInv
<1>1. CASE NextChunk
  <2>1. chunk' \in 1 .. N + 1 /\ (main' = "place" => chunk' <= N)
    BY <1>0, <1>1 DEF NextChunk, TypeOK
  <2>. QED  BY <1>0, <1>1, <2>1 DEF NextChunk, TypeOK
<1>2. CASE JoinFront
  <2>1. threads # <<>>  BY <1>0, <1>2 DEF JoinFront, Full, TypeOK
  <2>2. threads' \in Seq(AllThreads)  BY <1>0, <1>2, <2>1 DEF JoinFront, Others, TypeOK
  <2>. QED  BY <1>0, <1>2, <2>2 DEF JoinFront, TypeOK
<1>3. CASE Start
  <2>1. chunk \in AllThreads /\ chunk + 1 \in 1 .. N + 1
    BY <1>0, <1>3 DEF Start, TypeOK, AllThreads
  <2>2. threads' \in Seq(AllThreads)
    <3>1. threads \in Seq(AllThreads) /\ Append(threads, chunk) \in Seq(AllThreads)
      BY <1>0, <2>1 DEF TypeOK
    <3>2. threads' \in {threads, Append(threads, chunk)}  BY <1>3 DEF Start
    <3>. QED  BY <3>1, <3>2
  <2>3. pc' \in [AllThreads -> Labels]
    BY <1>0, <1>3 DEF Start, Goto, Labels, TypeOK
  <2>4. chunk' \in 1 .. N + 1 /\ main' \in {"loop", "join"}
    BY <1>0, <1>3, <2>1 DEF Start, TypeOK
  <2>. QED  BY <1>0, <1>3, <2>2, <2>3, <2>4 DEF Start, TypeOK
<1>4. CASE EndOfList \/ JoinAll  BY <1>0, <1>4 DEF EndOfList, JoinAll, TypeOK
<1>. QED  BY <1>1, <1>2, <1>3, <1>4 DEF MainStep

\* A step of the calling thread keeps the rest of the invariant.
LEMMA MainIInv == ASSUME IInv, MainStep PROVE IInv'
<1>. USE ListAssumption, ThreadsAssumption
<1>. DEFINE Rest == /\ Len(threads) <= ThreadCount /\ Tracked /\ ThreadsJoined
                    /\ main # "terminated" => Untouched
                    /\ Handled /\ JoinsAtEnd
<1>0. TypeOK /\ Rest /\ TypeOK'  BY MainTypeOK DEF IInv
<1>1. ASSUME NextChunk PROVE Rest'
  <2>1. threads' = threads /\ pc' = pc /\ disk' = disk /\ found' = found /\ cancelled' = cancelled
    BY <1>1 DEF NextChunk
  <2>2. main = "loop" /\ main' \in {"loop", "place"} /\ chunk \in Nat /\ chunk <= N
        /\ chunk' \in {chunk, chunk + 1}
    BY <1>0, <1>1 DEF NextChunk, TypeOK
  <2>3. Untouched'
    BY <1>0, <2>1, <2>2 DEF Untouched, Downloaded, Manifest
  <2>4. Handled'
    <3>. SUFFICES ASSUME NEW c \in Manifest PROVE FileAt(c)'
      BY DEF Handled
    <3>1. FileAt(c) /\ c \in Nat  BY <1>0, <2>2 DEF Handled, Manifest
    <3>2. pc[c] = "none" /\ c < chunk' => found[c] = "absent"
      <4>1. CASE c < chunk  BY <3>1, <4>1 DEF FileAt
      <4>2. CASE c = chunk /\ c < chunk'
        <5>1. ~Downloaded(chunk)  BY <1>1, <2>2, <3>1, <4>2 DEF NextChunk
        <5>2. disk[c] = found[c]  BY <1>0, <2>2, <3>1, <4>2 DEF Untouched
        <5>. QED  BY <4>2, <5>1, <5>2 DEF Downloaded
      <4>. QED  BY <2>2, <3>1, <4>1, <4>2
    <3>. QED  BY <2>1, <3>1, <3>2 DEF FileAt, Left
  <2>. QED  BY <1>0, <2>1, <2>2, <2>3, <2>4 DEF Tracked, ThreadsJoined, JoinsAtEnd
<1>2. ASSUME JoinFront PROVE Rest'
  <2>1. main = "place" /\ main' = main /\ pc' = pc /\ disk' = disk /\ found' = found
        /\ chunk' = chunk /\ cancelled' = cancelled
    BY <1>2 DEF JoinFront
  <2>2. threads # <<>> /\ threads \in Seq(AllThreads) /\ pc[threads[1]] = "ended"
    BY <1>0, <1>2 DEF JoinFront, Full, TypeOK
  <2>3. Len(threads') = Len(threads) - 1
        /\ \A i \in 1 .. Len(threads) - 1 : threads'[i] = threads[i + 1]
    BY <1>2, <2>2 DEF JoinFront, Others
  <2>4. Tracked'
    <3>. SUFFICES ASSUME NEW t \in AllThreads, pc[t] \notin {"none", "ended"}
                  PROVE  \E i \in 1 .. Len(threads') : threads'[i] = t
      BY <2>1 DEF Tracked
    <3>1. PICK i \in 1 .. Len(threads) : threads[i] = t  BY <1>0 DEF Tracked
    <3>2. i # 1  BY <2>2, <3>1
    <3>3. i - 1 \in 1 .. Len(threads') /\ threads'[i - 1] = t
      BY <2>2, <2>3, <3>1, <3>2
    <3>. QED  BY <3>3
  <2>5. Len(threads') <= ThreadCount  BY <1>0, <2>2, <2>3
  <2>6. Untouched' /\ Handled'
    BY <1>0, <2>1 DEF Untouched, Handled, FileAt, Left
  <2>. QED  BY <1>0, <2>1, <2>4, <2>5, <2>6 DEF ThreadsJoined, JoinsAtEnd
<1>3. ASSUME Start PROVE Rest'
  <2>1. /\ main = "place" /\ main' \in {"loop", "join"} /\ disk' = disk /\ found' = found
        /\ cancelled' = cancelled /\ Len(threads) < ThreadCount
        /\ chunk \in Nat /\ chunk <= N /\ 1 <= chunk /\ chunk \in AllThreads
    <3>1. main = "place" /\ main' \in {"loop", "join"} /\ UNCHANGED <<disk, found, cancelled>>
      BY <1>3 DEF Start
    <3>2. Len(threads) \in Nat /\ ~(Len(threads) >= ThreadCount)
      BY <1>0, <1>3 DEF Start, Full, TypeOK
    <3>3. chunk \in 1 .. N + 1 /\ chunk <= N  BY <1>0, <3>1 DEF TypeOK
    <3>. QED  BY <3>1, <3>2, <3>3 DEF AllThreads
  <2>2. CASE TRUE \in FlagReads /\ main' = "join" /\ UNCHANGED <<chunk, threads, pc>>
    <3>1. cancelled  BY <2>2 DEF FlagReads
    <3>. QED
      BY <1>0, <2>1, <2>2, <3>1
      DEF Tracked, ThreadsJoined, Untouched, Handled, FileAt, Left, JoinsAtEnd
  <2>3. CASE /\ threads' = Append(threads, chunk) /\ Goto(chunk, "verify")
             /\ chunk' = chunk + 1 /\ main' = "loop"
    <3>1. pc'[chunk] = "verify" /\ \A t \in AllThreads \ {chunk} : pc'[t] = pc[t]
      BY <1>0, <2>1, <2>3 DEF Goto, TypeOK
    <3>2. /\ Len(threads') = Len(threads) + 1 /\ threads'[Len(threads) + 1] = chunk
          /\ \A i \in 1 .. Len(threads) : threads'[i] = threads[i]
      BY <1>0, <2>1, <2>3 DEF TypeOK
    <3>3. Len(threads') <= ThreadCount  BY <1>0, <2>1, <3>2 DEF TypeOK
    <3>4. Tracked'
      <4>1. Len(threads) \in Nat  BY <1>0 DEF TypeOK
      <4>. QED  BY <1>0, <3>1, <3>2, <4>1 DEF Tracked
    <3>5. Untouched'
      <4>1. \A c \in Manifest : c >= chunk + 1 => c >= chunk /\ c # chunk /\ c \in AllThreads
        BY <2>1 DEF Manifest, AllThreads
      <4>. QED  BY <1>0, <2>1, <2>3, <3>1, <4>1 DEF Untouched
    <3>6. Handled'
      <4>. SUFFICES ASSUME NEW c \in Manifest PROVE FileAt(c)'
        BY DEF Handled
      <4>1. FileAt(c) /\ c \in Nat  BY <1>0, <2>1 DEF Handled, Manifest
      <4>2. CASE c = chunk
        <5>1. disk[c] = found[c]  BY <1>0, <2>1, <4>1, <4>2 DEF Untouched
        <5>. QED  BY <2>1, <3>1, <4>2, <5>1 DEF FileAt
      <4>3. CASE c # chunk
        <5>1. pc'[c] = pc[c] /\ (c < chunk' => c < chunk)
          BY <2>1, <2>3, <3>1, <4>1, <4>3 DEF Manifest, AllThreads
        <5>. QED  BY <2>1, <4>1, <5>1 DEF FileAt, Left
      <4>. QED  BY <4>2, <4>3
    <3>. QED  BY <2>3, <3>3, <3>4, <3>5, <3>6 DEF ThreadsJoined, JoinsAtEnd
  <2>. QED  BY <1>3, <2>2, <2>3 DEF Start
<1>4. ASSUME EndOfList PROVE Rest'
  <2>1. chunk = N + 1  BY <1>0, <1>4 DEF EndOfList, TypeOK
  <2>. QED
    BY <1>0, <1>4, <2>1 DEF EndOfList, Tracked, ThreadsJoined, Untouched,
                            Handled, FileAt, Left, JoinsAtEnd
<1>5. ASSUME JoinAll PROVE Rest'
  <2>1. \A t \in AllThreads : pc[t] \in {"none", "ended"}
    BY <1>0, <1>5 DEF JoinAll, ToJoin, Tracked
  <2>. QED
    BY <1>0, <1>5, <2>1 DEF JoinAll, Tracked, ThreadsJoined, Untouched,
                            Handled, FileAt, Left, JoinsAtEnd
<1>. QED  BY <1>0, <1>1, <1>2, <1>3, <1>4, <1>5 DEF MainStep, IInv

----------------------------------------------------------------------------
\* A step of a chunk's thread, other than one that ends the process, moves that thread
\* only, and only while it runs.
LEMMA WorkMoves ==
    ASSUME TypeOK, NEW c \in Manifest, Work(c), ~DeleteThrows(c)
    PROVE  /\ TypeOK'
           /\ pc[c] \notin {"none", "ended"} /\ pc'[c] # "none"
           /\ \A t \in AllThreads \ {c} : pc'[t] = pc[t]
           /\ \A d \in Manifest \ {c} : disk'[d] = disk[d]
           /\ UNCHANGED <<main, chunk, threads, found, cancelled>>
<1>. USE DEF Labels, FileState, calls, Goto
<1>0. c \in AllThreads  BY ListAssumption DEF Manifest, AllThreads
<1>1. CASE Verify(c)  BY <1>0, <1>1 DEF Verify, TypeOK
<1>2. CASE VerifyCancelled(c)  BY <1>0, <1>2 DEF VerifyCancelled, TypeOK
<1>3. CASE Rejected(c)  BY <1>0, <1>3 DEF Rejected, TypeOK
<1>4. CASE Delete(c)  BY <1>0, <1>4 DEF Delete, TypeOK
<1>5. CASE Redownload(c)  BY <1>0, <1>5 DEF Redownload, TypeOK
<1>6. CASE OpenForWrite(c)  BY <1>0, <1>6 DEF OpenForWrite, TypeOK
<1>7. CASE CloseWrite(c)  BY <1>0, <1>7 DEF CloseWrite, Delivered, TypeOK
<1>8. CASE OnProg(c)  BY <1>0, <1>8 DEF OnProg, TypeOK
<1>. QED  BY <1>1, <1>2, <1>3, <1>4, <1>5, <1>6, <1>7, <1>8 DEF Work

\* A thread keeps to what its place says of its file.
LEMMA WorkHandles ==
    ASSUME TypeOK, NEW c \in Manifest, Work(c), ~DeleteThrows(c), FileAt(c)
    PROVE  FileAt(c)'
<1>. USE DEF FlagReads, Goto, FileAt, Left, calls
<1>0. c \in AllThreads  BY ListAssumption DEF Manifest, AllThreads
<1>1. CASE Verify(c)  BY <1>0, <1>1 DEF Verify, Intact, TypeOK
<1>2. CASE VerifyCancelled(c)  BY <1>0, <1>2 DEF VerifyCancelled, TypeOK
<1>3. CASE Rejected(c)  BY <1>0, <1>3 DEF Rejected, TypeOK
<1>4. CASE Delete(c)  BY <1>0, <1>4 DEF Delete, TypeOK
<1>5. CASE Redownload(c)  BY <1>0, <1>5 DEF Redownload, TypeOK
<1>6. CASE OpenForWrite(c)  BY <1>0, <1>6 DEF OpenForWrite, TypeOK
<1>7. CASE CloseWrite(c)  BY <1>0, <1>7 DEF CloseWrite, Delivered, TypeOK
<1>8. CASE OnProg(c)  BY <1>0, <1>8 DEF OnProg, TypeOK
<1>. QED  BY <1>1, <1>2, <1>3, <1>4, <1>5, <1>6, <1>7, <1>8 DEF Work

\* The invariant is kept by a chunk's thread.
LEMMA WorkIInv == ASSUME IInv, NEW c \in Manifest, Work(c) PROVE IInv'
<1>. USE ListAssumption
<1>0. TypeOK  BY DEF IInv
<1>1. CASE DeleteThrows(c)
  <2>1. /\ main' = "terminated" /\ threads' = threads /\ found' = found
        /\ disk' = disk /\ chunk' = chunk /\ cancelled' = cancelled
        /\ \A t \in AllThreads : pc'[t] = "none"
    BY <1>1 DEF DeleteThrows
  <2>2. TypeOK'  BY <1>0, <1>1, <2>1 DEF DeleteThrows, TypeOK, Labels
  <2>. QED  BY <2>1, <2>2 DEF IInv, Tracked, ThreadsJoined, Handled, JoinsAtEnd
<1>2. CASE ~DeleteThrows(c)
  <2>1. /\ TypeOK'
        /\ pc[c] \notin {"none", "ended"} /\ pc'[c] # "none"
        /\ \A t \in AllThreads \ {c} : pc'[t] = pc[t]
        /\ \A d \in Manifest \ {c} : disk'[d] = disk[d]
        /\ UNCHANGED <<main, chunk, threads, found, cancelled>>
    BY <1>0, <1>2, WorkMoves
  <2>2. c \in AllThreads /\ Manifest \subseteq AllThreads
    BY DEF Manifest, AllThreads
  <2>3. Tracked'  BY <2>1, <2>2 DEF IInv, Tracked
  <2>4. ThreadsJoined'  BY <2>1, <2>2 DEF IInv, ThreadsJoined
  <2>5. main' # "terminated" => Untouched'
    BY <2>1, <2>2 DEF IInv, Untouched
  <2>6. Handled'
    <3>. SUFFICES ASSUME main # "terminated", NEW d \in Manifest PROVE FileAt(d)'
      BY <2>1 DEF Handled
    <3>1. FileAt(d)  BY DEF IInv, Handled
    <3>2. CASE d = c  BY <1>0, <1>2, <3>1, <3>2, WorkHandles
    <3>3. CASE d # c  BY <2>1, <2>2, <3>1, <3>3 DEF FileAt, Left
    <3>. QED  BY <3>2, <3>3
  <2>. QED  BY <2>1, <2>3, <2>4, <2>5, <2>6 DEF IInv, JoinsAtEnd
<1>. QED  BY <1>1, <1>2

\* The invariant is inductive.
LEMMA NextIInv == IInv /\ [Next]_vars => IInv'
<1>. SUFFICES ASSUME IInv, [Next]_vars PROVE IInv'  OBVIOUS
<1>. USE DEF Tracked, ThreadsJoined, Untouched, Handled, FileAt, Left, JoinsAtEnd, calls
<1>1. CASE MainStep  BY <1>1, MainIInv
<1>2. CASE Count
  <2>1. pc[Counter] = "count" /\ Counter \in AllThreads
        /\ \A c \in Manifest : c # Counter /\ c \in AllThreads
    BY <1>2, ListAssumption DEF Count, AllThreads, Manifest, Counter
  <2>2. pc'[Counter] = "ended" /\ \A t \in AllThreads \ {Counter} : pc'[t] = pc[t]
    BY <1>2, <2>1 DEF Count, Goto, IInv, TypeOK
  <2>3. TypeOK'  BY <1>2 DEF Count, Goto, IInv, TypeOK, Labels
  <2>. QED  BY <1>2, <2>1, <2>2, <2>3 DEF Count, IInv, TypeOK
<1>3. ASSUME NEW c \in Manifest, Work(c) PROVE IInv'  BY <1>3, WorkIInv
<1>4. CASE \E c \in Manifest : ReaderOpens(c) \/ ReaderCloses(c)
  BY <1>4 DEF ReaderOpens, ReaderCloses, IInv, TypeOK
<1>5. CASE Cancel  BY <1>5 DEF Cancel, IInv, TypeOK
<1>6. CASE Again  BY <1>6, AgainIInv DEF IInv
<1>7. CASE UNCHANGED vars  BY <1>7 DEF vars, IInv, TypeOK
<1>. QED  BY <1>1, <1>2, <1>3, <1>4, <1>5, <1>6, <1>7 DEF Next

\* When the function has returned nobody is left who works on a file, and the files it
\* has not come to, which a cancel explains, are as they were found.
LEMMA IInvComplete == IInv => VerifiedComplete
<1>. SUFFICES ASSUME IInv, main = "returned", NEW c \in Manifest, found[c] # "absent"
              PROVE  disk[c] \in Left(c)
  BY DEF VerifiedComplete
<1>1. c \in AllThreads /\ c \in Nat /\ c < N + 1 /\ chunk \in Nat
  BY ListAssumption DEF IInv, TypeOK, Manifest, AllThreads
<1>2. CASE c < chunk
  BY <1>1, <1>2 DEF IInv, Handled, FileAt, ThreadsJoined
<1>3. CASE ~(c < chunk)
  <2>1. cancelled  BY <1>1, <1>3 DEF IInv, JoinsAtEnd
  <2>2. disk[c] = found[c]  BY <1>1, <1>3 DEF IInv, Untouched
  <2>. QED  BY <2>1, <2>2 DEF Left
<1>. QED  BY <1>2, <1>3

----------------------------------------------------------------------------
\* The inductive invariant holds in every behaviour.
THEOREM IInvHolds == Spec => []IInv
<1>. QED  BY InitIInv, NextIInv, PTL DEF Spec

\* Every variable keeps its type, for any instance.
THEOREM TypeCorrect == Spec => []TypeOK
<1>1. IInv => TypeOK  BY DEF IInv
<1>. QED  BY <1>1, IInvHolds, PTL

\* The deque of threads is a semaphore: at most ThreadCount threads run.
THEOREM BoundsThreads == Spec => []ThreadsBounded
<1>1. IInv => ThreadsBounded  BY DEF IInv, ThreadsBounded, Tracked
<1>. QED  BY <1>1, IInvHolds, PTL

\* VerifyAllChunks leaves no thread behind that refers to its locals.
THEOREM JoinsThreads == Spec => []ThreadsJoined
<1>1. IInv => ThreadsJoined  BY DEF IInv
<1>. QED  BY <1>1, IInvHolds, PTL

\* A verification leaves every file it found whole or as a new download brought it; a
\* cancelled one may also leave a file as it was, or none, but never one cut short by it.
THEOREM VerifiesAll == Spec => []VerifiedComplete
<1>. QED  BY IInvComplete, IInvHolds, PTL
=============================================================================
