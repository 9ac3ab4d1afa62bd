-------------------------- MODULE FileRead_proofs --------------------------
(***************************************************************************)
(* Every read of a mounted file gives the bytes of the file, for any cut   *)
(* of it into parts and any request.  The invariant is that of the two     *)
(* loops: what has been skipped or copied, and what is left, meet at the   *)
(* position that index and chunkOffset denote.                             *)
(***************************************************************************)
EXTENDS FileRead, SequenceTheorems, TLAPS

\* The request is clipped and starts inside the file.
Clip ==
    pc \in {"index", "copy", "done"} =>
        /\ offset < GetFileSize(file)
        /\ length = Clipped(offset, asked)

\* Where the two loops stand in the file.
Position ==
    /\ pc = "index" => /\ file.start[index] + chunkOffset = offset
                       /\ bytesRead = 0
    /\ pc = "copy" => /\ file.start[index] + chunkOffset = offset + bytesRead
                      /\ bytesRead <= length
                      /\ index <= Len(file.parts) /\ chunkOffset <= Part.size
    /\ pc = "done" => bytesRead = length
    /\ pc = "eof" => offset >= GetFileSize(file) /\ bytesRead = 0

\* What the buffer holds so far.
Delivered ==
    pc \in {"index", "copy", "done"} =>
        \A b \in 0 .. MaxLength - 1 :
            IF b < bytesRead THEN IsByteAt(file, offset + b, buffer[b])
            ELSE buffer[b] = Unset

IInv == TypeOK /\ Clip /\ Position /\ Delivered

----------------------------------------------------------------------------
\* What the assumption on the manifest says of the open file.
LEMMA FileFacts ==
  ASSUME NEW f \in Files
  PROVE  /\ Len(f.parts) \in Nat
         /\ GetFileSize(f) \in Nat
         /\ f.start[1] = 0
         /\ \A i \in 1 .. Len(f.parts) :
               /\ f.parts[i].chunk \in Chunks
               /\ f.parts[i].offset \in Nat /\ f.parts[i].size \in Nat
               /\ f.parts[i].offset + f.parts[i].size <= Window[f.parts[i].chunk]
               /\ Window[f.parts[i].chunk] \in Nat
               /\ f.start[i] \in Nat
               /\ f.start[i + 1] \in Nat
               /\ f.start[i + 1] = f.start[i] + f.parts[i].size
<1>1. /\ f.parts \in Seq([chunk : Chunks, offset : Nat, size : Nat])
      /\ \A i \in 1 .. Len(f.parts) :
            f.parts[i].offset + f.parts[i].size <= Window[f.parts[i].chunk]
      /\ f.start \in [1 .. Len(f.parts) + 1 -> Nat]
      /\ f.start[1] = 0
      /\ \A i \in 1 .. Len(f.parts) : f.start[i + 1] = f.start[i] + f.parts[i].size
  BY FilesAssumption
<1>2. Len(f.parts) \in Nat
  BY <1>1
<1>3. ASSUME NEW i \in 1 .. Len(f.parts)
      PROVE  /\ f.parts[i] \in [chunk : Chunks, offset : Nat, size : Nat]
             /\ f.start[i] \in Nat /\ f.start[i + 1] \in Nat
  <2>1. i \in 1 .. Len(f.parts) + 1 /\ i + 1 \in 1 .. Len(f.parts) + 1
    BY <1>2
  <2>2. f.start[i] \in Nat /\ f.start[i + 1] \in Nat
    BY <1>1, <2>1
  <2>3. f.parts[i] \in [chunk : Chunks, offset : Nat, size : Nat]
    BY <1>1, ElementOfSeq
  <2>. QED
    BY <2>2, <2>3
<1>4. ASSUME NEW i \in 1 .. Len(f.parts)
      PROVE  /\ f.parts[i].chunk \in Chunks
             /\ f.parts[i].offset \in Nat /\ f.parts[i].size \in Nat
             /\ Window[f.parts[i].chunk] \in Nat
  BY <1>3, WindowAssumption
<1>5. GetFileSize(f) \in Nat
  <2>1. Len(f.parts) + 1 \in 1 .. Len(f.parts) + 1
    BY <1>2
  <2>. QED
    BY <1>1, <2>1 DEF GetFileSize
<1>. QED
  BY <1>1, <1>2, <1>3, <1>4, <1>5

\* The initial states satisfy the invariant.
LEMMA InitIInv == Init => IInv
<1> SUFFICES ASSUME Init PROVE IInv
  OBVIOUS
<1>1. TypeOK
  BY FileFacts, WindowAssumption DEF Init, TypeOK, Untouched
<1>. QED
  BY <1>1 DEF Init, IInv, Clip, Position, Delivered

\* EGFS::Read clips the request to the file.
LEMMA ReadIInv ==
  ASSUME IInv, NEW o \in 0 .. GetFileSize(file) + 1, NEW n \in 0 .. MaxLength, Read(o, n)
  PROVE  IInv'
<1>1. /\ file \in Files /\ file' = file /\ offset' = o /\ asked' = n
      /\ bytesRead' = 0 /\ buffer' = Untouched
  BY DEF IInv, TypeOK, Read
<1>2. Len(file.parts) \in Nat /\ GetFileSize(file) \in Nat /\ o \in Nat /\ n \in Nat
  BY <1>1, FileFacts, WindowAssumption
<1>3. CASE o >= GetFileSize(file)
  <2>1. pc' = "eof" /\ length' = 0 /\ index' = index /\ chunkOffset' = chunkOffset
    BY <1>3 DEF Read
  <2>2. TypeOK'
    BY <1>1, <1>2, <2>1, WindowAssumption DEF IInv, TypeOK, Untouched
  <2>. QED
    BY <1>1, <1>3, <2>1, <2>2 DEF IInv, Clip, Position, Delivered
<1>4. CASE o < GetFileSize(file)
  <2>1. /\ pc' = "index" /\ length' = Clipped(o, n) /\ index' = 1 /\ chunkOffset' = o
    BY <1>2, <1>4 DEF Read
  <2>2. Clipped(o, n) \in 0 .. MaxLength
    BY <1>2, <1>4, WindowAssumption DEF Clipped
  <2>3. TypeOK'
    BY <1>1, <1>2, <2>1, <2>2, WindowAssumption DEF IInv, TypeOK, Untouched
  <2>4. Clip'
    BY <1>1, <1>4, <2>1 DEF Clip, Clipped
  <2>5. Position'
    BY <1>1, <1>2, <2>1, FileFacts DEF Position
  <2>6. Delivered'
    BY <1>1, <2>1, WindowAssumption DEF Delivered, Untouched
  <2>. QED
    BY <2>3, <2>4, <2>5, <2>6 DEF IInv
<1>. QED
  BY <1>2, <1>3, <1>4

\* GetChunkIndex counts the offset down by the parts it passes.
LEMMA SeekIInv ==
  ASSUME IInv, SkipPart \/ FoundPart
  PROVE  IInv'
<1>1. /\ file \in Files /\ index \in 1 .. Len(file.parts) /\ pc = "index"
      /\ file' = file /\ offset' = offset /\ asked' = asked /\ length' = length
      /\ bytesRead' = bytesRead /\ buffer' = buffer /\ chunkOffset \in Nat
      /\ file.start[index] + chunkOffset = offset /\ bytesRead = 0
  BY DEF IInv, TypeOK, Position, SkipPart, FoundPart, request
<1>2. /\ Len(file.parts) \in Nat /\ Part.size \in Nat /\ file.start[index] \in Nat
      /\ file.start[index + 1] = file.start[index] + Part.size
  BY <1>1, FileFacts DEF Part
<1>3. CASE SkipPart
  <2>1. /\ pc' = "index" /\ chunkOffset' = chunkOffset - Part.size
        /\ index' = index + 1 /\ chunkOffset >= Part.size
    BY <1>1, <1>3 DEF SkipPart
  <2>2. TypeOK'
    BY <1>1, <1>2, <2>1 DEF IInv, TypeOK
  <2>3. Position'
    BY <1>1, <1>2, <2>1 DEF Position
  <2>4. Clip' /\ Delivered'
    BY <1>1, <2>1 DEF IInv, Clip, Clipped, Delivered
  <2>. QED
    BY <2>2, <2>3, <2>4 DEF IInv
<1>4. CASE FoundPart
  <2>1. pc' = "copy" /\ chunkOffset' = chunkOffset /\ index' = index /\ chunkOffset < Part.size
    BY <1>4 DEF FoundPart
  <2>2. TypeOK'
    BY <1>1, <2>1 DEF IInv, TypeOK
  <2>3. Position'
    BY <1>1, <1>2, <2>1, WindowAssumption DEF Position, IInv, TypeOK, Part
  <2>4. Clip' /\ Delivered'
    BY <1>1, <2>1 DEF IInv, Clip, Clipped, Delivered
  <2>. QED
    BY <2>2, <2>3, <2>4 DEF IInv
<1>. QED
  BY <1>3, <1>4

\* A part's buffer holds the part's bytes, whichever way GetChunkPart made it.
LEMMA PartBytes ==
  ASSUME NEW f \in Files, NEW i \in 1 .. Len(f.parts), NEW k \in 0 .. f.parts[i].size - 1
  PROVE  /\ GetChunkPart(f.parts[i])[k] = <<f.parts[i].chunk, f.parts[i].offset + k>>
         /\ GetChunkPart(f.parts[i])[k] \in Byte
         /\ IsByteAt(f, f.start[i] + k, GetChunkPart(f.parts[i])[k])
<1>1. /\ f.parts[i].offset \in Nat /\ f.parts[i].size \in Nat /\ f.parts[i].chunk \in Chunks
      /\ f.start[i] \in Nat
  BY FileFacts
<1>2. GetChunkPart(f.parts[i])[k] = <<f.parts[i].chunk, f.parts[i].offset + k>>
  <2>1. CASE f.parts[i].offset = 0 /\ f.parts[i].size = Window[f.parts[i].chunk]
    BY <1>1, <2>1 DEF GetChunkPart
  <2>2. CASE ~(f.parts[i].offset = 0 /\ f.parts[i].size = Window[f.parts[i].chunk])
    BY <1>1, <2>2 DEF GetChunkPart
  <2>. QED
    BY <2>1, <2>2
<1>3. f.parts[i].offset + k \in Nat
  BY <1>1
<1>4. /\ f.start[i] + k \in f.start[i] .. f.start[i] + f.parts[i].size - 1
      /\ (f.start[i] + k) - f.start[i] = k
  <2>1. ASSUME NEW s \in Nat, NEW z \in Nat, k \in 0 .. z - 1
        PROVE  s + k \in s .. s + z - 1 /\ (s + k) - s = k
    BY <2>1
  <2>. QED
    BY <1>1, <2>1
<1>5. <<f.parts[i].chunk, f.parts[i].offset + k>> \in Byte
  BY <1>1, <1>3 DEF Byte
<1>6. IsByteAt(f, f.start[i] + k, <<f.parts[i].chunk, f.parts[i].offset + k>>)
  BY <1>4 DEF IsByteAt
<1>. QED
  BY <1>2, <1>5, <1>6

\* A memcpy of n bytes that stay inside the part delivers the next n bytes.
LEMMA CopyDelivers ==
  ASSUME IInv, pc = "copy", NEW n \in Nat,
         chunkOffset + n <= Part.size, bytesRead + n <= length
  PROVE  /\ Copied(n) \in [0 .. MaxLength - 1 -> Byte \union {Unset}]
         /\ \A b \in 0 .. MaxLength - 1 :
               IF b < bytesRead + n THEN IsByteAt(file, offset + b, Copied(n)[b])
               ELSE Copied(n)[b] = Unset
<1>1. /\ file \in Files /\ index \in 1 .. Len(file.parts) /\ chunkOffset \in Nat
      /\ bytesRead \in Nat /\ offset \in Nat /\ MaxLength \in Nat
      /\ file.start[index] + chunkOffset = offset + bytesRead
      /\ buffer \in [0 .. MaxLength - 1 -> Byte \union {Unset}]
  BY FileFacts, WindowAssumption DEF IInv, TypeOK, Position
<1>2. Part.size \in Nat /\ file.start[index] \in Nat
  BY <1>1, FileFacts DEF Part
<1>3. ASSUME NEW b \in 0 .. MaxLength - 1
      PROVE  /\ Copied(n)[b] \in Byte \union {Unset}
             /\ IF b < bytesRead + n THEN IsByteAt(file, offset + b, Copied(n)[b])
                ELSE Copied(n)[b] = Unset
  <2>1. CASE b \in bytesRead .. bytesRead + n - 1
    <3>1. PICK k \in 0 .. Part.size - 1 : k = chunkOffset + b - bytesRead
      BY <1>1, <1>2, <2>1
    <3>2. Copied(n)[b] = GetChunkPart(Part)[k]
      BY <2>1, <3>1 DEF Copied
    <3>3. file.start[index] + k = offset + b /\ b < bytesRead + n
      BY SMTT(60), <1>1, <1>2, <2>1, <3>1
    <3>4. GetChunkPart(Part)[k] \in Byte /\ IsByteAt(file, file.start[index] + k, GetChunkPart(Part)[k])
      BY <1>1, <3>1, PartBytes DEF Part
    <3>. QED
      BY <3>2, <3>3, <3>4
  <2>2. CASE b \notin bytesRead .. bytesRead + n - 1
    <3>1. Copied(n)[b] = buffer[b]
      BY <2>2 DEF Copied
    <3>2. b < bytesRead + n <=> b < bytesRead
      BY <1>1, <2>2
    <3>. QED
      BY <1>1, <3>1, <3>2 DEF IInv, Delivered
  <2>. QED
    BY <2>1, <2>2
<1>. QED
  BY <1>3 DEF Copied

\* Both branches of the copy loop keep what was delivered and where it ends.
LEMMA CopyIInv ==
  ASSUME IInv, CopyWhole \/ CopyRest
  PROVE  IInv'
<1>1. /\ file \in Files /\ index \in 1 .. Len(file.parts) /\ chunkOffset \in Nat
      /\ bytesRead \in Nat /\ offset \in Nat /\ length \in 0 .. MaxLength
      /\ asked \in Nat /\ MaxLength \in Nat
      /\ file.start[index] + chunkOffset = offset + bytesRead
      /\ chunkOffset <= Part.size /\ bytesRead <= length /\ pc = "copy"
      /\ file' = file /\ offset' = offset /\ asked' = asked /\ length' = length
  BY WindowAssumption DEF IInv, TypeOK, Position, CopyWhole, CopyRest, request
<1>2. /\ Len(file.parts) \in Nat /\ Part.size \in Nat /\ file.start[index] \in Nat
      /\ file.start[index + 1] = file.start[index] + Part.size
      /\ GetFileSize(file) \in Nat
  BY <1>1, FileFacts DEF Part
<1>3. offset < GetFileSize(file) /\ length = Clipped(offset, asked)
  BY <1>1 DEF IInv, Clip
<1>4. CASE CopyWhole
  <2> DEFINE n == Part.size - chunkOffset
  <2>1. /\ pc' = "copy" /\ buffer' = Copied(n) /\ bytesRead' = bytesRead + n
        /\ index' = index + 1 /\ chunkOffset' = 0 /\ length - bytesRead > n
    BY <1>1, <1>4 DEF CopyWhole, WantsMore, OffsetInNext
  <2>2. n \in Nat /\ chunkOffset + n <= Part.size /\ bytesRead + n < length /\ length \in Nat
    <3>1. length \in Nat /\ length - bytesRead > n
      BY <1>1, <2>1
    <3>2. Part.size \in Nat /\ chunkOffset \in Nat /\ chunkOffset <= Part.size
      BY <1>1, <1>2
    <3>3. n \in Nat /\ chunkOffset + n <= Part.size
      BY <3>2
    <3>4. n \in Nat /\ bytesRead \in Nat /\ length \in Nat /\ length - bytesRead > n
      BY <1>1, <3>1, <3>3
    <3> HIDE DEF n
    <3>5. bytesRead + n < length
      BY <3>4
    <3>. QED
      BY <3>1, <3>3, <3>5
  <2>3. /\ buffer' \in [0 .. MaxLength - 1 -> Byte \union {Unset}]
        /\ \A b \in 0 .. MaxLength - 1 :
              IF b < bytesRead' THEN IsByteAt(file, offset + b, buffer'[b])
              ELSE buffer'[b] = Unset
    BY <1>1, <2>1, <2>2, CopyDelivers
  <2>4. offset + length <= GetFileSize(file)
    BY <1>1, <1>2, <1>3 DEF Clipped
  <2>5. file.start[index + 1] = offset + bytesRead + n
    BY <1>1, <1>2
  <2>6. index + 1 \in 1 .. Len(file.parts)
    <3>1. file.start[index + 1] # file.start[Len(file.parts) + 1]
      BY <1>1, <1>2, <2>2, <2>4, <2>5 DEF GetFileSize
    <3>. QED
      BY <1>1, <1>2, <3>1
  <2>7. file.parts[index + 1].size \in Nat
    BY <1>1, <2>6, FileFacts
  <2>8. TypeOK'
    <3>1. bytesRead + n \in Nat
      BY <1>1, <2>2
    <3>2. index + 1 \in 1 .. Len(file.parts) + 1
      BY <1>2, <2>6
    <3>. QED
      BY <1>1, <2>1, <2>3, <3>1, <3>2 DEF IInv, TypeOK
  <2>9. Position'
    <3>1. Part' = file.parts[index + 1]
      BY <1>1, <2>1 DEF Part
    <3>2. bytesRead' <= length' /\ index' <= Len(file'.parts) /\ chunkOffset' <= Part'.size
      <4>1. bytesRead + n <= length
        BY <1>1, <2>2
      <4>2. 0 <= file.parts[index + 1].size
        BY <2>7
      <4>. QED
        BY <1>1, <2>1, <2>6, <3>1, <4>1, <4>2
    <3>3. file'.start[index'] + chunkOffset' = offset' + bytesRead'
      <4>1. file.start[index + 1] + 0 = offset + (bytesRead + n)
        <5>1. /\ file.start[index + 1] = file.start[index] + Part.size
              /\ file.start[index] + chunkOffset = offset + bytesRead
              /\ file.start[index] \in Nat /\ Part.size \in Nat /\ chunkOffset \in Nat
              /\ offset \in Nat /\ bytesRead \in Nat
          BY <1>1, <1>2
        <5>. QED
          BY <5>1
      <4>. QED
        BY <1>1, <2>1, <4>1
    <3>. QED
      BY <2>1, <3>2, <3>3 DEF Position
  <2>10. Clip' /\ Delivered'
    BY <1>1, <1>3, <2>1, <2>3 DEF Clip, Clipped, Delivered
  <2>. QED
    BY <2>8, <2>9, <2>10 DEF IInv
<1>5. CASE CopyRest
  <2> DEFINE n == length - bytesRead
  <2>1. /\ pc' = "done" /\ buffer' = Copied(n) /\ bytesRead' = length
        /\ index' = index /\ chunkOffset' = chunkOffset /\ ~(n > Part.size - chunkOffset)
    BY <1>5 DEF CopyRest, WantsMore
  <2>2. n \in Nat /\ chunkOffset + n <= Part.size /\ bytesRead + n = length /\ length \in Nat
    BY <1>1, <1>2, <2>1
  <2>3. /\ buffer' \in [0 .. MaxLength - 1 -> Byte \union {Unset}]
        /\ \A b \in 0 .. MaxLength - 1 :
              IF b < bytesRead' THEN IsByteAt(file, offset + b, buffer'[b])
              ELSE buffer'[b] = Unset
    <3>1. bytesRead + n <= length
      BY <2>2
    <3>2. bytesRead' = bytesRead + n
      BY <2>1, <2>2
    <3>. QED
      BY <1>1, <2>1, <2>2, <3>1, <3>2, CopyDelivers
  <2>4. TypeOK'
    BY <1>1, <1>2, <2>1, <2>2, <2>3 DEF IInv, TypeOK
  <2>5. Position'
    BY <1>1, <2>1 DEF Position
  <2>6. Clip' /\ Delivered'
    BY <1>1, <1>3, <2>1, <2>3 DEF Clip, Clipped, Delivered
  <2>. QED
    BY <2>4, <2>5, <2>6 DEF IInv
<1>. QED
  BY <1>4, <1>5

\* The invariant is inductive.
LEMMA NextIInv == IInv /\ [Next]_vars => IInv'
<1> SUFFICES ASSUME IInv, [Next]_vars PROVE IInv'
  OBVIOUS
<1>1. CASE UNCHANGED vars
  BY <1>1 DEF vars, IInv, TypeOK, Clip, Clipped, Position, Part, Delivered
<1>2. ASSUME NEW o \in 0 .. GetFileSize(file) + 1, NEW n \in 0 .. MaxLength, Read(o, n)
      PROVE  IInv'
  BY <1>2, ReadIInv
<1>3. CASE SkipPart \/ FoundPart
  BY <1>3, SeekIInv
<1>4. CASE CopyWhole \/ CopyRest
  BY <1>4, CopyIInv
<1>. QED
  BY <1>1, <1>2, <1>3, <1>4 DEF Next

\* The invariant implies that both loops stay inside the file and the buffers.
LEMMA IInvInBounds == IInv => InBounds
<1> SUFFICES ASSUME IInv PROVE InBounds
  OBVIOUS
<1>1. /\ file \in Files /\ index \in 1 .. Len(file.parts) + 1 /\ chunkOffset \in Nat
      /\ bytesRead \in Nat /\ length \in Nat /\ MaxLength \in Nat
  BY WindowAssumption DEF IInv, TypeOK
<1>2. Len(file.parts) \in Nat /\ GetFileSize(file) \in Nat
  BY <1>1, FileFacts
<1>3. ASSUME pc = "index" PROVE index <= Len(file.parts)
  <2>1. file.start[index] + chunkOffset = offset /\ offset < GetFileSize(file)
    BY <1>3 DEF IInv, Position, Clip
  <2>2. index # Len(file.parts) + 1
    BY <1>1, <1>2, <2>1 DEF GetFileSize
  <2>. QED
    BY <1>1, <1>2, <2>2
<1>4. ASSUME pc = "copy"
      PROVE  /\ index <= Len(file.parts) /\ chunkOffset <= Part.size /\ bytesRead <= length
             /\ ~WantsMore => chunkOffset + (length - bytesRead) <= Part.size
  <2>1. index <= Len(file.parts) /\ chunkOffset <= Part.size /\ bytesRead <= length
    BY <1>4 DEF IInv, Position
  <2>2. Part.size \in Nat
    BY <1>1, <1>2, <2>1, FileFacts DEF Part
  <2>. QED
    BY <1>1, <2>1, <2>2 DEF WantsMore
<1>. QED
  BY <1>3, <1>4 DEF InBounds

\* The invariant says of a finished read what ReadExact asks.
LEMMA IInvReadExact == IInv => ReadExact
<1> SUFFICES ASSUME IInv PROVE ReadExact
  OBVIOUS
<1>1. pc = "eof" => offset >= GetFileSize(file) /\ bytesRead = 0
  BY DEF IInv, Position
<1>2. ASSUME pc = "done"
      PROVE  bytesRead = IF offset + asked <= GetFileSize(file) THEN asked
                         ELSE GetFileSize(file) - offset
  <2>1. file \in Files /\ offset \in Nat /\ asked \in Nat /\ GetFileSize(file) \in Nat
    BY FileFacts, WindowAssumption DEF IInv, TypeOK
  <2>2. bytesRead = Clipped(offset, asked)
    BY <1>2 DEF IInv, Position, Clip
  <2>. QED
    BY <2>1, <2>2 DEF Clipped
<1>. QED
  BY <1>1, <1>2 DEF IInv, Delivered, ReadExact

\* The inductive invariant holds throughout.
LEMMA Invariance == Spec => []IInv
  BY InitIInv, NextIInv, PTL DEF Spec

\* The variables of a read keep their types.
THEOREM TypeCorrect == Spec => []TypeOK
<1>1. IInv => TypeOK
  BY DEF IInv
<1>. QED
  BY <1>1, Invariance, PTL

\* No loop and no memcpy of a read leaves its bounds (MountedBuild.cpp:537-553,
\* file.cpp:12-22), however a file is cut into parts.
THEOREM ReadsInBounds == Spec => []InBounds
  BY Invariance, IInvInBounds, PTL

\* A read gives the bytes of the file from its offset on, as many as there are
\* (egfs.cpp:278-296, MountedBuild.cpp:531-559).
THEOREM ReadsExact == Spec => []ReadExact
  BY Invariance, IInvReadExact, PTL
=============================================================================
