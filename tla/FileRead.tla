----------------------------- MODULE FileRead ------------------------------
(***************************************************************************)
(* A read of a mounted file: EGFS::Read clips the request, and             *)
(* MountedBuild::FileRead finds the chunk part where it starts and copies  *)
(* from part after part.  A file is a sequence of parts of chunks; nothing *)
(* of it exists as a whole.  A dispatcher thread shares no state with the  *)
(* others here, so one is enough.  What GetChunk may do is in ChunkPool;   *)
(* here it answers with the chunk.  Offsets are 64 bits wide and sizes 32, *)
(* and the clip keeps every sum below the file size: no wrap-around.       *)
(***************************************************************************)
EXTENDS Integers, Sequences

CONSTANTS
    Chunks,     \* chunks of the manifest
    Window,     \* WindowSize of each chunk
    Files,      \* the manifest's files
    MaxLength   \* bound: the longest buffer a caller provides

ASSUME WindowAssumption == Window \in [Chunks -> Nat] /\ MaxLength \in Nat

\* A part lies within its chunk.  `start` is no field of the code: start[i] is the
\* sum of the sizes before part i, what std::accumulate adds up.
ASSUME FilesAssumption ==
    \A f \in Files :
        /\ f.parts \in Seq([chunk : Chunks, offset : Nat, size : Nat])
        /\ \A i \in 1 .. Len(f.parts) :
              f.parts[i].offset + f.parts[i].size <= Window[f.parts[i].chunk]
        /\ f.start \in [1 .. Len(f.parts) + 1 -> Nat]
        /\ f.start[1] = 0
        /\ \A i \in 1 .. Len(f.parts) : f.start[i + 1] = f.start[i] + f.parts[i].size

VARIABLES
    pc,           \* "idle", in one of FileRead's loops, or how the request ended
    file,         \* the open file
    offset,       \* the request: Offset
    asked,        \* the request: Length
    length,       \* what EGFS::Read asks of FileRead
    index,        \* ChunkIndex, then the position of the chunkPart iterator
    chunkOffset,  \* Offset as it is counted down, then ChunkStartOffset
    bytesRead,
    buffer        \* the caller's buffer

request == <<file, offset, asked, length>>
vars == <<pc, file, offset, asked, length, index, chunkOffset, bytesRead, buffer>>

\* A byte is known by its chunk and its position there.
Byte == Chunks \X Nat

Unset == <<>>

Untouched == [b \in 0 .. MaxLength - 1 |-> Unset]

GetFileSize(f) == f.start[Len(f.parts) + 1]

Part == file.parts[index]

----------------------------------------------------------------------------
\* Mutant: the length is passed on as it came.
Unclipped(o, n) == n

\* EndOffset - Offset
Clipped(o, n) ==
    (IF o + n > GetFileSize(file) THEN GetFileSize(file) ELSE o + n) - o

\* EGFS::Read and the start of FileRead
Read(o, n) ==
    /\ pc \in {"idle", "eof", "done"}
    /\ offset' = o /\ asked' = n
    /\ bytesRead' = 0 /\ buffer' = Untouched
    /\ IF o >= GetFileSize(file)
       THEN /\ pc' = "eof"
            /\ length' = 0
            /\ UNCHANGED <<index, chunkOffset>>
       ELSE /\ pc' = "index"
            /\ length' = Clipped(o, n)
            /\ index' = 1
            /\ chunkOffset' = o
    /\ UNCHANGED file

\* Mutant: the test of the loop is missing.
SkipPartUnchecked ==
    /\ pc = "index" /\ index <= Len(file.parts)
    /\ chunkOffset' = chunkOffset - Part.size
    /\ index' = index + 1
    /\ UNCHANGED <<pc, request, bytesRead, buffer>>

\* GetChunkIndex: the request starts behind this part.
SkipPart ==
    /\ pc = "index" /\ index <= Len(file.parts)
    /\ chunkOffset >= Part.size
    /\ chunkOffset' = chunkOffset - Part.size
    /\ index' = index + 1
    /\ UNCHANGED <<pc, request, bytesRead, buffer>>

\* The request starts in this part.  Running out of parts (return false) does
\* not happen to a request that EGFS::Read let through: see InBounds.
FoundPart ==
    /\ pc = "index" /\ index <= Len(file.parts)
    /\ chunkOffset < Part.size
    /\ pc' = "copy"
    /\ UNCHANGED <<request, index, chunkOffset, bytesRead, buffer>>

\* GetChunkPart: the chunk's own buffer if the part is all of it, else a copy.
GetChunkPart(p) ==
    IF p.offset = 0 /\ p.size = Window[p.chunk]
    THEN [k \in 0 .. Window[p.chunk] - 1 |-> <<p.chunk, k>>]
    ELSE [k \in 0 .. p.size - 1 |-> <<p.chunk, p.offset + k>>]

\* memcpy of n bytes of the part, from chunkOffset on, to the next free place.
Copied(n) ==
    [b \in 0 .. MaxLength - 1 |->
       IF b \in bytesRead .. bytesRead + n - 1
       THEN GetChunkPart(Part)[chunkOffset + b - bytesRead] ELSE buffer[b]]

\* Mutant: ChunkStartOffset is not reset.
OffsetKept == chunkOffset

\* ChunkStartOffset for the parts after the first.
OffsetInNext == 0

\* What the request still wants is longer than the rest of the part.
WantsMore == length - bytesRead > Part.size - chunkOffset

CopyWhole ==
    /\ pc = "copy" /\ index <= Len(file.parts)
    /\ WantsMore
    /\ buffer' = Copied(Part.size - chunkOffset)
    /\ bytesRead' = bytesRead + (Part.size - chunkOffset)
    /\ index' = index + 1
    /\ chunkOffset' = OffsetInNext
    /\ UNCHANGED <<pc, request>>

\* The loop never meets the end of the parts before this: see InBounds.
CopyRest ==
    /\ pc = "copy" /\ index <= Len(file.parts)
    /\ ~WantsMore
    /\ buffer' = Copied(length - bytesRead)
    /\ bytesRead' = length
    /\ pc' = "done"
    /\ UNCHANGED <<request, index, chunkOffset>>

Init ==
    /\ pc = "idle"
    /\ file \in Files  \* EGFS::Open
    /\ offset = 0 /\ asked = 0 /\ length = 0
    /\ index = 1 /\ chunkOffset = 0 /\ bytesRead = 0
    /\ buffer = Untouched

Next ==
    \/ \E o \in 0 .. GetFileSize(file) + 1, n \in 0 .. MaxLength : Read(o, n)
    \/ SkipPart \/ FoundPart \/ CopyWhole \/ CopyRest

Spec == Init /\ [][Next]_vars

----------------------------------------------------------------------------
(* Properties *)

\* Every variable holds what its declaration says.
TypeOK ==
    /\ pc \in {"idle", "eof", "index", "copy", "done"}
    /\ file \in Files
    /\ offset \in Nat /\ asked \in 0 .. MaxLength /\ length \in 0 .. MaxLength
    /\ index \in 1 .. Len(file.parts) + 1
    /\ chunkOffset \in Nat /\ bytesRead \in Nat
    /\ buffer \in [0 .. MaxLength - 1 -> Byte \union {Unset}]

\* Neither loop runs off the parts of the file, and no memcpy reads behind the part
\* it copies from or writes behind the caller's buffer, for any cut of a file into
\* parts and any request (MountedBuild.cpp:541-551).
InBounds ==
    /\ pc \in {"index", "copy"} => index <= Len(file.parts)
    /\ pc = "copy" => /\ chunkOffset <= Part.size
                      /\ bytesRead <= length
                      /\ ~WantsMore => chunkOffset + (length - bytesRead) <= Part.size

\* The byte at position p of the file, by the parts and where they start.
IsByteAt(f, p, byte) ==
    \E i \in 1 .. Len(f.parts) :
        /\ p \in f.start[i] .. f.start[i] + f.parts[i].size - 1
        /\ byte = <<f.parts[i].chunk, f.parts[i].offset + (p - f.start[i])>>

\* A read that ends gives as many bytes as were asked for and the file has, each one
\* the byte at its position of the file, and leaves the rest of the buffer alone.
ReadExact ==
    /\ pc = "eof" => offset >= GetFileSize(file) /\ bytesRead = 0
    /\ pc = "done" =>
          /\ bytesRead = IF offset + asked <= GetFileSize(file) THEN asked
                         ELSE GetFileSize(file) - offset
          /\ \A b \in 0 .. MaxLength - 1 :
                IF b < bytesRead THEN IsByteAt(file, offset + b, buffer[b])
                ELSE buffer[b] = Unset

=============================================================================
