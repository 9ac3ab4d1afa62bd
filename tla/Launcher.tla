------------------------------ MODULE Launcher -----------------------------
(***************************************************************************)
(* EGSProvider: a chunk put together from the files of an install of the   *)
(* official launcher, whose manifest says which pieces of the chunk lie    *)
(* where. std::sort orders the pieces by their offset and leaves equal     *)
(* offsets in any order.                                                   *)
(***************************************************************************)
EXTENDS Naturals, Sequences

CONSTANTS WindowSize,  \* of the chunk, in pieces
          MaxPieces    \* parts of the install's files that belong to it

ASSUME EgsAssumption == WindowSize \in Nat /\ MaxPieces \in Nat

VARIABLES install,  \* which of the constructor's conditions are met
          parts,    \* the sorted vector
          next,     \* the part the loop is at
          amtRead, buffer,
          answer

egsVars == <<install, parts, next, amtRead, buffer, answer>>

Checks == {"installData", "parses", "listsGame", "egstore", "manifest", "opens"}

Parts == {p \in [offset : 0 .. WindowSize, size : 0 .. WindowSize] :
            p.offset + p.size <= WindowSize}

Sorted(s) == \A i, j \in 1 .. Len(s) : i < j => s[i].offset <= s[j].offset

\* A byte of the chunk is its position; Garbage is any other byte.
Garbage == WindowSize
Bytes == 0 .. WindowSize

EgsTypeOK ==
    /\ install \in SUBSET Checks
    /\ parts \in Seq(Parts) /\ next \in 1 .. Len(parts) + 1
    /\ amtRead \in 0 .. WindowSize
    /\ buffer \in [0 .. WindowSize - 1 -> Bytes]
    /\ answer \in {"none", "nullptr", "chunk"}

\* The constructor: every condition it does not meet leaves Build empty.
Available == install = Checks

EgsInit ==
    /\ install \in SUBSET Checks
    /\ parts \in IF Available
                 THEN {s \in UNION {[1 .. n -> Parts] : n \in 0 .. MaxPieces} : Sorted(s)}
                 ELSE {<<>>}
    /\ next = 1 /\ amtRead = 0
    /\ buffer = [i \in 0 .. WindowSize - 1 |-> Garbage]
    /\ answer = "none"

Give(a) == answer' = a /\ UNCHANGED <<install, parts, next, amtRead, buffer>>

Reading == answer = "none" /\ Available /\ next <= Len(parts)

\* IsChunkAvailable asks ChunkLookup; DownloadChunk then goes to the server.
NotAvailable == answer = "none" /\ (~Available \/ parts = <<>>) /\ Give("nullptr")

\* Mutant: a part that overlaps what is there is taken too.
FitsOverlapping(p) == p.offset <= amtRead /\ p.offset + p.size > amtRead

Fits(p) == amtRead = p.offset

Skip ==
    /\ Reading /\ ~Fits(parts[next])
    /\ next' = next + 1
    /\ UNCHANGED <<install, parts, amtRead, buffer, answer>>

\* What the read leaves in the buffer: the part, or something else when the
\* file has been changed or is too short.
ReadPart(intact) ==
    LET p == parts[next] IN
    /\ Reading /\ Fits(p)
    /\ buffer' = [i \in DOMAIN buffer |->
                    IF i \in amtRead .. amtRead + p.size - 1
                    THEN IF intact THEN p.offset + (i - amtRead) ELSE Garbage
                    ELSE buffer[i]]
    /\ amtRead' = amtRead + p.size
    /\ next' = next + 1
    /\ UNCHANGED <<install, parts, answer>>

CannotOpen == Reading /\ Fits(parts[next]) /\ Give("nullptr")

\* Mutant: the hash is not compared.
VerifyHashOff == TRUE

VerifyHash == \A i \in DOMAIN buffer : buffer[i] = i

Finish ==
    /\ answer = "none" /\ Available /\ parts # <<>> /\ next > Len(parts)
    /\ Give(IF amtRead = WindowSize /\ VerifyHash THEN "chunk" ELSE "nullptr")

EgsNext ==
    \/ NotAvailable \/ Skip \/ CannotOpen \/ Finish
    \/ ReadPart(TRUE) \/ ReadPart(FALSE)

EgsSpec == EgsInit /\ [][EgsNext]_egsVars

-----------------------------------------------------------------------------
(***************************************************************************)
(* Properties.                                                             *)
(***************************************************************************)
Pieces == {parts[i] : i \in 1 .. Len(parts)}
Covers(p) == p.offset .. p.offset + p.size - 1
Partition ==
    /\ UNION {Covers(p) : p \in Pieces} = 0 .. WindowSize - 1
    /\ \A p, q \in Pieces : p # q => Covers(p) \cap Covers(q) = {}

\* The greedy join never writes behind the buffer; what it hands over is the
\* chunk; and if the pieces in the install partition the chunk, in however
\* many files each is repeated, it has put together the whole of it when it
\* comes to the end (EGSProvider.cpp:158-194).
JoinsPieces ==
    /\ amtRead <= WindowSize
    /\ answer = "chunk" => \A i \in DOMAIN buffer : buffer[i] = i
    /\ Partition /\ next > Len(parts) => amtRead = WindowSize
=============================================================================
