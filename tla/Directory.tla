------------------------------ MODULE Directory ----------------------------
(***************************************************************************)
(* The tree of the mounted directory (DirTree, RootTree), filled from the  *)
(* manifest before the file system is started; the lookup of a path; and   *)
(* EGFS::ReadDirectory, which the kernel calls again with the last name it *)
(* got until it gets the end mark.                                         *)
(***************************************************************************)
EXTENDS Naturals, Sequences, SequencesExt

CONSTANTS Names, Depth   \* paths are sequences of up to Depth names

ASSUME DirAssumption ==
    IsFiniteSet(Names) /\ Names \cap {".", ".."} = {} /\ Depth \in Nat

VARIABLES manifest,   \* the files of the build
          toAdd,      \* those that AddFile has not been called for
          tree,       \* "dir" or "file" for every path of the tree
          served,     \* whether the directory is mounted and its dispatcher runs
          dir,        \* the directory that is open, and the order of its map
          order,
          listed,     \* the names the kernel has got
          ended       \* with the end mark

dirVars == <<manifest, toAdd, tree, served, dir, order, listed, ended>>

Paths == UNION {[1 .. n -> Names] : n \in 1 .. Depth}
Root == <<>>
Closed == <<".">>   \* no directory is open

ParentOf(p) == SubSeq(p, 1, Len(p) - 1)
Ancestors(p) == {SubSeq(p, 1, n) : n \in 0 .. Len(p) - 1}
ChildNames(t, d) == {Last(p) : p \in {q \in DOMAIN t \ {Root} : ParentOf(q) = d}}

DirTypeOK ==
    /\ manifest \subseteq Paths /\ toAdd \subseteq manifest
    /\ DOMAIN tree \subseteq Paths \cup {Root} /\ tree[Root] = "dir"
    /\ served \in {"no", "mounted", "started", "failed"}
    /\ dir \in DOMAIN tree \cup {Closed}
    /\ ended \in BOOLEAN

\* A manifest may name a file where another one needs a folder.
DirInit ==
    /\ manifest \in SUBSET Paths /\ toAdd = manifest
    /\ tree = [p \in {Root} |-> "dir"]
    /\ served = "no"
    /\ dir = Closed /\ order = <<>> /\ listed = <<>> /\ ended = FALSE

-----------------------------------------------------------------------------
\* DirTree::AddFile: a file on the way is not replaced, a folder at the end is.
Added(t, p) ==
    LET onTheWay == {q \in Ancestors(p) : q \in DOMAIN t /\ t[q] = "file"}
        kept == {q \in DOMAIN t : p \notin Ancestors(q)}
    IN  IF onTheWay # {} THEN t
        ELSE [q \in kept \cup Ancestors(p) \cup {p} |-> IF q = p THEN "file"
                                                       ELSE IF q \in kept THEN t[q] ELSE "dir"]

AddFile(p) ==
    /\ p \in toAdd /\ toAdd' = toAdd \ {p}
    /\ tree' = Added(tree, p)
    /\ UNCHANGED <<manifest, served, dir, order, listed, ended>>

\* The constructor of MountedBuild, when the files are added. What a crash has left
\* at the mount point is removed. No result is looked at.
SetMountPoint ==
    /\ toAdd = {} /\ served = "no"
    /\ served' \in {"mounted", "failed"}
    /\ UNCHANGED <<manifest, toAdd, tree, dir, order, listed, ended>>

StartDispatcher ==
    /\ served = "mounted" /\ served' \in {"started", "failed"}
    /\ UNCHANGED <<manifest, toAdd, tree, dir, order, listed, ended>>

-----------------------------------------------------------------------------
\* The walk from the root, name by name.
GetFile(p) ==
    IF p \in DOMAIN tree /\ \A q \in Ancestors(p) : q \in DOMAIN tree /\ tree[q] = "dir"
    THEN tree[p] ELSE "nullptr"

GetFileInfo(node) == IF node = "file" THEN "file" ELSE "directory"

\* The kernel asks it before every Open.
GetSecurityByName(p) == IF GetFile(p) = "nullptr" THEN "notFound" ELSE GetFileInfo(GetFile(p))

\* Open, of a folder: the order of an unordered_map is any.
Open(d) ==
    /\ served = "started" /\ dir = Closed
    /\ GetFile(d) = "dir"
    /\ dir' = d
    /\ order' \in SetToSeqs(ChildNames(tree, d))
    /\ UNCHANGED <<manifest, toAdd, tree, served, listed, ended>>

\* Mutant: the listing goes on with the name that was given last.
AfterMarkerAgain(m) == IF m \in Range(order) THEN SelectInSeq(order, LAMBDA x : x = m) ELSE 1

\* Where the names go on after a marker: behind it if it is one of them.
AfterMarker(m) == IF m \in Range(order) THEN SelectInSeq(order, LAMBDA x : x = m) + 1 ELSE 1

Dots == IF dir = Root THEN <<>> ELSE <<".", "..">>

\* What a call would give if there were no limit: "." and ".." first, unless the
\* directory is the root.
Remaining ==
    IF listed = <<>> THEN Dots \o order
    ELSE IF dir # Root /\ Last(listed) = "." THEN <<"..">> \o order
    ELSE SubSeq(order, AfterMarker(Last(listed)), Len(order))

\* The buffer has room for a name at least, and perhaps none for the end mark.
ReadDirectory(room, mark) ==
    /\ dir # Closed /\ ~ended
    /\ LET given == IF room < Len(Remaining) THEN SubSeq(Remaining, 1, room) ELSE Remaining
       IN  /\ listed' = listed \o given
           /\ ended' = (given = Remaining /\ mark)
    /\ UNCHANGED <<manifest, toAdd, tree, served, dir, order>>

DirNext ==
    \/ \E p \in manifest : AddFile(p)
    \/ SetMountPoint \/ StartDispatcher
    \/ \E d \in DOMAIN tree : Open(d)
    \/ \E room \in 1 .. 2, mark \in BOOLEAN : ReadDirectory(room, mark)

DirSpec == DirInit /\ [][DirNext]_dirVars

-----------------------------------------------------------------------------
\* No file of the manifest is below another one.
Consistent == \A p, q \in manifest : p \notin Ancestors(q)

\* However many calls a listing takes, it gives every name that the manifest has
\* in a directory, and each of them once; a path is found if the manifest has it
\* or something below it, and is a directory in the second case only, in whatever
\* order the files were added (egfs.cpp:207-261, 393-420, dirtree.h:32-83).
ListingExact ==
    /\ IsInjective(listed)
    /\ ended /\ Consistent =>
         Range(listed) = Range(Dots)
             \cup {p[Len(dir) + 1] : p \in {q \in manifest : dir \in Ancestors(q)}}
    /\ served = "started" /\ Consistent =>
         \A p \in Paths :
             GetSecurityByName(p) = IF p \in manifest THEN "file"
                                    ELSE IF \E q \in manifest : p \in Ancestors(q)
                                    THEN "directory" ELSE "notFound"
=============================================================================
