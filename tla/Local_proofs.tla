---------------------------- MODULE Local_proofs ---------------------------
(***************************************************************************)
(* What EGL2 does on this computer: the mounted directory, the settings, the *)
(* start of the program; and the seven parts of MCLocal together. For any  *)
(* names and depth of the tree, any cache directories, any processes.      *)
(***************************************************************************)
EXTENDS MCLocal, FileRead_proofs, Threads_proofs,
        FiniteSetTheorems, SequenceTheorems, TLAPS

-----------------------------------------------------------------------------
(***************************************************************************)
(* The mounted directory. The tree is what the files added so far and the  *)
(* folders on their ways make; every call of ReadDirectory finds, from the *)
(* last name it gave, where the listing goes on, so that the kernel has a  *)
(* beginning of one listing, whatever room the calls had.                  *)
(***************************************************************************)
\* The files that AddFile has been called for, and all that is on their ways.
AddedFiles == manifest \ toAdd
WithFolders(S) == {Root} \cup S \cup UNION {Ancestors(p) : p \in S}

TreeExact ==
    Consistent =>
        /\ DOMAIN tree = WithFolders(AddedFiles)
        /\ \A q \in DOMAIN tree : tree[q] = IF q \in AddedFiles THEN "file" ELSE "dir"

\* Nothing is served before the tree is filled.
Filled ==
    /\ served # "no" => toAdd = {}
    /\ dir # Closed => served = "started"

Listing == Dots \o order

\* The kernel has got the first names of the listing, all of them at the end mark.
ListedSoFar ==
    /\ order \in Seq(Names) /\ IsInjective(order)
    /\ dir # Closed => Range(order) = ChildNames(tree, dir)
    /\ dir = Closed => listed = <<>>
    /\ listed \in Seq(Names \cup {".", ".."}) /\ Len(listed) <= Len(Listing)
    /\ \A i \in 1 .. Len(listed) : listed[i] = Listing[i]
    /\ ended => dir # Closed /\ Len(listed) = Len(Listing)

DirInv ==
    /\ DirTypeOK /\ tree \in [DOMAIN tree -> {"dir", "file"}] /\ Root \in DOMAIN tree
    /\ TreeExact /\ Filled /\ ListedSoFar

USE DirAssumption

-----------------------------------------------------------------------------
\* Paths and their beginnings.
LEMMA PathIsSeq ==
    ASSUME NEW p \in Paths \cup {Root}
    PROVE  /\ p \in Seq(Names) /\ Len(p) \in 0 .. Depth
           /\ p \in Paths <=> Len(p) # 0
<1>1. CASE p = Root
  <2>1. p \in Seq(Names) /\ Len(p) = 0 BY <1>1 DEF Root
  <2>2. p \notin Paths
    <3> SUFFICES ASSUME p \in Paths PROVE FALSE
      OBVIOUS
    <3>1. PICK n \in 1 .. Depth : p \in [1 .. n -> Names] BY DEF Paths
    <3>2. Len(p) = n BY <3>1
    <3> QED BY <2>1, <3>2
  <2> QED BY <2>1, <2>2
<1>2. CASE p \in Paths
  <2>1. PICK n \in 1 .. Depth : p \in [1 .. n -> Names] BY <1>2 DEF Paths
  <2>2. p \in Seq(Names) /\ Len(p) = n BY <2>1
  <2> QED BY <1>2, <2>1, <2>2
<1> QED BY <1>1, <1>2

LEMMA SeqIsPath ==
    ASSUME NEW p \in Seq(Names), Len(p) \in 1 .. Depth
    PROVE  p \in Paths
<1>1. p \in [1 .. Len(p) -> Names] BY LenProperties
<1> QED BY <1>1 DEF Paths

LEMMA Beginning ==
    ASSUME NEW p \in Seq(Names), NEW n \in 0 .. Len(p)
    PROVE  /\ SubSeq(p, 1, n) \in Seq(Names) /\ Len(SubSeq(p, 1, n)) = n
           /\ \A i \in 1 .. n : SubSeq(p, 1, n)[i] = p[i]
<1>1. Len(p) \in Nat /\ \A i \in 1 .. n : p[i] \in Names BY ElementOfSeq
<1>2. 1 \in Int /\ n \in Int OBVIOUS
<1>3. /\ SubSeq(p, 1, n) \in Seq(Names)
      /\ Len(SubSeq(p, 1, n)) = IF 1 <= n THEN n - 1 + 1 ELSE 0
      /\ \A i \in 1 .. n - 1 + 1 : SubSeq(p, 1, n)[i] = p[1 + i - 1]
  BY <1>1, <1>2, SubSeqProperties
<1> QED BY <1>1, <1>3

LEMMA BeginningOfBeginning ==
    ASSUME NEW p \in Seq(Names), NEW n \in 0 .. Len(p), NEW m \in 0 .. n
    PROVE  SubSeq(SubSeq(p, 1, n), 1, m) = SubSeq(p, 1, m)
<1> DEFINE q == SubSeq(p, 1, n)
<1>1. q \in Seq(Names) /\ Len(q) = n /\ \A i \in 1 .. n : q[i] = p[i] BY Beginning
<1>2. m \in 0 .. Len(p) /\ m \in 0 .. Len(q) BY <1>1
<1> HIDE DEF q
<1>3. /\ SubSeq(q, 1, m) \in Seq(Names) /\ Len(SubSeq(q, 1, m)) = m
      /\ \A i \in 1 .. m : SubSeq(q, 1, m)[i] = q[i]
  BY <1>1, <1>2, Beginning
<1>4. /\ SubSeq(p, 1, m) \in Seq(Names) /\ Len(SubSeq(p, 1, m)) = m
      /\ \A i \in 1 .. m : SubSeq(p, 1, m)[i] = p[i]
  BY <1>2, Beginning
<1>5. \A i \in 1 .. m : SubSeq(q, 1, m)[i] = SubSeq(p, 1, m)[i] BY <1>1, <1>3, <1>4
<1>6. SubSeq(q, 1, m) = SubSeq(p, 1, m) BY <1>3, <1>4, <1>5, SeqEqual
<1> QED BY <1>6 DEF q

\* What is on the way to something on the way to p is on the way to p.
LEMMA AncestorsOf ==
    ASSUME NEW p \in Paths, NEW q \in Ancestors(p)
    PROVE  /\ q \in Paths \cup {Root} /\ Len(q) < Len(p) /\ q # p
           /\ Ancestors(q) \subseteq Ancestors(p)
<1>1. p \in Seq(Names) /\ Len(p) \in 1 .. Depth BY PathIsSeq
<1>2. PICK n \in 0 .. Len(p) - 1 : q = SubSeq(p, 1, n) BY DEF Ancestors
<1>3. n \in 0 .. Len(p) BY <1>1, <1>2
<1>4. q \in Seq(Names) /\ Len(q) = n BY <1>1, <1>2, <1>3, Beginning
<1>5. q \in Paths \cup {Root}
  <2>1. CASE n = 0
    <3>1. Len(q) \notin Nat \ {0} BY <1>4, <2>1
    <3>2. \A s \in Seq(Names) : s # <<>> => Len(s) \in Nat \ {0} BY EmptySeq
    <3>3. q = <<>> BY <1>4, <3>1, <3>2
    <3> QED BY <3>3 DEF Root
  <2>2. CASE n # 0
    <3>1. Len(q) \in 1 .. Depth BY <1>1, <1>2, <1>4, <2>2
    <3> QED BY <1>4, <3>1, SeqIsPath
  <2> QED BY <2>1, <2>2
<1>6. Len(q) < Len(p) BY <1>1, <1>2, <1>4
<1>7. ASSUME NEW r \in Ancestors(q) PROVE r \in Ancestors(p)
  <2>1. PICK m \in 0 .. Len(q) - 1 : r = SubSeq(q, 1, m) BY <1>7 DEF Ancestors
  <2>2. m \in 0 .. n /\ m \in 0 .. Len(p) - 1 BY <1>1, <1>2, <1>4, <2>1
  <2>3. r = SubSeq(p, 1, m) BY <1>1, <1>2, <1>3, <2>1, <2>2, BeginningOfBeginning
  <2> QED BY <2>2, <2>3 DEF Ancestors
<1> QED BY <1>1, <1>5, <1>6, <1>7

LEMMA RootAlone == Ancestors(Root) = {} /\ Root \notin Paths
<1>1. Len(Root) = 0 BY DEF Root
<1>2. Root \notin Paths BY <1>1, PathIsSeq
<1> QED BY <1>1, <1>2 DEF Ancestors

LEMMA ClosedIsNoPath == Closed \notin Paths \cup {Root}
<1> SUFFICES ASSUME Closed \in Paths \cup {Root} PROVE FALSE
  OBVIOUS
<1>1. Closed \in Seq(Names) BY PathIsSeq
<1>2. Len(Closed) = 1 /\ Closed[1] = "." BY DEF Closed
<1>3. Closed[1] \in Names BY <1>1, <1>2, ElementOfSeq
<1> QED BY <1>2, <1>3

-----------------------------------------------------------------------------
\* The tree.
\* What AddFile makes of the tree is a tree.
LEMMA AddedType ==
    ASSUME DirInv, NEW p \in Paths
    PROVE  LET t == Added(tree, p) IN
           /\ t \in [DOMAIN t -> {"dir", "file"}]
           /\ DOMAIN t \subseteq Paths \cup {Root} /\ Root \in DOMAIN t /\ t[Root] = "dir"
<1> DEFINE onTheWay == {q \in Ancestors(p) : q \in DOMAIN tree /\ tree[q] = "file"}
           kept == {q \in DOMAIN tree : p \notin Ancestors(q)}
           D == kept \cup Ancestors(p) \cup {p}
           u == [q \in D |-> IF q = p THEN "file" ELSE IF q \in kept THEN tree[q] ELSE "dir"]
<1>1. Added(tree, p) = IF onTheWay # {} THEN tree ELSE u BY DEF Added
<1>2. /\ tree \in [DOMAIN tree -> {"dir", "file"}]
      /\ DOMAIN tree \subseteq Paths \cup {Root} /\ tree[Root] = "dir"
      /\ Root \in DOMAIN tree
  BY DEF DirInv, DirTypeOK
<1>3. Root \in kept /\ Root # p BY <1>2, RootAlone
<1>4. Ancestors(p) \subseteq Paths \cup {Root} BY AncestorsOf
<1>5. \A q \in D : (IF q = p THEN "file" ELSE IF q \in kept THEN tree[q] ELSE "dir")
                    \in {"dir", "file"}
  BY <1>2
<1>6. /\ u \in [D -> {"dir", "file"}] /\ DOMAIN u = D /\ u[Root] = "dir"
  BY <1>2, <1>3, <1>5
<1>7. D \subseteq Paths \cup {Root} BY <1>2, <1>4
<1> HIDE DEF u, D, kept, onTheWay
<1>8. CASE onTheWay # {} BY <1>1, <1>2, <1>8
<1>9. CASE onTheWay = {}
  <2>1. Added(tree, p) = u BY <1>1, <1>9
  <2>2. u \in [DOMAIN u -> {"dir", "file"}] BY <1>6
  <2>3. DOMAIN u \subseteq Paths \cup {Root} /\ Root \in DOMAIN u
    BY <1>3, <1>6, <1>7 DEF D
  <2> QED BY <2>1, <2>2, <2>3, <1>6
<1> QED BY <1>8, <1>9

\* Without a file below another one, nothing is refused and nothing is replaced.
LEMMA AddedExact ==
    ASSUME DirInv, Consistent, NEW p \in toAdd
    PROVE  LET t == Added(tree, p)
               S == AddedFiles \cup {p}
           IN  /\ DOMAIN t = WithFolders(S)
               /\ \A q \in DOMAIN t : t[q] = IF q \in S THEN "file" ELSE "dir"
<1> DEFINE onTheWay == {q \in Ancestors(p) : q \in DOMAIN tree /\ tree[q] = "file"}
           kept == {q \in DOMAIN tree : p \notin Ancestors(q)}
           S == AddedFiles \cup {p}
<1>1. /\ manifest \subseteq Paths /\ p \in manifest /\ p \notin AddedFiles
      /\ AddedFiles \subseteq manifest
      /\ DOMAIN tree = WithFolders(AddedFiles)
      /\ \A q \in DOMAIN tree : tree[q] = IF q \in AddedFiles THEN "file" ELSE "dir"
  BY DEF DirInv, DirTypeOK, TreeExact, AddedFiles
<1>2. onTheWay = {} BY <1>1 DEF Consistent
<1>3. ASSUME NEW q \in DOMAIN tree PROVE p \notin Ancestors(q)
  <2>1. CASE q = Root BY <2>1, RootAlone
  <2>2. CASE q \in AddedFiles BY <1>1, <2>2 DEF Consistent
  <2>3. ASSUME NEW r \in AddedFiles, q \in Ancestors(r) PROVE p \notin Ancestors(q)
    <3>1. Ancestors(q) \subseteq Ancestors(r) BY <1>1, <2>3, AncestorsOf
    <3> QED BY <1>1, <3>1 DEF Consistent
  <2> QED BY <1>1, <2>1, <2>2, <2>3 DEF WithFolders
<1>4. kept = DOMAIN tree BY <1>3
<1>5. Added(tree, p) =
        [q \in DOMAIN tree \cup Ancestors(p) \cup {p} |->
           IF q = p THEN "file" ELSE IF q \in DOMAIN tree THEN tree[q] ELSE "dir"]
  BY <1>2, <1>4 DEF Added
<1>6. DOMAIN tree \cup Ancestors(p) \cup {p} = WithFolders(S) BY <1>1 DEF WithFolders
<1>7. AddedFiles \subseteq DOMAIN tree BY <1>1 DEF WithFolders
<1>8. \A q \in WithFolders(S) :
         (IF q = p THEN "file" ELSE IF q \in DOMAIN tree THEN tree[q] ELSE "dir")
         = IF q \in S THEN "file" ELSE "dir"
  BY <1>1, <1>7
<1> QED BY <1>5, <1>6, <1>8

LEMMA AddFileKeeps ==
    ASSUME DirInv, NEW p \in manifest, AddFile(p)
    PROVE  DirInv'
<1>1. /\ p \in toAdd /\ p \in Paths /\ toAdd' = toAdd \ {p} /\ tree' = Added(tree, p)
      /\ UNCHANGED <<manifest, served, dir, order, listed, ended>>
  BY DEF AddFile, DirInv, DirTypeOK
<1>2. served = "no" /\ dir = Closed BY <1>1 DEF DirInv, Filled
<1>3. /\ tree' \in [DOMAIN tree' -> {"dir", "file"}]
      /\ DOMAIN tree' \subseteq Paths \cup {Root} /\ tree'[Root] = "dir" /\ Root \in DOMAIN tree'
  BY <1>1, AddedType
<1>4. DirTypeOK' BY <1>1, <1>2, <1>3 DEF DirInv, DirTypeOK
<1>5. TreeExact'
  <2>1. AddedFiles' = AddedFiles \cup {p} /\ (Consistent' => Consistent)
    BY <1>1 DEF AddedFiles, Consistent
  <2> QED BY <1>1, <2>1, AddedExact DEF TreeExact
<1>6. Filled' BY <1>1, <1>2 DEF Filled
<1>7. ListedSoFar' BY <1>1, <1>2 DEF DirInv, ListedSoFar, Listing, Dots
<1> QED BY <1>3, <1>4, <1>5, <1>6, <1>7 DEF DirInv

LEMMA MountKeeps ==
    ASSUME DirInv, SetMountPoint \/ StartDispatcher \/ UNCHANGED dirVars
    PROVE  DirInv'
<1>1. /\ UNCHANGED <<manifest, toAdd, tree, dir, order, listed, ended>>
      /\ served' = served \/ (toAdd = {} /\ dir = Closed /\ served' \in {"mounted", "started", "failed"})
  BY DEF SetMountPoint, StartDispatcher, dirVars, DirInv, Filled
<1> QED BY <1>1
    DEF DirInv, DirTypeOK, TreeExact, Consistent, AddedFiles, Filled, ListedSoFar, Listing, Dots, ChildNames

-----------------------------------------------------------------------------
\* The listing.
\* "." and ".." if this is not the root, and the names behind them.
LEMMA ListingIs ==
    ASSUME order \in Seq(Names)
    PROVE  /\ Len(Dots) = (IF dir = Root THEN 0 ELSE 2)
           /\ Listing \in Seq(Names \cup {".", ".."}) /\ Len(Listing) = Len(Dots) + Len(order)
           /\ Len(Listing) \in Nat
           /\ dir # Root => Listing[1] = "." /\ Listing[2] = ".."
           /\ \A i \in 1 .. Len(order) : Listing[Len(Dots) + i] = order[i]
<1> DEFINE All == Names \cup {".", ".."}
<1>1. order \in Seq(All) /\ Len(order) \in Nat BY SeqMonotonic
<1>2. /\ Dots \in Seq(All) /\ Len(Dots) = (IF dir = Root THEN 0 ELSE 2)
      /\ dir # Root => Dots[1] = "." /\ Dots[2] = ".."
  <2>1. <<>> \in Seq(All) /\ Len(<<>>) = 0 OBVIOUS
  <2>2. /\ <<".", "..">> \in Seq(All) /\ Len(<<".", "..">>) = 2
        /\ <<".", "..">>[1] = "." /\ <<".", "..">>[2] = ".."
    OBVIOUS
  <2>3. CASE dir = Root
    <3>1. Dots = <<>> BY <2>3 DEF Dots
    <3> QED BY <2>1, <2>3, <3>1
  <2>4. CASE dir # Root
    <3>1. Dots = <<".", "..">> BY <2>4 DEF Dots
    <3> QED BY <2>2, <2>4, <3>1
  <2> QED BY <2>3, <2>4
<1> HIDE DEF All
<1>3. /\ Listing \in Seq(All) /\ Len(Listing) = Len(Dots) + Len(order)
      /\ \A i \in 1 .. Len(Dots) + Len(order) :
           Listing[i] = IF i <= Len(Dots) THEN Dots[i] ELSE order[i - Len(Dots)]
  <2>1. Dots \in Seq(All) /\ order \in Seq(All) BY <1>1, <1>2
  <2> QED BY <2>1, ConcatProperties DEF Listing
<1>4. Len(Dots) \in Nat BY <1>2
<1>5. dir # Root => Listing[1] = "." /\ Listing[2] = ".." BY <1>1, <1>2, <1>3
<1>6. \A i \in 1 .. Len(order) : Listing[Len(Dots) + i] = order[i]
  <2> SUFFICES ASSUME NEW i \in 1 .. Len(order) PROVE Listing[Len(Dots) + i] = order[i]
    OBVIOUS
  <2>1. /\ Len(Dots) + i \in 1 .. Len(Dots) + Len(order) /\ ~(Len(Dots) + i <= Len(Dots))
        /\ Len(Dots) + i - Len(Dots) = i
    BY <1>1, <1>4
  <2> QED BY <1>3, <2>1
<1> QED BY <1>1, <1>2, <1>3, <1>4, <1>5, <1>6 DEF All

\* A sequence of a set has each of its elements once.
LEMMA OrderOfAll ==
    ASSUME NEW S, S \subseteq Names, NEW s \in SetToSeqs(S)
    PROVE  s \in Seq(Names) /\ IsInjective(s) /\ Range(s) = S
<1>1. IsFiniteSet(S) /\ Cardinality(S) \in Nat BY FS_Subset, FS_CardinalityType
<1> DEFINE D == 1 .. Cardinality(S)
<1>2. s \in [D -> S] /\ \A i, j \in D : i # j => s[i] # s[j] BY DEF SetToSeqs
<1>3. s \in Seq(Names) BY <1>1, <1>2
<1>4. s \in Injection(D, S) BY <1>2 DEF Injection, IsInjective
<1>5. Cardinality(D) = Cardinality(S) BY <1>1, FS_Interval
<1>6. s \in Surjection(D, S) BY <1>1, <1>4, <1>5, FS_Injection
<1>7. Range(s) = S BY <1>2, <1>6 DEF Surjection, Range
<1> QED BY <1>3, <1>4, <1>7 DEF Injection

LEMMA ChildrenAreNames ==
    ASSUME DirInv, NEW d
    PROVE  ChildNames(tree, d) \subseteq Names
<1> SUFFICES ASSUME NEW p \in DOMAIN tree \ {Root} PROVE Last(p) \in Names
  BY DEF ChildNames
<1>1. p \in Paths BY DEF DirInv, DirTypeOK
<1>2. p \in Seq(Names) /\ Len(p) \in 1 .. Len(p) BY <1>1, PathIsSeq
<1> QED BY <1>2, ElementOfSeq DEF Last

LEMMA OpenKeeps ==
    ASSUME DirInv, NEW d \in DOMAIN tree, Open(d)
    PROVE  DirInv'
<1>1. /\ served = "started" /\ dir = Closed /\ dir' = d
      /\ order' \in SetToSeqs(ChildNames(tree, d))
      /\ UNCHANGED <<manifest, toAdd, tree, served, listed, ended>>
  BY DEF Open
<1>2. order' \in Seq(Names) /\ IsInjective(order') /\ Range(order') = ChildNames(tree, d)
  BY <1>1, ChildrenAreNames, OrderOfAll
<1>3. listed = <<>> /\ ~ended BY <1>1 DEF DirInv, ListedSoFar
<1>4. DirTypeOK' BY <1>1 DEF DirInv, DirTypeOK, Closed
<1>5. TreeExact' BY <1>1 DEF DirInv, TreeExact, Consistent, AddedFiles
<1>6. Filled' BY <1>1 DEF DirInv, Filled
<1>7. ListedSoFar'
  <2>1. d # Closed BY ClosedIsNoPath DEF DirInv, DirTypeOK
  <2>2. /\ listed' = <<>> /\ <<>> \in Seq(Names \cup {".", ".."}) /\ Len(<<>>) = 0
        /\ ChildNames(tree, d)' = ChildNames(tree, d)
    BY <1>1, <1>3 DEF ChildNames
  <2>3. Len(Listing') \in Nat BY <1>2, ListingIs
  <2> QED BY <1>1, <1>2, <1>3, <2>1, <2>2, <2>3 DEF ListedSoFar, ChildNames
<1> QED BY <1>1, <1>4, <1>5, <1>6, <1>7 DEF DirInv

\* Where the names go on.
LEMMA RemainingIs ==
    ASSUME DirInv
    PROVE  /\ Remaining \in Seq(Names \cup {".", ".."})
           /\ Len(Remaining) = Len(Listing) - Len(listed)
           /\ \A i \in 1 .. Len(Remaining) : Remaining[i] = Listing[Len(listed) + i]
<1> DEFINE All == Names \cup {".", ".."}
           k == Len(listed)
           d == Len(Dots)
           m == Last(listed)
<1>1. /\ order \in Seq(Names) /\ order \in Seq(All) /\ IsInjective(order)
      /\ Len(order) \in Nat /\ DOMAIN order = 1 .. Len(order)
      /\ listed \in Seq(All) /\ k \in Nat /\ k <= Len(Listing)
      /\ \A i \in 1 .. k : listed[i] = Listing[i]
  BY DEF DirInv, ListedSoFar
<1>2. /\ d = (IF dir = Root THEN 0 ELSE 2) /\ Len(Listing) = d + Len(order)
      /\ Listing \in Seq(All)
      /\ d = 2 => Listing[1] = "." /\ Listing[2] = ".."
      /\ \A i \in 1 .. Len(order) : Listing[d + i] = order[i]
  <2>1. /\ Len(Dots) = (IF dir = Root THEN 0 ELSE 2) /\ Len(Listing) = Len(Dots) + Len(order)
        /\ Listing \in Seq(Names \cup {".", ".."})
        /\ dir # Root => Listing[1] = "." /\ Listing[2] = ".."
        /\ \A i \in 1 .. Len(order) : Listing[Len(Dots) + i] = order[i]
    BY <1>1, ListingIs
  <2>2. Len(Dots) = 2 => dir # Root BY <2>1
  <2> QED BY <2>1, <2>2
<1>3. "." \notin Names /\ ".." \notin Names /\ "." # ".." OBVIOUS
<1>4. \A i \in 1 .. Len(order) : order[i] \in Names BY <1>1
<1> HIDE DEF k, d
<1>5. CASE listed = <<>>
  <2>1. k = 0 /\ Remaining = Listing BY <1>5 DEF k, Remaining, Listing
  <2> QED BY <1>2, <2>1 DEF k
<1>6. CASE listed # <<>> /\ dir # Root /\ m = "."
  <2>1. k \in 1 .. k /\ m = Listing[k]
    BY <1>1, <1>6, EmptySeq DEF k, Last
  <2>2. k = 1
    <3>1. k # 2 BY <1>2, <1>3, <1>6, <2>1
    <3>2. ASSUME k > 2 PROVE FALSE
      <4>1. k - 2 \in 1 .. Len(order) /\ Listing[d + (k - 2)] = order[k - 2] /\ d + (k - 2) = k
        BY <1>1, <1>2, <1>6, <3>2
      <4> QED BY <1>3, <1>4, <1>6, <2>1, <4>1
    <3> QED BY <1>1, <2>1, <3>1, <3>2
  <2>3. Remaining = <<"..">> \o order BY <1>6 DEF Remaining
  <2>4. <<"..">> \in Seq(All) /\ Len(<<"..">>) = 1 /\ <<"..">>[1] = ".." OBVIOUS
  <2>5. /\ Remaining \in Seq(All) /\ Len(Remaining) = 1 + Len(order)
        /\ \A i \in 1 .. 1 + Len(order) : Remaining[i] = IF i <= 1 THEN <<"..">>[i] ELSE order[i - 1]
    BY <1>1, <2>3, <2>4, ConcatProperties
  <2>6. Len(Remaining) = Len(Listing) - k BY <1>1, <1>2, <1>6, <2>2, <2>5
  <2>7. ASSUME NEW i \in 1 .. Len(Remaining) PROVE Remaining[i] = Listing[k + i]
    <3>1. CASE i = 1 BY <1>2, <1>6, <2>2, <2>4, <2>5, <3>1, <1>1
    <3>2. CASE i # 1
      <4>1. i - 1 \in 1 .. Len(order) /\ d + (i - 1) = k + i
        BY <1>1, <1>2, <1>6, <2>2, <2>5, <3>2
      <4>2. Remaining[i] = order[i - 1] BY <1>1, <2>5, <3>2
      <4> QED BY <1>2, <4>1, <4>2
    <3> QED BY <3>1, <3>2
  <2> QED BY <2>5, <2>6, <2>7 DEF k
<1>7. CASE listed # <<>> /\ ~(dir # Root /\ m = ".")
  <2>1. k \in 1 .. k /\ m = Listing[k] /\ k <= d + Len(order)
    BY <1>1, <1>2, <1>7, EmptySeq DEF k, Last
  <2>2. Remaining = SubSeq(order, AfterMarker(m), Len(order)) BY <1>7 DEF Remaining
  <2>3. k >= d /\ k \in Nat /\ d \in Nat
    <3>1. ASSUME dir # Root, k = 1 PROVE FALSE BY <1>2, <1>7, <2>1, <3>1
    <3> QED BY <1>1, <1>2, <2>1, <3>1
  <2>4. AfterMarker(m) = k - d + 1
    <3>1. CASE k = d
      <4>1. d = 2 /\ m = ".." BY <1>2, <2>1, <3>1
      <4>2. m \notin Range(order) BY <1>1, <1>3, <1>4, <4>1 DEF Range
      <4> QED BY <2>3, <3>1, <4>2 DEF AfterMarker
    <3>2. CASE k # d
      <4>1. k - d \in 1 .. Len(order) /\ d + (k - d) = k BY <1>1, <1>2, <2>1, <2>3, <3>2
      <4>2. m = order[k - d] BY <1>2, <2>1, <4>1
      <4>3. m \in Range(order) BY <1>1, <4>1, <4>2 DEF Range
      <4>4. {i \in 1 .. Len(order) : order[i] = m} = {k - d}
        BY <1>1, <4>1, <4>2 DEF IsInjective
      <4>5. Min({k - d}) = k - d BY <4>1 DEF Min
      <4>6. SelectInSeq(order, LAMBDA x : x = m) = k - d BY <4>4, <4>5 DEF SelectInSeq
      <4> QED BY <4>3, <4>6 DEF AfterMarker
    <3> QED BY <3>1, <3>2
  <2>5. /\ k - d + 1 \in Int /\ Len(order) \in Int
        /\ \A i \in k - d + 1 .. Len(order) : order[i] \in All
    BY <1>1, <1>4, <2>3
  <2>6. /\ Remaining \in Seq(All)
        /\ Len(Remaining) = IF k - d + 1 <= Len(order) THEN Len(order) - (k - d + 1) + 1 ELSE 0
        /\ \A i \in 1 .. Len(order) - (k - d + 1) + 1 : Remaining[i] = order[k - d + 1 + i - 1]
    BY <2>2, <2>4, <2>5, SubSeqProperties
  <2>7. Len(Remaining) = Len(Listing) - k
    <3>1. Len(order) \in Nat /\ Len(Listing) = d + Len(order) BY <1>1, <1>2
    <3>2. CASE k - d + 1 <= Len(order)
      <4>1. Len(Remaining) = Len(order) - (k - d + 1) + 1 BY <2>6, <3>2
      <4> QED BY <2>3, <3>1, <4>1
    <3>3. CASE ~(k - d + 1 <= Len(order))
      <4>1. Len(Remaining) = 0 BY <2>6, <3>3
      <4>2. k = d + Len(order) BY <2>1, <2>3, <3>1, <3>3
      <4> QED BY <2>3, <3>1, <4>1, <4>2
    <3> QED BY <3>2, <3>3
  <2>8. ASSUME NEW i \in 1 .. Len(Remaining) PROVE Remaining[i] = Listing[k + i]
    <3>1. /\ i \in 1 .. Len(order) - (k - d + 1) + 1 /\ k - d + i \in 1 .. Len(order)
          /\ k - d + 1 + i - 1 = k - d + i /\ d + (k - d + i) = k + i
      BY <1>1, <1>2, <2>1, <2>3, <2>7
    <3> QED BY <1>2, <2>6, <3>1
  <2> QED BY <2>6, <2>7, <2>8 DEF k
<1> QED BY <1>5, <1>6, <1>7

LEMMA ReadDirectoryKeeps ==
    ASSUME DirInv, NEW room \in 1 .. 2, NEW mark \in BOOLEAN, ReadDirectory(room, mark)
    PROVE  DirInv'
<1> DEFINE All == Names \cup {".", ".."}
           R == Remaining
           given == IF room < Len(R) THEN SubSeq(R, 1, room) ELSE R
<1>1. /\ dir # Closed /\ listed' = listed \o given /\ (ended' => given = R)
      /\ ended' \in BOOLEAN
      /\ UNCHANGED <<manifest, toAdd, tree, served, dir, order>>
  BY DEF ReadDirectory
<1>2. /\ R \in Seq(All) /\ Len(R) = Len(Listing) - Len(listed)
      /\ \A i \in 1 .. Len(R) : R[i] = Listing[Len(listed) + i]
  BY RemainingIs
<1>3. /\ listed \in Seq(All) /\ Len(listed) \in Nat /\ Len(R) \in Nat
      /\ \A i \in 1 .. Len(listed) : listed[i] = Listing[i]
      /\ order \in Seq(Names)
  BY <1>2 DEF DirInv, ListedSoFar
<1> HIDE DEF R
<1>4. /\ given \in Seq(All) /\ Len(given) \in Nat /\ Len(given) <= Len(R)
      /\ \A i \in 1 .. Len(given) : given[i] = R[i]
  <2>1. CASE room < Len(R)
    <3>1. \A i \in 1 .. room : R[i] \in All BY <1>2, <1>3, <2>1, ElementOfSeq
    <3>2. /\ SubSeq(R, 1, room) \in Seq(All)
          /\ Len(SubSeq(R, 1, room)) = IF 1 <= room THEN room - 1 + 1 ELSE 0
          /\ \A i \in 1 .. room - 1 + 1 : SubSeq(R, 1, room)[i] = R[1 + i - 1]
      BY <3>1, SubSeqProperties
    <3> QED BY <1>2, <1>3, <2>1, <3>2
  <2>2. CASE ~(room < Len(R)) BY <1>2, <1>3, <2>2
  <2> QED BY <2>1, <2>2
<1> HIDE DEF given
<1>5. /\ listed' \in Seq(All) /\ Len(listed') = Len(listed) + Len(given)
      /\ \A i \in 1 .. Len(listed) + Len(given) :
           listed'[i] = IF i <= Len(listed) THEN listed[i] ELSE given[i - Len(listed)]
  BY <1>1, <1>3, <1>4, ConcatProperties
<1>6. \A i \in 1 .. Len(listed') : listed'[i] = Listing[i]
  <2> SUFFICES ASSUME NEW i \in 1 .. Len(listed') PROVE listed'[i] = Listing[i]
    OBVIOUS
  <2>1. CASE i <= Len(listed) BY <1>3, <1>4, <1>5, <2>1
  <2>2. CASE ~(i <= Len(listed))
    <3>1. i - Len(listed) \in 1 .. Len(given) /\ Len(listed) + (i - Len(listed)) = i
          /\ i - Len(listed) \in 1 .. Len(R)
      BY <1>3, <1>4, <1>5, <2>2
    <3> QED BY <1>2, <1>4, <1>5, <2>2, <3>1
  <2> QED BY <2>1, <2>2
<1>7. Listing' = Listing BY <1>1 DEF Listing, Dots
<1>8. Len(Listing) \in Nat BY <1>3, ListingIs
<1>9. ListedSoFar'
  <2>1. Len(listed') <= Len(Listing') BY <1>2, <1>3, <1>4, <1>5, <1>7, <1>8
  <2>2. ended' => Len(listed') = Len(Listing')
    BY <1>1, <1>2, <1>3, <1>5, <1>7, <1>8
  <2>3. ChildNames(tree, dir)' = ChildNames(tree, dir) BY <1>1 DEF ChildNames
  <2> QED BY <1>1, <1>5, <1>6, <1>7, <2>1, <2>2, <2>3 DEF DirInv, ListedSoFar
<1> QED BY <1>1, <1>9 DEF DirInv, DirTypeOK, TreeExact, Consistent, AddedFiles, Filled

LEMMA DirNextKeeps == DirInv /\ [DirNext]_dirVars => DirInv'
  BY AddFileKeeps, MountKeeps, OpenKeeps, ReadDirectoryKeeps DEF DirNext

LEMMA DirInitInv == DirInit => DirInv
<1> SUFFICES ASSUME DirInit PROVE DirInv
  OBVIOUS
<1>1. /\ manifest \subseteq Paths /\ toAdd = manifest /\ served = "no" /\ dir = Closed
      /\ order = <<>> /\ listed = <<>> /\ ended = FALSE
      /\ tree = [p \in {Root} |-> "dir"]
  BY DEF DirInit
<1>2. DOMAIN tree = {Root} /\ tree[Root] = "dir" /\ tree \in [DOMAIN tree -> {"dir", "file"}]
  BY <1>1
<1>3. DirTypeOK BY <1>1, <1>2 DEF DirTypeOK
<1>4. TreeExact
  <2>1. AddedFiles = {} BY <1>1 DEF AddedFiles
  <2> QED BY <1>2, <2>1 DEF TreeExact, WithFolders
<1>5. Filled BY <1>1 DEF Filled
<1>6. ListedSoFar
  <2>1. order \in Seq(Names) /\ IsInjective(order) /\ Len(listed) = 0
        /\ listed \in Seq(Names \cup {".", ".."})
    BY <1>1 DEF IsInjective
  <2>2. Len(Listing) \in Nat BY <2>1, ListingIs
  <2> QED BY <1>1, <2>1, <2>2 DEF ListedSoFar
<1> QED BY <1>2, <1>3, <1>4, <1>5, <1>6 DEF DirInv

\* The inductive invariant of the mounted directory.
THEOREM DirInvariant == DirSpec => []DirInv
  BY DirInitInv, DirNextKeeps, PTL DEF DirSpec
-----------------------------------------------------------------------------
\* "." and ".." are no names, and every name is once in the order.
LEMMA NamesOnce ==
    ASSUME DirInv
    PROVE  IsInjective(listed)
<1> DEFINE All == Names \cup {".", ".."}
           d == Len(Dots)
<1>1. /\ order \in Seq(Names) /\ Len(order) \in Nat /\ IsInjective(order)
      /\ DOMAIN order = 1 .. Len(order)
      /\ listed \in Seq(All) /\ Len(listed) \in Nat /\ Len(listed) <= Len(Listing)
      /\ DOMAIN listed = 1 .. Len(listed)
      /\ \A i \in 1 .. Len(listed) : listed[i] = Listing[i]
  BY DEF DirInv, ListedSoFar
<1>2. /\ d = (IF dir = Root THEN 0 ELSE 2) /\ Len(Listing) = d + Len(order)
      /\ dir # Root => Listing[1] = "." /\ Listing[2] = ".."
      /\ \A i \in 1 .. Len(order) : Listing[d + i] = order[i]
  BY <1>1, ListingIs
<1>3. d \in {0, 2} /\ (d = 2 => Listing[1] = "." /\ Listing[2] = "..") BY <1>2
<1>4. "." \notin Names /\ ".." \notin Names /\ "." # ".." OBVIOUS
<1>5. \A i \in 1 .. Len(order) : order[i] \in Names BY <1>1
<1> HIDE DEF d
<1>6. ASSUME NEW i \in 1 .. d + Len(order)
      PROVE  \/ d = 2 /\ i = 1 /\ Listing[i] = "."
             \/ d = 2 /\ i = 2 /\ Listing[i] = ".."
             \/ i - d \in 1 .. Len(order) /\ Listing[i] = order[i - d] /\ Listing[i] \in Names
  <2>1. CASE i <= d
    <3>1. d = 2 /\ (i = 1 \/ i = 2) BY <1>3, <2>1
    <3> QED BY <1>3, <3>1
  <2>2. CASE ~(i <= d)
    <3>1. i - d \in 1 .. Len(order) /\ d + (i - d) = i BY <1>1, <1>3, <2>2
    <3>2. Listing[i] = order[i - d] BY <1>2, <3>1
    <3> QED BY <1>5, <3>1, <3>2
  <2> QED BY <2>1, <2>2
<1>7. ASSUME NEW i \in 1 .. d + Len(order), NEW j \in 1 .. d + Len(order),
             Listing[i] = Listing[j]
      PROVE  i = j
  <2>1. CASE i - d \in 1 .. Len(order) /\ Listing[i] = order[i - d] /\ Listing[i] \in Names
    <3>1. j - d \in 1 .. Len(order) /\ Listing[j] = order[j - d]
      BY <1>4, <1>6, <1>7, <2>1
    <3>2. i - d = j - d BY <1>1, <1>7, <2>1, <3>1 DEF IsInjective
    <3> QED BY <1>3, <3>2
  <2>2. CASE d = 2 /\ i = 1 /\ Listing[i] = "." BY <1>4, <1>6, <1>7, <2>2
  <2>3. CASE d = 2 /\ i = 2 /\ Listing[i] = ".." BY <1>4, <1>6, <1>7, <2>3
  <2> QED BY <1>6, <2>1, <2>2, <2>3
<1>8. ASSUME NEW i \in DOMAIN listed, NEW j \in DOMAIN listed, listed[i] = listed[j]
      PROVE  i = j
  <2>1. i \in 1 .. d + Len(order) /\ j \in 1 .. d + Len(order) BY <1>1, <1>2, <1>3
  <2>2. Listing[i] = Listing[j] BY <1>1, <1>8
  <2> QED BY <1>7, <2>1, <2>2
<1> QED BY <1>8 DEF IsInjective

\* At the end mark the kernel has got the whole listing.
LEMMA NamesAll ==
    ASSUME DirInv, ended
    PROVE  Range(listed) = Range(Dots) \cup ChildNames(tree, dir)
<1> DEFINE d == Len(Dots)
<1>1. /\ order \in Seq(Names) /\ Len(order) \in Nat /\ DOMAIN order = 1 .. Len(order)
      /\ DOMAIN listed = 1 .. Len(Listing) /\ Range(order) = ChildNames(tree, dir)
      /\ \A i \in 1 .. Len(Listing) : listed[i] = Listing[i]
  BY DEF DirInv, ListedSoFar
<1>2. /\ d \in Nat /\ Len(Listing) = d + Len(order) /\ DOMAIN Dots = 1 .. d
      /\ \A i \in 1 .. d : Listing[i] = Dots[i]
      /\ \A i \in 1 .. Len(order) : Listing[d + i] = order[i]
  <2>1. CASE dir = Root
    <3>1. Dots = <<>> /\ d = 0 /\ DOMAIN Dots = 1 .. 0 BY <2>1 DEF Dots
    <3> QED BY <1>1, <3>1, ListingIs
  <2>2. CASE dir # Root
    <3>1. /\ Dots = <<".", "..">> /\ d = 2 /\ DOMAIN Dots = 1 .. 2
          /\ Dots[1] = "." /\ Dots[2] = ".."
      BY <2>2 DEF Dots
    <3>2. Listing[1] = "." /\ Listing[2] = ".." BY <1>1, <2>2, ListingIs
    <3>3. \A i \in 1 .. 2 : Listing[i] = Dots[i] BY <3>1, <3>2
    <3> QED BY <1>1, <3>1, <3>3, ListingIs
  <2> QED BY <2>1, <2>2
<1> HIDE DEF d
<1>3. ASSUME NEW i \in 1 .. Len(Listing) PROVE listed[i] \in Range(Dots) \cup Range(order)
  <2>1. CASE i <= d
    <3>1. i \in 1 .. d BY <1>1, <1>2, <2>1
    <3> QED BY <1>1, <1>2, <3>1 DEF Range
  <2>2. CASE ~(i <= d)
    <3>1. i - d \in 1 .. Len(order) /\ d + (i - d) = i BY <1>1, <1>2, <2>2
    <3>2. listed[i] = order[i - d] BY <1>1, <1>2, <3>1
    <3> QED BY <1>1, <3>1, <3>2 DEF Range
  <2> QED BY <2>1, <2>2
<1>4. ASSUME NEW i \in 1 .. d PROVE Dots[i] \in Range(listed)
  <2>1. i \in 1 .. Len(Listing) BY <1>1, <1>2
  <2>2. listed[i] = Dots[i] BY <1>1, <1>2, <2>1
  <2> QED BY <1>1, <2>1, <2>2 DEF Range
<1>5. ASSUME NEW i \in 1 .. Len(order) PROVE order[i] \in Range(listed)
  <2>1. d + i \in 1 .. Len(Listing) BY <1>1, <1>2
  <2>2. listed[d + i] = order[i] BY <1>1, <1>2, <2>1
  <2> QED BY <1>1, <2>1, <2>2 DEF Range
<1>6. /\ Range(listed) = {listed[i] : i \in 1 .. Len(Listing)}
      /\ Range(Dots) = {Dots[i] : i \in 1 .. d}
      /\ Range(order) = {order[i] : i \in 1 .. Len(order)}
  BY <1>1, <1>2 DEF Range
<1> QED BY <1>1, <1>3, <1>4, <1>5, <1>6

\* What the tree has in a directory is what the manifest has there.
LEMMA ChildrenOfManifest ==
    ASSUME DirInv, Consistent, toAdd = {}, NEW d
    PROVE  ChildNames(tree, d) = {p[Len(d) + 1] : p \in {q \in manifest : d \in Ancestors(q)}}
<1>1. /\ DOMAIN tree = WithFolders(manifest)
      /\ manifest \subseteq Paths /\ DOMAIN tree \subseteq Paths \cup {Root}
  BY DEF DirInv, DirTypeOK, TreeExact, AddedFiles
<1>2. ASSUME NEW p \in DOMAIN tree \ {Root}, ParentOf(p) = d
      PROVE  \E q \in manifest : d \in Ancestors(q) /\ Last(p) = q[Len(d) + 1]
  <2>1. p \in Paths /\ p \in Seq(Names) /\ Len(p) \in 1 .. Depth BY <1>1, PathIsSeq
  <2>2. PICK q \in manifest : p = q \/ p \in Ancestors(q) BY <1>1, <1>2 DEF WithFolders
  <2>3. q \in Seq(Names) /\ Len(q) \in 1 .. Depth BY <1>1, PathIsSeq
  <2>4. PICK n \in 1 .. Len(q) : p = SubSeq(q, 1, n)
    <3>1. CASE p = q
      <4>1. Len(q) \in 1 .. Len(q) /\ SubSeq(q, 1, Len(q)) = q BY <2>3, SubSeqFull
      <4> QED BY <3>1, <4>1
    <3>2. CASE p \in Ancestors(q)
      <4>1. PICK m \in 0 .. Len(q) - 1 : p = SubSeq(q, 1, m) BY <3>2 DEF Ancestors
      <4>2. m \in 0 .. Len(q) BY <2>3, <4>1
      <4>3. Len(p) = m BY <2>3, <4>1, <4>2, Beginning
      <4>4. m \in 1 .. Len(q) BY <2>1, <4>2, <4>3
      <4> QED BY <4>1, <4>4
    <3> QED BY <2>2, <3>1, <3>2
  <2>5. n \in 0 .. Len(q) /\ n - 1 \in 0 .. n /\ n - 1 \in 0 .. Len(q) - 1
        /\ n - 1 \in 0 .. Len(q) /\ n - 1 + 1 = n /\ n \in 1 .. n
    BY <2>3, <2>4
  <2>6. Len(p) = n /\ p[n] = q[n] BY <2>3, <2>4, <2>5, Beginning
  <2>7. d = SubSeq(q, 1, n - 1)
    <3>1. SubSeq(SubSeq(q, 1, n), 1, n - 1) = SubSeq(q, 1, n - 1)
      BY <2>3, <2>5, BeginningOfBeginning
    <3> QED BY <1>2, <2>4, <2>6, <3>1 DEF ParentOf
  <2>8. Len(d) = n - 1 BY <2>3, <2>5, <2>7, Beginning
  <2>9. d \in Ancestors(q) BY <2>5, <2>7 DEF Ancestors
  <2>10. Last(p) = q[Len(d) + 1] BY <2>5, <2>6, <2>8 DEF Last
  <2> QED BY <2>9, <2>10
<1>3. ASSUME NEW q \in manifest, d \in Ancestors(q)
      PROVE  \E p \in DOMAIN tree \ {Root} : ParentOf(p) = d /\ Last(p) = q[Len(d) + 1]
  <2>1. q \in Paths /\ q \in Seq(Names) /\ Len(q) \in 1 .. Depth BY <1>1, PathIsSeq
  <2>2. PICK n \in 0 .. Len(q) - 1 : d = SubSeq(q, 1, n) BY <1>3 DEF Ancestors
  <2>3. n \in 0 .. Len(q) /\ n + 1 \in 0 .. Len(q) /\ n \in 0 .. n + 1
        /\ n + 1 - 1 = n /\ n + 1 \in 1 .. n + 1 /\ n + 1 # 0
    BY <2>1, <2>2
  <2> DEFINE p == SubSeq(q, 1, n + 1)
  <2>4. Len(d) = n BY <2>1, <2>2, <2>3, Beginning
  <2>5. Len(p) = n + 1 /\ p[n + 1] = q[n + 1] BY <2>1, <2>3, Beginning
  <2>6. p \in DOMAIN tree
    <3>1. CASE n + 1 = Len(q)
      <4>1. p = q BY <2>1, <3>1, SubSeqFull
      <4> QED BY <1>1, <4>1 DEF WithFolders
    <3>2. CASE n + 1 # Len(q)
      <4>1. n + 1 \in 0 .. Len(q) - 1 BY <2>1, <2>3, <3>2
      <4>2. p \in Ancestors(q) BY <4>1 DEF Ancestors
      <4> QED BY <1>1, <4>2 DEF WithFolders
    <3> QED BY <3>1, <3>2
  <2>7. p # Root
    <3>1. Len(Root) = 0 BY DEF Root
    <3> QED BY <2>3, <2>5, <3>1
  <2>8. SubSeq(p, 1, n) = d BY <2>1, <2>2, <2>3, BeginningOfBeginning
  <2> HIDE DEF p
  <2>9. ParentOf(p) = d BY <2>3, <2>5, <2>8 DEF ParentOf
  <2>10. Last(p) = q[Len(d) + 1] BY <2>4, <2>5 DEF Last
  <2> QED BY <2>6, <2>7, <2>9, <2>10
<1> QED BY <1>2, <1>3 DEF ChildNames

\* A path is found where the manifest has it, or something below it.
LEMMA LookupExact ==
    ASSUME DirInv, Consistent, toAdd = {}, NEW p \in Paths
    PROVE  GetSecurityByName(p) = IF p \in manifest THEN "file"
                                  ELSE IF \E q \in manifest : p \in Ancestors(q)
                                  THEN "directory" ELSE "notFound"
<1>1. /\ DOMAIN tree = WithFolders(manifest) /\ manifest \subseteq Paths
      /\ \A q \in DOMAIN tree : tree[q] = IF q \in manifest THEN "file" ELSE "dir"
  BY DEF DirInv, DirTypeOK, TreeExact, AddedFiles
<1>2. p # Root BY RootAlone
<1>3. ASSUME NEW q \in manifest, p = q \/ p \in Ancestors(q)
      PROVE  /\ p \in DOMAIN tree
             /\ \A r \in Ancestors(p) : r \in DOMAIN tree /\ tree[r] = "dir"
  <2>1. Ancestors(p) \subseteq Ancestors(q) BY <1>1, <1>3, AncestorsOf
  <2>2. p \in DOMAIN tree BY <1>1, <1>3 DEF WithFolders
  <2>3. ASSUME NEW r \in Ancestors(p) PROVE r \in DOMAIN tree /\ tree[r] = "dir"
    <3>1. r \in DOMAIN tree BY <1>1, <2>1, <2>3 DEF WithFolders
    <3>2. r \notin manifest BY <2>1, <2>3 DEF Consistent
    <3> QED BY <1>1, <3>1, <3>2
  <2> QED BY <2>2, <2>3
<1>4. CASE p \in manifest
  <2>1. GetFile(p) = "file" BY <1>1, <1>3, <1>4 DEF GetFile
  <2> QED BY <1>4, <2>1 DEF GetSecurityByName, GetFileInfo
<1>5. CASE p \notin manifest /\ \E q \in manifest : p \in Ancestors(q)
  <2>1. GetFile(p) = "dir" BY <1>1, <1>3, <1>5 DEF GetFile
  <2> QED BY <1>5, <2>1 DEF GetSecurityByName, GetFileInfo
<1>6. CASE p \notin manifest /\ ~\E q \in manifest : p \in Ancestors(q)
  <2>1. p \notin DOMAIN tree BY <1>1, <1>2, <1>6 DEF WithFolders
  <2>2. GetFile(p) = "nullptr" BY <2>1 DEF GetFile
  <2> QED BY <1>6, <2>2 DEF GetSecurityByName
<1> QED BY <1>4, <1>5, <1>6

LEMMA InvListingExact == DirInv => ListingExact
<1> SUFFICES ASSUME DirInv PROVE ListingExact
  OBVIOUS
<1>1. /\ ended => dir # Closed /\ served = "started" /\ toAdd = {}
      /\ served = "started" => toAdd = {}
  BY DEF DirInv, ListedSoFar, Filled
<1>2. IsInjective(listed) BY NamesOnce
<1>3. ASSUME ended, Consistent
      PROVE  Range(listed) = Range(Dots)
                 \cup {p[Len(dir) + 1] : p \in {q \in manifest : dir \in Ancestors(q)}}
  BY <1>1, <1>3, NamesAll, ChildrenOfManifest
<1>4. ASSUME served = "started", Consistent, NEW p \in Paths
      PROVE  GetSecurityByName(p) = IF p \in manifest THEN "file"
                                    ELSE IF \E q \in manifest : p \in Ancestors(q)
                                    THEN "directory" ELSE "notFound"
  BY <1>1, <1>4, LookupExact
<1> QED BY <1>2, <1>3, <1>4 DEF ListingExact

\* However many calls a listing takes, it gives every name of the directory once,
\* and a path is found exactly if the manifest says so (egfs.cpp:207-261, 393-420,
\* dirtree.h:32-83), for any manifest, any order of AddFile and any room of a call.
THEOREM ListsAndFinds == DirSpec => []ListingExact
  BY DirInvariant, InvListingExact, PTL

HIDE DirAssumption

-----------------------------------------------------------------------------
(***************************************************************************)
(* The settings. What is live without the setup window is what the file says, *)
(* since every way out of the window either has written it or restores what *)
(* it was opened with, and that was what the file said.                    *)
(***************************************************************************)
\* v is what the file says, as this run wrote it or as the next one will read it.
Saved(v) ==
    /\ config.is = "whole" /\ v.dir = config.dir
    /\ v.method \in {MethodOf(config.byte), ReadMethod(config.version, config.byte)}

\* Where the setup window can be up, and what it keeps to restore.
WindowOf ==
    /\ app \in {"off", "broken"} => window = None
    /\ app = "on" /\ window # None => wndPtr = "window"
    /\ app = "setup" => window # "open"
    /\ app = "on" => window # "startup"

\* What the window restores, and what is live without it, is what was saved.
Kept ==
    /\ window = "startup" => old = SettingsRead
    /\ window = "open" /\ ~unsaved => Saved(old)
    /\ window = "writing" => settings.dir \in Dirs
    /\ window = "written" /\ ~unsaved => Saved(settings)
    /\ app \in {"on", "setup"} /\ window = None /\ ~unsaved => Saved(settings)

SetInv == SetTypeOK /\ WindowOf /\ Kept /\ ChunksReadable

USE SetAssumption

\* The enum of the methods, one by one.
LEMMA MethodsAre ==
    /\ Methods[1] = "decompressed" /\ Methods[2] = "zstandard"
    /\ Methods[3] = "lz4" /\ Methods[4] = "selkie"
    /\ MethodSet = {"decompressed", "zstandard", "lz4", "selkie"}
<1>1. /\ Methods[1] = "decompressed" /\ Methods[2] = "zstandard"
      /\ Methods[3] = "lz4" /\ Methods[4] = "selkie"
  BY DEF Methods
<1>2. \A i \in 1 .. 4 : i = 1 \/ i = 2 \/ i = 3 \/ i = 4 OBVIOUS
<1>3. 1 \in 1 .. 4 /\ 2 \in 1 .. 4 /\ 3 \in 1 .. 4 /\ 4 \in 1 .. 4 OBVIOUS
<1>4. MethodSet = {"decompressed", "zstandard", "lz4", "selkie"}
  BY <1>1, <1>2, <1>3 DEF MethodSet
<1> QED BY <1>1, <1>4

LEMMA ReadMethodIs ==
    ASSUME NEW v \in 0 .. Version13, NEW b \in 0 .. 3
    PROVE  ReadMethod(v, b) \in MethodSet
<1>1. v # 3 /\ (b + 1 = 1 \/ b + 1 = 2 \/ b + 1 = 3 \/ b + 1 = 4) BY DEF Version13
<1>2. /\ (<<"zstandard", "lz4", "decompressed", "decompressed">>)[b + 1] \in MethodSet
      /\ (<<"zstandard", "decompressed", "lz4", "zstandard">>)[b + 1] \in MethodSet
  BY <1>1, MethodsAre
<1> QED BY <1>1, <1>2 DEF ReadMethod

\* What is read from a file that is whole is what it says.
LEMMA ReadIsSaved ==
    ASSUME SetTypeOK
    PROVE  /\ SettingsRead \in Values
           /\ config.is = "whole" => Saved(SettingsRead)
           /\ SettingsRead.dir # None => config.is = "whole"
<1>1. CASE config \in ConfigFiles
  <2>1. config.is = "whole" /\ config.dir \in Dirs /\ config.version \in 0 .. Version13
        /\ config.byte \in 0 .. 3
    BY <1>1 DEF ConfigFiles
  <2>2. ReadMethod(config.version, config.byte) \in MethodSet BY <2>1, ReadMethodIs
  <2> QED BY <2>1, <2>2 DEF SettingsRead, Saved, Values
<1>2. CASE config \in {NoConfig, EmptyConfig}
  <2>1. config.is # "whole" BY <1>2 DEF NoConfig, EmptyConfig
  <2>2. SettingsDefault \in Values BY MethodsAre DEF SettingsDefault, Values
  <2> QED BY <2>1, <2>2 DEF SettingsRead, SettingsDefault
<1> QED BY <1>1, <1>2 DEF SetTypeOK

\* The byte that is written is the method.
LEMMA WriteSaves ==
    ASSUME NEW v \in Values, v.dir \in Dirs
    PROVE  /\ SettingsWrite(v) \in ConfigFiles
           /\ config' = SettingsWrite(v) =>
                /\ config'.is = "whole" /\ v.dir = config'.dir
                /\ v.method = MethodOf(config'.byte)
<1>1. v.method \in MethodSet BY DEF Values
<1>2. \E b \in 0 .. 3 : MethodOf(b) = v.method
  <2>1. MethodOf(0) = Methods[1] /\ MethodOf(1) = Methods[2]
        /\ MethodOf(2) = Methods[3] /\ MethodOf(3) = Methods[4]
    BY DEF MethodOf
  <2> QED BY <1>1, <2>1, MethodsAre
<1> DEFINE c == CHOOSE b \in 0 .. 3 : MethodOf(b) = v.method
<1>3. c \in 0 .. 3 /\ MethodOf(c) = v.method BY <1>2
<1>4. SettingsWrite(v) = [is |-> "whole", version |-> Version13, dir |-> v.dir, byte |-> c]
  BY DEF SettingsWrite
<1> HIDE DEF c
<1> QED BY <1>3, <1>4 DEF ConfigFiles, Version13

LEMMA FlagsAre ==
    ASSUME NEW v \in Values PROVE SettingsGetStorageFlags(v) \in StorageFlags
  BY MethodsAre DEF Values, SettingsGetStorageFlags, StorageFlags

LEMMA SetInitInv == SetInit => SetInv
<1> SUFFICES ASSUME SetInit PROVE SetInv
  OBVIOUS
<1>1. SettingsDefault \in Values BY MethodsAre DEF SettingsDefault, Values
<1>2. SetTypeOK BY <1>1 DEF SetInit, SetTypeOK, None
<1> QED BY <1>2 DEF SetInit, SetInv, WindowOf, Kept, ChunksReadable, None

\* The constructor of cMain reads the file.
LEMMA ReadsKeep == SetInv /\ Start => SetInv'
<1> SUFFICES ASSUME SetInv, Start PROVE SetInv'
  OBVIOUS
<1>1. /\ app = "off" /\ window = None /\ settings' = SettingsRead
      /\ wndPtr' = "null" /\ UNCHANGED <<config, dirs, storage, chunk>> /\ unsaved' = FALSE
  BY DEF SetInv, WindowOf, Start
<1>2. SettingsRead' = SettingsRead /\ (Saved(settings)' <=> Saved(settings'))
  BY <1>1 DEF SettingsRead, Saved
<1>5. SettingsRead \in Values BY ReadIsSaved DEF SetInv
<1>3. CASE SettingsValidate(settings')
  <2>1. app' = "on" /\ UNCHANGED <<window, old>> BY <1>3 DEF Start
  <2>2. SettingsRead.dir # None BY <1>1, <1>3 DEF SettingsValidate, SetInv, SetTypeOK
  <2>3. Saved(settings') BY <1>1, <2>2, ReadIsSaved DEF SetInv
  <2>4. SetTypeOK' BY <1>1, <1>5, <2>1 DEF SetInv, SetTypeOK
  <2>5. WindowOf' BY <1>1, <2>1 DEF WindowOf, None
  <2>7. Saved(settings)' BY <1>1, <1>2, <2>3
  <2>6. Kept' BY <1>1, <2>1, <2>7 DEF Kept, None
  <2> QED BY <1>1, <2>4, <2>5, <2>6 DEF SetInv, ChunksReadable
<1>4. CASE ~SettingsValidate(settings')
  <2>1. app' = "setup" /\ window' = "startup" /\ old' = settings' BY <1>4 DEF Start
  <2>4. SetTypeOK' BY <1>1, <1>5, <2>1 DEF SetInv, SetTypeOK
  <2>5. WindowOf' BY <1>1, <2>1 DEF WindowOf, None
  <2>6. Kept' BY <1>1, <1>2, <2>1 DEF Kept, None
  <2> QED BY <1>1, <2>4, <2>5, <2>6 DEF SetInv, ChunksReadable
<1> QED BY <1>3, <1>4

\* The steps of the program outside of the window leave the file alone.
LEMMA ProgramKeeps == SetInv /\ (Started \/ OnSettingsClicked \/ Quit \/ ChangeDirs) => SetInv'
<1> SUFFICES ASSUME SetInv, Started \/ OnSettingsClicked \/ Quit \/ ChangeDirs PROVE SetInv'
  OBVIOUS
<1>1. UNCHANGED <<config, settings, chunk, unsaved>>
  BY DEF Started, OnSettingsClicked, Quit, ChangeDirs
<1>2. SettingsRead' = SettingsRead /\ \A v : Saved(v)' <=> Saved(v)
  BY <1>1 DEF SettingsRead, Saved
<1>3. ChunksReadable' BY <1>1 DEF SetInv, ChunksReadable
<1> USE <1>1, <1>2, <1>3 DEF SetInv, SetTypeOK, None
<1>4. CASE Started
  <2>1. SetTypeOK' BY <1>4 DEF Started
  <2>2. WindowOf' /\ Kept' BY <1>4 DEF Started, WindowOf, Kept
  <2> QED BY <2>1, <2>2
<1>5. CASE OnSettingsClicked
  <2>1. SetTypeOK' BY <1>5 DEF OnSettingsClicked
  <2>2. WindowOf' BY <1>5 DEF OnSettingsClicked, WindowOf
  <2>3. Kept' BY <1>5 DEF OnSettingsClicked, WindowOf, Kept
  <2> QED BY <2>1, <2>2, <2>3
<1>6. CASE Quit
  <2>0. SettingsDefault \in Values BY MethodsAre DEF SettingsDefault, Values
  <2>1. SetTypeOK' BY <1>6, <2>0 DEF Quit
  <2>2. WindowOf' /\ Kept' BY <1>6 DEF Quit, WindowOf, Kept
  <2> QED BY <2>1, <2>2
<1>7. CASE ChangeDirs
  <2>1. SetTypeOK' BY <1>7 DEF ChangeDirs
  <2>2. WindowOf' /\ Kept' BY <1>7 DEF ChangeDirs, WindowOf, Kept
  <2> QED BY <2>1, <2>2
<1> QED BY <1>4, <1>5, <1>6, <1>7

\* Ok writes what is live.
LEMMA OkKeeps == SetInv /\ (OkClicked \/ WriteSettings \/ OkEnds) => SetInv'
<1> SUFFICES ASSUME SetInv, OkClicked \/ WriteSettings \/ OkEnds PROVE SetInv'
  OBVIOUS
<1>1. UNCHANGED <<app, dirs, storage, chunk>>
  BY DEF OkClicked, WriteSettings, OkEnds
<1>2. ChunksReadable' BY <1>1 DEF SetInv, ChunksReadable
<1>3. CASE OkClicked
  <2>0. window \in {"startup", "open"} /\ settings' \in Values /\ UNCHANGED <<old, wndPtr>>
    BY <1>3 DEF OkClicked
  <2>1. CASE SettingsValidate(settings') /\ window' = "writing"
    <3>1. /\ config' = EmptyConfig /\ settings'.dir \in Dirs /\ unsaved' = unsaved
      BY <1>3, <2>0, <2>1 DEF OkClicked, SettingsValidate, SetInv, SetTypeOK
    <3>2. SetTypeOK' BY <1>1, <2>0, <2>1, <3>1 DEF SetInv, SetTypeOK
    <3>3. WindowOf' /\ Kept' BY <1>1, <2>0, <2>1, <3>1 DEF SetInv, WindowOf, Kept, None
    <3> QED BY <1>2, <3>2, <3>3 DEF SetInv
  <2>3. CASE SettingsValidate(settings') /\ window' # "writing"
    <3>1. window' = "written" /\ unsaved' = TRUE /\ config' = config
      BY <1>3, <2>3 DEF OkClicked
    <3>2. SetTypeOK' BY <1>1, <2>0, <3>1 DEF SetInv, SetTypeOK
    <3>3. WindowOf' /\ Kept' BY <1>1, <2>0, <3>1 DEF SetInv, WindowOf, Kept, None
    <3> QED BY <1>2, <3>2, <3>3 DEF SetInv
  <2>2. CASE ~SettingsValidate(settings')
    <3>1. /\ UNCHANGED <<old, window, config, wndPtr, unsaved>> /\ settings' \in Values
          /\ window \in {"startup", "open"}
      BY <1>3, <2>2 DEF OkClicked
    <3>2. SetTypeOK' BY <1>1, <3>1 DEF SetInv, SetTypeOK
    <3>3. WindowOf' /\ Kept' BY <1>1, <3>1 DEF SetInv, WindowOf, Kept, None, SettingsRead, Saved
    <3> QED BY <1>2, <3>2, <3>3 DEF SetInv
  <2> QED BY <2>1, <2>2, <2>3
<1>4. CASE WriteSettings
  <2>1. /\ window = "writing" /\ window' = "written" /\ config' = SettingsWrite(settings)
        /\ UNCHANGED <<old, settings, wndPtr>> /\ settings \in Values /\ settings.dir \in Dirs
        /\ unsaved' = FALSE
    BY <1>4 DEF WriteSettings, SetInv, SetTypeOK, Kept
  <2>2. config' \in ConfigFiles /\ Saved(settings)' BY <2>1, WriteSaves DEF Saved
  <2>3. SetTypeOK' BY <1>1, <2>1, <2>2 DEF SetInv, SetTypeOK
  <2>4. WindowOf' /\ Kept' BY <1>1, <2>1, <2>2 DEF SetInv, WindowOf, Kept, None
  <2> QED BY <1>2, <2>3, <2>4 DEF SetInv
<1>5. CASE OkEnds
  <2>1. /\ window = "written" /\ window' = None /\ wndPtr' = "null"
        /\ UNCHANGED <<config, settings, unsaved>>
    BY <1>5 DEF OkEnds, Exit
  <2>4. old' \in Values BY <1>5, MethodsAre DEF OkEnds, Exit, SettingsDefault, Values
  <2>2. SetTypeOK' BY <1>1, <2>1, <2>4 DEF SetInv, SetTypeOK, None
  <2>3. WindowOf' /\ Kept' BY <1>1, <2>1 DEF SetInv, WindowOf, Kept, None, Saved
  <2> QED BY <1>2, <2>2, <2>3 DEF SetInv
<1> QED BY <1>3, <1>4, <1>5

\* Cancel and the close button give back what was there, or say that it was not saved.
LEMMA LeaveKeeps == SetInv /\ (CancelClicked \/ CloseClicked) => SetInv'
<1> SUFFICES ASSUME SetInv, CancelClicked \/ CloseClicked PROVE SetInv'
  OBVIOUS
<1>1. /\ window \in {"startup", "open"} /\ window' = None /\ wndPtr' = "null"
      /\ UNCHANGED <<config, app, dirs, storage, chunk>>
  BY DEF CancelClicked, CloseClicked, Exit
<1>2. ChunksReadable' BY <1>1 DEF SetInv, ChunksReadable
<1>3. settings' \in {settings, old} /\ unsaved' \in BOOLEAN
  BY DEF CancelClicked, CloseClicked, Restore, SetInv, SetTypeOK
<1>10. old' \in Values
  BY MethodsAre DEF SettingsDefault, Values, CancelClicked, CloseClicked, Exit
<1>4. SetTypeOK' BY <1>1, <1>3, <1>10 DEF SetInv, SetTypeOK, None
<1>5. WindowOf' BY <1>1 DEF WindowOf, None
<1>6. \A v : Saved(v)' <=> Saved(v) BY <1>1 DEF Saved
<1>7. ASSUME ~unsaved', ~unsaved, settings' = old, config.is = "whole" \/ window = "open"
      PROVE  Saved(settings')
  BY <1>1, <1>7, ReadIsSaved DEF SetInv, Kept
<1>8. app' \in {"on", "setup"} /\ ~unsaved' => Saved(settings')
  <2>1. CASE CancelClicked
    BY <1>1, <1>7, <2>1 DEF CancelClicked, Restore, SetInv, WindowOf
  <2>2. CASE CloseClicked
    BY <1>7, <2>2 DEF CloseClicked, Restore
  <2> QED BY <2>1, <2>2
<1>9. Kept' BY <1>1, <1>6, <1>8 DEF Kept, None
<1> QED BY <1>2, <1>4, <1>5, <1>9 DEF SetInv

\* The header that WriteChunk writes is that of its compressor.
LEMMA StorageKeeps == SetInv /\ (Mount \/ WriteChunk) => SetInv'
<1> SUFFICES ASSUME SetInv, Mount \/ WriteChunk PROVE SetInv'
  OBVIOUS
<1>1. UNCHANGED <<config, settings, old, window, wndPtr, app, unsaved>>
  BY DEF Mount, WriteChunk
<1>2. WindowOf' /\ Kept' BY <1>1 DEF SetInv, WindowOf, Kept, SettingsRead, Saved
<1>3. CASE Mount
  <2>1. dirs' \subseteq Dirs /\ storage' \in StorageFlags /\ chunk' = chunk
    BY <1>3, FlagsAre DEF Mount, SetInv, SetTypeOK, Values
  <2> QED BY <1>1, <1>2, <2>1 DEF SetInv, SetTypeOK, ChunksReadable
<1>4. CASE WriteChunk
  <2>1. storage \in StorageFlags /\ UNCHANGED <<dirs, storage>>
    BY <1>4 DEF WriteChunk, SetInv, SetTypeOK
  <2>2. ChunksReadable'
    <3>1. chunk' = [header |-> HeaderOf(storage), sized |-> storage # "StorageDecompressed",
                    data |-> CompressFunc(storage)]
      BY <1>4 DEF WriteChunk
    <3> USE <3>1 DEF HeaderOf, Headers, CompressFunc, ReadChunk, ChunksReadable
    <3>2. CASE storage = "StorageDecompressed" BY <3>2
    <3>3. CASE storage = "StorageZstd" BY <3>3 DEF ZstdDecompress
    <3>4. CASE storage = "StorageLZ4" BY <3>4 DEF LZ4Decompress
    <3>5. CASE storage = "StorageSelkie" BY <3>5 DEF OodleDecompress
    <3> QED BY <2>1, <3>2, <3>3, <3>4, <3>5 DEF StorageFlags
  <2> QED BY <1>1, <1>2, <2>1, <2>2 DEF SetInv, SetTypeOK
<1> QED BY <1>3, <1>4

LEMMA SetNextKeeps == SetInv /\ [SetNext]_setVars => SetInv'
<1>1. SetInv /\ UNCHANGED setVars => SetInv'
  BY DEF setVars, SetInv, SetTypeOK, WindowOf, Kept, ChunksReadable, Saved, SettingsRead
<1> QED BY <1>1, ReadsKeep, ProgramKeeps, OkKeeps, LeaveKeeps, StorageKeeps DEF SetNext

\* The inductive invariant of the settings and the setup window.
THEOREM SetInvariant == SetSpec => []SetInv
  BY SetInitInv, SetNextKeeps, PTL DEF SetSpec

\* The live settings are those of the file whenever the setup window is not up,
\* whatever was tried, refused and cancelled, unless the first setup was left without
\* Ok or the file could not be opened (cSetup.cpp:217-249, cMain.cpp:266-274), for any
\* directories.
THEOREM LiveIsSaved == SetSpec => []SettingsSaved
<1>1. SetInv => SettingsSaved BY DEF SetInv, Kept, Saved, SettingsSaved
<1> QED BY <1>1, SetInvariant, PTL

\* A chunk file can be read by every later run, whatever method that one writes
\* (storage.cpp:280-385), for any sequence of restarts and changes of the method.
THEOREM AllChunksReadable == SetSpec => []ChunksReadable
<1>1. SetInv => ChunksReadable BY DEF SetInv
<1> QED BY <1>1, SetInvariant, PTL

HIDE SetAssumption

-----------------------------------------------------------------------------
(***************************************************************************)
(* The start of the program. A process that has made the mutex holds it    *)
(* until it has left, so that another one that makes it finds it there.    *)
(***************************************************************************)
\* A process that has made the mutex itself, until it leaves.
Inside == {p \in Processes :
             /\ proc[p].at \in {"oodle", "fetch", "write", "reload", "workaround", "main"}
             /\ ~proc[p].passed}

AppInv ==
    /\ AppTypeOK
    /\ Inside \subseteq holders
    /\ \A p, q \in Inside : p = q
    /\ \A p \in Processes : proc[p].at = "main" => devMode /\ ~proc[p].admin

ProcType == [at : {"none", "check", "oodle", "fetch", "write", "reload",
                   "workaround", "main", "leaving", "gone"},
             admin : BOOLEAN, passed : BOOLEAN]

\* A step that changes only where one process is, without letting it in.
LEMMA GoesKeeps ==
    ASSUME AppInv, NEW p \in Processes, NEW at, GoesTo(p, at), at \in
             {"oodle", "fetch", "write", "reload", "workaround", "main", "leaving"},
           at \in {"leaving"} \/ p \in Inside \/ proc[p].passed,
           at = "main" => devMode /\ ~proc[p].admin,
           dll' \in {"absent", "partial", "whole"}, UNCHANGED <<owner, holders>>,
           devMode' \in {devMode, TRUE}
    PROVE  AppInv'
<1>1. proc \in [Processes -> ProcType] BY DEF AppInv, AppTypeOK, ProcType
<1>2. /\ \A q \in Processes \ {p} : proc'[q] = proc[q]
      /\ proc'[p] = [proc[p] EXCEPT !.at = at]
  BY <1>1 DEF GoesTo
<1>3. proc'[p].at = at /\ proc'[p].admin = proc[p].admin /\ proc'[p].passed = proc[p].passed
  BY <1>1, <1>2 DEF ProcType
<1>4. AppTypeOK'
  <2>1. proc'[p] \in ProcType BY <1>1, <1>2 DEF ProcType
  <2>2. proc' \in [Processes -> ProcType] BY <1>1, <2>1 DEF GoesTo
  <2> QED BY <2>2 DEF AppInv, AppTypeOK, ProcType
<1>5. Inside' \subseteq Inside BY <1>2, <1>3 DEF Inside
<1>6. \A q \in Processes : proc'[q].at = "main" => devMode' /\ ~proc'[q].admin
  BY <1>2, <1>3 DEF AppInv
<1> QED BY <1>4, <1>5, <1>6 DEF AppInv

\* A process that is not there is started.
LEMMA StartProcessKeeps ==
    ASSUME AppInv, NEW p \in Processes, NEW admin \in BOOLEAN, StartProcess(p, admin)
    PROVE  AppInv'
<1> DEFINE r == [at |-> "check", admin |-> admin, passed |-> FALSE]
<1>1. proc \in [Processes -> ProcType] /\ r \in ProcType
  BY DEF AppInv, AppTypeOK, ProcType
<1>2. proc' = [proc EXCEPT ![p] = r] BY DEF StartProcess
<1>3. /\ \A q \in Processes \ {p} : proc'[q] = proc[q]
      /\ proc'[p].at = "check" /\ proc' \in [Processes -> ProcType]
  BY <1>1, <1>2
<1>4. Inside' \subseteq Inside BY <1>3 DEF Inside
<1> QED BY <1>3, <1>4 DEF StartProcess, AppInv, AppTypeOK, ProcType

LEMMA CheckInstanceKeeps ==
    ASSUME AppInv, NEW p \in Processes, CheckInstance(p)
    PROVE  AppInv'
<1>1. proc \in [Processes -> ProcType] BY DEF AppInv, AppTypeOK, ProcType
<1>2. CASE owner = "admin" /\ ~proc[p].admin
  <2> DEFINE r == [proc[p] EXCEPT !.at = "oodle", !.passed = TRUE]
  <2>1. r \in ProcType /\ r.at = "oodle" /\ r.passed BY <1>1 DEF ProcType
  <2>2. proc' = [proc EXCEPT ![p] = r] BY <1>1, <1>2 DEF CheckInstance
  <2>3. /\ \A q \in Processes \ {p} : proc'[q] = proc[q]
        /\ proc'[p] = r /\ proc' \in [Processes -> ProcType]
    BY <1>1, <2>1, <2>2
  <2>4. Inside' \subseteq Inside BY <2>1, <2>3 DEF Inside
  <2> QED BY <1>2, <2>1, <2>3, <2>4 DEF CheckInstance, AppInv, AppTypeOK, ProcType
<1>3. CASE ~(owner = "admin" /\ ~proc[p].admin)
  <2> DEFINE r == [proc[p] EXCEPT !.at = IF IsAnotherRunning THEN "leaving" ELSE "oodle"]
  <2>1. r \in ProcType /\ r.at = IF IsAnotherRunning THEN "leaving" ELSE "oodle"
    BY <1>1 DEF ProcType
  <2>2. proc' = [proc EXCEPT ![p] = r] BY <1>1, <1>3 DEF CheckInstance, GoesTo
  <2>3. /\ \A q \in Processes \ {p} : proc'[q] = proc[q]
        /\ proc'[p] = r /\ proc' \in [Processes -> ProcType]
    BY <1>1, <2>1, <2>2
  <2>4. /\ holders' = holders \cup {p} /\ owner' \in {"none", "user", "admin"}
        /\ UNCHANGED <<dll, devMode>>
    BY <1>3 DEF CheckInstance, AppInv, AppTypeOK
  <2>5. /\ holders = {} => Inside' \subseteq {p}
        /\ holders # {} => Inside' \subseteq Inside
    <3>1. Inside' \subseteq Inside \cup {p} BY <2>3 DEF Inside
    <3> HIDE DEF r
    <3>2. holders # {} => p \notin Inside' BY <2>1, <2>3 DEF Inside, IsAnotherRunning
    <3>3. holders = {} => Inside = {} BY DEF AppInv
    <3> QED BY <3>1, <3>2, <3>3
  <2>6. /\ Inside' \subseteq holders' /\ \A q1, q2 \in Inside' : q1 = q2
    BY <2>4, <2>5 DEF AppInv
  <2> QED BY <2>1, <2>3, <2>4, <2>6 DEF AppInv, AppTypeOK, ProcType
<1> QED BY <1>2, <1>3

\* The relaunched process is at its start, the other leaves.
LEMMA RelaunchKeeps ==
    ASSUME AppInv, NEW p \in Processes, proc[p].at = "workaround",
           NEW admin \in BOOLEAN, Relaunch(p, admin),
           UNCHANGED <<owner, holders, dll>>, devMode' \in {devMode, TRUE}
    PROVE  AppInv'
<1>1. proc \in [Processes -> ProcType] BY DEF AppInv, AppTypeOK, ProcType
<1> DEFINE r == [proc[p] EXCEPT !.at = "leaving"]
           s == [at |-> "check", admin |-> admin, passed |-> FALSE]
<1>2. PICK q \in Processes : /\ proc[q].at = "none"
                             /\ proc' = [proc EXCEPT ![p].at = "leaving", ![q] = s]
  BY DEF Relaunch
<1>3. p # q BY <1>2
<1>4. r \in ProcType /\ r.at = "leaving" /\ s \in ProcType BY <1>1 DEF ProcType
<1>9. proc' = [proc EXCEPT ![p] = r, ![q] = s] BY <1>1, <1>2, <1>3
<1>10. s.at = "check" OBVIOUS
<1> HIDE DEF r, s
<1>5. /\ proc'[p] = r /\ proc'[q] = s /\ proc' \in [Processes -> ProcType]
      /\ \A u \in Processes \ {p, q} : proc'[u] = proc[u]
  BY <1>1, <1>3, <1>4, <1>9
<1>8. \A u \in Processes : proc'[u].at \in {"leaving", "check"} \/ proc'[u] = proc[u]
  BY <1>4, <1>5, <1>10
<1>6. Inside' \subseteq Inside BY <1>8 DEF Inside
<1>7. \A u \in Processes : proc'[u].at = "main" => devMode' /\ ~proc'[u].admin
  BY <1>8 DEF AppInv, AppTypeOK
<1> QED BY <1>5, <1>6, <1>7 DEF AppInv, AppTypeOK, ProcType

LEMMA EndProcessKeeps ==
    ASSUME AppInv, NEW p \in Processes, EndProcess(p)
    PROVE  AppInv'
<1>1. proc \in [Processes -> ProcType] BY DEF AppInv, AppTypeOK, ProcType
<1> DEFINE r == [proc[p] EXCEPT !.at = "gone"]
<1>2. r \in ProcType /\ r.at = "gone" BY <1>1 DEF ProcType
<1>3. proc' = [proc EXCEPT ![p] = r] BY <1>1 DEF EndProcess, GoesTo
<1>4. /\ \A q \in Processes \ {p} : proc'[q] = proc[q]
      /\ proc'[p] = r /\ proc' \in [Processes -> ProcType]
  BY <1>1, <1>2, <1>3
<1>5. Inside' \subseteq Inside \ {p} BY <1>2, <1>4 DEF Inside
<1>6. /\ holders' = holders \ {p} /\ owner' \in {"none", "user", "admin"}
      /\ devMode' = devMode /\ dll' \in {"absent", "partial", "whole"}
  BY DEF EndProcess, AppInv, AppTypeOK
<1>7. \A q \in Processes : proc'[q].at = "main" => devMode' /\ ~proc'[q].admin
  BY <1>2, <1>4, <1>6 DEF AppInv
<1> QED BY <1>4, <1>5, <1>6, <1>7 DEF AppInv, AppTypeOK, ProcType

LEMMA AppNextKeeps == AppInv /\ [AppNext]_appVars => AppInv'
<1> SUFFICES ASSUME AppInv, [AppNext]_appVars PROVE AppInv'
  OBVIOUS
<1>1. CASE UNCHANGED appVars BY <1>1 DEF appVars, AppInv, AppTypeOK, Inside
<1>2. ASSUME NEW p \in Processes, \E admin \in BOOLEAN : StartProcess(p, admin) PROVE AppInv'
  BY <1>2, StartProcessKeeps
<1>3. ASSUME NEW p \in Processes, LoadOodle(p) PROVE AppInv'
  BY <1>3, GoesKeeps DEF LoadOodle, Inside, AppInv, AppTypeOK
<1>4. ASSUME NEW p \in Processes, ParseData(p) PROVE AppInv'
  BY <1>4, GoesKeeps DEF ParseData, Inside, AppInv, AppTypeOK
<1>5. ASSUME NEW p \in Processes, WriteDll(p) PROVE AppInv'
  BY <1>5, GoesKeeps DEF WriteDll, Inside, AppInv, AppTypeOK
<1>6. ASSUME NEW p \in Processes, ReloadDll(p) PROVE AppInv'
  BY <1>6, GoesKeeps DEF ReloadDll, Inside, AppInv, AppTypeOK
<1>7. ASSUME NEW p \in Processes, GiveUp(p) PROVE AppInv'
  BY <1>7, GoesKeeps DEF GiveUp, Inside, AppInv, AppTypeOK
<1>8. ASSUME NEW p \in Processes, Workaround(p) PROVE AppInv'
  <2>1. /\ proc[p].at = "workaround" /\ UNCHANGED <<owner, holders, dll>>
        /\ devMode' \in {devMode, TRUE}
        /\ dll \in {"absent", "partial", "whole"}
        /\ p \in Inside \/ proc[p].passed
    BY <1>8 DEF Workaround, Inside, AppInv, AppTypeOK
  <2>5. dll' \in {"absent", "partial", "whole"} /\ UNCHANGED <<owner, holders>> BY <2>1
  <2>2. CASE GoesTo(p, "main") /\ devMode /\ ~proc[p].admin BY <2>1, <2>2, <2>5, GoesKeeps
  <2>3. CASE GoesTo(p, "leaving") BY <2>1, <2>3, <2>5, GoesKeeps
  <2>4. CASE Relaunch(p, TRUE) \/ Relaunch(p, FALSE) BY <2>1, <2>4, RelaunchKeeps
  <2> QED BY <1>8, <2>2, <2>3, <2>4 DEF Workaround
<1>9. ASSUME NEW p \in Processes, CheckInstance(p) \/ EndProcess(p) PROVE AppInv'
  BY <1>9, CheckInstanceKeeps, EndProcessKeeps
<1> QED BY <1>1, <1>2, <1>3, <1>4, <1>5, <1>6, <1>7, <1>8, <1>9 DEF AppNext

LEMMA AppInitInv == AppInit => AppInv
<1> SUFFICES ASSUME AppInit PROVE AppInv
  OBVIOUS
<1>1. \A p \in Processes : proc[p].at = "none" BY DEF AppInit, NotStarted
<1>2. AppTypeOK BY DEF AppInit, NotStarted, AppTypeOK
<1> QED BY <1>1, <1>2 DEF AppInit, AppInv, Inside

\* The inductive invariant of the start of the processes.
THEOREM AppInvariant == AppSpec => []AppInv
  BY AppInitInv, AppNextKeeps, PTL DEF AppSpec

LEMMA AtMostOneInside == AppInv => OneInstance
<1> SUFFICES ASSUME AppInv PROVE OneInstance
  OBVIOUS
<1> DEFINE windows == {p \in Processes : proc[p].at = "main"}
           own == {p \in windows : ~proc[p].passed}
<1>1. own \subseteq Inside BY DEF Inside
<1>2. own = {} \/ \E p : own = {p} BY <1>1 DEF AppInv
<1>3. Cardinality(own) <= 1
  <2>1. CASE own = {} BY <2>1, FS_EmptySet
  <2>2. ASSUME NEW p, own = {p} PROVE Cardinality(own) <= 1
    <3>1. Cardinality({p}) = 1 BY FS_Singleton
    <3> HIDE DEF own
    <3> QED BY <2>2, <3>1
  <2> QED BY <1>2, <2>1, <2>2
<1>4. windows # {} => devMode /\ \A p \in windows : ~proc[p].admin BY DEF AppInv
<1> HIDE DEF own
<1> QED BY <1>3, <1>4 DEF OneInstance, own

\* Of the processes that made the mutex themselves one at most has its window up, and
\* no window is up without developer mode or with the rights of an administrator
\* (cApp.cpp:69-80, 220-281), for any number of processes, started, relaunched and
\* killed at any time.
THEOREM OneWindow == AppSpec => []OneInstance
  BY AppInvariant, AtMostOneInside, PTL

-----------------------------------------------------------------------------
(***************************************************************************)
(* The seven parts together: in a behaviour one of them moves.             *)
(***************************************************************************)
LocalInv ==
    /\ IInv /\ CtxInv /\ DirInv /\ QueryInv
    /\ GameDirInv /\ SetInv /\ AppInv

LEMMA LocalNextKeeps ==
    LocalInv /\ [LocalNext]_<<part, vars, ctxVars, dirVars, queryVars, gameDirVars,
                             setVars, appVars>> => LocalInv'
<1> SUFFICES ASSUME LocalInv,
                    [LocalNext]_<<part, vars, ctxVars, dirVars, queryVars, gameDirVars,
                                  setVars, appVars>>
             PROVE  LocalInv'
  OBVIOUS
<1>1. /\ [Next]_vars /\ [CtxNext]_ctxVars /\ [DirNext]_dirVars /\ [QueryNext]_queryVars
      /\ [GameDirNext]_gameDirVars /\ [SetNext]_setVars /\ [AppNext]_appVars
  BY DEF LocalNext, OnlyRead, OnlyContexts, OnlyDirectory, OnlyStatistics, OnlySetup,
         OnlySettings, OnlyStart
<1>2. IInv' BY <1>1, NextIInv DEF LocalInv
<1>3. CtxInv' /\ QueryInv' /\ GameDirInv'
  BY <1>1, CtxNextKeeps, QueryNextKeeps, GameDirNextKeeps DEF LocalInv
<1>4. DirInv' /\ SetInv' /\ AppInv'
  BY <1>1, DirNextKeeps, SetNextKeeps, AppNextKeeps DEF LocalInv
<1> QED BY <1>2, <1>3, <1>4 DEF LocalInv

\* The inductive invariant of the whole of MCLocal.
THEOREM LocalInvariant == LocalSpec => []LocalInv
<1>1. LocalInit => LocalInv
  BY InitIInv, CtxInitInv, DirInitInv, QueryInitInv, GameDirInitInv, SetInitInv, AppInitInv
     DEF LocalInit, LocalInv
<1> QED BY <1>1, LocalNextKeeps, PTL DEF LocalSpec

\* Every variable of the seven parts keeps its type, whatever the constants are.
THEOREM LocalTypeCorrect == LocalSpec => []LocalTypeOK
<1>1. LocalInv => LocalTypeOK
  BY DEF LocalInv, IInv, CtxInv, DirInv, QueryInv, GameDirInv, SetInv, AppInv, LocalTypeOK
<1> QED BY <1>1, LocalInvariant, PTL
=============================================================================
