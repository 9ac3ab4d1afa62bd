---------------------------- MODULE MCFileRead -----------------------------
(***************************************************************************)
(* Model-checking instances of FileRead: every file of up to MaxParts      *)
(* parts of two chunks: a whole chunk, the pieces of another, overlapping  *)
(* pieces, an empty part.                                                  *)
(***************************************************************************)
EXTENDS FileRead, TLC

CONSTANTS c1, c2, MaxParts

MCWindow == c1 :> 2 @@ c2 :> 3

PartOf(c, o, s) == [chunk |-> c, offset |-> o, size |-> s]

PartChoices == {PartOf(c1, 0, 2), PartOf(c1, 1, 1), PartOf(c2, 0, 2),
                PartOf(c2, 2, 1), PartOf(c2, 1, 0)}

StartsOf(ps) ==
    LET sum[i \in 1 .. Len(ps) + 1] == IF i = 1 THEN 0 ELSE sum[i - 1] + ps[i - 1].size
    IN  sum

MCFiles == {[parts |-> ps, start |-> StartsOf(ps)] :
              ps \in UNION {[1 .. n -> PartChoices] : n \in 0 .. MaxParts}}
=============================================================================
