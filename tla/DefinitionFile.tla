------------------------------ MODULE DefinitionFile ------------------------------
(***************************************************************************)
(* How the tool reads a file of code definitions (ReadCoderDefinitionItem  *)
(* and LoadCoderDefinitionItemsFromFile of ConvSelfOrthCodeModelingTool).  *)
(* A file is the sequence of its lines.  A line with an item is a record   *)
(* of its two indexes, in the order i, j of the files, and its powers: the *)
(* spellings "p=1+x^3" and "3 0 3" of a polynomial are not told apart, nor *)
(* the keys "j" and "v".                                                   *)
(***************************************************************************)
EXTENDS Integers, Sequences, FiniteSetsExt

ItemLine(i, j, powers) == [holds |-> "item", i |-> i, j |-> j, powers |-> powers]

\* The line with "Smin" that begins the definition in the raw output of a search
\* for codes, and the line with the time that ends it.
SminLine == [holds |-> "Smin"]
TimeLine == [holds |-> "time"]

\* Any other line; the empty line behind a line break at the end of a file is one.
OtherLine == [holds |-> "other"]

IsFile(file) ==
  /\ file \in Seq({file[n] : n \in DOMAIN file})
  /\ \A n \in DOMAIN file :
       \/ file[n] \in {SminLine, TimeLine, OtherLine}
       \/ file[n] = ItemLine(file[n].i, file[n].j, file[n].powers)

-----------------------------------------------------------------------------
\* Mutant: an index is shifted for its own sake only.
ReadOwnZeros(it, branchIndexZeroBased) ==
  [item |-> [i |-> IF it.i = 0 THEN 1 ELSE it.i,
             j |-> IF it.j = 0 THEN 1 ELSE it.j,
             powersPolynom |-> it.powers],
   branchIndexZeroBased |-> branchIndexZeroBased]

(***************************************************************************)
(* The reader takes the branches to be numbered from 0 from the first zero *)
(* on that it meets, in the middle of a line perhaps, and adds one to that *)
(* index and to each one behind it.                                        *)
(***************************************************************************)
ReadItem(it, branchIndexZeroBased) ==
  LET zeroAtI == branchIndexZeroBased \/ it.i = 0
      zeroAtJ == zeroAtI \/ it.j = 0
  IN  [item |-> [i |-> IF zeroAtI THEN it.i + 1 ELSE it.i,
                 j |-> IF zeroAtJ THEN it.j + 1 ELSE it.j,
                 powersPolynom |-> it.powers],
       branchIndexZeroBased |-> zeroAtJ]

-----------------------------------------------------------------------------
ItemLines(file) == {n \in 1 .. Len(file) : file[n].holds = "item"}

HasZero(file) == \E n \in ItemLines(file) : file[n].i = 0 \/ file[n].j = 0

(***************************************************************************)
(* What the reader relies on: the items stand together, behind the line    *)
(* that follows "Smin" and before the line with the time, if there are     *)
(* such lines; their indexes and powers are natural numbers; the first     *)
(* item tells by its i whether the branches are numbered from 0; no two    *)
(* items have the same indexes.                                            *)
(***************************************************************************)
WellFormed(file) ==
  /\ ItemLines(file) # {}
  /\ \A n \in ItemLines(file), other \in 1 .. Len(file) :
       /\ file[other] = SminLine => n > other + 1
       /\ file[other] = TimeLine => n < other
  /\ \A n \in ItemLines(file) :
       /\ file[n].i \in Nat /\ file[n].j \in Nat
       /\ file[n].powers \in SUBSET Nat /\ IsFiniteSet(file[n].powers)
  /\ HasZero(file) => file[Min(ItemLines(file))].i = 0
  /\ \A n, other \in ItemLines(file) :
       (file[n].i = file[other].i /\ file[n].j = file[other].j) => n = other

\* The items that the file means: all its indexes counted from 1.
Meant(file) ==
  LET shift == IF HasZero(file) THEN 1 ELSE 0
  IN  {[i |-> file[n].i + shift, j |-> file[n].j + shift,
        powersPolynom |-> file[n].powers] : n \in ItemLines(file)}

=============================================================================
