----------------------------- MODULE CoderRegistries -----------------------------
(***************************************************************************)
(* What ConvSelfOrthCoder and MultiThresholdCoder compute on their shift   *)
(* registers, apart from who owns the registers: shifting, encoding a      *)
(* check bit, and the threshold rule.                                      *)
(*                                                                         *)
(* A bank of registers (vector<BinaryMatrix *>) is the set of its cells    *)
(* <<branch, age>> that hold true: age is the column of the cell, 0 where  *)
(* a bit enters and polynomPower where it is about to leave.  Branches are *)
(* numbered from 1, as in the items of the definition.  A block of bits on *)
(* the line is the set of the lines, 1..n0, that carry a one: first the k0 *)
(* data lines, then the check lines (indexCheckBit = _k0 + i).             *)
(***************************************************************************)
EXTENDS CoderDefinitions

CONSTANTS polynomPower, k0, n0      \* arguments of the coders' constructors

\* The tool passes GetMaxM(), GetCountInputs() and GetCountOutputs().
RegistersFit ==
  /\ polynomPower \in Nat
  /\ k0 \in Nat
  /\ n0 \in Nat
  /\ k0 =< n0
  /\ \A it \in Items : /\ it.i =< k0
                       /\ k0 + it.j =< n0
                       /\ \A p \in it.powersPolynom : p =< polynomPower

ASSUME CoderAssumption == RegistersFit

DataBranches  == 1 .. k0
CheckBranches == 1 .. (n0 - k0)
Lines         == 1 .. n0
Ages          == 0 .. polynomPower

CheckLine(c) == k0 + c

-----------------------------------------------------------------------------
\* Cells one block later: those in ones enter at age 0, the oldest ones leave.
Aged(cells, branches, ages, ones) ==
  {cell \in branches \X ages : IF cell[2] = 0
                               THEN cell[1] \in ones
                               ELSE <<cell[1], cell[2] - 1>> \in cells}

\* Mutant: the registers are a column too long.
ShiftLong(bank, branches, ones) ==
  Aged(bank, branches, 0 .. (polynomPower + 1), ones)

\* Mutant: the oldest cell comes back at age 0.
Rotate(bank, branches, ones) ==
  Aged(bank, branches, Ages,
       ones \cup {b \in branches : <<b, polynomPower>> \in bank})

\* ShiftRightOnce on every register of a bank, then SetItem(0, 0, .).
Shift(bank, branches, ones) == Aged(bank, branches, Ages, ones)

\* The exclusive-or of the bits of a set of cells.
Parity(cells) == Cardinality(cells) % 2 = 1

\* The cells of the data registers that check branch c adds up.
Taps(c) ==
  {cell \in DataBranches \X Ages :
     \E it \in FilterItemsByOutputBranchIndex(c) :
        it.i = cell[1] /\ cell[2] \in it.powersPolynom}

CheckBit(bank, c) == Parity(Taps(c) \cap bank)

\* EncodeCore: the block for the data bits src, bank being the data registers
\* after src has entered them.
Encoded(bank, src) ==
  src \cup {CheckLine(c) : c \in {d \in CheckBranches : CheckBit(bank, d)}}

\* The check branches whose received bit differs from the one the decoder's own
\* encoder computes from the received data bits.
Mismatches(bank, block) ==
  {c \in CheckBranches : CheckBit(bank, c) # (CheckLine(c) \in block)}

-----------------------------------------------------------------------------
\* The syndrome cells with a vote on the oldest bit of data branch b
\* (indexCell = GetColCount() - (power + 1)).
Flags(b) ==
  {cell \in CheckBranches \X Ages :
     <<b, polynomPower - cell[2]>> \in Taps(cell[1])}

\* Mutant: >= for >.
ReachesThreshold(countOfIdentities) == 2 * countOfIdentities >= GetDmin - 1

\* CheckThresholdConditionSyndrome: (float)countOfIdentities > (_dmin - 1) / 2.
ExceedsThreshold(countOfIdentities) == 2 * countOfIdentities > GetDmin - 1

\* What CheckThresholdCondition counts for branch b: the raised flags and, in a
\* multithreshold section, the branch's bit of the difference register (extra).
CountOfIdentities(syndrome, extra, b) ==
  Cardinality(Flags(b) \cap syndrome) + (IF b \in extra THEN 1 ELSE 0)

\* Mutant: the flags of a corrected bit are left raised.
NoneDropped(flips) == {}

\* The flags dropped on behalf of the branches in flips.
Dropped(flips) == UNION {Flags(b) : b \in flips}

(***************************************************************************)
(* The loop of DecodeCore visits the data branches in order; a branch that *)
(* passes the threshold has its flags dropped before the next one is       *)
(* looked at.  flips is the set of the branches that pass: exactly one set *)
(* satisfies the predicate.                                                *)
(***************************************************************************)
PassThreshold(flips, syndrome, extra) ==
  \A b \in DataBranches :
     b \in flips <=>
       LET earlier == {d \in flips : d < b}
       IN  ExceedsThreshold(
             CountOfIdentities(syndrome \ Dropped(earlier), extra, b))

-----------------------------------------------------------------------------
(***************************************************************************)
(* A bit is decoded at age polynomPower from check bits up to that age,    *)
(* each adding up data bits at most polynomPower older: the span of blocks *)
(* that can matter for it is 2 * polynomPower + 1 long.                    *)
(***************************************************************************)
SpanAges == 0 .. (2 * polynomPower)

(***************************************************************************)
(* The places where a line error shows in syndrome cell <<c, a>>: the      *)
(* check bit itself and the data bits it adds up.                          *)
(***************************************************************************)
Support(c, a) ==
  {e \in Lines \X SpanAges :
     \/ e = <<CheckLine(c), a>>
     \/ /\ e[1] \in DataBranches
        /\ e[2] - a \in Ages
        /\ <<e[1], e[2] - a>> \in Taps(c)}

(***************************************************************************)
(* A code is self-orthogonal if two flags with a vote on the same data bit *)
(* have no other bit in common.                                            *)
(***************************************************************************)
SelfOrthogonal ==
  \A b \in DataBranches : \A x, y \in Flags(b) :
     x # y => Support(x[1], x[2]) \cap Support(y[1], y[2])
                = {<<b, polynomPower>>}

\* The number of errors that the threshold (dmin - 1) / 2 can bear.
WithinDistance(count) == 2 * count =< GetDmin - 1

=============================================================================
