------------------------------- MODULE HemmingCoder -------------------------------
(***************************************************************************)
(* HemmingCoder (core_library/HemmingCoder.cpp): a systematic Hamming code *)
(* with a generating matrix (I | Pt), whose decoder multiplies what it     *)
(* receives by the checking matrix with its rows sorted, and takes the     *)
(* syndrome for the number of the bit in error.                            *)
(***************************************************************************)
EXTENDS BinaryMatrix

CONSTANTS
  dataBlockLen, entireBlockLen, additionalBlockLen,
  MaxErrors              \* bound on the bits of a block that the line inverts

\* The generator keeps the numbers of the columns, and Decode the syndrome, in a
\* byte.
ASSUME HemmingAssumption ==
  /\ dataBlockLen \in Nat \ {0}
  /\ additionalBlockLen \in 1 .. 8
  /\ entireBlockLen = dataBlockLen + additionalBlockLen
  /\ MaxErrors \in Nat

VARIABLES
  source,       \* the bits of the source block that are one
  block,        \* the vector on its way from Encode to Decode
  decoded,      \* the bits of the last decoded block that are one
  phase         \* the next call, or "thrown" after an exception

vars == <<source, block, decoded, phase>>

DataBits == 0 .. dataBlockLen - 1
LineBits == 0 .. entireBlockLen - 1

-----------------------------------------------------------------------------
(***************************************************************************)
(* PMatrixColGenerator: ComputeNextNum counts on, and steps over the next  *)
(* power of two when it meets it.                                          *)
(***************************************************************************)
StepOver[currNum, currTwoPower \in Nat] ==
  IF currNum = 2 ^ currTwoPower
  THEN StepOver[currNum + 1, currTwoPower + 1]
  ELSE [num |-> currNum, twoPower |-> currTwoPower]

\* The state of the generator after count calls of GetNextCol.
Generator[count \in Nat] ==
  IF count = 0
  THEN [num |-> 0, twoPower |-> 0]
  ELSE LET before == Generator[count - 1]
       IN  StepOver[before.num + 1, before.twoPower]

\* Row i of a column holds the bit of the number with the weight of the i-th of
\* additionalBlockLen bits, the first one being the most significant.
Weight(i) == 2 ^ (additionalBlockLen - 1 - i)

pMatrix ==
  Matrix(additionalBlockLen, dataBlockLen,
         {place \in (0 .. additionalBlockLen - 1) \X DataBits :
            (Generator[place[2] + 1].num \div Weight(place[1])) % 2 = 1})

\* Mutant: the check bits come first.
generatingMatrixReversed ==
  ConcatWidth(Transpose(pMatrix), CreateIdentityMatrix(dataBlockLen))

generatingMatrix ==
  ConcatWidth(CreateIdentityMatrix(dataBlockLen), Transpose(pMatrix))

checkingMatrix ==
  ConcatHeight(Transpose(pMatrix), CreateIdentityMatrix(additionalBlockLen))

checkingMatrixSorted == SortRowsAsc(checkingMatrix)

\* The number that the syndrome's bits make (SetBit on bitIndex).
BitIndex(syndrome) ==
  Cardinality(UNION {{i} \X (1 .. Weight(i)) : i \in Crop(syndrome, syndrome.col - 1)})

-----------------------------------------------------------------------------
Init ==
  /\ source = {}
  /\ block = CreateVector(entireBlockLen, {})
  /\ decoded = {}
  /\ phase = "encode"

Encode(src) ==
  /\ phase = "encode"
  /\ source' = src
  /\ block' = Mul(CreateVector(dataBlockLen, src), generatingMatrix)
  /\ phase' = "transmit"
  /\ UNCHANGED decoded

\* The line inverts the bits in noise.
HandleData(noise) ==
  /\ phase = "transmit"
  /\ Cardinality(noise) =< MaxErrors
  /\ block' = CreateVector(entireBlockLen,
                           SymDiff(Crop(block, entireBlockLen - 1), noise))
  /\ phase' = "decode"
  /\ UNCHANGED <<source, decoded>>

\* Mutant: the syndrome counts the bits from 0.
DecodeFromZero ==
  LET syndrome == Mul(block, checkingMatrixSorted)
      corrected == IF IsZero(syndrome) THEN block
                   ELSE InvertItem(block, 0, BitIndex(syndrome) % entireBlockLen)
  IN  /\ phase = "decode"
      /\ decoded' = Crop(corrected, dataBlockLen - 1)
      /\ phase' = "encode"
      /\ UNCHANGED <<source, block>>

\* Correct the bit that the syndrome names, if there is such a bit, and return the
\* data bits; InvertItem throws an exception where there is none.
Decode ==
  LET syndrome == Mul(block, checkingMatrixSorted)
      errorOccurred == ~ IsZero(syndrome)
      col == BitIndex(syndrome) - 1
  IN  /\ phase = "decode"
      /\ IF errorOccurred /\ col \notin LineBits
         THEN /\ phase' = "thrown"
              /\ UNCHANGED decoded
         ELSE /\ phase' = "encode"
              /\ decoded' = Crop(IF errorOccurred THEN InvertItem(block, 0, col)
                                 ELSE block,
                                 dataBlockLen - 1)
      /\ UNCHANGED <<source, block>>

Next ==
  \/ \E src \in SUBSET DataBits : Encode(src)
  \/ \E noise \in SUBSET LineBits : HandleData(noise)
  \/ Decode

Spec == Init /\ [][Next]_vars

-----------------------------------------------------------------------------
(***************************************************************************)
(* What the decoder relies on, and Init does not look at: that the sorted  *)
(* matrix passes each row of the generating one, and that each of its rows *)
(* is the number of its bit, counted from 1.                               *)
(***************************************************************************)
RowOf(m, row) == CreateVector(m.col, {c \in Columns(m) : <<row, c>> \in m.ones})

RowsPassTheCheck ==
  \A i \in DataBits : IsZero(Mul(RowOf(generatingMatrix, i), checkingMatrixSorted))

RowsNumberTheirBits ==
  \A n \in LineBits : BitIndex(RowOf(checkingMatrixSorted, n)) = n + 1

-----------------------------------------------------------------------------
(***************************************************************************)
(* The decoder's checks accept what the encoder has made, although the     *)
(* rows of its matrix stand in another order than the bits of the block.   *)
(***************************************************************************)
CodewordsPassTheCheck ==
  phase = "transmit" => IsZero(Mul(block, checkingMatrixSorted))

(***************************************************************************)
(* A block in which the line has inverted one bit, a data bit or a check   *)
(* bit, or none, is decoded as it was sent, and no call throws.            *)
(***************************************************************************)
CorrectsOneError ==
  /\ phase # "thrown"
  /\ phase = "encode" => decoded = source

(***************************************************************************)
(* "Codecs are implemented for: Hamming codes", says the head of the tool: *)
(* a block that meets no noise is decoded as it was sent.                  *)
(***************************************************************************)
DecodesCleanBlocks == phase = "encode" => decoded = source

=============================================================================
