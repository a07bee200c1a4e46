-------------------------- MODULE BinarySymmetricChannel --------------------------
(***************************************************************************)
(* BinarySymmetricChannel (core_library/ModelingEngine.h): MakeNoise       *)
(* copies the block, visits its bits in order and inverts those that the   *)
(* random numbers choose.  Whether a bit is chosen is nondeterministic.    *)
(***************************************************************************)
EXTENDS ByteUtil

CONSTANT lenData      \* the length of a block in bits: n0 of the coder

ASSUME LengthAssumption == lenData \in Nat \ {0}

VARIABLES
  data,         \* the block that HandleData was given
  noisedData,   \* its noised copy
  i,            \* the next bit to visit; lenData when MakeNoise is done
  noisy         \* history: the bits that were inverted

vars == <<data, noisedData, i, noisy>>

\* The bits of a block, and the blocks, as StoreBoolVectorAsBytes packs them.
BitIndexes == 0 .. lenData - 1
PackedBlocks == {StoreBoolArrayAsBytes(ones, lenData) : ones \in SUBSET BitIndexes}

\* A call of HandleData with an encoded block: MakeNoise copies it first.
Init ==
  /\ data \in PackedBlocks
  /\ noisedData = data
  /\ i = 0
  /\ noisy = {}

\* The random number leaves the bit alone.
KeepBit ==
  /\ i < lenData
  /\ i' = i + 1
  /\ UNCHANGED <<data, noisedData, noisy>>

\* The random number asks for noise.
MakeNoise ==
  /\ i < lenData
  /\ noisedData' = InvertBitInByteData(noisedData, i)
  /\ noisy' = noisy \cup {i}
  /\ i' = i + 1
  /\ UNCHANGED data

Next == KeepBit \/ MakeNoise

Spec == Init /\ [][Next]_vars

-----------------------------------------------------------------------------
Sent == ConvertBitsToBoolArray(data, lenData)
Arrived == ConvertBitsToBoolArray(noisedData, lenData)

\* The padding of a block stays zero: a block of lenData bits leaves the channel
\* in the form in which it is packed.
TypeOK ==
  /\ data = StoreBoolArrayAsBytes(Sent, lenData)
  /\ noisedData = StoreBoolArrayAsBytes(Arrived, lenData)
  /\ i \in 0 .. lenData
  /\ noisy \in SUBSET BitIndexes

(***************************************************************************)
(* A bit that arrives as a one and was sent as a zero is a bit that was    *)
(* chosen for noise.                                                       *)
(***************************************************************************)
GainedBitsAreNoisy == Arrived \ Sent \subseteq noisy

(***************************************************************************)
(* A bit that arrives as a zero and was sent as a one stands in the byte   *)
(* of a bit that was chosen for noise, at it or behind it: noise disturbs  *)
(* neither the other bytes nor the bits before it.                         *)
(***************************************************************************)
LostBitsFollowNoise ==
  \A lost \in Sent \ Arrived :
     \E k \in noisy : /\ k =< lost
                      /\ k \div BYTE_BIT_LEN = lost \div BYTE_BIT_LEN

(***************************************************************************)
(* What ModelingEngine reads off the two blocks: IsDataEqual, although it  *)
(* compares one bit more than there are, tells whether they differ, and    *)
(* ComputeBitDiff in how many bits.                                        *)
(***************************************************************************)
ComparisonsAgree ==
  /\ IsDataEqual(data, noisedData, lenData) <=> Sent = Arrived
  /\ ComputeBitDiff(data, noisedData, lenData)
       = Cardinality(Sent \ Arrived) + Cardinality(Arrived \ Sent)

(***************************************************************************)
(* "Making noise in bit=%u", says the channel of each bit it inverts       *)
(* (ModelingEngine.h): the block that arrives differs from the one that    *)
(* was sent in these bits and in no other.                                 *)
(***************************************************************************)
InvertsTheNoisyBits == (Sent \ Arrived) \cup (Arrived \ Sent) = noisy

=============================================================================
