---------------------------------- MODULE ByteUtil ----------------------------------
(***************************************************************************)
(* The operations of ByteUtil (core_library/ByteUtil.cpp) on the bits of   *)
(* bytes that the channel, the coders and the engine use.  A byte is the   *)
(* set of the positions of its ones, position 0 being the most significant *)
(* bit (GetOnlyBitByte); an array of bytes is a function on its indexes.   *)
(***************************************************************************)
EXTENDS Integers, SequencesExt

BYTE_BIT_LEN == 8

Bytes == SUBSET (0 .. BYTE_BIT_LEN - 1)

\* ceil(dataLen / BYTE_BIT_LEN)
GetByteLenForDataLen(dataLen) == (dataLen + BYTE_BIT_LEN - 1) \div BYTE_BIT_LEN

SetBit(b, bitPos) == b \cup {bitPos}

\* Mutant: the mask keeps what follows the bit, and clears what comes before it.
UnsetBitBefore(b, bitPos) == {pos \in b : pos > bitPos}

(***************************************************************************)
(* b &= rightPart | leftPart, where leftPart is 0xff << (8 - bitPos), the  *)
(* bitPos first positions, and rightPart is 0xff >> (8 - bitPos + 1), the  *)
(* bitPos - 1 last ones (none if bitPos is 0: 0xff is shifted by 9).       *)
(***************************************************************************)
UnsetBit(b, bitPos) ==
  {pos \in b : pos < bitPos \/ pos > BYTE_BIT_LEN - bitPos}

InvertBit(b, bitPos) ==
  IF bitPos \in b THEN UnsetBit(b, bitPos) ELSE SetBit(b, bitPos)

SetBitValue(b, bitPos, bitValue) ==
  IF bitValue THEN SetBit(b, bitPos) ELSE UnsetBit(b, bitPos)

\* Mutant: the position counted from 1.
InvertNextBitInByteData(byteData, indexBit) ==
  [byteData EXCEPT ![indexBit \div BYTE_BIT_LEN] =
     InvertBit(@, (indexBit + 1) % BYTE_BIT_LEN)]

InvertBitInByteData(byteData, indexBit) ==
  [byteData EXCEPT ![indexBit \div BYTE_BIT_LEN] =
     InvertBit(@, indexBit % BYTE_BIT_LEN)]

\* Mutant: rounded up to the next byte.
ByteAfter(indexBit) == (indexBit + BYTE_BIT_LEN - 1) \div BYTE_BIT_LEN

\* ceil((indexBit + 1) / BYTE_BIT_LEN), where the division is one of integers: the
\* last bit of a byte is taken for one of the next byte.
ByteOfBit(indexBit) == (indexBit + 1) \div BYTE_BIT_LEN

GetBitForByteData(byteData, indexBit) ==
  indexBit % BYTE_BIT_LEN \in byteData[ByteOfBit(indexBit)]

SetBitForByteData(byteData, indexBit, bitValue) ==
  [byteData EXCEPT ![ByteOfBit(indexBit)] =
     SetBitValue(@, indexBit % BYTE_BIT_LEN, bitValue)]

\* The bits are copied one by one, from the first to the last, to bytes of zeros.
CopyBitsData(bitsData, lenBits) ==
  FoldLeft(LAMBDA newData, k :
             SetBitForByteData(newData, k, GetBitForByteData(bitsData, k)),
           [index \in 0 .. GetByteLenForDataLen(lenBits) - 1 |-> {}],
           [k \in 1 .. lenBits |-> k - 1])

-----------------------------------------------------------------------------
\* StoreBoolArrayAsBytes, StoreBoolVectorAsBytes: pack the bits 0 .. len - 1, of
\* which those in ones are true.
StoreBoolArrayAsBytes(ones, len) ==
  [i \in 0 .. GetByteLenForDataLen(len) - 1 |->
     {pos \in 0 .. BYTE_BIT_LEN - 1 : i * BYTE_BIT_LEN + pos \in ones}]

\* Unpack the first count bits.
ConvertBitsToBoolArray(bits, count) ==
  {k \in 0 .. count - 1 : k % BYTE_BIT_LEN \in bits[k \div BYTE_BIT_LEN]}

\* Mutant: the last bit is not compared.
IsDataEqualButLast(left, right, bitLength) ==
  \A k \in 0 .. bitLength - 2 :
     k % BYTE_BIT_LEN \in left[k \div BYTE_BIT_LEN]
       <=> k % BYTE_BIT_LEN \in right[k \div BYTE_BIT_LEN]

\* The loop leaves a byte once it has compared bitLength + 1 bits.
IsDataEqual(left, right, bitLength) ==
  \A k \in 0 .. bitLength :
     k \div BYTE_BIT_LEN < GetByteLenForDataLen(bitLength) =>
       ( k % BYTE_BIT_LEN \in left[k \div BYTE_BIT_LEN]
           <=> k % BYTE_BIT_LEN \in right[k \div BYTE_BIT_LEN] )

\* The loop of ComputeBitDiff leaves a byte once it has compared len bits.
ComputeBitDiff(left, right, len) ==
  Cardinality({k \in 0 .. len - 1 :
     ~ ( k % BYTE_BIT_LEN \in left[k \div BYTE_BIT_LEN]
           <=> k % BYTE_BIT_LEN \in right[k \div BYTE_BIT_LEN] )})

=============================================================================
