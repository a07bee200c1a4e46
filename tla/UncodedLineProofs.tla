------------------------------ MODULE UncodedLineProofs ------------------------------
(***************************************************************************)
(* Proofs about UncodedLine and BinarySymmetricChannel, for blocks of any  *)
(* length and whatever an array holds that is not initialised.             *)
(***************************************************************************)
EXTENDS UncodedLine, FiniteSetTheorems, TLAPS

Positions == 0 .. BYTE_BIT_LEN - 1

Blocks == [ByteIndexes -> Bytes]

\* The bit at a position of a byte.
BitAt(at, pos) == at * BYTE_BIT_LEN + pos

(***************************************************************************)
(* Bits, and the positions in bytes where they stand.                      *)
(***************************************************************************)
LEMMA BitPlaces ==
  ASSUME NEW k \in BitIndexes
  PROVE  /\ k \div BYTE_BIT_LEN \in ByteIndexes
         /\ k % BYTE_BIT_LEN \in Positions
         /\ BitAt(k \div BYTE_BIT_LEN, k % BYTE_BIT_LEN) = k
BY LengthAssumption
DEF BitIndexes, ByteIndexes, Positions, BitAt, GetByteLenForDataLen, BYTE_BIT_LEN

LEMMA PlacesOfBit ==
  ASSUME NEW at \in ByteIndexes, NEW pos \in Positions
  PROVE  /\ BitAt(at, pos) \in Nat
         /\ BitAt(at, pos) \div BYTE_BIT_LEN = at
         /\ BitAt(at, pos) % BYTE_BIT_LEN = pos
         /\ BitAt(at, pos) >= at
         /\ at < lenData
BY LengthAssumption DEF ByteIndexes, Positions, BitAt, GetByteLenForDataLen, BYTE_BIT_LEN

-----------------------------------------------------------------------------
\* A packed block: its padding is zero.
Packed(block) ==
  /\ block \in Blocks
  /\ \A at \in ByteIndexes : \A pos \in block[at] : BitAt(at, pos) < lenData

LEMMA PackedIsStored ==
  ASSUME NEW block, Packed(block)
  PROVE  block = StoreBoolArrayAsBytes(ConvertBitsToBoolArray(block, lenData), lenData)
<1> DEFINE ones == ConvertBitsToBoolArray(block, lenData)
<1>1. ASSUME NEW at \in ByteIndexes
      PROVE  block[at] = {pos \in Positions : BitAt(at, pos) \in ones}
  <2>1. block[at] \subseteq Positions
    BY DEF Packed, Blocks, Bytes, Positions
  <2>2. ASSUME NEW pos \in Positions
        PROVE  pos \in block[at] <=> BitAt(at, pos) \in ones
    <3>1. pos \in block[at] => BitAt(at, pos) \in 0 .. lenData - 1
      BY PlacesOfBit, LengthAssumption DEF Packed
    <3>. QED BY <3>1, PlacesOfBit DEF ConvertBitsToBoolArray
  <2>. QED BY <2>1, <2>2
<1>. QED BY <1>1 DEF Packed, Blocks, StoreBoolArrayAsBytes, ByteIndexes, Positions, BitAt

LEMMA StoredIsPacked ==
  ASSUME NEW ones \in SUBSET BitIndexes
  PROVE  /\ Packed(StoreBoolArrayAsBytes(ones, lenData))
         /\ ConvertBitsToBoolArray(StoreBoolArrayAsBytes(ones, lenData), lenData) = ones
<1> DEFINE block == StoreBoolArrayAsBytes(ones, lenData)
<1>1. block = [at \in ByteIndexes |-> {pos \in Positions : BitAt(at, pos) \in ones}]
  BY DEF StoreBoolArrayAsBytes, ByteIndexes, Positions, BitAt
<1> HIDE DEF block
<1>2. Packed(block)
  <2>1. block \in Blocks
    BY <1>1 DEF Blocks, Bytes, Positions
  <2>2. ASSUME NEW at \in ByteIndexes, NEW pos \in block[at]
        PROVE  BitAt(at, pos) < lenData
    <3>1. BitAt(at, pos) \in BitIndexes
      BY <1>1
    <3>. QED BY <3>1, LengthAssumption DEF BitIndexes
  <2>. QED BY <2>1, <2>2 DEF Packed
<1>3. ASSUME NEW k \in BitIndexes
      PROVE  k % BYTE_BIT_LEN \in block[k \div BYTE_BIT_LEN] <=> k \in ones
  BY <1>1, BitPlaces
<1>4. ConvertBitsToBoolArray(block, lenData) = ones
  BY <1>3 DEF ConvertBitsToBoolArray, BitIndexes
<1>. QED BY <1>2, <1>4 DEF block

-----------------------------------------------------------------------------
(***************************************************************************)
(* The generator: a byte that it has cleared holds the bits that were      *)
(* drawn since.  It clears the byte of a bit no later than it draws that   *)
(* bit, since it counts bits where it should count bytes.                  *)
(***************************************************************************)
DrawnInv ==
  /\ arr \in Blocks
  /\ index \in 0 .. lenData
  /\ drawn \in SUBSET (0 .. index - 1)
  /\ index < lenData =>
       \A at \in ByteIndexes : at < index =>
         arr[at] = {pos \in Positions : BitAt(at, pos) \in drawn}

(***************************************************************************)
(* The channel: where a byte that has passed it differs from the one that  *)
(* was sent, and what noise there was.                                     *)
(***************************************************************************)
NoisyAt(at, pos) == \E k \in noisy : k =< BitAt(at, pos) /\ k \div BYTE_BIT_LEN = at

NoiseInv ==
  \A at \in ByteIndexes, pos \in Positions :
    /\ pos \in noisedData[at] \ data[at] => BitAt(at, pos) \in noisy
    /\ pos \in data[at] \ noisedData[at] => NoisyAt(at, pos)

ChannelInv ==
  /\ Packed(data)
  /\ Packed(noisedData)
  /\ i \in 0 .. lenData
  /\ noisy \in SUBSET BitIndexes
  /\ NoiseInv

LineInv ==
  /\ DrawnInv
  /\ ChannelInv
  /\ index < lenData => noisy = {} /\ i = 0
  /\ index = lenData => data = StoreBoolArrayAsBytes(drawn, lenData)

LEMMA DrawnStep ==
  ASSUME DrawnInv, NEW one \in BOOLEAN, GenerateBit(one)
  PROVE  /\ DrawnInv'
         /\ index' = lenData => arr' = StoreBoolArrayAsBytes(drawn', lenData)
<1> DEFINE cleared == IF index \in ByteIndexes THEN [arr EXCEPT ![index] = {}] ELSE arr
           own == index \div BYTE_BIT_LEN
<1>1. /\ index \in BitIndexes /\ index' = index + 1
      /\ arr' = IF one THEN InvertBitInByteData(cleared, index) ELSE cleared
      /\ drawn' = IF one THEN drawn \cup {index} ELSE drawn
  BY LengthAssumption DEF GenerateBit, Drawn, DrawnInv, BitIndexes
<1>2. cleared \in Blocks
  BY DEF DrawnInv, Blocks, Bytes
<1>3. ASSUME NEW at \in ByteIndexes, at < index + 1
      PROVE  cleared[at] = {pos \in Positions : BitAt(at, pos) \in drawn}
  <2>1. CASE at < index
    <3>1. cleared[at] = arr[at]
      BY <2>1 DEF DrawnInv, Blocks, ByteIndexes
    <3>2. index < lenData
      BY <1>1, LengthAssumption DEF BitIndexes
    <3>. QED BY <2>1, <3>1, <3>2 DEF DrawnInv
  <2>2. CASE at = index
    <3>1. \A pos \in Positions : BitAt(at, pos) \notin drawn
      BY <2>2, PlacesOfBit DEF DrawnInv
    <3>. QED BY <2>2, <3>1 DEF DrawnInv, Blocks
  <2>. QED BY <1>1, <1>3, <2>1, <2>2 DEF BitIndexes, ByteIndexes
<1>4. /\ own \in ByteIndexes /\ own < index + 1
      /\ index % BYTE_BIT_LEN \in Positions
      /\ BitAt(own, index % BYTE_BIT_LEN) = index
  BY <1>1, BitPlaces DEF BitIndexes, BYTE_BIT_LEN
<1> HIDE DEF cleared, own
<1>5. index % BYTE_BIT_LEN \notin cleared[own]
  BY <1>3, <1>4 DEF DrawnInv
<1>6. arr' = IF one THEN [cleared EXCEPT ![own] = @ \cup {index % BYTE_BIT_LEN}] ELSE cleared
  BY <1>1, <1>2, <1>5 DEF InvertBitInByteData, InvertBit, SetBit, own
<1>7. arr' \in Blocks
  BY <1>2, <1>4, <1>6 DEF Blocks, Bytes, Positions
<1>8. ASSUME NEW at \in ByteIndexes, at < index + 1
      PROVE  arr'[at] = {pos \in Positions : BitAt(at, pos) \in drawn'}
  <2>1. \A pos \in Positions : BitAt(at, pos) = index <=> at = own /\ pos = index % BYTE_BIT_LEN
    BY <1>4, PlacesOfBit DEF own
  <2>2. CASE ~ one
    BY <1>1, <1>3, <1>6, <1>8, <2>2
  <2>3. CASE one /\ at # own
    BY <1>1, <1>2, <1>3, <1>6, <1>8, <2>1, <2>3 DEF Blocks
  <2>4. CASE one /\ at = own
    <3>1. arr'[at] = cleared[at] \cup {index % BYTE_BIT_LEN}
      BY <1>2, <1>6, <2>4 DEF Blocks
    <3>2. cleared[at] = {pos \in Positions : BitAt(at, pos) \in drawn}
      BY <1>3, <1>8
    <3>. QED BY <1>1, <1>4, <2>1, <2>4, <3>1, <3>2
  <2>. QED BY <2>2, <2>3, <2>4
<1>9. index' \in 0 .. lenData /\ drawn' \in SUBSET (0 .. index' - 1)
  BY <1>1, LengthAssumption DEF DrawnInv, BitIndexes
<1>10. ASSUME index' = lenData
       PROVE  arr' = StoreBoolArrayAsBytes(drawn', lenData)
  <2>1. \A at \in ByteIndexes : arr'[at] = {pos \in Positions : BitAt(at, pos) \in drawn'}
    BY <1>1, <1>8, <1>10, PlacesOfBit DEF Positions, BYTE_BIT_LEN
  <2>. QED BY <1>7, <2>1 DEF Blocks, StoreBoolArrayAsBytes, ByteIndexes, Positions, BitAt
<1>. QED BY <1>1, <1>7, <1>8, <1>9, <1>10 DEF DrawnInv

\* A block that no noise has reached yet.
LEMMA FreshBlock ==
  ASSUME NEW block, Packed(block), data' = block, noisedData' = block, i' = 0, noisy' = {}
  PROVE  ChannelInv'
BY LengthAssumption DEF ChannelInv, NoiseInv, NoisyAt, Packed, Blocks

LEMMA NoiseStep ==
  ASSUME ChannelInv, MakeNoise
  PROVE  ChannelInv'
<1> DEFINE own == i \div BYTE_BIT_LEN
           place == i % BYTE_BIT_LEN
<1>1. i \in BitIndexes /\ i' = i + 1 /\ noisy' = noisy \cup {i} /\ data' = data
  BY LengthAssumption DEF MakeNoise, ChannelInv, BitIndexes
<1>2. own \in ByteIndexes /\ place \in Positions /\ BitAt(own, place) = i
  BY <1>1, BitPlaces
<1>3. noisedData' = [noisedData EXCEPT ![own] = InvertBit(@, place)]
  BY DEF MakeNoise, InvertBitInByteData
<1> DEFINE before == noisedData[own]
           after == InvertBit(before, place)
<1>4. before \in SUBSET Positions /\ noisedData \in Blocks
  BY <1>2 DEF ChannelInv, Packed, Blocks, Bytes, Positions
<1>5. /\ after \in SUBSET Positions
      /\ after \subseteq before \cup {place}
      /\ \A pos \in before \ after : pos >= place
  <2>1. CASE place \in before
    <3>1. after = {pos \in before : pos < place \/ pos > BYTE_BIT_LEN - place}
      BY <2>1 DEF InvertBit, UnsetBit
    <3> HIDE DEF before, after, place
    <3>2. \A pos \in before \ after : pos \in Positions /\ ~ (pos < place)
      BY <1>4, <3>1
    <3>3. \A pos \in Positions : ~ (pos < place) => pos >= place
      BY <1>2 DEF Positions, BYTE_BIT_LEN
    <3>. QED BY <1>4, <3>1, <3>2, <3>3
  <2>2. CASE place \notin before
    <3>1. after = before \cup {place}
      BY <2>2 DEF InvertBit, SetBit
    <3>. QED BY <1>2, <1>4, <3>1
  <2>. QED BY <2>1, <2>2
<1>6. /\ noisedData'[own] = after
      /\ \A at \in ByteIndexes \ {own} : noisedData'[at] = noisedData[at]
      /\ noisedData' \in Blocks
  BY <1>2, <1>3, <1>4, <1>5 DEF Blocks, Bytes, Positions
<1> HIDE DEF before, after, own, place
<1>7. Packed(noisedData')
  <2>1. ASSUME NEW at \in ByteIndexes, NEW pos \in noisedData'[at]
        PROVE  BitAt(at, pos) < lenData
    <3>1. CASE pos \in noisedData[at]
      BY <3>1 DEF ChannelInv, Packed
    <3>2. CASE pos \notin noisedData[at]
      <4>1. at = own /\ pos = place
        BY <1>5, <1>6, <2>1, <3>2 DEF before
      <4>. QED BY <1>1, <1>2, <4>1, LengthAssumption DEF BitIndexes
    <3>. QED BY <3>1, <3>2
  <2>. QED BY <1>6, <2>1 DEF Packed
<1>8. ASSUME NEW at \in ByteIndexes, NEW pos \in Positions
      PROVE  /\ pos \in noisedData'[at] \ data'[at] => BitAt(at, pos) \in noisy'
             /\ pos \in data'[at] \ noisedData'[at] => NoisyAt(at, pos)'
  <2>1. CASE pos \in noisedData'[at] <=> pos \in noisedData[at]
    BY <1>1, <2>1 DEF ChannelInv, NoiseInv, NoisyAt
  <2>2. CASE pos \in noisedData'[at] /\ pos \notin noisedData[at]
    <3>1. at = own /\ pos = place
      BY <1>5, <1>6, <2>2 DEF before
    <3>. QED BY <1>1, <1>2, <2>2, <3>1
  <2>3. CASE pos \in noisedData[at] /\ pos \notin noisedData'[at]
    <3>1. at = own /\ pos >= place
      BY <1>5, <1>6, <2>3 DEF before
    <3>2. i =< BitAt(at, pos)
      BY <1>1, <1>2, <3>1 DEF BitAt, BitIndexes, Positions, BYTE_BIT_LEN, ByteIndexes
    <3>3. NoisyAt(at, pos)'
      BY <1>1, <3>1, <3>2 DEF NoisyAt, own
    <3>. QED BY <2>3, <3>3
  <2>. QED BY <2>1, <2>2, <2>3
<1>9. i' \in 0 .. lenData /\ noisy' \in SUBSET BitIndexes
  BY <1>1, LengthAssumption DEF ChannelInv, BitIndexes
<1>. QED BY <1>1, <1>7, <1>8, <1>9 DEF ChannelInv, NoiseInv

LEMMA LineInvInit ==
  ASSUME LineInit
  PROVE  LineInv
<1>1. CASE GeneratorInit
  <2>1. Packed([at \in ByteIndexes |-> {}])
    BY DEF Packed, Blocks, Bytes
  <2>2. arr \in Blocks
    BY <1>1, GarbageAssumption DEF GeneratorInit, Blocks
  <2>3. ChannelInv
    BY <1>1, <2>1, LengthAssumption DEF GeneratorInit, ChannelInv, NoiseInv
  <2>4. DrawnInv
    BY <1>1, <2>2, LengthAssumption DEF GeneratorInit, DrawnInv, ByteIndexes
  <2>. QED BY <1>1, <2>3, <2>4, LengthAssumption DEF GeneratorInit, LineInv
<1>2. CASE CoderInit
  <2>. PICK ones \in SUBSET BitIndexes : data = StoreBoolArrayAsBytes(ones, lenData)
    BY <1>2 DEF CoderInit, Init, PackedBlocks
  <2>1. Packed(data) /\ drawn = ones /\ index = lenData
    BY <1>2, StoredIsPacked DEF CoderInit
  <2>2. ChannelInv
    BY <1>2, <2>1, LengthAssumption DEF CoderInit, Init, ChannelInv, NoiseInv
  <2>3. DrawnInv
    BY <1>2, <2>1, LengthAssumption DEF CoderInit, DrawnInv, Blocks, Bytes, BitIndexes
  <2>. QED BY <2>1, <2>2, <2>3, LengthAssumption DEF LineInv
<1>. QED BY <1>1, <1>2 DEF LineInit

LEMMA LineInvNext ==
  ASSUME LineInv, [LineNext]_lineVars
  PROVE  LineInv'
<1>1. ASSUME NEW one \in BOOLEAN, GenerateBit(one)
      PROVE  LineInv'
  <2>1. DrawnInv' /\ (index' = lenData => arr' = StoreBoolArrayAsBytes(drawn', lenData))
    BY <1>1, DrawnStep DEF LineInv
  <2>2. noisy = {} /\ i = 0 /\ UNCHANGED <<i, noisy>>
    BY <1>1 DEF GenerateBit, LineInv
  <2>3. CASE index' = lenData
    <3>1. data' = arr' /\ noisedData' = arr'
      BY <1>1, <2>3 DEF GenerateBit
    <3>2. drawn' \in SUBSET BitIndexes
      BY <2>1, <2>3 DEF DrawnInv, BitIndexes
    <3>3. Packed(arr')
      BY <2>1, <2>3, <3>2, StoredIsPacked
    <3>4. ChannelInv'
      BY <2>2, <3>1, <3>3, FreshBlock
    <3>. QED BY <2>1, <2>2, <2>3, <3>1, <3>4 DEF LineInv
  <2>4. CASE index' # lenData
    <3>1. UNCHANGED <<data, noisedData, i, noisy>>
      BY <1>1, <2>4 DEF GenerateBit
    <3>2. ChannelInv'
      BY <3>1 DEF LineInv, ChannelInv, NoiseInv, NoisyAt, Packed
    <3>. QED BY <2>1, <2>2, <2>4, <3>2 DEF LineInv
  <2>. QED BY <2>3, <2>4
<1>2. CASE Transmit
  <2>1. index = lenData /\ UNCHANGED <<arr, index, drawn>> /\ data' = data
    BY <1>2 DEF Transmit, Next, KeepBit, MakeNoise
  <2>2. DrawnInv'
    BY <2>1 DEF LineInv, DrawnInv
  <2>3. ChannelInv'
    <3>1. CASE KeepBit
      BY <3>1, LengthAssumption DEF KeepBit, LineInv, ChannelInv, NoiseInv, NoisyAt, Packed
    <3>. QED BY <1>2, <3>1, NoiseStep DEF Transmit, Next, LineInv
  <2>. QED BY <2>1, <2>2, <2>3, LengthAssumption DEF LineInv
<1>3. CASE UNCHANGED lineVars
  BY <1>3 DEF lineVars, vars, LineInv, DrawnInv, ChannelInv, NoiseInv, NoisyAt, Packed
<1>. QED BY <1>1, <1>2, <1>3 DEF LineNext

LEMMA LineInvariant ==
  LineSpec => []LineInv
<1>1. LineInit => LineInv
  BY LineInvInit
<1>2. LineInv /\ [LineNext]_lineVars => LineInv'
  BY LineInvNext
<1>. QED BY <1>1, <1>2, PTL DEF LineSpec

-----------------------------------------------------------------------------
(***************************************************************************)
(* A generated block holds the bits that were drawn, whatever its length   *)
(* and whatever the array held before.                                     *)
(***************************************************************************)
THEOREM GeneratedAsDrawn ==
  LineSpec => []BlockHoldsDrawnBits
<1>1. LineInv => BlockHoldsDrawnBits
  BY DEF LineInv, BlockHoldsDrawnBits
<1>. QED BY <1>1, LineInvariant, PTL

(***************************************************************************)
(* The padding of a block stays zero in the channel.                       *)
(***************************************************************************)
THEOREM BlocksStayPacked ==
  LineSpec => []TypeOK
<1>1. LineInv => TypeOK
  BY PackedIsStored DEF LineInv, ChannelInv, TypeOK, Sent, Arrived
<1>. QED BY <1>1, LineInvariant, PTL

(***************************************************************************)
(* Noise turns no bit into a one but those that were chosen for it.        *)
(***************************************************************************)
THEOREM NoOtherBitGained ==
  LineSpec => []GainedBitsAreNoisy
<1>1. LineInv => GainedBitsAreNoisy
  <2> SUFFICES ASSUME LineInv, NEW k \in Arrived \ Sent
               PROVE  k \in noisy
    BY DEF GainedBitsAreNoisy
  <2>1. k \in BitIndexes
    BY DEF Arrived, ConvertBitsToBoolArray, BitIndexes
  <2>2. k % BYTE_BIT_LEN \in noisedData[k \div BYTE_BIT_LEN] \ data[k \div BYTE_BIT_LEN]
    BY DEF Arrived, Sent, ConvertBitsToBoolArray
  <2>. QED BY <2>1, <2>2, BitPlaces DEF LineInv, ChannelInv, NoiseInv
<1>. QED BY <1>1, LineInvariant, PTL

(***************************************************************************)
(* A one is lost to noise at it or before it in its byte only, although    *)
(* UnsetBit clears more than its bit.                                      *)
(***************************************************************************)
THEOREM LossStaysInTheByte ==
  LineSpec => []LostBitsFollowNoise
<1>1. LineInv => LostBitsFollowNoise
  <2> SUFFICES ASSUME LineInv, NEW lost \in Sent \ Arrived
               PROVE  \E k \in noisy : /\ k =< lost
                                       /\ k \div BYTE_BIT_LEN = lost \div BYTE_BIT_LEN
    BY DEF LostBitsFollowNoise
  <2>1. lost \in BitIndexes
    BY DEF Sent, ConvertBitsToBoolArray, BitIndexes
  <2>2. lost % BYTE_BIT_LEN
          \in data[lost \div BYTE_BIT_LEN] \ noisedData[lost \div BYTE_BIT_LEN]
    BY <2>1 DEF Arrived, Sent, ConvertBitsToBoolArray, BitIndexes
  <2>3. NoisyAt(lost \div BYTE_BIT_LEN, lost % BYTE_BIT_LEN)
    BY <2>1, <2>2, BitPlaces DEF LineInv, ChannelInv, NoiseInv
  <2>. QED BY <2>1, <2>3, BitPlaces DEF NoisyAt
<1>. QED BY <1>1, LineInvariant, PTL

(***************************************************************************)
(* What the engine reads off the two blocks is right for blocks of any     *)
(* length: the bit behind the last one, which IsDataEqual compares, is     *)
(* padding or beyond the array, and ComputeBitDiff counts each bit once.   *)
(***************************************************************************)
THEOREM ComparisonsAreRight ==
  LineSpec => []ComparisonsAgree
<1>1. ASSUME LineInv
      PROVE  IsDataEqual(data, noisedData, lenData) <=> Sent = Arrived
  <2>1. Packed(data) /\ Packed(noisedData)
    BY <1>1 DEF LineInv, ChannelInv
  <2>2. ASSUME IsDataEqual(data, noisedData, lenData)
        PROVE  Sent = Arrived
    <3>1. ASSUME NEW k \in BitIndexes
          PROVE  k \in Sent <=> k \in Arrived
      <4>1. k \div BYTE_BIT_LEN < GetByteLenForDataLen(lenData) /\ k \in 0 .. lenData
        BY LengthAssumption DEF BitIndexes, GetByteLenForDataLen, BYTE_BIT_LEN
      <4>. QED BY <2>2, <4>1 DEF IsDataEqual, Sent, Arrived, ConvertBitsToBoolArray, BitIndexes
    <3>. QED BY <3>1 DEF Sent, Arrived, ConvertBitsToBoolArray, BitIndexes
  <2>3. ASSUME Sent = Arrived
        PROVE  IsDataEqual(data, noisedData, lenData)
    <3>1. data = noisedData
      BY <2>1, <2>3, PackedIsStored DEF Sent, Arrived
    <3>. QED BY <3>1 DEF IsDataEqual
  <2>. QED BY <2>2, <2>3
<1>2. ASSUME LineInv
      PROVE  ComputeBitDiff(data, noisedData, lenData)
               = Cardinality(Sent \ Arrived) + Cardinality(Arrived \ Sent)
  <2> DEFINE lost == Sent \ Arrived
             gained == Arrived \ Sent
  <2>1. ComputeBitDiff(data, noisedData, lenData) = Cardinality(lost \cup gained)
    <3>1. {k \in 0 .. lenData - 1 :
             ~ ( k % BYTE_BIT_LEN \in data[k \div BYTE_BIT_LEN]
                   <=> k % BYTE_BIT_LEN \in noisedData[k \div BYTE_BIT_LEN] )} = lost \cup gained
      BY DEF Sent, Arrived, ConvertBitsToBoolArray
    <3>. QED BY <3>1 DEF ComputeBitDiff
  <2>2. IsFiniteSet(BitIndexes) /\ lost \subseteq BitIndexes /\ gained \subseteq BitIndexes
    BY LengthAssumption, FS_Interval DEF BitIndexes, Sent, Arrived, ConvertBitsToBoolArray
  <2>3. IsFiniteSet(lost) /\ IsFiniteSet(gained)
    BY <2>2, FS_Subset
  <2>4. lost \cap gained = {}
    OBVIOUS
  <2> HIDE DEF lost, gained
  <2>5. Cardinality(lost \cup gained)
          = Cardinality(lost) + Cardinality(gained) - Cardinality(lost \cap gained)
    BY <2>3, FS_Union
  <2>6. Cardinality(lost \cap gained) = 0
    BY <2>4, FS_EmptySet
  <2>7. Cardinality(lost) \in Nat /\ Cardinality(gained) \in Nat
    BY <2>3, FS_CardinalityType
  <2>. QED BY <2>1, <2>5, <2>6, <2>7 DEF lost, gained
<1>3. LineInv => ComparisonsAgree
  BY <1>1, <1>2 DEF ComparisonsAgree
<1>. QED BY <1>3, LineInvariant, PTL

-----------------------------------------------------------------------------
\* Induction, over a set of natural numbers.
LEMMA InductiveSet ==
  ASSUME NEW S \in SUBSET Nat, 0 \in S, \A n \in S : n + 1 \in S
  PROVE  S = Nat
<1> DEFINE Less == {pair \in Nat \X Nat : pair[1] < pair[2]}
<1> SUFFICES ASSUME Nat \ S # {} PROVE FALSE
  OBVIOUS
<1>1. IsWellFoundedOn(Less, Nat)
  BY NatLessThanWellFounded DEF OpToRel
<1>2. PICK x \in Nat \ S : \A y \in Nat \ S : <<y, x>> \notin Less
  <2> HIDE DEF Less
  <2>1. Nat \ S \subseteq Nat
    OBVIOUS
  <2> QED BY <1>1, <2>1, WFMin
<1>3. x # 0 /\ x - 1 \in Nat
  OBVIOUS
<1>4. <<x - 1, x>> \in Less
  BY <1>3
<1>5. x - 1 \in S
  <2> HIDE DEF Less
  <2> QED BY <1>2, <1>3, <1>4
<1>6. (x - 1) + 1 = x
  BY <1>3
<1> QED
  BY <1>5, <1>6

(***************************************************************************)
(* CopyBitsData: the fold over the bits of a block is a loop whose state   *)
(* after each bit is that of the last bit, changed by one.                 *)
(***************************************************************************)
Order(len) == [k \in 1 .. len |-> k - 1]

Zeros(len) == [at \in 0 .. GetByteLenForDataLen(len) - 1 |-> {}]

CopyBit(newData, bits, k) == SetBitForByteData(newData, k, GetBitForByteData(bits, k))

IsCopying(iter, bits, len, S) ==
  iter = [s \in SUBSET S |->
            IF s = {} THEN Zeros(len)
            ELSE LET x == Max(s) IN CopyBit(iter[s \ {x}], bits, Order(len)[x])]

LEMMA CopyIsFold ==
  ASSUME NEW bits, NEW len
  PROVE  CopyBitsData(bits, len) =
           (CHOOSE iter : IsCopying(iter, bits, len, DOMAIN Order(len)))[DOMAIN Order(len)]
BY DEF CopyBitsData, FoldLeft, MapThenFoldSet, IsCopying, CopyBit, Order, Zeros

\* What is left of a set of bits without the last one.
LEMMA WithoutLast ==
  ASSUME NEW n \in Nat, NEW s \in SUBSET (1 .. n + 1)
  PROVE  s \ {Max(s)} \in SUBSET (1 .. n)
<1>1. CASE n + 1 \in s
  <2>1. \A x \in s : (\A y \in s : x >= y) <=> x = n + 1
    BY <1>1
  <2>2. Max(s) = n + 1
    BY <1>1, <2>1 DEF Max
  <2> QED BY <2>2
<1>2. CASE n + 1 \notin s
  <2>1. \A x \in s : x \in 1 .. n + 1 /\ x # n + 1
    BY <1>2
  <2>2. \A x \in s : x \in 1 .. n
    BY <2>1
  <2> QED BY <2>2
<1> QED BY <1>1, <1>2

LEMMA CopyingExists ==
  ASSUME NEW bits, NEW len, NEW n \in Nat
  PROVE  \E iter : IsCopying(iter, bits, len, 1 .. n)
<1> DEFINE S == {k \in Nat : \E iter : IsCopying(iter, bits, len, 1 .. k)}
<1>1. 0 \in S
  <2> DEFINE iter == [s \in SUBSET (1 .. 0) |-> Zeros(len)]
  <2>1. \A s \in SUBSET (1 .. 0) : s = {}
    OBVIOUS
  <2>2. IsCopying(iter, bits, len, 1 .. 0)
    BY <2>1 DEF IsCopying
  <2> QED BY <2>2
<1>2. ASSUME NEW k \in S PROVE k + 1 \in S
  <2>1. PICK h : IsCopying(h, bits, len, 1 .. k)
    OBVIOUS
  <2> DEFINE Body(f, s) ==
        IF s = {} THEN Zeros(len) ELSE CopyBit(f[s \ {Max(s)}], bits, Order(len)[Max(s)])
             g == [s \in SUBSET (1 .. k + 1) |-> Body(h, s)]
  <2>2. \A s \in SUBSET (1 .. k) : h[s] = Body(h, s)
    BY <2>1 DEF IsCopying
  <2>3. k \in Nat /\ \A s \in SUBSET (1 .. k) : s \in SUBSET (1 .. k + 1)
    OBVIOUS
  <2>4. \A s \in SUBSET (1 .. k) : g[s] = h[s]
    BY <2>2, <2>3
  <2>5. \A s \in SUBSET (1 .. k + 1) : s \ {Max(s)} \in SUBSET (1 .. k)
    BY <2>3, WithoutLast
  <2>6. \A s \in SUBSET (1 .. k + 1) : Body(h, s) = Body(g, s)
    BY <2>4, <2>5
  <2>7. g = [s \in SUBSET (1 .. k + 1) |-> Body(g, s)]
    <3> HIDE DEF Body
    <3> QED BY <2>6
  <2>8. IsCopying(g, bits, len, 1 .. k + 1)
    <3> HIDE DEF g
    <3> QED BY <2>7 DEF IsCopying
  <2> QED BY <2>3, <2>8
<1>3. S = Nat
  <2> HIDE DEF S
  <2>1. S \in SUBSET Nat
    BY DEF S
  <2> QED BY <1>1, <1>2, <2>1, InductiveSet
<1> QED BY <1>3

\* The state of the loop after each bit.
LEMMA CopyLoop ==
  ASSUME NEW bits, NEW len \in Nat
  PROVE  \E state :
           /\ state[0] = Zeros(len)
           /\ \A k \in 0 .. len - 1 : state[k + 1] = CopyBit(state[k], bits, k)
           /\ CopyBitsData(bits, len) = state[len]
<1>1. DOMAIN Order(len) = 1 .. len
  BY DEF Order
<1>2. PICK iter : /\ IsCopying(iter, bits, len, 1 .. len)
                  /\ CopyBitsData(bits, len) = iter[1 .. len]
  BY <1>1, CopyIsFold, CopyingExists
<1> DEFINE state == [k \in 0 .. len |-> iter[1 .. k]]
<1>3. state[0] = Zeros(len)
  <2>1. 1 .. 0 = {} /\ 1 .. 0 \in SUBSET (1 .. len)
    OBVIOUS
  <2> QED BY <1>2, <2>1 DEF IsCopying
<1>4. ASSUME NEW k \in 0 .. len - 1
      PROVE  state[k + 1] = CopyBit(state[k], bits, k)
  <2> DEFINE s == 1 .. k + 1
  <2>1. s \in SUBSET (1 .. len) /\ s # {} /\ s \ {k + 1} = 1 .. k
    <3>1. k \in Nat /\ k + 1 \in s /\ \A x \in s : x \in 1 .. len
      OBVIOUS
    <3>2. \A x : x \in s \ {k + 1} <=> x \in 1 .. k
      BY <3>1
    <3> QED BY <3>1, <3>2
  <2>2. Max(s) = k + 1
    <3>1. \A x \in s : (\A y \in s : x >= y) <=> x = k + 1
      OBVIOUS
    <3>2. k + 1 \in s
      OBVIOUS
    <3> HIDE DEF s
    <3> QED BY <3>1, <3>2 DEF Max
  <2>3. Order(len)[k + 1] = k
    BY DEF Order
  <2>4. iter[s] = CopyBit(iter[1 .. k], bits, k)
    <3> HIDE DEF s
    <3> QED BY <1>2, <2>1, <2>2, <2>3 DEF IsCopying
  <2> QED BY <2>4
<1>5. CopyBitsData(bits, len) = state[len]
  BY <1>2
<1> HIDE DEF state
<1> QED BY <1>3, <1>4, <1>5

\* So far nothing has been set that is not in the block, and nothing was lost but
\* last bits of bytes.
CopiedUpTo(copy, bits, k) ==
  /\ copy \in Blocks
  /\ \A at \in ByteIndexes : copy[at] \subseteq bits[at]
  /\ \A j \in 0 .. k - 1 :
       (j % BYTE_BIT_LEN # 7 /\ j % BYTE_BIT_LEN \in bits[j \div BYTE_BIT_LEN])
         => j % BYTE_BIT_LEN \in copy[j \div BYTE_BIT_LEN]

LEMMA CopyBitStep ==
  ASSUME NEW bits \in Blocks, NEW k \in BitIndexes, NEW copy, CopiedUpTo(copy, bits, k)
  PROVE  CopiedUpTo(CopyBit(copy, bits, k), bits, k + 1)
<1> DEFINE own == ByteOfBit(k)
           pos == k % BYTE_BIT_LEN
           new == CopyBit(copy, bits, k)
<1>1. k \in Nat /\ pos \in Positions /\ k < lenData
  BY LengthAssumption DEF BitIndexes, Positions, BYTE_BIT_LEN
<1>2. pos # 7 => own = k \div BYTE_BIT_LEN /\ own \in ByteIndexes
  BY <1>1, BitPlaces DEF ByteOfBit, BYTE_BIT_LEN
<1>3. \A j \in 0 .. k - 1 : (pos # 7 /\ j \div BYTE_BIT_LEN = own) => j % BYTE_BIT_LEN < pos
  BY <1>1, <1>2 DEF BYTE_BIT_LEN
<1>4. \A j \in 0 .. k - 1 : j % BYTE_BIT_LEN \in Positions /\ j \div BYTE_BIT_LEN \in ByteIndexes
  <2>1. \A j \in 0 .. k - 1 : j \in BitIndexes
    BY <1>1, LengthAssumption DEF BitIndexes
  <2> QED BY <2>1, BitPlaces
<1>5. copy \in Blocks /\ new = [copy EXCEPT ![own] = SetBitValue(@, pos, pos \in bits[own])]
  BY DEF CopiedUpTo, CopyBit, SetBitForByteData, GetBitForByteData
<1> HIDE DEF pos, new, own
<1>6. CASE own \notin ByteIndexes
  <2>1. new = copy /\ pos = 7
    BY <1>2, <1>5, <1>6 DEF Blocks
  <2>2. \A j \in 0 .. k : j % BYTE_BIT_LEN # 7 => j \in 0 .. k - 1
    BY <1>1, <2>1 DEF pos
  <2> QED BY <1>1, <2>1, <2>2 DEF CopiedUpTo, new
<1>7. CASE own \in ByteIndexes
  <2>1. copy[own] \subseteq Positions /\ copy[own] \subseteq bits[own]
    BY <1>7 DEF CopiedUpTo, Blocks, Bytes, Positions
  <2>2. /\ new[own] = SetBitValue(copy[own], pos, pos \in bits[own])
        /\ \A at \in ByteIndexes \ {own} : new[at] = copy[at]
        /\ DOMAIN new = ByteIndexes
    BY <1>5, <1>7 DEF Blocks
  <2>3. new[own] \subseteq Positions /\ new[own] \subseteq bits[own]
    BY <1>1, <2>1, <2>2 DEF SetBitValue, SetBit, UnsetBit
  <2>4. pos \in bits[own] => pos \in new[own]
    BY <2>2 DEF SetBitValue, SetBit
  <2>5. ASSUME NEW other \in copy[own], other < pos \/ (pos = 7 /\ other # 7)
        PROVE  other \in new[own]
    BY <1>1, <2>1, <2>2, <2>5 DEF SetBitValue, SetBit, UnsetBit, BYTE_BIT_LEN, Positions
  <2>6. new \in Blocks
    <3>1. \A at \in ByteIndexes : new[at] \in Bytes
      BY <1>5, <2>2, <2>3 DEF Blocks, Bytes, Positions
    <3>2. new = [at \in ByteIndexes |-> new[at]]
      BY <1>5 DEF Blocks
    <3> QED BY <3>1, <3>2 DEF Blocks
  <2>7. \A at \in ByteIndexes : new[at] \subseteq bits[at]
    BY <2>2, <2>3 DEF CopiedUpTo
  <2>8. ASSUME NEW j \in 0 .. k, j % BYTE_BIT_LEN # 7,
               j % BYTE_BIT_LEN \in bits[j \div BYTE_BIT_LEN]
        PROVE  j % BYTE_BIT_LEN \in new[j \div BYTE_BIT_LEN]
    <3>1. CASE j = k
      BY <1>2, <2>4, <2>8, <3>1 DEF pos
    <3>2. CASE j # k
      <4>1. j \in 0 .. k - 1
        BY <1>1, <3>2
      <4>2. j % BYTE_BIT_LEN \in copy[j \div BYTE_BIT_LEN]
        BY <2>8, <4>1 DEF CopiedUpTo
      <4>3. CASE j \div BYTE_BIT_LEN = own
        <5>1. j % BYTE_BIT_LEN < pos \/ pos = 7
          BY <1>3, <4>1, <4>3
        <5> QED BY <2>5, <2>8, <4>2, <4>3, <5>1
      <4>4. CASE j \div BYTE_BIT_LEN # own
        BY <1>4, <2>2, <4>1, <4>2, <4>4
      <4> QED BY <4>3, <4>4
    <3> QED BY <3>1, <3>2
  <2>9. 0 .. (k + 1) - 1 = 0 .. k
    BY <1>1
  <2> QED BY <2>6, <2>7, <2>8, <2>9 DEF CopiedUpTo, new
<1> QED BY <1>6, <1>7

LEMMA CopyOutcome ==
  ASSUME NEW bits \in Blocks
  PROVE  CopiedUpTo(CopyBitsData(bits, lenData), bits, lenData)
<1>0. lenData \in Nat
  BY LengthAssumption
<1>1. PICK state :
        /\ state[0] = Zeros(lenData)
        /\ \A k \in 0 .. lenData - 1 : state[k + 1] = CopyBit(state[k], bits, k)
        /\ CopyBitsData(bits, lenData) = state[lenData]
  BY <1>0, CopyLoop
<1> DEFINE S == {k \in Nat : k =< lenData => CopiedUpTo(state[k], bits, k)}
<1>2. 0 \in S
  <2>1. Zeros(lenData) \in Blocks /\ \A at \in ByteIndexes : Zeros(lenData)[at] = {}
    BY DEF Zeros, Blocks, Bytes, ByteIndexes
  <2>2. \A j \in 0 .. 0 - 1 : FALSE
    OBVIOUS
  <2> QED BY <1>1, <2>1, <2>2 DEF CopiedUpTo
<1>3. ASSUME NEW k \in S PROVE k + 1 \in S
  <2>1. k \in Nat
    OBVIOUS
  <2> SUFFICES ASSUME k + 1 =< lenData PROVE CopiedUpTo(state[k + 1], bits, k + 1)
    BY <2>1
  <2>2. k \in BitIndexes /\ k =< lenData /\ k \in 0 .. lenData - 1
    BY <1>0, <2>1 DEF BitIndexes
  <2>3. CopiedUpTo(state[k], bits, k) /\ state[k + 1] = CopyBit(state[k], bits, k)
    BY <1>1, <2>2
  <2> QED BY <2>2, <2>3, CopyBitStep
<1>4. S = Nat
  <2> HIDE DEF S
  <2>1. S \in SUBSET Nat
    BY DEF S
  <2> QED BY <1>2, <1>3, <2>1, InductiveSet
<1> QED BY <1>0, <1>1, <1>4

(***************************************************************************)
(* CopyBitsData, of blocks of any length, loses nothing but bits that are  *)
(* the last of a byte, and makes no bit up: what it writes to the next     *)
(* byte instead is a bit of that byte.                                     *)
(***************************************************************************)
THEOREM OnlyLastBitsAreLost ==
  LineSpec => []CopyLosesLastBitsOnly
<1>1. LineInv => CopyLosesLastBitsOnly
  <2> SUFFICES ASSUME LineInv PROVE CopyLosesLastBitsOnly
    OBVIOUS
  <2> DEFINE copy == CopyBitsData(data, lenData)
  <2>1. data \in Blocks
    BY DEF LineInv, ChannelInv, Packed
  <2>2. CopiedUpTo(copy, data, lenData)
    BY <2>1, CopyOutcome
  <2> HIDE DEF copy
  <2>3. ASSUME NEW k \in BitIndexes
        PROVE  /\ k % BYTE_BIT_LEN \in copy[k \div BYTE_BIT_LEN]
                    => k % BYTE_BIT_LEN \in data[k \div BYTE_BIT_LEN]
               /\ ( /\ (k + 1) % BYTE_BIT_LEN # 0
                    /\ k % BYTE_BIT_LEN \in data[k \div BYTE_BIT_LEN] )
                    => k % BYTE_BIT_LEN \in copy[k \div BYTE_BIT_LEN]
    <3>1. k \div BYTE_BIT_LEN \in ByteIndexes
      BY BitPlaces
    <3>2. (k + 1) % BYTE_BIT_LEN # 0 => k % BYTE_BIT_LEN # 7
      BY LengthAssumption DEF BitIndexes, BYTE_BIT_LEN
    <3> QED BY <2>2, <3>1, <3>2 DEF CopiedUpTo, BitIndexes
  <2> QED
    BY <2>3 DEF CopyLosesLastBitsOnly, ConvertBitsToBoolArray, Sent, BitIndexes, copy
<1> QED BY <1>1, LineInvariant, PTL

=============================================================================
