-------------------------------- MODULE UncodedLine --------------------------------
(***************************************************************************)
(* The life of a block that ModelingEngine sends: it comes from a          *)
(* RandomDataBlockGenerator (core_library/RandomDataBlockGenerator.cpp), or *)
(* packed from a coder, and passes the channel.  The generator draws the   *)
(* block bit by bit in an array that it does not initialise beforehand.    *)
(* What it writes behind the array (arr[index] for every bit index of the  *)
(* block) is no part of the model.                                         *)
(***************************************************************************)
EXTENDS BinarySymmetricChannel

CONSTANT Garbage      \* bound: what an array that is not initialised may hold

ASSUME GarbageAssumption == Garbage \in SUBSET Bytes

VARIABLES
  arr,        \* the array of GenerateBlock, while it is drawn
  index,      \* the next bit to draw; lenData when the block is complete
  drawn       \* history: the bits that were drawn as ones

lineVars == <<vars, arr, index, drawn>>

ByteIndexes == 0 .. GetByteLenForDataLen(lenData) - 1

\* The channel waits for the block.
GeneratorInit ==
  /\ arr \in [ByteIndexes -> Garbage]
  /\ index = 0
  /\ drawn = {}
  /\ data = [at \in ByteIndexes |-> {}]
  /\ noisedData = data
  /\ i = 0
  /\ noisy = {}

\* A coder has packed the block.
CoderInit ==
  /\ Init
  /\ arr = [at \in ByteIndexes |-> {}]
  /\ index = lenData
  /\ drawn = ConvertBitsToBoolArray(data, lenData)

\* Mutant: the bit is inverted in what the array happens to hold.
DrawnUncleared(one) ==
  IF one THEN InvertBitInByteData(arr, index) ELSE arr

\* arr[index] = 0x00, and the bit is inverted if the random number asks for a one.
Drawn(one) ==
  LET cleared == IF index \in ByteIndexes THEN [arr EXCEPT ![index] = {}] ELSE arr
  IN  IF one THEN InvertBitInByteData(cleared, index) ELSE cleared

\* After the last bit the engine hands the block to the channel, which copies it.
GenerateBit(one) ==
  /\ index < lenData
  /\ arr' = Drawn(one)
  /\ index' = index + 1
  /\ drawn' = IF one THEN drawn \cup {index} ELSE drawn
  /\ IF index' = lenData
     THEN data' = arr' /\ noisedData' = arr'
     ELSE UNCHANGED <<data, noisedData>>
  /\ UNCHANGED <<i, noisy>>

Transmit ==
  /\ index = lenData
  /\ Next
  /\ UNCHANGED <<arr, index, drawn>>

LineInit == GeneratorInit \/ CoderInit

LineNext ==
  \/ \E one \in BOOLEAN : GenerateBit(one)
  \/ Transmit

LineSpec == LineInit /\ [][LineNext]_lineVars

-----------------------------------------------------------------------------
(***************************************************************************)
(* A generated block holds the bits that were drawn and nothing of what    *)
(* the array held before: each byte is cleared early enough, and none is   *)
(* cleared again once a bit of it has been drawn.                          *)
(***************************************************************************)
BlockHoldsDrawnBits ==
  index = lenData => data = StoreBoolArrayAsBytes(drawn, lenData)

(***************************************************************************)
(* CopyBitsData, with which the channel of the tests copies a block, is    *)
(* right for every bit but the last one of a byte, which it looks for in   *)
(* the next byte.                                                          *)
(***************************************************************************)
CopyLosesLastBitsOnly ==
  (index = lenData /\ i = 0) =>
    LET copied == ConvertBitsToBoolArray(CopyBitsData(data, lenData), lenData)
    IN  /\ copied \subseteq Sent
        /\ \A lost \in Sent \ copied : (lost + 1) % BYTE_BIT_LEN = 0

=============================================================================
