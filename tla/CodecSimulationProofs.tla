--------------------------- MODULE CodecSimulationProofs ---------------------------
(***************************************************************************)
(* Proofs about ModelingEngine, for every size of the blocks, latency and  *)
(* limit of errors and any number of simulations one after the other; and  *)
(* about CodecSimulation, for every code, latency and noise.               *)
(*                                                                         *)
(* The properties of the engine speak of the time between two iterations.  *)
(* The invariant says what holds in the middle of one as well: the new     *)
(* item makes the queue longer by one until the decoder has been called.   *)
(*                                                                         *)
(* The composition takes the steps of the engine with the coder's calls in *)
(* between, so that the engine's invariant holds for it as well; what is   *)
(* added for it relates the engine's queue to the coder's registers and to *)
(* the blocks of bytes that are allocated, and what the simulation counts  *)
(* to the errors on the line.                                              *)
(***************************************************************************)
EXTENDS CodecSimulation, CoderRegistriesProofs, SequenceTheorems

QueueItems == [source : Blocks, noiseExists : BOOLEAN]

AsLateAsDecoder ==
  Len(queue) =
    (IF counter < DecoderTactsLatency THEN counter ELSE DecoderTactsLatency)
      + (IF BetweenIterations THEN 0 ELSE 1)

\* A simulation that has enough errors is over; its iterations are among those
\* of the engine.
SimulationRuns ==
  /\ stage # "idle" => mCounter < limitErrors
  /\ loopCounter =< counter

BlocksFit ==
  /\ loopCounter < MaxCount =>
       v = IF loopCounter < DecoderTactsLatency THEN 0
           ELSE loopCounter - DecoderTactsLatency
  /\ v < MaxCount => failsCounter =< v
  /\ mCounter = volume + failsCounter

BitsFit ==
  /\ failsCounter =< bitFailsCounter
  /\ bitFailsCounter =< failsCounter * Cardinality(Bits)
  /\ bitErrorCounter = bitFailsCounter

\* Without a coder: the noise on the block that is about to be counted is one
\* that noiseCounter has already.
NoiseFits ==
  ~ useCoder =>
    /\ stage = "transmit" => ~ Head(queue).noiseExists
    /\ (v = counter /\ counter < MaxCount) =>
         noiseCounter =
           failsCounter + (IF stage = "decode" /\ Head(queue).noiseExists THEN 1 ELSE 0)

IInv ==
  /\ TypeOK
  /\ AsLateAsDecoder
  /\ SimulationRuns
  /\ BlocksFit
  /\ BitsFit
  /\ NoiseFits

-----------------------------------------------------------------------------
LEMMA CountedType ==
  ASSUME NEW n \in 0 .. MaxCount
  PROVE  /\ Counted(n) \in 0 .. MaxCount
         /\ n < MaxCount => Counted(n) = n + 1
         /\ Counted(n) >= n
         /\ Counted(n) < MaxCount => Counted(n) = n + 1
         /\ Counted(n) = MaxCount \/ Counted(n) = n + 1
BY EngineAssumption DEF Counted

LEMMA LatencyType ==
  DecoderTactsLatency \in Nat /\ DecoderTactsLatency < MaxCount
BY EngineAssumption DEF DecoderTactsLatency

\* The bits of a block that are in error: as many as 0 to all of them.
LEMMA BitsInError ==
  ASSUME NEW left \in Blocks, NEW right \in Blocks
  PROVE  /\ Cardinality(SymDiff(left, right)) \in 0 .. Cardinality(Bits)
         /\ Cardinality(SymDiff(left, right)) = 0 <=> left = right
<1>1. SymDiff(left, right) \in SUBSET Bits
  BY DEF Blocks, SymDiff
<1>2. IsFiniteSet(SymDiff(left, right))
  BY <1>1, EngineAssumption, FS_Subset
<1>3. Cardinality(SymDiff(left, right)) =< Cardinality(Bits)
  BY <1>1, EngineAssumption, FS_Subset
<1>4. Cardinality(SymDiff(left, right)) \in Nat /\ Cardinality(Bits) \in Nat
  BY <1>2, EngineAssumption, FS_CardinalityType
<1>5. SymDiff(left, right) = {} <=> left = right
  BY DEF SymDiff
<1> QED
  BY <1>2, <1>3, <1>4, <1>5, FS_EmptySet

LEMMA OneMoreBlock ==
  ASSUME NEW fails \in Nat, NEW bits \in Nat
  PROVE  (fails + 1) * bits = fails * bits + bits /\ fails * bits \in Nat
OBVIOUS

LEMMA Monotone ==
  ASSUME NEW few \in Nat, NEW many \in Nat, NEW bits \in Nat, few =< many
  PROVE  few * bits =< many * bits
<1>1. PICK more \in Nat : many = few + more
  <2>1. many - few \in Nat /\ many = few + (many - few)
    OBVIOUS
  <2>. QED BY <2>1
<1>2. many * bits = few * bits + more * bits
  BY <1>1
<1>. QED BY <1>2

-----------------------------------------------------------------------------
LEMMA IInvInit == Init => IInv
<1> SUFFICES ASSUME Init PROVE IInv
  OBVIOUS
<1>1. Cardinality(Bits) \in Nat
  BY EngineAssumption, FS_CardinalityType
<1>2. TypeOK
  <2>1. item \in [bitDiffCount : -1 .. Cardinality(Bits)]
    BY <1>1 DEF Init, NoItem
  <2>2. queue \in Seq(QueueItems)
    BY DEF Init
  <2> QED
    BY <2>1, <2>2, EngineAssumption DEF Init, TypeOK, QueueItems
<1>3. AsLateAsDecoder /\ SimulationRuns
  BY LatencyType DEF Init, AsLateAsDecoder, SimulationRuns, BetweenIterations
<1>4. BlocksFit /\ BitsFit /\ NoiseFits
  BY <1>1, LatencyType, EngineAssumption DEF Init, BlocksFit, BitsFit, NoiseFits
<1> QED
  BY <1>2, <1>3, <1>4 DEF IInv

LEMMA SimulateTotalKeeps ==
  IInv /\ SimulateTotal => IInv'
<1> SUFFICES ASSUME IInv, SimulateTotal PROVE IInv'
  OBVIOUS
<1>1. Cardinality(Bits) \in Nat
  BY EngineAssumption, FS_CardinalityType
<1>2. TypeOK'
  BY EngineAssumption DEF IInv, TypeOK, SimulateTotal
<1>3. AsLateAsDecoder'
  BY DEF IInv, AsLateAsDecoder, SimulateTotal, BetweenIterations, DecoderTactsLatency
<1>4. SimulationRuns'
  BY EngineAssumption DEF IInv, TypeOK, SimulationRuns, SimulateTotal
<1>5. BlocksFit' /\ BitsFit'
  <2>1. DecoderTactsLatency' = DecoderTactsLatency
    BY DEF SimulateTotal, DecoderTactsLatency
  <2>2. 0 * Cardinality(Bits) = 0
    BY <1>1
  <2>3. BlocksFit'
    BY <2>1, LatencyType, EngineAssumption DEF BlocksFit, SimulateTotal
  <2>4. BitsFit'
    BY <2>2 DEF BitsFit, SimulateTotal
  <2> QED
    BY <2>3, <2>4
<1>6. NoiseFits'
  <2>1. counter = 0 => v = 0 /\ failsCounter = 0
    BY LatencyType, EngineAssumption DEF IInv, TypeOK, SimulationRuns, BlocksFit
  <2> QED
    BY <2>1, EngineAssumption DEF IInv, TypeOK, NoiseFits, SimulateTotal
<1> QED
  BY <1>2, <1>3, <1>4, <1>5, <1>6 DEF IInv

LEMMA EncodeBlockKeeps ==
  ASSUME NEW source \in Blocks
  PROVE  IInv /\ EncodeBlock(source) => IInv'
<1> SUFFICES ASSUME IInv, EncodeBlock(source) PROVE IInv'
  OBVIOUS
<1> DEFINE new == [source |-> source, noiseExists |-> FALSE]
<1>1. new \in QueueItems /\ queue \in Seq(QueueItems) /\ queue' = Append(queue, new)
  BY DEF QueueItems, IInv, TypeOK, EncodeBlock
<1>2. queue' \in Seq(QueueItems) /\ Len(queue') = Len(queue) + 1
  <2> HIDE DEF new
  <2> QED BY <1>1, AppendProperties
<1>3. TypeOK'
  BY <1>2 DEF IInv, TypeOK, EncodeBlock, QueueItems, totals
<1>4. AsLateAsDecoder'
  BY <1>2, LatencyType
  DEF IInv, TypeOK, AsLateAsDecoder, EncodeBlock, BetweenIterations, DecoderTactsLatency
<1>5. SimulationRuns' /\ BlocksFit' /\ BitsFit'
  BY DEF IInv, SimulationRuns, BlocksFit, BitsFit, EncodeBlock, totals, DecoderTactsLatency
<1>6. NoiseFits'
  <2>1. ASSUME ~ useCoder PROVE ~ Head(queue').noiseExists
    <3>1. Len(queue) = 0
      BY <2>1 DEF IInv, TypeOK, AsLateAsDecoder, EncodeBlock, BetweenIterations,
                  DecoderTactsLatency
    <3>2. queue'[1] = new
      <4> HIDE DEF new
      <4> QED BY <1>1, <3>1, AppendProperties
    <3>3. Head(queue') = queue'[1]
      BY <1>2, <3>1
    <3>4. new.noiseExists = FALSE
      OBVIOUS
    <3> HIDE DEF new
    <3> QED
      BY <3>2, <3>3, <3>4
  <2> QED
    BY <2>1 DEF IInv, NoiseFits, EncodeBlock, totals
<1> QED
  BY <1>3, <1>4, <1>5, <1>6 DEF IInv

LEMMA TransmitBlockKeeps ==
  ASSUME NEW equal \in BOOLEAN
  PROVE  IInv /\ TransmitBlock(equal) => IInv'
<1> SUFFICES ASSUME IInv, TransmitBlock(equal) PROVE IInv'
  OBVIOUS
<1>0. queue \in Seq(QueueItems) /\ Len(queue) \in Nat /\ Len(queue) > 0
  <2>1. queue \in Seq(QueueItems)
    BY DEF IInv, TypeOK, QueueItems
  <2>2. Len(queue) \in Nat
    BY <2>1
  <2>3. counter \in Nat /\ ~ BetweenIterations
    BY EngineAssumption DEF IInv, TypeOK, TransmitBlock, BetweenIterations
  <2>4. Len(queue) = (IF counter < DecoderTactsLatency THEN counter
                      ELSE DecoderTactsLatency) + 1
    BY <2>3 DEF IInv, AsLateAsDecoder
  <2> QED
    BY <2>1, <2>2, <2>3, <2>4, LatencyType
<1> DEFINE noisy == [queue[Len(queue)] EXCEPT !.noiseExists = TRUE]
<1>1. noisy \in QueueItems /\ noisy.noiseExists
  <2>1. queue[Len(queue)] \in QueueItems
    BY <1>0, ElementOfSeq
  <2> QED
    BY <2>1 DEF QueueItems
<1>2. ~ equal => queue' = [queue EXCEPT ![Len(queue)] = noisy]
  BY DEF TransmitBlock
<1>3. queue' \in Seq(QueueItems) /\ Len(queue') = Len(queue)
  <2>1. CASE equal
    BY <1>0, <2>1 DEF TransmitBlock
  <2>2. CASE ~ equal
    <3> HIDE DEF noisy
    <3> QED BY <1>0, <1>1, <1>2, <2>2, ExceptSeq
  <2> QED
    BY <2>1, <2>2
<1>4. noiseCounter' \in 0 .. MaxCount
  BY CountedType DEF IInv, TypeOK, TransmitBlock
<1>5. TypeOK'
  BY <1>3, <1>4 DEF IInv, TypeOK, TransmitBlock, QueueItems, totals
<1>6. AsLateAsDecoder'
  BY <1>3 DEF IInv, AsLateAsDecoder, TransmitBlock, BetweenIterations, DecoderTactsLatency
<1>7. SimulationRuns' /\ BlocksFit' /\ BitsFit'
  BY DEF IInv, SimulationRuns, BlocksFit, BitsFit, TransmitBlock, totals, DecoderTactsLatency
<1>8. NoiseFits'
  <2> SUFFICES ASSUME ~ useCoder,
                      v = counter, counter < MaxCount
               PROVE  noiseCounter' =
                        failsCounter + (IF Head(queue').noiseExists THEN 1 ELSE 0)
    BY DEF NoiseFits, TransmitBlock, totals
  <2>1. noiseCounter = failsCounter /\ ~ Head(queue).noiseExists
    BY DEF IInv, TypeOK, NoiseFits, TransmitBlock
  <2>2. CASE equal
    BY <2>1, <2>2 DEF TransmitBlock, IInv, TypeOK
  <2>3. CASE ~ equal
    <3>1. Len(queue) = 1
      BY DEF IInv, TypeOK, AsLateAsDecoder, TransmitBlock, BetweenIterations,
             DecoderTactsLatency
    <3>2. Head(queue').noiseExists
      <4>1. queue'[1] = noisy
        <5> HIDE DEF noisy
        <5> QED BY <1>0, <1>1, <1>2, <2>3, <3>1, ExceptSeq
      <4> HIDE DEF noisy
      <4> QED BY <1>1, <1>3, <3>1, <4>1
    <3>3. noiseCounter < MaxCount
      BY <2>1, EngineAssumption DEF IInv, TypeOK, BlocksFit
    <3>4. noiseCounter' = noiseCounter + 1
      BY <2>3, <3>3, CountedType DEF IInv, TypeOK, TransmitBlock
    <3> QED
      BY <2>1, <3>2, <3>4
  <2> QED
    BY <2>2, <2>3
<1> QED
  BY <1>5, <1>6, <1>7, <1>8 DEF IInv

-----------------------------------------------------------------------------
\* What an iteration takes out of the queue: once the decoder is not late any
\* more, the oldest item, with the number of its bits in error.
LEMMA DecodeTakesItem ==
  ASSUME NEW destData \in Blocks, IInv, DecodeBlock(destData)
  PROVE  /\ queue' \in Seq(QueueItems)
         /\ Len(queue') = IF counter' < DecoderTactsLatency THEN counter'
                          ELSE DecoderTactsLatency
         /\ IF LatencyIsOver
            THEN /\ item' # NoItem
                 /\ item'.bitDiffCount \in 0 .. Cardinality(Bits)
                 /\ item' \in [bitDiffCount : 0 .. Cardinality(Bits)]
                 /\ item'.bitDiffCount = 0 <=> Head(queue).source = destData
            ELSE item' = NoItem
<1>1. queue \in Seq(QueueItems) /\ counter \in 0 .. MaxCount
  BY DEF IInv, TypeOK, QueueItems
<1>2. Len(queue) \in Nat
  BY <1>1
<1>3. Len(queue) = (IF counter < DecoderTactsLatency THEN counter
                    ELSE DecoderTactsLatency) + 1
  BY DEF IInv, AsLateAsDecoder, DecodeBlock, BetweenIterations
<1>4. counter' = Counted(counter)
  BY DEF DecodeBlock
<1>5. CASE LatencyIsOver
  <2>1. Dequeue(destData)
    BY <1>5 DEF DecodeBlock, Discard
  <2>2. queue # <<>>
    BY <1>1, <1>2, <1>3, LatencyType
  <2>3. Head(queue) \in QueueItems /\ Tail(queue) \in Seq(QueueItems)
        /\ Len(Tail(queue)) = Len(queue) - 1
    BY <1>1, <2>2, HeadTailProperties
  <2>4. counter >= DecoderTactsLatency /\ counter' >= counter
    BY <1>1, <1>4, <1>5, CountedType DEF LatencyIsOver
  <2>5. Len(queue') = IF counter' < DecoderTactsLatency THEN counter'
                      ELSE DecoderTactsLatency
    <3>1. counter' \in 0 .. MaxCount
      BY <1>1, <1>4, CountedType
    <3> QED
      BY <1>1, <1>3, <2>1, <2>3, <2>4, <3>1, LatencyType, EngineAssumption DEF Dequeue
  <2>6. Head(queue).source \in Blocks
    BY <2>3 DEF QueueItems
  <2> DEFINE diff == Cardinality(SymDiff(Head(queue).source, destData))
  <2>7. diff \in 0 .. Cardinality(Bits)
        /\ (diff = 0 <=> Head(queue).source = destData)
    BY <2>6, BitsInError
  <2>8. item' = [bitDiffCount |-> diff] /\ queue' = Tail(queue)
    BY <2>1 DEF Dequeue
  <2>9. diff # -1
    <3>1. Cardinality(Bits) \in Nat
      BY EngineAssumption, FS_CardinalityType
    <3> HIDE DEF diff
    <3> QED BY <2>7, <3>1
  <2> HIDE DEF diff
  <2>10. item'.bitDiffCount = diff
         /\ item' \in [bitDiffCount : 0 .. Cardinality(Bits)]
    BY <2>7, <2>8
  <2>11. item' # NoItem
    BY <2>9, <2>10 DEF NoItem
  <2> QED
    BY <1>5, <2>3, <2>5, <2>7, <2>8, <2>10, <2>11
<1>6. CASE ~ LatencyIsOver
  <2>1. Discard
    BY <1>6 DEF DecodeBlock, Dequeue
  <2>2. counter < DecoderTactsLatency
    BY <1>1, <1>6, LatencyType, EngineAssumption DEF LatencyIsOver
  <2>3. counter' = counter + 1
    BY <1>1, <1>4, <2>2, CountedType, LatencyType, EngineAssumption
  <2> QED
    BY <1>1, <1>2, <1>3, <1>6, <2>1, <2>2, <2>3, LatencyType, EngineAssumption
    DEF Discard
<1> QED
  BY <1>5, <1>6

\* What SimulateTotal makes of it.
LEMMA DecodeCounts ==
  ASSUME NEW destData \in Blocks, IInv, DecodeBlock(destData)
  PROVE  /\ mCounter' \in {volume} \cup volume .. limitErrors
         /\ failsCounter' \in Nat /\ bitFailsCounter' \in Nat
         /\ bitErrorCounter' \in Nat /\ v' \in 0 .. MaxCount
         /\ loopCounter' \in 0 .. MaxCount
         /\ BlocksFit'
         /\ BitsFit'
<1>1. Cardinality(Bits) \in Nat
  BY EngineAssumption, FS_CardinalityType
<1>2. /\ mCounter \in {volume} \cup volume .. limitErrors /\ mCounter < limitErrors
      /\ failsCounter \in Nat /\ bitFailsCounter \in Nat /\ bitErrorCounter \in Nat
      /\ v \in 0 .. MaxCount /\ loopCounter \in 0 .. MaxCount
      /\ counter \in 0 .. MaxCount /\ loopCounter =< counter
  BY DEF IInv, TypeOK, SimulationRuns, DecodeBlock
<1>3. loopCounter' = Counted(loopCounter) /\ CountItem(item')
      /\ DecoderTactsLatency' = DecoderTactsLatency
  BY DEF DecodeBlock, DecoderTactsLatency
<1>4. loopCounter' \in 0 .. MaxCount
      /\ (loopCounter' < MaxCount =>
            loopCounter < MaxCount /\ loopCounter' = loopCounter + 1)
  BY <1>2, <1>3, CountedType, EngineAssumption
<1>5. BlocksFit /\ BitsFit
  BY DEF IInv
<1>6. CASE loopCounter >= DecoderTactsLatency
  <2>1. LatencyIsOver
    BY <1>2, <1>6, LatencyType, EngineAssumption DEF LatencyIsOver
  <2>2. item' # NoItem /\ item'.bitDiffCount \in 0 .. Cardinality(Bits)
    BY <2>1, DecodeTakesItem
  <2> DEFINE diff == item'.bitDiffCount
  <2>3. diff \in Nat /\ diff =< Cardinality(Bits)
    BY <1>1, <2>2
  <2>4. /\ IF diff # 0
           THEN /\ bitFailsCounter' = bitFailsCounter + diff
                /\ mCounter' = mCounter + 1
                /\ failsCounter' = failsCounter + 1
           ELSE UNCHANGED <<bitFailsCounter, mCounter, failsCounter>>
        /\ bitErrorCounter' = bitErrorCounter + diff
        /\ v' = Counted(v)
    BY <1>3, <1>6, <2>2 DEF CountItem
  <2> HIDE DEF diff
  <2>5. v' \in 0 .. MaxCount
        /\ (v < MaxCount => v' = v + 1)
        /\ (v' < MaxCount => v < MaxCount)
    BY <1>2, <2>4, CountedType, EngineAssumption
  <2>6. BlocksFit'
    <3>1. loopCounter' < MaxCount => v' = loopCounter' - DecoderTactsLatency
      BY <1>2, <1>4, <1>5, <1>6, <2>5, LatencyType, EngineAssumption DEF BlocksFit
    <3>2. v' < MaxCount => failsCounter' =< v'
      BY <1>2, <1>5, <2>4, <2>5, EngineAssumption DEF BlocksFit
    <3>3. mCounter' = volume + failsCounter'
      BY <1>2, <1>5, <2>4, EngineAssumption DEF BlocksFit
    <3>4. loopCounter' < MaxCount => ~ (loopCounter' < DecoderTactsLatency)
      BY <1>2, <1>4, <1>6, LatencyType, EngineAssumption
    <3> QED
      BY <1>3, <3>1, <3>2, <3>3, <3>4 DEF BlocksFit
  <2>7. BitsFit' /\ bitFailsCounter' \in Nat /\ bitErrorCounter' \in Nat
    <3>1. (failsCounter + 1) * Cardinality(Bits)
             = failsCounter * Cardinality(Bits) + Cardinality(Bits)
          /\ failsCounter * Cardinality(Bits) \in Nat
      BY <1>1, <1>2, OneMoreBlock
    <3>2. /\ failsCounter =< bitFailsCounter
          /\ bitFailsCounter =< failsCounter * Cardinality(Bits)
          /\ bitErrorCounter = bitFailsCounter
      BY <1>5 DEF BitsFit
    <3>3. CASE diff # 0
      <4>1. bitFailsCounter + diff =< (failsCounter + 1) * Cardinality(Bits)
        BY <1>1, <1>2, <2>3, <3>1, <3>2
      <4> QED
        BY <1>2, <2>3, <2>4, <3>2, <3>3, <4>1 DEF BitsFit
    <3>4. CASE diff = 0
      BY <1>2, <2>4, <3>2, <3>4 DEF BitsFit
    <3> QED
      BY <3>3, <3>4
  <2>8. mCounter' \in {volume} \cup volume .. limitErrors /\ failsCounter' \in Nat
    BY <1>2, <2>4, EngineAssumption
  <2> QED
    BY <1>4, <2>5, <2>6, <2>7, <2>8
<1>7. CASE ~ (loopCounter >= DecoderTactsLatency)
  <2>1. UNCHANGED totals
    BY <1>3, <1>7 DEF CountItem
  <2>2. BitsFit'
    BY <1>5, <2>1 DEF BitsFit, totals
  <2>3. BlocksFit'
    BY <1>2, <1>3, <1>4, <1>5, <1>7, <2>1, LatencyType, EngineAssumption
    DEF BlocksFit, totals
  <2> QED
    BY <1>2, <1>4, <2>1, <2>2, <2>3 DEF totals
<1> QED
  BY <1>6, <1>7

\* Without a coder the block counted is in error if it met noise.
LEMMA DecodeNoise ==
  ASSUME NEW destData \in Blocks, IInv, DecodeBlock(destData), Received(destData)
  PROVE  NoiseFits'
<1>0. (stage' = "encode" \/ stage' = "idle") /\ useCoder' = useCoder
  BY DEF DecodeBlock
<1>0a. failsCounter' \in Nat
  BY DecodeCounts
<1> SUFFICES ASSUME ~ useCoder, v' = counter', counter' < MaxCount
             PROVE  noiseCounter' = failsCounter'
  BY <1>0, <1>0a DEF NoiseFits
<1>1. /\ failsCounter \in Nat /\ v \in 0 .. MaxCount
      /\ counter \in 0 .. MaxCount /\ loopCounter \in 0 .. MaxCount
      /\ noiseCounter \in 0 .. MaxCount
  BY DEF IInv, TypeOK
<1>2. DecoderTactsLatency = 0 /\ LatencyIsOver
  BY <1>1, EngineAssumption DEF DecoderTactsLatency, LatencyIsOver
<1>3. item' # NoItem
      /\ (item'.bitDiffCount = 0 <=> Head(queue).source = destData)
  BY <1>2, DecodeTakesItem
<1>4. /\ v' = Counted(v) /\ counter' = Counted(counter) /\ UNCHANGED noiseCounter
      /\ failsCounter' = IF item'.bitDiffCount # 0 THEN failsCounter + 1
                         ELSE failsCounter
  BY <1>1, <1>2, <1>3 DEF DecodeBlock, CountItem
<1>5. v = counter /\ counter < MaxCount
  <2>1. v' < MaxCount => v < MaxCount /\ v' = v + 1
    BY <1>1, <1>4, EngineAssumption DEF Counted
  <2>2. counter' < MaxCount => counter < MaxCount /\ counter' = counter + 1
    BY <1>1, <1>4, EngineAssumption DEF Counted
  <2> QED
    BY <1>1, <2>1, <2>2
<1>6. Head(queue).source = destData <=> ~ Head(queue).noiseExists
  BY DEF Received
<1>7. noiseCounter =
        failsCounter + (IF Head(queue).noiseExists THEN 1 ELSE 0)
  BY <1>5 DEF IInv, NoiseFits, DecodeBlock
<1> QED
  BY <1>1, <1>3, <1>4, <1>6, <1>7

LEMMA DecodeBlockKeeps ==
  ASSUME NEW destData \in Blocks
  PROVE  IInv /\ DecodeBlock(destData) /\ Received(destData) => IInv'
<1> SUFFICES ASSUME IInv, DecodeBlock(destData), Received(destData) PROVE IInv'
  OBVIOUS
<1>1. counter \in 0 .. MaxCount /\ loopCounter \in 0 .. MaxCount
      /\ loopCounter =< counter
  BY DEF IInv, TypeOK, SimulationRuns
<1>2. counter' = Counted(counter) /\ loopCounter' = Counted(loopCounter)
      /\ stage' = (IF mCounter' < limitErrors THEN "encode" ELSE "idle")
      /\ UNCHANGED <<useCoder, noiseCounter>>
  BY DEF DecodeBlock
<1>3. counter' \in 0 .. MaxCount /\ loopCounter' =< counter'
  BY <1>1, <1>2, EngineAssumption DEF Counted
<1>4. item' \in [bitDiffCount : -1 .. Cardinality(Bits)]
  <2>1. Cardinality(Bits) \in Nat
    BY EngineAssumption, FS_CardinalityType
  <2>2. item' = NoItem \/ item' \in [bitDiffCount : 0 .. Cardinality(Bits)]
    BY DecodeTakesItem
  <2>3. 0 .. Cardinality(Bits) \subseteq -1 .. Cardinality(Bits)
        /\ -1 \in -1 .. Cardinality(Bits)
    BY <2>1
  <2> QED
    BY <2>2, <2>3 DEF NoItem
<1>5. queue' \in Seq([source : Blocks, noiseExists : BOOLEAN])
  BY DecodeTakesItem DEF QueueItems
<1>6. TypeOK'
  BY <1>2, <1>3, <1>4, <1>5, DecodeCounts DEF IInv, TypeOK
<1>7. AsLateAsDecoder'
  <2>1. BetweenIterations' /\ DecoderTactsLatency' = DecoderTactsLatency
    BY <1>2 DEF BetweenIterations, DecoderTactsLatency
  <2>2. Len(queue') = IF counter' < DecoderTactsLatency THEN counter'
                      ELSE DecoderTactsLatency
    BY DecodeTakesItem
  <2>3. Len(queue') + 0 = Len(queue')
    BY <1>5
  <2> QED
    BY <2>1, <2>2, <2>3 DEF AsLateAsDecoder
<1>8. SimulationRuns'
  BY <1>2, <1>3 DEF SimulationRuns
<1> QED
  BY <1>6, <1>7, <1>8, DecodeCounts, DecodeNoise DEF IInv

-----------------------------------------------------------------------------
LEMMA IInvStep == IInv /\ [Next]_vars => IInv'
<1> SUFFICES ASSUME IInv, [Next]_vars PROVE IInv'
  OBVIOUS
<1>1. CASE SimulateTotal
  BY <1>1, SimulateTotalKeeps
<1>2. CASE \E source \in Blocks : EncodeBlock(source)
  BY <1>2, EncodeBlockKeeps
<1>3. CASE \E equal \in BOOLEAN : TransmitBlock(equal)
  BY <1>3, TransmitBlockKeeps
<1>4. CASE \E destData \in Blocks : DecodeBlock(destData) /\ Received(destData)
  BY <1>4, DecodeBlockKeeps
<1>5. CASE UNCHANGED vars
  BY <1>5
  DEF vars, totals, IInv, TypeOK, AsLateAsDecoder, BetweenIterations,
      DecoderTactsLatency, SimulationRuns, BlocksFit, BitsFit, NoiseFits
<1> QED
  BY <1>1, <1>2, <1>3, <1>4, <1>5 DEF Next

(***************************************************************************)
(* The counters keep within their bounds: mCounter never passes the limit, *)
(* however many bits of a block are in error.                              *)
(***************************************************************************)
THEOREM TypeCorrect == Spec => []TypeOK
<1>1. IInv => TypeOK
  BY DEF IInv
<1> QED
  BY <1>1, IInvInit, IInvStep, PTL DEF Spec

(***************************************************************************)
(* The queue of ModelingEngine is as long as the decoder is late, through  *)
(* any number of simulations: no item is counted for another one's block,  *)
(* and none is left behind.                                                *)
(***************************************************************************)
THEOREM QueueIsAsLateAsDecoder == Spec => []QueueHoldsLatency
<1>1. IInv => QueueHoldsLatency
  BY LatencyType, EngineAssumption
  DEF IInv, TypeOK, AsLateAsDecoder, QueueHoldsLatency
<1> QED
  BY <1>1, IInvInit, IInvStep, PTL DEF Spec

(***************************************************************************)
(* The counters that SimulateTotal divides by one another agree, whatever  *)
(* the decoder returns.                                                    *)
(***************************************************************************)
THEOREM CountersFit == Spec => []CountersAgree
<1>1. IInv => CountersAgree
  BY DEF IInv, BlocksFit, BitsFit, CountersAgree
<1> QED
  BY <1>1, IInvInit, IInvStep, PTL DEF Spec

(***************************************************************************)
(* Without a coder, the blocks in error of a first simulation are those    *)
(* that the channel reported as noisy.                                     *)
(***************************************************************************)
THEOREM UncodedErrorsAreNoise == Spec => []UncodedCountsNoise
<1>1. IInv => UncodedCountsNoise
  BY DEF IInv, TypeOK, NoiseFits, UncodedCountsNoise, BetweenIterations
<1> QED
  BY <1>1, IInvInit, IInvStep, PTL DEF Spec

-----------------------------------------------------------------------------
(***************************************************************************)
(* The rates.  A simulation comes to its end with a block that it counts;  *)
(* and the channel is ahead of the decoder by the block under way.         *)
(***************************************************************************)
CountedByTheEnd == stage = "idle" /\ loopCounter > 0 => v > 0

NoiseSent == noiseCounter =< counter + (IF stage = "decode" THEN 1 ELSE 0)

RatesInv == CountedByTheEnd /\ NoiseSent

LEMMA RatesStep == IInv /\ RatesInv /\ [Next]_vars => RatesInv'
<1> SUFFICES ASSUME IInv, RatesInv, [Next]_vars PROVE RatesInv'
  OBVIOUS
<1> USE DEF RatesInv, CountedByTheEnd, NoiseSent
<1>1. /\ counter \in 0 .. MaxCount /\ noiseCounter \in 0 .. MaxCount
      /\ loopCounter \in 0 .. MaxCount /\ v \in 0 .. MaxCount
      /\ MaxCount \in Nat /\ MaxCount > 0
  BY EngineAssumption DEF IInv, TypeOK
<1>2. CASE SimulateTotal
  BY <1>1, <1>2 DEF SimulateTotal
<1>3. CASE \E source \in Blocks : EncodeBlock(source)
  BY <1>1, <1>3 DEF EncodeBlock, totals
<1>4. CASE \E equal \in BOOLEAN : TransmitBlock(equal)
  BY <1>1, <1>4 DEF TransmitBlock, Counted
<1>5. CASE \E destData \in Blocks : DecodeBlock(destData) /\ Received(destData)
  <2> PICK destData \in Blocks : DecodeBlock(destData)
    BY <1>5
  <2>1. /\ counter' = Counted(counter) /\ UNCHANGED noiseCounter
        /\ stage = "decode" /\ stage' \in {"encode", "idle"}
        /\ stage' = "idle" => ~ (mCounter' < limitErrors)
        /\ CountItem(item')
    BY DEF DecodeBlock
  <2>2. NoiseSent'
    BY <1>1, <2>1 DEF Counted
  <2>3. ASSUME stage' = "idle"
        PROVE  v' > 0
    <3>1. mCounter < limitErrors
      BY <2>1 DEF IInv, SimulationRuns
    <3>2. mCounter' # mCounter
      BY <2>1, <2>3, <3>1
    <3>3. v' = Counted(v)
      BY <2>1, <3>2 DEF CountItem, totals
    <3>. QED BY <1>1, <3>3 DEF Counted
  <2>. QED BY <2>2, <2>3
<1>6. CASE UNCHANGED vars
  BY <1>6 DEF vars, totals
<1>. QED BY <1>2, <1>3, <1>4, <1>5, <1>6 DEF Next

LEMMA RatesFollow == IInv /\ RatesInv => RatesAreShares
<1> SUFFICES ASSUME IInv, RatesInv, stage = "idle", loopCounter > 0
             PROVE  /\ v > 0
                    /\ v < MaxCount => /\ failsCounter =< v
                                       /\ bitFailsCounter =< v * Cardinality(Bits)
                    /\ (counter = loopCounter /\ counter < MaxCount)
                         => noiseCounter =< v + DecoderTactsLatency
  BY DEF RatesAreShares
<1>1. /\ counter \in 0 .. MaxCount /\ noiseCounter \in 0 .. MaxCount
      /\ loopCounter \in 0 .. MaxCount /\ v \in 0 .. MaxCount
      /\ failsCounter \in Nat /\ bitFailsCounter \in Nat
      /\ MaxCount \in Nat /\ DecoderTactsLatency \in Nat /\ Cardinality(Bits) \in Nat
  BY LatencyType, EngineAssumption, FS_CardinalityType DEF IInv, TypeOK
<1>2. v > 0
  BY DEF RatesInv, CountedByTheEnd
<1>3. v < MaxCount => failsCounter =< v
  BY DEF IInv, BlocksFit
<1>4. ASSUME v < MaxCount
      PROVE  bitFailsCounter =< v * Cardinality(Bits)
  <2>1. bitFailsCounter =< failsCounter * Cardinality(Bits)
    BY DEF IInv, BitsFit
  <2>2. failsCounter * Cardinality(Bits) =< v * Cardinality(Bits)
    BY <1>1, <1>3, <1>4, Monotone
  <2>3. failsCounter * Cardinality(Bits) \in Nat /\ v * Cardinality(Bits) \in Nat
    BY <1>1
  <2>. QED BY <1>1, <2>1, <2>2, <2>3
<1>5. ASSUME counter = loopCounter, counter < MaxCount
      PROVE  noiseCounter =< v + DecoderTactsLatency
  <2>1. noiseCounter =< counter
    BY <1>1 DEF RatesInv, NoiseSent
  <2>2. v = loopCounter - DecoderTactsLatency
    BY <1>1, <1>2, <1>5 DEF IInv, BlocksFit
  <2>. QED BY <1>1, <1>5, <2>1, <2>2
<1>. QED BY <1>2, <1>3, <1>4, <1>5

(***************************************************************************)
(* The rates that SimulateTotal returns are shares of what it has counted, *)
(* whatever the decoder returns: it never divides by zero once it has      *)
(* iterated.                                                               *)
(***************************************************************************)
THEOREM RatesFit == Spec => []RatesAreShares
<1>1. Init => RatesInv
  BY DEF Init, RatesInv, CountedByTheEnd, NoiseSent
<1>. QED BY <1>1, IInvInit, IInvStep, RatesStep, RatesFollow, PTL DEF Spec

-----------------------------------------------------------------------------
(***************************************************************************)
(* The way of a simulation to its end: the blocks in error that it still   *)
(* waits for, and the iterations before it counts at all.                  *)
(***************************************************************************)
ErrorsToGo == limitErrors - mCounter

LateIterations ==
  IF loopCounter < DecoderTactsLatency THEN DecoderTactsLatency - loopCounter ELSE 0

\* An iteration takes one off the late ones; once there are none left it has an item,
\* and takes one off the errors if there is one in it.
IterationCountsDown ==
  IF LateIterations > 0
  THEN LateIterations' = LateIterations - 1 /\ ErrorsToGo' = ErrorsToGo
  ELSE /\ item' # NoItem
       /\ LateIterations' = 0
       /\ ErrorsToGo' = ErrorsToGo - (IF item'.bitDiffCount > 0 THEN 1 ELSE 0)

(***************************************************************************)
(* SimulateTotal ends at the very block in error that it waits for: until  *)
(* then there is always one left to wait for, each that comes after the    *)
(* latency of this simulation counts, and nothing adds to them, neither    *)
(* the items that a simulation before has left in the queue nor the steps  *)
(* of coder and channel.                                                   *)
(***************************************************************************)
ComesNearerToItsEnd ==
  [][stage # "idle" =>
       /\ ErrorsToGo \in Nat \ {0} /\ LateIterations \in Nat
       /\ ErrorsToGo' \in Nat /\ (ErrorsToGo' = 0 <=> stage' = "idle")
       /\ IF stage = "decode" THEN IterationCountsDown
          ELSE UNCHANGED <<ErrorsToGo, LateIterations>>]_vars

LEMMA ToGoTypes ==
  ASSUME IInv, stage # "idle"
  PROVE  /\ mCounter \in Nat /\ limitErrors \in Nat /\ mCounter < limitErrors
         /\ loopCounter \in 0 .. MaxCount /\ counter \in 0 .. MaxCount /\ loopCounter =< counter
         /\ ErrorsToGo \in Nat \ {0} /\ LateIterations \in Nat
<1>1. /\ mCounter \in Nat /\ limitErrors \in Nat /\ mCounter < limitErrors
      /\ loopCounter \in 0 .. MaxCount /\ counter \in 0 .. MaxCount /\ loopCounter =< counter
      /\ MaxCount \in Nat
  BY EngineAssumption DEF IInv, TypeOK, SimulationRuns
<1> QED BY <1>1, LatencyType DEF ErrorsToGo, LateIterations

LEMMA IterationNearer ==
  ASSUME IInv, NEW destData \in Blocks, DecodeBlock(destData)
  PROVE  /\ IterationCountsDown
         /\ ErrorsToGo' \in Nat /\ (ErrorsToGo' = 0 <=> stage' = "idle")
<1>1. stage = "decode" /\ stage # "idle"
  BY DEF DecodeBlock
<1>2. /\ mCounter \in Nat /\ limitErrors \in Nat /\ mCounter < limitErrors
      /\ loopCounter \in 0 .. MaxCount /\ counter \in 0 .. MaxCount /\ loopCounter =< counter
  BY <1>1, ToGoTypes
<1>3. /\ CountItem(item') /\ loopCounter' = Counted(loopCounter)
      /\ stage' = IF mCounter' < limitErrors THEN "encode" ELSE "idle"
      /\ DecoderTactsLatency' = DecoderTactsLatency
  BY DEF DecodeBlock, DecoderTactsLatency
<1>4. DecoderTactsLatency \in Nat /\ DecoderTactsLatency < MaxCount /\ MaxCount \in Nat
  BY LatencyType, EngineAssumption
<1>5. loopCounter' >= loopCounter /\ (loopCounter < MaxCount => loopCounter' = loopCounter + 1)
      /\ loopCounter' \in 0 .. MaxCount
  BY <1>2, <1>3, CountedType
<1>6. CASE loopCounter < DecoderTactsLatency
  <2>1. mCounter' = mCounter
    BY <1>3, <1>6, <1>2, <1>4 DEF CountItem, totals
  <2>2. stage' = "encode"
    BY <1>2, <1>3, <2>1
  <2>3. LateIterations > 0 /\ LateIterations' = LateIterations - 1
    BY <1>2, <1>3, <1>4, <1>5, <1>6 DEF LateIterations
  <2>4. ErrorsToGo' = ErrorsToGo /\ ErrorsToGo \in Nat \ {0}
    BY <1>2, <2>1 DEF ErrorsToGo
  <2> QED BY <2>2, <2>3, <2>4 DEF IterationCountsDown
<1>7. CASE ~ loopCounter < DecoderTactsLatency
  <2>1. LatencyIsOver
    BY <1>2, <1>4, <1>7 DEF LatencyIsOver
  <2>2. item' # NoItem /\ item'.bitDiffCount \in 0 .. Cardinality(Bits)
    BY <2>1, DecodeTakesItem
  <2>3. item'.bitDiffCount \in Nat
    BY <2>2
  <2>4. mCounter' = mCounter + (IF item'.bitDiffCount > 0 THEN 1 ELSE 0)
    <3>1. CASE item'.bitDiffCount # 0
      BY <1>2, <1>3, <1>4, <1>7, <2>2, <2>3, <3>1 DEF CountItem
    <3>2. CASE item'.bitDiffCount = 0
      BY <1>2, <1>3, <1>4, <1>7, <2>2, <3>2 DEF CountItem
    <3> QED BY <3>1, <3>2
  <2>5. LateIterations = 0 /\ LateIterations' = 0
    BY <1>2, <1>3, <1>4, <1>5, <1>7 DEF LateIterations
  <2>6. ErrorsToGo' = ErrorsToGo - (IF item'.bitDiffCount > 0 THEN 1 ELSE 0)
    BY <1>2, <2>4 DEF ErrorsToGo
  <2>7. ErrorsToGo' \in Nat /\ (ErrorsToGo' = 0 <=> stage' = "idle")
    BY <1>2, <1>3, <2>4 DEF ErrorsToGo
  <2> QED BY <2>2, <2>5, <2>6, <2>7 DEF IterationCountsDown
<1> QED BY <1>6, <1>7

\* The invariant of the engine gives the types, and that the queue has an item for each
\* iteration after the latency.
THEOREM SimulationCountsDown ==
  Spec => ComesNearerToItsEnd
<1> DEFINE Nearer ==
             /\ ErrorsToGo \in Nat \ {0} /\ LateIterations \in Nat
             /\ ErrorsToGo' \in Nat /\ (ErrorsToGo' = 0 <=> stage' = "idle")
             /\ IF stage = "decode" THEN IterationCountsDown
                ELSE UNCHANGED <<ErrorsToGo, LateIterations>>
<1>1. ASSUME IInv, Next, stage # "idle" PROVE Nearer
  <2>1. ErrorsToGo \in Nat \ {0} /\ LateIterations \in Nat
    BY <1>1, ToGoTypes
  <2>2. CASE \E source \in Blocks : EncodeBlock(source)
    <3>1. /\ stage = "encode" /\ stage' = "transmit"
          /\ UNCHANGED <<mCounter, loopCounter, useCoder>>
      BY <2>2 DEF EncodeBlock, totals
    <3>2. UNCHANGED <<ErrorsToGo, LateIterations>>
      BY <3>1 DEF ErrorsToGo, LateIterations, DecoderTactsLatency
    <3> QED BY <2>1, <3>1, <3>2
  <2>3. CASE \E equal \in BOOLEAN : TransmitBlock(equal)
    <3>1. /\ stage = "transmit" /\ stage' = "decode"
          /\ UNCHANGED <<mCounter, loopCounter, useCoder>>
      BY <2>3 DEF TransmitBlock, totals
    <3>2. UNCHANGED <<ErrorsToGo, LateIterations>>
      BY <3>1 DEF ErrorsToGo, LateIterations, DecoderTactsLatency
    <3> QED BY <2>1, <3>1, <3>2
  <2>4. CASE \E destData \in Blocks : DecodeBlock(destData) /\ Received(destData)
    BY <1>1, <2>1, <2>4, IterationNearer DEF DecodeBlock
  <2> QED BY <1>1, <2>2, <2>3, <2>4 DEF Next, SimulateTotal
<1>2. IInv /\ [Next]_vars => [stage # "idle" => Nearer]_vars
  BY <1>1
<1> QED BY <1>2, IInvInit, IInvStep, PTL DEF Spec, ComesNearerToItsEnd

-----------------------------------------------------------------------------
(***************************************************************************)
(* The composition.                                                        *)
(***************************************************************************)
\* The engine calls the coder as its stage says.
CallsInStep ==
  useCoder => phase = IF stage = "idle" THEN "encode" ELSE stage

\* Without a coder the block on the line is the one of the only item.
LineHoldsItem ==
  ~ useCoder =>
    /\ block \in Blocks
    /\ stage = "transmit" => block = Head(queue).source /\ ~ Head(queue).noiseExists
    /\ stage = "decode" => (block = Head(queue).source <=> ~ Head(queue).noiseExists)

ComposedInv == IInv /\ CallsInStep /\ LineHoldsItem

-----------------------------------------------------------------------------
(***************************************************************************)
(* The coder's calls in terms of the registers: the instance Coder has     *)
(* operators of its own, with the same definitions as those of             *)
(* CoderRegistries.                                                        *)
(***************************************************************************)
LEMMA CoderSets ==
  /\ Coder!DataBranches = DataBranches
  /\ Coder!CheckBranches = CheckBranches
  /\ Coder!Lines = Lines
  /\ Coder!Ages = Ages
  /\ Coder!SpanAges = SpanAges
BY DEF Coder!DataBranches, DataBranches, Coder!CheckBranches, CheckBranches,
       Coder!Lines, Lines, Coder!Ages, Ages, Coder!SpanAges, SpanAges

\* The instance has the standard operators on finite sets as well.
LEMMA CoderCounts ==
  ASSUME NEW S
  PROVE  Coder!Cardinality(S) = Cardinality(S) /\ Coder!Min(S) = Min(S)
<1>1. Coder!Cardinality(S) = Cardinality(S)
  BY DEF Coder!Cardinality, Cardinality
<1>2. Coder!Min(S) = Min(S)
  BY DEF Coder!Min, Min
<1> QED
  BY <1>1, <1>2

LEMMA CoderShifts ==
  ASSUME NEW bank, NEW branches, NEW ages, NEW ones
  PROVE  /\ Coder!Aged(bank, branches, ages, ones) = Aged(bank, branches, ages, ones)
         /\ Coder!Shift(bank, branches, ones) = Shift(bank, branches, ones)
BY CoderSets DEF Coder!Aged, Aged, Coder!Shift, Shift

LEMMA CoderCheckBits ==
  ASSUME NEW bank, NEW c
  PROVE  /\ Coder!Taps(c) = Taps(c)
         /\ Coder!CheckBit(bank, c) <=> CheckBit(bank, c)
         /\ Coder!CheckLine(c) = CheckLine(c)
<1>1. Coder!Taps(c) = Taps(c)
  BY CoderSets DEF Coder!Taps, Taps, Coder!FilterItemsByOutputBranchIndex,
                   FilterItemsByOutputBranchIndex
<1>2. Coder!CheckBit(bank, c) <=> CheckBit(bank, c)
  BY <1>1, CoderCounts DEF Coder!CheckBit, CheckBit, Coder!Parity, Parity
<1> QED
  BY <1>1, <1>2 DEF Coder!CheckLine, CheckLine

LEMMA CoderBlocks ==
  ASSUME NEW bank, NEW ones
  PROVE  /\ Coder!Encoded(bank, ones) = Encoded(bank, ones)
         /\ Coder!Mismatches(bank, ones) = Mismatches(bank, ones)
<1>1. Coder!Encoded(bank, ones) = Encoded(bank, ones)
  BY CoderSets, CoderCheckBits DEF Coder!Encoded, Encoded
<1>2. Coder!Mismatches(bank, ones) = Mismatches(bank, ones)
  <2>1. ASSUME NEW c \in CheckBranches
        PROVE  c \in Coder!Mismatches(bank, ones) <=> c \in Mismatches(bank, ones)
    BY CoderSets, CoderCheckBits
    DEF Coder!Mismatches, Mismatches, Coder!CheckBit, CheckBit, Coder!Parity, Parity
  <2>2. /\ Coder!Mismatches(bank, ones) \subseteq CheckBranches
        /\ Mismatches(bank, ones) \subseteq CheckBranches
    BY CoderSets DEF Coder!Mismatches, Mismatches
  <2> QED
    BY <2>1, <2>2
<1> QED
  BY <1>1, <1>2

LEMMA CoderThreshold ==
  ASSUME NEW flips, NEW syndrome, NEW extra
  PROVE  /\ Coder!Dropped(flips) = Dropped(flips)
         /\ Coder!PassThreshold(flips, syndrome, extra)
              <=> PassThreshold(flips, syndrome, extra)
<1>1. \A b : Coder!Flags(b) = Flags(b)
  BY CoderSets, CoderCheckBits DEF Coder!Flags, Flags
<1>2. \A set : Coder!Dropped(set) = Dropped(set)
  BY <1>1 DEF Coder!Dropped, Dropped
<1>3. \A raised, b :
        Coder!CountOfIdentities(raised, extra, b) = CountOfIdentities(raised, extra, b)
  BY <1>1, CoderCounts DEF Coder!CountOfIdentities, CountOfIdentities
<1>4. Coder!GetDmin = GetDmin
  BY CoderCounts DEF Coder!GetDmin, GetDmin, Coder!Terms, Terms, Coder!GetItemsForDataBranchIndex,
         GetItemsForDataBranchIndex
<1>5. \A count : Coder!ExceedsThreshold(count) <=> ExceedsThreshold(count)
  BY <1>4 DEF Coder!ExceedsThreshold, ExceedsThreshold
<1> QED
  BY <1>2, <1>3, <1>5, CoderSets DEF Coder!PassThreshold, PassThreshold

LEMMA CoderEncodes ==
  ASSUME NEW source, Coder!Encode(source)
  PROVE  /\ phase = "encode" /\ phase' = "transmit"
         /\ coderRegistries' = Shift(coderRegistries, DataBranches, source)
         /\ block' = Encoded(coderRegistries', source)
         /\ UNCHANGED <<decoderRegistries, syndromeRegistries, decoded, errors>>
BY CoderSets, CoderShifts, CoderBlocks DEF Coder!Encode

LEMMA CoderMeetsNoise ==
  ASSUME NEW noise, Coder!HandleData(noise)
  PROVE  /\ phase = "transmit" /\ phase' = "decode"
         /\ block' = SymDiff(block, noise)
         /\ errors' = Aged(errors, Lines, SpanAges, noise)
         /\ UNCHANGED <<coderRegistries, decoderRegistries, syndromeRegistries, decoded>>
BY CoderSets, CoderShifts DEF Coder!HandleData, Coder!SymDiff, SymDiff

LEMMA CoderDecodes ==
  ASSUME Coder!DecodeCore
  PROVE  /\ phase = "decode" /\ phase' = "encode"
         /\ UNCHANGED <<coderRegistries, block, errors>>
         /\ \E flips \in SUBSET DataBranches : \E next :
              /\ Arrives(decoderRegistries, syndromeRegistries, block,
                         decoderRegistries', next)
              /\ PassThreshold(flips, next, {})
              /\ decoded' = SymDiff({b \in DataBranches :
                                      <<b, polynomPower>> \in decoderRegistries'}, flips)
              /\ syndromeRegistries' = next \ Dropped(flips)
<1> DEFINE next == Shift(syndromeRegistries, CheckBranches,
                         Mismatches(decoderRegistries', block))
<1>1. Arrives(decoderRegistries, syndromeRegistries, block, decoderRegistries', next)
  BY CoderSets, CoderShifts DEF Coder!DecodeCore, Arrives
<1>2. next = Coder!Shift(syndromeRegistries, Coder!CheckBranches,
                         Coder!Mismatches(decoderRegistries', block))
  BY CoderSets, CoderShifts, CoderBlocks
<1>3. PICK flips \in SUBSET DataBranches :
        /\ Coder!PassThreshold(flips, next, {})
        /\ decoded' = Coder!SymDiff(Coder!OldestReceived(decoderRegistries'), flips)
        /\ syndromeRegistries' = next \ Coder!Dropped(flips)
  BY <1>2, CoderSets DEF Coder!DecodeCore
<1> HIDE DEF next
<1>4. PassThreshold(flips, next, {}) /\ syndromeRegistries' = next \ Dropped(flips)
  BY <1>3, CoderThreshold
<1>5. decoded' = SymDiff({b \in DataBranches :
                            <<b, polynomPower>> \in decoderRegistries'}, flips)
  BY <1>3, CoderSets DEF Coder!OldestReceived, Coder!SymDiff, SymDiff
<1>6. /\ phase = "decode" /\ phase' = "encode"
      /\ UNCHANGED <<coderRegistries, block, errors>>
  BY DEF Coder!DecodeCore
<1> QED
  BY <1>1, <1>4, <1>5, <1>6

-----------------------------------------------------------------------------
LEMMA QueueShape ==
  ASSUME IInv
  PROVE  /\ queue \in Seq(QueueItems)
         /\ Len(queue) \in Nat
         /\ stage \in {"transmit", "decode"} => Len(queue) > 0
         /\ ~ useCoder /\ stage = "encode" => queue = <<>>
         /\ ~ useCoder /\ stage \in {"transmit", "decode"} => Len(queue) = 1
         /\ stage \in {"idle", "encode"} => Len(queue) =< DecoderTactsLatency
         /\ Len(queue) =< DecoderTactsLatency + 1
<1>1. queue \in Seq(QueueItems) /\ counter \in Nat
  BY EngineAssumption DEF IInv, TypeOK, QueueItems
<1>2. Len(queue) \in Nat
  BY <1>1
<1>3. Len(queue) =
        (IF counter < DecoderTactsLatency THEN counter ELSE DecoderTactsLatency)
          + (IF stage \in {"idle", "encode"} THEN 0 ELSE 1)
  BY DEF IInv, AsLateAsDecoder, BetweenIterations
<1>4. ~ useCoder => DecoderTactsLatency = 0
  BY DEF DecoderTactsLatency
<1>5. Len(queue) = 0 => queue = <<>>
  BY <1>1, EmptySeq
<1>. QED BY <1>1, <1>2, <1>3, <1>4, <1>5, LatencyType

\* A block that the decoding side returns is one of the engine's.
LEMMA DecodedBlock ==
  ASSUME Coder!DecodeCore
  PROVE  decoded' \in Blocks
<1>1. PICK flips \in SUBSET DataBranches :
        decoded' = SymDiff({b \in DataBranches :
                              <<b, polynomPower>> \in decoderRegistries'}, flips)
  BY CoderDecodes
<1>2. decoded' \in SUBSET DataBranches
  BY <1>1 DEF SymDiff
<1>. QED BY <1>2, SimulationAssumption DEF Blocks

LEMMA StepsAreEngineSteps ==
  ComposedInv /\ [SimulationNext]_simulationVars => [Next]_vars
<1> SUFFICES ASSUME ComposedInv, [SimulationNext]_simulationVars PROVE [Next]_vars
  OBVIOUS
<1>1. CASE StartSimulation
  BY <1>1 DEF StartSimulation, Next
<1>2. CASE \E source \in Blocks : SendBlock(source)
  BY <1>2 DEF SendBlock, Next
<1>3. CASE \E noise \in SUBSET LinesInUse : PassChannel(noise)
  <2>. PICK noise : TransmitBlock(noise = {})
    BY <1>3 DEF PassChannel
  <2>. (noise = {}) \in BOOLEAN
    OBVIOUS
  <2>. QED BY DEF Next
<1>4. CASE TakeDecodedBlock
  <2>. /\ decoded' \in Blocks
       /\ DecodeBlock(decoded')
       /\ useCoder
    BY <1>4, DecodedBlock DEF TakeDecodedBlock
  <2>. QED BY DEF Next, Received
<1>5. CASE TakeReceivedBlock
  <2>. /\ block \in Blocks
       /\ DecodeBlock(block)
       /\ block = Head(queue).source <=> ~ Head(queue).noiseExists
    BY <1>5 DEF TakeReceivedBlock, ComposedInv, LineHoldsItem, DecodeBlock
  <2>. QED BY DEF Next, Received
<1>6. CASE UNCHANGED simulationVars
  BY <1>6 DEF simulationVars
<1>. QED BY <1>1, <1>2, <1>3, <1>4, <1>5, <1>6 DEF SimulationNext

-----------------------------------------------------------------------------
LEMMA CallsStayInStep ==
  ASSUME ComposedInv, [SimulationNext]_simulationVars
  PROVE  CallsInStep'
<1> USE DEF CallsInStep
<1>0. CallsInStep
  BY DEF ComposedInv
<1>1. CASE StartSimulation
  BY <1>0, <1>1 DEF StartSimulation, SimulateTotal, coderVars
<1>2. CASE \E source \in Blocks : SendBlock(source)
  BY <1>2 DEF SendBlock, EncodeBlock, Coder!Encode
<1>3. CASE \E noise \in SUBSET LinesInUse : PassChannel(noise)
  BY <1>3 DEF PassChannel, TransmitBlock, Coder!HandleData
<1>4. CASE TakeDecodedBlock
  BY <1>4 DEF TakeDecodedBlock, DecodeBlock, Coder!DecodeCore
<1>5. CASE TakeReceivedBlock
  BY <1>5 DEF TakeReceivedBlock, DecodeBlock
<1>6. CASE UNCHANGED simulationVars
  BY <1>0, <1>6 DEF simulationVars, vars, coderVars
<1>. QED BY <1>1, <1>2, <1>3, <1>4, <1>5, <1>6 DEF SimulationNext

LEMMA LineKeepsItem ==
  ASSUME ComposedInv, [SimulationNext]_simulationVars
  PROVE  LineHoldsItem'
<1> USE DEF LineHoldsItem
<1>0. LineHoldsItem /\ IInv
  BY DEF ComposedInv
<1>1. CASE StartSimulation
  BY <1>0, <1>1 DEF StartSimulation, SimulateTotal
<1>2. CASE \E source \in Blocks : SendBlock(source)
  <2>. PICK source \in Blocks : SendBlock(source)
    BY <1>2
  <2> SUFFICES ASSUME ~ useCoder' PROVE LineHoldsItem'
    OBVIOUS
  <2> DEFINE new == [source |-> source, noiseExists |-> FALSE]
  <2>1. /\ ~ useCoder /\ stage = "encode" /\ stage' = "transmit"
        /\ queue' = Append(queue, new) /\ block' = source
    BY DEF SendBlock, EncodeBlock
  <2>2. queue = <<>>
    BY <1>0, <2>1, QueueShape
  <2>3. Head(queue') = new
    <3> HIDE DEF new
    <3>. QED BY <2>1, <2>2
  <2>4. new.source = source /\ ~ new.noiseExists
    OBVIOUS
  <2>. QED BY <2>1, <2>3, <2>4
<1>3. CASE \E noise \in SUBSET LinesInUse : PassChannel(noise)
  <2>. PICK noise \in SUBSET LinesInUse : PassChannel(noise)
    BY <1>3
  <2> SUFFICES ASSUME ~ useCoder' PROVE LineHoldsItem'
    OBVIOUS
  <2>1. /\ ~ useCoder /\ stage = "transmit" /\ stage' = "decode"
        /\ block' = SymDiff(block, noise)
        /\ IF noise = {} THEN queue' = queue
           ELSE queue' = [queue EXCEPT ![Len(queue)].noiseExists = TRUE]
    BY DEF PassChannel, TransmitBlock
  <2>2. Len(queue) = 1 /\ queue \in Seq(QueueItems)
    BY <1>0, <2>1, QueueShape
  <2>3. queue[1] \in QueueItems
    BY <2>2
  <2>4. Head(queue) = queue[1]
    BY <2>2
  <2>5. /\ Head(queue').source = Head(queue).source
        /\ Head(queue').noiseExists <=> noise # {}
    <3>1. CASE noise = {}
      BY <1>0, <2>1, <3>1
    <3>2. CASE noise # {}
      <4> DEFINE noisy == [queue[1] EXCEPT !.noiseExists = TRUE]
      <4>1. queue' = [queue EXCEPT ![1] = noisy]
        BY <2>1, <2>2, <3>2
      <4>2. noisy \in QueueItems /\ noisy.source = queue[1].source /\ noisy.noiseExists
        BY <2>3 DEF QueueItems
      <4> HIDE DEF noisy
      <4>3. queue' \in Seq(QueueItems) /\ Len(queue') = 1 /\ queue'[1] = noisy
        BY <2>2, <4>1, <4>2, ExceptSeq
      <4>. QED BY <2>4, <3>2, <4>2, <4>3
    <3>. QED BY <3>1, <3>2
  <2>6. block' = Head(queue).source <=> noise = {}
    BY <1>0, <2>1 DEF SymDiff
  <2>7. block' \in Blocks
    BY <1>0, <2>1 DEF LinesInUse, Blocks, SymDiff
  <2>. QED BY <2>1, <2>5, <2>6, <2>7
<1>4. CASE TakeDecodedBlock
  BY <1>4 DEF TakeDecodedBlock, DecodeBlock
<1>5. CASE TakeReceivedBlock
  BY <1>0, <1>5 DEF TakeReceivedBlock, DecodeBlock
<1>6. CASE UNCHANGED simulationVars
  BY <1>0, <1>6 DEF simulationVars, vars
<1>. QED BY <1>1, <1>2, <1>3, <1>4, <1>5, <1>6 DEF SimulationNext

LEMMA ComposedInit == SimulationInit => ComposedInv
<1> SUFFICES ASSUME SimulationInit PROVE ComposedInv
  OBVIOUS
<1>1. IInv
  BY IInvInit DEF SimulationInit
<1>2. CallsInStep /\ LineHoldsItem
  BY DEF SimulationInit, Init, Coder!Init, CallsInStep, LineHoldsItem, Blocks
<1>. QED BY <1>1, <1>2 DEF ComposedInv

LEMMA ComposedStep ==
  ComposedInv /\ [SimulationNext]_simulationVars => ComposedInv'
<1> SUFFICES ASSUME ComposedInv, [SimulationNext]_simulationVars PROVE ComposedInv'
  OBVIOUS
<1>1. IInv'
  BY StepsAreEngineSteps, IInvStep DEF ComposedInv
<1>. QED BY <1>1, CallsStayInStep, LineKeepsItem DEF ComposedInv

(***************************************************************************)
(* Engine, coder and channel together do nothing that ModelingEngine does  *)
(* not allow for: the theorems about the engine hold for the tool.         *)
(***************************************************************************)
THEOREM EngineIsImplemented == SimulationSpec => ImplementsEngine
<1>1. SimulationInit => Init
  BY DEF SimulationInit
<1>. QED
  BY <1>1, ComposedInit, ComposedStep, StepsAreEngineSteps, PTL
  DEF SimulationSpec, ImplementsEngine, Spec

-----------------------------------------------------------------------------
(***************************************************************************)
(* The queue and the coder's registers.                                    *)
(***************************************************************************)
LEMMA SourcesShift ==
  ASSUME useCoder, NEW source \in Blocks, Coder!Encode(source)
  PROVE  \A b \in Bits, age \in 0 .. Latency :
           <<b, age>> \in coderRegistries' <=>
             IF age = 0 THEN b \in source ELSE <<b, age - 1>> \in coderRegistries
BY CoderEncodes, SimulationAssumption DEF Shift, Aged, Ages

LEMMA QueueFollows ==
  ASSUME ComposedInv, QueueMatchesRegisters, [SimulationNext]_simulationVars
  PROVE  QueueMatchesRegisters'
<1>0. IInv
  BY DEF ComposedInv
<1>00. /\ queue \in Seq(QueueItems) /\ Len(queue) \in Nat
       /\ Latency \in Nat /\ DecoderTactsLatency \in Nat
       /\ DecoderTactsLatency =< Latency
  BY <1>0, QueueShape, EngineAssumption DEF DecoderTactsLatency
<1> USE DEF QueueMatchesRegisters
<1>1. CASE StartSimulation
  BY <1>1 DEF StartSimulation, SimulateTotal, coderVars
<1>2. CASE \E source \in Blocks : SendBlock(source)
  <2>. PICK source \in Blocks : SendBlock(source)
    BY <1>2
  <2> SUFFICES ASSUME useCoder', NEW place \in 1 .. Len(queue')
               PROVE  queue'[place].source =
                        {b \in Bits : <<b, Len(queue') - place>> \in coderRegistries'}
    OBVIOUS
  <2> DEFINE new == [source |-> source, noiseExists |-> FALSE]
  <2>1. /\ useCoder /\ stage = "encode" /\ Coder!Encode(source)
        /\ queue' = Append(queue, new)
    BY DEF SendBlock, EncodeBlock
  <2>2. new \in QueueItems /\ new.source = source
    BY DEF QueueItems
  <2> HIDE DEF new
  <2>3. /\ Len(queue') = Len(queue) + 1
        /\ \A n \in 1 .. Len(queue) : queue'[n] = queue[n]
        /\ queue'[Len(queue) + 1] = new
    BY <1>00, <2>1, <2>2, AppendProperties
  <2>4. Len(queue) =< Latency
    BY <1>0, <1>00, <2>1, QueueShape
  <2>5. CASE place = Len(queue) + 1
    <3>1. Len(queue') - place = 0 /\ 0 \in 0 .. Latency
      BY <1>00, <2>3, <2>5
    <3>2. \A b \in Bits : <<b, 0>> \in coderRegistries' <=> b \in source
      BY <2>1, <3>1, SourcesShift
    <3>3. queue'[place].source = source /\ source \subseteq Bits
      BY <2>2, <2>3, <2>5 DEF Blocks
    <3>. QED BY <3>1, <3>2, <3>3
  <2>6. CASE place \in 1 .. Len(queue)
    <3> DEFINE age == Len(queue) - place
    <3>1. /\ Len(queue') - place = age + 1
          /\ age + 1 \in 0 .. Latency /\ age + 1 # 0 /\ (age + 1) - 1 = age
      BY <1>00, <2>3, <2>4, <2>6
    <3> HIDE DEF age
    <3>2. \A b \in Bits :
            <<b, age + 1>> \in coderRegistries' <=> <<b, age>> \in coderRegistries
      BY <2>1, <3>1, SourcesShift
    <3>3. queue[place].source = {b \in Bits : <<b, age>> \in coderRegistries}
      BY <2>1, <2>6 DEF age
    <3>. QED BY <2>3, <2>6, <3>1, <3>2, <3>3
  <2>. QED BY <1>00, <2>3, <2>5, <2>6
<1>3. CASE \E noise \in SUBSET LinesInUse : PassChannel(noise)
  <2>. PICK noise \in SUBSET LinesInUse : PassChannel(noise)
    BY <1>3
  <2> SUFFICES ASSUME useCoder' PROVE QueueMatchesRegisters'
    OBVIOUS
  <2>1. /\ useCoder /\ UNCHANGED coderRegistries /\ stage = "transmit"
        /\ IF noise = {} THEN queue' = queue
           ELSE queue' = [queue EXCEPT ![Len(queue)].noiseExists = TRUE]
    BY DEF PassChannel, TransmitBlock, Coder!HandleData
  <2>2. Len(queue) > 0 /\ queue[Len(queue)] \in QueueItems
    BY <1>0, <1>00, <2>1, QueueShape, ElementOfSeq
  <2> DEFINE noisy == [queue[Len(queue)] EXCEPT !.noiseExists = TRUE]
  <2>3. noisy \in QueueItems /\ noisy.source = queue[Len(queue)].source
    BY <2>2 DEF QueueItems
  <2>4. noise # {} => queue' = [queue EXCEPT ![Len(queue)] = noisy]
    BY <2>1
  <2> HIDE DEF noisy
  <2>5. /\ Len(queue') = Len(queue)
        /\ \A n \in 1 .. Len(queue) : queue'[n].source = queue[n].source
    BY <1>00, <2>1, <2>2, <2>3, <2>4, ExceptSeq
  <2>. QED BY <2>1, <2>5
<1>4. CASE TakeDecodedBlock
  <2>1. /\ useCoder /\ UNCHANGED <<useCoder, coderRegistries>> /\ stage = "decode"
        /\ queue' = queue \/ queue' = Tail(queue)
    BY <1>4 DEF TakeDecodedBlock, DecodeBlock, Dequeue, Discard, Coder!DecodeCore
  <2>2. queue # <<>>
    BY <1>0, <1>00, <2>1, QueueShape
  <2>3. CASE queue' = Tail(queue)
    <3>1. /\ Len(queue') = Len(queue) - 1
          /\ \A n \in 1 .. Len(queue') : queue'[n] = queue[n + 1]
      BY <1>00, <2>2, <2>3, HeadTailProperties
    <3>2. ASSUME NEW place \in 1 .. Len(queue')
          PROVE  queue'[place].source =
                   {b \in Bits : <<b, Len(queue') - place>> \in coderRegistries'}
      <4>1. /\ place + 1 \in 1 .. Len(queue)
            /\ Len(queue) - (place + 1) = Len(queue') - place
        BY <1>00, <3>1, <3>2
      <4>2. queue[place + 1].source =
              {b \in Bits : <<b, Len(queue) - (place + 1)>> \in coderRegistries}
        BY <2>1, <4>1
      <4>. QED BY <2>1, <3>1, <4>1, <4>2
    <3>. QED BY <3>2
  <2>. QED BY <2>1, <2>3
<1>5. CASE TakeReceivedBlock
  BY <1>5 DEF TakeReceivedBlock, DecodeBlock
<1>6. CASE UNCHANGED simulationVars
  BY <1>6 DEF simulationVars, vars, coderVars
<1>. QED BY <1>1, <1>2, <1>3, <1>4, <1>5, <1>6 DEF SimulationNext

\* Decode returns the oldest block of the coder's registers, which is that of the
\* item it is compared with.
LEMMA ItemsMeetBlocks ==
  ASSUME ComposedInv, QueueMatchesRegisters, CountsDecoderErrors,
         [SimulationNext]_simulationVars
  PROVE  CountsDecoderErrors'
<1>0. IInv /\ CallsInStep
  BY DEF ComposedInv
<1> USE DEF CountsDecoderErrors
<1>1. CASE StartSimulation
  BY <1>1 DEF StartSimulation, SimulateTotal, coderVars, Coder!OldestSent,
              Coder!OldestReceived
<1>2. CASE \E source \in Blocks : SendBlock(source)
  BY <1>2 DEF SendBlock, EncodeBlock, Coder!Encode
<1>3. CASE \E noise \in SUBSET LinesInUse : PassChannel(noise)
  BY <1>3 DEF PassChannel, TransmitBlock, Coder!HandleData
<1>4. CASE TakeDecodedBlock
  <2>1. /\ useCoder /\ stage = "decode" /\ UNCHANGED coderRegistries
        /\ DecodeBlock(decoded') /\ counter' = Counted(counter)
    BY <1>4 DEF TakeDecodedBlock, DecodeBlock, Coder!DecodeCore
  <2>2. counter \in 0 .. MaxCount /\ DecoderTactsLatency = Latency
    BY <1>0, <2>1 DEF IInv, TypeOK, DecoderTactsLatency
  <2> SUFFICES ASSUME counter' > polynomPower
               PROVE  item'.bitDiffCount =
                        Cardinality(SymDiff(decoded', Coder!OldestSent'))
    BY DEF SymDiff, Coder!SymDiff
  <2>3. LatencyIsOver
    BY <2>1, <2>2, EngineAssumption, SimulationAssumption DEF Counted, LatencyIsOver
  <2>4. item' = [bitDiffCount |-> Cardinality(SymDiff(Head(queue).source, decoded'))]
    BY <2>1, <2>3 DEF DecodeBlock, Dequeue, Discard
  <2>5. Len(queue) = Latency + 1 /\ queue \in Seq(QueueItems) /\ Latency \in Nat
    BY <1>0, <2>1, <2>2, <2>3, QueueShape, EngineAssumption
    DEF IInv, AsLateAsDecoder, BetweenIterations, LatencyIsOver
  <2>6. Head(queue) = queue[1] /\ 1 \in 1 .. Len(queue) /\ Len(queue) - 1 = Latency
    BY <2>5
  <2>7. Head(queue).source = {b \in Bits : <<b, Latency>> \in coderRegistries}
    BY <2>1, <2>6 DEF QueueMatchesRegisters
  <2>8. Coder!OldestSent' = Head(queue).source
    BY <2>1, <2>7, CoderSets, SimulationAssumption
    DEF Coder!OldestSent, Coder!OldestReceived
  <2>9. SymDiff(Head(queue).source, decoded') = SymDiff(decoded', Coder!OldestSent')
    BY <2>8 DEF SymDiff
  <2>. QED BY <2>4, <2>9
<1>5. CASE TakeReceivedBlock
  BY <1>5 DEF TakeReceivedBlock, DecodeBlock
<1>6. CASE UNCHANGED simulationVars
  BY <1>6 DEF simulationVars, vars, coderVars, Coder!OldestSent, Coder!OldestReceived
<1>. QED BY <1>1, <1>2, <1>3, <1>4, <1>5, <1>6 DEF SimulationNext

LEMMA QueueInit == SimulationInit => QueueMatchesRegisters /\ CountsDecoderErrors
<1> SUFFICES ASSUME SimulationInit PROVE QueueMatchesRegisters /\ CountsDecoderErrors
  OBVIOUS
<1>1. queue = <<>> /\ counter = 0
  BY DEF SimulationInit, Init
<1>2. Len(queue) = 0
  BY <1>1
<1>. QED
  BY <1>1, <1>2, EngineAssumption, SimulationAssumption
  DEF QueueMatchesRegisters, CountsDecoderErrors

(***************************************************************************)
(* The items that wait in the queue of ModelingEngine are, in their order, *)
(* the blocks in the registers of ConvSelfOrthCoder, in each simulation    *)
(* and in the middle of an iteration.                                      *)
(***************************************************************************)
THEOREM QueueHoldsRegisters == SimulationSpec => []QueueMatchesRegisters
BY ComposedInit, ComposedStep, QueueInit, QueueFollows, PTL DEF SimulationSpec

(***************************************************************************)
(* The bits in error that SimulateIteration reports are those that Decode  *)
(* got wrong.                                                              *)
(***************************************************************************)
THEOREM ErrorsAreTheDecoders == SimulationSpec => []CountsDecoderErrors
BY ComposedInit, ComposedStep, QueueInit, QueueFollows, ItemsMeetBlocks, PTL
DEF SimulationSpec

-----------------------------------------------------------------------------
(***************************************************************************)
(* What is counted, and the errors on the line.                            *)
(***************************************************************************)
\* The coder's registers, the block and the line errors are in step.
LineKept ==
  useCoder => LineTracked(phase, coderRegistries, decoderRegistries,
                          syndromeRegistries, block, errors)

\* Up to now the line has stayed within the code distance.
WithinInv ==
  (useCoder /\ ~ exceeded) =>
    /\ WithinDistance(Cardinality(errors))
    /\ FlagsInStep(phase, syndromeRegistries, errors)
    /\ mCounter = volume

LEMMA LineStaysInStep ==
  ASSUME ComposedInv, LineKept, [SimulationNext]_simulationVars
  PROVE  LineKept'
<1> USE DEF LineKept
<1>1. CASE StartSimulation
  BY <1>1 DEF StartSimulation, SimulateTotal, coderVars
<1>2. CASE \E source \in Blocks : SendBlock(source)
  <2>1. PICK source \in Blocks : SendBlock(source)
    BY <1>2
  <2> SUFFICES ASSUME useCoder' PROVE LineKept'
    OBVIOUS
  <2>2. useCoder /\ Coder!Encode(source)
    BY <2>1 DEF SendBlock, EncodeBlock
  <2>3. source \in SUBSET DataBranches
    BY <2>1, SimulationAssumption DEF Blocks
  <2> QED
    BY <2>2, <2>3, CoderEncodes, EncodeKeepsTrack
<1>3. CASE \E noise \in SUBSET LinesInUse : PassChannel(noise)
  <2>1. PICK noise \in SUBSET LinesInUse : PassChannel(noise)
    BY <1>3
  <2> SUFFICES ASSUME useCoder' PROVE LineKept'
    OBVIOUS
  <2>2. useCoder /\ Coder!HandleData(noise) /\ noise \in SUBSET Lines
    BY <2>1 DEF PassChannel, TransmitBlock, LinesInUse
  <2> QED
    BY <2>2, CoderMeetsNoise, NoiseKeepsTrack
<1>4. CASE TakeDecodedBlock
  <2>1. useCoder /\ Coder!DecodeCore
    BY <1>4 DEF TakeDecodedBlock
  <2>2. PICK flips, next :
          /\ flips \in SUBSET DataBranches
          /\ Arrives(decoderRegistries, syndromeRegistries, block,
                     decoderRegistries', next)
          /\ syndromeRegistries' = next \ Dropped(flips)
    BY <2>1, CoderDecodes
  <2>3. syndromeRegistries' \in SUBSET next
    BY <2>2
  <2> QED
    BY <2>1, <2>2, <2>3, CoderDecodes, DecodeKeepsTrack
<1>5. CASE TakeReceivedBlock
  BY <1>5 DEF TakeReceivedBlock, DecodeBlock
<1>6. CASE UNCHANGED simulationVars
  BY <1>6 DEF simulationVars, vars, coderVars
<1>. QED BY <1>1, <1>2, <1>3, <1>4, <1>5, <1>6 DEF SimulationNext

\* An item that the engine counts has a decoded block.
LEMMA CountedItem ==
  ASSUME ComposedInv, useCoder, NEW destData, DecodeBlock(destData),
         item' # NoItem => item'.bitDiffCount = 0
  PROVE  mCounter' = mCounter
BY DEF DecodeBlock, CountItem, totals

\* While the line stays within the code distance nothing is counted.
LEMMA WithinStep ==
  ASSUME CorrectingCode, ComposedInv, QueueMatchesRegisters, CountsDecoderErrors,
         LineKept, WithinInv, [SimulationNext]_simulationVars
  PROVE  WithinInv'
<1>1. CASE StartSimulation
  BY <1>1 DEF WithinInv, StartSimulation, SimulateTotal, coderVars
<1>2. CASE \E source \in Blocks : SendBlock(source)
  <2>1. PICK source \in Blocks : SendBlock(source)
    BY <1>2
  <2> SUFFICES ASSUME useCoder', ~ exceeded' PROVE WithinInv'
    BY DEF WithinInv
  <2>2. useCoder /\ ~ exceeded /\ Coder!Encode(source) /\ UNCHANGED mCounter
    BY <2>1 DEF SendBlock, EncodeBlock, totals
  <2>3. UNCHANGED <<syndromeRegistries, errors>> /\ phase = "encode" /\ phase' = "transmit"
    BY <2>2, CoderEncodes
  <2> QED
    BY <2>2, <2>3, EncodeKeepsFlags DEF WithinInv
<1>3. CASE \E noise \in SUBSET LinesInUse : PassChannel(noise)
  <2>1. PICK noise \in SUBSET LinesInUse : PassChannel(noise)
    BY <1>3
  <2> SUFFICES ASSUME useCoder', ~ exceeded' PROVE WithinInv'
    BY DEF WithinInv
  <2>2. /\ useCoder /\ ~ exceeded /\ Coder!HandleData(noise)
        /\ noise \in SUBSET Lines /\ UNCHANGED mCounter
        /\ WithinDistance(Cardinality(errors'))
    BY <2>1 DEF PassChannel, TransmitBlock, LinesInUse, totals
  <2>3. /\ phase = "transmit" /\ phase' = "decode" /\ UNCHANGED syndromeRegistries
        /\ errors' = Aged(errors, Lines, SpanAges, noise)
    BY <2>2, CoderMeetsNoise
  <2>4. /\ syndromeRegistries \in SUBSET (CheckBranches \X Ages)
        /\ errors \in SUBSET (Lines \X SpanAges)
    BY <2>2 DEF LineKept, LineTracked
  <2>5. FlagsInStep("decode", syndromeRegistries, errors')
    BY <2>2, <2>3, <2>4, NoiseKeepsFlags DEF WithinInv
  <2> QED
    BY <2>2, <2>3, <2>5 DEF WithinInv
<1>4. CASE TakeDecodedBlock
  <2> SUFFICES ASSUME ~ exceeded' PROVE WithinInv'
    BY DEF WithinInv
  <2>1. /\ useCoder /\ Coder!DecodeCore /\ DecodeBlock(decoded') /\ ~ exceeded
        /\ UNCHANGED <<useCoder, exceeded>>
    BY <1>4 DEF TakeDecodedBlock, DecodeBlock
  <2>2. /\ phase = "decode" /\ phase' = "encode"
        /\ UNCHANGED <<coderRegistries, block, errors>>
    BY <2>1, CoderDecodes
  <2> DEFINE oldest(bank) == {b \in DataBranches : <<b, polynomPower>> \in bank}
  <2>3. PICK flips, next :
          /\ flips \in SUBSET DataBranches
          /\ Arrives(decoderRegistries, syndromeRegistries, block,
                     decoderRegistries', next)
          /\ PassThreshold(flips, next, {})
          /\ decoded' = SymDiff(oldest(decoderRegistries'), flips)
          /\ syndromeRegistries' = next \ Dropped(flips)
    BY <2>1, CoderDecodes
  <2>4. /\ LineTracked("decode", coderRegistries, decoderRegistries, syndromeRegistries,
                       block, errors)
        /\ FlagsInStep("decode", syndromeRegistries, errors)
        /\ WithinDistance(Cardinality(errors))
        /\ mCounter = volume
    BY <2>1, <2>2 DEF LineKept, WithinInv
  <2>5. errors \in SUBSET (Lines \X SpanAges)
    BY <2>4 DEF LineTracked
  <2>6. FlagsShow(next, errors) /\ FlagsDue(next, errors)
    BY <2>3, <2>4, NextFlagsExplained, NextFlagsDue
  <2>7. flips = oldest(errors)
    BY <2>3, <2>4, <2>5, <2>6, PassIsError
  <2>8. FlagsInStep("encode", syndromeRegistries', errors)
    <3>1. next \in SUBSET (CheckBranches \X Ages)
      BY <2>3, ShiftCells DEF Arrives
    <3> QED
      BY <2>3, <2>5, <2>6, <2>7, <3>1, DecodeKeepsFlags
  <2>9. decoded' = oldest(coderRegistries)
    <3>1. Arrived(coderRegistries, decoderRegistries', block, errors)
      BY <2>3, <2>4, BlockArrives DEF Arrives
    <3>2. polynomPower \in Ages
      BY CoderAssumption DEF RegistersFit, Ages
    <3>3. \A b \in DataBranches :
            b \in oldest(decoderRegistries')
              <=> ((b \in oldest(coderRegistries)) # (b \in oldest(errors)))
      BY <3>1, <3>2 DEF Arrived
    <3> QED
      BY <2>3, <2>7, <3>3 DEF SymDiff
  <2>10. item' # NoItem => item'.bitDiffCount = 0
    <3> SUFFICES ASSUME item' # NoItem PROVE item'.bitDiffCount = 0
      OBVIOUS
    <3>1. LatencyIsOver
      BY <2>1 DEF DecodeBlock, Dequeue, Discard
    <3>2. counter \in 0 .. MaxCount /\ counter' = Counted(counter)
          /\ DecoderTactsLatency = polynomPower
      BY <2>1, SimulationAssumption
      DEF ComposedInv, IInv, TypeOK, DecodeBlock, DecoderTactsLatency
    <3>3. counter' > polynomPower
      BY <3>1, <3>2, EngineAssumption, SimulationAssumption DEF Counted, LatencyIsOver
    <3>4. item'.bitDiffCount = Cardinality(SymDiff(decoded', Coder!OldestSent'))
      BY <2>1, <2>2, <3>3, ItemsMeetBlocks DEF CountsDecoderErrors
    <3>5. Coder!OldestSent' = decoded'
      BY <2>2, <2>9, CoderSets DEF Coder!OldestSent, Coder!OldestReceived
    <3>6. SymDiff(decoded', decoded') = {}
      BY DEF SymDiff
    <3> QED
      BY <3>4, <3>5, <3>6, FS_EmptySet
  <2>11. mCounter' = mCounter
    BY <2>1, <2>10, CountedItem
  <2> QED
    BY <2>2, <2>4, <2>8, <2>11 DEF WithinInv
<1>5. CASE TakeReceivedBlock
  BY <1>5 DEF WithinInv, TakeReceivedBlock, DecodeBlock
<1>6. CASE UNCHANGED simulationVars
  BY <1>6 DEF WithinInv, simulationVars, vars, coderVars, totals
<1>. QED BY <1>1, <1>2, <1>3, <1>4, <1>5, <1>6 DEF SimulationNext

LEMMA WithinInit == SimulationInit => LineKept /\ WithinInv
<1> SUFFICES ASSUME SimulationInit PROVE LineKept /\ WithinInv
  OBVIOUS
<1>1. /\ coderRegistries = {} /\ decoderRegistries = {} /\ syndromeRegistries = {}
      /\ errors = {} /\ phase = "encode" /\ mCounter = volume
  BY DEF SimulationInit, Init, Coder!Init
<1>2. WithinDistance(Cardinality({}))
  BY FS_EmptySet, DminBounds DEF WithinDistance
<1>. QED BY <1>1, <1>2, FreshRegistersTrack DEF LineKept, WithinInv

(***************************************************************************)
(* Whatever the code that corrects errors, and whatever the noise: until a *)
(* span of blocks has had more errors than the code distance bears, no     *)
(* block is counted in error, in no simulation, however many there have    *)
(* been on the same registers.                                             *)
(***************************************************************************)
THEOREM CountsOnlyAfterExceeding ==
  ASSUME CorrectingCode
  PROVE  SimulationSpec => []CountsOnlyBeyondDistance
<1>1. ComposedInv /\ WithinInv => CountsOnlyBeyondDistance
  BY EngineAssumption DEF WithinInv, CountsOnlyBeyondDistance
<1>. QED
  BY <1>1, ComposedInit, ComposedStep, QueueInit, QueueFollows, ItemsMeetBlocks,
     WithinInit, LineStaysInStep, WithinStep, PTL
  DEF SimulationSpec

-----------------------------------------------------------------------------
(***************************************************************************)
(* The blocks of bytes: each step of an iteration keeps them with one      *)
(* owner.                                                                  *)
(***************************************************************************)
OwnedItems == [source : Nat, encoded : Nat, received : Nat, decoded : Nat]

\* What the items have got by now; only the newest lacks a received block, until the
\* channel has been called.
ItemsComplete ==
  /\ \A place \in 1 .. Len(owned) : owned[place].decoded = Null
  /\ stage = "transmit" => owned[Len(owned)].received = Null
  /\ stage = "decode" => owned[Len(owned)].received # Null

BuffersInv ==
  /\ IsFiniteSet(heap)
  /\ heap \subseteq Nat \ {Null}
  /\ owned \in Seq(OwnedItems)
  /\ BlocksHaveOneOwner
  /\ ItemsComplete

-----------------------------------------------------------------------------
\* new returns an address that is not in use, and not the null pointer.
LEMMA FreshAddress ==
  ASSUME NEW used, IsFiniteSet(used), used \subseteq Nat \ {Null}
  PROVE  /\ NewAddress(used) \in Nat \ {Null}
         /\ NewAddress(used) \notin used
         /\ IsFiniteSet(used \cup {NewAddress(used)})
<1> DEFINE n == Cardinality(used) + 1
           free == 1 .. n \ used
           Less == {pair \in Nat \X Nat : pair[1] < pair[2]}
<1>1. n \in Nat /\ n > Cardinality(used) /\ Cardinality(used) \in Nat
  BY FS_CardinalityType
<1>2. free # {}
  <2> SUFFICES ASSUME 1 .. n \subseteq used PROVE FALSE
    OBVIOUS
  <2> HIDE DEF n
  <2>1. Cardinality(1 .. n) =< Cardinality(used)
    BY FS_Subset
  <2>2. Cardinality(1 .. n) = n
    BY <1>1, FS_Interval
  <2>. QED BY <1>1, <2>1, <2>2
<1>3. free \subseteq Nat \ {Null}
  BY <1>1 DEF Null
<1>4. IsWellFoundedOn(Less, Nat)
  BY NatLessThanWellFounded DEF OpToRel
<1> HIDE DEF n
<1>5. PICK x \in free : \A y \in free : <<y, x>> \notin Less
  <2> HIDE DEF Less, free
  <2>. QED BY <1>2, <1>3, <1>4, WFMin
<1>6. \A y \in free : x =< y
  <2> TAKE y \in free
  <2>1. y \in Nat /\ x \in Nat
    BY <1>3
  <2>2. y < x => <<y, x>> \in Less
    BY <2>1
  <2> HIDE DEF Less
  <2>. QED BY <1>5, <2>1, <2>2
<1>7. Min(free) \in free
  <2> HIDE DEF free
  <2>. QED BY <1>6 DEF Min
<1>8. NewAddress(used) = Min(free)
  BY DEF NewAddress, n
<1>9. IsFiniteSet(used \cup {NewAddress(used)})
  BY FS_AddElement
<1>. QED BY <1>3, <1>7, <1>8, <1>9

\* The addresses of an item, one by one.
LEMMA ItemBlocks ==
  ASSUME NEW it \in OwnedItems
  PROVE  /\ BlocksOf(it) = {it.source, it.encoded, it.received, it.decoded} \ {Null}
         /\ BlocksOf(it) \subseteq Nat
BY DEF BlocksOf, BlockNames, OwnedItems

LEMMA OwnedBlock ==
  ASSUME BlocksHaveOneOwner,
         NEW place \in 1 .. Len(owned), NEW name \in BlockNames,
         owned[place][name] # Null
  PROVE  owned[place][name] \in heap
<1>1. owned[place][name] \in BlocksOf(owned[place])
  BY DEF BlocksOf
<1>. QED BY <1>1 DEF BlocksHaveOneOwner

-----------------------------------------------------------------------------
LEMMA SourceIsOwned ==
  ASSUME IInv, BuffersInv, NEW source \in Blocks, EncodeBlock(source), AllocateSource
  PROVE  BuffersInv'
<1> DEFINE s == NewAddress(heap)
           e == IF useCoder THEN NewAddress(heap \cup {s}) ELSE Null
           it == [source |-> s, encoded |-> e, received |-> Null, decoded |-> Null]
<1>1. /\ heap' = heap \cup BlocksOf(it) /\ owned' = Append(owned, it)
      /\ stage' = "transmit"
  BY DEF AllocateSource, EncodeBlock
<1>2. s \in Nat \ {Null} /\ s \notin heap /\ IsFiniteSet(heap \cup {s})
  BY FreshAddress DEF BuffersInv
<1>3. e \in Nat /\ e \notin heap \cup {s} /\ IsFiniteSet(heap \cup {s, e})
  <2> HIDE DEF s
  <2>1. heap \cup {s} \subseteq Nat \ {Null} /\ Null \in Nat
    BY <1>2 DEF BuffersInv, Null
  <2>2. CASE useCoder
    <3>1. /\ e \in Nat \ {Null} /\ e \notin heap \cup {s}
          /\ IsFiniteSet((heap \cup {s}) \cup {e})
      BY <1>2, <2>1, <2>2, FreshAddress
    <3>2. (heap \cup {s}) \cup {e} = heap \cup {s, e}
      OBVIOUS
    <3>. QED BY <3>1, <3>2
  <2>3. CASE ~ useCoder
    <3>1. IsFiniteSet((heap \cup {s}) \cup {Null})
      BY <1>2, FS_AddElement
    <3>2. (heap \cup {s}) \cup {Null} = heap \cup {s, Null}
      OBVIOUS
    <3>. QED BY <2>1, <2>3, <3>1, <3>2
  <2>. QED BY <2>2, <2>3
<1> HIDE DEF s, e
<1>4. /\ it \in OwnedItems /\ it.source = s /\ it.encoded = e
      /\ it.received = Null /\ it.decoded = Null
  BY <1>2, <1>3 DEF OwnedItems, Null
<1>5. BlocksOf(it) = {s, e} \ {Null}
  BY <1>4, ItemBlocks
<1>6. \A name, nameOther \in BlockNames :
        it[name] # Null /\ it[name] = it[nameOther] => name = nameOther
  BY <1>3, <1>4 DEF BlockNames
<1>7. \A name \in BlockNames : it[name] \notin heap
  BY <1>2, <1>3, <1>4 DEF BlockNames, BuffersInv
<1> HIDE DEF it
<1>8. /\ owned' \in Seq(OwnedItems) /\ Len(owned) \in Nat
      /\ Len(owned') = Len(owned) + 1
      /\ \A n \in 1 .. Len(owned) : owned'[n] = owned[n]
      /\ owned'[Len(owned')] = it
  BY <1>1, <1>4, AppendProperties DEF BuffersInv
<1>9. Len(queue') = Len(queue) + 1
  BY DEF EncodeBlock, IInv, TypeOK
<1>10. IsFiniteSet(heap') /\ heap' \subseteq Nat \ {Null}
  <2>1. heap' \subseteq heap \cup {s, e}
    BY <1>1, <1>5
  <2>2. IsFiniteSet(heap')
    BY <2>1, <1>3, FS_Subset
  <2>. QED BY <1>1, <1>2, <1>3, <1>5, <2>2 DEF BuffersInv
<1>11. BlocksHaveOneOwner'
  <2>1. Len(owned') = Len(queue')
    BY <1>8, <1>9 DEF BuffersInv, BlocksHaveOneOwner
  <2>2. heap' = UNION {BlocksOf(owned'[place]) : place \in 1 .. Len(owned')}
    <3>1. heap = UNION {BlocksOf(owned[place]) : place \in 1 .. Len(owned)}
      BY DEF BuffersInv, BlocksHaveOneOwner
    <3>2. 1 .. Len(owned') = (1 .. Len(owned)) \cup {Len(owned')}
      BY <1>8
    <3>3. \A place \in 1 .. Len(owned) : BlocksOf(owned'[place]) = BlocksOf(owned[place])
      BY <1>8
    <3>4. BlocksOf(owned'[Len(owned')]) = BlocksOf(it)
      BY <1>8
    <3>. QED BY <1>1, <3>1, <3>2, <3>3, <3>4
  <2>3. ASSUME NEW place \in 1 .. Len(owned'), NEW other \in 1 .. Len(owned'),
               NEW name \in BlockNames, NEW nameOther \in BlockNames,
               owned'[place][name] # Null,
               owned'[place][name] = owned'[other][nameOther]
        PROVE  place = other /\ name = nameOther
    <3>1. CASE place \in 1 .. Len(owned) /\ other \in 1 .. Len(owned)
      BY <1>8, <2>3, <3>1 DEF BuffersInv, BlocksHaveOneOwner
    <3>2. CASE place = Len(owned') /\ other = Len(owned')
      BY <1>6, <1>8, <2>3, <3>2
    <3>3. CASE place \in 1 .. Len(owned) /\ other = Len(owned')
      BY <1>7, <1>8, <2>3, <3>3, OwnedBlock DEF BuffersInv
    <3>4. CASE place = Len(owned') /\ other \in 1 .. Len(owned)
      BY <1>7, <1>8, <2>3, <3>4, OwnedBlock DEF BuffersInv
    <3>. QED BY <1>8, <3>1, <3>2, <3>3, <3>4
  <2>. QED BY <2>1, <2>2, <2>3 DEF BlocksHaveOneOwner
<1>12. ItemsComplete'
  BY <1>1, <1>4, <1>8 DEF BuffersInv, ItemsComplete
<1>. QED BY <1>8, <1>10, <1>11, <1>12 DEF BuffersInv

LEMMA ReceivedIsOwned ==
  ASSUME IInv, BuffersInv, NEW equal \in BOOLEAN, TransmitBlock(equal), AllocateReceived
  PROVE  BuffersInv'
<1> DEFINE r == NewAddress(heap)
           last == Len(owned)
           it == [owned[last] EXCEPT !.received = r]
<1>1. /\ heap' = heap \cup {r} /\ owned' = [owned EXCEPT ![last] = it]
      /\ stage = "transmit" /\ stage' = "decode"
  BY DEF AllocateReceived, TransmitBlock
<1>2. r \in Nat \ {Null} /\ r \notin heap /\ IsFiniteSet(heap')
  BY <1>1, FreshAddress DEF BuffersInv
<1>3. Len(queue') = Len(queue) /\ Len(queue) > 0
  <2>1. queue \in Seq(QueueItems) /\ counter \in Nat
    BY EngineAssumption DEF IInv, TypeOK, QueueItems
  <2>2. queue' = queue \/ queue' = [queue EXCEPT ![Len(queue)].noiseExists = TRUE]
    BY DEF TransmitBlock
  <2>3. Len(queue') = Len(queue)
    BY <2>1, <2>2
  <2>4. Len(queue) > 0
    BY <1>1, <2>1, LatencyType DEF IInv, AsLateAsDecoder, BetweenIterations
  <2>. QED BY <2>3, <2>4
<1>4. /\ owned \in Seq(OwnedItems) /\ last \in 1 .. Len(owned)
      /\ owned[last] \in OwnedItems /\ owned[last].received = Null
  BY <1>1, <1>3, ElementOfSeq DEF BuffersInv, BlocksHaveOneOwner, ItemsComplete
<1> HIDE DEF r, last
<1>5. /\ it \in OwnedItems /\ it.source = owned[last].source
      /\ it.encoded = owned[last].encoded /\ it.received = r
      /\ it.decoded = owned[last].decoded
  BY <1>2, <1>4 DEF OwnedItems
<1>6. /\ it["received"] = r
      /\ \A name \in BlockNames \ {"received"} : it[name] = owned[last][name]
  BY <1>5 DEF BlockNames
<1> HIDE DEF it
<1>7. BlocksOf(it) = BlocksOf(owned[last]) \cup {r}
  <2>1. BlocksOf(it) = {it.source, it.encoded, it.received, it.decoded} \ {Null}
    BY <1>5, ItemBlocks
  <2>2. BlocksOf(owned[last]) =
          {owned[last].source, owned[last].encoded, owned[last].received,
           owned[last].decoded} \ {Null}
    BY <1>4, ItemBlocks
  <2>. QED BY <1>2, <1>4, <1>5, <2>1, <2>2
<1>8. /\ owned' \in Seq(OwnedItems) /\ Len(owned') = Len(owned)
      /\ owned'[last] = it
      /\ \A n \in (1 .. Len(owned)) \ {last} : owned'[n] = owned[n]
  BY <1>1, <1>4, <1>5, ExceptSeq
<1>9. BlocksHaveOneOwner'
  <2>1. Len(owned') = Len(queue')
    BY <1>3, <1>8 DEF BuffersInv, BlocksHaveOneOwner
  <2>2. heap' = UNION {BlocksOf(owned'[place]) : place \in 1 .. Len(owned')}
    <3>1. heap = UNION {BlocksOf(owned[place]) : place \in 1 .. Len(owned)}
      BY DEF BuffersInv, BlocksHaveOneOwner
    <3>2. \A place \in (1 .. Len(owned)) \ {last} :
            BlocksOf(owned'[place]) = BlocksOf(owned[place])
      BY <1>8
    <3>3. BlocksOf(owned'[last]) = BlocksOf(owned[last]) \cup {r}
      BY <1>7, <1>8
    <3>4. ASSUME NEW a PROVE a \in heap' <=>
            \E place \in 1 .. Len(owned) : a \in BlocksOf(owned'[place])
      <4>1. a \in heap' <=> a \in heap \/ a = r
        BY <1>1
      <4>2. a \in heap <=> \E place \in 1 .. Len(owned) : a \in BlocksOf(owned[place])
        BY <3>1
      <4>. QED BY <1>4, <3>2, <3>3, <4>1, <4>2
    <3>. QED BY <1>8, <3>4
  <2>3. ASSUME NEW place \in 1 .. Len(owned'), NEW other \in 1 .. Len(owned'),
               NEW name \in BlockNames, NEW nameOther \in BlockNames,
               owned'[place][name] # Null,
               owned'[place][name] = owned'[other][nameOther]
        PROVE  place = other /\ name = nameOther
    <3> DEFINE isNew == place = last /\ name = "received"
               isNewOther == other = last /\ nameOther = "received"
    <3>1. /\ isNew => owned'[place][name] = r
          /\ isNewOther => owned'[other][nameOther] = r
      BY <1>6, <1>8
    <3>2. /\ ~ isNew => owned'[place][name] = owned[place][name]
          /\ ~ isNewOther => owned'[other][nameOther] = owned[other][nameOther]
      BY <1>6, <1>8
    <3>3. CASE isNew /\ isNewOther
      BY <3>3
    <3>4. CASE ~ isNew /\ ~ isNewOther
      BY <1>8, <2>3, <3>2, <3>4 DEF BuffersInv, BlocksHaveOneOwner
    <3>5. CASE isNew /\ ~ isNewOther
      BY <1>2, <1>8, <2>3, <3>1, <3>2, <3>5, OwnedBlock DEF BuffersInv
    <3>6. CASE ~ isNew /\ isNewOther
      BY <1>2, <1>8, <2>3, <3>1, <3>2, <3>6, OwnedBlock DEF BuffersInv
    <3>. QED BY <3>3, <3>4, <3>5, <3>6
  <2>. QED BY <2>1, <2>2, <2>3 DEF BlocksHaveOneOwner
<1>10. ItemsComplete'
  <2>1. \A place \in 1 .. Len(owned) : owned[place].decoded = Null
    BY DEF BuffersInv, ItemsComplete
  <2>2. \A place \in 1 .. Len(owned') : owned'[place].decoded = Null
    BY <1>4, <1>5, <1>8, <2>1
  <2>3. owned'[Len(owned')].received # Null
    BY <1>2, <1>5, <1>8 DEF last
  <2>. QED BY <1>1, <2>2, <2>3 DEF ItemsComplete
<1>. QED BY <1>1, <1>2, <1>8, <1>9, <1>10 DEF BuffersInv

\* An item that is not counted yet stays as it is, and the new block is deleted; the
\* oldest item goes with all its blocks.
LEMMA ReleaseKeepsOwners ==
  ASSUME IInv, BuffersInv, NEW destData \in Blocks, DecodeBlock(destData), ReleaseDecoded
  PROVE  BuffersInv'
<1>1. /\ stage = "decode" /\ stage' \in {"encode", "idle"}
      /\ LatencyIsOver => queue' = Tail(queue)
      /\ ~ LatencyIsOver => queue' = queue
  BY DEF DecodeBlock, Dequeue, Discard
<1>2. /\ Len(queue) \in Nat /\ Len(queue) > 0 /\ queue \in Seq(QueueItems)
      /\ ~ useCoder => Len(queue) = 1 /\ LatencyIsOver
  BY <1>1, EngineAssumption, LatencyType
  DEF IInv, TypeOK, AsLateAsDecoder, BetweenIterations, QueueItems, LatencyIsOver,
      DecoderTactsLatency
<1>3. /\ owned \in Seq(OwnedItems) /\ Len(owned) = Len(queue)
      /\ Head(owned) = owned[1] /\ owned[1] \in OwnedItems /\ owned # <<>>
      /\ owned[1].decoded = Null
      /\ heap = UNION {BlocksOf(owned[place]) : place \in 1 .. Len(owned)}
  BY <1>2 DEF BuffersInv, BlocksHaveOneOwner, ItemsComplete
<1>4. CASE ~ LatencyIsOver
  <2>1. useCoder
    BY <1>2, <1>4
  <2> DEFINE d == NewAddress(heap)
  <2>2. heap' = (heap \cup {d}) \ {d} /\ owned' = owned
    BY <1>4, <2>1 DEF ReleaseDecoded
  <2>3. d \notin heap
    BY FreshAddress DEF BuffersInv
  <2> HIDE DEF d
  <2>4. heap' = heap
    BY <2>2, <2>3
  <2>5. BlocksHaveOneOwner'
    BY <1>1, <1>4, <2>2, <2>4 DEF BuffersInv, BlocksHaveOneOwner
  <2>6. ItemsComplete'
    BY <1>1, <2>2 DEF BuffersInv, ItemsComplete
  <2>. QED BY <2>2, <2>4, <2>5, <2>6 DEF BuffersInv
<1>5. CASE LatencyIsOver
  <2> DEFINE d == IF useCoder THEN NewAddress(heap) ELSE owned[Len(owned)].received
             kept == IF useCoder THEN d ELSE Null
             it == [Head(owned) EXCEPT !.decoded = kept]
  <2>1. heap' = (heap \cup {d}) \ BlocksOf(it) /\ owned' = Tail(owned)
    BY <1>5 DEF ReleaseDecoded, ReturnItem
  <2>2. /\ d \in Nat \ {Null}
        /\ useCoder => d \notin heap
        /\ ~ useCoder => d = owned[1].received
    <3>1. CASE useCoder
      BY <3>1, FreshAddress DEF BuffersInv
    <3>2. CASE ~ useCoder
      <4>1. d = owned[1].received /\ Len(owned) = 1
        BY <1>2, <1>3, <3>2
      <4>2. d # Null
        BY <1>1, <3>2 DEF BuffersInv, ItemsComplete
      <4>3. owned[1].received \in Nat
        BY <1>3 DEF OwnedItems
      <4>. QED BY <3>2, <4>1, <4>2, <4>3
    <3>. QED BY <3>1, <3>2
  <2> HIDE DEF d
  <2>3. /\ it \in OwnedItems /\ it.source = owned[1].source
        /\ it.encoded = owned[1].encoded /\ it.received = owned[1].received
        /\ it.decoded = kept
    BY <1>3, <2>2 DEF OwnedItems, Null
  <2> HIDE DEF it
  <2>4. BlocksOf(it) = BlocksOf(owned[1]) \cup {d}
    <3>1. BlocksOf(it) = {it.source, it.encoded, it.received, it.decoded} \ {Null}
      BY <2>3, ItemBlocks
    <3>2. BlocksOf(owned[1]) =
            {owned[1].source, owned[1].encoded, owned[1].received,
             owned[1].decoded} \ {Null}
      BY <1>3, ItemBlocks
    <3>. QED BY <1>3, <2>2, <2>3, <3>1, <3>2
  <2> HIDE DEF kept
  <2>5. /\ owned' \in Seq(OwnedItems) /\ Len(owned') = Len(owned) - 1
        /\ \A n \in 1 .. Len(owned') : owned'[n] = owned[n + 1]
    BY <1>3, <2>1, HeadTailProperties
  <2>6. Len(queue') = Len(queue) - 1
    BY <1>1, <1>2, <1>5
  <2>7. ASSUME NEW a, a # Null
        PROVE  a \in heap' <=> \E place \in 2 .. Len(owned) : a \in BlocksOf(owned[place])
    <3>1. a \in heap <=> \E place \in 1 .. Len(owned) : a \in BlocksOf(owned[place])
      BY <1>3
    <3>2. a \in heap' <=> a \in heap /\ a \notin BlocksOf(owned[1]) /\ a # d
      BY <2>1, <2>4
    <3>3. ASSUME NEW place \in 2 .. Len(owned), a \in BlocksOf(owned[place])
          PROVE  a \notin BlocksOf(owned[1]) /\ a # d
      <4>1. place \in 1 .. Len(owned) /\ 1 \in 1 .. Len(owned) /\ place # 1
        BY <1>2, <1>3
      <4>2. PICK name \in BlockNames : owned[place][name] = a
        BY <3>3 DEF BlocksOf
      <4>3. a \notin BlocksOf(owned[1])
        BY <2>7, <4>1, <4>2 DEF BlocksOf, BuffersInv, BlocksHaveOneOwner
      <4>4. a # d
        <5>1. CASE useCoder
          BY <2>2, <3>1, <3>3, <4>1, <5>1
        <5>2. CASE ~ useCoder
          BY <1>2, <1>3, <3>3, <5>2
        <5>. QED BY <5>1, <5>2
      <4>. QED BY <4>3, <4>4
    <3>4. \A place \in 1 .. Len(owned) : place = 1 \/ place \in 2 .. Len(owned)
      BY <1>2, <1>3
    <3>5. \A place \in 2 .. Len(owned) : place \in 1 .. Len(owned)
      BY <1>2, <1>3
    <3>. QED BY <3>1, <3>2, <3>3, <3>4, <3>5
  <2>8. heap' \subseteq Nat \ {Null} /\ IsFiniteSet(heap')
    <3>1. heap' \subseteq heap \cup {d} /\ IsFiniteSet(heap \cup {d})
      BY <2>1, FS_AddElement DEF BuffersInv
    <3>2. IsFiniteSet(heap')
      BY <3>1, FS_Subset
    <3>. QED BY <2>2, <3>1, <3>2 DEF BuffersInv
  <2>9. heap' = UNION {BlocksOf(owned'[place]) : place \in 1 .. Len(owned')}
    <3>1. \A place \in 1 .. Len(owned') :
            place + 1 \in 2 .. Len(owned) /\ owned'[place] = owned[place + 1]
      BY <1>2, <1>3, <2>5
    <3>2. \A place \in 2 .. Len(owned) :
            place - 1 \in 1 .. Len(owned') /\ owned'[place - 1] = owned[place]
      BY <1>2, <1>3, <2>5
    <3>3. \A place \in 1 .. Len(owned') : Null \notin BlocksOf(owned'[place])
      BY DEF BlocksOf
    <3>4. ASSUME NEW a
          PROVE  a \in heap' <=>
                   \E place \in 1 .. Len(owned') : a \in BlocksOf(owned'[place])
      <4>1. CASE a = Null
        BY <2>8, <3>3, <4>1
      <4>2. CASE a # Null
        BY <2>7, <3>1, <3>2, <4>2
      <4>. QED BY <4>1, <4>2
    <3>. QED BY <3>4
  <2>10. ASSUME NEW place \in 1 .. Len(owned'), NEW other \in 1 .. Len(owned'),
                NEW name \in BlockNames, NEW nameOther \in BlockNames,
                owned'[place][name] # Null,
                owned'[place][name] = owned'[other][nameOther]
         PROVE  place = other /\ name = nameOther
    <3>1. /\ place + 1 \in 1 .. Len(owned) /\ owned'[place] = owned[place + 1]
          /\ other + 1 \in 1 .. Len(owned) /\ owned'[other] = owned[other + 1]
      BY <1>2, <1>3, <2>5
    <3>2. place + 1 = other + 1 /\ name = nameOther
      BY <2>10, <3>1 DEF BuffersInv, BlocksHaveOneOwner
    <3>. QED BY <3>2
  <2>11. BlocksHaveOneOwner'
    BY <1>3, <2>5, <2>6, <2>9, <2>10 DEF BlocksHaveOneOwner
  <2>12. ItemsComplete'
    <3>1. \A place \in 1 .. Len(owned') :
            place + 1 \in 1 .. Len(owned) /\ owned'[place] = owned[place + 1]
      BY <1>2, <1>3, <2>5
    <3>. QED BY <1>1, <3>1 DEF BuffersInv, ItemsComplete
  <2>. QED BY <2>5, <2>8, <2>11, <2>12 DEF BuffersInv
<1>. QED BY <1>4, <1>5

LEMMA OwnersStep ==
  ASSUME ComposedInv, BuffersInv, [SimulationNext]_simulationVars
  PROVE  BuffersInv'
<1>0. IInv
  BY DEF ComposedInv
<1>1. CASE StartSimulation
  <2>1. UNCHANGED <<buffers, queue>> /\ stage' \in {"encode", "idle"}
    BY <1>1 DEF StartSimulation, SimulateTotal
  <2>2. BlocksHaveOneOwner'
    BY <2>1 DEF BuffersInv, BlocksHaveOneOwner, buffers
  <2>. QED BY <2>1, <2>2 DEF BuffersInv, ItemsComplete, buffers
<1>2. CASE \E source \in Blocks : SendBlock(source)
  BY <1>0, <1>2, SourceIsOwned DEF SendBlock
<1>3. CASE \E noise \in SUBSET LinesInUse : PassChannel(noise)
  <2>1. PICK equal \in BOOLEAN : TransmitBlock(equal) /\ AllocateReceived
    BY <1>3 DEF PassChannel
  <2>. QED BY <1>0, <2>1, ReceivedIsOwned
<1>4. CASE TakeDecodedBlock
  <2>1. decoded' \in Blocks
    BY <1>4, DecodedBlock DEF TakeDecodedBlock
  <2>2. PICK destData \in Blocks : DecodeBlock(destData) /\ ReleaseDecoded
    BY <1>4, <2>1 DEF TakeDecodedBlock
  <2>. QED BY <1>0, <2>2, ReleaseKeepsOwners
<1>5. CASE TakeReceivedBlock
  <2>1. ~ useCoder /\ DecodeBlock(block) /\ ReleaseDecoded
    BY <1>5 DEF TakeReceivedBlock
  <2>2. block \in Blocks
    BY <2>1 DEF ComposedInv, LineHoldsItem
  <2>. QED BY <1>0, <2>1, <2>2, ReleaseKeepsOwners
<1>6. CASE UNCHANGED simulationVars
  <2>1. UNCHANGED <<heap, owned, queue, stage>>
    BY <1>6 DEF simulationVars, vars, buffers
  <2>2. BlocksHaveOneOwner'
    BY <2>1 DEF BuffersInv, BlocksHaveOneOwner
  <2>. QED BY <2>1, <2>2 DEF BuffersInv, ItemsComplete
<1>. QED BY <1>1, <1>2, <1>3, <1>4, <1>5, <1>6 DEF SimulationNext

LEMMA OwnersInit == SimulationInit => BuffersInv
<1> SUFFICES ASSUME SimulationInit PROVE BuffersInv
  OBVIOUS
<1>1. heap = {} /\ owned = <<>> /\ queue = <<>> /\ stage = "idle"
  BY DEF SimulationInit, BuffersInit, Init
<1>2. IsFiniteSet(heap)
  BY <1>1, FS_EmptySet
<1>3. Len(owned) = 0 /\ Len(queue) = 0 /\ owned \in Seq(OwnedItems)
  BY <1>1
<1>. QED BY <1>1, <1>2, <1>3 DEF BuffersInv, BlocksHaveOneOwner, ItemsComplete

(***************************************************************************)
(* No block of bytes is lost, deleted twice or used after it was deleted   *)
(* by ModelingEngine and ModelingResultItem, with a coder or without one   *)
(* and over any number of simulations.                                     *)
(***************************************************************************)
THEOREM NoBlockIsLost == SimulationSpec => []BlocksHaveOneOwner
<1>1. BuffersInv => BlocksHaveOneOwner
  BY DEF BuffersInv
<1>. QED
  BY <1>1, ComposedInit, ComposedStep, OwnersInit, OwnersStep, PTL DEF SimulationSpec

=============================================================================
