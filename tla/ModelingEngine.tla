------------------------------ MODULE ModelingEngine ------------------------------
(***************************************************************************)
(* ModelingEngine (core_library/ModelingEngine.cpp): SimulateTotal calls   *)
(* SimulateIteration until it has counted limitErrors blocks in error.  An *)
(* iteration sends one block through the coder, the channel and the        *)
(* decoder; since the decoder is late, the items wait in a queue until     *)
(* their decoded block arrives.                                            *)
(*                                                                         *)
(* An iteration is three steps, one for each of the objects it calls: the  *)
(* coder, the channel, the decoder.  What the decoder returns is the input *)
(* of the third; CodecSimulation takes it from a ConvSelfOrthCoder.        *)
(* _storeItems is false, as in the tool: the item of an iteration is       *)
(* deleted once it has been counted.                                       *)
(***************************************************************************)
EXTENDS Integers, Sequences, FiniteSetsExt

CONSTANTS
  Bits,           \* the bits of a source block
  Latency,        \* the argument of SetDecoderLatency when there is a coder
  volume,         \* arguments of SimulateTotal
  limitErrors,
  MaxCount        \* bound: counts from MaxCount on are not told apart

ASSUME EngineAssumption ==
  /\ IsFiniteSet(Bits)
  /\ Latency \in Nat
  /\ volume \in Nat
  /\ limitErrors \in Nat
  /\ MaxCount \in Nat
  /\ MaxCount > Latency

VARIABLES
  useCoder,         \* _useCoder: Init was given a coder
  stage,            \* "idle" outside SimulateTotal, else the next step
  queue,            \* _workingItemsQueue, the oldest item first
  item,             \* what the last SimulateIteration returned
  counter,          \* _counter
  noiseCounter,     \* _noiseCounter
  mCounter,         \* the locals of SimulateTotal
  failsCounter,
  bitFailsCounter,
  bitErrorCounter,
  loopCounter,
  v

totals == <<mCounter, failsCounter, bitFailsCounter, bitErrorCounter, v>>
vars == <<useCoder, stage, queue, item, counter, noiseCounter, loopCounter, totals>>

\* A simulation without a coder has no latency (decoderType 0 of the tool).
DecoderTactsLatency == IF useCoder THEN Latency ELSE 0

\* A block of data bits is the set of its ones.
Blocks == SUBSET Bits

\* The null pointer of an iteration without a decoded block yet.
NoItem == [bitDiffCount |-> -1]

Counted(n) == IF n < MaxCount THEN n + 1 ELSE n

Init ==
  /\ useCoder \in BOOLEAN
  /\ stage = "idle"
  /\ queue = <<>>
  /\ item = NoItem
  /\ counter = 0
  /\ noiseCounter = 0
  /\ mCounter = volume
  /\ failsCounter = 0
  /\ bitFailsCounter = 0
  /\ bitErrorCounter = 0
  /\ loopCounter = 0
  /\ v = 0

-----------------------------------------------------------------------------
\* The call: new local counters, but the queue, _counter and _noiseCounter of the
\* call before.  One that is asked for no errors does not iterate.
SimulateTotal ==
  /\ stage = "idle"
  /\ stage' = IF volume < limitErrors THEN "encode" ELSE "idle"
  /\ mCounter' = volume
  /\ failsCounter' = 0
  /\ bitFailsCounter' = 0
  /\ bitErrorCounter' = 0
  /\ loopCounter' = 0
  /\ v' = 0
  /\ UNCHANGED <<useCoder, queue, item, counter, noiseCounter>>

\* Queue a new item with a generated block, and encode the block.
EncodeBlock(source) ==
  /\ stage = "encode"
  /\ queue' = Append(queue, [source |-> source, noiseExists |-> FALSE])
  /\ stage' = "transmit"
  /\ UNCHANGED <<useCoder, item, counter, noiseCounter, loopCounter, totals>>

\* Take what the channel made of the block, and note whether it is the same.
TransmitBlock(equal) ==
  /\ stage = "transmit"
  /\ IF equal
     THEN UNCHANGED <<queue, noiseCounter>>
     ELSE /\ queue' = [queue EXCEPT ![Len(queue)].noiseExists = TRUE]
          /\ noiseCounter' = Counted(noiseCounter)
  /\ stage' = "decode"
  /\ UNCHANGED <<useCoder, item, counter, loopCounter, totals>>

\* Mutant: an iteration too late.
LatencyIsLongOver == counter > DecoderTactsLatency

\* The decoder has seen enough for its first block.
LatencyIsOver == counter >= DecoderTactsLatency

\* Mutant: the newest item is taken.
DequeueNewest(destData) ==
  /\ LatencyIsOver
  /\ item' = [bitDiffCount |->
                 Cardinality(SymDiff(queue[Len(queue)].source, destData))]
  /\ queue' = SubSeq(queue, 1, Len(queue) - 1)

\* The latency is over: the oldest item gets the decoded block.
Dequeue(destData) ==
  /\ LatencyIsOver
  /\ item' = [bitDiffCount |-> Cardinality(SymDiff(Head(queue).source, destData))]
  /\ queue' = Tail(queue)

\* The decoder has not seen enough yet: the decoded block is thrown away.
Discard ==
  /\ ~ LatencyIsOver
  /\ item' = NoItem
  /\ UNCHANGED queue

\* Mutant: every item is counted, without regard to loopCounter.
CountItemAlways(it) ==
  IF it # NoItem
  THEN /\ IF it.bitDiffCount # 0
          THEN /\ bitFailsCounter' = bitFailsCounter + it.bitDiffCount
               /\ mCounter' = mCounter + 1
               /\ failsCounter' = failsCounter + 1
          ELSE UNCHANGED <<bitFailsCounter, mCounter, failsCounter>>
       /\ bitErrorCounter' = bitErrorCounter + it.bitDiffCount
       /\ v' = Counted(v)
  ELSE UNCHANGED totals

\* Mutant: the bits in error are counted for the blocks in error.
CountItemBits(it) ==
  IF it # NoItem /\ loopCounter >= DecoderTactsLatency
  THEN /\ bitFailsCounter' = bitFailsCounter + it.bitDiffCount
       /\ mCounter' = mCounter + it.bitDiffCount
       /\ failsCounter' = failsCounter + it.bitDiffCount
       /\ bitErrorCounter' = bitErrorCounter + it.bitDiffCount
       /\ v' = Counted(v)
  ELSE UNCHANGED totals

\* Mutant: v counts the blocks that were decoded right.
CountItemEither(it) ==
  IF it # NoItem /\ loopCounter >= DecoderTactsLatency
  THEN /\ IF it.bitDiffCount # 0
          THEN /\ bitFailsCounter' = bitFailsCounter + it.bitDiffCount
               /\ mCounter' = mCounter + 1
               /\ failsCounter' = failsCounter + 1
               /\ v' = v
          ELSE /\ UNCHANGED <<bitFailsCounter, mCounter, failsCounter>>
               /\ v' = Counted(v)
       /\ bitErrorCounter' = bitErrorCounter + it.bitDiffCount
  ELSE UNCHANGED totals

\* Mutant: mCounter is left alone.
CountItemOnly(it) ==
  IF it # NoItem /\ loopCounter >= DecoderTactsLatency
  THEN /\ v' = Counted(v)
       /\ UNCHANGED <<mCounter, failsCounter, bitFailsCounter, bitErrorCounter>>
  ELSE UNCHANGED totals

\* What SimulateTotal does with the item of an iteration.
CountItem(it) ==
  IF it # NoItem /\ loopCounter >= DecoderTactsLatency
  THEN /\ IF it.bitDiffCount # 0
          THEN /\ bitFailsCounter' = bitFailsCounter + it.bitDiffCount
               /\ mCounter' = mCounter + 1
               /\ failsCounter' = failsCounter + 1
          ELSE UNCHANGED <<bitFailsCounter, mCounter, failsCounter>>
       /\ bitErrorCounter' = bitErrorCounter + it.bitDiffCount
       /\ v' = Counted(v)
  ELSE UNCHANGED totals

\* Decode the received block, return the item whose turn it is, and count it.
DecodeBlock(destData) ==
  /\ stage = "decode"
  /\ Dequeue(destData) \/ Discard
  /\ counter' = Counted(counter)
  /\ CountItem(item')
  /\ loopCounter' = Counted(loopCounter)
  /\ stage' = IF mCounter' < limitErrors THEN "encode" ELSE "idle"
  /\ UNCHANGED <<useCoder, noiseCounter>>

\* The blocks the decoding side can return: any block from a decoder, and what was
\* received where there is none.
Received(destData) ==
  useCoder \/ (destData = Head(queue).source <=> ~ Head(queue).noiseExists)

Next ==
  \/ SimulateTotal
  \/ \E source \in Blocks : EncodeBlock(source)
  \/ \E equal \in BOOLEAN : TransmitBlock(equal)
  \/ \E destData \in Blocks : DecodeBlock(destData) /\ Received(destData)

\* Once called, SimulateTotal runs on: it waits for nothing.
Iterate == Next /\ stage # "idle"

Spec == Init /\ [][Next]_vars
FairSpec == Spec /\ WF_vars(Iterate)

-----------------------------------------------------------------------------
TypeOK ==
  /\ useCoder \in BOOLEAN
  /\ stage \in {"idle", "encode", "transmit", "decode"}
  /\ queue \in Seq([source : Blocks, noiseExists : BOOLEAN])
  /\ item \in [bitDiffCount : -1 .. Cardinality(Bits)]
  /\ counter \in 0 .. MaxCount
  /\ noiseCounter \in 0 .. MaxCount
  /\ mCounter \in {volume} \cup volume .. limitErrors
  /\ failsCounter \in Nat
  /\ bitFailsCounter \in Nat
  /\ bitErrorCounter \in Nat
  /\ loopCounter \in 0 .. MaxCount
  /\ v \in 0 .. MaxCount

BetweenIterations == stage \in {"idle", "encode"}

(***************************************************************************)
(* The queue holds the items of the last Latency iterations and no others, *)
(* however many simulations have been run: the item an iteration returns   *)
(* is the one of Latency iterations before, and the queue does not grow.   *)
(***************************************************************************)
QueueHoldsLatency ==
  BetweenIterations =>
    Len(queue) = IF counter < DecoderTactsLatency THEN counter
                 ELSE DecoderTactsLatency

(***************************************************************************)
(* The counters that the error rates are computed from fit together: every *)
(* block after the first Latency ones of a simulation is in v, the blocks  *)
(* in error are among them, and their bits in error are no fewer than they *)
(* and no more than they have.                                             *)
(***************************************************************************)
CountersAgree ==
  BetweenIterations =>
    /\ loopCounter < MaxCount =>
         v = IF loopCounter < DecoderTactsLatency THEN 0
             ELSE loopCounter - DecoderTactsLatency
    /\ v < MaxCount => failsCounter =< v
    /\ mCounter = volume + failsCounter
    /\ failsCounter =< bitFailsCounter
    /\ bitFailsCounter =< failsCounter * Cardinality(Bits)
    /\ bitErrorCounter = bitFailsCounter

(***************************************************************************)
(* Without a coder the blocks in error of the first simulation (v counts   *)
(* every iteration there has been) are the blocks that met noise.          *)
(***************************************************************************)
UncodedCountsNoise ==
  (~ useCoder /\ BetweenIterations /\ v = counter /\ counter < MaxCount)
    => failsCounter = noiseCounter

(***************************************************************************)
(* A simulation ends once it has met enough blocks in error.  If iterations *)
(* with a block in error keep coming, each simulation comes to its end; it *)
(* waits for nothing else.                                                 *)
(***************************************************************************)
BlockInError == stage = "encode" /\ item.bitDiffCount > 0

\* If blocks in error keep coming, a simulation that has begun comes to an end.
EndsIfErrorsKeepComing ==
  []<>BlockInError => []<>(stage = "idle")

(***************************************************************************)
(* When a simulation that iterated is over, the rates it returns are       *)
(* shares: v, which they divide by, is not zero, no more blocks are in     *)
(* error than v and no more bits than those blocks have.  noiseCounter     *)
(* counts the blocks on their way too, so the share of noisy blocks can    *)
(* pass 1, in a first simulation by no more than the latency.              *)
(***************************************************************************)
RatesAreShares ==
  (stage = "idle" /\ loopCounter > 0) =>
    /\ v > 0
    /\ v < MaxCount => /\ failsCounter =< v
                       /\ bitFailsCounter =< v * Cardinality(Bits)
    /\ (counter = loopCounter /\ counter < MaxCount)
         => noiseCounter =< v + DecoderTactsLatency

=============================================================================
