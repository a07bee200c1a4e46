------------------------------ MODULE CodecSimulation ------------------------------
(***************************************************************************)
(* The tool with decoderType 0 or 1: a ModelingEngine over a noisy line,   *)
(* without a coder or with a ConvSelfOrthCoder.  Each step of an iteration *)
(* of the engine is a step of the coder as well, which gives the engine    *)
(* the decoded block.  The instance of ModelingEngine has the data branches *)
(* for Bits and the power of the coder's polynomials for Latency: main     *)
(* passes m to SetDecoderLatency, and no latency without a coder.          *)
(***************************************************************************)
EXTENDS EngineBuffers, CoderRegistries

CONSTANT MaxErrors     \* that of ConvSelfOrthCoder

VARIABLES
  coderRegistries, decoderRegistries, syndromeRegistries, decoded, phase, errors,
  block,       \* transferData, and then noisedData
  exceeded     \* history: a span has had more errors than the code bears

Coder == INSTANCE ConvSelfOrthCoder

\* The engine is given the code's block length and latency.
ASSUME SimulationAssumption == Bits = DataBranches /\ Latency = polynomPower

coderVars == <<coderRegistries, decoderRegistries, syndromeRegistries, decoded,
               phase, errors, exceeded>>
simulationVars == <<vars, buffers, coderVars, block>>

SimulationInit == Init /\ BuffersInit /\ Coder!Init /\ exceeded = FALSE

\* Between simulations the coder keeps its registers.
StartSimulation == SimulateTotal /\ UNCHANGED <<buffers, coderVars, block>>

SendBlock(source) ==
  /\ EncodeBlock(source)
  /\ AllocateSource
  /\ IF useCoder
     THEN Coder!Encode(source) /\ UNCHANGED exceeded
     ELSE block' = source /\ UNCHANGED coderVars

\* Mutant: the encoded length without a coder as well.
LinesAlways == Lines

\* The lines that a block is sent on.
LinesInUse == IF useCoder THEN Lines ELSE Bits

PassChannel(noise) ==
  /\ TransmitBlock(noise = {})
  /\ AllocateReceived
  /\ IF useCoder
     THEN /\ Coder!HandleData(noise)
          /\ exceeded' = (exceeded \/ ~ WithinDistance(Cardinality(errors')))
     ELSE block' = SymDiff(block, noise) /\ UNCHANGED coderVars

TakeDecodedBlock ==
  /\ useCoder
  /\ Coder!DecodeCore
  /\ DecodeBlock(decoded')
  /\ ReleaseDecoded
  /\ UNCHANGED exceeded

TakeReceivedBlock ==
  /\ ~ useCoder
  /\ DecodeBlock(block)
  /\ ReleaseDecoded
  /\ UNCHANGED <<coderVars, block>>

SimulationNext ==
  \/ StartSimulation
  \/ \E source \in Blocks : SendBlock(source)
  \/ \E noise \in SUBSET LinesInUse : PassChannel(noise)
  \/ TakeDecodedBlock
  \/ TakeReceivedBlock

\* Once called, SimulateTotal runs on: it waits for nothing.
SimulationIterate == SimulationNext /\ stage # "idle"

SimulationSpec ==
  /\ SimulationInit
  /\ [][SimulationNext]_simulationVars
  /\ WF_simulationVars(SimulationIterate)

-----------------------------------------------------------------------------
(***************************************************************************)
(* Engine, coder and channel together do nothing that ModelingEngine does  *)
(* not allow for: every theorem about the engine alone holds for the tool, *)
(* with a coder and without one.                                           *)
(***************************************************************************)
ImplementsEngine == Spec

(***************************************************************************)
(* The items in the queue are those whose blocks are still in the coder's  *)
(* registers: the oldest item is the one the next decoded block belongs to, *)
(* also in a second simulation, and in the middle of an iteration.         *)
(***************************************************************************)
QueueMatchesRegisters ==
  useCoder =>
    \A place \in 1 .. Len(queue) :
       queue[place].source =
         {b \in Bits : <<b, Len(queue) - place>> \in coderRegistries}

(***************************************************************************)
(* The bits in error of the item that an iteration returns are the bits    *)
(* that the decoder got wrong: no block is compared with another one's     *)
(* source, and an iteration returns no item only while the decoder has     *)
(* nothing to decode.                                                      *)
(***************************************************************************)
CountsDecoderErrors ==
  (useCoder /\ phase = "encode" /\ counter > polynomPower)
    => item.bitDiffCount = Cardinality(SymDiff(decoded, Coder!OldestSent))

(***************************************************************************)
(* A simulation counts a block in error only if the line has, at some      *)
(* time, made more errors in a span than the code distance bears: until    *)
(* then mCounter stands still, and the simulation cannot end.              *)
(***************************************************************************)
CountsOnlyBeyondDistance == (useCoder /\ mCounter > volume) => exceeded

=============================================================================
