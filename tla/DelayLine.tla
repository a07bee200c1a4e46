-------------------------------- MODULE DelayLine --------------------------------
(***************************************************************************)
(* What a coder promises to ModelingEngine, whichever coder it is: the     *)
(* block that a call of Decode returns is the source block of the call of  *)
(* Encode made Latency calls before, and a block of zeros before there was *)
(* any.  ModelingEngine relies on it when it takes the item out of its     *)
(* queue _decoderTactsLatency calls after it has put it in.                *)
(***************************************************************************)
EXTENDS Integers

CONSTANTS
  Latency,    \* number of calls, a natural number
  Blocks,     \* source blocks
  Zero        \* the block of zeros, an element of Blocks

VARIABLES
  history,    \* the last Latency + 1 source blocks, by age
  result,     \* the block that the last call of Decode returned
  pending     \* a block has been encoded and not been decoded yet

vars == <<history, result, pending>>

Init ==
  /\ history = [age \in 0 .. Latency |-> Zero]
  /\ result = Zero
  /\ pending = FALSE

Encode(source) ==
  /\ ~pending
  /\ history' = [age \in 0 .. Latency |-> IF age = 0 THEN source
                                          ELSE history[age - 1]]
  /\ pending' = TRUE
  /\ UNCHANGED result

Decode ==
  /\ pending
  /\ result' = history[Latency]
  /\ pending' = FALSE
  /\ UNCHANGED history

Next == Decode \/ \E source \in Blocks : Encode(source)

Spec == Init /\ [][Next]_vars

=============================================================================
