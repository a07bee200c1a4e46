---------------------------- MODULE ConvSelfOrthCoder ----------------------------
(***************************************************************************)
(* A ConvSelfOrthCoder (core_library/ConvSelfOrthCoder.cpp) with its inner *)
(* _coderForDecoder, driven as ModelingEngine::SimulateIteration drives    *)
(* it: Encode a block of data bits, pass the block through the channel,    *)
(* Decode what arrives.                                                    *)
(***************************************************************************)
EXTENDS CoderRegistries

CONSTANT MaxErrors    \* bound on the line errors in a span of blocks

ASSUME MaxErrorsAssumption == MaxErrors \in Nat

VARIABLES
  coderRegistries,      \* _arrCoderRegistries of the coder
  decoderRegistries,    \* _arrCoderRegistries of _coderForDecoder
  syndromeRegistries,   \* _syndromeRegistries
  block,                \* the block on its way from Encode to Decode
  decoded,              \* the data branches whose last decoded bit is one
  phase,                \* the next call: "encode", "transmit" or "decode"
  errors                \* history: the line errors <<line, age>> of the span

vars == <<coderRegistries, decoderRegistries, syndromeRegistries, block,
          decoded, phase, errors>>

Init ==
  /\ coderRegistries = {}
  /\ decoderRegistries = {}
  /\ syndromeRegistries = {}
  /\ block = {}
  /\ decoded = {}
  /\ phase = "encode"
  /\ errors = {}

Encode(src) ==
  /\ phase = "encode"
  /\ coderRegistries' = Shift(coderRegistries, DataBranches, src)
  /\ block' = Encoded(coderRegistries', src)
  /\ phase' = "transmit"
  /\ UNCHANGED <<decoderRegistries, syndromeRegistries, decoded, errors>>

\* The channel inverts the bits of the lines in noise.
HandleData(noise) ==
  /\ phase = "transmit"
  /\ block' = SymDiff(block, noise)
  /\ errors' = Aged(errors, Lines, SpanAges, noise)
  /\ Cardinality(errors') =< MaxErrors
  /\ phase' = "decode"
  /\ UNCHANGED <<coderRegistries, decoderRegistries, syndromeRegistries,
                 decoded>>

\* Mutant: the bit before the oldest one is decoded.
LastButOneReceived(bank) ==
  {b \in DataBranches : <<b, polynomPower - 1>> \in bank}

\* The data branches whose oldest received bit is one.
OldestReceived(bank) == {b \in DataBranches : <<b, polynomPower>> \in bank}

DecodeCore ==
  /\ phase = "decode"
  /\ decoderRegistries' =
       Shift(decoderRegistries, DataBranches, block \cap DataBranches)
  /\ LET syndrome == Shift(syndromeRegistries, CheckBranches,
                           Mismatches(decoderRegistries', block))
     IN  \E flips \in SUBSET DataBranches :
           /\ PassThreshold(flips, syndrome, {})
           /\ decoded' = SymDiff(OldestReceived(decoderRegistries'), flips)
           /\ syndromeRegistries' = syndrome \ Dropped(flips)
  /\ phase' = "encode"
  /\ UNCHANGED <<coderRegistries, block, errors>>

Next ==
  \/ \E src \in SUBSET DataBranches : Encode(src)
  \/ \E noise \in SUBSET Lines : HandleData(noise)
  \/ DecodeCore

Spec == Init /\ [][Next]_vars

-----------------------------------------------------------------------------
TypeOK ==
  /\ coderRegistries \in SUBSET (DataBranches \X Ages)
  /\ decoderRegistries \in SUBSET (DataBranches \X Ages)
  /\ syndromeRegistries \in SUBSET (CheckBranches \X Ages)
  /\ block \in SUBSET Lines
  /\ decoded \in SUBSET DataBranches
  /\ phase \in {"encode", "transmit", "decode"}
  /\ errors \in SUBSET (Lines \X SpanAges)

\* The data branches whose oldest sent bit is one, and those whose oldest bit the
\* line inverted.
OldestSent == OldestReceived(coderRegistries)
OldestInError == {b \in DataBranches : <<b, polynomPower>> \in errors}

\* The data branches that the last call of Decode corrected.
Corrected == SymDiff(decoded, OldestReceived(decoderRegistries))

(***************************************************************************)
(* However bad the line has been, the decoder forgets it: once no error is *)
(* left in the span, every decoded bit is the bit that was sent.           *)
(***************************************************************************)
CleanSpanDecodes ==
  (phase = "encode" /\ errors = {}) => decoded = OldestSent

(***************************************************************************)
(* A flag raised in a syndrome register is explained by a line error that  *)
(* shows in it: no stale flag outlives its errors.                         *)
(***************************************************************************)
FlagsHaveErrors ==
  phase = "encode" =>
    \A x \in syndromeRegistries : Support(x[1], x[2]) \cap errors # {}

(***************************************************************************)
(* With no more errors in the span than the code distance bears, Decode    *)
(* never "corrects" a bit that arrived intact, whatever happened before    *)
(* the span and whatever the feedback did with the flags.                  *)
(***************************************************************************)
NoFalseCorrection ==
  (phase = "encode" /\ WithinDistance(Cardinality(errors)))
     => Corrected \subseteq OldestInError

(***************************************************************************)
(* If the line never exceeds what the code distance bears, every decoded   *)
(* bit is the bit that was sent.                                           *)
(***************************************************************************)
DecodesWhatWasSent ==
  phase = "encode" => decoded = OldestSent

(***************************************************************************)
(* If the line never exceeds what the code distance bears, a raised flag   *)
(* stands for an error still to be dealt with: a check bit or a data bit   *)
(* that has not been decoded yet.                                          *)
(***************************************************************************)
NoStaleFlags ==
  phase = "encode" =>
    \A x \in syndromeRegistries :
       \E e \in Support(x[1], x[2]) \cap errors :
          e[1] \in DataBranches => e[2] < polynomPower

(***************************************************************************)
(* The coder over a line that never exceeds what the code distance bears   *)
(* implements the delay line that ModelingEngine takes a coder for: Encode *)
(* and Decode are its calls, HandleData a step it does not see.            *)
(***************************************************************************)
Line == INSTANCE DelayLine WITH
  Latency <- polynomPower,
  Blocks  <- SUBSET DataBranches,
  Zero    <- {},
  history <- [age \in Ages |-> {b \in DataBranches : <<b, age>> \in coderRegistries}],
  result  <- decoded,
  pending <- phase # "encode"

\* The codec implements the delay line.
ImplementsDelayLine == Line!Spec

=============================================================================
