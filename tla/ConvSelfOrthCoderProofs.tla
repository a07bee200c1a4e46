------------------------- MODULE ConvSelfOrthCoderProofs -------------------------
(***************************************************************************)
(* Proofs about ConvSelfOrthCoder.  What a call does to its registers is   *)
(* in the lemmas of CoderRegistriesProofs; here they are put together to   *)
(* invariants of the specification.                                        *)
(***************************************************************************)
EXTENDS ConvSelfOrthCoder, CoderRegistriesProofs

\* The registers, the block and the line errors are in step.
Tracked ==
  LineTracked(phase, coderRegistries, decoderRegistries, syndromeRegistries,
              block, errors)

IInv ==
  /\ TypeOK
  /\ Tracked
  /\ CleanSpanDecodes
  /\ SelfOrthogonal => NoFalseCorrection

DistanceInv ==
  /\ Cardinality(errors) =< MaxErrors
  /\ FlagsInStep(phase, syndromeRegistries, errors)
  /\ DecodesWhatWasSent

-----------------------------------------------------------------------------
\* Every step keeps the types of the registers, the block and the errors.
LEMMA TypeStep == TypeOK /\ [Next]_vars => TypeOK'
<1> SUFFICES ASSUME TypeOK, [Next]_vars PROVE TypeOK'
  OBVIOUS
<1>1. ASSUME NEW src \in SUBSET DataBranches, Encode(src)
      PROVE  TypeOK'
  <2>1. coderRegistries' \in SUBSET (DataBranches \X Ages)
    BY <1>1, ShiftCells DEF Encode
  <2>2. block' \in SUBSET Lines
    BY <1>1, EncodedLines DEF Encode
  <2> QED
    BY <1>1, <2>1, <2>2 DEF Encode, TypeOK
<1>2. ASSUME NEW noise \in SUBSET Lines, HandleData(noise)
      PROVE  TypeOK'
  <2>1. block' \in SUBSET Lines
    BY <1>2 DEF HandleData, TypeOK, SymDiff
  <2>2. errors' \in SUBSET (Lines \X SpanAges)
    BY <1>2 DEF HandleData, Aged
  <2> QED
    BY <1>2, <2>1, <2>2 DEF HandleData, TypeOK
<1>3. CASE DecodeCore
  <2>1. decoderRegistries' \in SUBSET (DataBranches \X Ages)
    BY <1>3, ShiftCells DEF DecodeCore
  <2> DEFINE syndrome == Shift(syndromeRegistries, CheckBranches,
                               Mismatches(decoderRegistries', block))
  <2>2. PICK flips \in SUBSET DataBranches :
          /\ decoded' = SymDiff(OldestReceived(decoderRegistries'), flips)
          /\ syndromeRegistries' = syndrome \ Dropped(flips)
    BY <1>3 DEF DecodeCore
  <2>3. syndromeRegistries' \in SUBSET (CheckBranches \X Ages)
    BY <2>2, ShiftCells
  <2>4. decoded' \in SUBSET DataBranches
    BY <2>2 DEF SymDiff, OldestReceived
  <2> QED
    BY <1>3, <2>1, <2>3, <2>4 DEF DecodeCore, TypeOK
<1>4. CASE UNCHANGED vars
  BY <1>4 DEF vars, TypeOK
<1> QED
  BY <1>1, <1>2, <1>3, <1>4 DEF Next

(***************************************************************************)
(* The registers of ConvSelfOrthCoder keep their sizes and the block its   *)
(* length, whatever the sequence of calls.                                 *)
(***************************************************************************)
THEOREM TypeCorrect == Spec => []TypeOK
<1>1. Init => TypeOK
  BY DEF Init, TypeOK
<1> QED
  BY <1>1, TypeStep, PTL DEF Spec

-----------------------------------------------------------------------------
\* The step of DecodeCore, its threshold loop by the set of corrected branches.
LEMMA DecodeOutcome ==
  ASSUME DecodeCore
  PROVE  /\ phase = "decode" /\ phase' = "encode"
         /\ UNCHANGED <<coderRegistries, block, errors>>
         /\ \E flips \in SUBSET DataBranches : \E next :
              /\ Arrives(decoderRegistries, syndromeRegistries, block,
                         decoderRegistries', next)
              /\ PassThreshold(flips, next, {})
              /\ decoded' = SymDiff(OldestReceived(decoderRegistries'), flips)
              /\ syndromeRegistries' = next \ Dropped(flips)
<1> DEFINE next == Shift(syndromeRegistries, CheckBranches,
                         Mismatches(decoderRegistries', block))
<1>1. Arrives(decoderRegistries, syndromeRegistries, block, decoderRegistries', next)
  BY DEF DecodeCore, Arrives
<1>2. \E flips \in SUBSET DataBranches :
        /\ PassThreshold(flips, next, {})
        /\ decoded' = SymDiff(OldestReceived(decoderRegistries'), flips)
        /\ syndromeRegistries' = next \ Dropped(flips)
  BY DEF DecodeCore
<1>3. /\ phase = "decode" /\ phase' = "encode"
      /\ UNCHANGED <<coderRegistries, block, errors>>
  BY DEF DecodeCore
<1> HIDE DEF next
<1> QED
  BY <1>1, <1>2, <1>3

\* The oldest received bits are the oldest sent ones, but for the line errors.
LEMMA OldestReceivedBits ==
  ASSUME Tracked, DecodeCore
  PROVE  OldestReceived(decoderRegistries') = SymDiff(OldestSent, OldestInError)
<1>1. Arrived(coderRegistries, decoderRegistries', block, errors)
  BY BlockArrives DEF Tracked, DecodeCore
<1>2. polynomPower \in Ages
  BY CoderAssumption DEF RegistersFit, Ages
<1>3. ASSUME NEW b \in DataBranches
      PROVE  b \in OldestReceived(decoderRegistries')
               <=> ((b \in OldestSent) # (b \in OldestInError))
  BY <1>1, <1>2 DEF Arrived, OldestReceived, OldestSent, OldestInError
<1>4. OldestReceived(decoderRegistries') \subseteq DataBranches
      /\ OldestSent \subseteq DataBranches /\ OldestInError \subseteq DataBranches
  BY DEF OldestReceived, OldestSent, OldestInError
<1> QED
  BY <1>3, <1>4 DEF SymDiff

\* DecodeCore brings the registers into step and decides the oldest bits.
LEMMA DecodeKeepsIInv ==
  ASSUME TypeOK, Tracked, DecodeCore
  PROVE  /\ Tracked'
         /\ CleanSpanDecodes'
         /\ SelfOrthogonal => NoFalseCorrection'
<1>1. /\ phase = "decode" /\ phase' = "encode"
      /\ UNCHANGED <<coderRegistries, block, errors>>
  BY DecodeOutcome
<1>2. PICK flips, next :
        /\ flips \in SUBSET DataBranches
        /\ Arrives(decoderRegistries, syndromeRegistries, block,
                   decoderRegistries', next)
        /\ PassThreshold(flips, next, {})
        /\ decoded' = SymDiff(OldestReceived(decoderRegistries'), flips)
        /\ syndromeRegistries' = next \ Dropped(flips)
  BY DecodeOutcome
<1>3. LineTracked("decode", coderRegistries, decoderRegistries, syndromeRegistries,
                  block, errors)
  BY <1>1 DEF Tracked
<1>4. Tracked'
  <2>1. syndromeRegistries' \in SUBSET next
    BY <1>2
  <2>2. LineTracked("encode", coderRegistries, decoderRegistries', syndromeRegistries',
                    block, errors)
    BY <1>2, <1>3, <2>1, DecodeKeepsTrack
  <2> QED
    BY <1>1, <2>2 DEF Tracked
<1>5. FlagsShow(next, errors)
  BY <1>2, <1>3, NextFlagsExplained
<1>6. CleanSpanDecodes'
  <2> SUFFICES ASSUME errors = {} PROVE decoded' = OldestSent'
    BY <1>1 DEF CleanSpanDecodes
  <2>1. flips = {}
    BY <1>2, <1>5, CleanNoPass
  <2>2. decoded' = OldestReceived(decoderRegistries')
    BY <1>2, <2>1 DEF SymDiff
  <2>3. OldestInError = {}
    BY DEF OldestInError
  <2>4. OldestReceived(decoderRegistries') = OldestSent
    BY <2>3, OldestReceivedBits DEF SymDiff
  <2> QED
    BY <1>1, <2>2, <2>4 DEF OldestSent, OldestReceived
<1>7. ASSUME SelfOrthogonal
      PROVE  NoFalseCorrection'
  <2> SUFFICES ASSUME WithinDistance(Cardinality(errors))
               PROVE  Corrected' \subseteq OldestInError'
    BY <1>1 DEF NoFalseCorrection
  <2>1. \A b \in flips : <<b, polynomPower>> \in errors
    BY <1>2, <1>5, <1>7, NoFalsePass DEF TypeOK
  <2>2. Corrected' = flips
    BY <1>2 DEF Corrected, SymDiff, OldestReceived
  <2>3. flips \subseteq OldestInError /\ OldestInError' = OldestInError
    BY <1>1, <1>2, <2>1 DEF OldestInError
  <2> QED
    BY <2>2, <2>3
<1> QED
  BY <1>4, <1>6, <1>7

\* IInv is inductive.
LEMMA IInvStep == IInv /\ [Next]_vars => IInv'
<1> SUFFICES ASSUME IInv, [Next]_vars PROVE IInv'
  OBVIOUS
<1>1. TypeOK'
  BY TypeStep DEF IInv
<1>2. ASSUME NEW src \in SUBSET DataBranches, Encode(src)
      PROVE  IInv'
  <2>1. /\ phase = "encode" /\ phase' = "transmit"
        /\ UNCHANGED <<decoderRegistries, syndromeRegistries, errors>>
        /\ coderRegistries' = Shift(coderRegistries, DataBranches, src)
        /\ block' = Encoded(coderRegistries', src)
    BY <1>2 DEF Encode
  <2>2. Tracked'
    BY <2>1, EncodeKeepsTrack DEF IInv, Tracked
  <2> QED
    BY <1>1, <2>1, <2>2 DEF IInv, CleanSpanDecodes, NoFalseCorrection
<1>3. ASSUME NEW noise \in SUBSET Lines, HandleData(noise)
      PROVE  IInv'
  <2>1. /\ phase = "transmit" /\ phase' = "decode"
        /\ UNCHANGED <<coderRegistries, decoderRegistries, syndromeRegistries>>
        /\ block' = SymDiff(block, noise)
        /\ errors' = Aged(errors, Lines, SpanAges, noise)
    BY <1>3 DEF HandleData
  <2>2. Tracked'
    BY <2>1, NoiseKeepsTrack DEF IInv, Tracked
  <2> QED
    BY <1>1, <2>1, <2>2 DEF IInv, CleanSpanDecodes, NoFalseCorrection
<1>4. CASE DecodeCore
  BY <1>1, <1>4, DecodeKeepsIInv DEF IInv
<1>5. CASE UNCHANGED vars
  BY <1>5 DEF vars, IInv, TypeOK, Tracked, CleanSpanDecodes, NoFalseCorrection,
              OldestSent, OldestReceived, OldestInError, Corrected
<1> QED
  BY <1>2, <1>3, <1>4, <1>5 DEF Next

\* IInv holds of fresh registers.
LEMMA IInvInit == Init => IInv
<1> SUFFICES ASSUME Init PROVE IInv
  OBVIOUS
<1>1. TypeOK
  BY DEF Init, TypeOK
<1>2. Tracked
  BY FreshRegistersTrack DEF Init, Tracked
<1>3. CleanSpanDecodes /\ NoFalseCorrection
  BY DEF Init, CleanSpanDecodes, NoFalseCorrection, OldestSent, OldestReceived,
         Corrected, SymDiff
<1> QED
  BY <1>1, <1>2, <1>3 DEF IInv

(***************************************************************************)
(* Whatever the line did before, once no error is left in the span Decode  *)
(* returns the bits that were sent: the feedback of DecodeCore, which      *)
(* clears flags, never makes an error outlive the registers.               *)
(***************************************************************************)
THEOREM ForgetsErrors == Spec => []CleanSpanDecodes
<1>1. IInv => CleanSpanDecodes
  BY DEF IInv
<1> QED
  BY <1>1, IInvInit, IInvStep, PTL DEF Spec

\* Every flag left in a syndrome register is explained by an error.
THEOREM RaisedFlagsHaveErrors == Spec => []FlagsHaveErrors
<1>1. IInv => FlagsHaveErrors
  BY DEF IInv, TypeOK, Tracked, LineTracked, FlagsExplained, FlagsHaveErrors, InUse,
         ErrorAge
<1> QED
  BY <1>1, IInvInit, IInvStep, PTL DEF Spec

(***************************************************************************)
(* A decoder of a self-orthogonal code never spoils a bit that arrived     *)
(* intact while the span has no more errors than the code distance bears.  *)
(***************************************************************************)
THEOREM NeverSpoils ==
  ASSUME SelfOrthogonal
  PROVE  Spec => []NoFalseCorrection
<1>1. IInv => NoFalseCorrection
  BY DEF IInv
<1> QED
  BY <1>1, IInvInit, IInvStep, PTL DEF Spec

-----------------------------------------------------------------------------
\* The code corrects what the line inverts.
LineWithinDistance ==
  SelfOrthogonal /\ EveryBranchChecked /\ WithinDistance(MaxErrors)

\* DecodeCore corrects exactly the bits in error, and drops exactly the flags
\* whose only error it has decided.
LEMMA DecodeKeepsDistance ==
  ASSUME LineWithinDistance, TypeOK, Tracked, DistanceInv, DecodeCore
  PROVE  DistanceInv'
<1>1. /\ phase = "decode" /\ phase' = "encode"
      /\ UNCHANGED <<coderRegistries, block, errors>>
  BY DecodeOutcome
<1>2. PICK flips, next :
        /\ flips \in SUBSET DataBranches
        /\ Arrives(decoderRegistries, syndromeRegistries, block,
                   decoderRegistries', next)
        /\ PassThreshold(flips, next, {})
        /\ decoded' = SymDiff(OldestReceived(decoderRegistries'), flips)
        /\ syndromeRegistries' = next \ Dropped(flips)
  BY DecodeOutcome
<1>3. WithinDistance(Cardinality(errors))
  BY ErrorsFinite, MaxErrorsAssumption, DminBounds
  DEF DistanceInv, LineWithinDistance, WithinDistance, TypeOK
<1>4. FlagsShow(next, errors) /\ FlagsDue(next, errors)
  BY <1>1, <1>2, NextFlagsExplained, NextFlagsDue DEF Tracked, DistanceInv
<1>5. flips = OldestInError
  BY <1>2, <1>3, <1>4, PassIsError
  DEF OldestInError, LineWithinDistance, CorrectingCode, TypeOK
<1>6. DecodesWhatWasSent'
  <2>1. decoded' = OldestSent
    BY <1>2, <1>5, OldestReceivedBits DEF SymDiff
  <2> QED
    BY <1>1, <2>1 DEF DecodesWhatWasSent, OldestSent, OldestReceived
<1>7. FlagsInStep("encode", syndromeRegistries', errors)
  <2>1. next \in SUBSET (CheckBranches \X Ages)
    BY <1>2, ShiftCells DEF Arrives
  <2> QED
    BY <1>2, <1>4, <1>5, <2>1, DecodeKeepsFlags DEF OldestInError, TypeOK
<1> QED
  BY <1>1, <1>6, <1>7 DEF DistanceInv

\* DistanceInv is inductive relative to IInv.
LEMMA DistanceStep ==
  ASSUME LineWithinDistance
  PROVE  IInv /\ DistanceInv /\ [Next]_vars => DistanceInv'
<1> SUFFICES ASSUME IInv, DistanceInv, [Next]_vars PROVE DistanceInv'
  OBVIOUS
<1>1. ASSUME NEW src \in SUBSET DataBranches, Encode(src)
      PROVE  DistanceInv'
  <2>1. /\ phase = "encode" /\ phase' = "transmit"
        /\ UNCHANGED <<syndromeRegistries, errors>>
    BY <1>1 DEF Encode
  <2>2. FlagsInStep("transmit", syndromeRegistries, errors)
    BY <2>1, EncodeKeepsFlags DEF DistanceInv
  <2> QED
    BY <2>1, <2>2 DEF DistanceInv, DecodesWhatWasSent
<1>2. ASSUME NEW noise \in SUBSET Lines, HandleData(noise)
      PROVE  DistanceInv'
  <2>1. /\ phase = "transmit" /\ phase' = "decode"
        /\ UNCHANGED syndromeRegistries
        /\ errors' = Aged(errors, Lines, SpanAges, noise)
        /\ Cardinality(errors') =< MaxErrors
    BY <1>2 DEF HandleData
  <2>2. FlagsInStep("decode", syndromeRegistries, errors')
    BY <2>1, NoiseKeepsFlags DEF DistanceInv, IInv, TypeOK
  <2> QED
    BY <2>1, <2>2 DEF DistanceInv, DecodesWhatWasSent
<1>3. CASE DecodeCore
  BY <1>3, DecodeKeepsDistance DEF IInv
<1>4. CASE UNCHANGED vars
  BY <1>4 DEF vars, DistanceInv, DecodesWhatWasSent, OldestSent, OldestReceived
<1> QED
  BY <1>1, <1>2, <1>3, <1>4 DEF Next

\* DistanceInv holds of fresh registers.
LEMMA DistanceInit == Init => DistanceInv
BY FS_EmptySet, MaxErrorsAssumption, FreshRegistersTrack
DEF Init, DistanceInv, DecodesWhatWasSent, OldestSent, OldestReceived

(***************************************************************************)
(* The correction guarantee of threshold decoding with the feedback of     *)
(* DecodeCore: with a self-orthogonal code that checks every data branch,  *)
(* if no 2 * polynomPower + 1 consecutive blocks have more line errors     *)
(* than (dmin - 1) / 2, every bit that Decode ever returns is the bit that *)
(* was sent polynomPower blocks before.                                    *)
(***************************************************************************)
THEOREM CorrectsErrors ==
  ASSUME LineWithinDistance
  PROVE  Spec => []DecodesWhatWasSent
<1>1. DistanceInv => DecodesWhatWasSent
  BY DEF DistanceInv
<1> QED
  BY <1>1, IInvInit, IInvStep, DistanceInit, DistanceStep, PTL DEF Spec

(***************************************************************************)
(* On such a line the syndrome registers hold no flag whose errors have    *)
(* all been corrected.                                                     *)
(***************************************************************************)
THEOREM KeepsNoStaleFlags ==
  ASSUME LineWithinDistance
  PROVE  Spec => []NoStaleFlags
<1>1. IInv /\ DistanceInv => NoStaleFlags
  <2> SUFFICES ASSUME IInv, DistanceInv, phase = "encode",
                      NEW x \in syndromeRegistries
               PROVE  \E e \in Support(x[1], x[2]) \cap errors :
                         e[1] \in DataBranches => e[2] < polynomPower
    BY DEF NoStaleFlags
  <2>1. ErrorAge("encode", x[2]) = x[2]
        /\ ErrorAge("encode", polynomPower) = polynomPower /\ x[2] \in Ages
    BY DEF ErrorAge, IInv, TypeOK
  <2>2. PICK e \in Support(x[1], x[2]) \cap errors : ~ Decided("encode", e)
    BY <2>1 DEF DistanceInv, FlagsInStep, FlagsCurrent, InUse
  <2>3. e[2] \in Nat
    BY DEF Support, SpanAges
  <2> QED
    BY <2>1, <2>2, <2>3, CoderAssumption DEF RegistersFit, Decided
<1> QED
  BY <1>1, IInvInit, IInvStep, DistanceInit, DistanceStep, PTL DEF Spec

-----------------------------------------------------------------------------
\* Every step of the coder is a step of the delay line or leaves it alone.
LEMMA StepRefines ==
  IInv /\ [Next]_vars /\ DecodesWhatWasSent' => [Line!Next]_(Line!vars)
<1> DEFINE history(bank) ==
      [age \in Ages |-> {b \in DataBranches : <<b, age>> \in bank}]
<1> SUFFICES ASSUME IInv, [Next]_vars, DecodesWhatWasSent'
             PROVE  [Line!Next]_(Line!vars)
  OBVIOUS
<1>1. ASSUME NEW src \in SUBSET DataBranches, Encode(src)
      PROVE  Line!Encode(src)
  <2>1. history(coderRegistries') =
          [age \in 0 .. polynomPower |-> IF age = 0 THEN src
                                        ELSE history(coderRegistries)[age - 1]]
    <3>1. ASSUME NEW age \in Ages
          PROVE  {b \in DataBranches : <<b, age>> \in coderRegistries'} =
                   IF age = 0 THEN src ELSE history(coderRegistries)[age - 1]
      <4>1. CASE age = 0
        BY <1>1, <4>1, ShiftCells DEF Encode
      <4>2. CASE age # 0
        <5>1. age - 1 \in Ages /\ age \in Ages \ {0}
          BY <4>2, CoderAssumption DEF RegistersFit, Ages
        <5> QED
          BY <1>1, <4>2, <5>1, ShiftCells DEF Encode
      <4> QED
        BY <4>1, <4>2
    <3> QED
      BY <3>1 DEF Ages
  <2>2. phase = "encode" /\ phase' = "transmit" /\ UNCHANGED decoded
    BY <1>1 DEF Encode
  <2> QED
    BY <2>1, <2>2 DEF Line!Encode
<1>2. ASSUME NEW noise \in SUBSET Lines, HandleData(noise)
      PROVE  UNCHANGED Line!vars
  BY <1>2 DEF HandleData, Line!vars
<1>3. ASSUME DecodeCore
      PROVE  Line!Decode
  <2>1. polynomPower \in Ages
    BY CoderAssumption DEF RegistersFit, Ages
  <2>2. phase = "decode" /\ phase' = "encode" /\ UNCHANGED coderRegistries
    BY <1>3 DEF DecodeCore
  <2>3. decoded' = OldestSent
    BY <2>2 DEF DecodesWhatWasSent, OldestSent, OldestReceived
  <2>4. decoded' = history(coderRegistries)[polynomPower]
    BY <2>1, <2>3 DEF OldestSent, OldestReceived
  <2> QED
    BY <2>2, <2>4 DEF Line!Decode
<1>4. CASE UNCHANGED vars
  BY <1>4 DEF vars, Line!vars
<1> QED
  BY <1>1, <1>2, <1>3, <1>4 DEF Next, Line!Next

(***************************************************************************)
(* Within the code distance the coder, its line and its decoder implement  *)
(* the delay line of polynomPower blocks that ModelingEngine's queue of    *)
(* waiting items presumes.                                                 *)
(***************************************************************************)
THEOREM CodecIsDelayLine ==
  ASSUME LineWithinDistance
  PROVE  Spec => ImplementsDelayLine
<1>1. Init => Line!Init
  BY DEF Init, Line!Init, Ages
<1>2. DistanceInv => DecodesWhatWasSent
  BY DEF DistanceInv
<1> QED
  BY <1>1, <1>2, StepRefines, IInvInit, IInvStep, DistanceInit, DistanceStep, PTL
  DEF Spec, ImplementsDelayLine, Line!Spec

=============================================================================
