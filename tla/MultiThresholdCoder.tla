--------------------------- MODULE MultiThresholdCoder ---------------------------
(***************************************************************************)
(* A MultiThresholdCoder (core_library/MultiThresholdCoder.cpp), driven as *)
(* ModelingEngine::SimulateIteration drives it.  With more than one        *)
(* section it is a hub: Encode uses the hub's own registers, and DecodeCore *)
(* runs the sections one after the other within a call, each taking the    *)
(* data bits, the syndrome bits and the difference bits that leave the one *)
(* before it.  With one section it decodes with its own registers, as a    *)
(* first section whose difference registers stay empty.                    *)
(***************************************************************************)
EXTENDS CoderRegistries

CONSTANTS
  countDecoderSections,
  MaxErrors               \* bound on the line errors in a span of blocks

ASSUME SectionsAssumption ==
  /\ countDecoderSections \in Nat \ {0}
  /\ MaxErrors \in Nat

Sections == 1 .. countDecoderSections

\* The tool's latency for this coder: polynomPower blocks for each section.
Latency == polynomPower * countDecoderSections

VARIABLES
  coderRegistries,      \* _arrCoderRegistries of the hub
  decoderRegistries,    \* those of each section's _coderForDecoder
  syndromeRegistries,   \* _syndromeRegistries of each section
  diffRegistries,       \* _diffRegistries of each section
  block,                \* the block on its way from Encode to Decode
  decoded,              \* the data branches whose last decoded bit is one
  phase,                \* the next call: "encode", "transmit" or "decode"
  sent,                 \* history: the data bits sent, by age
  errors                \* history: the line errors, by age

vars == <<coderRegistries, decoderRegistries, syndromeRegistries, diffRegistries,
          block, decoded, phase, sent, errors>>

\* Ages of the blocks that are inside the decoder, and of those that can still
\* matter for them.
SentAges == 0 .. Latency
LineAges == 0 .. (Latency + polynomPower)

Init ==
  /\ coderRegistries = {}
  /\ decoderRegistries = [s \in Sections |-> {}]
  /\ syndromeRegistries = [s \in Sections |-> {}]
  /\ diffRegistries = [s \in Sections |-> {}]
  /\ block = {}
  /\ decoded = {}
  /\ phase = "encode"
  /\ sent = {}
  /\ errors = {}

Encode(src) ==
  /\ phase = "encode"
  /\ coderRegistries' = Shift(coderRegistries, DataBranches, src)
  /\ block' = Encoded(coderRegistries', src)
  /\ sent' = Aged(sent, DataBranches, SentAges, src)
  /\ phase' = "transmit"
  /\ UNCHANGED <<decoderRegistries, syndromeRegistries, diffRegistries, decoded, errors>>

\* The channel inverts the bits of the lines in noise.
HandleData(noise) ==
  /\ phase = "transmit"
  /\ block' = SymDiff(block, noise)
  /\ errors' = Aged(errors, Lines, LineAges, noise)
  /\ Cardinality({e \in errors' : e[2] \in SpanAges}) =< MaxErrors
  /\ phase' = "decode"
  /\ UNCHANGED <<coderRegistries, decoderRegistries, syndromeRegistries,
                 diffRegistries, decoded, sent>>

-----------------------------------------------------------------------------
\* Mutant: the last column but one.
LastButOne(bank, branches) == {b \in branches : <<b, polynomPower - 1>> \in bank}

\* The branches whose oldest cell in a bank is set (the last column).
Oldest(bank, branches) == {b \in branches : <<b, polynomPower>> \in bank}

(***************************************************************************)
(* The loop of the hub over its sections.  flips[s] is the set of branches *)
(* that pass the threshold of section s (vecCondVals).  DataOf, SyndromeOf *)
(* and DiffOf are the banks of section s after their shift: what leaves    *)
(* section s - 1 in this call enters section s in the same call.  The      *)
(* received check bits are not delayed (arrEncodedBits), and so only the   *)
(* first section, which takes the syndrome from them, looks at them.       *)
(***************************************************************************)
DataOf(flips) ==
  LET bank[s \in Sections] ==
        Shift(decoderRegistries[s], DataBranches,
              IF s = 1 THEN block \cap DataBranches
              ELSE SymDiff(Oldest(bank[s - 1], DataBranches), flips[s - 1]))
  IN  bank

\* Mutant: the next section takes the oldest flags as they were before the drop.
SyndromeBeforeDrop(flips, newest) ==
  LET bank[s \in Sections] ==
        Shift(syndromeRegistries[s], CheckBranches,
              IF s = 1 THEN newest ELSE Oldest(bank[s - 1], CheckBranches))
  IN  bank

SyndromeOf(flips, newest) ==
  LET bank[s \in Sections] ==
        Shift(syndromeRegistries[s], CheckBranches,
              IF s = 1 THEN newest
              ELSE Oldest(bank[s - 1] \ Dropped(flips[s - 1]), CheckBranches))
  IN  bank

\* Mutant: the next section takes the difference bits without the last changes.
DiffWithoutFlips(flips) ==
  LET bank[s \in Sections] ==
        Shift(diffRegistries[s], DataBranches,
              IF s = 1 THEN {} ELSE Oldest(bank[s - 1], DataBranches))
  IN  bank

\* Mutant: the first section marks its own changes.
DiffOfOwnFlips(flips) ==
  LET bank[s \in Sections] ==
        Shift(diffRegistries[s], DataBranches,
              IF s = 1 THEN flips[s]
              ELSE SymDiff(Oldest(bank[s - 1], DataBranches), flips[s - 1]))
  IN  bank

DiffOf(flips) ==
  LET bank[s \in Sections] ==
        Shift(diffRegistries[s], DataBranches,
              IF s = 1 THEN {}
              ELSE SymDiff(Oldest(bank[s - 1], DataBranches), flips[s - 1]))
  IN  bank

DecodeCore ==
  /\ phase = "decode"
  /\ \E flips \in [Sections -> SUBSET DataBranches] :
       LET data     == DataOf(flips)
           syndrome == SyndromeOf(flips, Mismatches(data[1], block))
           diff     == DiffOf(flips)
       IN  /\ \A s \in Sections :
                PassThreshold(flips[s], syndrome[s], Oldest(diff[s], DataBranches))
           /\ decoderRegistries' = data
           /\ syndromeRegistries' =
                [s \in Sections |-> syndrome[s] \ Dropped(flips[s])]
           /\ diffRegistries' = diff
           /\ decoded' = SymDiff(Oldest(data[countDecoderSections], DataBranches),
                                 flips[countDecoderSections])
  /\ phase' = "encode"
  /\ UNCHANGED <<coderRegistries, block, sent, errors>>

Next ==
  \/ \E src \in SUBSET DataBranches : Encode(src)
  \/ \E noise \in SUBSET Lines : HandleData(noise)
  \/ DecodeCore

Spec == Init /\ [][Next]_vars

-----------------------------------------------------------------------------
\* The age of a block, counted from the line, when its bit is in column age of
\* section s.
LineAge(s, age) == (s - 1) * polynomPower + age

(***************************************************************************)
(* The difference register of a section tells, for each of its data bits,  *)
(* whether the sections before it have changed the bit that was received.  *)
(***************************************************************************)
DiffMarksChanges ==
  phase = "encode" =>
    \A s \in Sections, b \in DataBranches, age \in Ages :
       LET received == (<<b, LineAge(s, age)>> \in sent)
                         # (<<b, LineAge(s, age)>> \in errors)
       IN  <<b, age>> \in diffRegistries[s]
             <=> (received # (<<b, age>> \in decoderRegistries[s]))

(***************************************************************************)
(* However bad the line has been, the decoder forgets it: once no error is *)
(* left in the span of all the sections, every decoded bit is the bit that *)
(* was sent Latency blocks before.                                         *)
(***************************************************************************)
CleanSpanDecodes ==
  (phase = "encode" /\ errors = {})
    => decoded = {b \in DataBranches : <<b, Latency>> \in sent}

(***************************************************************************)
(* If the line never exceeds what the code distance bears, the coder with  *)
(* all its sections is a delay line of Latency blocks: a later section     *)
(* never takes back what the first one has corrected.                      *)
(***************************************************************************)
Line == INSTANCE DelayLine WITH
  Blocks  <- SUBSET DataBranches,
  Zero    <- {},
  history <- [age \in SentAges |-> {b \in DataBranches : <<b, age>> \in sent}],
  result  <- decoded,
  pending <- phase # "encode"

\* The codec implements the delay line.
ImplementsDelayLine == Line!Spec

(***************************************************************************)
(* The first of several sections is a plain ConvSelfOrthCoder: what enters *)
(* the second section is what that decoder would return.                   *)
(***************************************************************************)
First == INSTANCE ConvSelfOrthCoder WITH
  decoderRegistries  <- decoderRegistries[1],
  syndromeRegistries <- syndromeRegistries[1],
  decoded <- {b \in DataBranches : <<b, 0>> \in decoderRegistries[2]},
  errors  <- {e \in errors : e[2] \in SpanAges}

\* The hub's first section implements the threshold decoder.
FirstSectionIsThresholdDecoder == First!Spec

=============================================================================
