-------------------------- MODULE CoderRegistriesProofs --------------------------
(***************************************************************************)
(* Facts about the registers and the threshold that the proofs of the      *)
(* coders rest on.                                                         *)
(***************************************************************************)
EXTENDS CoderRegistries, FiniteSetTheorems, TLAPS

\* What the assumptions about a definition and about the registers of its coder say.
USE DEF ItemsAreSound, RegistersFit

\* A non-empty set of natural numbers has a least element, and Min is it.
LEMMA MinOfNaturals ==
  ASSUME NEW S \in SUBSET Nat, S # {}
  PROVE  /\ Min(S) \in S
         /\ \A y \in S : Min(S) =< y
<1> DEFINE Less == {pair \in Nat \X Nat : pair[1] < pair[2]}
<1>1. IsWellFoundedOn(Less, Nat)
  BY NatLessThanWellFounded DEF OpToRel
<1>2. PICK x \in S : \A y \in S : <<y, x>> \notin Less
  <2> HIDE DEF Less
  <2> QED BY <1>1, WFMin
<1>3. \A y \in S : x =< y
  <2> TAKE y \in S
  <2>1. y \in Nat /\ x \in Nat
    OBVIOUS
  <2>2. (y < x) => (<<y, x>> \in Less)
    BY <2>1
  <2> HIDE DEF Less
  <2> QED
    BY <1>2, <2>1, <2>2
<1> QED
  BY <1>3 DEF Min

\* The registers are finite.
LEMMA FiniteBanks ==
  /\ IsFiniteSet(DataBranches \X Ages)
  /\ IsFiniteSet(CheckBranches \X Ages)
  /\ IsFiniteSet(Lines)
<1>1. polynomPower \in Int /\ k0 \in Int /\ n0 \in Int /\ n0 - k0 \in Int
  BY CoderAssumption
<1>2. IsFiniteSet(Ages) /\ IsFiniteSet(DataBranches) /\ IsFiniteSet(CheckBranches)
      /\ IsFiniteSet(Lines)
  BY <1>1, FS_Interval DEF Ages, DataBranches, CheckBranches, Lines
<1> QED
  BY <1>2, FS_Product

\* A data branch has finitely many polynomial terms.
LEMMA TermsFinite ==
  ASSUME NEW b
  PROVE  IsFiniteSet(Terms(b))
<1>1. IsFiniteSet(Items \X Ages)
  <2>1. IsFiniteSet(Ages)
    BY CoderAssumption, FS_Interval DEF Ages
  <2> QED
    BY <2>1, ItemsAssumption, FS_Product
<1>2. Terms(b) \in SUBSET (Items \X Ages)
  BY ItemsAssumption, CoderAssumption
  DEF Terms, GetItemsForDataBranchIndex, Ages
<1> QED
  BY <1>1, <1>2, FS_Subset

\* GetDmin is at least 1, and no data branch of an item has fewer terms than
\* GetDmin - 1.
LEMMA DminBounds ==
  /\ GetDmin \in Nat
  /\ GetDmin >= 1
  /\ \A it \in Items : GetDmin - 1 =< Cardinality(Terms(it.i))
<1> DEFINE Distances == {1 + Cardinality(Terms(it.i)) : it \in Items}
<1>1. \A it \in Items : Cardinality(Terms(it.i)) \in Nat
  BY TermsFinite, FS_CardinalityType
<1>2. Distances \in SUBSET Nat /\ Distances # {}
  BY <1>1, ItemsAssumption
<1>3. Min(Distances) \in Distances /\ \A y \in Distances : Min(Distances) =< y
  BY <1>2, MinOfNaturals
<1>4. GetDmin \in Distances /\ \A y \in Distances : GetDmin =< y
  BY <1>3 DEF GetDmin
<1> QED
  BY <1>1, <1>4

\* No raised flag, no correction.
LEMMA NoFlagsNoPass ==
  ASSUME NEW b \in DataBranches, NEW raised, Flags(b) \cap raised = {}
  PROVE  ~ ExceedsThreshold(CountOfIdentities(raised, {}, b))
<1>1. CountOfIdentities(raised, {}, b) = 0
  BY FS_EmptySet DEF CountOfIdentities
<1> QED
  BY <1>1, DminBounds DEF ExceedsThreshold

\* The oldest bit of a data branch with an item has at least GetDmin - 1 flags.
LEMMA EnoughFlags ==
  ASSUME NEW b \in DataBranches, GetItemsForDataBranchIndex(b) # {}
  PROVE  /\ IsFiniteSet(Flags(b))
         /\ GetDmin - 1 =< Cardinality(Flags(b))
<1>1. IsFiniteSet(Flags(b))
  BY FiniteBanks, FS_Subset DEF Flags
<1> DEFINE flagOf == [t \in Terms(b) |-> <<t[1].j, polynomPower - t[2]>>]
<1>2. \A t \in Terms(b) : /\ t = <<t[1], t[2]>>
                          /\ t[1] \in Items
                          /\ t[1].i = b
                          /\ t[2] \in t[1].powersPolynom
  BY DEF Terms, GetItemsForDataBranchIndex
<1>3. ASSUME NEW t \in Terms(b)
      PROVE  flagOf[t] \in Flags(b)
  <2>1. t[1] \in Items /\ t[1].i = b /\ t[2] \in t[1].powersPolynom
    BY <1>2
  <2>2. t[2] \in Nat /\ t[2] =< polynomPower /\ t[1].j \in CheckBranches
    BY <2>1, ItemsAssumption, CoderAssumption DEF CheckBranches
  <2>3. polynomPower - t[2] \in Ages /\ polynomPower - (polynomPower - t[2]) = t[2]
    BY <2>2, CoderAssumption DEF Ages
  <2>4. <<b, t[2]>> \in Taps(t[1].j)
    BY <2>1, <2>2, CoderAssumption DEF Taps, FilterItemsByOutputBranchIndex, Ages
  <2> QED
    BY <2>2, <2>3, <2>4 DEF Flags
<1>4. ASSUME NEW s \in Terms(b), NEW t \in Terms(b), flagOf[s] = flagOf[t]
      PROVE  s = t
  <2>1. s[1].j = t[1].j /\ polynomPower - s[2] = polynomPower - t[2]
    BY <1>4
  <2>2. s[2] \in Nat /\ t[2] \in Nat
    BY <1>2, ItemsAssumption
  <2>3. s[2] = t[2]
    BY <2>1, <2>2, CoderAssumption
  <2>4. s[1] = t[1]
    BY <2>1, <1>2, ItemsAssumption
  <2> QED
    BY <2>3, <2>4, <1>2
<1>5. flagOf \in Injection(Terms(b), Flags(b))
  BY <1>3, <1>4 DEF Injection, IsInjective
<1>6. Cardinality(Terms(b)) =< Cardinality(Flags(b))
  <2> HIDE DEF flagOf
  <2> QED
    BY <1>1, <1>5, FS_Injection
<1>7. GetDmin - 1 =< Cardinality(Terms(b))
  BY DminBounds DEF GetItemsForDataBranchIndex
<1>8. Cardinality(Terms(b)) \in Nat /\ Cardinality(Flags(b)) \in Nat
  BY <1>1, TermsFinite, FS_CardinalityType
<1> QED
  BY <1>1, <1>6, <1>7, <1>8, DminBounds

\* One cell more or less flips the parity.
LEMMA ParityFlips ==
  ASSUME NEW S, IsFiniteSet(S), NEW x, x \notin S
  PROVE  Parity(S \cup {x}) <=> ~ Parity(S)
<1>1. Cardinality(S) \in Nat /\ Cardinality(S \cup {x}) = Cardinality(S) + 1
  BY FS_CardinalityType, FS_AddElement
<1>2. \A n \in Nat : ((n + 1) % 2 = 1) <=> ~ (n % 2 = 1)
  OBVIOUS
<1> QED
  BY <1>1, <1>2 DEF Parity

\* What a bank holds after a shift.
LEMMA ShiftCells ==
  ASSUME NEW bank, NEW branches, NEW ones
  PROVE  /\ Shift(bank, branches, ones) \in SUBSET (branches \X Ages)
         /\ \A b \in branches : <<b, 0>> \in Shift(bank, branches, ones) <=> b \in ones
         /\ \A b \in branches, age \in Ages \ {0} :
              <<b, age>> \in Shift(bank, branches, ones) <=> <<b, age - 1>> \in bank
<1>1. 0 \in Ages
  BY CoderAssumption DEF Ages
<1> QED
  BY <1>1 DEF Shift, Aged

\* The data lines and the check lines are different lines.
LEMMA LinesApart ==
  /\ DataBranches \subseteq Lines
  /\ \A c \in CheckBranches : CheckLine(c) \in Lines \ DataBranches
  /\ \A c, d \in CheckBranches : CheckLine(c) = CheckLine(d) => c = d
BY CoderAssumption DEF DataBranches, CheckBranches, Lines, CheckLine

\* An encoded block carries the data bits and the check bits.
LEMMA EncodedLines ==
  ASSUME NEW bank, NEW src \in SUBSET DataBranches
  PROVE  /\ Encoded(bank, src) \in SUBSET Lines
         /\ \A b \in DataBranches : b \in Encoded(bank, src) <=> b \in src
         /\ \A c \in CheckBranches :
              CheckLine(c) \in Encoded(bank, src) <=> CheckBit(bank, c)
BY LinesApart DEF Encoded

\* SymDiff is membership in exactly one of two sets.
LEMMA SymDiffMember ==
  ASSUME NEW S, NEW T, NEW x
  PROVE  x \in SymDiff(S, T) <=> (x \in S) # (x \in T)
BY DEF SymDiff

-----------------------------------------------------------------------------
(***************************************************************************)
(* The decoder's registers, the sender's and the line, between any two     *)
(* calls.  ph is the next call.  Encode shifts the sender's registers      *)
(* (sent), HandleData the ages of the errors (errs), DecodeCore the        *)
(* decoder's registers (bank, syndrome): in between the three are out of   *)
(* step.  SentAge and ErrorAge give, for an age in the decoder's registers, *)
(* the age that the same block has on the other two sides.                 *)
(*                                                                         *)
(* The lemmas are about any such registers: a ConvSelfOrthCoder, the first *)
(* section of a MultiThresholdCoder, the coder of a ModelingEngine.        *)
(***************************************************************************)
SentAge(ph, age)  == IF ph = "encode" THEN age ELSE age + 1
ErrorAge(ph, age) == IF ph = "decode" THEN age + 1 ELSE age

\* The decoder's registers hold what was sent, but for the line errors.
DecoderTracks(ph, sent, bank, errs) ==
  \A b \in DataBranches, age \in Ages :
     SentAge(ph, age) \in Ages =>
       (<<b, age>> \in bank
          <=> ( (<<b, SentAge(ph, age)>> \in sent)
                  # (<<b, ErrorAge(ph, age)>> \in errs) ))

\* The block that Encode made of the newest bits of the sender's registers.
SentBlock(sent) == Encoded(sent, {b \in DataBranches : <<b, 0>> \in sent})

\* The block on the line is the encoded one, but for the newest errors.
BlockTracks(ph, sent, block, errs) ==
  /\ ph = "transmit" => block = SentBlock(sent)
  /\ ph = "decode" =>
       block = SymDiff(SentBlock(sent), {l \in Lines : <<l, 0>> \in errs})

\* A raised flag is explained by an error.  Before DecodeCore the oldest flag
\* is about to leave, and its errors may have left.
InUse(ph, age) == ErrorAge(ph, age) \in Ages

FlagsExplained(ph, syndrome, errs) ==
  \A x \in syndrome :
     InUse(ph, x[2]) => Support(x[1], ErrorAge(ph, x[2])) \cap errs # {}

LineTracked(ph, sent, bank, syndrome, block, errs) ==
  /\ syndrome \in SUBSET (CheckBranches \X Ages)
  /\ errs \in SUBSET (Lines \X SpanAges)
  /\ DecoderTracks(ph, sent, bank, errs)
  /\ BlockTracks(ph, sent, block, errs)
  /\ FlagsExplained(ph, syndrome, errs)

\* An error in a data bit is decided once the bit has been decoded.
Decided(ph, e) == e[1] \in DataBranches /\ e[2] >= ErrorAge(ph, polynomPower)

\* A raised flag is explained by an error not decided yet.
FlagsCurrent(ph, syndrome, errs) ==
  \A x \in syndrome :
     InUse(ph, x[2]) =>
       \E e \in Support(x[1], ErrorAge(ph, x[2])) \cap errs : ~ Decided(ph, e)

\* A single error in the support of a flag, not decided yet, raises it.
LoneErrorsRaise(ph, syndrome, errs) ==
  \A c \in CheckBranches, age \in Ages : \A e \in errs :
     ( /\ InUse(ph, age)
       /\ Support(c, ErrorAge(ph, age)) \cap errs = {e}
       /\ ~ Decided(ph, e) )
     => <<c, age>> \in syndrome

FlagsInStep(ph, syndrome, errs) ==
  FlagsCurrent(ph, syndrome, errs) /\ LoneErrorsRaise(ph, syndrome, errs)

\* Every data branch has an item: its bits are checked.
EveryBranchChecked == \A b \in DataBranches : GetItemsForDataBranchIndex(b) # {}

\* A code that corrects every line with no more errors in a span than WithinDistance
\* allows for.
CorrectingCode == SelfOrthogonal /\ EveryBranchChecked

-----------------------------------------------------------------------------
\* The errors in a span are finitely many.
LEMMA ErrorsFinite ==
  ASSUME NEW errs \in SUBSET (Lines \X SpanAges)
  PROVE  IsFiniteSet(errs) /\ Cardinality(errs) \in Nat
<1>1. IsFiniteSet(SpanAges)
  <2>1. 0 \in Int /\ 2 * polynomPower \in Int
    BY CoderAssumption
  <2> QED
    BY <2>1, FS_Interval DEF SpanAges
<1>2. IsFiniteSet(Lines \X SpanAges)
  BY <1>1, FiniteBanks, FS_Product
<1>3. IsFiniteSet(errs)
  BY <1>2, FS_Subset
<1> QED
  BY <1>3, FS_CardinalityType

\* The errors that show in a flag grow old with it.
LEMMA SupportAges ==
  ASSUME NEW c \in CheckBranches, NEW age \in Ages, age + 1 \in Ages,
         NEW l \in Lines, NEW d \in SpanAges
  PROVE  /\ <<l, d>> \in Support(c, age) => d + 1 \in SpanAges
         /\ d + 1 \in SpanAges =>
              (<<l, d>> \in Support(c, age) <=> <<l, d + 1>> \in Support(c, age + 1))
<1>1. polynomPower \in Nat /\ age \in Nat /\ d \in Nat /\ l \in Nat
  BY CoderAssumption DEF Ages, SpanAges, Lines
<1>2. (d + 1) - (age + 1) = d - age
  BY <1>1
<1>3. <<l, d>> \in Support(c, age)
        <=> \/ l = CheckLine(c) /\ d = age
            \/ l \in DataBranches /\ d - age \in Ages /\ <<l, d - age>> \in Taps(c)
  BY DEF Support
<1>4. d + 1 \in SpanAges =>
      ( <<l, d + 1>> \in Support(c, age + 1)
          <=> \/ l = CheckLine(c) /\ d + 1 = age + 1
              \/ l \in DataBranches /\ d - age \in Ages /\ <<l, d - age>> \in Taps(c) )
  BY <1>2 DEF Support
<1>5. d + 1 = age + 1 <=> d = age
  BY <1>1
<1>6. (d = age \/ d - age \in Ages) => d + 1 \in SpanAges
  BY <1>1 DEF Ages, SpanAges
<1> QED
  BY <1>3, <1>4, <1>5, <1>6

\* No error that shows in a flag younger than the oldest one is older than 1.
LEMMA SupportPositive ==
  ASSUME NEW c \in CheckBranches, NEW age \in Ages, age + 1 \in Ages,
         NEW e \in Support(c, age + 1)
  PROVE  /\ e = <<e[1], e[2]>>
         /\ e[1] \in Lines
         /\ e[2] \in SpanAges
         /\ e[2] - 1 \in SpanAges
<1>1. e \in Lines \X SpanAges
  BY DEF Support
<1>2. e[2] = age + 1 \/ e[2] - (age + 1) \in Ages
  BY DEF Support
<1>3. e[2] - 1 \in SpanAges
  BY <1>1, <1>2, CoderAssumption DEF Ages, SpanAges
<1> QED
  BY <1>1, <1>3

\* What shows in the newest flag: the check bit and its taps.
LEMMA NewestSupport ==
  ASSUME NEW c \in CheckBranches
  PROVE  Support(c, 0) = {<<CheckLine(c), 0>>} \cup Taps(c)
<1>1. Ages \subseteq SpanAges /\ 0 \in Ages
  BY CoderAssumption DEF Ages, SpanAges
<1>2. CheckLine(c) \in Lines /\ DataBranches \subseteq Lines
  BY LinesApart
<1>3. ASSUME NEW e \in Support(c, 0)
      PROVE  e \in {<<CheckLine(c), 0>>} \cup Taps(c)
  <2>1. e \in Lines \X SpanAges /\ e[2] - 0 = e[2]
    BY DEF Support, SpanAges
  <2> QED
    BY <2>1 DEF Support
<1>4. ASSUME NEW e \in Taps(c)
      PROVE  e \in Support(c, 0)
  <2>1. e \in DataBranches \X Ages /\ e[2] - 0 = e[2]
    BY DEF Taps, Ages
  <2> QED
    BY <1>1, <1>2, <2>1 DEF Support
<1>5. <<CheckLine(c), 0>> \in Support(c, 0)
  BY <1>1, <1>2 DEF Support
<1> QED
  BY <1>3, <1>4, <1>5

\* The bit that a flag votes on shows in it.
LEMMA OwnBitShows ==
  ASSUME NEW b \in DataBranches, NEW x \in Flags(b)
  PROVE  /\ x[1] \in CheckBranches /\ x[2] \in Ages
         /\ <<b, polynomPower>> \in Support(x[1], x[2])
<1>1. x[1] \in CheckBranches /\ x[2] \in Ages
      /\ <<b, polynomPower - x[2]>> \in Taps(x[1])
  BY DEF Flags
<1>2. polynomPower - x[2] \in Ages /\ polynomPower \in SpanAges /\ b \in Lines
  BY <1>1, CoderAssumption, LinesApart DEF Ages, SpanAges
<1> QED
  BY <1>1, <1>2 DEF Support

(***************************************************************************)
(* Of the flags of one bit, no more than there are errors can show an      *)
(* error other than that of the bit itself: each shows one of its own.     *)
(***************************************************************************)
LEMMA FlagsBoundedByErrors ==
  ASSUME SelfOrthogonal, NEW b \in DataBranches,
         NEW flags \in SUBSET Flags(b), NEW others, IsFiniteSet(others),
         <<b, polynomPower>> \notin others,
         \A x \in flags : Support(x[1], x[2]) \cap others # {}
  PROVE  IsFiniteSet(flags) /\ Cardinality(flags) =< Cardinality(others)
<1> DEFINE own == [x \in flags |-> CHOOSE e \in others : e \in Support(x[1], x[2])]
<1>1. \A x \in flags : own[x] \in others /\ own[x] \in Support(x[1], x[2])
  OBVIOUS
<1>2. own \in [flags -> others]
  BY <1>1
<1> HIDE DEF own
<1>3. ASSUME NEW x \in flags, NEW y \in flags, own[x] = own[y]
      PROVE  x = y
  <2> SUFFICES ASSUME x # y PROVE FALSE
    OBVIOUS
  <2>1. own[x] \in Support(x[1], x[2]) \cap Support(y[1], y[2])
    BY <1>1, <1>3
  <2>2. own[x] = <<b, polynomPower>>
    BY <2>1 DEF SelfOrthogonal
  <2> QED
    BY <1>1, <2>2
<1>4. own \in Injection(flags, others)
  BY <1>2, <1>3 DEF Injection, IsInjective
<1> QED
  BY <1>4, FS_Injection

\* A flag that shows the oldest bit of a data branch votes on it.
LEMMA OldestShows ==
  ASSUME NEW c \in CheckBranches, NEW age \in Ages, NEW b \in DataBranches,
         <<b, polynomPower>> \in Support(c, age)
  PROVE  <<c, age>> \in Flags(b)
<1>1. CheckLine(c) # b
  BY LinesApart
<1> QED
  BY <1>1 DEF Support, Flags

\* No error that shows in a flag younger than the oldest one has left the span, and
\* it shows in the flag one block later.
LEMMA AgedErrors ==
  ASSUME NEW errs \in SUBSET (Lines \X SpanAges), NEW noise \in SUBSET Lines,
         NEW errs2, errs2 = Aged(errs, Lines, SpanAges, noise)
  PROVE  /\ errs2 \in SUBSET (Lines \X SpanAges)
         /\ {l \in Lines : <<l, 0>> \in errs2} = noise
         /\ \A l \in Lines, d \in SpanAges :
              d + 1 \in SpanAges => (<<l, d + 1>> \in errs2 <=> <<l, d>> \in errs)
<1>1. errs2 = {e \in Lines \X SpanAges : IF e[2] = 0
                                         THEN e[1] \in noise
                                         ELSE <<e[1], e[2] - 1>> \in errs}
  BY DEF Aged
<1>2. 0 \in SpanAges
  BY CoderAssumption DEF SpanAges
<1>3. {l \in Lines : <<l, 0>> \in errs2} = noise
  BY <1>1, <1>2
<1>4. ASSUME NEW l \in Lines, NEW d \in SpanAges, d + 1 \in SpanAges
      PROVE  <<l, d + 1>> \in errs2 <=> <<l, d>> \in errs
  <2>1. d + 1 # 0 /\ (d + 1) - 1 = d
    BY DEF SpanAges
  <2> QED
    BY <1>1, <1>4, <2>1
<1> QED
  BY <1>1, <1>3, <1>4

LEMMA AgedSupport ==
  ASSUME NEW errs \in SUBSET (Lines \X SpanAges), NEW noise \in SUBSET Lines,
         NEW errs2, errs2 = Aged(errs, Lines, SpanAges, noise),
         NEW c \in CheckBranches, NEW age \in Ages, age + 1 \in Ages
  PROVE  /\ \A e \in Support(c, age) \cap errs :
              <<e[1], e[2] + 1>> \in Support(c, age + 1) \cap errs2
         /\ \A e \in Support(c, age + 1) \cap errs2 :
              <<e[1], e[2] - 1>> \in Support(c, age) \cap errs
<1>1. ASSUME NEW e \in Support(c, age) \cap errs
      PROVE  <<e[1], e[2] + 1>> \in Support(c, age + 1) \cap errs2
  <2>1. e = <<e[1], e[2]>> /\ e[1] \in Lines /\ e[2] \in SpanAges
    BY DEF Support
  <2> QED
    BY <2>1, SupportAges, AgedErrors
<1>2. ASSUME NEW e \in Support(c, age + 1) \cap errs2
      PROVE  <<e[1], e[2] - 1>> \in Support(c, age) \cap errs
  <2>1. /\ e = <<e[1], e[2]>> /\ e[1] \in Lines
        /\ e[2] \in SpanAges /\ e[2] - 1 \in SpanAges
    BY SupportPositive
  <2>2. (e[2] - 1) + 1 = e[2]
    BY <2>1 DEF SpanAges
  <2> QED
    BY <2>1, <2>2, SupportAges, AgedErrors
<1> QED
  BY <1>1, <1>2

\* What the sent block carries.
LEMMA SentLines ==
  ASSUME NEW sent
  PROVE  /\ SentBlock(sent) \in SUBSET Lines
         /\ \A b \in DataBranches : b \in SentBlock(sent) <=> <<b, 0>> \in sent
         /\ \A c \in CheckBranches :
              CheckLine(c) \in SentBlock(sent) <=> CheckBit(sent, c)
<1> DEFINE newest == {b \in DataBranches : <<b, 0>> \in sent}
<1>1. newest \in SUBSET DataBranches
  OBVIOUS
<1>2. SentBlock(sent) = Encoded(sent, newest)
  BY DEF SentBlock
<1>3. \A b \in DataBranches : b \in newest <=> <<b, 0>> \in sent
  OBVIOUS
<1> HIDE DEF newest
<1> QED
  BY <1>1, <1>2, <1>3, EncodedLines

-----------------------------------------------------------------------------
\* Fresh registers are in step.
LEMMA FreshRegistersTrack ==
  /\ \A block : LineTracked("encode", {}, {}, {}, block, {})
  /\ FlagsInStep("encode", {}, {})
BY DEF LineTracked, DecoderTracks, BlockTracks, FlagsExplained, FlagsInStep,
       FlagsCurrent, LoneErrorsRaise

\* Encode keeps the sender, the decoder and the line in step.
LEMMA EncodeKeepsTrack ==
  ASSUME NEW sent, NEW bank, NEW syndrome, NEW block, NEW errs,
         LineTracked("encode", sent, bank, syndrome, block, errs),
         NEW src \in SUBSET DataBranches,
         NEW sent2, sent2 = Shift(sent, DataBranches, src)
  PROVE  LineTracked("transmit", sent2, bank, syndrome, Encoded(sent2, src), errs)
<1>1. ASSUME NEW b \in DataBranches, NEW age \in Ages, age + 1 \in Ages
      PROVE  <<b, age>> \in bank <=> ((<<b, age + 1>> \in sent2) # (<<b, age>> \in errs))
  <2>1. age + 1 \in Ages \ {0} /\ (age + 1) - 1 = age
    BY <1>1 DEF Ages
  <2>2. <<b, age + 1>> \in sent2 <=> <<b, age>> \in sent
    BY <2>1, ShiftCells
  <2>3. <<b, age>> \in bank <=> ((<<b, age>> \in sent) # (<<b, age>> \in errs))
    BY DEF LineTracked, DecoderTracks, SentAge, ErrorAge
  <2> QED
    BY <2>2, <2>3
<1>2. {b \in DataBranches : <<b, 0>> \in sent2} = src
  BY ShiftCells
<1>3. DecoderTracks("transmit", sent2, bank, errs)
  BY <1>1 DEF DecoderTracks, SentAge, ErrorAge
<1>4. BlockTracks("transmit", sent2, Encoded(sent2, src), errs)
  BY <1>2 DEF BlockTracks, SentBlock
<1>5. FlagsExplained("transmit", syndrome, errs)
  BY DEF LineTracked, FlagsExplained, InUse, ErrorAge
<1> QED
  BY <1>3, <1>4, <1>5 DEF LineTracked

\* So does the noise.
LEMMA NoiseKeepsTrack ==
  ASSUME NEW sent, NEW bank, NEW syndrome, NEW block, NEW errs,
         LineTracked("transmit", sent, bank, syndrome, block, errs),
         NEW noise \in SUBSET Lines,
         NEW errs2, errs2 = Aged(errs, Lines, SpanAges, noise)
  PROVE  LineTracked("decode", sent, bank, syndrome, SymDiff(block, noise), errs2)
<1>0. errs \in SUBSET (Lines \X SpanAges) /\ syndrome \in SUBSET (CheckBranches \X Ages)
  BY DEF LineTracked
<1>1. ASSUME NEW b \in DataBranches, NEW age \in Ages, age + 1 \in Ages
      PROVE  <<b, age>> \in bank
               <=> ((<<b, age + 1>> \in sent) # (<<b, age + 1>> \in errs2))
  <2>1. age \in SpanAges /\ age + 1 \in SpanAges /\ b \in Lines
    BY <1>1, CoderAssumption, LinesApart DEF Ages, SpanAges
  <2>2. <<b, age + 1>> \in errs2 <=> <<b, age>> \in errs
    BY <1>0, <2>1, AgedErrors
  <2>3. <<b, age>> \in bank <=> ((<<b, age + 1>> \in sent) # (<<b, age>> \in errs))
    BY <1>1 DEF LineTracked, DecoderTracks, SentAge, ErrorAge
  <2> QED
    BY <2>2, <2>3
<1>2. DecoderTracks("decode", sent, bank, errs2)
  BY <1>1 DEF DecoderTracks, SentAge, ErrorAge
<1>3. BlockTracks("decode", sent, SymDiff(block, noise), errs2)
  <2>1. block = SentBlock(sent)
    BY DEF LineTracked, BlockTracks
  <2>2. {l \in Lines : <<l, 0>> \in errs2} = noise
    BY <1>0, AgedErrors
  <2> QED
    BY <2>1, <2>2 DEF BlockTracks
<1>4. ASSUME NEW x \in syndrome, x[2] + 1 \in Ages
      PROVE  Support(x[1], x[2] + 1) \cap errs2 # {}
  <2>1. x[1] \in CheckBranches /\ x[2] \in Ages
    BY <1>0
  <2>2. Support(x[1], x[2]) \cap errs # {}
    BY <2>1 DEF LineTracked, FlagsExplained, InUse, ErrorAge
  <2>3. PICK e \in Support(x[1], x[2]) \cap errs : TRUE
    BY <2>2
  <2>4. <<e[1], e[2] + 1>> \in Support(x[1], x[2] + 1) \cap errs2
    BY <1>0, <1>4, <2>1, AgedSupport
  <2> QED
    BY <2>4
<1>5. FlagsExplained("decode", syndrome, errs2)
  BY <1>4 DEF FlagsExplained, InUse, ErrorAge
<1> QED
  BY <1>0, <1>2, <1>3, <1>5, AgedErrors DEF LineTracked

-----------------------------------------------------------------------------
(***************************************************************************)
(* The call of Decode: bank2 and next are the decoder's registers as the   *)
(* threshold loop finds them.                                              *)
(***************************************************************************)
Arrives(bank, syndrome, block, bank2, next) ==
  /\ bank2 = Shift(bank, DataBranches, block \cap DataBranches)
  /\ next = Shift(syndrome, CheckBranches, Mismatches(bank2, block))

\* The registers hold what was sent, but for the errors, and so do the check bits.
Arrived(sent, bank2, block, errs) ==
  /\ \A b \in DataBranches, age \in Ages :
       <<b, age>> \in bank2 <=> ((<<b, age>> \in sent) # (<<b, age>> \in errs))
  /\ \A c \in CheckBranches :
       CheckLine(c) \in block <=> (CheckBit(sent, c) # (<<CheckLine(c), 0>> \in errs))

LEMMA BlockArrives ==
  ASSUME NEW sent, NEW bank, NEW syndrome, NEW block, NEW errs, NEW bank2,
         LineTracked("decode", sent, bank, syndrome, block, errs),
         bank2 = Shift(bank, DataBranches, block \cap DataBranches)
  PROVE  Arrived(sent, bank2, block, errs)
<1>1. \A l : l \in block <=> ((l \in SentBlock(sent))
                                # (l \in {k \in Lines : <<k, 0>> \in errs}))
  BY SymDiffMember DEF LineTracked, BlockTracks
<1>2. ASSUME NEW b \in DataBranches, NEW age \in Ages
      PROVE  <<b, age>> \in bank2 <=> ((<<b, age>> \in sent) # (<<b, age>> \in errs))
  <2>1. CASE age = 0
    <3>1. <<b, 0>> \in bank2 <=> b \in block
      BY ShiftCells
    <3>2. b \in SentBlock(sent) <=> <<b, 0>> \in sent
      BY SentLines
    <3>3. b \in {l \in Lines : <<l, 0>> \in errs} <=> <<b, 0>> \in errs
      BY LinesApart
    <3> QED
      BY <1>1, <2>1, <3>1, <3>2, <3>3
  <2>2. CASE age # 0
    <3>1. age - 1 \in Ages /\ (age - 1) + 1 = age /\ age \in Ages \ {0}
      BY <2>2, CoderAssumption DEF Ages
    <3>2. <<b, age>> \in bank2 <=> <<b, age - 1>> \in bank
      BY <3>1, ShiftCells
    <3>3. SentAge("decode", age - 1) = age /\ ErrorAge("decode", age - 1) = age
      BY <3>1 DEF SentAge, ErrorAge
    <3>4. <<b, age - 1>> \in bank <=> ((<<b, age>> \in sent) # (<<b, age>> \in errs))
      BY <3>1, <3>3 DEF LineTracked, DecoderTracks
    <3> QED
      BY <3>2, <3>4
  <2> QED
    BY <2>1, <2>2
<1>3. ASSUME NEW c \in CheckBranches
      PROVE  CheckLine(c) \in block
               <=> (CheckBit(sent, c) # (<<CheckLine(c), 0>> \in errs))
  <2>1. CheckLine(c) \in SentBlock(sent) <=> CheckBit(sent, c)
    BY SentLines
  <2>2. CheckLine(c) \in {l \in Lines : <<l, 0>> \in errs}
          <=> <<CheckLine(c), 0>> \in errs
    BY LinesApart
  <2> QED
    BY <1>1, <2>1, <2>2 DEF CheckBit, Parity
<1> QED
  BY <1>2, <1>3 DEF Arrived

\* A new flag is raised only if an error shows in it.
LEMMA MismatchExplained ==
  ASSUME NEW sent, NEW bank2, NEW block, NEW errs, Arrived(sent, bank2, block, errs),
         NEW c \in Mismatches(bank2, block)
  PROVE  Support(c, 0) \cap errs # {}
<1> SUFFICES ASSUME Support(c, 0) \cap errs = {} PROVE FALSE
  OBVIOUS
<1>1. c \in CheckBranches /\ CheckBit(bank2, c) # (CheckLine(c) \in block)
  BY DEF Mismatches
<1>2. <<CheckLine(c), 0>> \notin errs /\ Taps(c) \cap errs = {}
  BY <1>1, NewestSupport
<1>3. Taps(c) \cap bank2 = Taps(c) \cap sent
  BY <1>2 DEF Taps, Arrived
<1>4. CheckBit(bank2, c) <=> CheckBit(sent, c)
  BY <1>3 DEF CheckBit
<1>5. CheckLine(c) \in block <=> CheckBit(sent, c)
  BY <1>1, <1>2 DEF CheckBit, Parity, Arrived
<1> QED
  BY <1>1, <1>4, <1>5 DEF CheckBit, Parity

\* A flag that the threshold loop finds raised is explained by an error.
FlagsShow(next, errs) ==
  \A x \in next : /\ x[1] \in CheckBranches
                  /\ x[2] \in Ages
                  /\ Support(x[1], x[2]) \cap errs # {}

LEMMA NextFlagsExplained ==
  ASSUME NEW sent, NEW bank, NEW syndrome, NEW block, NEW errs, NEW bank2, NEW next,
         LineTracked("decode", sent, bank, syndrome, block, errs),
         Arrives(bank, syndrome, block, bank2, next)
  PROVE  FlagsShow(next, errs)
<1> SUFFICES ASSUME NEW x \in next
             PROVE  /\ x[1] \in CheckBranches /\ x[2] \in Ages
                    /\ Support(x[1], x[2]) \cap errs # {}
  BY DEF FlagsShow
<1>0. Arrived(sent, bank2, block, errs)
  BY BlockArrives DEF Arrives
<1>1. x = <<x[1], x[2]>> /\ x[1] \in CheckBranches /\ x[2] \in Ages
  BY DEF Arrives, Shift, Aged
<1>2. CASE x[2] = 0
  <2>1. x[1] \in Mismatches(bank2, block)
    BY <1>1, <1>2, ShiftCells DEF Arrives
  <2> QED
    BY <1>0, <1>1, <1>2, <2>1, MismatchExplained
<1>3. CASE x[2] # 0
  <2>1. x[2] - 1 \in Ages /\ (x[2] - 1) + 1 = x[2] /\ x[2] \in Ages \ {0}
    BY <1>1, <1>3, CoderAssumption DEF Ages
  <2>2. <<x[1], x[2] - 1>> \in syndrome
    BY <1>1, <2>1, ShiftCells DEF Arrives
  <2>3. ErrorAge("decode", x[2] - 1) = x[2]
    BY <2>1 DEF ErrorAge
  <2>4. FlagsExplained("decode", syndrome, errs)
    BY DEF LineTracked
  <2> QED
    BY <1>1, <2>1, <2>2, <2>3, <2>4 DEF FlagsExplained, InUse
<1> QED
  BY <1>2, <1>3

\* Within the code distance only a bit in error passes the threshold.
LEMMA NoFalsePass ==
  ASSUME SelfOrthogonal, NEW errs \in SUBSET (Lines \X SpanAges),
         WithinDistance(Cardinality(errs)),
         NEW next, FlagsShow(next, errs),
         NEW flips \in SUBSET DataBranches, PassThreshold(flips, next, {})
  PROVE  \A b \in flips : <<b, polynomPower>> \in errs
<1> SUFFICES ASSUME NEW b \in flips, <<b, polynomPower>> \notin errs
             PROVE  FALSE
  OBVIOUS
<1> DEFINE earlier == {d \in flips : d < b}
           flags   == Flags(b) \cap (next \ Dropped(earlier))
<1>1. ExceedsThreshold(CountOfIdentities(next \ Dropped(earlier), {}, b))
  BY DEF PassThreshold
<1>2. IsFiniteSet(flags) /\ Cardinality(flags) =< Cardinality(errs)
  <2>1. \A x \in flags : Support(x[1], x[2]) \cap errs # {}
    BY DEF FlagsShow
  <2>2. flags \in SUBSET Flags(b)
    OBVIOUS
  <2> HIDE DEF flags
  <2> QED
    BY <2>1, <2>2, ErrorsFinite, FlagsBoundedByErrors
<1>3. CountOfIdentities(next \ Dropped(earlier), {}, b) = Cardinality(flags)
  BY <1>2, FS_CardinalityType DEF CountOfIdentities
<1>4. Cardinality(flags) \in Nat
  BY <1>2, FS_CardinalityType
<1> HIDE DEF flags
<1> QED
  BY <1>1, <1>2, <1>3, <1>4, ErrorsFinite, DminBounds DEF ExceedsThreshold, WithinDistance

\* If no error is left in the span, nothing passes the threshold.
LEMMA CleanNoPass ==
  ASSUME NEW next, FlagsShow(next, {}),
         NEW flips \in SUBSET DataBranches, PassThreshold(flips, next, {})
  PROVE  flips = {}
<1>1. next = {}
  BY DEF FlagsShow
<1>2. ASSUME NEW b \in flips
      PROVE  FALSE
  <2>1. Flags(b) \cap (next \ Dropped({d \in flips : d < b})) = {}
    BY <1>1
  <2> QED
    BY <2>1, NoFlagsNoPass DEF PassThreshold
<1> QED
  BY <1>2

\* Decode brings sender, decoder and line into step again.
LEMMA DecodeKeepsTrack ==
  ASSUME NEW sent, NEW bank, NEW syndrome, NEW block, NEW errs, NEW bank2, NEW next,
         LineTracked("decode", sent, bank, syndrome, block, errs),
         Arrives(bank, syndrome, block, bank2, next),
         NEW syndrome2 \in SUBSET next
  PROVE  LineTracked("encode", sent, bank2, syndrome2, block, errs)
<1>1. Arrived(sent, bank2, block, errs)
  BY BlockArrives DEF Arrives
<1>2. FlagsShow(next, errs)
  BY NextFlagsExplained
<1>3. syndrome2 \in SUBSET (CheckBranches \X Ages)
  BY ShiftCells DEF Arrives
<1>4. DecoderTracks("encode", sent, bank2, errs)
  BY <1>1 DEF DecoderTracks, SentAge, ErrorAge, Arrived
<1>5. BlockTracks("encode", sent, block, errs)
  BY DEF BlockTracks
<1>6. FlagsExplained("encode", syndrome2, errs)
  BY <1>2 DEF FlagsShow, FlagsExplained, ErrorAge
<1> QED
  BY <1>3, <1>4, <1>5, <1>6 DEF LineTracked

-----------------------------------------------------------------------------
\* A single error among the bits of a new flag raises it.
LEMMA MismatchRaised ==
  ASSUME NEW sent, NEW bank2, NEW block, NEW errs, Arrived(sent, bank2, block, errs),
         NEW c \in CheckBranches, NEW e \in errs, Support(c, 0) \cap errs = {e}
  PROVE  c \in Mismatches(bank2, block)
<1> DEFINE ones     == Taps(c) \cap sent
           received == Taps(c) \cap bank2
<1>1. IsFiniteSet(ones) /\ IsFiniteSet(received)
  <2>1. IsFiniteSet(Taps(c))
    BY FiniteBanks, FS_Subset DEF Taps
  <2> QED
    BY <2>1, FS_Intersection
<1>2. \A x \in Taps(c) : x \in received <=> ((x \in ones) # (x \in errs))
  BY DEF Taps, Arrived
<1>3. /\ CheckBit(sent, c) <=> Parity(ones)
      /\ CheckBit(bank2, c) <=> Parity(received)
  BY DEF CheckBit
<1>4. CheckLine(c) \in block <=> (Parity(ones) # (<<CheckLine(c), 0>> \in errs))
  BY <1>3 DEF Parity, CheckBit, Arrived
<1>5. <<CheckLine(c), 0>> \notin Taps(c)
  BY LinesApart DEF Taps
<1>6. ones \subseteq Taps(c) /\ received \subseteq Taps(c)
  OBVIOUS
<1> HIDE DEF ones, received
<1>7. CASE e = <<CheckLine(c), 0>>
  <2>1. Taps(c) \cap errs = {}
    BY <1>5, <1>7, NewestSupport
  <2>2. ones = received
    BY <1>2, <1>6, <2>1
  <2> QED
    BY <1>3, <1>4, <1>7, <2>2 DEF Mismatches, Parity, CheckBit
<1>8. CASE e # <<CheckLine(c), 0>>
  <2>1. e \in Taps(c) /\ Taps(c) \cap errs = {e} /\ <<CheckLine(c), 0>> \notin errs
    BY <1>8, NewestSupport
  <2>2. Parity(received) <=> ~ Parity(ones)
    <3>1. CASE e \in ones
      <4>1. e \notin received /\ ones = received \cup {e}
        BY <1>2, <1>6, <2>1, <3>1
      <4> QED
        BY <1>1, <4>1, ParityFlips
    <3>2. CASE e \notin ones
      <4>1. received = ones \cup {e}
        BY <1>2, <1>6, <2>1, <3>2
      <4> QED
        BY <1>1, <3>2, <4>1, ParityFlips
    <3> QED
      BY <3>1, <3>2
  <2> QED
    BY <1>3, <1>4, <2>1, <2>2 DEF Mismatches, Parity, CheckBit
<1> QED
  BY <1>7, <1>8

\* The threshold loop finds a flag raised only for an error not decided before, and
\* finds every flag raised that a single such error shows in.
FlagsDue(next, errs) ==
  /\ \A x \in next : \E e \in Support(x[1], x[2]) \cap errs :
       e[1] \in DataBranches => e[2] =< polynomPower
  /\ \A c \in CheckBranches, age \in Ages : \A e \in errs :
       ( /\ Support(c, age) \cap errs = {e}
         /\ e[1] \in DataBranches => e[2] =< polynomPower )
       => <<c, age>> \in next

LEMMA NextFlagsDue ==
  ASSUME NEW sent, NEW bank, NEW syndrome, NEW block, NEW errs, NEW bank2, NEW next,
         LineTracked("decode", sent, bank, syndrome, block, errs),
         FlagsInStep("decode", syndrome, errs),
         Arrives(bank, syndrome, block, bank2, next)
  PROVE  FlagsDue(next, errs)
<1>0. Arrived(sent, bank2, block, errs)
  BY BlockArrives DEF Arrives
<1>00. /\ \A age \in Ages \ {0} : /\ age - 1 \in Ages
                                 /\ (age - 1) + 1 = age
                                 /\ ErrorAge("decode", age - 1) = age
       /\ ErrorAge("decode", polynomPower) = polynomPower + 1
       /\ polynomPower \in Nat
  BY CoderAssumption DEF Ages, ErrorAge
<1>1. ASSUME NEW x \in next
      PROVE  \E e \in Support(x[1], x[2]) \cap errs :
               e[1] \in DataBranches => e[2] =< polynomPower
  <2>1. x = <<x[1], x[2]>> /\ x[1] \in CheckBranches /\ x[2] \in Ages
    BY DEF Arrives, Shift, Aged
  <2>2. CASE x[2] = 0
    <3>1. x[1] \in Mismatches(bank2, block)
      BY <2>1, <2>2, ShiftCells DEF Arrives
    <3>2. PICK e \in Support(x[1], 0) \cap errs : TRUE
      BY <1>0, <3>1, MismatchExplained
    <3>3. e[1] \in DataBranches => e[2] \in Ages
      BY <2>1, <3>2, NewestSupport, LinesApart DEF Taps
    <3> QED
      BY <2>2, <3>2, <3>3 DEF Ages
  <2>3. CASE x[2] # 0
    <3>1. <<x[1], x[2] - 1>> \in syndrome
      BY <2>1, <2>3, ShiftCells DEF Arrives
    <3>2. PICK e \in Support(x[1], x[2]) \cap errs : ~ Decided("decode", e)
      BY <1>00, <2>1, <2>3, <3>1 DEF FlagsInStep, FlagsCurrent, InUse
    <3>3. e[2] \in Nat
      BY DEF Support, SpanAges
    <3> QED
      BY <1>00, <3>2, <3>3 DEF Decided
  <2> QED
    BY <2>2, <2>3
<1>2. ASSUME NEW c \in CheckBranches, NEW age \in Ages, NEW e \in errs,
             Support(c, age) \cap errs = {e},
             e[1] \in DataBranches => e[2] =< polynomPower
      PROVE  <<c, age>> \in next
  <2>1. CASE age = 0
    BY <1>0, <1>2, <2>1, MismatchRaised, ShiftCells DEF Arrives
  <2>2. CASE age # 0
    <3>1. e[2] \in Nat
      BY DEF LineTracked, SpanAges
    <3>2. ~ Decided("decode", e)
      BY <1>00, <1>2, <3>1 DEF Decided
    <3>3. <<c, age - 1>> \in syndrome
      BY <1>00, <1>2, <2>2, <3>2 DEF FlagsInStep, LoneErrorsRaise, InUse
    <3> QED
      BY <2>2, <3>3, ShiftCells DEF Arrives
  <2> QED
    BY <2>1, <2>2
<1> QED
  BY <1>1, <1>2 DEF FlagsDue

\* Within the code distance a bit in error passes the threshold: the flags that
\* show no other error are raised, and they are the majority.
LEMMA TruePass ==
  ASSUME SelfOrthogonal, NEW errs \in SUBSET (Lines \X SpanAges),
         WithinDistance(Cardinality(errs)),
         NEW next, FlagsShow(next, errs), FlagsDue(next, errs),
         NEW flips \in SUBSET DataBranches, PassThreshold(flips, next, {}),
         NEW b \in DataBranches, <<b, polynomPower>> \in errs,
         GetItemsForDataBranchIndex(b) # {}
  PROVE  b \in flips
<1> DEFINE own     == <<b, polynomPower>>
           earlier == {d \in flips : d < b}
           others  == errs \ {own}
           lone    == {x \in Flags(b) : Support(x[1], x[2]) \cap errs = {own}}
           crowded == Flags(b) \ lone
           raised  == Flags(b) \cap (next \ Dropped(earlier))
<1>1. own \in errs
  OBVIOUS
<1>2. IsFiniteSet(Flags(b)) /\ GetDmin - 1 =< Cardinality(Flags(b))
  BY EnoughFlags
<1>3. IsFiniteSet(others) /\ Cardinality(others) = Cardinality(errs) - 1
  BY <1>1, ErrorsFinite, FS_RemoveElement
<1>4. Cardinality(crowded) =< Cardinality(others)
  <2>1. \A x \in crowded : Support(x[1], x[2]) \cap others # {}
    BY <1>1, OwnBitShows
  <2>2. crowded \in SUBSET Flags(b) /\ own \notin others
    OBVIOUS
  <2> HIDE DEF crowded, others
  <2> QED
    BY <1>3, <2>1, <2>2, FlagsBoundedByErrors
<1>5. Cardinality(lone) = Cardinality(Flags(b)) - Cardinality(crowded)
  <2>1. lone = Flags(b) \ crowded /\ crowded = Flags(b) \cap crowded
    OBVIOUS
  <2> HIDE DEF lone, crowded
  <2>2. Cardinality(Flags(b) \ crowded)
          = Cardinality(Flags(b)) - Cardinality(Flags(b) \cap crowded)
    BY <1>2, FS_Difference
  <2> QED
    BY <2>1, <2>2
<1>6. lone \subseteq raised
  <2> SUFFICES ASSUME NEW x \in lone PROVE x \in raised
    OBVIOUS
  <2>1. x \in Flags(b) /\ x = <<x[1], x[2]>> /\ Support(x[1], x[2]) \cap errs = {own}
    BY DEF Flags
  <2>2. x \in next
    BY <1>1, <2>1, OwnBitShows, CoderAssumption DEF FlagsDue
  <2>3. ASSUME NEW d \in earlier, x \in Flags(d)
        PROVE  FALSE
    <3>1. d \in flips /\ d \in DataBranches /\ d < b
      OBVIOUS
    <3>2. <<d, polynomPower>> \in errs
      BY <3>1, NoFalsePass
    <3>3. <<d, polynomPower>> \in Support(x[1], x[2])
      BY <2>3, <3>1, OwnBitShows
    <3>4. d = b
      BY <2>1, <3>2, <3>3
    <3> QED
      BY <3>1, <3>4 DEF DataBranches
  <2> QED
    BY <2>1, <2>2, <2>3 DEF Dropped
<1>7. IsFiniteSet(raised) /\ Cardinality(lone) =< Cardinality(raised)
  <2>1. IsFiniteSet(raised)
    BY <1>2, FS_Intersection
  <2> HIDE DEF lone, raised
  <2> QED
    BY <1>6, <2>1, FS_Subset
<1>8. CountOfIdentities(next \ Dropped(earlier), {}, b) = Cardinality(raised)
  BY <1>7, FS_CardinalityType DEF CountOfIdentities
<1>9. /\ Cardinality(raised) \in Nat /\ Cardinality(lone) \in Nat
      /\ Cardinality(crowded) \in Nat /\ Cardinality(Flags(b)) \in Nat
  <2>1. IsFiniteSet(lone) /\ IsFiniteSet(crowded)
    BY <1>2, FS_Subset
  <2> HIDE DEF lone, crowded, raised
  <2> QED
    BY <1>2, <1>7, <2>1, FS_CardinalityType
<1> HIDE DEF lone, crowded, raised, others
<1>10. 2 * Cardinality(raised) > GetDmin - 1
  BY <1>2, <1>3, <1>4, <1>5, <1>7, <1>9, ErrorsFinite, DminBounds DEF WithinDistance
<1> QED
  BY <1>8, <1>10 DEF PassThreshold, ExceedsThreshold

\* Within the code distance the threshold loop corrects exactly the bits in error.
LEMMA PassIsError ==
  ASSUME CorrectingCode, NEW errs \in SUBSET (Lines \X SpanAges),
         WithinDistance(Cardinality(errs)),
         NEW next, FlagsShow(next, errs), FlagsDue(next, errs),
         NEW flips \in SUBSET DataBranches, PassThreshold(flips, next, {})
  PROVE  flips = {b \in DataBranches : <<b, polynomPower>> \in errs}
<1>1. \A b \in flips : <<b, polynomPower>> \in errs
  BY NoFalsePass DEF CorrectingCode
<1>2. ASSUME NEW b \in DataBranches, <<b, polynomPower>> \in errs
      PROVE  b \in flips
  BY <1>2, TruePass DEF CorrectingCode, EveryBranchChecked
<1> QED
  BY <1>1, <1>2

-----------------------------------------------------------------------------
\* Encode raises and decides nothing.
LEMMA EncodeKeepsFlags ==
  ASSUME NEW syndrome, NEW errs, FlagsInStep("encode", syndrome, errs)
  PROVE  FlagsInStep("transmit", syndrome, errs)
<1>1. \A age : ErrorAge("encode", age) = ErrorAge("transmit", age)
  BY DEF ErrorAge
<1> QED
  BY <1>1 DEF FlagsInStep, FlagsCurrent, LoneErrorsRaise, InUse, Decided

\* Errors and flags grow old together.
LEMMA NoiseKeepsFlags ==
  ASSUME NEW syndrome \in SUBSET (CheckBranches \X Ages),
         NEW errs \in SUBSET (Lines \X SpanAges),
         FlagsInStep("transmit", syndrome, errs),
         NEW noise \in SUBSET Lines,
         NEW errs2, errs2 = Aged(errs, Lines, SpanAges, noise)
  PROVE  FlagsInStep("decode", syndrome, errs2)
<1>1. /\ \A age \in Ages : ErrorAge("transmit", age) = age /\ ErrorAge("decode", age) = age + 1
      /\ ErrorAge("transmit", polynomPower) = polynomPower
      /\ ErrorAge("decode", polynomPower) = polynomPower + 1
  BY DEF ErrorAge
<1>2. \A l \in Lines, d \in SpanAges :
        Decided("decode", <<l, d + 1>>) <=> Decided("transmit", <<l, d>>)
  BY <1>1, CoderAssumption DEF Decided, SpanAges
<1>3. ASSUME NEW x \in syndrome, InUse("decode", x[2])
      PROVE  \E e \in Support(x[1], ErrorAge("decode", x[2])) \cap errs2 :
               ~ Decided("decode", e)
  <2>1. x[1] \in CheckBranches /\ x[2] \in Ages /\ x[2] + 1 \in Ages
    BY <1>1, <1>3 DEF InUse
  <2>2. PICK e \in Support(x[1], x[2]) \cap errs : ~ Decided("transmit", e)
    BY <1>1, <2>1 DEF FlagsInStep, FlagsCurrent, InUse
  <2>3. e = <<e[1], e[2]>> /\ e[1] \in Lines /\ e[2] \in SpanAges
    BY DEF Support
  <2>4. <<e[1], e[2] + 1>> \in Support(x[1], x[2] + 1) \cap errs2
    BY <2>1, <2>2, AgedSupport
  <2>5. ~ Decided("decode", <<e[1], e[2] + 1>>)
    BY <1>2, <2>2, <2>3
  <2> QED
    BY <1>1, <2>1, <2>4, <2>5
<1>4. ASSUME NEW c \in CheckBranches, NEW age \in Ages, NEW e \in errs2,
             InUse("decode", age),
             Support(c, ErrorAge("decode", age)) \cap errs2 = {e},
             ~ Decided("decode", e)
      PROVE  <<c, age>> \in syndrome
  <2>1. age + 1 \in Ages /\ Support(c, age + 1) \cap errs2 = {e}
    BY <1>1, <1>4 DEF InUse
  <2>2. /\ e = <<e[1], e[2]>> /\ e[1] \in Lines
        /\ e[2] \in SpanAges /\ e[2] - 1 \in SpanAges /\ (e[2] - 1) + 1 = e[2]
    BY <2>1, SupportPositive DEF SpanAges
  <2>3. <<e[1], e[2] - 1>> \in Support(c, age) \cap errs
    BY <2>1, AgedSupport
  <2>4. ASSUME NEW g \in Support(c, age) \cap errs
        PROVE  g = <<e[1], e[2] - 1>>
    <3>1. <<g[1], g[2] + 1>> = e
      BY <2>1, <2>4, AgedSupport
    <3>2. g = <<g[1], g[2]>> /\ g[2] \in Nat
      BY DEF Support, SpanAges
    <3> QED
      BY <3>1, <3>2
  <2>5. ~ Decided("transmit", <<e[1], e[2] - 1>>)
    BY <1>2, <1>4, <2>2
  <2>6. Support(c, age) \cap errs = {<<e[1], e[2] - 1>>}
    BY <2>3, <2>4
  <2> QED
    BY <1>1, <2>3, <2>5, <2>6 DEF FlagsInStep, LoneErrorsRaise, InUse
<1>5. FlagsCurrent("decode", syndrome, errs2)
  BY <1>3 DEF FlagsCurrent
<1>6. LoneErrorsRaise("decode", syndrome, errs2)
  BY <1>4 DEF LoneErrorsRaise
<1> QED
  BY <1>5, <1>6 DEF FlagsInStep

\* Decode drops exactly the flags whose only error it has decided.
LEMMA DecodeKeepsFlags ==
  ASSUME NEW errs \in SUBSET (Lines \X SpanAges),
         NEW next \in SUBSET (CheckBranches \X Ages), FlagsDue(next, errs),
         NEW flips, flips = {b \in DataBranches : <<b, polynomPower>> \in errs}
  PROVE  FlagsInStep("encode", next \ Dropped(flips), errs)
<1>1. \A age : ErrorAge("encode", age) = age
  BY DEF ErrorAge
<1>2. ASSUME NEW x \in next \ Dropped(flips)
      PROVE  \E e \in Support(x[1], x[2]) \cap errs : ~ Decided("encode", e)
  <2>1. x = <<x[1], x[2]>> /\ x[1] \in CheckBranches /\ x[2] \in Ages
    OBVIOUS
  <2>2. PICK e \in Support(x[1], x[2]) \cap errs :
          e[1] \in DataBranches => e[2] =< polynomPower
    BY DEF FlagsDue
  <2>3. e = <<e[1], e[2]>> /\ e[2] \in Nat
    BY DEF Support, SpanAges
  <2>4. ASSUME Decided("encode", e)
        PROVE  FALSE
    <3>1. e[1] \in DataBranches /\ e[2] = polynomPower
      BY <1>1, <2>2, <2>3, <2>4, CoderAssumption DEF Decided
    <3>2. x \in Flags(e[1])
      BY <2>1, <2>2, <2>3, <3>1, OldestShows
    <3>3. e[1] \in flips
      BY <2>2, <2>3, <3>1
    <3> QED
      BY <3>2, <3>3 DEF Dropped
  <2> QED
    BY <2>2, <2>4
<1>3. ASSUME NEW c \in CheckBranches, NEW age \in Ages, NEW e \in errs,
             Support(c, age) \cap errs = {e}, ~ Decided("encode", e)
      PROVE  <<c, age>> \in next \ Dropped(flips)
  <2>1. e[2] \in Nat
    BY DEF SpanAges
  <2>2. e[1] \in DataBranches => e[2] < polynomPower
    BY <1>1, <1>3, <2>1, CoderAssumption DEF Decided
  <2>3. <<c, age>> \in next
    BY <1>3, <2>1, <2>2, CoderAssumption DEF FlagsDue
  <2>4. ASSUME NEW d \in flips, <<c, age>> \in Flags(d)
        PROVE  FALSE
    <3>1. <<d, polynomPower>> \in errs /\ d \in DataBranches
      OBVIOUS
    <3>2. <<d, polynomPower>> \in Support(c, age)
      BY <2>4, <3>1, OwnBitShows
    <3>3. e = <<d, polynomPower>>
      BY <1>3, <3>1, <3>2
    <3> QED
      BY <2>2, <3>1, <3>3, CoderAssumption
  <2> QED
    BY <2>3, <2>4 DEF Dropped
<1>4. FlagsCurrent("encode", next \ Dropped(flips), errs)
  BY <1>1, <1>2 DEF FlagsCurrent
<1>5. LoneErrorsRaise("encode", next \ Dropped(flips), errs)
  BY <1>1, <1>3 DEF LoneErrorsRaise
<1> QED
  BY <1>4, <1>5 DEF FlagsInStep

=============================================================================
