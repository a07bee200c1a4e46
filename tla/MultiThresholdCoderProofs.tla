------------------------ MODULE MultiThresholdCoderProofs ------------------------
(***************************************************************************)
(* Proofs about MultiThresholdCoder, for every code, every number of       *)
(* sections and every bound on the noise.                                  *)
(*                                                                         *)
(* Within one call of DecodeCore each section takes what leaves the one    *)
(* before it: the banks of all sections are solutions of the recursive     *)
(* definitions DataOf, SyndromeOf and DiffOf, and what holds of them is    *)
(* proved section by section.                                              *)
(***************************************************************************)
EXTENDS MultiThresholdCoder, CoderRegistriesProofs

-----------------------------------------------------------------------------
(***************************************************************************)
(* Chains: what a recursive definition over the sections defines.          *)
(***************************************************************************)
\* What holds of the first section and passes from each section to the next one
\* holds of all of them.
LEMMA SectionInduction ==
  ASSUME NEW T, 1 \in T,
         \A s \in Sections : s \in T /\ s + 1 \in Sections => s + 1 \in T
  PROVE  Sections \subseteq T
<1> DEFINE missing == Sections \ T
<1> SUFFICES ASSUME missing # {} PROVE FALSE
  OBVIOUS
<1>1. countDecoderSections \in Nat /\ missing \in SUBSET Nat
  BY SectionsAssumption DEF Sections
<1>2. Min(missing) \in missing /\ \A s \in missing : Min(missing) =< s
  <2> HIDE DEF missing
  <2> QED
    BY <1>1, MinOfNaturals
<1>3. PICK least \in missing : \A s \in missing : least =< s
  BY <1>2
<1>4. least # 1 /\ least - 1 \in Sections /\ (least - 1) + 1 = least
  BY <1>1, <1>3 DEF Sections
<1>5. least - 1 \notin missing
  BY <1>1, <1>3
<1> QED
  BY <1>3, <1>4, <1>5

\* A chain of some length: step[k] makes its k-th link of the one before it.
IsChain(link, length, V, start, step) ==
  /\ link \in [0 .. length -> V]
  /\ link[0] = start
  /\ \A k \in 1 .. length : link[k] = step[k][link[k - 1]]

LEMMA ChainExists ==
  ASSUME NEW n \in Nat, NEW V, NEW start \in V, NEW step \in [1 .. n -> [V -> V]]
  PROVE  \E link : IsChain(link, n, V, start, step)
<1> USE DEF IsChain
<1> DEFINE Chain(length, link) == IsChain(link, length, V, start, step)
           missing == {length \in 0 .. n : ~ \E link : Chain(length, link)}
<1>0. n \in 0 .. n
  OBVIOUS
<1> SUFFICES ASSUME missing # {} PROVE FALSE
  <2>1. n \notin missing => \E link : Chain(n, link)
    BY <1>0
  <2> HIDE DEF missing
  <2> QED
    BY <2>1
<1>1. missing \in SUBSET Nat
  OBVIOUS
<1>2. Min(missing) \in missing /\ \A k \in missing : Min(missing) =< k
  <2> HIDE DEF missing
  <2> QED
    BY <1>1, MinOfNaturals
<1>3. PICK least \in missing : \A k \in missing : least =< k
  BY <1>2
<1>4. least \in 0 .. n /\ least \in Nat
  OBVIOUS
<1>5. CASE least = 0
  <2>1. Chain(0, [k \in 0 .. 0 |-> start])
    OBVIOUS
  <2> QED
    BY <1>3, <1>5, <2>1
<1>6. CASE least # 0
  <2>0. least - 1 \in 0 .. n
    BY <1>4, <1>6
  <2>1. least - 1 \notin missing
    <3>1. ~ (least =< least - 1)
      BY <1>4
    <3> HIDE DEF missing
    <3> QED
      BY <1>3, <3>1
  <2>2. PICK link : Chain(least - 1, link)
    BY <2>0, <2>1
  <2> DEFINE longer == [k \in 0 .. least |->
                          IF k = least THEN step[least][link[least - 1]] ELSE link[k]]
  <2>3. step[least] \in [V -> V] /\ link[least - 1] \in V
    BY <1>4, <1>6, <2>2
  <2>4. longer \in [0 .. least -> V]
    <3> SUFFICES ASSUME NEW k \in 0 .. least
                 PROVE  (IF k = least THEN step[least][link[least - 1]] ELSE link[k]) \in V
      OBVIOUS
    <3>1. k # least => k \in 0 .. (least - 1)
      BY <1>4
    <3> QED
      BY <2>2, <2>3, <3>1
  <2>5. longer[0] = start
    BY <1>4, <1>6, <2>2
  <2>6. ASSUME NEW k \in 1 .. least
        PROVE  longer[k] = step[k][longer[k - 1]]
    <3>1. k \in 0 .. least /\ k - 1 \in 0 .. least /\ k - 1 # least
      BY <1>4
    <3>2. longer[k - 1] = link[k - 1]
      BY <3>1
    <3>3. k # least => k \in 1 .. (least - 1)
      BY <1>4
    <3> QED
      BY <2>2, <3>1, <3>2, <3>3
  <2>7. Chain(least, longer)
    <3> HIDE DEF longer
    <3> QED
      BY <2>4, <2>5, <2>6
  <2> QED
    BY <1>3, <2>7
<1> QED
  BY <1>5, <1>6

\* The data bits, or the difference bits, of all sections.
IsDataChain(chain, reg, flips, first) ==
  chain = [s \in Sections |->
             Shift(reg[s], DataBranches,
                   IF s = 1 THEN first
                   ELSE SymDiff(Oldest(chain[s - 1], DataBranches), flips[s - 1]))]

LEMMA DataChain ==
  ASSUME NEW reg, NEW flips, NEW first
  PROVE  \E chain : IsDataChain(chain, reg, flips, first)
<1> DEFINE n == countDecoderSections
           V == SUBSET (DataBranches \X Ages)
           Link(s, bank) == Shift(reg[s], DataBranches,
                                  IF s = 1 THEN first
                                  ELSE SymDiff(Oldest(bank, DataBranches), flips[s - 1]))
           step == [s \in 1 .. n |-> [bank \in V |-> Link(s, bank)]]
<1>1. n \in Nat /\ Sections = 1 .. n
  BY SectionsAssumption DEF Sections
<1>2. step \in [1 .. n -> [V -> V]]
  BY ShiftCells
<1>3. PICK link \in [0 .. n -> V] :
        link[0] = {} /\ \A k \in 1 .. n : link[k] = step[k][link[k - 1]]
  <2> DEFINE start == {}
  <2>1. start \in V /\ n \in Nat
    BY <1>1
  <2> HIDE DEF step, V, n, start
  <2>2. \E link : IsChain(link, n, V, start, step)
    BY <1>2, <2>1, ChainExists
  <2> QED
    BY <2>2 DEF start, IsChain
<1> DEFINE solution == [s \in Sections |-> link[s]]
<1>4. ASSUME NEW s \in Sections
      PROVE  solution[s] = Link(s, solution[s - 1])
  <2>1. s \in 1 .. n /\ s - 1 \in 0 .. n /\ (s # 1 => s - 1 \in Sections)
    BY <1>1
  <2>2. link[s] = Link(s, link[s - 1])
    BY <1>3, <2>1
  <2>3. CASE s = 1
    BY <2>2, <2>3
  <2>4. CASE s # 1
    BY <2>1, <2>2, <2>4
  <2> QED
    BY <2>3, <2>4
<1>5. solution = [s \in Sections |-> Link(s, solution[s - 1])]
  BY <1>4
<1> HIDE DEF solution, step, n, V
<1> QED
  BY <1>5 DEF IsDataChain

\* The syndrome bits of all sections.
IsSyndromeChain(chain, reg, flips, first) ==
  chain = [s \in Sections |->
             Shift(reg[s], CheckBranches,
                   IF s = 1 THEN first
                   ELSE Oldest(chain[s - 1] \ Dropped(flips[s - 1]), CheckBranches))]

LEMMA SyndromeChain ==
  ASSUME NEW reg, NEW flips, NEW first
  PROVE  \E chain : IsSyndromeChain(chain, reg, flips, first)
<1> DEFINE n == countDecoderSections
           V == SUBSET (CheckBranches \X Ages)
           Link(s, bank) == Shift(reg[s], CheckBranches,
                                  IF s = 1 THEN first
                                  ELSE Oldest(bank \ Dropped(flips[s - 1]), CheckBranches))
           step == [s \in 1 .. n |-> [bank \in V |-> Link(s, bank)]]
<1>1. n \in Nat /\ Sections = 1 .. n
  BY SectionsAssumption DEF Sections
<1>2. step \in [1 .. n -> [V -> V]]
  BY ShiftCells
<1>3. PICK link \in [0 .. n -> V] :
        link[0] = {} /\ \A k \in 1 .. n : link[k] = step[k][link[k - 1]]
  <2> DEFINE start == {}
  <2>1. start \in V /\ n \in Nat
    BY <1>1
  <2> HIDE DEF step, V, n, start
  <2>2. \E link : IsChain(link, n, V, start, step)
    BY <1>2, <2>1, ChainExists
  <2> QED
    BY <2>2 DEF start, IsChain
<1> DEFINE solution == [s \in Sections |-> link[s]]
<1>4. ASSUME NEW s \in Sections
      PROVE  solution[s] = Link(s, solution[s - 1])
  <2>1. s \in 1 .. n /\ s - 1 \in 0 .. n /\ (s # 1 => s - 1 \in Sections)
    BY <1>1
  <2>2. link[s] = Link(s, link[s - 1])
    BY <1>3, <2>1
  <2>3. CASE s = 1
    BY <2>2, <2>3
  <2>4. CASE s # 1
    BY <2>1, <2>2, <2>4
  <2> QED
    BY <2>3, <2>4
<1>5. solution = [s \in Sections |-> Link(s, solution[s - 1])]
  BY <1>4
<1> HIDE DEF solution, step, n, V
<1> QED
  BY <1>5 DEF IsSyndromeChain

-----------------------------------------------------------------------------
(***************************************************************************)
(* A call of DecodeCore, section by section: next holds the syndrome       *)
(* registers as the threshold loops find them.                             *)
(***************************************************************************)
Banks(branches) == [Sections -> SUBSET (branches \X Ages)]

SectionsRun(flips, next) ==
  /\ flips \in [Sections -> SUBSET DataBranches]
  /\ next \in Banks(CheckBranches)
  /\ decoderRegistries' \in Banks(DataBranches)
  /\ diffRegistries' \in Banks(DataBranches)
  /\ \A s \in Sections :
       /\ decoderRegistries'[s] =
            Shift(decoderRegistries[s], DataBranches,
                  IF s = 1 THEN block \cap DataBranches
                  ELSE SymDiff(Oldest(decoderRegistries'[s - 1], DataBranches), flips[s - 1]))
       /\ diffRegistries'[s] =
            Shift(diffRegistries[s], DataBranches,
                  IF s = 1 THEN {}
                  ELSE SymDiff(Oldest(diffRegistries'[s - 1], DataBranches), flips[s - 1]))
       /\ next[s] =
            Shift(syndromeRegistries[s], CheckBranches,
                  IF s = 1 THEN Mismatches(decoderRegistries'[1], block)
                  ELSE Oldest(next[s - 1] \ Dropped(flips[s - 1]), CheckBranches))
       /\ PassThreshold(flips[s], next[s], Oldest(diffRegistries'[s], DataBranches))
  /\ syndromeRegistries' = [s \in Sections |-> next[s] \ Dropped(flips[s])]
  /\ decoded' = SymDiff(Oldest(decoderRegistries'[countDecoderSections], DataBranches),
                        flips[countDecoderSections])

LEMMA DataOfSections ==
  ASSUME NEW flips
  PROVE  /\ DataOf(flips) \in Banks(DataBranches)
         /\ \A s \in Sections :
              DataOf(flips)[s] =
                Shift(decoderRegistries[s], DataBranches,
                      IF s = 1 THEN block \cap DataBranches
                      ELSE SymDiff(Oldest(DataOf(flips)[s - 1], DataBranches), flips[s - 1]))
<1>1. \E chain : IsDataChain(chain, decoderRegistries, flips, block \cap DataBranches)
  BY DataChain
<1>2. DataOf(flips) =
        CHOOSE chain : IsDataChain(chain, decoderRegistries, flips, block \cap DataBranches)
  BY DEF DataOf, IsDataChain
<1>3. IsDataChain(DataOf(flips), decoderRegistries, flips, block \cap DataBranches)
  BY <1>1, <1>2
<1> DEFINE bank == DataOf(flips)
<1> HIDE DEF bank
<1>4. IsDataChain(bank, decoderRegistries, flips, block \cap DataBranches)
  BY <1>3 DEF bank
<1>5. bank \in Banks(DataBranches)
  BY <1>4, ShiftCells DEF IsDataChain, Banks
<1>6. \A s \in Sections :
        bank[s] = Shift(decoderRegistries[s], DataBranches,
                        IF s = 1 THEN block \cap DataBranches
                        ELSE SymDiff(Oldest(bank[s - 1], DataBranches), flips[s - 1]))
  BY <1>4 DEF IsDataChain
<1> QED
  BY <1>5, <1>6 DEF bank

LEMMA DiffOfSections ==
  ASSUME NEW flips
  PROVE  /\ DiffOf(flips) \in Banks(DataBranches)
         /\ \A s \in Sections :
              DiffOf(flips)[s] =
                Shift(diffRegistries[s], DataBranches,
                      IF s = 1 THEN {}
                      ELSE SymDiff(Oldest(DiffOf(flips)[s - 1], DataBranches), flips[s - 1]))
<1>1. \E chain : IsDataChain(chain, diffRegistries, flips, {})
  BY DataChain
<1>2. DiffOf(flips) =
        CHOOSE chain : IsDataChain(chain, diffRegistries, flips, {})
  BY DEF DiffOf, IsDataChain
<1>3. IsDataChain(DiffOf(flips), diffRegistries, flips, {})
  BY <1>1, <1>2
<1> DEFINE bank == DiffOf(flips)
<1> HIDE DEF bank
<1>4. IsDataChain(bank, diffRegistries, flips, {})
  BY <1>3 DEF bank
<1>5. bank \in Banks(DataBranches)
  BY <1>4, ShiftCells DEF IsDataChain, Banks
<1>6. \A s \in Sections :
        bank[s] = Shift(diffRegistries[s], DataBranches,
                        IF s = 1 THEN {}
                        ELSE SymDiff(Oldest(bank[s - 1], DataBranches), flips[s - 1]))
  BY <1>4 DEF IsDataChain
<1> QED
  BY <1>5, <1>6 DEF bank

LEMMA SyndromeOfSections ==
  ASSUME NEW flips, NEW newest
  PROVE  /\ SyndromeOf(flips, newest) \in Banks(CheckBranches)
         /\ \A s \in Sections :
              SyndromeOf(flips, newest)[s] =
                Shift(syndromeRegistries[s], CheckBranches,
                      IF s = 1 THEN newest
                      ELSE Oldest(SyndromeOf(flips, newest)[s - 1] \ Dropped(flips[s - 1]), CheckBranches))
<1>1. \E chain : IsSyndromeChain(chain, syndromeRegistries, flips, newest)
  BY SyndromeChain
<1>2. SyndromeOf(flips, newest) =
        CHOOSE chain : IsSyndromeChain(chain, syndromeRegistries, flips, newest)
  BY DEF SyndromeOf, IsSyndromeChain
<1>3. IsSyndromeChain(SyndromeOf(flips, newest), syndromeRegistries, flips, newest)
  BY <1>1, <1>2
<1> DEFINE bank == SyndromeOf(flips, newest)
<1> HIDE DEF bank
<1>4. IsSyndromeChain(bank, syndromeRegistries, flips, newest)
  BY <1>3 DEF bank
<1>5. bank \in Banks(CheckBranches)
  BY <1>4, ShiftCells DEF IsSyndromeChain, Banks
<1>6. \A s \in Sections :
        bank[s] = Shift(syndromeRegistries[s], CheckBranches,
                        IF s = 1 THEN newest
                        ELSE Oldest(bank[s - 1] \ Dropped(flips[s - 1]), CheckBranches))
  BY <1>4 DEF IsSyndromeChain
<1> QED
  BY <1>5, <1>6 DEF bank

LEMMA DecodeOutcome ==
  ASSUME DecodeCore
  PROVE  /\ phase = "decode" /\ phase' = "encode"
         /\ UNCHANGED <<coderRegistries, block, sent, errors>>
         /\ \E flips, next : SectionsRun(flips, next)
<1>1. /\ phase = "decode" /\ phase' = "encode"
      /\ UNCHANGED <<coderRegistries, block, sent, errors>>
  BY DEF DecodeCore
<1>2. PICK flips \in [Sections -> SUBSET DataBranches] :
        LET data     == DataOf(flips)
            syndrome == SyndromeOf(flips, Mismatches(data[1], block))
            diff     == DiffOf(flips)
        IN  /\ \A s \in Sections :
                 PassThreshold(flips[s], syndrome[s], Oldest(diff[s], DataBranches))
            /\ decoderRegistries' = data
            /\ syndromeRegistries' =
                 [s \in Sections |-> syndrome[s] \ Dropped(flips[s])]
            /\ diffRegistries' = diff
            /\ decoded' = SymDiff(Oldest(data[countDecoderSections], DataBranches),
                                  flips[countDecoderSections])
  BY DEF DecodeCore
<1> DEFINE next == SyndromeOf(flips, Mismatches(decoderRegistries'[1], block))
<1>3. /\ decoderRegistries' = DataOf(flips) /\ diffRegistries' = DiffOf(flips)
      /\ \A s \in Sections :
           PassThreshold(flips[s], next[s], Oldest(diffRegistries'[s], DataBranches))
      /\ syndromeRegistries' = [s \in Sections |-> next[s] \ Dropped(flips[s])]
      /\ decoded' = SymDiff(Oldest(decoderRegistries'[countDecoderSections], DataBranches),
                            flips[countDecoderSections])
  BY <1>2
<1>4. /\ next \in Banks(CheckBranches)
      /\ \A s \in Sections :
           next[s] =
             Shift(syndromeRegistries[s], CheckBranches,
                   IF s = 1 THEN Mismatches(decoderRegistries'[1], block)
                   ELSE Oldest(next[s - 1] \ Dropped(flips[s - 1]), CheckBranches))
  BY SyndromeOfSections
<1>5. /\ decoderRegistries' \in Banks(DataBranches)
      /\ \A s \in Sections :
           decoderRegistries'[s] =
             Shift(decoderRegistries[s], DataBranches,
                   IF s = 1 THEN block \cap DataBranches
                   ELSE SymDiff(Oldest(decoderRegistries'[s - 1], DataBranches),
                                flips[s - 1]))
  BY <1>3, DataOfSections
<1>6. /\ diffRegistries' \in Banks(DataBranches)
      /\ \A s \in Sections :
           diffRegistries'[s] =
             Shift(diffRegistries[s], DataBranches,
                   IF s = 1 THEN {}
                   ELSE SymDiff(Oldest(diffRegistries'[s - 1], DataBranches), flips[s - 1]))
  BY <1>3, DiffOfSections
<1> HIDE DEF next
<1>7. SectionsRun(flips, next)
  BY <1>2, <1>3, <1>4, <1>5, <1>6 DEF SectionsRun
<1> QED
  BY <1>1, <1>7

-----------------------------------------------------------------------------
(***************************************************************************)
(* The invariant.  For any number of line errors, what a section holds is  *)
(* what was sent but for the errors that are not corrected yet, its        *)
(* difference bits tell which errors the sections before it have changed,  *)
(* and a flag or a difference bit is always explained by an error that is  *)
(* still in the span of all the sections.                                  *)
(***************************************************************************)
\* The line errors that matter for the first section.
Window == {e \in errors : e[2] \in SpanAges}

TypeOK ==
  /\ coderRegistries \in SUBSET (DataBranches \X Ages)
  /\ decoderRegistries \in Banks(DataBranches)
  /\ syndromeRegistries \in Banks(CheckBranches)
  /\ diffRegistries \in Banks(DataBranches)
  /\ phase \in {"encode", "transmit", "decode"}
  /\ sent \in SUBSET (DataBranches \X SentAges)
  /\ errors \in SUBSET (Lines \X LineAges)

\* The coder's registers hold the newest of the bits sent.
SentKept == coderRegistries = {x \in sent : x[2] \in Ages}

\* A bit as it arrived, at an age in section s.
Received(s, b, age) ==
  (<<b, LineAge(s, SentAge(phase, age))>> \in sent)
    # (<<b, LineAge(s, ErrorAge(phase, age))>> \in errors)

MarksChanges ==
  \A s \in Sections, b \in DataBranches, age \in Ages :
     SentAge(phase, age) \in Ages =>
       (<<b, age>> \in diffRegistries[s]
          <=> (Received(s, b, age) # (<<b, age>> \in decoderRegistries[s])))

\* The first section changes nothing that arrives, and decodes like a threshold decoder.
FirstTracks ==
  /\ diffRegistries[1] = {}
  /\ LineTracked(phase, coderRegistries, decoderRegistries[1], syndromeRegistries[1],
                 block, Window)

\* A flag or a difference bit at an age in a section is explained by an error.
Explained(s, age) == \E e \in errors : e[2] =< LineAge(s, age) + polynomPower

TracesExplained ==
  \A s \in Sections : \A x \in syndromeRegistries[s] \cup diffRegistries[s] :
     InUse(phase, x[2]) => Explained(s, ErrorAge(phase, x[2]))

IInv ==
  /\ TypeOK
  /\ SentKept
  /\ MarksChanges
  /\ FirstTracks
  /\ TracesExplained
  /\ CleanSpanDecodes

-----------------------------------------------------------------------------
\* Line ages.
LEMMA SectionAges ==
  /\ 1 \in Sections /\ countDecoderSections \in Sections
  /\ Sections \subseteq Nat
  /\ Latency \in Nat
  /\ Ages \subseteq SentAges /\ SentAges \subseteq LineAges /\ SpanAges \subseteq LineAges
  /\ Ages \subseteq SpanAges
  /\ 0 \in Ages /\ polynomPower \in Ages /\ polynomPower \in Nat /\ Ages \subseteq Nat
  /\ \A s \in Sections : s # 1 => s - 1 \in Sections
<1>1. polynomPower \in Nat /\ countDecoderSections \in Nat \ {0}
  BY CoderAssumption, SectionsAssumption DEF RegistersFit
<1>2. PICK more \in Nat : countDecoderSections = more + 1
  <2>1. countDecoderSections - 1 \in Nat
        /\ countDecoderSections = (countDecoderSections - 1) + 1
    BY <1>1
  <2> QED
    BY <2>1
<1>3. Latency = polynomPower * more + polynomPower /\ polynomPower * more \in Nat
  BY <1>1, <1>2 DEF Latency
<1>4. Latency \in Nat /\ Latency >= polynomPower
  BY <1>1, <1>3
<1> QED
  BY <1>1, <1>4 DEF Sections, Ages, SentAges, LineAges, SpanAges

LEMMA LineAgeFacts ==
  ASSUME NEW s \in Sections, NEW age \in Ages
  PROVE  /\ LineAge(s, age) \in Nat
         /\ LineAge(s, age) \in SentAges
         /\ LineAge(s, age) =< Latency
         /\ LineAge(s, age) = LineAge(s, 0) + age
         /\ LineAge(s, age + 1) = LineAge(s, age) + 1
         /\ LineAge(1, age) = age
         /\ LineAge(s + 1, 0) = LineAge(s, polynomPower)
         /\ LineAge(countDecoderSections, polynomPower) = Latency
<1>1. /\ polynomPower \in Nat /\ age \in Nat /\ age =< polynomPower
      /\ s \in Nat /\ s >= 1 /\ s =< countDecoderSections /\ countDecoderSections \in Nat
  BY CoderAssumption, SectionsAssumption DEF RegistersFit, Ages, Sections
<1>2. PICK before \in Nat, after \in Nat :
        s = before + 1 /\ countDecoderSections = before + 1 + after
  <2>1. s - 1 \in Nat /\ countDecoderSections - s \in Nat
    BY <1>1
  <2>2. s = (s - 1) + 1 /\ countDecoderSections = (s - 1) + 1 + (countDecoderSections - s)
    BY <1>1
  <2> QED
    BY <2>1, <2>2
<1>3. before * polynomPower \in Nat /\ after * polynomPower \in Nat
  BY <1>1, <1>2
<1>4. Latency = before * polynomPower + polynomPower + after * polynomPower
  BY <1>1, <1>2 DEF Latency
<1>5. LineAge(s, age) = before * polynomPower + age
      /\ LineAge(s, 0) = before * polynomPower
      /\ LineAge(s, age + 1) = before * polynomPower + age + 1
      /\ LineAge(s, polynomPower) = before * polynomPower + polynomPower
  BY <1>1, <1>2, <1>3 DEF LineAge
<1>6. LineAge(1, age) = age
  BY <1>1 DEF LineAge
<1>7. LineAge(s + 1, 0) = before * polynomPower + polynomPower
  BY <1>1, <1>2 DEF LineAge
<1>8. LineAge(countDecoderSections, polynomPower) = Latency
  BY <1>1, <1>2, <1>3, <1>4 DEF LineAge
<1> QED
  BY <1>1, <1>3, <1>4, <1>5, <1>6, <1>7, <1>8 DEF SentAges

\* What shifting the registers of a history does to it.
LEMMA AgedCells ==
  ASSUME NEW cells, NEW branches, NEW last \in Nat, NEW ones, NEW cells2,
         cells2 = Aged(cells, branches, 0 .. last, ones)
  PROVE  /\ cells2 \in SUBSET (branches \X (0 .. last))
         /\ \A b \in branches : <<b, 0>> \in cells2 <=> b \in ones
         /\ \A b \in branches, age \in Nat :
              age + 1 =< last => (<<b, age + 1>> \in cells2 <=> <<b, age>> \in cells)
<1>1. \A b \in branches : <<b, 0>> \in cells2 <=> b \in ones
  BY DEF Aged
<1>2. ASSUME NEW b \in branches, NEW age \in Nat, age + 1 =< last
      PROVE  <<b, age + 1>> \in cells2 <=> <<b, age>> \in cells
  <2>1. age + 1 \in 0 .. last /\ age + 1 # 0 /\ (age + 1) - 1 = age
    BY <1>2
  <2> QED
    BY <2>1 DEF Aged
<1> QED
  BY <1>1, <1>2 DEF Aged

-----------------------------------------------------------------------------
\* Encode.
LEMMA EncodeKeepsIInv ==
  ASSUME IInv, NEW src \in SUBSET DataBranches, Encode(src)
  PROVE  IInv'
<1>1. /\ phase = "encode" /\ phase' = "transmit"
      /\ coderRegistries' = Shift(coderRegistries, DataBranches, src)
      /\ block' = Encoded(coderRegistries', src)
      /\ sent' = Aged(sent, DataBranches, 0 .. Latency, src)
      /\ UNCHANGED <<decoderRegistries, syndromeRegistries, diffRegistries, errors>>
  BY DEF Encode, SentAges
<1>2. /\ sent' \in SUBSET (DataBranches \X SentAges)
      /\ \A b \in DataBranches : <<b, 0>> \in sent' <=> b \in src
      /\ \A b \in DataBranches, age \in Nat :
           age + 1 =< Latency => (<<b, age + 1>> \in sent' <=> <<b, age>> \in sent)
  BY <1>1, AgedCells, SectionAges DEF SentAges
<1>3. /\ TypeOK /\ SentKept /\ MarksChanges /\ FirstTracks /\ TracesExplained
  BY DEF IInv
<1>4. TypeOK'
  BY <1>1, <1>2, <1>3, ShiftCells DEF TypeOK
<1>5. SentKept'
  <2>1. ASSUME NEW b \in DataBranches, NEW age \in Ages
        PROVE  <<b, age>> \in coderRegistries' <=> <<b, age>> \in sent'
    <3>1. CASE age = 0
      BY <1>1, <1>2, <3>1, ShiftCells
    <3>2. CASE age # 0
      <4>1. /\ age - 1 \in Ages /\ age - 1 \in Nat /\ (age - 1) + 1 = age
            /\ age \in Ages \ {0} /\ age \in SentAges
        BY <3>2, SectionAges DEF Ages
      <4>2. age =< Latency
        BY <4>1 DEF SentAges
      <4>3. <<b, age>> \in coderRegistries' <=> <<b, age - 1>> \in coderRegistries
        BY <1>1, <4>1, ShiftCells
      <4>4. <<b, age - 1>> \in coderRegistries <=> <<b, age - 1>> \in sent
        BY <1>3, <4>1 DEF SentKept
      <4>5. <<b, age>> \in sent' <=> <<b, age - 1>> \in sent
        BY <1>2, <4>1, <4>2
      <4> QED
        BY <4>3, <4>4, <4>5
    <3> QED
      BY <3>1, <3>2
  <2>2. /\ coderRegistries' \in SUBSET (DataBranches \X Ages)
        /\ sent' \in SUBSET (DataBranches \X SentAges)
    BY <1>4 DEF TypeOK
  <2> QED
    BY <2>1, <2>2 DEF SentKept
<1>6. MarksChanges'
  <2> SUFFICES ASSUME NEW s \in Sections, NEW b \in DataBranches, NEW age \in Ages,
                      age + 1 \in Ages
               PROVE  (<<b, age>> \in diffRegistries[s]
                         <=> (Received(s, b, age) # (<<b, age>> \in decoderRegistries[s])))'
    BY <1>1 DEF MarksChanges, SentAge
  <2>1. /\ LineAge(s, age + 1) = LineAge(s, age) + 1
        /\ LineAge(s, age) \in Nat /\ LineAge(s, age + 1) =< Latency
    BY LineAgeFacts
  <2>2. <<b, LineAge(s, age + 1)>> \in sent' <=> <<b, LineAge(s, age)>> \in sent
    BY <1>2, <2>1
  <2>3. <<b, age>> \in diffRegistries[s]
          <=> (((<<b, LineAge(s, age)>> \in sent) # (<<b, LineAge(s, age)>> \in errors))
                 # (<<b, age>> \in decoderRegistries[s]))
    BY <1>1, <1>3 DEF MarksChanges, Received, SentAge, ErrorAge
  <2> QED
    BY <1>1, <2>2, <2>3 DEF Received, SentAge, ErrorAge
<1>7. FirstTracks'
  <2>1. UNCHANGED Window
    BY <1>1 DEF Window
  <2> QED
    BY <1>1, <1>3, <2>1, EncodeKeepsTrack DEF FirstTracks
<1>8. TracesExplained'
  BY <1>1, <1>3 DEF TracesExplained, Explained, InUse, ErrorAge
<1>9. CleanSpanDecodes'
  BY <1>1 DEF CleanSpanDecodes
<1> QED
  BY <1>4, <1>5, <1>6, <1>7, <1>8, <1>9 DEF IInv

\* The errors in the window grow old like those of a single section.
LEMMA WindowAges ==
  ASSUME errors \in SUBSET (Lines \X LineAges), NEW noise \in SUBSET Lines,
         errors' = Aged(errors, Lines, LineAges, noise)
  PROVE  Window' = Aged(Window, Lines, SpanAges, noise)
<1>1. SpanAges \subseteq LineAges /\ SpanAges \subseteq Nat
  BY SectionAges DEF SpanAges
<1>2. \A age \in SpanAges : age # 0 => age - 1 \in SpanAges
  BY SectionAges DEF SpanAges
<1>3. ASSUME NEW e
      PROVE  e \in Window' <=> e \in Aged(Window, Lines, SpanAges, noise)
  <2>1. e \in Window' <=> /\ e \in Lines \X SpanAges
                          /\ IF e[2] = 0 THEN e[1] \in noise
                             ELSE <<e[1], e[2] - 1>> \in errors
    BY <1>1 DEF Window, Aged
  <2>2. e \in Aged(Window, Lines, SpanAges, noise)
          <=> /\ e \in Lines \X SpanAges
              /\ IF e[2] = 0 THEN e[1] \in noise
                 ELSE <<e[1], e[2] - 1>> \in errors /\ e[2] - 1 \in SpanAges
    BY DEF Window, Aged
  <2> QED
    BY <1>2, <2>1, <2>2
<1> QED
  BY <1>3

\* HandleData.
LEMMA NoiseKeepsIInv ==
  ASSUME IInv, NEW noise \in SUBSET Lines, HandleData(noise)
  PROVE  IInv'
<1>1. /\ phase = "transmit" /\ phase' = "decode"
      /\ block' = SymDiff(block, noise)
      /\ errors' = Aged(errors, Lines, LineAges, noise)
      /\ UNCHANGED <<coderRegistries, decoderRegistries, syndromeRegistries,
                     diffRegistries, sent>>
  BY DEF HandleData
<1>2. /\ errors' \in SUBSET (Lines \X LineAges)
      /\ \A l \in Lines, age \in Nat :
           age + 1 =< Latency + polynomPower =>
             (<<l, age + 1>> \in errors' <=> <<l, age>> \in errors)
  <2>1. Latency + polynomPower \in Nat
    BY SectionAges
  <2> QED
    BY <1>1, <2>1, AgedCells DEF LineAges
<1>3. /\ TypeOK /\ SentKept /\ MarksChanges /\ FirstTracks /\ TracesExplained
  BY DEF IInv
<1>4. TypeOK' /\ SentKept'
  BY <1>1, <1>2, <1>3 DEF TypeOK, SentKept
<1>5. MarksChanges'
  <2> SUFFICES ASSUME NEW s \in Sections, NEW b \in DataBranches, NEW age \in Ages,
                      age + 1 \in Ages
               PROVE  (<<b, age>> \in diffRegistries[s]
                         <=> (Received(s, b, age) # (<<b, age>> \in decoderRegistries[s])))'
    BY <1>1 DEF MarksChanges, SentAge
  <2>1. /\ LineAge(s, age + 1) = LineAge(s, age) + 1
        /\ LineAge(s, age) \in Nat /\ LineAge(s, age + 1) =< Latency + polynomPower
        /\ b \in Lines
    BY LineAgeFacts, SectionAges, LinesApart
  <2>2. <<b, LineAge(s, age + 1)>> \in errors' <=> <<b, LineAge(s, age)>> \in errors
    BY <1>2, <2>1
  <2>3. <<b, age>> \in diffRegistries[s]
          <=> (((<<b, LineAge(s, age + 1)>> \in sent) # (<<b, LineAge(s, age)>> \in errors))
                 # (<<b, age>> \in decoderRegistries[s]))
    BY <1>1, <1>3 DEF MarksChanges, Received, SentAge, ErrorAge
  <2> QED
    BY <1>1, <2>2, <2>3 DEF Received, SentAge, ErrorAge
<1>6. FirstTracks'
  <2>1. Window' = Aged(Window, Lines, SpanAges, noise)
    BY <1>1, <1>3, WindowAges DEF TypeOK
  <2> QED
    BY <1>1, <1>3, <2>1, NoiseKeepsTrack DEF FirstTracks
<1>7. TracesExplained'
  <2> SUFFICES ASSUME NEW s \in Sections,
                      NEW x \in syndromeRegistries[s] \cup diffRegistries[s],
                      x[2] + 1 \in Ages
               PROVE  Explained(s, x[2] + 1)'
    BY <1>1 DEF TracesExplained, InUse, ErrorAge
  <2>1. x[2] \in Ages
    BY <1>3 DEF TypeOK, Banks
  <2>2. PICK e \in errors : e[2] =< LineAge(s, x[2]) + polynomPower
    BY <1>1, <1>3, <2>1 DEF TracesExplained, Explained, InUse, ErrorAge
  <2>3. e = <<e[1], e[2]>> /\ e[1] \in Lines /\ e[2] \in Nat
    BY <1>3, SectionAges DEF TypeOK, LineAges
  <2>4. /\ LineAge(s, x[2] + 1) = LineAge(s, x[2]) + 1
        /\ LineAge(s, x[2]) \in Nat /\ LineAge(s, x[2] + 1) =< Latency
    BY <2>1, LineAgeFacts
  <2>5. e[2] + 1 =< LineAge(s, x[2] + 1) + polynomPower
        /\ e[2] + 1 =< Latency + polynomPower
    BY <2>2, <2>3, <2>4, SectionAges
  <2>6. <<e[1], e[2] + 1>> \in errors'
    BY <1>2, <2>3, <2>5
  <2> QED
    BY <2>5, <2>6 DEF Explained
<1>8. CleanSpanDecodes'
  BY <1>1 DEF CleanSpanDecodes
<1> QED
  BY <1>4, <1>5, <1>6, <1>7, <1>8 DEF IInv

-----------------------------------------------------------------------------
(***************************************************************************)
(* A call of DecodeCore.                                                   *)
(***************************************************************************)
\* A set bit in a register, once shifted, is at an age of its own.
LEMMA ShiftedCell ==
  ASSUME NEW bank, NEW branches, NEW ones, NEW x \in Shift(bank, branches, ones)
  PROVE  /\ x = <<x[1], x[2]>> /\ x[1] \in branches /\ x[2] \in Ages
         /\ x[2] = 0 => x[1] \in ones
         /\ x[2] # 0 => <<x[1], x[2] - 1>> \in bank
BY DEF Shift, Aged

\* The ages of a block before and after the shift of DecodeCore.
LEMMA OlderAges ==
  ASSUME NEW age \in Ages, age # 0
  PROVE  /\ age \in Ages \ {0} /\ age - 1 \in Ages
         /\ SentAge("decode", age - 1) = age
         /\ ErrorAge("decode", age - 1) = age
         /\ InUse("decode", age - 1)
<1>1. age - 1 \in Ages /\ (age - 1) + 1 = age
  BY CoderAssumption DEF RegistersFit, Ages
<1> QED
  BY <1>1 DEF SentAge, ErrorAge, InUse

\* A branch passes the threshold only if one of its flags, or its difference bit, is set.
LEMMA FlipNeedsTrace ==
  ASSUME NEW flips \in SUBSET DataBranches, NEW raised, NEW extra,
         PassThreshold(flips, raised, extra), NEW b \in flips
  PROVE  Flags(b) \cap raised # {} \/ b \in extra
<1> SUFFICES ASSUME Flags(b) \cap raised = {}, b \notin extra PROVE FALSE
  OBVIOUS
<1> DEFINE left == raised \ Dropped({d \in flips : d < b})
<1>1. ExceedsThreshold(CountOfIdentities(left, extra, b))
  BY DEF PassThreshold
<1>2. CountOfIdentities(left, extra, b) = CountOfIdentities(left, {}, b)
  BY DEF CountOfIdentities
<1>3. Flags(b) \cap left = {}
  OBVIOUS
<1> HIDE DEF left
<1> QED
  BY <1>1, <1>2, <1>3, NoFlagsNoPass

\* The first section takes the block like a threshold decoder.
LEMMA FirstSectionRuns ==
  ASSUME IInv, phase = "decode", NEW flips, NEW next, SectionsRun(flips, next)
  PROVE  /\ Arrives(decoderRegistries[1], syndromeRegistries[1], block,
                    decoderRegistries'[1], next[1])
         /\ Arrived(coderRegistries, decoderRegistries'[1], block, Window)
         /\ FlagsShow(next[1], Window)
         /\ diffRegistries'[1] = {}
<1>1. 1 \in Sections
  BY SectionAges
<1>2. Arrives(decoderRegistries[1], syndromeRegistries[1], block,
              decoderRegistries'[1], next[1])
  BY <1>1 DEF SectionsRun, Arrives
<1>3. LineTracked("decode", coderRegistries, decoderRegistries[1], syndromeRegistries[1],
                  block, Window)
  BY DEF IInv, FirstTracks
<1>4. diffRegistries'[1] = Shift({}, DataBranches, {})
  BY <1>1 DEF SectionsRun, IInv, FirstTracks
<1>5. diffRegistries'[1] = {}
  <2>1. ASSUME NEW x \in Shift({}, DataBranches, {})
        PROVE  FALSE
    BY DEF Shift, Aged
  <2> QED
    BY <1>4, <2>1
<1> QED
  BY <1>2, <1>3, <1>5, BlockArrives, NextFlagsExplained DEF Arrives

\* The bits of a section, as the threshold loop finds them, with their marks.
MarkedIn(s, bank, diff) ==
  \A b \in DataBranches, age \in Ages :
     <<b, age>> \in diff
       <=> ( ((<<b, LineAge(s, age)>> \in sent) # (<<b, LineAge(s, age)>> \in errors))
               # (<<b, age>> \in bank) )

LEMMA RunMarksChanges ==
  ASSUME IInv, phase = "decode", NEW flips, NEW next, SectionsRun(flips, next)
  PROVE  \A s \in Sections : MarkedIn(s, decoderRegistries'[s], diffRegistries'[s])
<1> DEFINE T == {s \in Sections : MarkedIn(s, decoderRegistries'[s], diffRegistries'[s])}
<1>1. 1 \in T
  <2>1. 1 \in Sections /\ diffRegistries'[1] = {}
        /\ Arrived(coderRegistries, decoderRegistries'[1], block, Window)
    BY SectionAges, FirstSectionRuns
  <2>2. ASSUME NEW b \in DataBranches, NEW age \in Ages
        PROVE  <<b, age>> \in decoderRegistries'[1]
                 <=> ((<<b, age>> \in sent) # (<<b, age>> \in errors))
    <3>1. <<b, age>> \in coderRegistries <=> <<b, age>> \in sent
      BY DEF IInv, SentKept
    <3>2. <<b, age>> \in Window <=> <<b, age>> \in errors
      BY SectionAges DEF Window
    <3> QED
      BY <2>1, <3>1, <3>2 DEF Arrived
  <2>3. \A age \in Ages : LineAge(1, age) = age
    BY <2>1, LineAgeFacts
  <2> QED
    BY <2>1, <2>2, <2>3 DEF MarkedIn
<1>2. ASSUME NEW s \in Sections, s \in T, s + 1 \in Sections
      PROVE  s + 1 \in T
  <2>1. /\ (s + 1) - 1 = s /\ s + 1 # 1
    BY SectionAges
  <2>2. /\ decoderRegistries'[s + 1] =
             Shift(decoderRegistries[s + 1], DataBranches,
                   SymDiff(Oldest(decoderRegistries'[s], DataBranches), flips[s]))
        /\ diffRegistries'[s + 1] =
             Shift(diffRegistries[s + 1], DataBranches,
                   SymDiff(Oldest(diffRegistries'[s], DataBranches), flips[s]))
    BY <1>2, <2>1 DEF SectionsRun
  <2>3. ASSUME NEW b \in DataBranches
        PROVE  <<b, 0>> \in diffRegistries'[s + 1]
                 <=> ( ((<<b, LineAge(s + 1, 0)>> \in sent)
                          # (<<b, LineAge(s + 1, 0)>> \in errors))
                         # (<<b, 0>> \in decoderRegistries'[s + 1]) )
    <3>1. <<b, 0>> \in decoderRegistries'[s + 1]
            <=> ((<<b, polynomPower>> \in decoderRegistries'[s]) # (b \in flips[s]))
      BY <2>2, ShiftCells DEF SymDiff, Oldest
    <3>2. <<b, 0>> \in diffRegistries'[s + 1]
            <=> ((<<b, polynomPower>> \in diffRegistries'[s]) # (b \in flips[s]))
      BY <2>2, ShiftCells DEF SymDiff, Oldest
    <3>3. polynomPower \in Ages /\ LineAge(s + 1, 0) = LineAge(s, polynomPower)
      BY SectionAges, LineAgeFacts
    <3>4. <<b, polynomPower>> \in diffRegistries'[s]
            <=> ( ((<<b, LineAge(s, polynomPower)>> \in sent)
                     # (<<b, LineAge(s, polynomPower)>> \in errors))
                    # (<<b, polynomPower>> \in decoderRegistries'[s]) )
      BY <1>2, <3>3 DEF MarkedIn
    <3> QED
      BY <3>1, <3>2, <3>3, <3>4
  <2>4. ASSUME NEW b \in DataBranches, NEW age \in Ages, age # 0
        PROVE  <<b, age>> \in diffRegistries'[s + 1]
                 <=> ( ((<<b, LineAge(s + 1, age)>> \in sent)
                          # (<<b, LineAge(s + 1, age)>> \in errors))
                         # (<<b, age>> \in decoderRegistries'[s + 1]) )
    <3>1. /\ age \in Ages \ {0} /\ age - 1 \in Ages
          /\ SentAge("decode", age - 1) = age /\ ErrorAge("decode", age - 1) = age
      BY <2>4, OlderAges
    <3>2. /\ <<b, age>> \in decoderRegistries'[s + 1]
               <=> <<b, age - 1>> \in decoderRegistries[s + 1]
          /\ <<b, age>> \in diffRegistries'[s + 1] <=> <<b, age - 1>> \in diffRegistries[s + 1]
      BY <2>2, <3>1, ShiftCells
    <3>3. <<b, age - 1>> \in diffRegistries[s + 1]
            <=> ( ((<<b, LineAge(s + 1, age)>> \in sent)
                     # (<<b, LineAge(s + 1, age)>> \in errors))
                    # (<<b, age - 1>> \in decoderRegistries[s + 1]) )
      BY <1>2, <3>1 DEF IInv, MarksChanges, Received
    <3> QED
      BY <3>2, <3>3
  <2>5. MarkedIn(s + 1, decoderRegistries'[s + 1], diffRegistries'[s + 1])
    BY <2>3, <2>4 DEF MarkedIn
  <2> QED
    BY <1>2, <2>5
<1>3. Sections \subseteq T
  <2> HIDE DEF T
  <2> QED
    BY <1>1, <1>2, SectionInduction
<1> QED
  BY <1>3

\* An explanation serves for every older trace.
LEMMA ExplainedLater ==
  ASSUME IInv, NEW s \in Sections, NEW young \in Ages, NEW old \in Ages, young =< old,
         Explained(s, young)
  PROVE  Explained(s, old)
<1>1. PICK e \in errors : e[2] =< LineAge(s, young) + polynomPower
  BY DEF Explained
<1>2. e[2] \in Nat
  <2>1. e[2] \in LineAges
    BY DEF IInv, TypeOK
  <2> QED
    BY <2>1, SectionAges DEF LineAges
<1>3. /\ LineAge(s, young) = LineAge(s, 0) + young /\ LineAge(s, old) = LineAge(s, 0) + old
      /\ LineAge(s, 0) \in Nat /\ young \in Nat /\ old \in Nat /\ polynomPower \in Nat
  BY LineAgeFacts, SectionAges
<1>4. e[2] =< LineAge(s, old) + polynomPower
  BY <1>1, <1>2, <1>3
<1> QED
  BY <1>4 DEF Explained

LEMMA RunTracesExplained ==
  ASSUME IInv, phase = "decode", NEW flips, NEW next, SectionsRun(flips, next)
  PROVE  \A s \in Sections : \A x \in next[s] \cup diffRegistries'[s] : Explained(s, x[2])
<1> DEFINE T == {s \in Sections : \A x \in next[s] \cup diffRegistries'[s] : Explained(s, x[2])}
<1>1. 1 \in T
  <2>1. 1 \in Sections /\ diffRegistries'[1] = {} /\ FlagsShow(next[1], Window)
    BY SectionAges, FirstSectionRuns
  <2>2. ASSUME NEW x \in next[1]
        PROVE  Explained(1, x[2])
    <3>1. x[2] \in Ages /\ Support(x[1], x[2]) \cap Window # {}
      BY <2>1 DEF FlagsShow
    <3>2. PICK e \in Support(x[1], x[2]) : e \in errors
      BY <3>1 DEF Window
    <3>3. e[2] = x[2] \/ e[2] - x[2] \in Ages
      BY DEF Support
    <3>4. e[2] \in Nat /\ x[2] \in Nat /\ polynomPower \in Nat
      <4>1. e[2] \in SpanAges
        BY DEF Support
      <4>2. SpanAges \subseteq Nat /\ Ages \subseteq Nat /\ polynomPower \in Nat
        BY SectionAges DEF SpanAges
      <4> QED
        BY <3>1, <4>1, <4>2
    <3>5. e[2] =< x[2] + polynomPower
      BY <3>3, <3>4 DEF Ages
    <3>6. LineAge(1, x[2]) = x[2]
      BY <2>1, <3>1, LineAgeFacts
    <3> QED
      BY <3>2, <3>5, <3>6 DEF Explained
  <2> QED
    BY <2>1, <2>2
<1>2. ASSUME NEW s \in Sections, s \in T, s + 1 \in Sections
      PROVE  s + 1 \in T
  <2>1. /\ (s + 1) - 1 = s /\ s + 1 # 1
    BY SectionAges
  <2>2. /\ diffRegistries'[s + 1] =
             Shift(diffRegistries[s + 1], DataBranches,
                   SymDiff(Oldest(diffRegistries'[s], DataBranches), flips[s]))
        /\ next[s + 1] =
             Shift(syndromeRegistries[s + 1], CheckBranches,
                   Oldest(next[s] \ Dropped(flips[s]), CheckBranches))
    BY <1>2, <2>1 DEF SectionsRun
  <2>3. Explained(s, polynomPower) => Explained(s + 1, 0)
    BY SectionAges, LineAgeFacts DEF Explained
  <2>4. \A x \in syndromeRegistries[s + 1] \cup diffRegistries[s + 1] :
          InUse("decode", x[2]) => Explained(s + 1, ErrorAge("decode", x[2]))
    BY <1>2 DEF IInv, TracesExplained
  <2>5. ASSUME NEW x \in next[s + 1]
        PROVE  Explained(s + 1, x[2])
    <3>1. /\ x[2] \in Ages
          /\ x[2] = 0 => <<x[1], polynomPower>> \in next[s]
          /\ x[2] # 0 => <<x[1], x[2] - 1>> \in syndromeRegistries[s + 1]
      BY <2>2, ShiftedCell DEF Oldest
    <3>2. CASE x[2] = 0
      <4>1. Explained(s, polynomPower)
        BY <1>2, <3>1, <3>2
      <4> QED
        BY <2>3, <3>2, <4>1
    <3>3. CASE x[2] # 0
      BY <2>4, <3>1, <3>3, OlderAges
    <3> QED
      BY <3>2, <3>3
  <2>6. ASSUME NEW b \in flips[s]
        PROVE  Explained(s, polynomPower)
    <3>1. /\ flips[s] \in SUBSET DataBranches
          /\ PassThreshold(flips[s], next[s], Oldest(diffRegistries'[s], DataBranches))
      BY DEF SectionsRun
    <3>2. CASE b \in Oldest(diffRegistries'[s], DataBranches)
      <4>1. <<b, polynomPower>> \in diffRegistries'[s]
        BY <3>2 DEF Oldest
      <4> QED
        BY <1>2, <4>1
    <3>3. CASE Flags(b) \cap next[s] # {}
      <4>1. PICK x \in Flags(b) : x \in next[s]
        BY <3>3
      <4>2. x[2] \in Ages /\ Explained(s, x[2])
        BY <1>2, <4>1 DEF Flags
      <4>3. polynomPower \in Ages /\ x[2] =< polynomPower
        BY <4>2, SectionAges DEF Ages
      <4> QED
        BY <4>2, <4>3, ExplainedLater
    <3> QED
      BY <3>1, <3>2, <3>3, FlipNeedsTrace
  <2>7. ASSUME NEW x \in diffRegistries'[s + 1]
        PROVE  Explained(s + 1, x[2])
    <3>1. /\ x[2] \in Ages
          /\ x[2] = 0 => <<x[1], polynomPower>> \in diffRegistries'[s] \/ x[1] \in flips[s]
          /\ x[2] # 0 => <<x[1], x[2] - 1>> \in diffRegistries[s + 1]
      <4> DEFINE ones == SymDiff(Oldest(diffRegistries'[s], DataBranches), flips[s])
      <4>1. x \in Shift(diffRegistries[s + 1], DataBranches, ones)
        BY <2>2
      <4>2. x[1] \in ones =>
              <<x[1], polynomPower>> \in diffRegistries'[s] \/ x[1] \in flips[s]
        BY DEF Oldest, SymDiff
      <4> HIDE DEF ones
      <4> QED BY <4>1, <4>2, ShiftedCell
    <3>2. CASE x[2] = 0
      <4>1. <<x[1], polynomPower>> \in diffRegistries'[s] => Explained(s, polynomPower)
        BY <1>2
      <4>2. Explained(s, polynomPower)
        BY <2>6, <3>1, <3>2, <4>1
      <4> QED
        BY <2>3, <3>2, <4>2
    <3>3. CASE x[2] # 0
      BY <2>4, <3>1, <3>3, OlderAges
    <3> QED
      BY <3>2, <3>3
  <2> QED
    BY <1>2, <2>5, <2>7
<1>3. Sections \subseteq T
  <2> HIDE DEF T
  <2> QED
    BY <1>1, <1>2, SectionInduction
<1> QED
  BY <1>3

LEMMA DecodeKeepsIInv ==
  ASSUME IInv, DecodeCore
  PROVE  IInv'
<1>1. /\ phase = "decode" /\ phase' = "encode"
      /\ UNCHANGED <<coderRegistries, block, sent, errors>>
  BY DecodeOutcome
<1>2. PICK flips, next : SectionsRun(flips, next)
  BY DecodeOutcome
<1>3. /\ TypeOK /\ SentKept /\ FirstTracks
  BY DEF IInv
<1>4. TypeOK'
  <2>1. syndromeRegistries' \in Banks(CheckBranches)
    BY <1>2 DEF SectionsRun, Banks
  <2> QED
    BY <1>1, <1>2, <1>3, <2>1 DEF TypeOK, SectionsRun
<1>5. SentKept'
  BY <1>1, <1>3 DEF SentKept
<1>6. MarksChanges'
  <2>1. \A s \in Sections : MarkedIn(s, decoderRegistries'[s], diffRegistries'[s])
    BY <1>1, <1>2, RunMarksChanges
  <2> QED
    BY <1>1, <2>1 DEF MarkedIn, MarksChanges, Received, SentAge, ErrorAge
<1>7. FirstTracks'
  <2>1. /\ Arrives(decoderRegistries[1], syndromeRegistries[1], block,
                   decoderRegistries'[1], next[1])
        /\ diffRegistries'[1] = {}
    BY <1>1, <1>2, FirstSectionRuns
  <2>2. syndromeRegistries'[1] \in SUBSET next[1]
    BY <1>2, SectionAges DEF SectionsRun
  <2>3. LineTracked("encode", coderRegistries, decoderRegistries'[1],
                    syndromeRegistries'[1], block, Window)
    BY <1>1, <1>3, <2>1, <2>2, DecodeKeepsTrack DEF FirstTracks
  <2>4. UNCHANGED Window
    BY <1>1 DEF Window
  <2> QED
    BY <1>1, <2>1, <2>3, <2>4 DEF FirstTracks
<1>8. \A s \in Sections : \A x \in next[s] \cup diffRegistries'[s] : Explained(s, x[2])
  BY <1>1, <1>2, RunTracesExplained
<1>9. TracesExplained'
  <2>1. \A s \in Sections : syndromeRegistries'[s] \subseteq next[s]
    BY <1>2 DEF SectionsRun
  <2> QED
    BY <1>1, <1>8, <2>1 DEF TracesExplained, Explained, ErrorAge
<1>10. CleanSpanDecodes'
  <2> SUFFICES ASSUME errors = {}
               PROVE  decoded' = {b \in DataBranches : <<b, Latency>> \in sent}
    BY <1>1 DEF CleanSpanDecodes
  <2> DEFINE last == countDecoderSections
  <2>1. last \in Sections /\ polynomPower \in Ages
        /\ LineAge(last, polynomPower) = Latency
    BY SectionAges, LineAgeFacts
  <2>2. next[last] = {} /\ diffRegistries'[last] = {}
    BY <1>8, <2>1 DEF Explained
  <2>3. flips[last] = {}
    <3>1. /\ flips[last] \in SUBSET DataBranches
          /\ PassThreshold(flips[last], next[last], Oldest(diffRegistries'[last], DataBranches))
      BY <1>2, <2>1 DEF SectionsRun
    <3>2. Oldest(diffRegistries'[last], DataBranches) = {}
      BY <2>2 DEF Oldest
    <3> HIDE DEF last
    <3>3. ASSUME NEW b \in flips[last]
          PROVE  FALSE
      <4>1. \/ Flags(b) \cap next[last] # {}
            \/ b \in Oldest(diffRegistries'[last], DataBranches)
        BY <3>1, FlipNeedsTrace
      <4> QED
        BY <2>2, <3>2, <4>1
    <3> QED
      BY <3>3
  <2>4. MarkedIn(last, decoderRegistries'[last], diffRegistries'[last])
    BY <1>1, <1>2, <2>1, RunMarksChanges
  <2>5. \A b \in DataBranches :
          <<b, polynomPower>> \in decoderRegistries'[last] <=> <<b, Latency>> \in sent
    BY <2>1, <2>2, <2>4 DEF MarkedIn
  <2>6. decoded' = SymDiff(Oldest(decoderRegistries'[last], DataBranches), flips[last])
    BY <1>2 DEF SectionsRun
  <2>7. decoded' = Oldest(decoderRegistries'[last], DataBranches)
    BY <2>3, <2>6 DEF SymDiff
  <2> QED
    BY <2>5, <2>7 DEF Oldest
<1> QED
  BY <1>4, <1>5, <1>6, <1>7, <1>9, <1>10 DEF IInv

-----------------------------------------------------------------------------
LEMMA IInvInit == Init => IInv
<1> SUFFICES ASSUME Init PROVE IInv
  OBVIOUS
<1>1. /\ coderRegistries = {} /\ sent = {} /\ errors = {} /\ decoded = {} /\ phase = "encode"
      /\ \A s \in Sections : /\ decoderRegistries[s] = {}
                             /\ syndromeRegistries[s] = {}
                             /\ diffRegistries[s] = {}
  BY DEF Init
<1>2. TypeOK
  BY DEF Init, TypeOK, Banks
<1>3. SentKept /\ MarksChanges /\ TracesExplained /\ CleanSpanDecodes
  BY <1>1 DEF SentKept, MarksChanges, Received, TracesExplained, CleanSpanDecodes
<1>4. FirstTracks
  BY <1>1, FreshRegistersTrack, SectionAges DEF FirstTracks, Window
<1> QED
  BY <1>2, <1>3, <1>4 DEF IInv

LEMMA IInvStep == IInv /\ [Next]_vars => IInv'
<1> SUFFICES ASSUME IInv, [Next]_vars PROVE IInv'
  OBVIOUS
<1>1. ASSUME NEW src \in SUBSET DataBranches, Encode(src)
      PROVE  IInv'
  BY <1>1, EncodeKeepsIInv
<1>2. ASSUME NEW noise \in SUBSET Lines, HandleData(noise)
      PROVE  IInv'
  BY <1>2, NoiseKeepsIInv
<1>3. CASE DecodeCore
  BY <1>3, DecodeKeepsIInv
<1>4. CASE UNCHANGED vars
  BY <1>4 DEF vars, IInv, TypeOK, SentKept, MarksChanges, Received, FirstTracks, Window,
              TracesExplained, Explained, CleanSpanDecodes
<1> QED
  BY <1>1, <1>2, <1>3, <1>4 DEF Next

THEOREM Invariant == Spec => []IInv
<1> QED
  BY IInvInit, IInvStep, PTL DEF Spec

\* Whatever the code, the number of sections and the noise: a difference register of the
\* decoder (diffRegistries) tells the bits that the sections before it have changed.
THEOREM MarksTheChanges == Spec => []DiffMarksChanges
<1>1. IInv => DiffMarksChanges
  BY DEF IInv, MarksChanges, Received, DiffMarksChanges, SentAge, ErrorAge
<1> QED
  BY <1>1, Invariant, PTL

\* Whatever has been on the line: once no error is left in the span of the sections,
\* Decode returns the bits that Encode was given Latency blocks before.
THEOREM ForgetsErrors == Spec => []CleanSpanDecodes
<1>1. IInv => CleanSpanDecodes
  BY DEF IInv
<1> QED
  BY <1>1, Invariant, PTL

-----------------------------------------------------------------------------
(***************************************************************************)
(* The first section as a threshold decoder: the instance First has        *)
(* operators of its own, with the same definitions as those of             *)
(* CoderRegistries.                                                        *)
(***************************************************************************)
LEMMA FirstSets ==
  /\ First!DataBranches = DataBranches
  /\ First!CheckBranches = CheckBranches
  /\ First!Lines = Lines
  /\ First!Ages = Ages
  /\ First!SpanAges = SpanAges
BY DEF First!DataBranches, DataBranches, First!CheckBranches, CheckBranches,
       First!Lines, Lines, First!Ages, Ages, First!SpanAges, SpanAges

\* The instance has the standard operators on finite sets as well.
LEMMA FirstCounts ==
  ASSUME NEW S
  PROVE  First!Cardinality(S) = Cardinality(S) /\ First!Min(S) = Min(S)
<1>1. First!Cardinality(S) = Cardinality(S)
  BY DEF First!Cardinality, Cardinality
<1>2. First!Min(S) = Min(S)
  BY DEF First!Min, Min
<1> QED
  BY <1>1, <1>2

LEMMA FirstShifts ==
  ASSUME NEW bank, NEW branches, NEW ages, NEW ones
  PROVE  /\ First!Aged(bank, branches, ages, ones) = Aged(bank, branches, ages, ones)
         /\ First!Shift(bank, branches, ones) = Shift(bank, branches, ones)
BY FirstSets DEF First!Aged, Aged, First!Shift, Shift

LEMMA FirstCheckBits ==
  ASSUME NEW bank, NEW c
  PROVE  /\ First!Taps(c) = Taps(c)
         /\ First!CheckBit(bank, c) <=> CheckBit(bank, c)
         /\ First!CheckLine(c) = CheckLine(c)
<1>1. First!Taps(c) = Taps(c)
  BY FirstSets DEF First!Taps, Taps, First!FilterItemsByOutputBranchIndex,
                   FilterItemsByOutputBranchIndex
<1>2. First!CheckBit(bank, c) <=> CheckBit(bank, c)
  BY <1>1, FirstCounts DEF First!CheckBit, CheckBit, First!Parity, Parity
<1> QED
  BY <1>1, <1>2 DEF First!CheckLine, CheckLine

LEMMA FirstBlocks ==
  ASSUME NEW bank, NEW ones
  PROVE  /\ First!Encoded(bank, ones) = Encoded(bank, ones)
         /\ First!Mismatches(bank, ones) = Mismatches(bank, ones)
<1>1. First!Encoded(bank, ones) = Encoded(bank, ones)
  BY FirstSets, FirstCheckBits DEF First!Encoded, Encoded
<1>2. First!Mismatches(bank, ones) = Mismatches(bank, ones)
  <2>1. ASSUME NEW c \in CheckBranches
        PROVE  c \in First!Mismatches(bank, ones) <=> c \in Mismatches(bank, ones)
    BY FirstSets, FirstCheckBits
    DEF First!Mismatches, Mismatches, First!CheckBit, CheckBit, First!Parity, Parity
  <2>2. /\ First!Mismatches(bank, ones) \subseteq CheckBranches
        /\ Mismatches(bank, ones) \subseteq CheckBranches
    BY FirstSets DEF First!Mismatches, Mismatches
  <2> QED
    BY <2>1, <2>2
<1> QED
  BY <1>1, <1>2

LEMMA FirstThreshold ==
  ASSUME NEW flips, NEW syndrome, NEW extra
  PROVE  /\ First!Dropped(flips) = Dropped(flips)
         /\ First!PassThreshold(flips, syndrome, extra)
              <=> PassThreshold(flips, syndrome, extra)
<1>1. \A b : First!Flags(b) = Flags(b)
  BY FirstSets, FirstCheckBits DEF First!Flags, Flags
<1>2. \A set : First!Dropped(set) = Dropped(set)
  BY <1>1 DEF First!Dropped, Dropped
<1>3. \A raised, b :
        First!CountOfIdentities(raised, extra, b) = CountOfIdentities(raised, extra, b)
  BY <1>1, FirstCounts DEF First!CountOfIdentities, CountOfIdentities
<1>4. First!GetDmin = GetDmin
  BY FirstCounts DEF First!GetDmin, GetDmin, First!Terms, Terms,
         First!GetItemsForDataBranchIndex, GetItemsForDataBranchIndex
<1>5. \A count : First!ExceedsThreshold(count) <=> ExceedsThreshold(count)
  BY <1>4 DEF First!ExceedsThreshold, ExceedsThreshold
<1> QED
  BY <1>2, <1>3, <1>5, FirstSets DEF First!PassThreshold, PassThreshold

\* What the first section hands on.
HandedOn == {b \in DataBranches : <<b, 0>> \in decoderRegistries[2]}

LEMMA EncodeIsFirsts ==
  ASSUME IInv, NEW src \in SUBSET DataBranches, Encode(src)
  PROVE  First!Encode(src)
BY FirstSets, FirstShifts, FirstBlocks DEF Encode, First!Encode

LEMMA NoiseIsFirsts ==
  ASSUME IInv, NEW noise \in SUBSET Lines, HandleData(noise)
  PROVE  First!HandleData(noise)
<1>1. /\ phase = "transmit" /\ phase' = "decode"
      /\ block' = SymDiff(block, noise)
      /\ errors' = Aged(errors, Lines, LineAges, noise)
      /\ Cardinality({e \in errors' : e[2] \in SpanAges}) =< MaxErrors
      /\ UNCHANGED <<coderRegistries, decoderRegistries, syndromeRegistries>>
  BY DEF HandleData
<1>2. Window' = Aged(Window, Lines, SpanAges, noise)
  BY <1>1, WindowAges DEF IInv, TypeOK
<1>3. {e \in errors' : e[2] \in SpanAges}
        = First!Aged({e \in errors : e[2] \in SpanAges}, First!Lines, First!SpanAges, noise)
  BY <1>2, FirstSets, FirstShifts DEF Window
<1>4. First!Cardinality({e \in errors' : e[2] \in SpanAges}) =< MaxErrors
  BY <1>1, FirstCounts
<1> QED
  BY <1>1, <1>3, <1>4 DEF First!HandleData, First!SymDiff, SymDiff

LEMMA DecodeIsFirsts ==
  ASSUME countDecoderSections >= 2, IInv, DecodeCore
  PROVE  First!DecodeCore
<1>1. /\ phase = "decode" /\ phase' = "encode"
      /\ UNCHANGED <<coderRegistries, block, sent, errors>>
  BY DecodeOutcome
<1>2. PICK flips, next : SectionsRun(flips, next)
  BY DecodeOutcome
<1>3. 1 \in Sections /\ 2 \in Sections
  BY SectionsAssumption DEF Sections
<1>4. /\ decoderRegistries'[1] =
           Shift(decoderRegistries[1], DataBranches, block \cap DataBranches)
      /\ next[1] = Shift(syndromeRegistries[1], CheckBranches,
                         Mismatches(decoderRegistries'[1], block))
      /\ flips[1] \in SUBSET DataBranches
      /\ PassThreshold(flips[1], next[1], Oldest(diffRegistries'[1], DataBranches))
      /\ syndromeRegistries'[1] = next[1] \ Dropped(flips[1])
  BY <1>2, <1>3 DEF SectionsRun
<1> DEFINE onward == SymDiff(Oldest(decoderRegistries'[1], DataBranches), flips[1])
<1>12. decoderRegistries'[2] = Shift(decoderRegistries[2], DataBranches, onward)
  <2>1. 2 - 1 = 1 /\ 2 # 1
    OBVIOUS
  <2>2. decoderRegistries'[2] =
          Shift(decoderRegistries[2], DataBranches,
                SymDiff(Oldest(decoderRegistries'[2 - 1], DataBranches), flips[2 - 1]))
    BY <1>2, <1>3, <2>1 DEF SectionsRun
  <2> QED
    BY <2>1, <2>2
<1>5. PassThreshold(flips[1], next[1], {})
  <2>1. diffRegistries'[1] = {}
    BY <1>1, <1>2, FirstSectionRuns
  <2>2. Oldest(diffRegistries'[1], DataBranches) = {}
    BY <2>1 DEF Oldest
  <2> QED
    BY <1>4, <2>2
<1>6. HandedOn' = onward
  <2>1. onward \subseteq DataBranches
    BY <1>4 DEF SymDiff, Oldest
  <2>2. ASSUME NEW b \in DataBranches
        PROVE  <<b, 0>> \in decoderRegistries'[2] <=> b \in onward
    <3>1. <<b, 0>> \in Shift(decoderRegistries[2], DataBranches, onward) <=> b \in onward
      <4> HIDE DEF onward
      <4> QED
        BY ShiftCells
    <3> QED
      BY <1>12, <3>1
  <2> QED
    BY <2>1, <2>2 DEF HandedOn
<1>7. decoderRegistries'[1] =
        First!Shift(decoderRegistries[1], First!DataBranches, block \cap First!DataBranches)
  BY <1>4, FirstSets, FirstShifts
<1>8. next[1] = First!Shift(syndromeRegistries[1], First!CheckBranches,
                            First!Mismatches(decoderRegistries'[1], block))
  BY <1>4, FirstSets, FirstShifts, FirstBlocks
<1>9. First!PassThreshold(flips[1], next[1], {}) /\ flips[1] \in SUBSET First!DataBranches
  BY <1>4, <1>5, FirstSets, FirstThreshold
<1>10. {b \in DataBranches : <<b, 0>> \in decoderRegistries[2]}'
         = First!SymDiff(First!OldestReceived(decoderRegistries'[1]), flips[1])
  BY <1>6, FirstSets DEF HandedOn, First!OldestReceived, Oldest, First!SymDiff, SymDiff
<1>11. syndromeRegistries'[1] = next[1] \ First!Dropped(flips[1])
  BY <1>4, FirstThreshold
<1> QED
  BY <1>1, <1>7, <1>8, <1>9, <1>10, <1>11 DEF First!DecodeCore

(***************************************************************************)
(* With more than one section, the first one is a plain ConvSelfOrthCoder: *)
(* nothing that a later section does reaches back to it, and all that is   *)
(* proved of a threshold decoder holds of what it hands on.                *)
(***************************************************************************)
THEOREM FirstSectionIsPlain ==
  ASSUME countDecoderSections >= 2
  PROVE  Spec => FirstSectionIsThresholdDecoder
<1>1. Init => First!Init
  <2> SUFFICES ASSUME Init PROVE First!Init
    OBVIOUS
  <2>1. 1 \in Sections /\ 2 \in Sections
    BY SectionsAssumption DEF Sections
  <2> QED
    BY <2>1 DEF Init, First!Init
<1>2. IInv /\ [Next]_vars => [First!Next]_(First!vars)
  <2> SUFFICES ASSUME IInv, [Next]_vars PROVE [First!Next]_(First!vars)
    OBVIOUS
  <2>1. ASSUME NEW src \in SUBSET DataBranches, Encode(src)
        PROVE  First!Next
    BY <2>1, EncodeIsFirsts, FirstSets DEF First!Next
  <2>2. ASSUME NEW noise \in SUBSET Lines, HandleData(noise)
        PROVE  First!Next
    BY <2>2, NoiseIsFirsts, FirstSets DEF First!Next
  <2>3. CASE DecodeCore
    BY <2>3, DecodeIsFirsts DEF First!Next
  <2>4. CASE UNCHANGED vars
    BY <2>4 DEF vars, First!vars
  <2> QED
    BY <2>1, <2>2, <2>3, <2>4 DEF Next
<1> QED
  BY <1>1, <1>2, Invariant, PTL DEF Spec, FirstSectionIsThresholdDecoder, First!Spec

-----------------------------------------------------------------------------
(***************************************************************************)
(* A line that never exceeds the code distance.  The first section         *)
(* corrects every bit, and drops every flag but those of the check bits in *)
(* error.  So a later section sees a flag only for an error of its own     *)
(* check line, and a difference bit only for an error of the data bit: too *)
(* few to change anything.                                                 *)
(***************************************************************************)
LineWithinDistance == CorrectingCode /\ WithinDistance(MaxErrors)

\* The line errors from a line age on, as many blocks as a span has.
SpanFrom(first) == {e \in errors : first =< e[2] /\ e[2] =< first + 2 * polynomPower}

\* No span, in the first section or further on, has more errors than the line allows.
SpansBounded == \A first \in LineAges : Cardinality(SpanFrom(first)) =< MaxErrors

\* What a later section holds: the bits that were sent, and flags for the errors of
\* their own check lines.
LaterBitsCorrect ==
  \A s \in Sections \ {1}, b \in DataBranches, age \in Ages :
     SentAge(phase, age) \in Ages =>
       (<<b, age>> \in decoderRegistries[s]
          <=> <<b, LineAge(s, SentAge(phase, age))>> \in sent)

LaterFlagsOwn ==
  \A s \in Sections \ {1} : \A x \in syndromeRegistries[s] :
     InUse(phase, x[2]) =>
       <<CheckLine(x[1]), LineAge(s, ErrorAge(phase, x[2]))>> \in errors

DecodesWhatWasSent ==
  phase = "encode" => decoded = {b \in DataBranches : <<b, Latency>> \in sent}

DistanceInv ==
  /\ SpansBounded
  /\ FlagsInStep(phase, syndromeRegistries[1], Window)
  /\ LaterBitsCorrect
  /\ LaterFlagsOwn
  /\ DecodesWhatWasSent

LEMMA SpansFinite ==
  ASSUME errors \in SUBSET (Lines \X LineAges), NEW first
  PROVE  IsFiniteSet(SpanFrom(first)) /\ Cardinality(SpanFrom(first)) \in Nat
<1>1. IsFiniteSet(LineAges)
  <2>1. 0 \in Int /\ Latency + polynomPower \in Int
    BY SectionAges
  <2> QED
    BY <2>1, FS_Interval DEF LineAges
<1>2. IsFiniteSet(Lines \X LineAges)
  BY <1>1, FiniteBanks, FS_Product
<1>3. SpanFrom(first) \in SUBSET (Lines \X LineAges)
  BY DEF SpanFrom
<1>4. IsFiniteSet(SpanFrom(first))
  BY <1>2, <1>3, FS_Subset
<1> QED
  BY <1>4, FS_CardinalityType

\* The first span is the window of the first section.
LEMMA FirstSpan ==
  ASSUME errors \in SUBSET (Lines \X LineAges)
  PROVE  SpanFrom(0) = Window
<1>1. polynomPower \in Nat /\ LineAges \subseteq Nat
  BY SectionAges DEF LineAges
<1>2. \A e \in errors : e[2] \in Nat
  BY <1>1
<1>3. \A age \in Nat : 0 =< age /\ age =< 0 + 2 * polynomPower <=> age \in SpanAges
  BY <1>1 DEF SpanAges
<1> QED
  BY <1>2, <1>3 DEF SpanFrom, Window

\* Every span was the first one once.
LEMMA NoiseKeepsBound ==
  ASSUME errors \in SUBSET (Lines \X LineAges), SpansBounded,
         NEW noise \in SUBSET Lines, errors' = Aged(errors, Lines, LineAges, noise),
         Cardinality(Window') =< MaxErrors
  PROVE  SpansBounded'
<1>1. errors' \in SUBSET (Lines \X LineAges)
  BY DEF Aged
<1>2. LineAges \subseteq Nat /\ polynomPower \in Nat /\ Latency + polynomPower \in Nat
  BY SectionAges DEF LineAges
<1>3. ASSUME NEW first \in LineAges
      PROVE  Cardinality(SpanFrom(first)') =< MaxErrors
  <2>1. CASE first = 0
    <3>1. SpanFrom(0)' = Window'
      <4>1. \A age \in Nat : 0 =< age /\ age =< 0 + 2 * polynomPower <=> age \in SpanAges
        BY <1>2 DEF SpanAges
      <4>2. \A e \in errors' : e[2] \in Nat
        BY <1>1, <1>2
      <4> QED
        BY <4>1, <4>2 DEF SpanFrom, Window
    <3> QED
      BY <2>1, <3>1
  <2>2. CASE first # 0
    <3>1. first - 1 \in LineAges /\ first \in Nat
      BY <1>2, <2>2 DEF LineAges
    <3> DEFINE older   == SpanFrom(first)'
               younger == SpanFrom(first - 1)
               before  == [e \in older |-> <<e[1], e[2] - 1>>]
    <3>2. ASSUME NEW e \in older
          PROVE  /\ e = <<e[1], e[2]>> /\ e[2] \in Nat /\ before[e] \in younger
      <4>1. /\ e \in errors' /\ first =< e[2] /\ e[2] =< first + 2 * polynomPower
        BY DEF SpanFrom
      <4>2. e = <<e[1], e[2]>> /\ e[2] \in Nat
        <5>1. e \in Lines \X LineAges
          BY <1>1, <4>1
        <5>2. e = <<e[1], e[2]>> /\ e[2] \in LineAges
          BY <5>1
        <5> QED
          BY <1>2, <5>2
      <4>3. e[2] # 0 /\ first - 1 =< e[2] - 1 /\ e[2] - 1 =< (first - 1) + 2 * polynomPower
        BY <1>2, <2>2, <3>1, <4>1, <4>2
      <4>4. <<e[1], e[2] - 1>> \in errors
        BY <4>1, <4>3 DEF Aged
      <4> QED
        BY <4>2, <4>3, <4>4 DEF SpanFrom
    <3>3. ASSUME NEW e \in older, NEW g \in older, before[e] = before[g]
          PROVE  e = g
      <4>1. e[1] = g[1] /\ e[2] - 1 = g[2] - 1
        BY <3>3
      <4>2. /\ e = <<e[1], e[2]>> /\ e[2] \in Nat
            /\ g = <<g[1], g[2]>> /\ g[2] \in Nat
        BY <3>2
      <4>3. e[2] = g[2]
        BY <4>1, <4>2
      <4> QED
        BY <4>1, <4>2, <4>3
    <3>4. before \in Injection(older, younger)
      <4>1. before \in [older -> younger]
        BY <3>2
      <4> HIDE DEF older, younger, before
      <4> QED
        BY <3>3, <4>1 DEF Injection, IsInjective
    <3>5. IsFiniteSet(older) /\ IsFiniteSet(younger)
          /\ Cardinality(older) \in Nat /\ Cardinality(younger) \in Nat
      <4>1. \A age : IsFiniteSet(SpanFrom(age)) /\ Cardinality(SpanFrom(age)) \in Nat
        BY SpansFinite
      <4>2. IsFiniteSet(older)
        <5>1. IsFiniteSet(LineAges)
          <6>1. 0 \in Int /\ Latency + polynomPower \in Int
            BY SectionAges
          <6> QED
            BY <6>1, FS_Interval DEF LineAges
        <5>2. IsFiniteSet(Lines \X LineAges)
          BY <5>1, FiniteBanks, FS_Product
        <5>3. older \in SUBSET (Lines \X LineAges)
          BY <1>1 DEF SpanFrom
        <5> HIDE DEF older
        <5> QED
          BY <5>2, <5>3, FS_Subset
      <4>3. Cardinality(older) \in Nat
        <5> HIDE DEF older
        <5> QED
          BY <4>2, FS_CardinalityType
      <4> QED
        BY <4>1, <4>2, <4>3
    <3>6. Cardinality(older) =< Cardinality(younger)
      <4> HIDE DEF older, younger, before
      <4> QED
        BY <3>4, <3>5, FS_Injection
    <3>7. Cardinality(younger) =< MaxErrors
      BY <3>1 DEF SpansBounded
    <3> HIDE DEF older, younger
    <3>8. Cardinality(older) =< MaxErrors
      BY <3>5, <3>6, <3>7, SectionsAssumption
    <3> QED
      BY <3>8 DEF older
  <2> QED
    BY <2>1, <2>2
<1> QED
  BY <1>3 DEF SpansBounded

\* What a later section has in its registers when the threshold loop looks at them.
LaterClean(s, bank, next) ==
  /\ \A b \in DataBranches, age \in Ages :
       <<b, age>> \in bank <=> <<b, LineAge(s, age)>> \in sent
  /\ \A x \in next : <<CheckLine(x[1]), LineAge(s, x[2])>> \in errors

\* A later section changes nothing.
LEMMA LaterChangesNothing ==
  ASSUME errors \in SUBSET (Lines \X LineAges), SpansBounded, WithinDistance(MaxErrors),
         NEW s \in Sections, NEW bank, NEW diff,
         NEW next \in SUBSET (CheckBranches \X Ages),
         LaterClean(s, bank, next), MarkedIn(s, bank, diff),
         NEW flips \in SUBSET DataBranches,
         PassThreshold(flips, next, Oldest(diff, DataBranches))
  PROVE  flips = {}
<1> SUFFICES ASSUME NEW b \in flips PROVE FALSE
  OBVIOUS
<1> DEFINE extra  == Oldest(diff, DataBranches)
           left   == next \ Dropped({d \in flips : d < b})
           raised == Flags(b) \cap left
           span   == SpanFrom(LineAge(s, 0))
           own    == <<b, LineAge(s, polynomPower)>>
           place  == [x \in raised |-> <<CheckLine(x[1]), LineAge(s, x[2])>>]
<1>1. ExceedsThreshold(CountOfIdentities(left, extra, b))
  BY DEF PassThreshold
<1>2. /\ polynomPower \in Nat /\ polynomPower \in Ages /\ Ages \subseteq Nat
      /\ \A age \in Ages : LineAge(s, age) = LineAge(s, 0) + age /\ LineAge(s, age) \in Nat
      /\ LineAge(s, 0) \in Nat /\ LineAge(s, 0) \in LineAges
  BY SectionAges, LineAgeFacts
<1>3. \A x \in raised : x = <<x[1], x[2]>> /\ x[1] \in CheckBranches /\ x[2] \in Ages
                        /\ x \in next
  OBVIOUS
<1>4. ASSUME NEW x \in raised
      PROVE  place[x] \in span \ {own}
  <2>1. <<CheckLine(x[1]), LineAge(s, x[2])>> \in errors
    BY <1>3 DEF LaterClean
  <2>2. LineAge(s, x[2]) = LineAge(s, 0) + x[2] /\ x[2] \in Nat /\ x[2] =< polynomPower
    BY <1>2, <1>3 DEF Ages
  <2>3. LineAge(s, 0) =< LineAge(s, x[2])
        /\ LineAge(s, x[2]) =< LineAge(s, 0) + 2 * polynomPower
    BY <1>2, <2>2
  <2>4. CheckLine(x[1]) # b
    BY <1>3, LinesApart
  <2> QED
    BY <2>1, <2>3, <2>4 DEF SpanFrom
<1>5. ASSUME NEW x \in raised, NEW y \in raised, place[x] = place[y]
      PROVE  x = y
  <2>1. CheckLine(x[1]) = CheckLine(y[1]) /\ LineAge(s, x[2]) = LineAge(s, y[2])
    BY <1>5
  <2>2. x[1] = y[1]
    BY <1>3, <2>1, LinesApart
  <2>3. x[2] = y[2]
    <3>1. x[2] \in Ages /\ y[2] \in Ages
      BY <1>3
    <3>2. LineAge(s, 0) + x[2] = LineAge(s, 0) + y[2]
      BY <1>2, <2>1, <3>1
    <3>3. x[2] \in Nat /\ y[2] \in Nat /\ LineAge(s, 0) \in Nat
      BY <1>2, <3>1
    <3> QED
      BY <3>2, <3>3
  <2> QED
    BY <1>3, <2>2, <2>3
<1>6. IsFiniteSet(span) /\ Cardinality(span) \in Nat /\ Cardinality(span) =< MaxErrors
  BY <1>2, SpansFinite DEF SpansBounded
<1>7. place \in Injection(raised, span \ {own})
  <2>1. place \in [raised -> span \ {own}]
    BY <1>4
  <2> HIDE DEF place, raised, span, own
  <2> QED
    BY <1>5, <2>1 DEF Injection, IsInjective
<1>8. IsFiniteSet(span \ {own}) /\ Cardinality(span \ {own}) \in Nat
  <2> HIDE DEF span, own
  <2> QED
    BY <1>6, FS_Subset, FS_CardinalityType
<1>9. IsFiniteSet(raised) /\ Cardinality(raised) =< Cardinality(span \ {own})
      /\ Cardinality(raised) \in Nat
  <2> HIDE DEF place, raised, span, own
  <2>1. IsFiniteSet(raised) /\ Cardinality(raised) =< Cardinality(span \ {own})
    BY <1>7, <1>8, FS_Injection
  <2> QED
    BY <2>1, FS_CardinalityType
<1>10. own \in span => Cardinality(span \ {own}) = Cardinality(span) - 1
  <2> HIDE DEF span, own
  <2> QED
    BY <1>6, FS_RemoveElement
<1>11. own \notin span => Cardinality(span \ {own}) = Cardinality(span)
  <2>1. own \notin span => span \ {own} = span
    OBVIOUS
  <2> HIDE DEF span, own
  <2> QED
    BY <2>1
<1>12. b \in extra => own \in span
  <2> SUFFICES ASSUME b \in extra PROVE own \in span
    OBVIOUS
  <2>1. <<b, polynomPower>> \in diff
    BY DEF Oldest
  <2>2. own \in errors
    BY <1>2, <2>1 DEF MarkedIn, LaterClean
  <2>3. LineAge(s, polynomPower) = LineAge(s, 0) + polynomPower
    BY <1>2
  <2>4. LineAge(s, 0) =< LineAge(s, polynomPower)
        /\ LineAge(s, polynomPower) =< LineAge(s, 0) + 2 * polynomPower
    BY <1>2, <2>3
  <2> QED
    BY <2>2, <2>4 DEF SpanFrom
<1>13. CountOfIdentities(left, extra, b)
         = Cardinality(raised) + (IF b \in extra THEN 1 ELSE 0)
  BY DEF CountOfIdentities
<1> HIDE DEF left, raised, span, own, extra
<1>14. CountOfIdentities(left, extra, b) =< MaxErrors
       /\ CountOfIdentities(left, extra, b) \in Nat
  BY <1>6, <1>8, <1>9, <1>10, <1>11, <1>12, <1>13, SectionsAssumption
<1> QED
  BY <1>1, <1>14, SectionsAssumption, DminBounds DEF ExceedsThreshold, WithinDistance

\* The first section corrects the oldest bits in error, and leaves no other flag than
\* one for an error that is not decided yet.
LEMMA FirstSectionCorrects ==
  ASSUME LineWithinDistance, IInv, DistanceInv, phase = "decode",
         NEW flips, NEW next, SectionsRun(flips, next)
  PROVE  /\ flips[1] = {b \in DataBranches : <<b, polynomPower>> \in Window}
         /\ FlagsInStep("encode", next[1] \ Dropped(flips[1]), Window)
<1>1. /\ Arrives(decoderRegistries[1], syndromeRegistries[1], block,
                 decoderRegistries'[1], next[1])
      /\ FlagsShow(next[1], Window)
      /\ diffRegistries'[1] = {}
  BY FirstSectionRuns
<1>2. LineTracked("decode", coderRegistries, decoderRegistries[1], syndromeRegistries[1],
                  block, Window)
  BY DEF IInv, FirstTracks
<1>3. Window \in SUBSET (Lines \X SpanAges)
  BY <1>2 DEF LineTracked
<1>4. FlagsDue(next[1], Window)
  BY <1>1, <1>2, NextFlagsDue DEF DistanceInv
<1>5. WithinDistance(Cardinality(Window))
  <2>1. errors \in SUBSET (Lines \X LineAges) /\ 0 \in LineAges
    BY SectionAges DEF IInv, TypeOK
  <2>2. Cardinality(Window) =< MaxErrors
    BY <2>1, FirstSpan DEF DistanceInv, SpansBounded
  <2>3. Cardinality(Window) \in Nat
    BY <1>3, ErrorsFinite
  <2> QED
    BY <2>2, <2>3, SectionsAssumption, DminBounds DEF LineWithinDistance, WithinDistance
<1>6. 1 \in Sections
  BY SectionAges
<1>7. /\ flips[1] \in SUBSET DataBranches /\ PassThreshold(flips[1], next[1], {})
      /\ next[1] \in SUBSET (CheckBranches \X Ages)
  <2>1. Oldest(diffRegistries'[1], DataBranches) = {}
    BY <1>1 DEF Oldest
  <2>2. /\ flips[1] \in SUBSET DataBranches
        /\ PassThreshold(flips[1], next[1], Oldest(diffRegistries'[1], DataBranches))
        /\ next[1] \in SUBSET (CheckBranches \X Ages)
    BY <1>6 DEF SectionsRun, Banks
  <2> QED
    BY <2>1, <2>2
<1>8. flips[1] = {b \in DataBranches : <<b, polynomPower>> \in Window}
  BY <1>1, <1>3, <1>4, <1>5, <1>7, PassIsError DEF LineWithinDistance
<1> QED
  BY <1>3, <1>4, <1>7, <1>8, DecodeKeepsFlags

\* What leaves a section: the bit that was sent, and the flags of check bits in error.
HandsOn(s, bank, flips, left) ==
  /\ \A b \in DataBranches :
       (<<b, polynomPower>> \in bank) # (b \in flips)
         <=> <<b, LineAge(s, polynomPower)>> \in sent
  /\ \A c \in CheckBranches :
       <<c, polynomPower>> \in left
         => <<CheckLine(c), LineAge(s, polynomPower)>> \in errors

LEMMA FirstSectionHandsOn ==
  ASSUME LineWithinDistance, IInv, DistanceInv, phase = "decode",
         NEW flips, NEW next, SectionsRun(flips, next)
  PROVE  HandsOn(1, decoderRegistries'[1], flips[1], next[1] \ Dropped(flips[1]))
<1>1. /\ polynomPower \in Ages /\ polynomPower \in Nat /\ Ages \subseteq SpanAges
      /\ 1 \in Sections
  BY SectionAges
<1>2. LineAge(1, polynomPower) = polynomPower
  BY <1>1, LineAgeFacts
<1>3. /\ flips[1] = {b \in DataBranches : <<b, polynomPower>> \in Window}
      /\ FlagsInStep("encode", next[1] \ Dropped(flips[1]), Window)
  BY FirstSectionCorrects
<1>4. Arrived(coderRegistries, decoderRegistries'[1], block, Window)
  BY FirstSectionRuns
<1>5. ASSUME NEW b \in DataBranches
      PROVE  (<<b, polynomPower>> \in decoderRegistries'[1]) # (b \in flips[1])
               <=> <<b, polynomPower>> \in sent
  <2>1. <<b, polynomPower>> \in coderRegistries <=> <<b, polynomPower>> \in sent
    BY <1>1 DEF IInv, SentKept
  <2>2. <<b, polynomPower>> \in decoderRegistries'[1]
          <=> ((<<b, polynomPower>> \in coderRegistries) # (<<b, polynomPower>> \in Window))
    BY <1>1, <1>4 DEF Arrived
  <2> QED
    BY <1>3, <2>1, <2>2
<1>6. ASSUME NEW c \in CheckBranches, <<c, polynomPower>> \in next[1] \ Dropped(flips[1])
      PROVE  <<CheckLine(c), polynomPower>> \in errors
  <2>1. ErrorAge("encode", polynomPower) = polynomPower
        /\ InUse("encode", polynomPower)
    BY <1>1 DEF ErrorAge, InUse
  <2>2. FlagsCurrent("encode", next[1] \ Dropped(flips[1]), Window)
    BY <1>3 DEF FlagsInStep
  <2>3. PICK e \in Support(c, polynomPower) \cap Window : ~ Decided("encode", e)
    BY <1>6, <2>1, <2>2 DEF FlagsCurrent
  <2>4. /\ e \in Lines \X SpanAges
        /\ e = <<CheckLine(c), polynomPower>>
             \/ (e[1] \in DataBranches /\ e[2] - polynomPower \in Ages)
    BY <2>3 DEF Support
  <2>5. e[2] \in Nat
    <3>1. SpanAges \subseteq Nat
      BY <1>1 DEF SpanAges
    <3>2. e[2] \in SpanAges
      BY <2>4
    <3> QED
      BY <3>1, <3>2
  <2>6. ~ (e[1] \in DataBranches /\ e[2] >= polynomPower)
    BY <2>1, <2>3 DEF Decided
  <2>7. e[2] - polynomPower \in Ages => e[2] >= polynomPower
    <3>1. e[2] - polynomPower \in Ages => e[2] - polynomPower >= 0
      BY DEF Ages
    <3> QED
      BY <1>1, <2>5, <3>1
  <2>8. e = <<CheckLine(c), polynomPower>>
    BY <2>4, <2>6, <2>7
  <2> QED
    BY <2>3, <2>8 DEF Window
<1> QED
  BY <1>2, <1>5, <1>6 DEF HandsOn

\* What a section hands on, the next one has.
LEMMA NextSectionClean ==
  ASSUME IInv, DistanceInv, phase = "decode",
         NEW flips, NEW next, SectionsRun(flips, next),
         NEW s \in Sections, s + 1 \in Sections,
         HandsOn(s, decoderRegistries'[s], flips[s], next[s] \ Dropped(flips[s]))
  PROVE  LaterClean(s + 1, decoderRegistries'[s + 1], next[s + 1])
<1>1. /\ (s + 1) - 1 = s /\ s + 1 # 1 /\ s + 1 \in Sections \ {1}
  BY SectionAges
<1>2. /\ decoderRegistries'[s + 1] =
           Shift(decoderRegistries[s + 1], DataBranches,
                 SymDiff(Oldest(decoderRegistries'[s], DataBranches), flips[s]))
      /\ next[s + 1] =
           Shift(syndromeRegistries[s + 1], CheckBranches,
                 Oldest(next[s] \ Dropped(flips[s]), CheckBranches))
  BY <1>1 DEF SectionsRun
<1>3. LineAge(s + 1, 0) = LineAge(s, polynomPower)
  BY SectionAges, LineAgeFacts
<1>4. ASSUME NEW b \in DataBranches, NEW age \in Ages
      PROVE  <<b, age>> \in decoderRegistries'[s + 1] <=> <<b, LineAge(s + 1, age)>> \in sent
  <2>1. CASE age = 0
    <3>1. <<b, 0>> \in decoderRegistries'[s + 1]
            <=> ((<<b, polynomPower>> \in decoderRegistries'[s]) # (b \in flips[s]))
      BY <1>2, ShiftCells DEF SymDiff, Oldest
    <3> QED
      BY <1>3, <2>1, <3>1 DEF HandsOn
  <2>2. CASE age # 0
    <3>1. age \in Ages \ {0} /\ age - 1 \in Ages /\ SentAge("decode", age - 1) = age
      BY <2>2, OlderAges
    <3>2. <<b, age>> \in decoderRegistries'[s + 1]
            <=> <<b, age - 1>> \in decoderRegistries[s + 1]
      BY <1>2, <3>1, ShiftCells
    <3>3. <<b, age - 1>> \in decoderRegistries[s + 1] <=> <<b, LineAge(s + 1, age)>> \in sent
      BY <1>1, <3>1 DEF DistanceInv, LaterBitsCorrect
    <3> QED
      BY <3>2, <3>3
  <2> QED
    BY <2>1, <2>2
<1>5. ASSUME NEW x \in next[s + 1]
      PROVE  <<CheckLine(x[1]), LineAge(s + 1, x[2])>> \in errors
  <2>1. /\ x[1] \in CheckBranches /\ x[2] \in Ages
        /\ x[2] = 0 => <<x[1], polynomPower>> \in next[s] \ Dropped(flips[s])
        /\ x[2] # 0 => <<x[1], x[2] - 1>> \in syndromeRegistries[s + 1]
    BY <1>2, ShiftedCell DEF Oldest
  <2>2. CASE x[2] = 0
    BY <1>3, <2>1, <2>2 DEF HandsOn
  <2>3. CASE x[2] # 0
    <3>1. InUse("decode", x[2] - 1) /\ ErrorAge("decode", x[2] - 1) = x[2]
      BY <2>1, <2>3, OlderAges
    <3> QED
      BY <1>1, <2>1, <2>3, <3>1 DEF DistanceInv, LaterFlagsOwn
  <2> QED
    BY <2>2, <2>3
<1> QED
  BY <1>4, <1>5 DEF LaterClean

\* It changes nothing, and hands the same on.
LEMMA CleanSectionHandsOn ==
  ASSUME LineWithinDistance, IInv, DistanceInv, phase = "decode",
         NEW flips, NEW next, SectionsRun(flips, next), NEW s \in Sections,
         LaterClean(s, decoderRegistries'[s], next[s])
  PROVE  HandsOn(s, decoderRegistries'[s], flips[s], next[s] \ Dropped(flips[s]))
<1>1. MarkedIn(s, decoderRegistries'[s], diffRegistries'[s])
  BY RunMarksChanges
<1>2. /\ flips[s] \in SUBSET DataBranches
      /\ PassThreshold(flips[s], next[s], Oldest(diffRegistries'[s], DataBranches))
      /\ next[s] \in SUBSET (CheckBranches \X Ages)
  BY DEF SectionsRun, Banks
<1>3. errors \in SUBSET (Lines \X LineAges) /\ SpansBounded /\ WithinDistance(MaxErrors)
  BY DEF IInv, TypeOK, DistanceInv, LineWithinDistance
<1>4. flips[s] = {}
  BY <1>1, <1>2, <1>3, LaterChangesNothing
<1>5. polynomPower \in Ages
  BY SectionAges
<1> QED
  BY <1>4, <1>5 DEF LaterClean, HandsOn

LEMMA RunCorrects ==
  ASSUME LineWithinDistance, IInv, DistanceInv, phase = "decode",
         NEW flips, NEW next, SectionsRun(flips, next)
  PROVE  \A s \in Sections :
           /\ HandsOn(s, decoderRegistries'[s], flips[s], next[s] \ Dropped(flips[s]))
           /\ s # 1 => LaterClean(s, decoderRegistries'[s], next[s])
<1> DEFINE Good(s) ==
             /\ HandsOn(s, decoderRegistries'[s], flips[s], next[s] \ Dropped(flips[s]))
             /\ s # 1 => LaterClean(s, decoderRegistries'[s], next[s])
           T == {s \in Sections : Good(s)}
<1>1. 1 \in T
  BY FirstSectionHandsOn, SectionAges
<1>2. ASSUME NEW s \in Sections, s \in T, s + 1 \in Sections
      PROVE  s + 1 \in T
  <2>1. HandsOn(s, decoderRegistries'[s], flips[s], next[s] \ Dropped(flips[s]))
    BY <1>2
  <2>2. LaterClean(s + 1, decoderRegistries'[s + 1], next[s + 1])
    BY <1>2, <2>1, NextSectionClean
  <2>3. HandsOn(s + 1, decoderRegistries'[s + 1], flips[s + 1],
                next[s + 1] \ Dropped(flips[s + 1]))
    BY <1>2, <2>2, CleanSectionHandsOn
  <2> QED
    BY <1>2, <2>2, <2>3
<1>3. Sections \subseteq T
  <2> HIDE DEF T
  <2> QED
    BY <1>1, <1>2, SectionInduction
<1> QED
  BY <1>3

LEMMA EncodeKeepsDistance ==
  ASSUME IInv, DistanceInv, NEW src \in SUBSET DataBranches, Encode(src)
  PROVE  DistanceInv'
<1>1. /\ phase = "encode" /\ phase' = "transmit"
      /\ sent' = Aged(sent, DataBranches, 0 .. Latency, src)
      /\ UNCHANGED <<decoderRegistries, syndromeRegistries, errors>>
  BY DEF Encode, SentAges
<1>2. \A b \in DataBranches, age \in Nat :
        age + 1 =< Latency => (<<b, age + 1>> \in sent' <=> <<b, age>> \in sent)
  BY <1>1, AgedCells, SectionAges
<1>3. SpansBounded'
  BY <1>1 DEF DistanceInv, SpansBounded, SpanFrom
<1>4. FlagsInStep("transmit", syndromeRegistries[1], Window)
  BY <1>1, EncodeKeepsFlags DEF DistanceInv
<1>5. FlagsInStep(phase, syndromeRegistries[1], Window)'
  BY <1>1, <1>4 DEF Window
<1>6. LaterBitsCorrect'
  <2> SUFFICES ASSUME NEW s \in Sections \ {1}, NEW b \in DataBranches, NEW age \in Ages,
                      age + 1 \in Ages
               PROVE  <<b, age>> \in decoderRegistries[s]
                        <=> <<b, LineAge(s, age + 1)>> \in sent'
    BY <1>1 DEF LaterBitsCorrect, SentAge
  <2>1. /\ LineAge(s, age + 1) = LineAge(s, age) + 1
        /\ LineAge(s, age) \in Nat /\ LineAge(s, age + 1) =< Latency
    BY LineAgeFacts
  <2>2. <<b, age>> \in decoderRegistries[s] <=> <<b, LineAge(s, age)>> \in sent
    BY <1>1 DEF DistanceInv, LaterBitsCorrect, SentAge
  <2> QED
    BY <1>2, <2>1, <2>2
<1>7. LaterFlagsOwn'
  BY <1>1 DEF DistanceInv, LaterFlagsOwn, InUse, ErrorAge
<1>8. DecodesWhatWasSent'
  BY <1>1 DEF DecodesWhatWasSent
<1> QED
  BY <1>3, <1>5, <1>6, <1>7, <1>8 DEF DistanceInv

LEMMA NoiseKeepsDistance ==
  ASSUME IInv, DistanceInv, NEW noise \in SUBSET Lines, HandleData(noise)
  PROVE  DistanceInv'
<1>1. /\ phase = "transmit" /\ phase' = "decode"
      /\ errors' = Aged(errors, Lines, LineAges, noise)
      /\ Cardinality(Window') =< MaxErrors
      /\ UNCHANGED <<decoderRegistries, syndromeRegistries, sent>>
  BY DEF HandleData, Window
<1>2. errors \in SUBSET (Lines \X LineAges)
  BY DEF IInv, TypeOK
<1>3. \A l \in Lines, age \in Nat :
        age + 1 =< Latency + polynomPower =>
          (<<l, age + 1>> \in errors' <=> <<l, age>> \in errors)
  <2>1. Latency + polynomPower \in Nat
    BY SectionAges
  <2> QED
    BY <1>1, <2>1, AgedCells DEF LineAges
<1>4. SpansBounded'
  BY <1>1, <1>2, NoiseKeepsBound DEF DistanceInv
<1>5. FlagsInStep("decode", syndromeRegistries[1], Window')
  <2>1. Window' = Aged(Window, Lines, SpanAges, noise)
    BY <1>1, <1>2, WindowAges
  <2>2. /\ syndromeRegistries[1] \in SUBSET (CheckBranches \X Ages)
        /\ Window \in SUBSET (Lines \X SpanAges)
    BY DEF IInv, FirstTracks, LineTracked
  <2> QED
    BY <1>1, <2>1, <2>2, NoiseKeepsFlags DEF DistanceInv
<1>6. LaterBitsCorrect'
  BY <1>1 DEF DistanceInv, LaterBitsCorrect, SentAge
<1>7. LaterFlagsOwn'
  <2> SUFFICES ASSUME NEW s \in Sections \ {1}, NEW x \in syndromeRegistries[s],
                      x[2] + 1 \in Ages
               PROVE  <<CheckLine(x[1]), LineAge(s, x[2] + 1)>> \in errors'
    BY <1>1 DEF LaterFlagsOwn, InUse, ErrorAge
  <2>1. x[1] \in CheckBranches /\ x[2] \in Ages
    BY DEF IInv, TypeOK, Banks
  <2>2. <<CheckLine(x[1]), LineAge(s, x[2])>> \in errors
    BY <1>1, <2>1 DEF DistanceInv, LaterFlagsOwn, InUse, ErrorAge
  <2>3. /\ LineAge(s, x[2] + 1) = LineAge(s, x[2]) + 1
        /\ LineAge(s, x[2]) \in Nat /\ LineAge(s, x[2]) =< Latency
    BY <2>1, LineAgeFacts
  <2>4. LineAge(s, x[2] + 1) \in Nat /\ LineAge(s, x[2] + 1) =< Latency
    BY <2>1, LineAgeFacts
  <2>5. LineAge(s, x[2]) + 1 =< Latency + polynomPower
    BY <2>3, <2>4, SectionAges
  <2>6. CheckLine(x[1]) \in Lines
    BY <2>1, LinesApart
  <2> QED
    BY <1>3, <2>2, <2>3, <2>5, <2>6
<1>8. DecodesWhatWasSent'
  BY <1>1 DEF DecodesWhatWasSent
<1> QED
  BY <1>1, <1>4, <1>5, <1>6, <1>7, <1>8 DEF DistanceInv

LEMMA DecodeKeepsDistance ==
  ASSUME LineWithinDistance, IInv, DistanceInv, DecodeCore
  PROVE  DistanceInv'
<1>1. /\ phase = "decode" /\ phase' = "encode"
      /\ UNCHANGED <<coderRegistries, block, sent, errors>>
  BY DecodeOutcome
<1>2. PICK flips, next : SectionsRun(flips, next)
  BY DecodeOutcome
<1>3. \A s \in Sections :
        /\ HandsOn(s, decoderRegistries'[s], flips[s], next[s] \ Dropped(flips[s]))
        /\ s # 1 => LaterClean(s, decoderRegistries'[s], next[s])
  BY <1>1, <1>2, RunCorrects
<1>4. \A s \in Sections : syndromeRegistries'[s] = next[s] \ Dropped(flips[s])
  BY <1>2 DEF SectionsRun
<1>5. SpansBounded'
  BY <1>1 DEF DistanceInv, SpansBounded, SpanFrom
<1>6. FlagsInStep("encode", syndromeRegistries'[1], Window)
  <2>1. FlagsInStep("encode", next[1] \ Dropped(flips[1]), Window)
    BY <1>1, <1>2, FirstSectionCorrects
  <2> QED
    BY <1>4, <2>1, SectionAges
<1>7. FlagsInStep(phase, syndromeRegistries[1], Window)'
  BY <1>1, <1>6 DEF Window
<1>8. LaterBitsCorrect'
  BY <1>1, <1>3 DEF LaterClean, LaterBitsCorrect, SentAge
<1>9. LaterFlagsOwn'
  BY <1>1, <1>3, <1>4 DEF LaterClean, LaterFlagsOwn, ErrorAge
<1>10. DecodesWhatWasSent'
  <2> DEFINE last == countDecoderSections
  <2>1. last \in Sections /\ polynomPower \in Ages
        /\ LineAge(last, polynomPower) = Latency
    BY SectionAges, LineAgeFacts
  <2>2. \A b \in DataBranches :
          (<<b, polynomPower>> \in decoderRegistries'[last]) # (b \in flips[last])
            <=> <<b, Latency>> \in sent
    BY <1>3, <2>1 DEF HandsOn
  <2>3. decoded' = SymDiff(Oldest(decoderRegistries'[last], DataBranches), flips[last])
        /\ flips[last] \in SUBSET DataBranches
    BY <1>2, <2>1 DEF SectionsRun
  <2>4. decoded' = {b \in DataBranches : <<b, Latency>> \in sent}
    BY <2>2, <2>3 DEF SymDiff, Oldest
  <2> QED
    BY <1>1, <2>4 DEF DecodesWhatWasSent
<1> QED
  BY <1>5, <1>7, <1>8, <1>9, <1>10 DEF DistanceInv

LEMMA DistanceStep ==
  ASSUME LineWithinDistance
  PROVE  IInv /\ DistanceInv /\ [Next]_vars => DistanceInv'
<1> SUFFICES ASSUME IInv, DistanceInv, [Next]_vars PROVE DistanceInv'
  OBVIOUS
<1>1. ASSUME NEW src \in SUBSET DataBranches, Encode(src)
      PROVE  DistanceInv'
  BY <1>1, EncodeKeepsDistance
<1>2. ASSUME NEW noise \in SUBSET Lines, HandleData(noise)
      PROVE  DistanceInv'
  BY <1>2, NoiseKeepsDistance
<1>3. CASE DecodeCore
  BY <1>3, DecodeKeepsDistance
<1>4. CASE UNCHANGED vars
  BY <1>4 DEF vars, DistanceInv, SpansBounded, SpanFrom, Window, LaterBitsCorrect,
              LaterFlagsOwn, DecodesWhatWasSent
<1> QED
  BY <1>1, <1>2, <1>3, <1>4 DEF Next

LEMMA DistanceInit == Init => DistanceInv
<1> SUFFICES ASSUME Init PROVE DistanceInv
  OBVIOUS
<1>1. /\ sent = {} /\ errors = {} /\ decoded = {} /\ phase = "encode"
      /\ \A s \in Sections : decoderRegistries[s] = {} /\ syndromeRegistries[s] = {}
  BY DEF Init
<1>2. SpansBounded
  <2>1. \A first : SpanFrom(first) = {}
    BY <1>1 DEF SpanFrom
  <2> QED
    BY <2>1, FS_EmptySet, SectionsAssumption DEF SpansBounded
<1>3. FlagsInStep(phase, syndromeRegistries[1], Window)
  <2>1. Window = {} /\ syndromeRegistries[1] = {}
    BY <1>1, SectionAges DEF Window
  <2> QED
    BY <1>1, <2>1, FreshRegistersTrack
<1>4. LaterBitsCorrect /\ LaterFlagsOwn /\ DecodesWhatWasSent
  BY <1>1 DEF LaterBitsCorrect, LaterFlagsOwn, DecodesWhatWasSent
<1> QED
  BY <1>2, <1>3, <1>4 DEF DistanceInv

-----------------------------------------------------------------------------
\* Every step of the coder is a step of the delay line or leaves it alone.
LEMMA StepRefines ==
  IInv /\ [Next]_vars /\ DecodesWhatWasSent' => [Line!Next]_(Line!vars)
<1> DEFINE history(cells) ==
      [age \in SentAges |-> {b \in DataBranches : <<b, age>> \in cells}]
<1> SUFFICES ASSUME IInv, [Next]_vars, DecodesWhatWasSent'
             PROVE  [Line!Next]_(Line!vars)
  OBVIOUS
<1>1. ASSUME NEW src \in SUBSET DataBranches, Encode(src)
      PROVE  Line!Encode(src)
  <2>1. /\ phase = "encode" /\ phase' = "transmit" /\ UNCHANGED decoded
        /\ sent' = Aged(sent, DataBranches, 0 .. Latency, src)
    BY <1>1 DEF Encode, SentAges
  <2>2. /\ \A b \in DataBranches : <<b, 0>> \in sent' <=> b \in src
        /\ \A b \in DataBranches, age \in Nat :
             age + 1 =< Latency => (<<b, age + 1>> \in sent' <=> <<b, age>> \in sent)
    <3>1. Latency \in Nat /\ sent' = Aged(sent, DataBranches, 0 .. Latency, src)
      BY <2>1, SectionAges
    <3> QED BY <3>1, AgedCells
  <2>3. history(sent') =
          [age \in 0 .. Latency |-> IF age = 0 THEN src ELSE history(sent)[age - 1]]
    <3>1. ASSUME NEW age \in SentAges
          PROVE  {b \in DataBranches : <<b, age>> \in sent'} =
                   IF age = 0 THEN src ELSE history(sent)[age - 1]
      <4>1. CASE age = 0
        BY <2>2, <4>1
      <4>2. CASE age # 0
        <5>1. age - 1 \in SentAges /\ age - 1 \in Nat /\ (age - 1) + 1 = age
              /\ age =< Latency
          BY <4>2, SectionAges DEF SentAges
        <5>2. \A b \in DataBranches : <<b, age>> \in sent' <=> <<b, age - 1>> \in sent
          BY <2>2, <5>1
        <5> QED
          BY <4>2, <5>1, <5>2
      <4> QED
        BY <4>1, <4>2
    <3> QED
      BY <3>1 DEF SentAges
  <2> QED
    BY <2>1, <2>3 DEF Line!Encode
<1>2. ASSUME NEW noise \in SUBSET Lines, HandleData(noise)
      PROVE  UNCHANGED Line!vars
  BY <1>2 DEF HandleData, Line!vars
<1>3. ASSUME DecodeCore
      PROVE  Line!Decode
  <2>1. phase = "decode" /\ phase' = "encode" /\ UNCHANGED sent
    BY <1>3, DecodeOutcome
  <2>2. decoded' = {b \in DataBranches : <<b, Latency>> \in sent}
    BY <2>1 DEF DecodesWhatWasSent
  <2>3. Latency \in SentAges
    BY SectionAges DEF SentAges
  <2>4. decoded' = history(sent)[Latency]
    BY <2>2, <2>3
  <2> QED
    BY <2>1, <2>4 DEF Line!Decode
<1>4. CASE UNCHANGED vars
  BY <1>4 DEF vars, Line!vars
<1> QED
  BY <1>1, <1>2, <1>3, <1>4 DEF Next, Line!Next

(***************************************************************************)
(* With a self-orthogonal code that checks every data branch, if no        *)
(* 2 * polynomPower + 1 consecutive blocks have more line errors than      *)
(* (dmin - 1) / 2, a MultiThresholdCoder of any number of sections is the  *)
(* delay line of Latency blocks that ModelingEngine's queue presumes:      *)
(* the later sections never take back what the first one has corrected.    *)
(***************************************************************************)
THEOREM SectionsAreDelayLine ==
  ASSUME LineWithinDistance
  PROVE  Spec => ImplementsDelayLine
<1>1. Init => Line!Init
  BY DEF Init, Line!Init, SentAges
<1>2. DistanceInv => DecodesWhatWasSent
  BY DEF DistanceInv
<1> QED
  BY <1>1, <1>2, StepRefines, Invariant, DistanceInit, DistanceStep, PTL
  DEF Spec, ImplementsDelayLine, Line!Spec

=============================================================================
