----------------------------- MODULE ModelingToolProofs -----------------------------
(***************************************************************************)
(* Proofs about ModelingTool, for any number of runs of the program in a   *)
(* directory, any command lines and any files of definitions.              *)
(***************************************************************************)
EXTENDS ModelingTool, FiniteSetTheorems, NaturalsInduction, WellFoundedInduction, TLAPS

LEMMA SameRate ==
  ASSUME NEW t \in Tools, items'[t] = items[t], words'[t] = words[t]
  PROVE  R(t)' = R(t)
BY DEF R, n0, k0, Definition, DecoderType, Arg, Range

-----------------------------------------------------------------------------
OnTools(f) == f = [t \in Tools |-> f[t]]

Shape == OnTools(stage) /\ OnTools(words) /\ OnTools(snrdB) /\ OnTools(items) /\ OnTools(p0)

\* A file holds nothing that does not fit its name.
CacheInv ==
  \A name \in DOMAIN cache : FitsName(cache[name], name[1], name[2])

\* The probability of a run, by the stage that the run has come to: what it was
\* given, what it has computed and is about to save, or what it will simulate with.
GivenSoFar(t) == p0[t][1] \notin {"computed", "cached"}

ComputedFor(t) ==
  \/ p0[t] = Zero
  \/ p0[t] = <<"computed", p0[t][2], R(t)>> /\ Name[p0[t][2]] = Name[snrdB[t]]

NoiseInvOf(t) ==
  /\ stage[t] \in {"skip", "read", "load", "integrate", "table"} => GivenSoFar(t)
  /\ stage[t] \in {"open", "write"} => ComputedFor(t)
  /\ stage[t] \in {"check", "simulate", "clean"} => FitsName(p0[t], Name[snrdB[t]], R(t))

NoiseInv == Shape /\ CacheInv /\ \A t \in Tools : NoiseInvOf(t)

\* The run t has done a step; the other runs are where they were.
Others(t) ==
  \A u \in Tools \ {t} :
    /\ stage'[u] = stage[u] /\ words'[u] = words[u] /\ snrdB'[u] = snrdB[u]
    /\ items'[u] = items[u] /\ p0'[u] = p0[u]

LEMMA OthersKeep ==
  ASSUME NEW t \in Tools, Others(t), NoiseInv, Shape', CacheInv', NoiseInvOf(t)'
  PROVE  NoiseInv'
<1>1. ASSUME NEW u \in Tools \ {t}
      PROVE  NoiseInvOf(u)'
  <2>1. R(u)' = R(u)
    BY SameRate DEF Others
  <2>. QED BY <2>1 DEF Others, NoiseInv, NoiseInvOf, GivenSoFar, ComputedFor, FitsName
<1>. QED BY <1>1 DEF NoiseInv

\* The steps of a run that change its stage and nothing else of the proof.
LEMMA StageStep ==
  ASSUME NoiseInv, NEW t \in Tools, NEW next,
         stage' = [stage EXCEPT ![t] = next],
         UNCHANGED <<words, snrdB, items, p0, cache>>
  PROVE  /\ Shape' /\ CacheInv' /\ Others(t)
         /\ stage'[t] = next
         /\ R(t)' = R(t)
<1>1. R(t)' = R(t)
  BY SameRate
<1>. QED BY <1>1 DEF NoiseInv, Shape, OnTools, CacheInv, Others, FitsName

LEMMA WriteCacheStep ==
  ASSUME CacheInv, NEW name, NEW content, WriteCache(name, content),
         FitsName(content, name[1], name[2])
  PROVE  CacheInv'
BY DEF CacheInv, WriteCache, FitsName

LEMMA LeaveStep ==
  ASSUME NoiseInv, NEW t \in Tools, Leave(t), UNCHANGED cache
  PROVE  NoiseInv'
<1>1. Shape' /\ CacheInv' /\ Others(t)
  BY DEF Leave, GoTo, NoiseInv, Shape, OnTools, CacheInv, Others, FitsName
<1>2. stage'[t] = "off"
  BY DEF Leave, GoTo, NoiseInv, Shape, OnTools
<1>3. NoiseInvOf(t)'
  BY <1>2 DEF NoiseInvOf
<1>. QED BY <1>1, <1>3, OthersKeep

LEMMA StartStep ==
  ASSUME NoiseInv, NEW t \in Tools, NEW argv, Start(t, argv)
  PROVE  NoiseInv'
<1> DEFINE args == IF Len(argv) = 1 THEN DefaultArgs ELSE argv
<1>. PICK ratio \in RatiosOf(args) : snrdB' = [snrdB EXCEPT ![t] = ratio]
  BY DEF Start
<1>1. Shape' /\ CacheInv' /\ Others(t)
  BY DEF Start, GoTo, NoiseInv, Shape, OnTools, CacheInv, Others, FitsName
<1>2. stage'[t] \in {"skip", "read"} /\ p0'[t] = GivenP0(args)
  BY DEF Start, GoTo, NoiseInv, Shape, OnTools
<1>3. GivenP0(args)[1] \in {"zero", "given"}
  BY DEF GivenP0, Zero
<1>4. NoiseInvOf(t)'
  BY <1>2, <1>3 DEF NoiseInvOf, GivenSoFar
<1>. QED BY <1>1, <1>4, OthersKeep

LEMMA SetUpStep ==
  ASSUME NoiseInv, NEW t \in Tools, SetUp(t)
  PROVE  NoiseInv'
<1>0. OnTools(stage) /\ OnTools(p0) /\ OnTools(items)
  BY DEF NoiseInv, Shape
<1>1. CASE SkipRawLine(t)
  <2>1. \E next \in {"skip", "read"} : stage' = [stage EXCEPT ![t] = next]
    BY <1>0, <1>1 DEF SkipRawLine, GoTo, OnTools
  <2>. PICK next \in {"skip", "read"} : stage' = [stage EXCEPT ![t] = next]
    BY <2>1
  <2>2. Shape' /\ CacheInv' /\ Others(t) /\ stage'[t] = next
    BY <1>1, StageStep DEF SkipRawLine
  <2>3. NoiseInvOf(t)'
    BY <1>1, <2>2 DEF SkipRawLine, NoiseInv, NoiseInvOf, GivenSoFar
  <2>. QED BY <2>2, <2>3, OthersKeep
<1>2. CASE ReadDefinition(t)
  <2>1. Shape' /\ CacheInv' /\ Others(t) /\ stage'[t] = "read"
    BY <1>0, <1>2 DEF ReadDefinition, NoiseInv, Shape, OnTools, CacheInv, Others, FitsName
  <2>2. NoiseInvOf(t)'
    BY <1>2, <2>1 DEF ReadDefinition, NoiseInv, NoiseInvOf, GivenSoFar
  <2>. QED BY <2>1, <2>2, OthersKeep
<1>3. CASE EndDefinitions(t)
  <2>1. GivenSoFar(t)
    BY <1>3 DEF EndDefinitions, NoiseInv, NoiseInvOf
  <2>2. AfterDefinitions(t) \in {"load", "table", "check"}
    BY DEF AfterDefinitions
  <2>3. Shape' /\ CacheInv' /\ Others(t) /\ stage'[t] = AfterDefinitions(t)
    BY <1>3, StageStep DEF EndDefinitions, GoTo
  <2>4. NoiseInvOf(t)'
    BY <1>3, <2>1, <2>2, <2>3 DEF EndDefinitions, NoiseInvOf, GivenSoFar, FitsName
  <2>. QED BY <2>3, <2>4, OthersKeep
<1>4. CASE FailOnLine(t)
  <2>1. Shape' /\ CacheInv' /\ Others(t) /\ stage'[t] = "aborted"
    BY <1>4, StageStep DEF FailOnLine, GoTo
  <2>2. NoiseInvOf(t)'
    BY <2>1 DEF NoiseInvOf
  <2>. QED BY <2>1, <2>2, OthersKeep
<1>5. CASE LoadCachedSNRdB(t)
  <2>1. CASE Loaded(t) = Absent
    <3>1. Shape' /\ CacheInv' /\ Others(t) /\ stage'[t] = "integrate" /\ p0' = p0
      BY <1>5, <2>1, StageStep DEF LoadCachedSNRdB, GoTo
    <3>2. NoiseInvOf(t)'
      BY <1>5, <3>1 DEF LoadCachedSNRdB, NoiseInv, NoiseInvOf, GivenSoFar
    <3>. QED BY <3>1, <3>2, OthersKeep
  <2>2. CASE Loaded(t) # Absent
    <3>1. Shape' /\ CacheInv' /\ Others(t) /\ stage'[t] = "check" /\ p0'[t] = Loaded(t)
      BY <1>0, <1>5, <2>2
      DEF LoadCachedSNRdB, GoTo, NoiseInv, Shape, OnTools, CacheInv, Others, FitsName
    <3>2. CacheName(t) \in DOMAIN cache /\ Loaded(t) = cache[CacheName(t)]
      BY <2>2 DEF Loaded, CacheFile, Empty, Absent
    <3>3. FitsName(Loaded(t), Name[snrdB[t]], R(t))
      BY <3>2 DEF NoiseInv, CacheInv, CacheName, FitsName
    <3>4. R(t)' = R(t) /\ snrdB' = snrdB
      BY <1>5, SameRate DEF LoadCachedSNRdB
    <3>5. NoiseInvOf(t)'
      BY <3>1, <3>3, <3>4 DEF NoiseInvOf, FitsName
    <3>. QED BY <3>1, <3>5, OthersKeep
  <2>. QED BY <2>1, <2>2
<1>6. CASE ComputeQFunc(t)
  <2>1. /\ Shape' /\ CacheInv' /\ Others(t) /\ stage'[t] = "open"
        /\ p0'[t] \in {Zero, <<"computed", snrdB[t], R(t)>>}
    BY <1>0, <1>6 DEF ComputeQFunc, GoTo, NoiseInv, Shape, OnTools, CacheInv, Others, FitsName
  <2>2. R(t)' = R(t) /\ snrdB' = snrdB
    BY <1>6, SameRate DEF ComputeQFunc
  <2>3. NoiseInvOf(t)'
    BY <2>1, <2>2 DEF NoiseInvOf, ComputedFor
  <2>. QED BY <2>1, <2>3, OthersKeep
<1>7. CASE OpenCache(t)
  <2>1. Shape' /\ Others(t) /\ stage'[t] = "write" /\ R(t)' = R(t)
    BY <1>0, <1>7, SameRate DEF OpenCache, GoTo, NoiseInv, Shape, OnTools, Others
  <2>2. FitsName(Empty, CacheName(t)[1], CacheName(t)[2])
    BY DEF FitsName, Empty
  <2>3. CacheInv'
    BY <1>7, <2>2, WriteCacheStep DEF OpenCache, NoiseInv
  <2>4. NoiseInvOf(t)'
    BY <1>7, <2>1 DEF OpenCache, NoiseInv, NoiseInvOf, ComputedFor
  <2>. QED BY <2>1, <2>3, <2>4, OthersKeep
<1>8. CASE SaveCachedSNRdB(t)
  <2>1. Shape' /\ Others(t) /\ stage'[t] = "check" /\ R(t)' = R(t) /\ p0' = p0 /\ snrdB' = snrdB
    BY <1>0, <1>8, SameRate DEF SaveCachedSNRdB, GoTo, NoiseInv, Shape, OnTools, Others
  <2>2. ComputedFor(t)
    BY <1>8 DEF SaveCachedSNRdB, NoiseInv, NoiseInvOf
  <2>3. FitsName(Printed(p0[t]), Name[snrdB[t]], R(t))
    BY <2>2 DEF ComputedFor, Printed, FitsName, Zero
  <2>4. CacheInv'
    BY <1>8, <2>3, WriteCacheStep DEF SaveCachedSNRdB, NoiseInv, CacheName
  <2>5. FitsName(p0[t], Name[snrdB[t]], R(t))
    BY <2>2 DEF ComputedFor, FitsName, Zero
  <2>6. NoiseInvOf(t)'
    BY <2>1, <2>5 DEF NoiseInvOf, FitsName
  <2>. QED BY <2>1, <2>4, <2>6, OthersKeep
<1>9. CASE ReadTable(t)
  <2>1. /\ Shape' /\ CacheInv' /\ Others(t) /\ stage'[t] = "check"
        /\ p0'[t] = <<"table", snrdB[t]>>
    BY <1>0, <1>9 DEF ReadTable, GoTo, NoiseInv, Shape, OnTools, CacheInv, Others, FitsName
  <2>2. NoiseInvOf(t)'
    BY <2>1 DEF NoiseInvOf, FitsName
  <2>. QED BY <2>1, <2>2, OthersKeep
<1>10. CASE Check(t)
  <2>1. \E next \in {"simulate", "refused"} : stage' = [stage EXCEPT ![t] = next]
    BY <1>10 DEF Check, GoTo
  <2>. PICK next \in {"simulate", "refused"} : stage' = [stage EXCEPT ![t] = next]
    BY <2>1
  <2>2. Shape' /\ CacheInv' /\ Others(t) /\ stage'[t] = next /\ R(t)' = R(t)
    BY <1>10, StageStep DEF Check
  <2>3. NoiseInvOf(t)'
    BY <1>10, <2>2 DEF Check, NoiseInv, NoiseInvOf, FitsName
  <2>. QED BY <2>2, <2>3, OthersKeep
<1>. QED
  BY <1>1, <1>2, <1>3, <1>4, <1>5, <1>6, <1>7, <1>8, <1>9, <1>10 DEF SetUp

LEMMA NextNoise ==
  ASSUME NoiseInv, [Next]_vars
  PROVE  NoiseInv'
<1>1. ASSUME NEW t \in Tools, SaveResults(t)
      PROVE  NoiseInv'
  <2>1. Shape' /\ CacheInv' /\ Others(t) /\ stage'[t] = "clean" /\ R(t)' = R(t)
    BY <1>1, StageStep DEF SaveResults, GoTo
  <2>2. NoiseInvOf(t)'
    BY <1>1, <2>1 DEF SaveResults, NoiseInv, NoiseInvOf, FitsName
  <2>. QED BY <2>1, <2>2, OthersKeep
<1>2. ASSUME NEW t \in Tools, Clean(t)
      PROVE  NoiseInv'
  <2>1. CASE Leave(t)
    BY <1>2, <2>1, LeaveStep DEF Clean
  <2>2. CASE GoTo(t, "aborted") /\ UNCHANGED <<words, snrdB, line, branchIndexZeroBased, items, p0>>
    <3>1. Shape' /\ CacheInv' /\ Others(t) /\ stage'[t] = "aborted"
      BY <1>2, <2>2, StageStep DEF Clean, GoTo
    <3>2. NoiseInvOf(t)'
      BY <3>1 DEF NoiseInvOf
    <3>. QED BY <3>1, <3>2, OthersKeep
  <2>. QED BY <1>2, <2>1, <2>2 DEF Clean
<1>3. ASSUME NEW t \in Tools, Kill(t)
      PROVE  NoiseInv'
  BY <1>3, LeaveStep DEF Kill
<1>4. CASE UNCHANGED vars
  <2>1. UNCHANGED <<stage, words, snrdB, items, p0, cache>>
    BY <1>4 DEF vars, toolVars
  <2>2. \A t \in Tools : R(t)' = R(t)
    BY <2>1, SameRate
  <2>3. Shape' /\ CacheInv'
    BY <2>1 DEF NoiseInv, Shape, OnTools, CacheInv, FitsName
  <2>4. ASSUME NEW t \in Tools PROVE NoiseInvOf(t)'
    <3>1. NoiseInvOf(t)
      BY DEF NoiseInv
    <3> QED BY <2>1, <2>2, <3>1 DEF NoiseInvOf, GivenSoFar, ComputedFor, FitsName
  <2>. QED BY <2>3, <2>4 DEF NoiseInv
<1>. QED BY <1>1, <1>2, <1>3, <1>4, StartStep, SetUpStep DEF Next

LEMMA InitNoise ==
  ASSUME Init
  PROVE  NoiseInv
<1>1. Shape
  BY DEF Init, Shape, OnTools
<1>2. CacheInv
  BY DEF Init, CacheInv
<1>3. \A t \in Tools : stage[t] = "off"
  BY DEF Init
<1>. QED BY <1>1, <1>2, <1>3 DEF NoiseInv, NoiseInvOf

(***************************************************************************)
(* However many runs of the program share the directory, in whatever order *)
(* they load, empty and write the files of the cache and wherever they are *)
(* killed, none simulates with the noise of another ratio or rate than its *)
(* own.                                                                    *)
(***************************************************************************)
THEOREM NoiseIsItsOwn ==
  Spec => []NoiseFitsItsName
<1>1. Init => NoiseInv
  BY InitNoise
<1>2. NoiseInv /\ [Next]_vars => NoiseInv'
  BY NextNoise
<1>3. NoiseInv => NoiseFitsItsName
  BY DEF NoiseInv, NoiseInvOf, NoiseFitsItsName
<1>. QED BY <1>1, <1>2, <1>3, PTL DEF Spec

-----------------------------------------------------------------------------
(***************************************************************************)
(* Why a run is refused.  A file holds a zero only under the name of       *)
(* ratios for which the integral vanishes.                                 *)
(***************************************************************************)
CacheZeroInv ==
  \A name \in DOMAIN cache :
    /\ cache[name] \in {Zero, Empty} \/ cache[name][1] = "cached"
    /\ cache[name] = Zero =>
         \A ratio \in Ratios : Name[ratio] = name[1] => ratio \in Vanishing

Integrates(t) == GivenP0(words[t]) = Zero /\ P0ComputingMode(words[t]) = 0

Refusal(t) ==
  \/ GivenP0(words[t]) # Zero /\ ~ ValidP0(GivenP0(words[t]))
  \/ Integrates(t) /\ snrdB[t] \in Vanishing
  \/ GivenP0(words[t]) = Zero /\ P0ComputingMode(words[t]) \notin {0, 1}

RefusalInvOf(t) ==
  /\ stage[t] \notin Over => snrdB[t] \in Ratios
  /\ stage[t] \in {"skip", "read"} => p0[t] = GivenP0(words[t])
  /\ stage[t] \in {"load", "integrate", "open", "write"} => Integrates(t)
  /\ stage[t] \in {"open", "write"} =>
       \/ p0[t] = Zero /\ snrdB[t] \in Vanishing
       \/ p0[t][1] = "computed"
  /\ stage[t] = "check" => ValidP0(p0[t]) \/ Refusal(t)
  /\ stage[t] = "refused" => Refusal(t)

RefusalInv == CacheZeroInv /\ \A t \in Tools : RefusalInvOf(t)

LEMMA OthersRefused ==
  ASSUME NEW t \in Tools, Others(t), RefusalInv, CacheZeroInv', RefusalInvOf(t)'
  PROVE  RefusalInv'
<1>1. ASSUME NEW u \in Tools \ {t}
      PROVE  RefusalInvOf(u)'
  BY DEF Others, RefusalInv, RefusalInvOf, Integrates, Refusal
<1>. QED BY <1>1 DEF RefusalInv

LEMMA OthersOf ==
  ASSUME NoiseInv, NEW t \in Tools,
         (\E argv \in CommandLines[t] : Start(t, argv)) \/ SetUp(t) \/ SaveResults(t) \/ Clean(t)
           \/ Kill(t)
  PROVE  Others(t)
<1> USE DEF NoiseInv, Shape, OnTools, Others, GoTo
<1>1. CASE \E argv \in CommandLines[t] : Start(t, argv)
  BY <1>1 DEF Start
<1>2. CASE SetUp(t)
  <2>1. CASE SkipRawLine(t)
    BY <2>1 DEF SkipRawLine
  <2>2. CASE ReadDefinition(t)
    BY <2>2 DEF ReadDefinition
  <2>3. CASE EndDefinitions(t)
    BY <2>3 DEF EndDefinitions
  <2>4. CASE FailOnLine(t)
    BY <2>4 DEF FailOnLine
  <2>5. CASE LoadCachedSNRdB(t)
    BY <2>5 DEF LoadCachedSNRdB
  <2>6. CASE ComputeQFunc(t)
    BY <2>6 DEF ComputeQFunc
  <2>7. CASE OpenCache(t)
    BY <2>7 DEF OpenCache
  <2>8. CASE SaveCachedSNRdB(t)
    BY <2>8 DEF SaveCachedSNRdB
  <2>9. CASE ReadTable(t)
    BY <2>9 DEF ReadTable
  <2>10. CASE Check(t)
    BY <2>10 DEF Check
  <2>. QED
    BY <1>2, <2>1, <2>2, <2>3, <2>4, <2>5, <2>6, <2>7, <2>8, <2>9, <2>10 DEF SetUp
<1>3. CASE SaveResults(t)
  BY <1>3 DEF SaveResults
<1>4. CASE Clean(t)
  BY <1>4 DEF Clean, Leave
<1>5. CASE Kill(t)
  BY <1>5 DEF Kill, Leave
<1>. QED BY <1>1, <1>2, <1>3, <1>4, <1>5

\* A number that does not come from the command line is valid.
LEMMA ValidUnlessGiven ==
  ASSUME NEW p, p[1] \in {"cached", "table", "computed"}
  PROVE  ValidP0(p)
BY DEF ValidP0, Zero

LEMMA StartRefusal ==
  ASSUME NoiseInv, RefusalInv, NEW t \in Tools, NEW argv \in CommandLines[t], Start(t, argv)
  PROVE  RefusalInvOf(t)' /\ CacheZeroInv'
<1> DEFINE args == IF Len(argv) = 1 THEN DefaultArgs ELSE argv
<1>. PICK ratio \in RatiosOf(args) : snrdB' = [snrdB EXCEPT ![t] = ratio]
  BY DEF Start
<1>1. ratio \in Ratios
  BY RatiosAssumption
<1>2. /\ stage'[t] \in {"skip", "read"} /\ snrdB'[t] = ratio
      /\ p0'[t] = GivenP0(args) /\ words'[t] = args /\ cache' = cache
  BY DEF Start, GoTo, NoiseInv, Shape, OnTools
<1>. QED BY <1>1, <1>2 DEF RefusalInv, RefusalInvOf, CacheZeroInv

LEMMA SetUpRefusal ==
  ASSUME NoiseInv, RefusalInv, NEW t \in Tools, SetUp(t)
  PROVE  RefusalInvOf(t)' /\ CacheZeroInv'
<1> USE DEF RefusalInv, RefusalInvOf, Integrates, Refusal, Over
<1>0. OnTools(stage) /\ OnTools(p0)
  BY DEF NoiseInv, Shape
<1>1. CASE SkipRawLine(t)
  BY <1>0, <1>1 DEF SkipRawLine, GoTo, OnTools, CacheZeroInv
<1>2. CASE ReadDefinition(t)
  BY <1>0, <1>2 DEF ReadDefinition, OnTools, CacheZeroInv
<1>3. CASE EndDefinitions(t)
  <2>1. /\ AfterDefinitions(t) = "load" => p0[t] = Zero /\ P0ComputingMode(words[t]) = 0
        /\ AfterDefinitions(t) = "check" =>
             p0[t] # Zero \/ P0ComputingMode(words[t]) \notin {0, 1}
        /\ AfterDefinitions(t) \in {"load", "table", "check"}
    BY DEF AfterDefinitions
  <2>2. /\ stage'[t] = AfterDefinitions(t) /\ stage[t] = "read"
        /\ UNCHANGED <<words, snrdB, p0, cache>>
    BY <1>0, <1>3 DEF EndDefinitions, GoTo, OnTools
  <2>3. p0[t] = GivenP0(words[t]) /\ snrdB[t] \in Ratios
    BY <2>2
  <2>. QED BY <2>1, <2>2, <2>3 DEF CacheZeroInv
<1>4. CASE FailOnLine(t)
  BY <1>0, <1>4 DEF FailOnLine, GoTo, OnTools, CacheZeroInv
<1>5. CASE LoadCachedSNRdB(t)
  <2>1. CASE Loaded(t) = Absent
    BY <1>0, <1>5, <2>1 DEF LoadCachedSNRdB, GoTo, OnTools, CacheZeroInv
  <2>2. CASE Loaded(t) # Absent
    <3>1. /\ stage[t] = "load" /\ stage'[t] = "check" /\ p0'[t] = Loaded(t)
          /\ UNCHANGED <<words, snrdB, cache>>
      BY <1>0, <1>5, <2>2 DEF LoadCachedSNRdB, GoTo, OnTools
    <3>2. CacheName(t) \in DOMAIN cache /\ Loaded(t) = cache[CacheName(t)] /\ Loaded(t) # Empty
      BY <2>2 DEF Loaded, CacheFile, Absent, Empty
    <3>3. CASE Loaded(t) = Zero
      <4>1. snrdB[t] \in Vanishing
        BY <3>1, <3>2, <3>3 DEF CacheZeroInv, CacheName
      <4>. QED BY <3>1, <4>1 DEF CacheZeroInv
    <3>4. CASE Loaded(t)[1] = "cached"
      <4>1. ValidP0(Loaded(t))
        BY <3>4, ValidUnlessGiven
      <4>2. ValidP0(p0[t])'
        BY <3>1, <4>1 DEF ValidP0
      <4>. QED BY <3>1, <4>2 DEF CacheZeroInv
    <3>. QED BY <3>2, <3>3, <3>4 DEF CacheZeroInv
  <2>. QED BY <2>1, <2>2
<1>6. CASE ComputeQFunc(t)
  <2>1. /\ stage[t] = "integrate" /\ stage'[t] = "open"
        /\ p0'[t] = IF snrdB[t] \in Vanishing THEN Zero ELSE <<"computed", snrdB[t], R(t)>>
        /\ UNCHANGED <<words, snrdB, cache>>
    BY <1>0, <1>6 DEF ComputeQFunc, GoTo, OnTools
  <2>. QED BY <2>1 DEF CacheZeroInv
<1>7. CASE OpenCache(t)
  <2>1. CacheZeroInv'
    <3>1. cache' = [n \in DOMAIN cache \cup {CacheName(t)} |->
                      IF n = CacheName(t) THEN Empty ELSE cache[n]]
      BY <1>7 DEF OpenCache, WriteCache
    <3>. QED BY <3>1 DEF CacheZeroInv, Zero, Empty
  <2>. QED BY <1>0, <1>7, <2>1 DEF OpenCache, GoTo, OnTools
<1>8. CASE SaveCachedSNRdB(t)
  <2>1. /\ stage[t] = "write" /\ stage'[t] = "check"
        /\ UNCHANGED <<words, snrdB, p0>>
    BY <1>0, <1>8 DEF SaveCachedSNRdB, GoTo, OnTools
  <2>2. /\ Printed(p0[t]) = Zero \/ Printed(p0[t])[1] = "cached"
        /\ Printed(p0[t]) = Zero => snrdB[t] \in Vanishing
    BY <2>1 DEF Printed, Zero
  <2>3. snrdB[t] \in Vanishing =>
          \A ratio \in Ratios : Name[ratio] = CacheName(t)[1] => ratio \in Vanishing
    BY <2>1, ToolAssumption DEF CacheName
  <2>4. CacheZeroInv'
    <3>1. cache' = [n \in DOMAIN cache \cup {CacheName(t)} |->
                      IF n = CacheName(t) THEN Printed(p0[t]) ELSE cache[n]]
      BY <1>8 DEF SaveCachedSNRdB, WriteCache
    <3>2. ASSUME NEW name \in DOMAIN cache'
          PROVE  /\ cache'[name] \in {Zero, Empty} \/ cache'[name][1] = "cached"
                 /\ cache'[name] = Zero =>
                      \A ratio \in Ratios : Name[ratio] = name[1] => ratio \in Vanishing
      <4>1. CASE name = CacheName(t)
        BY <2>2, <2>3, <3>1, <4>1
      <4>2. CASE name # CacheName(t)
        <5>1. name \in DOMAIN cache /\ cache'[name] = cache[name]
          BY <3>1, <3>2, <4>2
        <5>. QED BY <5>1 DEF CacheZeroInv
      <4>. QED BY <4>1, <4>2
    <3>. QED BY <3>2 DEF CacheZeroInv
  <2>5. ValidP0(p0[t]) \/ snrdB[t] \in Vanishing
    BY <2>1, ValidUnlessGiven
  <2>. QED BY <2>1, <2>4, <2>5 DEF ValidP0
<1>9. CASE ReadTable(t)
  <2>1. /\ stage[t] = "table" /\ stage'[t] = "check" /\ p0'[t] = <<"table", snrdB[t]>>
        /\ UNCHANGED <<words, snrdB, cache>>
    BY <1>0, <1>9 DEF ReadTable, GoTo, OnTools
  <2>2. ValidP0(<<"table", snrdB[t]>>)
    BY ValidUnlessGiven
  <2>3. ValidP0(p0[t])'
    BY <2>1, <2>2 DEF ValidP0
  <2>. QED BY <2>1, <2>3 DEF CacheZeroInv
<1>10. CASE Check(t)
  <2>1. /\ stage[t] = "check"
        /\ stage'[t] = IF ValidP0(p0[t]) THEN "simulate" ELSE "refused"
        /\ UNCHANGED <<words, snrdB, p0, cache>>
    BY <1>0, <1>10 DEF Check, GoTo, OnTools
  <2>. QED BY <2>1 DEF CacheZeroInv
<1>. QED
  BY <1>1, <1>2, <1>3, <1>4, <1>5, <1>6, <1>7, <1>8, <1>9, <1>10 DEF SetUp

LEMMA NextRefusal ==
  ASSUME NoiseInv, RefusalInv, [Next]_vars
  PROVE  RefusalInv'
<1>1. ASSUME NEW t \in Tools, NEW argv \in CommandLines[t], Start(t, argv)
      PROVE  RefusalInv'
  BY <1>1, StartRefusal, OthersOf, OthersRefused
<1>2. ASSUME NEW t \in Tools, SetUp(t)
      PROVE  RefusalInv'
  BY <1>2, SetUpRefusal, OthersOf, OthersRefused
<1>3. ASSUME NEW t \in Tools, SaveResults(t) \/ Clean(t) \/ Kill(t)
      PROVE  RefusalInv'
  <2>1. OnTools(stage) /\ cache' = cache
    BY <1>3 DEF NoiseInv, Shape, SaveResults, Clean, Kill
  <2>2. \/ stage'[t] \in {"off", "aborted"}
        \/ stage'[t] = "clean" /\ snrdB' = snrdB /\ stage[t] = "simulate"
    BY <1>3, <2>1 DEF SaveResults, Clean, Kill, Leave, GoTo, OnTools
  <2>3. RefusalInvOf(t)' /\ CacheZeroInv'
    BY <2>1, <2>2 DEF RefusalInv, RefusalInvOf, CacheZeroInv, Over
  <2>. QED BY <1>3, <2>3, OthersOf, OthersRefused
<1>4. CASE UNCHANGED vars
  BY <1>4 DEF vars, toolVars, RefusalInv, RefusalInvOf, CacheZeroInv, Integrates, Refusal
<1>. QED BY <1>1, <1>2, <1>3, <1>4 DEF Next

(***************************************************************************)
(* Whatever other runs have left in the cache, a run is refused for its    *)
(* own arguments only: for a probability out of range, for a mode that     *)
(* there is not, or for a ratio for which the integral vanishes.           *)
(***************************************************************************)
THEOREM RefusalIsItsOwn ==
  Spec => []RefusesForItsArguments
<1>1. Init => NoiseInv /\ RefusalInv
  <2> SUFFICES ASSUME Init PROVE NoiseInv /\ RefusalInv
    OBVIOUS
  <2>1. NoiseInv
    BY InitNoise
  <2>2. CacheZeroInv
    BY DEF Init, CacheZeroInv
  <2>3. \A t \in Tools : stage[t] = "off"
    BY DEF Init
  <2>. QED BY <2>1, <2>2, <2>3 DEF RefusalInv, RefusalInvOf, Over
<1>2. (NoiseInv /\ RefusalInv) /\ [Next]_vars => (NoiseInv /\ RefusalInv)'
  BY NextNoise, NextRefusal
<1>3. RefusalInv => RefusesForItsArguments
  BY DEF RefusalInv, RefusalInvOf, Refusal, Integrates, RefusesForItsArguments
<1>. QED BY <1>1, <1>2, <1>3, PTL DEF Spec

-----------------------------------------------------------------------------
(***************************************************************************)
(* Finite sets of natural numbers.                                         *)
(***************************************************************************)
LEMMA LeastOfNaturals ==
  ASSUME NEW S \in SUBSET Nat, S # {}
  PROVE  \E x \in S : \A y \in S : x =< y
<1> DEFINE Less == {pair \in Nat \X Nat : pair[1] < pair[2]}
<1>1. IsWellFoundedOn(Less, Nat)
  BY NatLessThanWellFounded DEF OpToRel
<1>2. PICK x \in S : \A y \in S : <<y, x>> \notin Less
  <2> HIDE DEF Less
  <2> QED BY <1>1, WFMin
<1>3. \A y \in S : x =< y
  <2> TAKE y \in S
  <2>1. y \in Nat /\ x \in Nat
    OBVIOUS
  <2>2. (y < x) => (<<y, x>> \in Less)
    BY <2>1
  <2> HIDE DEF Less
  <2> QED BY <1>2, <2>1, <2>2
<1> QED BY <1>3

Bounded(S) == \E bound \in Nat : \A x \in S : x =< bound

LEMMA FiniteIsBounded ==
  ASSUME NEW S \in SUBSET Nat, IsFiniteSet(S)
  PROVE  Bounded(S)
<1> DEFINE Unbounded == {n \in Nat : \E T \in SUBSET Nat : IsFiniteSet(T) /\ Cardinality(T) = n
                                                           /\ ~ Bounded(T)}
<1> SUFFICES ASSUME ~ Bounded(S) PROVE FALSE
  OBVIOUS
<1>1. Cardinality(S) \in Unbounded
  BY FS_CardinalityType
<1>2. PICK n \in Unbounded : \A other \in Unbounded : n =< other
  <2> HIDE DEF Unbounded
  <2>1. Unbounded \in SUBSET Nat
    BY DEF Unbounded
  <2> QED BY <1>1, <2>1, LeastOfNaturals
<1>3. PICK T \in SUBSET Nat : IsFiniteSet(T) /\ Cardinality(T) = n /\ ~ Bounded(T)
  OBVIOUS
<1>4. PICK x \in T : TRUE
  BY <1>3 DEF Bounded
<1>5. IsFiniteSet(T \ {x}) /\ Cardinality(T \ {x}) = n - 1
  BY <1>3, <1>4, FS_RemoveElement
<1>6. n - 1 \in Nat
  BY <1>5, FS_CardinalityType
<1>7. Bounded(T \ {x})
  <2>1. ASSUME ~ Bounded(T \ {x}) PROVE n - 1 \in Unbounded
    BY <1>5, <1>6, <2>1
  <2>2. n - 1 \notin Unbounded
    <3>1. n \in Nat
      OBVIOUS
    <3> HIDE DEF Unbounded
    <3> QED BY <1>2, <1>6, <3>1
  <2> HIDE DEF Unbounded
  <2> QED BY <2>1, <2>2
<1>8. PICK bound \in Nat : \A y \in T \ {x} : y =< bound
  BY <1>7 DEF Bounded
<1>9. \A y \in T : y =< bound + x
  BY <1>4, <1>8
<1>10. bound + x \in Nat
  BY <1>4
<1>11. Bounded(T)
  BY <1>9, <1>10 DEF Bounded
<1> QED BY <1>3, <1>11

LEMMA MaxOfNaturals ==
  ASSUME NEW S \in SUBSET Nat, S # {}, IsFiniteSet(S)
  PROVE  /\ Max(S) \in S
         /\ \A y \in S : Max(S) >= y
<1> DEFINE Bounds == {bound \in Nat : \A x \in S : x =< bound}
<1>1. Bounds # {}
  BY FiniteIsBounded DEF Bounded
<1>2. PICK bound \in Bounds : \A other \in Bounds : bound =< other
  <2>1. Bounds \in SUBSET Nat
    OBVIOUS
  <2> HIDE DEF Bounds
  <2> QED BY <1>1, <2>1, LeastOfNaturals
<1>3. bound \in S
  <2> SUFFICES ASSUME bound \notin S PROVE FALSE
    OBVIOUS
  <2>1. \A x \in S : x < bound
    OBVIOUS
  <2>2. bound - 1 \in Bounds
    <3>1. PICK x \in S : TRUE
      OBVIOUS
    <3>2. bound - 1 \in Nat
      BY <2>1, <3>1
    <3> QED BY <2>1, <3>2
  <2> QED BY <1>2, <2>2
<1>4. \A y \in S : bound >= y
  OBVIOUS
<1> QED BY <1>3, <1>4 DEF Max

LEMMA FiniteImage ==
  ASSUME NEW S, IsFiniteSet(S), NEW f, DOMAIN f = S
  PROVE  IsFiniteSet({f[x] : x \in S})
<1> DEFINE T == {f[x] : x \in S}
<1>1. [x \in S |-> f[x]] \in Surjection(S, T)
  BY DEF Surjection
<1> QED BY <1>1, FS_Surjection DEF ExistsSurjection

-----------------------------------------------------------------------------
(***************************************************************************)
(* What the coder gets from a well-formed file: the items that the file    *)
(* means make a sound definition, and registers that fit it.               *)
(***************************************************************************)
MeantItem(file, n) ==
  [i |-> file[n].i + (IF HasZero(file) THEN 1 ELSE 0),
   j |-> file[n].j + (IF HasZero(file) THEN 1 ELSE 0),
   powersPolynom |-> file[n].powers]

LEMMA MeantItems ==
  ASSUME NEW file
  PROVE  Meant(file) = {MeantItem(file, n) : n \in ItemLines(file)}
BY DEF Meant, MeantItem

LEMMA FiniteItemLines ==
  ASSUME NEW file, IsFile(file)
  PROVE  ItemLines(file) \in SUBSET (Nat \ {0}) /\ IsFiniteSet(ItemLines(file))
<1>1. Len(file) \in Nat
  BY DEF IsFile
<1>2. IsFiniteSet(1 .. Len(file))
  BY <1>1, FS_Interval
<1> QED BY <1>1, <1>2, FS_Subset DEF ItemLines

\* What an instance calls finite and greatest is so.
LEMMA InstanceOperators ==
  ASSUME NEW D
  PROVE  /\ \A S : Def(D)!IsFiniteSet(S) = IsFiniteSet(S)
         /\ \A S : Def(D)!Max(S) = Max(S)
BY DEF Def!IsFiniteSet, IsFiniteSet, Def!Max, Max

LEMMA MeantIsSound ==
  ASSUME NEW file, IsFile(file), WellFormed(file)
  PROVE  Def(Meant(file))!ItemsAreSound
<1> DEFINE D == Meant(file)
           of == [n \in ItemLines(file) |-> MeantItem(file, n)]
<1>1. D = {of[n] : n \in ItemLines(file)}
  BY MeantItems
<1>2. D # {}
  BY <1>1 DEF WellFormed
<1>3. IsFiniteSet(D)
  <2> HIDE DEF of
  <2>1. DOMAIN of = ItemLines(file)
    BY DEF of
  <2>2. IsFiniteSet({of[n] : n \in ItemLines(file)})
    BY <2>1, FiniteItemLines, FiniteImage
  <2> QED BY <1>1, <2>2
<1>4. ASSUME NEW it \in D
      PROVE  /\ it.i \in Nat \ {0} /\ it.j \in Nat \ {0}
             /\ it.powersPolynom \in SUBSET Nat /\ IsFiniteSet(it.powersPolynom)
  <2>1. PICK n \in ItemLines(file) : it = MeantItem(file, n)
    BY <1>1
  <2>2. /\ file[n].i \in Nat /\ file[n].j \in Nat
        /\ file[n].powers \in SUBSET Nat /\ IsFiniteSet(file[n].powers)
    BY DEF WellFormed
  <2>3. ~ HasZero(file) => file[n].i # 0 /\ file[n].j # 0
    BY DEF HasZero
  <2> QED BY <2>1, <2>2, <2>3 DEF MeantItem
<1>5. ASSUME NEW it \in D, NEW other \in D, it.i = other.i, it.j = other.j
      PROVE  it = other
  <2>1. PICK n \in ItemLines(file) : it = MeantItem(file, n)
    BY <1>1
  <2>2. PICK k \in ItemLines(file) : other = MeantItem(file, k)
    BY <1>1
  <2>3. /\ file[n].i \in Nat /\ file[n].j \in Nat
        /\ file[k].i \in Nat /\ file[k].j \in Nat
    BY DEF WellFormed
  <2>4. file[n].i = file[k].i /\ file[n].j = file[k].j
    BY <1>5, <2>1, <2>2, <2>3 DEF MeantItem
  <2>5. n = k
    BY <2>4 DEF WellFormed
  <2> QED BY <2>1, <2>2, <2>5
<1> HIDE DEF D
<1> QED BY <1>2, <1>3, <1>4, <1>5, InstanceOperators DEF Def!ItemsAreSound, D

LEMMA RegistersOfSound ==
  ASSUME NEW D, Def(D)!ItemsAreSound
  PROVE  Registers(D, Def(D)!GetMaxM, Def(D)!GetCountInputs, Def(D)!GetCountOutputs)!RegistersFit
<1> DEFINE I == {it.i : it \in D}
           J == {it.j : it \in D}
           P == UNION {it.powersPolynom : it \in D}
<1>0. /\ D # {} /\ IsFiniteSet(D)
      /\ \A it \in D : /\ it.i \in Nat \ {0} /\ it.j \in Nat \ {0}
                       /\ it.powersPolynom \in SUBSET Nat /\ IsFiniteSet(it.powersPolynom)
  BY InstanceOperators DEF Def!ItemsAreSound
<1>1. IsFiniteSet(I)
  <2> DEFINE of == [it \in D |-> it.i]
  <2>1. DOMAIN of = D /\ I = {of[it] : it \in D}
    OBVIOUS
  <2> HIDE DEF of
  <2>2. IsFiniteSet({of[it] : it \in D})
    BY <1>0, <2>1, FiniteImage
  <2> QED BY <2>1, <2>2
<1>2. IsFiniteSet(J)
  <2> DEFINE of == [it \in D |-> it.j]
  <2>1. DOMAIN of = D /\ J = {of[it] : it \in D}
    OBVIOUS
  <2> HIDE DEF of
  <2>2. IsFiniteSet({of[it] : it \in D})
    BY <1>0, <2>1, FiniteImage
  <2> QED BY <2>1, <2>2
<1>3. IsFiniteSet(P)
  <2> DEFINE Q == {it.powersPolynom : it \in D}
         of == [it \in D |-> it.powersPolynom]
  <2>1. DOMAIN of = D /\ Q = {of[it] : it \in D}
    OBVIOUS
  <2>2. IsFiniteSet(Q)
    <3> HIDE DEF of
    <3>1. IsFiniteSet({of[it] : it \in D})
      BY <1>0, <2>1, FiniteImage
    <3> QED BY <2>1, <3>1
  <2>3. \A powers \in Q : IsFiniteSet(powers)
    BY <1>0
  <2> HIDE DEF Q
  <2>4. IsFiniteSet(UNION Q)
    BY <2>2, <2>3, FS_UNION
  <2> QED BY <2>4 DEF Q
<1>4. IsFiniteSet({0} \cup P)
  BY <1>3, FS_Union, FS_Singleton
<1>5. I \in SUBSET Nat /\ J \in SUBSET Nat /\ {0} \cup P \in SUBSET Nat /\ I # {} /\ J # {}
  BY <1>0
<1>6. Max(I) \in Nat /\ \A it \in D : it.i =< Max(I)
  <2>1. Max(I) \in I /\ \A y \in I : Max(I) >= y
    BY <1>1, <1>5, MaxOfNaturals
  <2>2. \A it \in D : it.i \in I
    OBVIOUS
  <2> HIDE DEF I
  <2> QED BY <1>5, <2>1, <2>2
<1>7. Max(J) \in Nat /\ \A it \in D : it.j =< Max(J)
  <2>1. Max(J) \in J /\ \A y \in J : Max(J) >= y
    BY <1>2, <1>5, MaxOfNaturals
  <2>2. \A it \in D : it.j \in J
    OBVIOUS
  <2> HIDE DEF J
  <2> QED BY <1>5, <2>1, <2>2
<1>8. Max({0} \cup P) \in Nat /\ \A it \in D : \A p \in it.powersPolynom : p =< Max({0} \cup P)
  <2>1. Max({0} \cup P) \in {0} \cup P /\ \A y \in {0} \cup P : Max({0} \cup P) >= y
    BY <1>4, <1>5, MaxOfNaturals
  <2>2. \A it \in D : \A p \in it.powersPolynom : p \in {0} \cup P
    OBVIOUS
  <2> HIDE DEF P
  <2> QED BY <1>5, <2>1, <2>2
<1>9. /\ Def(D)!GetCountInputs = Max(I) /\ Def(D)!GetCountOutputs = Max(I) + Max(J)
      /\ Def(D)!GetMaxM = Max({0} \cup P)
  BY InstanceOperators DEF Def!GetCountInputs, Def!GetCountOutputs, Def!GetCountCheckOutputs, Def!GetMaxM
<1>10. \A it \in D : it.i \in Nat /\ it.j \in Nat
  BY <1>0
<1> DEFINE greatestI == Max(I)
           greatestJ == Max(J)
           greatestP == Max({0} \cup P)
<1>11. Registers(D, greatestP, greatestI, greatestI + greatestJ)!RegistersFit
  <2>1. greatestI \in Nat /\ greatestJ \in Nat /\ greatestP \in Nat
    BY <1>6, <1>7, <1>8
  <2>2. \A it \in D : /\ it.i =< greatestI /\ it.j =< greatestJ
                      /\ \A p \in it.powersPolynom : p =< greatestP
    BY <1>6, <1>7, <1>8
  <2> HIDE DEF greatestI, greatestJ, greatestP
  <2> QED BY <2>1, <2>2, <1>10 DEF Registers!RegistersFit
<1> HIDE DEF I, J, P
<1> QED BY <1>9, <1>11

-----------------------------------------------------------------------------
(***************************************************************************)
(* Reading a file line by line.  From a well-formed file the items read so *)
(* far are the meant ones of the lines so far, and the reader knows how    *)
(* the branches are numbered as soon as it has met an item.                *)
(***************************************************************************)
LinesBefore(file, n) == {k \in ItemLines(file) : k < n}

MeantBefore(file, n) == {MeantItem(file, k) : k \in LinesBefore(file, n)}

FileInvOf(t) ==
  /\ stage[t] \notin Over => \E u \in Tools : words[t] \in CommandLines[u] \cup {DefaultArgs}
  /\ stage[t] \in {"skip", "read"} =>
       line[t] \in Nat \ {0} /\ items[t] \in Seq(Range(items[t]))
  /\ stage[t] = "skip" => items[t] = <<>> /\ branchIndexZeroBased[t] = FALSE
  /\ (stage[t] = "read" /\ WellFormed(FileOf(words[t]))) =>
       /\ Definition(t) = MeantBefore(FileOf(words[t]), line[t])
       /\ branchIndexZeroBased[t] =
            (HasZero(FileOf(words[t])) /\ LinesBefore(FileOf(words[t]), line[t]) # {})
  /\ (stage[t] \notin Over \cup {"skip", "read"} /\ WellFormed(FileOf(words[t]))) =>
       Definition(t) = Meant(FileOf(words[t]))

FileInv ==
  /\ OnTools(line) /\ OnTools(branchIndexZeroBased)
  /\ \A t \in Tools : FileInvOf(t)

OthersRead(t) ==
  /\ Others(t)
  /\ OnTools(line)' /\ OnTools(branchIndexZeroBased)'
  /\ \A u \in Tools \ {t} :
       line'[u] = line[u] /\ branchIndexZeroBased'[u] = branchIndexZeroBased[u]

LEMMA OthersReadOn ==
  ASSUME NEW t \in Tools, FileInv, OthersRead(t), FileInvOf(t)'
  PROVE  FileInv'
<1>1. ASSUME NEW u \in Tools \ {t}
      PROVE  FileInvOf(u)'
  <2>1. /\ stage'[u] = stage[u] /\ words'[u] = words[u] /\ items'[u] = items[u]
        /\ line'[u] = line[u] /\ branchIndexZeroBased'[u] = branchIndexZeroBased[u]
    BY DEF OthersRead, Others
  <2>2. Definition(u)' = Definition(u)
    BY <2>1 DEF Definition, Range
  <2>3. FileInvOf(u)
    BY DEF FileInv
  <2>4. /\ stage[u]' = stage[u] /\ words[u]' = words[u] /\ items[u]' = items[u]
        /\ line[u]' = line[u] /\ branchIndexZeroBased[u]' = branchIndexZeroBased[u]
    BY <2>1
  <2> QED BY <2>2, <2>3, <2>4 DEF FileInvOf
<1> QED BY <1>1 DEF FileInv, OthersRead

\* The file of a run is one.
LEMMA FileOfRun ==
  ASSUME NEW t \in Tools, FileInvOf(t), stage[t] \notin Over
  PROVE  IsFile(FileOf(words[t]))
BY FilesAssumption DEF FileInvOf

\* One line with an item: the reader takes its indexes as they are meant.
LEMMA ReadsAsMeant ==
  ASSUME NEW file, IsFile(file), WellFormed(file), NEW n \in ItemLines(file), NEW zeroBased,
         zeroBased = (HasZero(file) /\ LinesBefore(file, n) # {})
  PROVE  /\ ReadItem(file[n], zeroBased).item = MeantItem(file, n)
         /\ ReadItem(file[n], zeroBased).branchIndexZeroBased = HasZero(file)
<1>1. file[n].i \in Nat /\ file[n].j \in Nat
  BY DEF WellFormed
<1>2. CASE ~ HasZero(file)
  <2>1. file[n].i # 0 /\ file[n].j # 0
    BY <1>2 DEF HasZero
  <2>2. ~ zeroBased /\ zeroBased \in BOOLEAN
    BY <1>2
  <2>3. ReadItem(file[n], zeroBased).branchIndexZeroBased = FALSE
    BY <2>1, <2>2 DEF ReadItem
  <2>4. ReadItem(file[n], zeroBased).item = MeantItem(file, n)
    <3>1. MeantItem(file, n) = [i |-> file[n].i, j |-> file[n].j,
                                powersPolynom |-> file[n].powers]
      BY <1>1, <1>2 DEF MeantItem
    <3> QED BY <2>1, <2>2, <3>1 DEF ReadItem
  <2>5. HasZero(file) = FALSE
    BY <1>2 DEF HasZero
  <2> QED BY <2>3, <2>4, <2>5
<1>3. CASE HasZero(file)
  <2>1. zeroBased \/ file[n].i = 0
    <3> SUFFICES ASSUME LinesBefore(file, n) = {} PROVE file[n].i = 0
      BY <1>3
    <3>1. ItemLines(file) \in SUBSET (Nat \ {0})
      BY FiniteItemLines
    <3>2. \A k \in ItemLines(file) : n =< k
      BY <3>1 DEF LinesBefore
    <3>3. Min(ItemLines(file)) = n
      <4>1. \A x \in ItemLines(file) :
              (\A y \in ItemLines(file) : x =< y) => x = n
        BY <3>1, <3>2
      <4> QED BY <3>2, <4>1 DEF Min
    <3> QED BY <1>3, <3>3 DEF WellFormed
  <2> QED BY <1>1, <1>3, <2>1 DEF ReadItem, MeantItem
<1> QED BY <1>2, <1>3

LEMMA OneLineMore ==
  ASSUME NEW file, IsFile(file), NEW n \in ItemLines(file)
  PROVE  /\ LinesBefore(file, n + 1) = LinesBefore(file, n) \cup {n}
         /\ MeantBefore(file, n + 1) = MeantBefore(file, n) \cup {MeantItem(file, n)}
<1>1. LinesBefore(file, n + 1) = LinesBefore(file, n) \cup {n}
  BY FiniteItemLines DEF LinesBefore
<1> QED BY <1>1 DEF MeantBefore

LEMMA RangeOfAppend ==
  ASSUME NEW seq, seq \in Seq(Range(seq)), NEW item
  PROVE  /\ Range(Append(seq, item)) = Range(seq) \cup {item}
         /\ Append(seq, item) \in Seq(Range(Append(seq, item)))
<1> DEFINE S == Range(seq) \cup {item}
<1>1. seq \in Seq(S) /\ Len(seq) \in Nat /\ DOMAIN seq = 1 .. Len(seq)
  <2>1. Range(seq) \subseteq S
    OBVIOUS
  <2>2. \A n \in 1 .. Len(seq) : seq[n] \in S
    BY <2>1 
  <2> HIDE DEF S
  <2> QED BY <2>2
<1>2. /\ Append(seq, item) \in Seq(S) /\ Len(Append(seq, item)) = Len(seq) + 1
      /\ Append(seq, item)[Len(seq) + 1] = item
      /\ \A n \in 1 .. Len(seq) : Append(seq, item)[n] = seq[n]
  <2> HIDE DEF S
  <2>1. item \in S
    BY DEF S
  <2> QED BY <1>1, <2>1
<1>3. DOMAIN Append(seq, item) = 1 .. (Len(seq) + 1)
  BY <1>2
<1>4. Range(Append(seq, item)) = S
  <2>1. \A n \in DOMAIN Append(seq, item) : Append(seq, item)[n] \in S
    BY <1>1, <1>2, <1>3 DEF Range
  <2>2. \A x \in Range(seq) : \E n \in DOMAIN Append(seq, item) : x = Append(seq, item)[n]
    BY <1>1, <1>2, <1>3 DEF Range
  <2>3. Len(seq) + 1 \in DOMAIN Append(seq, item)
    BY <1>1, <1>3
  <2> QED BY <1>2, <2>1, <2>2, <2>3 DEF Range
<1> QED BY <1>2, <1>4

\* The steps behind the reading leave everything of it alone, or end the run.
LEMMA OverStep ==
  ASSUME NEW t \in Tools, stage'[t] \in Over
  PROVE  FileInvOf(t)'
BY DEF FileInvOf, Over

LEMMA LaterStep ==
  ASSUME NEW t \in Tools, FileInvOf(t), UNCHANGED <<words, line, branchIndexZeroBased, items>>,
         stage[t] \notin Over \cup {"skip", "read"}, stage'[t] \notin {"skip", "read"}
  PROVE  FileInvOf(t)'
<1>1. Definition(t)' = Definition(t)
  BY DEF Definition, Range
<1> QED BY <1>1 DEF FileInvOf

LEMMA StartReading ==
  ASSUME NoiseInv, FileInv, NEW t \in Tools, NEW argv \in CommandLines[t], Start(t, argv)
  PROVE  FileInvOf(t)'
<1> DEFINE args == IF Len(argv) = 1 THEN DefaultArgs ELSE argv
<1>1. /\ stage'[t] \in {"skip", "read"} /\ words'[t] = args /\ line'[t] = 1
      /\ branchIndexZeroBased'[t] = FALSE /\ items'[t] = <<>>
  BY DEF Start, GoTo, NoiseInv, Shape, OnTools, FileInv
<1>2. args \in CommandLines[t] \cup {DefaultArgs}
  OBVIOUS
<1>3. <<>> \in Seq(Range(<<>>)) /\ Range(<<>>) = {}
  BY DEF Range
<1>4. LinesBefore(FileOf(args), 1) = {} /\ MeantBefore(FileOf(args), 1) = {}
  <2>1. LinesBefore(FileOf(args), 1) = {}
    <3>1. IsFile(FileOf(args))
      BY <1>2, FilesAssumption
    <3> QED BY <3>1, FiniteItemLines DEF LinesBefore
  <2> QED BY <2>1 DEF MeantBefore
<1>5. Definition(t)' = {}
  BY <1>1, <1>3 DEF Definition
<1> HIDE DEF args
<1>6. (HasZero(FileOf(args)) /\ LinesBefore(FileOf(args), 1) # {}) = FALSE
  BY <1>4
<1>7. items'[t] \in Seq(Range(items'[t]))
  BY <1>1, <1>3
<1>8. \E u \in Tools : words'[t] \in CommandLines[u] \cup {DefaultArgs}
  BY <1>1, <1>2
<1>9. /\ Definition(t)' = MeantBefore(FileOf(words'[t]), line'[t])
      /\ branchIndexZeroBased'[t] =
           (HasZero(FileOf(words'[t])) /\ LinesBefore(FileOf(words'[t]), line'[t]) # {})
  <2>1. Definition(t)' = MeantBefore(FileOf(words'[t]), line'[t])
    BY <1>1, <1>4, <1>5
  <2>2. (HasZero(FileOf(words'[t])) /\ LinesBefore(FileOf(words'[t]), line'[t]) # {}) = FALSE
    BY <1>1, <1>6
  <2> QED BY <1>1, <2>1, <2>2
<1>10. stage'[t] \in {"skip", "read"} /\ line'[t] \in Nat \ {0}
  BY <1>1
<1>11. items'[t] = <<>> /\ branchIndexZeroBased'[t] = FALSE
  BY <1>1
<1> QED BY <1>7, <1>8, <1>9, <1>10, <1>11 DEF FileInvOf

LEMMA SkipStep ==
  ASSUME NoiseInv, FileInv, NEW t \in Tools, SkipRawLine(t)
  PROVE  FileInvOf(t)'
<1> DEFINE file == FileOf(words[t])
           n == line[t]
<1>1. /\ stage[t] = "skip" /\ CurrentLine(t) # EndOfFile
      /\ UNCHANGED <<words, branchIndexZeroBased, items>>
  BY DEF SkipRawLine
<1>2. FileInvOf(t) /\ n \in Nat \ {0} /\ items[t] = <<>> /\ branchIndexZeroBased[t] = FALSE
  BY <1>1 DEF FileInv, FileInvOf
<1>3. IsFile(file)
  BY <1>1, <1>2, FileOfRun DEF Over
<1>4. CASE CurrentLine(t) = SminLine
  <2>1. stage'[t] = "read" /\ line'[t] = n + 2
    BY <1>4 DEF SkipRawLine, GoTo, NoiseInv, Shape, OnTools, FileInv
  <2>2. n \in 1 .. Len(file) /\ file[n] = SminLine
    <3>1. n =< Len(file)
      BY <1>1 DEF CurrentLine
    <3>2. Len(file) \in Nat
      BY <1>3 DEF IsFile
    <3> QED BY <1>2, <1>4, <3>1, <3>2 DEF CurrentLine
  <2>3. WellFormed(file) => LinesBefore(file, n + 2) = {}
    <3> SUFFICES ASSUME WellFormed(file), NEW k \in ItemLines(file), k < n + 2 PROVE FALSE
      BY DEF LinesBefore
    <3>1. k > n + 1
      BY <2>2 DEF WellFormed
    <3>2. k \in Nat
      BY <1>3, FiniteItemLines
    <3> QED BY <1>2, <3>1, <3>2
  <2>4. WellFormed(file) => MeantBefore(file, n + 2) = {}
    BY <2>3 DEF MeantBefore
  <2>5. Definition(t)' = {}
    <3>1. items'[t] = <<>>
      BY <1>1, <1>2
    <3> QED BY <3>1 DEF Definition, Range
  <2>6. line'[t] \in Nat \ {0}
    BY <1>2, <2>1
  <2>7. items'[t] \in Seq(Range(items'[t]))
    BY <1>1, <1>2 DEF Range
  <2>8. words'[t] = words[t] /\ branchIndexZeroBased'[t] = FALSE
    BY <1>1, <1>2
  <2> HIDE DEF n
  <2> QED BY <1>1, <1>2, <2>1, <2>3, <2>4, <2>5, <2>6, <2>7, <2>8 DEF FileInvOf, Over
<1>5. CASE CurrentLine(t) # SminLine
  <2>1. stage' = stage /\ line'[t] = n + 1
    BY <1>5 DEF SkipRawLine, FileInv, OnTools
  <2>2. line'[t] \in Nat \ {0}
    BY <1>2, <2>1
  <2> QED BY <1>1, <1>2, <2>1, <2>2 DEF FileInvOf, Over
<1> QED BY <1>4, <1>5

LEMMA ReadStep ==
  ASSUME NoiseInv, FileInv, NEW t \in Tools, ReadDefinition(t)
  PROVE  FileInvOf(t)'
<1> DEFINE file == FileOf(words[t])
           n == line[t]
           read == ReadItem(CurrentLine(t), branchIndexZeroBased[t])
<1>1. /\ stage[t] = "read" /\ CurrentLine(t).holds = "item"
      /\ UNCHANGED <<stage, words>>
      /\ items'[t] = Append(items[t], read.item)
      /\ branchIndexZeroBased'[t] = read.branchIndexZeroBased
      /\ line'[t] = n + 1
  BY DEF ReadDefinition, NoiseInv, Shape, OnTools, FileInv
<1>2. FileInvOf(t) /\ n \in Nat \ {0} /\ items[t] \in Seq(Range(items[t]))
  BY <1>1 DEF FileInv, FileInvOf
<1>3. IsFile(file)
  BY <1>1, <1>2, FileOfRun DEF Over
<1>4. n \in ItemLines(file) /\ CurrentLine(t) = file[n]
  <2>1. n =< Len(file)
    BY <1>1 DEF CurrentLine, EndOfFile
  <2>2. Len(file) \in Nat
    BY <1>3 DEF IsFile
  <2> QED BY <1>1, <1>2, <2>1, <2>2 DEF CurrentLine, ItemLines
<1>5. /\ Range(items'[t]) = Range(items[t]) \cup {read.item}
      /\ items'[t] \in Seq(Range(items'[t]))
  <2> HIDE DEF read
  <2>1. /\ Range(Append(items[t], read.item)) = Range(items[t]) \cup {read.item}
        /\ Append(items[t], read.item) \in Seq(Range(Append(items[t], read.item)))
    BY <1>2, RangeOfAppend
  <2> QED BY <1>1, <2>1
<1>6. Definition(t)' = Definition(t) \cup {read.item}
  BY <1>5 DEF Definition
<1>7. ASSUME WellFormed(file)
      PROVE  /\ Definition(t)' = MeantBefore(file, n + 1)
             /\ branchIndexZeroBased'[t] = (HasZero(file) /\ LinesBefore(file, n + 1) # {})
  <2>1. /\ Definition(t) = MeantBefore(file, n)
        /\ branchIndexZeroBased[t] = (HasZero(file) /\ LinesBefore(file, n) # {})
    BY <1>1, <1>2, <1>7 DEF FileInvOf
  <2>2. read.item = MeantItem(file, n) /\ read.branchIndexZeroBased = HasZero(file)
    <3> HIDE DEF n, file
    <3> QED BY <1>3, <1>4, <1>7, <2>1, ReadsAsMeant
  <2>3. /\ LinesBefore(file, n + 1) = LinesBefore(file, n) \cup {n}
        /\ MeantBefore(file, n + 1) = MeantBefore(file, n) \cup {MeantItem(file, n)}
    <3> HIDE DEF n, file
    <3> QED BY <1>3, <1>4, OneLineMore
  <2>4. HasZero(file) \in BOOLEAN
    BY DEF HasZero
  <2>5. LinesBefore(file, n + 1) # {}
    BY <2>3
  <2> HIDE DEF n, file, read
  <2>6. Definition(t)' = MeantBefore(file, n + 1)
    BY <1>6, <2>1, <2>2, <2>3
  <2>7. branchIndexZeroBased'[t] = HasZero(file)
    BY <1>1, <2>2
  <2> QED BY <2>4, <2>5, <2>6, <2>7
<1>8. line'[t] \in Nat \ {0}
  BY <1>1, <1>2
<1>9. words'[t] = words[t] /\ stage'[t] = "read"
  BY <1>1
<1> HIDE DEF n, read
<1> QED BY <1>1, <1>2, <1>5, <1>7, <1>8, <1>9 DEF FileInvOf, Over

LEMMA EndStep ==
  ASSUME NoiseInv, FileInv, NEW t \in Tools, EndDefinitions(t)
  PROVE  FileInvOf(t)'
<1> DEFINE file == FileOf(words[t])
           n == line[t]
<1>1. /\ stage[t] = "read" /\ CurrentLine(t) \in {EndOfFile, TimeLine}
      /\ stage'[t] \notin Over \cup {"skip", "read"}
      /\ UNCHANGED <<words, items>>
  BY DEF EndDefinitions, AfterDefinitions, GoTo, NoiseInv, Shape, OnTools, Over
<1>2. FileInvOf(t) /\ n \in Nat \ {0}
  BY <1>1 DEF FileInv, FileInvOf
<1>3. IsFile(file)
  BY <1>1, <1>2, FileOfRun DEF Over
<1>4. ASSUME WellFormed(file)
      PROVE  \A k \in ItemLines(file) : k < n
  <2> TAKE k \in ItemLines(file)
  <2>1. Len(file) \in Nat /\ k \in 1 .. Len(file)
    BY <1>3 DEF IsFile, ItemLines
  <2>2. CASE n > Len(file)
    BY <1>2, <2>1, <2>2
  <2>3. CASE n =< Len(file)
    <3>1. n \in DOMAIN file /\ n \in 1 .. Len(file) /\ CurrentLine(t) = file[n]
      BY <1>2, <1>3, <2>1, <2>3 DEF CurrentLine, IsFile
    <3>2. file[n].holds # "end"
      <4>1. \/ file[n] \in {SminLine, TimeLine, OtherLine}
            \/ file[n] = ItemLine(file[n].i, file[n].j, file[n].powers)
        BY <1>3, <3>1 DEF IsFile
      <4>2. CASE file[n] \in {SminLine, TimeLine, OtherLine}
        BY <4>2 DEF SminLine, TimeLine, OtherLine
      <4>3. CASE file[n] = ItemLine(file[n].i, file[n].j, file[n].powers)
        <5>1. \A i, j, powers : ItemLine(i, j, powers).holds = "item"
          BY DEF ItemLine
        <5> QED BY <4>3, <5>1
      <4> QED BY <4>1, <4>2, <4>3
    <3>3. file[n] = TimeLine
      BY <1>1, <3>1, <3>2 DEF EndOfFile
    <3> QED BY <1>4, <3>1, <3>3 DEF WellFormed
  <2> QED BY <1>2, <2>1, <2>2, <2>3
<1>5. WellFormed(file) => Definition(t)' = Meant(file)
  <2> SUFFICES ASSUME WellFormed(file) PROVE Definition(t)' = Meant(file)
    OBVIOUS
  <2>1. Definition(t) = MeantBefore(file, n)
    BY <1>1, <1>2 DEF FileInvOf
  <2>2. LinesBefore(file, n) = ItemLines(file)
    BY <1>4 DEF LinesBefore
  <2>3. MeantBefore(file, n) = Meant(file)
    BY <2>2, MeantItems DEF MeantBefore
  <2>4. Definition(t)' = Definition(t)
    BY <1>1 DEF Definition, Range
  <2> QED BY <2>1, <2>3, <2>4
<1>6. words'[t] = words[t]
  BY <1>1
<1> QED BY <1>1, <1>2, <1>5, <1>6 DEF FileInvOf, Over

LEMMA SetUpReading ==
  ASSUME NoiseInv, FileInv, NEW t \in Tools, SetUp(t)
  PROVE  FileInvOf(t)' /\ OnTools(line)' /\ OnTools(branchIndexZeroBased)'
         /\ \A u \in Tools \ {t} :
              line'[u] = line[u] /\ branchIndexZeroBased'[u] = branchIndexZeroBased[u]
<1> USE DEF OnTools
<1>0. OnTools(stage) /\ OnTools(line) /\ OnTools(branchIndexZeroBased) /\ FileInvOf(t)
  BY DEF NoiseInv, Shape, FileInv
<1>1. CASE SkipRawLine(t)
  BY <1>0, <1>1, SkipStep DEF SkipRawLine
<1>2. CASE ReadDefinition(t)
  BY <1>0, <1>2, ReadStep DEF ReadDefinition
<1>3. CASE EndDefinitions(t)
  BY <1>0, <1>3, EndStep DEF EndDefinitions
<1>4. CASE FailOnLine(t)
  <2>1. stage'[t] \in Over
    BY <1>0, <1>4 DEF FailOnLine, GoTo, Over
  <2> QED BY <1>0, <1>4, <2>1, OverStep DEF FailOnLine
<1>5. ASSUME UNCHANGED <<words, line, branchIndexZeroBased, items>>,
             stage[t] \in {"load", "integrate", "open", "write", "table", "check"},
             stage'[t] \in {"integrate", "open", "write", "check", "simulate", "refused"}
      PROVE  FileInvOf(t)' /\ OnTools(line)' /\ OnTools(branchIndexZeroBased)'
             /\ \A u \in Tools \ {t} :
                  line'[u] = line[u] /\ branchIndexZeroBased'[u] = branchIndexZeroBased[u]
  <2>1. FileInvOf(t)'
    BY <1>0, <1>5, LaterStep DEF Over
  <2> QED BY <1>0, <1>5, <2>1
<1>6. CASE LoadCachedSNRdB(t)
  BY <1>0, <1>5, <1>6 DEF LoadCachedSNRdB, GoTo
<1>7. CASE ComputeQFunc(t)
  BY <1>0, <1>5, <1>7 DEF ComputeQFunc, GoTo
<1>8. CASE OpenCache(t)
  BY <1>0, <1>5, <1>8 DEF OpenCache, GoTo
<1>9. CASE SaveCachedSNRdB(t)
  BY <1>0, <1>5, <1>9 DEF SaveCachedSNRdB, GoTo
<1>10. CASE ReadTable(t)
  BY <1>0, <1>5, <1>10 DEF ReadTable, GoTo
<1>11. CASE Check(t)
  BY <1>0, <1>5, <1>11 DEF Check, GoTo
<1> QED
  BY <1>1, <1>2, <1>3, <1>4, <1>6, <1>7, <1>8, <1>9, <1>10, <1>11 DEF SetUp

LEMMA NextReading ==
  ASSUME NoiseInv, FileInv, [Next]_vars
  PROVE  FileInv'
<1>0. OnTools(stage) /\ OnTools(line) /\ OnTools(branchIndexZeroBased)
  BY DEF NoiseInv, Shape, FileInv
<1>1. ASSUME NEW t \in Tools, NEW argv \in CommandLines[t], Start(t, argv)
      PROVE  FileInv'
  <2>1. FileInvOf(t)'
    BY <1>1, StartReading
  <2>2. OthersRead(t)
    BY <1>0, <1>1, OthersOf DEF Start, OthersRead, OnTools
  <2> QED BY <2>1, <2>2, OthersReadOn
<1>2. ASSUME NEW t \in Tools, SetUp(t)
      PROVE  FileInv'
  <2>1. FileInvOf(t)' /\ OthersRead(t)
    BY <1>2, SetUpReading, OthersOf DEF OthersRead
  <2> QED BY <2>1, OthersReadOn
<1>3. ASSUME NEW t \in Tools, SaveResults(t) \/ Clean(t) \/ Kill(t)
      PROVE  FileInv'
  <2>1. OthersRead(t)
    BY <1>0, <1>3, OthersOf DEF SaveResults, Clean, Kill, Leave, OthersRead, OnTools
  <2>2. \/ stage'[t] \in Over
        \/ /\ stage[t] = "simulate" /\ stage'[t] = "clean"
           /\ UNCHANGED <<words, line, branchIndexZeroBased, items>>
    BY <1>0, <1>3 DEF SaveResults, Clean, Kill, Leave, GoTo, Over, OnTools
  <2>3. FileInvOf(t)
    BY DEF FileInv
  <2>4. FileInvOf(t)'
    BY <2>2, <2>3, OverStep, LaterStep DEF Over
  <2> QED BY <2>1, <2>4, OthersReadOn
<1>4. CASE UNCHANGED vars
  <2>1. UNCHANGED <<stage, words, line, branchIndexZeroBased, items>>
    BY <1>4 DEF vars, toolVars
  <2>2. ASSUME NEW t \in Tools
        PROVE  FileInvOf(t)'
    <3>1. Definition(t)' = Definition(t)
      BY <2>1 DEF Definition, Range
    <3> QED BY <2>1, <3>1 DEF FileInv, FileInvOf
  <2> QED BY <1>0, <2>1, <2>2 DEF FileInv, OnTools
<1> QED BY <1>1, <1>2, <1>3, <1>4 DEF Next

(***************************************************************************)
(* Whatever the command line and the file, a run that comes to simulate    *)
(* has built its coder from the items that the file means, if the file is  *)
(* well-formed: a sound definition, registers that fit it, and, with       *)
(* several sections, a latency that is the delay of them all.              *)
(***************************************************************************)
THEOREM CoderFitsItsFile ==
  Spec => []CoderIsSetUp
<1>1. Init => NoiseInv /\ FileInv
  <2> SUFFICES ASSUME Init PROVE NoiseInv /\ FileInv
    OBVIOUS
  <2>1. NoiseInv
    BY InitNoise
  <2>2. \A t \in Tools : stage[t] = "off"
    BY DEF Init
  <2>3. OnTools(line) /\ OnTools(branchIndexZeroBased)
    BY DEF Init, OnTools
  <2> QED BY <2>1, <2>2, <2>3 DEF FileInv, FileInvOf, Over
<1>2. (NoiseInv /\ FileInv) /\ [Next]_vars => (NoiseInv /\ FileInv)'
  BY NextNoise, NextReading
<1>3. FileInv => CoderIsSetUp
  <2> SUFFICES ASSUME FileInv, NEW t \in Tools, stage[t] = "simulate",
                      DecoderType(words[t]) # 0, WellFormed(FileOf(words[t]))
               PROVE  LET definition == Definition(t)
                          sections == CountSections(words[t])
                      IN  /\ definition = Meant(FileOf(words[t]))
                          /\ Def(definition)!ItemsAreSound
                          /\ Registers(definition, m(t), k0(t), n0(t))!RegistersFit
                          /\ (DecoderType(words[t]) = 2 /\ sections > 0)
                               => DecoderLatency(t) = m(t) * sections
    BY DEF CoderIsSetUp
  <2>1. FileInvOf(t)
    BY DEF FileInv
  <2>2. Definition(t) = Meant(FileOf(words[t]))
    BY <2>1 DEF FileInvOf, Over
  <2>3. IsFile(FileOf(words[t]))
    BY <2>1, FileOfRun DEF Over
  <2>4. Def(Definition(t))!ItemsAreSound
    BY <2>2, <2>3, MeantIsSound
  <2>5. items[t] # <<>>
    <3>1. Definition(t) # {}
      <4>1. PICK n \in ItemLines(FileOf(words[t])) : TRUE
        BY DEF WellFormed
      <4>2. Meant(FileOf(words[t])) =
              {MeantItem(FileOf(words[t]), k) : k \in ItemLines(FileOf(words[t]))}
        BY MeantItems
      <4> QED BY <2>2, <4>1, <4>2
    <3> QED BY <3>1 DEF Definition, Range
  <2>6. /\ m(t) = Def(Definition(t))!GetMaxM
        /\ k0(t) = Def(Definition(t))!GetCountInputs
        /\ n0(t) = Def(Definition(t))!GetCountOutputs
    BY <2>5 DEF m, k0, n0
  <2>7. Registers(Definition(t), m(t), k0(t), n0(t))!RegistersFit
    BY <2>4, <2>6, RegistersOfSound
  <2>8. DecoderType(words[t]) = 2 => DecoderLatency(t) = m(t) * CountSections(words[t])
    BY DEF DecoderLatency
  <2> QED BY <2>2, <2>4, <2>7, <2>8
<1> QED BY <1>1, <1>2, <1>3, PTL DEF Spec

-----------------------------------------------------------------------------
(***************************************************************************)
(* The way through the files: what a run knows of its file on the way.     *)
(***************************************************************************)
\* The indexes of a file, as atoi reads them from digits.
IndexesAreNatural(file) == \A n \in ItemLines(file) : file[n].i \in Nat /\ file[n].j \in Nat

\* The items that a run has read count from 1, whether or not there is a zero among
\* their indexes.
CountsFromOne(definition) ==
  /\ IsFiniteSet(definition)
  /\ \A it \in definition : it.i \in Nat \ {0} /\ it.j \in Nat \ {0}

\* The run has read an item.
HasRead(t) == items[t] # <<>> /\ Definition(t) # {}

\* What a run knows of its file: nothing in front of the line that it skips to is the one
\* with "Smin", and it has read an item unless the definition is over before the first.
WayInvOf(t) ==
  /\ stage[t] \in {"skip", "read"} => line[t] \in 1 .. Len(FileOf(words[t])) + 2
  /\ stage[t] = "skip" =>
       /\ UseRawResultData(words[t])
       /\ \A k \in 1 .. line[t] - 1 : FileOf(words[t])[k] # SminLine
  /\ stage[t] = "read" => HasRead(t) \/ line[t] = FirstLine(t)
  /\ stage[t] \in {"load", "integrate"} => HasRead(t) \/ NoItemIsRead(t)
  /\ stage[t] = "table" => GivenP0(words[t]) = Zero /\ P0ComputingMode(words[t]) = 1
  /\ (stage[t] \notin Over /\ IndexesAreNatural(FileOf(words[t]))) => CountsFromOne(Definition(t))

WayInv == \A t \in Tools : WayInvOf(t)

LEMMA SameFile ==
  ASSUME NEW t \in Tools, words'[t] = words[t], snrdB'[t] = snrdB[t]
  PROVE  /\ FirstLine(t)' = FirstLine(t)
         /\ NoItemIsRead(t)' <=> NoItemIsRead(t)
         /\ Endless(t)' <=> Endless(t)
<1>1. FirstLine(t)' = FirstLine(t)
  BY DEF FirstLine
<1>2. NoItemIsRead(t)' <=> NoItemIsRead(t)
  BY <1>1 DEF NoItemIsRead
<1> QED BY <1>1, <1>2 DEF Endless

\* A line is at its place in the file, and what holds something is no end.
LEMMA LineOfFile ==
  ASSUME NEW t \in Tools, IsFile(FileOf(words[t])), line[t] \in Nat \ {0}
  PROVE  /\ Len(FileOf(words[t])) \in Nat
         /\ DOMAIN FileOf(words[t]) = 1 .. Len(FileOf(words[t]))
         /\ IF line[t] \in 1 .. Len(FileOf(words[t]))
            THEN /\ CurrentLine(t) = FileOf(words[t])[line[t]]
                 /\ CurrentLine(t) # EndOfFile
                 /\ CurrentLine(t).holds = "item" \/ CurrentLine(t) \in {TimeLine, OtherLine, SminLine}
            ELSE /\ CurrentLine(t) = EndOfFile
                 /\ CurrentLine(t).holds # "item"
<1> DEFINE file == FileOf(words[t])
           n == line[t]
<1>1. Len(file) \in Nat /\ DOMAIN file = 1 .. Len(file)
  BY DEF IsFile
<1>2. CASE n \in 1 .. Len(file)
  <2>1. CurrentLine(t) = file[n] /\ n \in DOMAIN file
    BY <1>1, <1>2 DEF CurrentLine
  <2>2. \/ file[n] \in {SminLine, TimeLine, OtherLine}
        \/ file[n] = ItemLine(file[n].i, file[n].j, file[n].powers)
    BY <2>1 DEF IsFile
  <2>3. CASE file[n] \in {SminLine, TimeLine, OtherLine}
    BY <1>1, <1>2, <2>1, <2>3 DEF SminLine, TimeLine, OtherLine, EndOfFile
  <2>4. CASE file[n] = ItemLine(file[n].i, file[n].j, file[n].powers)
    <3>1. \A i, j, powers : ItemLine(i, j, powers).holds = "item"
      BY DEF ItemLine
    <3>2. CurrentLine(t).holds = "item"
      BY <2>1, <2>4, <3>1
    <3>3. CurrentLine(t) # EndOfFile
      BY <3>2 DEF EndOfFile
    <3> QED BY <1>1, <1>2, <2>1, <3>2, <3>3
  <2> QED BY <2>2, <2>3, <2>4
<1>3. CASE n \notin 1 .. Len(file)
  <2>1. ~ n =< Len(file)
    BY <1>1, <1>3
  <2>2. CurrentLine(t) = EndOfFile
    BY <2>1 DEF CurrentLine
  <2> QED BY <1>1, <1>3, <2>2 DEF EndOfFile
<1> QED BY <1>2, <1>3

\* The steps of a run up to the simulation.
Skips(t) ==
  /\ stage[t] = "skip" /\ CurrentLine(t) # EndOfFile /\ items'[t] = items[t]
  /\ \/ CurrentLine(t) = SminLine /\ stage'[t] = "read" /\ line'[t] = line[t] + 2
     \/ CurrentLine(t) # SminLine /\ stage'[t] = "skip" /\ line'[t] = line[t] + 1

Reads(t) ==
  /\ stage[t] = "read" /\ stage'[t] = "read" /\ CurrentLine(t).holds = "item"
  /\ line'[t] = line[t] + 1
  /\ items'[t] = Append(items[t], ReadItem(CurrentLine(t), branchIndexZeroBased[t]).item)

Ends(t) ==
  /\ stage[t] = "read" /\ CurrentLine(t) \in {EndOfFile, TimeLine}
  /\ stage'[t] = AfterDefinitions(t) /\ items'[t] = items[t]

GoesOn(t) ==
  /\ items'[t] = items[t]
  /\ \/ stage[t] = "load" /\ stage'[t] \in {"integrate", "check"}
     \/ stage[t] = "integrate" /\ stage'[t] = "open"
     \/ stage[t] = "open" /\ stage'[t] = "write"
     \/ stage[t] = "write" /\ stage'[t] = "check"
     \/ stage[t] = "table" /\ stage'[t] = "check"
     \/ stage[t] = "check" /\ stage'[t] \in {"simulate", "refused"}

LEMMA WaysOfSetUp ==
  ASSUME NoiseInv, FileInv, NEW t \in Tools, SetUp(t)
  PROVE  /\ words'[t] = words[t] /\ snrdB'[t] = snrdB[t]
         /\ \/ Skips(t) \/ Reads(t) \/ Ends(t) \/ GoesOn(t)
            \/ stage[t] = "read" /\ stage'[t] = "aborted"
<1> USE DEF NoiseInv, Shape, FileInv, OnTools, GoTo
<1>1. CASE SkipRawLine(t)
  BY <1>1 DEF SkipRawLine, Skips
<1>2. CASE ReadDefinition(t)
  BY <1>2 DEF ReadDefinition, Reads
<1>3. CASE EndDefinitions(t)
  BY <1>3 DEF EndDefinitions, Ends
<1>4. CASE FailOnLine(t)
  BY <1>4 DEF FailOnLine
<1>5. CASE LoadCachedSNRdB(t)
  BY <1>5 DEF LoadCachedSNRdB, GoesOn
<1>6. CASE ComputeQFunc(t)
  BY <1>6 DEF ComputeQFunc, GoesOn
<1>7. CASE OpenCache(t)
  BY <1>7 DEF OpenCache, GoesOn
<1>8. CASE SaveCachedSNRdB(t)
  BY <1>8 DEF SaveCachedSNRdB, GoesOn
<1>9. CASE ReadTable(t)
  BY <1>9 DEF ReadTable, GoesOn
<1>10. CASE Check(t)
  BY <1>10 DEF Check, GoesOn
<1> QED
  BY <1>1, <1>2, <1>3, <1>4, <1>5, <1>6, <1>7, <1>8, <1>9, <1>10 DEF SetUp

\* The first line with "Smin" is where the definition begins.
LEMMA FirstSmin ==
  ASSUME NEW t \in Tools, IsFile(FileOf(words[t])), UseRawResultData(words[t]),
         NEW n \in 1 .. Len(FileOf(words[t])), FileOf(words[t])[n] = SminLine,
         \A k \in 1 .. n - 1 : FileOf(words[t])[k] # SminLine
  PROVE  FirstLine(t) = n + 2
<1> DEFINE file == FileOf(words[t])
           S == {k \in DOMAIN file : file[k] = SminLine}
<1>1. Len(file) \in Nat /\ DOMAIN file = 1 .. Len(file)
  BY DEF IsFile
<1>2. n \in S /\ S \in SUBSET Nat
  BY <1>1
<1>3. \A k \in S : n =< k
  <2> TAKE k \in S
  <2>1. k \in Nat \ {0} /\ k \notin 1 .. n - 1 /\ n \in Nat
    BY <1>1
  <2> HIDE DEF S
  <2> QED BY <2>1
<1> HIDE DEF S
<1>4. \A x \in S : (\A y \in S : x =< y) => x = n
  BY <1>2, <1>3
<1>5. Min(S) = n
  BY <1>2, <1>3, <1>4 DEF Min
<1> QED BY <1>5 DEF FirstLine, S

WayTypeOf(t) ==
  /\ Len(FileOf(words[t])) \in Nat
  /\ line[t] \in Nat \ {0}
  /\ items[t] \in Seq(Range(items[t]))
  /\ IsFile(FileOf(words[t]))

LEMMA WayTypes ==
  ASSUME FileInv, NEW t \in Tools, stage[t] \in {"skip", "read"}
  PROVE  WayTypeOf(t)
<1>1. FileInvOf(t)
  BY DEF FileInv
<1>2. IsFile(FileOf(words[t]))
  BY <1>1, FileOfRun DEF Over
<1> QED BY <1>1, <1>2 DEF FileInvOf, WayTypeOf, IsFile

LEMMA ReadsFromOne ==
  ASSUME NEW it, it.i \in Nat, it.j \in Nat, NEW zeroBased
  PROVE  LET item == ReadItem(it, zeroBased).item
         IN  item.i \in Nat \ {0} /\ item.j \in Nat \ {0}
<1>1. /\ ReadItem(it, zeroBased).item.i = IF zeroBased \/ it.i = 0 THEN it.i + 1 ELSE it.i
      /\ ReadItem(it, zeroBased).item.j =
           IF zeroBased \/ it.i = 0 \/ it.j = 0 THEN it.j + 1 ELSE it.j
  BY DEF ReadItem
<1>2. ReadItem(it, zeroBased).item.i \in Nat \ {0}
  BY <1>1
<1>3. ReadItem(it, zeroBased).item.j \in Nat \ {0}
  BY <1>1
<1> QED BY <1>2, <1>3

LEMMA StillRead ==
  ASSUME NEW t \in Tools, items'[t] = items[t]
  PROVE  HasRead(t)' <=> HasRead(t)
<1>1. Definition(t)' = Definition(t)
  BY DEF Definition, Range
<1> QED BY <1>1 DEF HasRead

LEMMA ItemsStay ==
  ASSUME NEW t \in Tools, WayInvOf(t), items'[t] = items[t], words'[t] = words[t],
         stage[t] \notin Over
  PROVE  IndexesAreNatural(FileOf(words[t])') => CountsFromOne(Definition(t)')
<1>1. Definition(t)' = Definition(t) /\ FileOf(words[t])' = FileOf(words[t])
  BY DEF Definition, Range
<1> QED BY <1>1 DEF WayInvOf

LEMMA ItemsGrow ==
  ASSUME NEW t \in Tools, WayInvOf(t), WayTypeOf(t), Reads(t), words'[t] = words[t]
  PROVE  /\ HasRead(t)'
         /\ IndexesAreNatural(FileOf(words[t])') => CountsFromOne(Definition(t)')
<1> DEFINE file == FileOf(words[t])
           item == ReadItem(CurrentLine(t), branchIndexZeroBased[t]).item
<1>1. FileOf(words[t])' = file
  OBVIOUS
<1>2. Definition(t)' = Definition(t) \cup {item}
  <2>1. items'[t] = Append(items[t], item) /\ items[t] \in Seq(Range(items[t]))
    BY DEF Reads, WayTypeOf
  <2> HIDE DEF item
  <2>2. Range(Append(items[t], item)) = Range(items[t]) \cup {item}
    BY <2>1, RangeOfAppend
  <2>3. Definition(t)' = Range(items'[t]) /\ Definition(t) = Range(items[t])
    BY DEF Definition, Range
  <2> QED BY <2>1, <2>2, <2>3
<1>3. HasRead(t)'
  <2>1. items'[t] = <<>> => Definition(t)' = {}
    BY DEF Definition, Range
  <2>2. Definition(t)' # {}
    BY <1>2
  <2> QED BY <2>1, <2>2 DEF HasRead
<1> SUFFICES ASSUME IndexesAreNatural(file) PROVE CountsFromOne(Definition(t) \cup {item})
  BY <1>1, <1>2, <1>3
<1>4. CountsFromOne(Definition(t))
  BY DEF WayInvOf, Reads, Over
<1>5. item.i \in Nat \ {0} /\ item.j \in Nat \ {0}
  <2>1. line[t] \in ItemLines(file) /\ CurrentLine(t) = file[line[t]]
    BY LineOfFile DEF Reads, WayTypeOf, ItemLines
  <2>2. CurrentLine(t).i \in Nat /\ CurrentLine(t).j \in Nat
    BY <2>1 DEF IndexesAreNatural
  <2> QED BY <2>2, ReadsFromOne
<1> HIDE DEF item
<1> QED BY <1>4, <1>5, FS_AddElement DEF CountsFromOne

LEMMA WayOfSkip ==
  ASSUME NEW t \in Tools, WayInvOf(t), WayTypeOf(t), Skips(t), words'[t] = words[t],
         snrdB'[t] = snrdB[t]
  PROVE  WayInvOf(t)'
<1> DEFINE file == FileOf(words[t])
           n == line[t]
<1>1. /\ stage[t] = "skip" /\ UseRawResultData(words[t])
      /\ \A k \in 1 .. n - 1 : file[k] # SminLine
  BY DEF Skips, WayInvOf
<1>2. Len(file) \in Nat /\ n \in 1 .. Len(file) /\ CurrentLine(t) = file[n]
  BY LineOfFile DEF WayTypeOf, Skips
<1>3. FirstLine(t)' = FirstLine(t) /\ file' = file /\ UseRawResultData(words[t])'
  BY <1>1, SameFile
<1>4. IndexesAreNatural(file') => CountsFromOne(Definition(t)')
  BY <1>1, ItemsStay DEF Skips, Over
<1>5. CASE CurrentLine(t) = SminLine
  <2>1. stage'[t] = "read" /\ line'[t] = n + 2
    BY <1>5 DEF Skips
  <2>2. FirstLine(t) = n + 2
    BY <1>1, <1>2, <1>5, FirstSmin DEF WayTypeOf
  <2>3. line'[t] \in 1 .. Len(file) + 2 /\ line'[t] = FirstLine(t)'
    BY <1>2, <1>3, <2>1, <2>2
  <2> HIDE DEF n
  <2> QED BY <1>3, <1>4, <2>1, <2>3 DEF WayInvOf
<1>6. CASE CurrentLine(t) # SminLine
  <2>1. stage'[t] = "skip" /\ line'[t] = n + 1
    BY <1>6 DEF Skips
  <2>2. line'[t] \in 1 .. Len(file) + 2
    BY <1>2, <2>1
  <2>3. \A k \in 1 .. line'[t] - 1 : file[k] # SminLine
    <3> TAKE k \in 1 .. line'[t] - 1
    <3>1. k \in 1 .. n - 1 \/ k = n
      BY <1>2, <2>1
    <3> QED BY <1>1, <1>2, <1>6, <3>1
  <2> HIDE DEF n
  <2> QED BY <1>3, <1>4, <2>1, <2>2, <2>3 DEF WayInvOf
<1> QED BY <1>5, <1>6

LEMMA WayOfRead ==
  ASSUME NEW t \in Tools, WayInvOf(t), WayTypeOf(t), Reads(t), words'[t] = words[t],
         snrdB'[t] = snrdB[t]
  PROVE  WayInvOf(t)'
<1> DEFINE file == FileOf(words[t])
           n == line[t]
<1>1. Len(file) \in Nat /\ n \in 1 .. Len(file)
  BY LineOfFile DEF WayTypeOf, Reads
<1>2. stage'[t] = "read" /\ line'[t] \in 1 .. Len(file) + 2 /\ file' = file
  BY <1>1 DEF Reads
<1>3. HasRead(t)' /\ (IndexesAreNatural(file') => CountsFromOne(Definition(t)'))
  BY ItemsGrow
<1> HIDE DEF n
<1> QED BY <1>2, <1>3 DEF WayInvOf

LEMMA WayOfEnd ==
  ASSUME NEW t \in Tools, WayInvOf(t), WayTypeOf(t), Ends(t), words'[t] = words[t],
         snrdB'[t] = snrdB[t], p0[t] = GivenP0(words[t])
  PROVE  WayInvOf(t)'
<1> DEFINE file == FileOf(words[t])
<1>1. /\ stage'[t] \in {"load", "table", "check"}
      /\ stage'[t] = "table" => GivenP0(words[t]) = Zero /\ P0ComputingMode(words[t]) = 1
  BY DEF Ends, AfterDefinitions
<1>2. HasRead(t) \/ NoItemIsRead(t)
  <2> SUFFICES ASSUME ~ HasRead(t) PROVE NoItemIsRead(t)
    OBVIOUS
  <2>1. line[t] = FirstLine(t)
    BY DEF WayInvOf, Ends
  <2>2. line[t] \notin DOMAIN file \/ file[line[t]] = TimeLine
    BY LineOfFile DEF WayTypeOf, Ends
  <2> QED BY <2>1, <2>2 DEF NoItemIsRead
<1>3. (NoItemIsRead(t)' <=> NoItemIsRead(t)) /\ (HasRead(t)' <=> HasRead(t))
  BY SameFile, StillRead DEF Ends
<1>4. IndexesAreNatural(file') => CountsFromOne(Definition(t)')
  BY ItemsStay DEF Ends, Over
<1>5. items'[t] = items[t] /\ words'[t] = words[t]
  BY DEF Ends
<1> QED BY <1>1, <1>2, <1>3, <1>4, <1>5 DEF WayInvOf

LEMMA WayOfOthers ==
  ASSUME NEW t \in Tools, WayInvOf(t), words'[t] = words[t], snrdB'[t] = snrdB[t],
         items'[t] = items[t], stage[t] \notin Over,
         \/ stage'[t] = stage[t] /\ line'[t] = line[t]
         \/ stage'[t] \notin {"skip", "read", "load", "table"}
            /\ (stage'[t] = "integrate" => stage[t] = "load")
  PROVE  WayInvOf(t)'
<1>1. /\ FirstLine(t)' = FirstLine(t) /\ (NoItemIsRead(t)' <=> NoItemIsRead(t))
      /\ FileOf(words[t])' = FileOf(words[t]) /\ (HasRead(t)' <=> HasRead(t))
  BY SameFile, StillRead
<1>2. IndexesAreNatural(FileOf(words[t])') => CountsFromOne(Definition(t)')
  BY ItemsStay
<1>3. CASE stage'[t] = stage[t] /\ line'[t] = line[t]
  BY <1>1, <1>2, <1>3 DEF WayInvOf
<1>4. CASE stage'[t] \notin {"skip", "read", "load", "table"}
           /\ (stage'[t] = "integrate" => stage[t] = "load")
  BY <1>1, <1>2, <1>4 DEF WayInvOf
<1> QED BY <1>3, <1>4

LEMMA WayOver ==
  ASSUME NEW t \in Tools, stage'[t] \in Over
  PROVE  WayInvOf(t)'
BY DEF WayInvOf, Over

LEMMA WayOfSetUp ==
  ASSUME NoiseInv, RefusalInv, FileInv, WayInv, NEW t \in Tools, SetUp(t)
  PROVE  WayInvOf(t)'
<1>1. WayInvOf(t) /\ words'[t] = words[t] /\ snrdB'[t] = snrdB[t]
  BY WaysOfSetUp DEF WayInv
<1>2. CASE Skips(t)
  <2>1. WayTypeOf(t)
    BY <1>2, WayTypes DEF Skips
  <2> QED BY <1>1, <1>2, <2>1, WayOfSkip
<1>3. CASE Reads(t)
  <2>1. WayTypeOf(t)
    BY <1>3, WayTypes DEF Reads
  <2> QED BY <1>1, <1>3, <2>1, WayOfRead
<1>4. CASE Ends(t)
  <2>1. WayTypeOf(t)
    BY <1>4, WayTypes DEF Ends
  <2>2. p0[t] = GivenP0(words[t])
    BY <1>4 DEF Ends, RefusalInv, RefusalInvOf
  <2> QED BY <1>1, <1>4, <2>1, <2>2, WayOfEnd
<1>5. CASE GoesOn(t)
  <2>1. /\ items'[t] = items[t] /\ stage[t] \notin Over
        /\ stage'[t] \notin {"skip", "read", "load", "table"}
        /\ (stage'[t] = "integrate" => stage[t] = "load")
    BY <1>5 DEF GoesOn, Over
  <2> QED BY <1>1, <2>1, WayOfOthers
<1>6. CASE stage'[t] = "aborted"
  BY <1>6, WayOver DEF Over
<1> QED BY <1>2, <1>3, <1>4, <1>5, <1>6, WaysOfSetUp

LEMMA WayOfStart ==
  ASSUME NoiseInv, FileInv, NEW t \in Tools, NEW argv \in CommandLines[t], Start(t, argv)
  PROVE  WayInvOf(t)'
<1> DEFINE args == IF Len(argv) = 1 THEN DefaultArgs ELSE argv
<1>1. /\ stage'[t] = IF UseRawResultData(args) THEN "skip" ELSE "read"
      /\ words'[t] = args /\ line'[t] = 1 /\ items'[t] = <<>>
  BY DEF Start, GoTo, NoiseInv, Shape, OnTools, FileInv
<1>2. Len(FileOf(args)) \in Nat
  BY FilesAssumption DEF IsFile
<1> HIDE DEF args
<1>3. 1 \in 1 .. Len(FileOf(args)) + 2 /\ 1 .. 1 - 1 = {}
  BY <1>2
<1>4. UseRawResultData(args) \/ FirstLine(t)' = 1
  BY <1>1 DEF FirstLine
<1>5. Definition(t)' = {}
  BY <1>1 DEF Definition, Range
<1>6. CountsFromOne({})
  BY FS_EmptySet DEF CountsFromOne
<1>7. CASE UseRawResultData(args)
  BY <1>1, <1>3, <1>5, <1>6, <1>7 DEF WayInvOf
<1>8. CASE ~ UseRawResultData(args)
  BY <1>1, <1>3, <1>4, <1>5, <1>6, <1>8 DEF WayInvOf
<1> QED BY <1>7, <1>8

LEMMA NextWay ==
  ASSUME NoiseInv, RefusalInv, FileInv, WayInv, [Next]_vars
  PROVE  WayInv'
<1>1. ASSUME NEW u \in Tools, words'[u] = words[u], snrdB'[u] = snrdB[u], items'[u] = items[u],
             stage'[u] = stage[u], line'[u] = line[u]
      PROVE  WayInvOf(u)'
  <2>1. WayInvOf(u)
    BY DEF WayInv
  <2> QED BY <1>1, <2>1, WayOfOthers, WayOver
<1>2. CASE UNCHANGED vars
  BY <1>1, <1>2 DEF vars, toolVars, WayInv
<1>3. ASSUME NEW t \in Tools,
             (\E argv \in CommandLines[t] : Start(t, argv)) \/ SetUp(t) \/ SaveResults(t) \/ Clean(t)
               \/ Kill(t)
      PROVE  WayInv'
  <2>1. \A u \in Tools \ {t} : line'[u] = line[u]
    <3>1. CASE SetUp(t)
      BY <3>1, SetUpReading
    <3>2. CASE ~ SetUp(t)
      BY <1>3, <3>2 DEF Start, SaveResults, Clean, Kill, Leave, FileInv, OnTools
    <3> QED BY <3>1, <3>2
  <2>2. \A u \in Tools \ {t} : WayInvOf(u)'
    BY <1>1, <1>3, <2>1, OthersOf DEF Others
  <2>3. WayInvOf(t)'
    <3>1. CASE \E argv \in CommandLines[t] : Start(t, argv)
      BY <3>1, WayOfStart
    <3>2. CASE SetUp(t)
      BY <3>2, WayOfSetUp
    <3>3. CASE SaveResults(t) \/ Clean(t) \/ Kill(t)
      <4>0. OnTools(stage) /\ OnTools(words) /\ OnTools(snrdB) /\ OnTools(items)
        BY DEF NoiseInv, Shape
      <4>1. \/ stage'[t] \in Over
            \/ /\ stage[t] = "simulate" /\ stage'[t] = "clean"
               /\ words'[t] = words[t] /\ snrdB'[t] = snrdB[t] /\ items'[t] = items[t]
        BY <3>3, <4>0 DEF SaveResults, Clean, Kill, Leave, GoTo, Over, OnTools
      <4>2. WayInvOf(t)
        BY DEF WayInv
      <4> QED BY <4>1, <4>2, WayOver, WayOfOthers DEF Over
    <3> QED BY <1>3, <3>1, <3>2, <3>3
  <2> QED BY <2>2, <2>3 DEF WayInv
<1> QED BY <1>2, <1>3 DEF Next

WholeInv == NoiseInv /\ RefusalInv /\ FileInv /\ WayInv

LEMMA WholeInvariant ==
  Spec => []WholeInv
<1>1. Init => WholeInv
  <2> SUFFICES ASSUME Init PROVE WholeInv
    OBVIOUS
  <2>1. NoiseInv
    BY InitNoise
  <2>2. \A t \in Tools : stage[t] = "off"
    BY DEF Init
  <2>3. OnTools(line) /\ OnTools(branchIndexZeroBased) /\ CacheZeroInv
    BY DEF Init, OnTools, CacheZeroInv
  <2>4. RefusalInv
    BY <2>2, <2>3 DEF RefusalInv, RefusalInvOf, Over
  <2>5. FileInv
    BY <2>2, <2>3 DEF FileInv, FileInvOf, Over
  <2>6. WayInv
    BY <2>2 DEF WayInv, WayInvOf, Over
  <2> QED BY <2>1, <2>4, <2>5, <2>6 DEF WholeInv
<1>2. WholeInv /\ [Next]_vars => WholeInv'
  BY NextNoise, NextRefusal, NextReading, NextWay DEF WholeInv
<1> QED BY <1>1, <1>2, PTL DEF Spec

\* With an item there is a rate.
LEMMA RateOfItems ==
  ASSUME NEW t \in Tools, HasRead(t), CountsFromOne(Definition(t))
  PROVE  R(t) # -1
<1> DEFINE D == Definition(t)
           I == {it.i : it \in D}
           J == {it.j : it \in D}
<1>1. IsFiniteSet(I) /\ IsFiniteSet(J)
  <2> DEFINE ofI == [it \in D |-> it.i]
             ofJ == [it \in D |-> it.j]
  <2>1. DOMAIN ofI = D /\ I = {ofI[it] : it \in D} /\ DOMAIN ofJ = D /\ J = {ofJ[it] : it \in D}
    OBVIOUS
  <2>2. IsFiniteSet(D)
    BY DEF CountsFromOne
  <2> HIDE DEF ofI, ofJ, D
  <2>3. IsFiniteSet({ofI[it] : it \in D}) /\ IsFiniteSet({ofJ[it] : it \in D})
    BY <2>1, <2>2, FiniteImage
  <2> QED BY <2>1, <2>3
<1>2. I \in SUBSET (Nat \ {0}) /\ J \in SUBSET (Nat \ {0}) /\ I # {} /\ J # {}
  BY DEF CountsFromOne, HasRead
<1>3. k0(t) = Max(I) /\ (n0(t) = k0(t) \/ n0(t) = Max(I) + Max(J))
  BY InstanceOperators DEF HasRead, k0, n0, Def!GetCountInputs, Def!GetCountOutputs, Def!GetCountCheckOutputs
<1> HIDE DEF D, I, J
<1>4. Max(I) \in Nat \ {0} /\ Max(J) \in Nat \ {0}
  <2>1. I \in SUBSET Nat /\ J \in SUBSET Nat
    BY <1>2
  <2>2. Max(I) \in I /\ Max(J) \in J
    BY <1>1, <1>2, <2>1, MaxOfNaturals
  <2> QED BY <1>2, <2>2
<1>5. k0(t) \in Nat /\ n0(t) \in Nat \ {0}
  BY <1>3, <1>4
<1>6. \A k \in Nat, n \in Nat \ {0} : (1000000 * k) \div n \in Nat
  OBVIOUS
<1>7. R(t) \in Nat
  BY <1>5, <1>6 DEF R
<1> QED BY <1>7

\* The conditions of the steps of SetUp that have any but the stage.
MayGoOn(t) ==
  /\ stage[t] = "skip" => CurrentLine(t) # EndOfFile
  /\ stage[t] = "read" =>
       \/ CurrentLine(t).holds = "item"
       \/ CurrentLine(t) \in {EndOfFile, TimeLine, OtherLine, SminLine}
  /\ stage[t] = "integrate" => R(t) # -1
  /\ stage[t] = "table" => snrdB[t] \in TableRatios

(***************************************************************************)
(* Whatever the files and the other runs, main never waits for anything    *)
(* on its way through its files, but for the cases named by Endless: some  *)
(* step of SetUp is always possible.                                       *)
(***************************************************************************)
NeverStuck ==
  \A t \in Tools :
    (stage[t] \in SetUpStages /\ ~ Endless(t) /\ IndexesAreNatural(FileOf(words[t])))
      => MayGoOn(t)

\* The invariant follows from what the runs know of their files, with the invariants of
\* the other theorems; an item that has been read makes the rate a number.
THEOREM NeverWaits ==
  Spec => []NeverStuck
<1>1. WholeInv => NeverStuck
  <2> SUFFICES ASSUME WholeInv, NEW t \in Tools, stage[t] \in SetUpStages, ~ Endless(t),
                      IndexesAreNatural(FileOf(words[t]))
               PROVE  MayGoOn(t)
    BY DEF NeverStuck
  <2> DEFINE file == FileOf(words[t])
  <2>1. WayInvOf(t) /\ FileInv /\ RefusalInvOf(t)
    BY DEF WholeInv, WayInv, RefusalInv
  <2>2. ASSUME stage[t] = "skip" PROVE CurrentLine(t) # EndOfFile
    <3>1. WayTypeOf(t)
      BY <2>1, <2>2, WayTypes
    <3>2. UseRawResultData(words[t]) /\ \A k \in 1 .. line[t] - 1 : file[k] # SminLine
      BY <2>1, <2>2 DEF WayInvOf
    <3>3. PICK k \in DOMAIN file : file[k] = SminLine
      BY <3>2 DEF Endless, Range
    <3>4. Len(file) \in Nat /\ k \in 1 .. Len(file) /\ line[t] \in Nat \ {0}
      BY <3>1, LineOfFile DEF WayTypeOf
    <3>5. line[t] \in 1 .. Len(file)
      BY <3>2, <3>3, <3>4
    <3> QED BY <3>1, <3>5, LineOfFile DEF WayTypeOf
  <2>3. ASSUME stage[t] = "read"
        PROVE  \/ CurrentLine(t).holds = "item"
               \/ CurrentLine(t) \in {EndOfFile, TimeLine, OtherLine, SminLine}
    <3>1. WayTypeOf(t)
      BY <2>1, <2>3, WayTypes
    <3> QED BY <3>1, LineOfFile DEF WayTypeOf
  <2>4. ASSUME stage[t] = "integrate" PROVE R(t) # -1
    <3>1. GivenP0(words[t]) = Zero /\ P0ComputingMode(words[t]) = 0
      BY <2>1, <2>4 DEF RefusalInvOf, Integrates
    <3>2. HasRead(t)
      BY <2>1, <2>4, <3>1 DEF WayInvOf, Endless
    <3>3. CountsFromOne(Definition(t))
      BY <2>1, <2>4 DEF WayInvOf, Over
    <3> QED BY <3>2, <3>3, RateOfItems
  <2>5. ASSUME stage[t] = "table" PROVE snrdB[t] \in TableRatios
    BY <2>1, <2>5 DEF WayInvOf, Endless
  <2> QED BY <2>2, <2>3, <2>4, <2>5 DEF MayGoOn
<1> QED BY <1>1, WholeInvariant, PTL

(***************************************************************************)
(* Each step of the set-up leaves a run fewer steps to go, of which the    *)
(* lines not read yet are one each.                                        *)
(***************************************************************************)
StepsToGo(t) ==
  CASE stage[t] \in {"skip", "read"} -> 7 + ((Len(FileOf(words[t])) + 2) - line[t])
    [] stage[t] = "load" -> 6
    [] stage[t] = "integrate" -> 5
    [] stage[t] = "open" -> 4
    [] stage[t] = "write" -> 3
    [] stage[t] = "table" -> 2
    [] stage[t] = "check" -> 1
    [] OTHER -> 0

\* The run comes nearer to its simulation with a step of its own, is not put back by the
\* step of another, and remains one that comes through or one that does not.
ComesNearer(t) ==
  /\ StepsToGo(t) \in Nat /\ StepsToGo(t)' \in Nat
  /\ StepsToGo(t)' =< StepsToGo(t)
  /\ SetUp(t) => StepsToGo(t)' < StepsToGo(t)
  /\ stage'[t] \in SetUpStages => (Endless(t)' <=> Endless(t))

LEMMA StepsAreNatural ==
  ASSUME NEW t \in Tools, WayInvOf(t), stage[t] \in {"skip", "read"} => WayTypeOf(t)
  PROVE  /\ StepsToGo(t) \in Nat
         /\ stage[t] \in {"skip", "read"} => StepsToGo(t) \in Nat /\ StepsToGo(t) >= 7
<1>1. CASE stage[t] \in {"skip", "read"}
  <2>1. Len(FileOf(words[t])) \in Nat /\ line[t] \in 1 .. Len(FileOf(words[t])) + 2
    BY <1>1 DEF WayInvOf, WayTypeOf
  <2>2. \A n \in Nat : \A k \in 1 .. n + 2 : 7 + ((n + 2) - k) \in Nat /\ 7 + ((n + 2) - k) >= 7
    OBVIOUS
  <2>3. StepsToGo(t) = 7 + ((Len(FileOf(words[t])) + 2) - line[t])
    BY <1>1 DEF StepsToGo
  <2> QED BY <2>1, <2>2, <2>3
<1>2. CASE stage[t] \notin {"skip", "read"}
  BY <1>2 DEF StepsToGo
<1> QED BY <1>1, <1>2

\* A line less to read.
LEMMA LineNearer ==
  ASSUME NEW t \in Tools, WayInvOf(t), WayTypeOf(t), words'[t] = words[t], Skips(t) \/ Reads(t)
  PROVE  StepsToGo(t)' \in Nat /\ StepsToGo(t)' < StepsToGo(t)
<1> DEFINE len == Len(FileOf(words[t]))
<1>1. len \in Nat /\ line[t] \in 1 .. len
  BY LineOfFile DEF WayTypeOf, Skips, Reads
<1>2. /\ stage[t] \in {"skip", "read"} /\ stage'[t] \in {"skip", "read"}
      /\ line'[t] \in {line[t] + 1, line[t] + 2}
  BY DEF Skips, Reads
<1>3. StepsToGo(t) = 7 + ((len + 2) - line[t])
  BY <1>2 DEF StepsToGo
<1>4. StepsToGo(t)' = 7 + ((len + 2) - line'[t])
  BY <1>2 DEF StepsToGo
<1> HIDE DEF len
<1>5. \A n \in Nat : \A k \in 1 .. n : \A l \in {k + 1, k + 2} :
        /\ 7 + ((n + 2) - l) \in Nat
        /\ 7 + ((n + 2) - l) < 7 + ((n + 2) - k)
  OBVIOUS
<1> QED BY <1>1, <1>2, <1>3, <1>4, <1>5

LEMMA SetUpNearer ==
  ASSUME NoiseInv, FileInv, WayInv, NEW t \in Tools, SetUp(t)
  PROVE  ComesNearer(t)
<1>1. /\ WayInvOf(t) /\ words'[t] = words[t] /\ snrdB'[t] = snrdB[t]
      /\ stage[t] \in {"skip", "read"} => WayTypeOf(t)
  BY WaysOfSetUp, WayTypes DEF WayInv
<1>2. /\ StepsToGo(t) \in Nat
      /\ stage[t] \in {"skip", "read"} => StepsToGo(t) \in Nat /\ StepsToGo(t) >= 7
  BY <1>1, StepsAreNatural
<1>3. Endless(t)' <=> Endless(t)
  BY <1>1, SameFile
<1>4. StepsToGo(t)' \in Nat /\ StepsToGo(t)' < StepsToGo(t)
  <2>1. CASE Skips(t) \/ Reads(t)
    <3>1. WayTypeOf(t)
      BY <1>1, <2>1 DEF Skips, Reads
    <3> QED BY <1>1, <2>1, <3>1, LineNearer
  <2>2. CASE Ends(t) \/ (stage[t] = "read" /\ stage'[t] = "aborted")
    <3>1. stage[t] = "read" /\ stage'[t] \in {"load", "table", "check", "aborted"}
      BY <2>2 DEF Ends, AfterDefinitions
    <3>2. StepsToGo(t)' \in {0, 1, 2, 6}
      BY <3>1 DEF StepsToGo
    <3> QED BY <1>2, <3>1, <3>2
  <2>3. CASE GoesOn(t)
    BY <2>3 DEF GoesOn, StepsToGo
  <2> QED BY <2>1, <2>2, <2>3, WaysOfSetUp
<1> QED BY <1>2, <1>3, <1>4 DEF ComesNearer

\* The other runs, and the end of this one.
LEMMA OthersNearer ==
  ASSUME NoiseInv, FileInv, WayInv, NEW t \in Tools, stage[t] \in SetUpStages, ~ SetUp(t), Next
  PROVE  ComesNearer(t)
<1>1. WayInvOf(t) /\ (stage[t] \in {"skip", "read"} => WayTypeOf(t))
  BY WayTypes DEF WayInv
<1>2. StepsToGo(t) \in Nat
  BY <1>1, StepsAreNatural
<1>3. PICK u \in Tools :
        (\E argv \in CommandLines[u] : Start(u, argv)) \/ SetUp(u) \/ SaveResults(u) \/ Clean(u)
          \/ Kill(u)
  BY DEF Next
<1>4. CASE u = t
  <2>1. Kill(t)
    BY <1>3, <1>4 DEF Start, SaveResults, Clean, SetUpStages, Over
  <2>2. stage'[t] = "off"
    BY <2>1 DEF Kill, Leave, GoTo, NoiseInv, Shape, OnTools
  <2>3. StepsToGo(t)' = 0 /\ stage'[t] \notin SetUpStages
    BY <2>2 DEF StepsToGo, SetUpStages
  <2> QED BY <1>2, <2>3 DEF ComesNearer
<1>5. CASE u # t
  <2>1. stage'[t] = stage[t] /\ words'[t] = words[t] /\ snrdB'[t] = snrdB[t]
    BY <1>3, <1>5, OthersOf DEF Others
  <2>2. line'[t] = line[t]
    <3>1. CASE SetUp(u)
      BY <1>5, <3>1, SetUpReading
    <3>2. CASE ~ SetUp(u)
      BY <1>3, <1>5, <3>2 DEF Start, SaveResults, Clean, Kill, Leave, FileInv, OnTools
    <3> QED BY <3>1, <3>2
  <2>3. StepsToGo(t)' = StepsToGo(t)
    BY <2>1, <2>2 DEF StepsToGo
  <2>4. Endless(t)' <=> Endless(t)
    BY <2>1, SameFile
  <2> QED BY <1>2, <2>3, <2>4 DEF ComesNearer
<1> QED BY <1>4, <1>5

(***************************************************************************)
(* The way of each run is finite, and no other run makes it longer or      *)
(* endless.                                                                *)
(***************************************************************************)
ComesNearerToSimulation ==
  [][\A t \in Tools : stage[t] \in SetUpStages => ComesNearer(t)]_vars

\* From each stage there is no way back, and a line is read once: SetUp(t) can happen no
\* more often than StepsToGo(t) says when main begins.
THEOREM SetUpIsFinite ==
  Spec => ComesNearerToSimulation
<1>1. WholeInv /\ [Next]_vars => [\A t \in Tools : stage[t] \in SetUpStages => ComesNearer(t)]_vars
  BY SetUpNearer, OthersNearer DEF WholeInv
<1> QED BY <1>1, WholeInvariant, PTL DEF Spec, ComesNearerToSimulation

=============================================================================
