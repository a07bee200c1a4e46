------------------------------- MODULE ModelingTool -------------------------------
(***************************************************************************)
(* The program ConvSelfOrthCodeModelingTool: main from the command line to *)
(* the file of results, with the noise probability and its cache           *)
(* (core_library/MiscUtils.cpp).  Several runs of the program may work in  *)
(* the same directory, one after the other or at a time: they share the    *)
(* files of cached probabilities.  A run can be killed at any moment; what *)
(* it has written by then stays.  What the file of results holds is not    *)
(* modelled: each run writes its own whole.                                *)
(*                                                                         *)
(* A probability is a tuple that says where it comes from; that numerical  *)
(* integration returns the right number is not modelled.  A number printed *)
(* to a file or to a file name keeps six digits: two signal-to-noise ratios *)
(* with the same Name are printed alike.                                   *)
(***************************************************************************)
EXTENDS DefinitionFile, SequencesExt

CONSTANTS
  Tools,            \* the runs of the program that may be there at a time
  CommandLines,     \* of each of them, what argv may be
  DefaultArgs,      \* the words of default_args.txt
  Number,           \* atoi or atof of each word, 0 if it is not a number
  Ratios,           \* the signal-to-noise ratios
  Name,             \* a ratio as printed
  Vanishing,        \* the ratios for which the integral vanishes
  TableRatios,      \* the ratios in snrdB_p0_table.txt
  Files             \* the files of definitions

ASSUME ToolAssumption ==
  /\ \A t \in Tools : CommandLines[t] \subseteq Seq(DOMAIN Number)
  /\ Name \in [Ratios -> Ratios]
  /\ Vanishing \subseteq Ratios
  /\ \A ratio, other \in Ratios :    \* printed alike, they vanish together
       Name[ratio] = Name[other] => (ratio \in Vanishing <=> other \in Vanishing)

VARIABLES
  stage,                  \* of each run: where main is
  words,                  \* vecArgs
  snrdB,                  \* the ratio, not initialised unless it is an argument
  line,                   \* the next line of the file of definitions
  branchIndexZeroBased,
  items,                  \* coderDefinitionItems
  p0,
  cache                   \* the files of cached probabilities

toolVars == <<stage, words, snrdB, line, branchIndexZeroBased, items, p0>>
vars == <<toolVars, cache>>

\* The stages of a run that is over; one that was killed or has come to its end has
\* left nothing but its files.
Over == {"off", "refused", "aborted"}

AnyRatio == CHOOSE ratio \in Ratios : TRUE

Zero == <<"zero">>
Absent == <<"absent">>
Empty == <<"empty">>

Def(definition) == INSTANCE CoderDefinitions WITH Items <- definition
Registers(definition, m, k, n) == INSTANCE CoderRegistries WITH
  Items <- definition, polynomPower <- m, k0 <- k, n0 <- n

-----------------------------------------------------------------------------
\* ReadArgsValuesFromArgsArray: the word behind the last one with the name, which
\* may be a name itself; a name with nothing behind it is overlooked.
Arg(args, name, default) ==
  LET places == {n \in 1 .. Len(args) - 1 : args[n] = name}
  IN  IF places = {} THEN default ELSE args[Max(places) + 1]

GivenP0(args) ==
  LET percent == Number[Arg(args, "-p0", "0")]
  IN  IF percent = 0 THEN Zero ELSE <<"given", percent>>

\* Without -snrdB the variable holds what it happens to hold.
RatiosOf(args) ==
  IF Arg(args, "-snrdB", "none") = "none" THEN Ratios
  ELSE {Number[Arg(args, "-snrdB", "none")]}

\* The ratios are all that a command line can ask for.
ASSUME RatiosAssumption ==
  \A t \in Tools : \A args \in CommandLines[t] \cup {DefaultArgs} : RatiosOf(args) \subseteq Ratios

UseRawResultData(args) == Arg(args, "--useRawResultData", "0") = "1"
P0ComputingMode(args)  == Number[Arg(args, "--p0ComputingMode", "0")]

DecoderType(args) ==
  CASE Arg(args, "--decoderType", "basic") = "basic" -> 1
    [] Arg(args, "--decoderType", "basic") = "none"  -> 0
    [] OTHER -> 2

CountSections(args) == Number[Arg(args, "--countSections", "1")]

FileOf(args) == Files[Arg(args, "--filenameCoderDefinition", "coder_definition.txt")]

ASSUME FilesAssumption ==
  \A t \in Tools : \A args \in CommandLines[t] \cup {DefaultArgs} : IsFile(FileOf(args))

-----------------------------------------------------------------------------
\* What main computes from the items that it has loaded.
Definition(t) == Range(items[t])
k0(t) == IF items[t] = <<>> THEN 0 ELSE Def(Definition(t))!GetCountInputs
n0(t) == IF items[t] = <<>> \/ DecoderType(words[t]) = 0 THEN k0(t)
         ELSE Def(Definition(t))!GetCountOutputs
m(t)  == IF items[t] = <<>> THEN 0 ELSE Def(Definition(t))!GetMaxM

\* The rate k0 / n0 as printed, -1 if it is not a number.
R(t) == IF n0(t) = 0 THEN -1 ELSE (1000000 * k0(t)) \div n0(t)

DecoderLatency(t) ==
  CASE DecoderType(words[t]) = 0 -> 0
    [] DecoderType(words[t]) = 1 -> m(t)
    [] OTHER -> m(t) * CountSections(words[t])

\* Mutant: the files are told apart by the ratio only.
CacheNameWithoutRate(t) == <<Name[snrdB[t]], 0>>

\* "p0_cached_SNRdB" << snrdB << "_R" << r << ".dat"
CacheName(t) == <<Name[snrdB[t]], R(t)>>

CacheFile(name) == IF name \in DOMAIN cache THEN cache[name] ELSE Absent

WriteCache(name, content) ==
  cache' = [n \in DOMAIN cache \cup {name} |-> IF n = name THEN content ELSE cache[n]]

-----------------------------------------------------------------------------
Init ==
  /\ stage = [t \in Tools |-> "off"]
  /\ words = [t \in Tools |-> <<>>]
  /\ snrdB = [t \in Tools |-> AnyRatio]
  /\ line = [t \in Tools |-> 1]
  /\ branchIndexZeroBased = [t \in Tools |-> FALSE]
  /\ items = [t \in Tools |-> <<>>]
  /\ p0 = [t \in Tools |-> Zero]
  /\ cache = <<>>

GoTo(t, next) == stage' = [stage EXCEPT ![t] = next]

\* The process ends, and its variables with it.
Leave(t) ==
  /\ GoTo(t, "off")
  /\ words' = [words EXCEPT ![t] = <<>>]
  /\ snrdB' = [snrdB EXCEPT ![t] = AnyRatio]
  /\ line' = [line EXCEPT ![t] = 1]
  /\ branchIndexZeroBased' = [branchIndexZeroBased EXCEPT ![t] = FALSE]
  /\ items' = [items EXCEPT ![t] = <<>>]
  /\ p0' = [p0 EXCEPT ![t] = Zero]

\* The program is started; without arguments it takes those of default_args.txt.
Start(t, argv) ==
  LET args == IF Len(argv) = 1 THEN DefaultArgs ELSE argv
  IN  /\ stage[t] \in Over
      /\ \E ratio \in RatiosOf(args) : snrdB' = [snrdB EXCEPT ![t] = ratio]
      /\ words' = [words EXCEPT ![t] = args]
      /\ p0' = [p0 EXCEPT ![t] = GivenP0(args)]
      /\ line' = [line EXCEPT ![t] = 1]
      /\ branchIndexZeroBased' = [branchIndexZeroBased EXCEPT ![t] = FALSE]
      /\ items' = [items EXCEPT ![t] = <<>>]
      /\ GoTo(t, IF UseRawResultData(args) THEN "skip" ELSE "read")
      /\ UNCHANGED cache

\* What comes after the file of definitions.
AfterDefinitions(t) ==
  CASE p0[t] = Zero /\ P0ComputingMode(words[t]) = 0 -> "load"
    [] p0[t] = Zero /\ P0ComputingMode(words[t]) = 1 -> "table"
    [] OTHER -> "check"

\* The line that getline reads, if there is one.
EndOfFile == [holds |-> "end"]
CurrentLine(t) ==
  IF line[t] =< Len(FileOf(words[t])) THEN FileOf(words[t])[line[t]] ELSE EndOfFile

\* Raw data: the lines up to the one with "Smin" are skipped, and the one behind
\* it.  At the end of the file the loop goes on.
SkipRawLine(t) ==
  /\ stage[t] = "skip"
  /\ CurrentLine(t) # EndOfFile
  /\ IF CurrentLine(t) = SminLine
     THEN line' = [line EXCEPT ![t] = @ + 2] /\ GoTo(t, "read")
     ELSE line' = [line EXCEPT ![t] = @ + 1] /\ UNCHANGED stage
  /\ UNCHANGED <<words, snrdB, branchIndexZeroBased, items, p0, cache>>

ReadDefinition(t) ==
  /\ stage[t] = "read"
  /\ CurrentLine(t).holds = "item"
  /\ LET read == ReadItem(CurrentLine(t), branchIndexZeroBased[t])
     IN  /\ items' = [items EXCEPT ![t] = Append(@, read.item)]
         /\ branchIndexZeroBased' =
              [branchIndexZeroBased EXCEPT ![t] = read.branchIndexZeroBased]
  /\ line' = [line EXCEPT ![t] = @ + 1]
  /\ UNCHANGED <<stage, words, snrdB, p0, cache>>

\* Mutant: the file ends with the line with the time only.
EndAtTime(t) ==
  /\ stage[t] = "read"
  /\ CurrentLine(t) = TimeLine
  /\ GoTo(t, AfterDefinitions(t))
  /\ UNCHANGED <<words, snrdB, line, branchIndexZeroBased, items, p0, cache>>

\* The end of the file, or the line with the time.
EndDefinitions(t) ==
  /\ stage[t] = "read"
  /\ CurrentLine(t) \in {EndOfFile, TimeLine}
  /\ GoTo(t, AfterDefinitions(t))
  /\ UNCHANGED <<words, snrdB, line, branchIndexZeroBased, items, p0, cache>>

\* Any other line has no "i": map::at throws, and nothing catches.
FailOnLine(t) ==
  /\ stage[t] = "read"
  /\ CurrentLine(t) \in {OtherLine, SminLine}
  /\ GoTo(t, "aborted")
  /\ UNCHANGED <<words, snrdB, line, branchIndexZeroBased, items, p0, cache>>

-----------------------------------------------------------------------------
\* Mutant: an empty file reads as 0.
LoadedOrZero(t) ==
  IF CacheFile(CacheName(t)) = Empty THEN Zero ELSE CacheFile(CacheName(t))

\* Mutant: what is read from an empty file is not looked at.
LoadedUnchecked(t) == CacheFile(CacheName(t))

\* LoadCachedSNRdB: -1 if there is no file of the name, or nothing in it.
Loaded(t) ==
  IF CacheFile(CacheName(t)) = Empty THEN Absent ELSE CacheFile(CacheName(t))

LoadCachedSNRdB(t) ==
  /\ stage[t] = "load"
  /\ IF Loaded(t) = Absent
     THEN GoTo(t, "integrate") /\ UNCHANGED p0
     ELSE p0' = [p0 EXCEPT ![t] = Loaded(t)] /\ GoTo(t, "check")
  /\ UNCHANGED <<words, snrdB, line, branchIndexZeroBased, items, cache>>

\* ComputeQFunc; with a rate that is not a number the loop of the integration
\* does not end.
ComputeQFunc(t) ==
  /\ stage[t] = "integrate"
  /\ R(t) # -1
  /\ p0' = [p0 EXCEPT ![t] = IF snrdB[t] \in Vanishing THEN Zero
                             ELSE <<"computed", snrdB[t], R(t)>>]
  /\ GoTo(t, "open")
  /\ UNCHANGED <<words, snrdB, line, branchIndexZeroBased, items, cache>>

\* SaveCachedSNRdB opens the file, which empties it ...
OpenCache(t) ==
  /\ stage[t] = "open"
  /\ WriteCache(CacheName(t), Empty)
  /\ GoTo(t, "write")
  /\ UNCHANGED <<words, snrdB, line, branchIndexZeroBased, items, p0>>

\* The digits of p0 that are printed.
Printed(p) == IF p = Zero THEN Zero ELSE <<"cached", p[2], p[3]>>

\* ... and writes the number when it flushes the stream.
SaveCachedSNRdB(t) ==
  /\ stage[t] = "write"
  /\ WriteCache(CacheName(t), Printed(p0[t]))
  /\ GoTo(t, "check")
  /\ UNCHANGED <<words, snrdB, line, branchIndexZeroBased, items, p0>>

\* CalculateSNRdBToP0FromZTable; without a line for the ratio it reads on for ever.
ReadTable(t) ==
  /\ stage[t] = "table"
  /\ snrdB[t] \in TableRatios
  /\ p0' = [p0 EXCEPT ![t] = <<"table", snrdB[t]>>]
  /\ GoTo(t, "check")
  /\ UNCHANGED <<words, snrdB, line, branchIndexZeroBased, items, cache>>

ValidP0(p) == p # Zero /\ (p[1] = "given" => p[2] \in 1 .. 100)

Check(t) ==
  /\ stage[t] = "check"
  /\ GoTo(t, IF ValidP0(p0[t]) THEN "simulate" ELSE "refused")
  /\ UNCHANGED <<words, snrdB, line, branchIndexZeroBased, items, p0, cache>>

-----------------------------------------------------------------------------
\* SimulateTotal is over (it need not be, ever), and the results are written.
SaveResults(t) ==
  /\ stage[t] = "simulate"
  /\ GoTo(t, "clean")
  /\ UNCHANGED <<words, snrdB, line, branchIndexZeroBased, items, p0, cache>>

\* The destructor of a coder cleans k0 syndrome registries, of which there are as
\* many as check branches: with fewer of these, at() throws.
Clean(t) ==
  /\ stage[t] = "clean"
  /\ IF DecoderType(words[t]) # 0 /\ k0(t) > n0(t) - k0(t)
     THEN /\ GoTo(t, "aborted")
          /\ UNCHANGED <<words, snrdB, line, branchIndexZeroBased, items, p0>>
     ELSE Leave(t)
  /\ UNCHANGED cache

\* The run is ended from outside.
Kill(t) ==
  /\ stage[t] \notin Over
  /\ Leave(t)
  /\ UNCHANGED cache

\* What main does up to the simulation.
SetUp(t) ==
  \/ SkipRawLine(t)
  \/ ReadDefinition(t)
  \/ EndDefinitions(t)
  \/ FailOnLine(t)
  \/ LoadCachedSNRdB(t)
  \/ ComputeQFunc(t)
  \/ OpenCache(t)
  \/ SaveCachedSNRdB(t)
  \/ ReadTable(t)
  \/ Check(t)

Next ==
  \E t \in Tools :
    \/ \E argv \in CommandLines[t] : Start(t, argv)
    \/ SetUp(t)
    \/ SaveResults(t)
    \/ Clean(t)
    \/ Kill(t)

\* A run that is there goes on; whether a simulation ends, nobody knows.
Spec == Init /\ [][Next]_vars /\ \A t \in Tools : WF_vars(SetUp(t))

-----------------------------------------------------------------------------
SetUpStages == {"skip", "read", "load", "integrate", "open", "write", "table", "check"}

(***************************************************************************)
(* A run that computes its noise probability simulates with one of its own *)
(* rate and of a signal-to-noise ratio that is printed like its own, not   *)
(* with what another run left in the cache for other arguments or left     *)
(* half-written when it was killed.                                        *)
(***************************************************************************)
FitsName(p, name, rate) ==
  p[1] \in {"computed", "cached"} => Name[p[2]] = name /\ p[3] = rate

NoiseFitsItsName ==
  \A t \in Tools : stage[t] \in {"simulate", "clean"} =>
    FitsName(p0[t], Name[snrdB[t]], R(t))

(***************************************************************************)
(* "P0 must be greater than 0 and lower than 1!": the program refuses to   *)
(* simulate for its arguments' sake only, and never because of what it has *)
(* found in the cache.                                                     *)
(***************************************************************************)
RefusesForItsArguments ==
  \A t \in Tools : stage[t] = "refused" =>
    \/ GivenP0(words[t]) # Zero /\ ~ ValidP0(GivenP0(words[t]))
    \/ GivenP0(words[t]) = Zero /\ P0ComputingMode(words[t]) = 0 /\ snrdB[t] \in Vanishing
    \/ GivenP0(words[t]) = Zero /\ P0ComputingMode(words[t]) \notin {0, 1}

(***************************************************************************)
(* From a well-formed file the simulated coder gets the items that the     *)
(* file means, and they are what the coder takes for granted: indexes from *)
(* 1, one polynomial for a pair of branches, powers within the registers.  *)
(* The engine's latency is the delay of the decoder that main has built.   *)
(***************************************************************************)
CoderIsSetUp ==
  \A t \in Tools :
    (stage[t] = "simulate" /\ DecoderType(words[t]) # 0 /\ WellFormed(FileOf(words[t])))
      => LET definition == Definition(t)
             sections == CountSections(words[t])
         IN  /\ definition = Meant(FileOf(words[t]))
             /\ Def(definition)!ItemsAreSound
             /\ Registers(definition, m(t), k0(t), n0(t))!RegistersFit
             /\ (DecoderType(words[t]) = 2 /\ sections > 0)
                  => DecoderLatency(t) = m(t) * sections

(***************************************************************************)
(* Main comes through its files, unless it has been given raw data without *)
(* a line with "Smin", a ratio that the table has no line for, or a        *)
(* definition that is over before its first item: in these cases it never  *)
(* ends.                                                                   *)
(***************************************************************************)
FirstLine(t) ==
  IF UseRawResultData(words[t])
  THEN Min({n \in DOMAIN FileOf(words[t]) : FileOf(words[t])[n] = SminLine}) + 2
  ELSE 1

NoItemIsRead(t) ==
  \/ FirstLine(t) \notin DOMAIN FileOf(words[t])
  \/ FileOf(words[t])[FirstLine(t)] = TimeLine

Endless(t) ==
  \/ UseRawResultData(words[t]) /\ SminLine \notin Range(FileOf(words[t]))
  \/ /\ GivenP0(words[t]) = Zero
     /\ \/ P0ComputingMode(words[t]) = 1 /\ snrdB[t] \notin TableRatios
        \/ P0ComputingMode(words[t]) = 0 /\ NoItemIsRead(t)

ComesThroughItsFiles ==
  \A t \in Tools :
    (stage[t] \in SetUpStages /\ ~ Endless(t)) ~> stage[t] \notin SetUpStages

=============================================================================
