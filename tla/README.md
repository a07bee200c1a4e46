# Verification of ThresholdDecoding

The repository simulates a digital transmission line: a convolutional
self-orthogonal code, its threshold and multithreshold decoders, a noisy channel,
and an engine that counts the errors that are left; a tool that sets the
simulation up from its arguments and files; and cppunit 1.12.1, vendored, whose
runners run the tests. This directory holds TLA+ models of it, TLC configurations
that check them on small instances, and TLAPS proofs for every instance.

The library runs in one thread. What is hard about it is time: bits
stay in shift registers for many calls, the decoder feeds its decisions back into
its own syndrome registers, several sections work on different blocks in the same
call, and the engine has to compare each decoded block with the source block of
the right earlier iteration. None of it shows in a test of a single call; a wrong
feedback or a register one block out of step shows only after a long sequence of
blocks with errors at the wrong places. The tool is hard where several runs of it
share cache files and may be killed, and the runners of cppunit are hard because
the tests run in one thread and the window in another.

## 1. The system

| Component | State | Operations | Talks to |
|---|---|---|---|
| `CoderDefinition` | the items (i, j, powers of the polynomial) | counts of branches, greatest power, code distance, items of a branch | read by the coders and by `main` |
| `ConvSelfOrthCoder` | data registers; syndrome registers; an inner coder with registers of its own | `Init`, `Encode`, `Decode` | called by the engine; its decoder runs the inner coder's `EncodeCore` |
| `MultiThresholdCoder` | as above, and difference registers, for each section; per-call input fields | `Init`, `Encode`, `Decode` | is a `ConvSelfOrthCoder`; the hub calls `DecodeCore` of each section in a loop |
| `ModelingEngine` | queue of waiting items and their blocks, `_counter`, `_noiseCounter`, latency; locals of `SimulateTotal` | `SimulateTotal`, `SimulateIteration` | generator, coder, channel, `ByteUtil` |
| `BinarySymmetricChannel` | the block being noised | `HandleData` (`MakeNoise`) | called by the engine; `ByteUtil` |
| `RandomDataBlockGenerator` | the array being filled | `GenerateBlock` | called by the engine; `ByteUtil` |
| `ByteUtil` | none | single bits, packing, comparing, copying | used by all |
| `HemmingCoder`, `PMatrixColGenerator` | six matrices; the generator's number and power | `Init`, `Encode`, `Decode` | `BinaryMatrix`; no caller constructs one |
| `BinaryMatrix`, `BinaryVector` | a matrix of bits | products, concatenation, sorting, shifting | registers of the coders, Hamming coder |
| `main` of the tool | arguments, items read so far, noise probability | reads the definition file, loads or computes and caches the probability, builds engine, coder and channel; one `SimulateTotal` | all of the above; the files of other runs |
| `MiscUtils` | cache files of noise probabilities | conversion of the signal-to-noise ratio, cache | `main` |
| cppunit: `TestResult`, `TestComposite`, `TestCase` | the flag to stop; the recursion over the tree; the phase of a test | `run`, `stop`, the calls of the listeners | the runners |
| cppunit for MFC: `TestRunnerDlg`, `ActiveTest` | test chosen and running, counts, `m_bIsRunning`, lock `m_testObserver`, event `m_runCompleted` | run, stop, browse, history; the callbacks | two threads: the window's, and the tests', which sends it messages |
| cppunit for Qt: `TestRunnerModel`, `TestRunnerThread`, dialog | counters, posted events, buttons and labels | run, stop, choose; the callbacks | two threads: the window's, and the tests', which posts it events |
| result storages, string and vector utilities, `FakeCoder`, `Logger` | little or none | print, split | engine, `main` |

One iteration of the engine is: generate a block, queue an item for it, `Encode`,
`HandleData`, compare, `Decode`, and once `_decoderTactsLatency` iterations have
passed, take the oldest item from the queue and count its wrong bits.

What is hard, and what makes each component correct:

* **Threshold decoder.** The syndrome flags of a corrected bit are dropped, and
  the data branches are decided in order on the same registers. Correct: it
  forgets old errors, it repairs what the code distance promises, it never spoils
  a bit that arrived intact while the span is within the distance, and it keeps no
  flag that no error explains.
* **Multithreshold decoder.** Data bits, dropped flags and difference bits move
  from section to section within a call. Correct: the three stay in step, the
  difference register knows which bits have been changed, and a later section does
  not take back what an earlier one has repaired.
* **Engine.** The queue has to be as long as the decoder is late, through several
  simulations; the counters have to fit together; each block of bytes has to have
  one owner that deletes it; the loop has to end.
* **Channel and bits.** Noise should reach the chosen bits, the comparisons should
  see exactly the differences there are, and a generated block should hold what was
  drawn, whatever the memory held before.
* **Tool.** The indexes of the branches are found to count from 0 while the file is
  read. A cached probability is found by printed numbers, and its file is empty for a
  moment. Correct: the coder gets the code that the file means, and no run simulates
  with, or is refused for, what another run has left behind.
* **Hamming coder.** The order of the bits of a block and the order of the rows of
  the checking matrix have to fit.
* **Runners.** The user clicks at any moment, callbacks of one run may come in
  during the next, the two threads may wait for each other. Correct: what the
  dialog shows belongs to one run and agrees with what was counted, a stop is heeded
  in every suite of the tree, and after a run another one can be started.

## 2. The modules

| Module | Models | Notes |
|---|---|---|
| `CoderDefinitions` | `CoderDefinitions.cpp` | pure operators over the constant `Items` |
| `CoderRegistries` | what both coders do on registers | shift, check bits, flags, threshold, dropping |
| `ConvSelfOrthCoder` | `ConvSelfOrthCoder.cpp` | actions `Encode`, `HandleData`, `DecodeCore` |
| `MultiThresholdCoder` | `MultiThresholdCoder.cpp` | the same actions, with functions over sections |
| `DelayLine` | what a coder promises to the engine | abstract specification that both coders are checked against |
| `ModelingEngine` | `ModelingEngine.cpp` | actions `SimulateTotal`, `EncodeBlock`, `TransmitBlock`, `DecodeBlock`; with or without a coder |
| `EngineBuffers` | who allocates, owns and deletes the blocks of an iteration | what the steps of `ModelingEngine` do to the heap |
| `CodecSimulation` | `main` with `decoderType` 0 or 1 | engine, buffers and an instance of `ConvSelfOrthCoder`, step by step; any number of simulations |
| `ByteUtil`, `BinarySymmetricChannel` | `ByteUtil.cpp`, the class in `ModelingEngine.h` | bytes as sets of positions, position 0 the most significant |
| `UncodedLine` | `RandomDataBlockGenerator` and the channel after it | a block starts generated (`GeneratorInit`) or packed by a coder (`CoderInit`) |
| `BinaryMatrix`, `HemmingCoder` | `BinaryMatrix.cpp`, `HemmingCoder.cpp`, `PMatrixColGenerator.cpp` | a matrix is its size and the places of its ones |
| `DefinitionFile` | one line of a file of definitions (`StringUtils`, `VectorUtils`, `GeneratingPolynom`, `main`) | a line is what it holds, and indexes become branches; `WellFormed` is what the reader relies on |
| `ModelingTool` | `main`, `MiscUtils` | one state machine for each of `Tools`, sharing `cache` |
| `TestRun` | a run of a tree of tests (`TestComposite`, `TestCase`, `TestResult`) | the tests are a tree (`TreeAssumption`), the recursion is the stack `frames`; used by both runners |
| `MfcTestRunner` | `TestRunnerDlg`, `ActiveTest` | the two threads are disjoint sets of actions; `gui` and `callback` say where they are |
| `QtTestRunner` | `TestRunnerModel`, `TestRunnerThread`, dialog | posted events are a queue |
| `TestRunners` | a program linked with one of the two | `toolkit` says which |
| `MC...` | codes, bytes, command lines and trees of tests for TLC | |
| `...Proofs` | proofs | |

Data are abstracted throughout: a register bank is the set of its cells
`<<branch, age>>` that hold a one, a block is the set of the lines (or bits) that
carry a one, a noise probability is a tuple that says where it comes from. Control
is not: in the library each action is a whole call of the code, and where another
thread or run can come in between it is what happens up to the next such point. The
loop of `DecodeCore` over the data branches, in which each branch sees the flags that
are left by the branches before it, is the predicate `PassThreshold`, which exactly one
set of branches satisfies; the hub's loop over its sections is a function that is
defined from section to section.

`sent`, `errors` (in the coders), `exceeded` (in `CodecSimulation`), `noisy` (in
the channel), `drawn` (in `UncodedLine`) and `startedSinceStop` (in `TestRun`) are
history variables: the code has none, no guard of a step of the
code depends on them, and they are there for the properties. The exception is the
bound on the line: `HandleData` of the coders refuses noise that would put more
than `MaxErrors` errors into a span. It makes "a line that stays within the code
distance" a constant of the model, and where it is large enough it is no
restriction at all. The line errors of the coder models are whatever differences
arrive; what the shipped channel makes of the bits chosen for noise is the subject
of `BinarySymmetricChannel`.

Each module that has properties also holds the mutants, operators next to the one
they replace and marked "Mutant": plausible errors in the code that the properties
are shown to detect.

## 3. What the runs check

| Run | Instance | What it shows |
|---|---|---|
| `codec_noisy` | two data branches on one check branch, m = 2, up to 3 errors in a span (the code corrects 1) | after any number of wrong decisions the decoder returns what was sent once the span is clean (`CleanSpanDecodes`), raised flags have an error behind them (`FlagsHaveErrors`), and within the distance no intact bit is changed (`NoFalseCorrection`) |
| `codec_within_distance` | the code of the repository's tests, 1 + x + x^4 + x^6, up to 2 errors in a span | every decoded bit is the one that was sent (`DecodesWhatWasSent`), flags stand for errors still to be decided (`NoStaleFlags`), and the coder is a delay line of m blocks (`ImplementsDelayLine`) |
| `multi_noisy` | three sections, m = 1, no bound on the errors | `DiffMarksChanges`, `CleanSpanDecodes`, and the first section is a `ConvSelfOrthCoder` (`FirstSectionIsThresholdDecoder`, a refinement) |
| `multi_delay_line` | two sections, two data branches, m = 2, one error in a span | the coder with all its sections is a delay line of m blocks for each section |
| `simulation` | two data branches on two check branches, m = 1, with and without the coder, up to 2 errors in a span (the code corrects 1), simulations one after the other | the queue is as long as the decoder is late (`QueueHoldsLatency`); the counters fit (`CountersAgree`), without a coder the blocks in error are those with noise (`UncodedCountsNoise`), and the rates are shares of what was counted (`RatesAreShares`); no block is lost or deleted twice (`BlocksHaveOneOwner`); queue and registers hold the same blocks (`QueueMatchesRegisters`), each decoded block is compared with its own source (`CountsDecoderErrors`), nothing is counted unless the line has exceeded the distance (`CountsOnlyBeyondDistance`); a simulation ends if errors keep coming (`EndsIfErrorsKeepComing`); and the composition is an engine with some decoder (`ImplementsEngine`, a refinement) |
| `channel` | blocks of nine bits, drawn into uninitialised memory or packed by a coder, every choice of noisy bits | a generated block is what was drawn (`BlockHoldsDrawnBits`); noise turns zeros into ones only at chosen bits (`GainedBitsAreNoisy`), clears ones only at or behind them and in their byte (`LostBitsFollowNoise`); `IsDataEqual` and `ComputeBitDiff` are right (`ComparisonsAgree`); `CopyBitsData` loses the last bit of a byte and no other (`CopyLosesLastBitsOnly`) |
| `hemming` | the (7, 4) code, every single error, call after call | code words pass the sorted matrix (`CodewordsPassTheCheck`), any single error is repaired (`CorrectsOneError`) |
| `tool` | two runs in one directory, ten command lines, six files of definitions, kills at any moment | a cached probability is of the run's own ratio (as printed) and rate (`NoiseFitsItsName`); no run is refused for what it has found in the cache (`RefusesForItsArguments`); from a well-formed file the coder gets the code that the file means, and the engine the decoder's delay (`CoderIsSetUp`); `main` comes through its files but for three cases that are named (`ComesThroughItsFiles`) |
| `test_runners` | a suite with a test and an inner suite of two, an empty suite, both toolkits, all clicks | after a stop at most one more test starts (`StopIsHeeded`); MFC: dialog and collector count the same run (`DialogAgreesWithCollector`), the dialog is idle after a run (`IdleAfterRun`), a run ends unless the threads wait for each other (`RunEndsOrEmbraces`); Qt: once its events are taken the dialog shows what was counted (`LabelsCatchUp`), and it can always run again (`CanRunAgain`) |
| `hemming_fifteen` | the (15, 11) code, no noise | violated: see 4 |
| `channel_inverts_bits` | blocks of two bits | violated: see 4 |
| `runner_deadlock` | the MFC runner, two tests | violated: see 4 |

### Bounds, and why they are enough

* *Codes.* `TwoInputsCode` is the smallest one in which two data branches compete
  for the flags of one check branch, so that the order of the loop and the dropping
  matter. `CrossedCode` has two check branches of which one adds up both data
  branches. `TestCode` is the repository's own. `ShortCode` keeps the instance with
  three sections small; with m = 1 a block is new in one call,
  oldest in the next, which is where an off-by-one shows. The theorems of section 5
  hold for every code.
* *Errors.* In `multi_noisy` the bound 6 is the number of places in
  the span (two lines, three ages): the line is unrestricted. In `codec_noisy` three
  errors, where the code corrects one, are enough for wrong decisions of both
  branches and for dropped flags that still had an error; in `simulation` two,
  where the code corrects one, are enough for blocks to be counted as wrong. In
  the other two runs the bound is the code distance itself.
* *Sections.* Two are needed for data to pass from one to the next; three for a
  middle section that both takes and gives difference bits.
* *Counters of the engine.* `_counter`, `_noiseCounter`, `loopCounter` and `v` grow
  without end; from `MaxCount` on the model does not tell their values apart. The
  code compares them only with the latency, and `MaxCount > Latency`. They never
  become smaller within a simulation, so the properties that need exact values say
  that they are below `MaxCount`. `limitErrors` is small because each error is
  counted in the same way. The theorems about the engine hold for every `MaxCount`.
* *Channel.* Nine bits are two bytes, the second with padding; every position of a
  byte occurs, and the length is not a multiple of eight, which is the case in
  which `IsDataEqual` reads a padding bit. Uninitialised bytes are all zeros, all
  ones, or a mixture (`GarbageBytes`); the theorems hold for any.
* *Tool.* The second run has no arguments: it only shares the cache with the first,
  which has all ten command lines (with and without raw data, given, cached, computed
  and tabulated probabilities, all decoders). The ratios 4 and 4.000001 are printed
  alike, and at 20 the probability vanishes. The files are in both
  numberings, one whose first zero comes in the middle, one that breaks off with
  a line of another kind, one without items, one with more data than check branches.
* *Tests.* Two levels of suites are needed for a stop that has to end both loops, two
  tests in the inner one for a stop between them, and the empty suite is the case in
  which no `endTest` comes.
* *Deadlock* is checked in every run but `channel`, where `MakeNoise` really stops
  at the end of the block, and `test_runners` and `runner_deadlock`, where two threads
  of the MFC runner really wait for each other: that is what the latter run shows.

### Fairness

* *Engine* (`SimulationSpec`): weak fairness of the steps of `SimulateTotal` while it
  runs: the loop waits for nothing and nobody, each call in it returns. The call of
  `SimulateTotal` itself has no fairness, since nobody has to simulate again. Ending
  needs a premise about the data: if blocks in error keep coming (`[]<>BlockInError`).
  Without it the loop does run for ever, and `CountsOnlyBeyondDistance` shows a case:
  a line that stays within the code distance.
* *Tool* (`Spec` of `ModelingTool`): weak fairness of `SetUp(t)` for each run: a process
  that is there is scheduled, and what it does before the simulation are reads, writes
  and computations of its own. Starting, killing and the end of a simulation have none.
* *Runners* (`MfcSpec`, `RunnersSpec`): weak fairness of the thread of the tests (each
  method of a test returns) and of the window where it does not wait for the user;
  strong fairness of the messages that the tests send to the window and of
  Qt's posted events. The message loop serves a message of another thread before
  input, and Qt takes posted events each time round, so that a user who clicks for ever
  does not hold them off; but the window is not in its loop all the time, which
  is why weak fairness would not do. Clicks have none.

## 4. Where the code differs from what is said of it

Shown by a run:

* `InvertsTheNoisyBits` (code): `UnsetBit` (`ByteUtil.cpp:138`) has a mask that keeps
  the bits before `p` and the last `p - 1` ones. Only for `p = 4` does it clear bit `p` alone; below
  it clears other bits too, above it clears nothing. So noise on a bit that is one
  may have no effect or may clear its neighbours.
* `DecodesCleanBlocks` (code against the head of the tool): `HemmingCoder` sorts the rows of its checking matrix and
  leaves the bits of the block where they are. For (7, 4) sorting happens to map code
  words to code words; for (15, 11) it does not, and a clean block is damaged.
* `PendsUntilCompleted` (code against a comment of `ActiveTest.cpp`): the destructor of `ActiveTest`
  waits in the window's thread for the thread of the tests, which waits for an
  answer of the window to the message it has sent. It takes a click on the history
  during a run and a new run; Stop gets there through the lock.

Met while modelling, and part of the models, without a run of their own:

* The tool calls its limit the number of erroneous bits; the loop counts blocks in error.
* With a latency of 6 the first six iterations return null, which the tests of
  a coder's iteration dereference.
* `GetBitForByteData` and `SetBitForByteData` look for the last bit of a byte in the
  next one (`CopyLosesLastBitsOnly`).
* With more data than check branches the destructor of a coder throws: the run aborts after
  its results are written (`Clean`).
* A line of another kind in a definition file aborts the run (`FailOnLine`); a definition
  that is over before its first item, raw data without "Smin", and a ratio that the table
  does not have make it run for ever (`Endless`).
* The Qt dialog offers a run while the thread of the last one is still ending, and
  ignores the click (`RunTest`); a suite without test cases leaves the MFC dialog busy
  until Stop (`IdleAfterRun`).

## 5. What is proved

`tlapm` checks every theorem; nothing is assumed but the named `ASSUME`s on constants
and the hypotheses below.

**Threshold coder** (`ConvSelfOrthCoderProofs`, on lemmas of `CoderRegistriesProofs`),
for every definition, memory and number of branches:

| Theorem | Hypothesis | Property |
|---|---|---|
| `TypeCorrect` | | `TypeOK` |
| `ForgetsErrors` | | `CleanSpanDecodes` |
| `RaisedFlagsHaveErrors` | | `FlagsHaveErrors` |
| `NeverSpoils` | `SelfOrthogonal` | `NoFalseCorrection` |
| `CorrectsErrors` | `LineWithinDistance` | `DecodesWhatWasSent` |
| `KeepsNoStaleFlags` | `LineWithinDistance` | `NoStaleFlags` |
| `CodecIsDelayLine` | `LineWithinDistance` | `ImplementsDelayLine` |

The properties speak of the time after a call of `Decode`, and are not inductive.
Between the calls the sender's registers, the errors' ages and the decoder's
registers are out of step by one; `SentAge` and `ErrorAge` say by how much. The invariant
`IInv` says that the decoder's registers are those of the sender changed by the line
errors (`DecoderTracks`), that the block on its way is the encoded one but for
the newest errors (`BlockTracks`), and that each raised flag has an error in its
support (`FlagsExplained`). That a clean span is decoded as it was sent follows, because without an
explanation no flag is raised; `NoFalseCorrection` follows by counting: in a
self-orthogonal code the supports of the flags of an intact bit are disjoint, so there are no
more raised flags than errors.

`DistanceInv` adds what holds on a line within the distance: flags are explained by errors not
decided yet (`FlagsCurrent`), and an error that is alone in a support has raised the
flag (`LoneErrorsRaise`). Hence a bit in error has more raised flags than the
threshold (`TruePass`), although flags may have been dropped for a branch decided
before it: a dropped flag showed that branch's error as well and was not lone.

`LineWithinDistance` is: the code is self-orthogonal, each data branch has an item, and
`MaxErrors` is at most half the threshold distance. It is a hypothesis and not an
assumption of the module, because the program does not check it. In particular
`coder_definition.txt`, as shipped, is not self-orthogonal: both its check branches add up the newest
bits of both data branches, so two flags of a bit share another bit, and the
theorems that need the hypothesis do not apply to it.

`CoderRegistriesProofs` states the lemmas about any registers that are shifted, tapped and
dropped in this way, not about the variables of a module: they serve for `ConvSelfOrthCoder`,
for each section of a hub, and for the coder inside the composition.

**Multithreshold coder** (`MultiThresholdCoderProofs`), for every definition, memory and any
number of sections:

| Theorem | Hypothesis | Property |
|---|---|---|
| `MarksTheChanges` | | `DiffMarksChanges` |
| `ForgetsErrors` | | `CleanSpanDecodes` |
| `FirstSectionIsPlain` | at least two sections | `FirstSectionIsThresholdDecoder` |
| `SectionsAreDelayLine` | `LineWithinDistance` | `ImplementsDelayLine` |

Here `LineWithinDistance` is that the code is self-orthogonal and checks every data branch
(`CorrectingCode`) and that `MaxErrors` is within its distance. The functions that a call of the hub
defines from section to section are solutions of their equations; that there is one is shown over
the sections, by looking at the least one up to which there is none. `IInv` says that the
registers of the sections are one chain: what leaves a section is what the next one begins with, a
difference bit is set where a bit in the chain is not the one that was received (`MarksChanges`), and each flag and each
change has a line error behind it (`TracesExplained`). Under the hypothesis `DistanceInv` adds
that the first section has left no wrong bit (`LaterBitsCorrect`), so that a later one sees only
flags of check bits that arrived wrong (`LaterFlagsOwn`) and its own difference bit: too few to exceed the threshold,
so that it takes back nothing.

**Engine** (`CodecSimulationProofs`, first part), for blocks of any size, any latency and limit, and
whatever the decoder returns:

| Theorem | Property |
|---|---|
| `TypeCorrect` | `TypeOK` |
| `QueueIsAsLateAsDecoder` | `QueueHoldsLatency` |
| `CountersFit` | `CountersAgree` |
| `UncodedErrorsAreNoise` | `UncodedCountsNoise` |
| `RatesFit` | `RatesAreShares` |
| `SimulationCountsDown` | `ComesNearerToItsEnd`: until its end a simulation waits for another block in error, and nothing adds to these |

`IInv` carries the properties into the middle of an iteration, where the queue has one
item more (`AsLateAsDecoder`), and adds what they rest on: `loopCounter` never exceeds
`_counter`, so that an item is there whenever `SimulateTotal` would count one; a running
simulation has not reached its limit (`SimulationRuns`); and without a coder
`_noiseCounter` is ahead of the blocks in error by the noise on the block about to
be counted (`NoiseFits`). For the rates `RatesInv` says that a simulation ends with a block
that it counts, and that the channel is ahead of the decoder by the block under way.

The last theorem states a property of its own, the variant of `EndsIfErrorsKeepComing`. `LateIterations` counts the
iterations that a simulation does not count yet, though in a second one they have items that an earlier one left, and
`ErrorsToGo` the blocks in error still missing. Each iteration takes one off the first, and then has an item, which takes one
off the second if it is in error; the simulation ends exactly when none is missing, so no block in error is
counted twice and none behind the last.

**Composition** (`CodecSimulationProofs`, second part), for every code, latency and noise, with a coder
and without one:

| Theorem | Hypothesis | Property |
|---|---|---|
| `EngineIsImplemented` | | `ImplementsEngine` |
| `QueueHoldsRegisters` | | `QueueMatchesRegisters` |
| `ErrorsAreTheDecoders` | | `CountsDecoderErrors` |
| `NoBlockIsLost` | | `BlocksHaveOneOwner` |
| `CountsOnlyAfterExceeding` | `CorrectingCode` | `CountsOnlyBeyondDistance` |

`ComposedInv` says that the coder's phase follows the engine's stage and, without a
coder, that the block on the line is that of the queue's only item. So each step is one of the
engine, `IInv` carries over, and so do the engine's theorems. An item at a place of the queue then
stands for the cells of one age in the coder's registers: `Encode` makes all of them older by one as
the queue grows, and the item that is taken is of age `Latency`, which is what `Decode` returns.
`BuffersInv` adds to the ownership of the blocks what each item has got by the
stage, since a received block that was overwritten would be lost; that `new` returns an
address not in use (`FreshAddress`) is proved from its definition. For
`CountsOnlyAfterExceeding` the invariant of the threshold coder is carried through the loop of
the engine for as long as no span has exceeded the distance: a decoded block then is the one that was
sent, which is the source of the item that it is compared with.

**Generator and channel** (`UncodedLineProofs`), for blocks of any length and any
content of uninitialised memory:

| Theorem | Property |
|---|---|
| `GeneratedAsDrawn` | `BlockHoldsDrawnBits` |
| `BlocksStayPacked` | `TypeOK` of the channel: the padding stays zero |
| `NoOtherBitGained` | `GainedBitsAreNoisy` |
| `LossStaysInTheByte` | `LostBitsFollowNoise` |
| `ComparisonsAreRight` | `ComparisonsAgree` |
| `OnlyLastBitsAreLost` | `CopyLosesLastBitsOnly` |

While a block is drawn (`DrawnInv`), each byte below `index` holds exactly the drawn
bits that are its own: `arr[i]` is cleared for every bit `i`, and byte `i` begins with
bit `8 i`, which comes no earlier than bit `i`. In the channel (`ChannelInv` with
`NoiseInv`), each bit gained is a noisy one, and each bit lost has a noisy one at it or
before it in its byte. What remains is arithmetic about bytes and positions. The loop of
`CopyBitsData` is a fold over the bits: unfolded, it is a sequence of arrays, each made from the one before by
copying a bit, and the bits below the index are those that were copied, without the last one
of each byte.

**Hamming coder** (`HemmingCoderProofs`), for blocks of any length:

| Theorem | Hypothesis | Property |
|---|---|---|
| `UnsortedMatrixPassesCodewords` | | `UnsortedMatrixPasses` |
| `CodewordsPass` | `RowsPassTheCheck` | `CodewordsPassTheCheck` |
| `SingleErrorsCorrected` | `RowsPassTheCheck`, `RowsNumberTheirBits`, at most one error | `CorrectsOneError` |

A vector times a matrix is the set of the columns in which an odd number of the vector's rows have
a one (`Sum`), and such a sum is linear (`SumIsLinear`), since the parity of a symmetric difference is that of
both sets together. So a matrix that passes the rows of the generating matrix passes all code words (`WordsPass`, by
the smallest source block for which it would not), and a syndrome is that of the noise alone. `BlockInv` says that
the block on the line is the code word of `source`, with the noise once it has come. The checking matrix as it is
before it is sorted passes all code words of every length, and so what damages blocks in section 4 is
the sorting alone. Whether the sorted one does depends on the lengths: it does for (7, 4), and not for (15, 11), which is why
`RowsPassTheCheck` is a hypothesis and no assumption; the code looks at neither hypothesis. For (7, 4) both
hold: `MCHemmingCoder` has TLC evaluate `RowsNumberTheirBits`, and `CodewordsPassTheCheck`, which the run `hemming`
checks for every source block, includes `RowsPassTheCheck`: the rows are the code words of single bits.

**Tool** (`ModelingToolProofs`), for any number of runs, any command lines and files,
and kills at any moment:

| Theorem | Property |
|---|---|
| `NoiseIsItsOwn` | `NoiseFitsItsName` |
| `RefusalIsItsOwn` | `RefusesForItsArguments` |
| `CoderFitsItsFile` | `CoderIsSetUp` |
| `NeverWaits` | `NeverStuck`: but for the cases of `Endless`, some step of the set-up is always possible |
| `SetUpIsFinite` | `ComesNearerToSimulation`: each such step leaves fewer, and no other run puts one back |

`CacheInv` says that each file, written by whatever run, is empty or fits its name, and
`NoiseInvOf(t)` says by the stage of a run where its number is from, so that one which is
about to write holds a number of its own name; the
properties are about the runs, and without the invariant of the files one run could not rely on
another. For the refusals `CacheZeroInv` says that a zero in a file is of a ratio that
vanishes, which two ratios printed alike do together (`ToolAssumption`). For the coder
`FileInvOf` says that the items read so far are the meant ones of the lines so far, and that the reader
knows the numbering as soon as it has met an item; it needs all that `WellFormed`
says: an item in front of "Smin" or behind the time would be meant and not be read, and one in front of
the first zero would be read with other indexes than meant. Of the files it is assumed only that they are lines (`FilesAssumption`). What a well-formed file means is a definition as `CoderDefinitions`
assumes it (`ItemsAreSound`), and the arguments that `main` computes from it fit it as `CoderRegistries` assumes
(`RegistersFit`): these two assumptions about the constants of the coders are theorems about the tool.

The last two, of properties in the module of the proofs, are what safety has to say about
`ComesThroughItsFiles`. `StepsToGo` counts the lines that are left and the stages behind them. `WayInvOf` says that a run
which still skips has not met "Smin" and that one which has left its first line behind has an item, unless the
definition is over there; an item makes k0 and n0 positive and so the rate a number (`RateOfItems`), which the
loop of the integration needs. They presuppose no well-formed file, only indexes that are natural numbers
(`IndexesAreNatural`). The second also says that a run stays as `Endless` as it was started.

**Runners** (`TestRunnersProofs`), for every tree of tests, both toolkits and all clicks:

| Theorem | Property |
|---|---|
| `RunnersTypes` | `TypeOK` |
| `StopTakesEffect` | `StopIsHeeded` |
| `DialogCountsTheRun` | `DialogAgreesWithCollector` |
| `DialogIsIdleAgain` | `IdleAfterRun` |
| `LabelsShowTheRun` | `LabelsCatchUp` |
| `DialogCountsAllTests` | `DialogCountsTheTree`: never more tests than `countTestCases`, and all of them at the end |
| `ProgressBarFills` | `ProgressStaysInRange`: the bar for Qt is never beyond its end, and comes to it |
| `FinishedSignalIsNeverLost` | `SignalIsDue`: the dialog for Qt waits only for what will come |
| `EmbraceIsForEver` | `NothingMovesInTheEmbrace`: what RunEndsOrEmbraces excepts is a deadlock |
| `RunsAreFinite` | `StepsAreLeft` and `RunComesNearerToItsEnd`: a run can only fail to end by waiting |

The last five state properties of their own, in the module of the proofs. `RunInv` keeps the places of the stack of suites within the tree and ties the phase to
a running test; `StopInv`
says that the one test which may start after a stop has been started by then. `MfcInv` and `CountsInv` say, for each place
in a callback, how far the dialog is behind the collector, and that a run begins only
when the thread of the one before is over. The counts rest on weights (`IsWeight`): a test case weighs 1, and a suite some number `extra` more than its
children together. There is one because the tests are a tree (`WeightExists`); with nothing extra it is
`countTestCases`. Of a suite on the stack some of that weight is left (`LeftIn`), and `ChildIsLeft` says how much a step through the
tree takes from what is left of the whole stack. So `SelectedInv` has the tests counted, the one under
way and those left make up what `countTestCases` gives for the test that was chosen, in a run that nobody has stopped,
and not more in one that was; `IdleInv` follows, and for Qt `ProgressInv`, which also counts
the events still in the queue. For `RunsAreFinite` a suite weighs 2 extra, one for the step into it and one for the step out,
each test case 36 steps at most, and what is left of the one under way comes on top (`StepsToGo`): this is the variant on
which every run ends, and with `EmbraceIsForEver` it is what safety has to say about `RunEndsOrEmbraces` and
`CanRunAgain`. `LabelsInv` says that the labels would reach the
model's counters if the queued events were taken in their order (`Follow`), whatever the length of the
queue, and `QtInv` that a queue left by an earlier run is empty when counters are reset:
the finished event is the last one, and the dialog cannot run before it is taken.

**Only model-checked**

* Liveness under fairness, which is out of the prover's reach, and so is `ENABLED`:
  `EndsIfErrorsKeepComing`, `ComesThroughItsFiles`, `RunEndsOrEmbraces`, `CanRunAgain`. The
  variants are proved (`SimulationCountsDown`; `SetUpIsFinite`, with `NeverWaits`; `RunsAreFinite`, with
  `EmbraceIsForEver`), and what stays with TLC is that fairness makes the steps happen.
* That the Hamming code (7, 4) has what its theorems presuppose (`RowsPassTheCheck`, `RowsNumberTheirBits`): the
  numbers of its columns are defined by recursion (`Generator`), and TLC computes them.

The provers have no induction schema to instantiate. Where a recursive function or a fold had to be
unfolded (the sections of a hub, `countTestCases`, `CopyBitsData`) or a claim is about sets of any size (`WordsPass`), the proofs take the least number for which the
claim fails, from the well-foundedness of the natural numbers (`InductiveSet`, `MinOfNaturals`).

## 6. What is not modelled

Of about 39,900 lines of implementation some 35,000 are the vendored
cppunit-1.12.1. The repository's own code is about 4,700 lines, of which the models
stand for most that keeps or changes state. In cppunit only the parts with states
and threads are modelled: the run of the tree and the two graphical runners. The rest (layout
of windows in `DynamicWindow`, outputters, string and macro helpers, plug-in loading,
registries, examples and the framework's own tests) formats text or wraps the
platform, and has no protocol to check; so the models cannot stand for a large
share of the lines of the whole tree.

* `_storeItems`: `SetStoreItems` has no caller. So the result storages print an empty list.
* Writes behind an array (`RandomDataBlockGenerator`, `GetBitForByteData`), and leaks of registers.
* 32-bit overflow of the engine's counters (after 2^31 iterations).
* The numerical integration of the noise probability and floating point as such.
* The characters of lines and numbers; debug output; the contents of result files.
* `FakeCoder`, `BitDataBlockGenerator`, `SortColumnsAsc`, `LoadFromByteArray`,
  `IsSubMatrixEquals`, and `QSort`, `InvertByte`, `ReverseBitsInByte`, `FillDataInByte`
  and `FindBitLocationInData` of `ByteUtil`: nothing calls them.
* In the runners: closing the dialogs, the display of single failures (a click on one races with
  the thread of the tests, see the hazards), settings, test browser.
* The repository's own test program, but for the codes and expectations it states.

## 7. Plan

Done, in this order: definitions and registers; the threshold coder and its
abstraction; the multithreshold coder; the engine; channel and
bits; Hamming coder; the proofs of the threshold coder and of the engine; generator
and copies of blocks; buffers; the composition with and without a coder, and its refinement of the
engine; definition files, tool and cache; the run of a tree of tests and both
graphical runners; the proofs of generator, channel, tool, runners and composition; the lemmas
about registers made independent of their owner, and with them the proofs of the multithreshold
coder and of what the engine counts; the proofs about copies, the counts of a tree of tests and the
definition that a file means; the proofs about the Hamming coder; the progress of both runners
and the variant of their runs; the way of the tool through its files
and of a simulation to its end.

To do:

1. Closing the dialogs during a run, where the window's thread waits once more.
2. `decoderType` 2 in the composition: the multithreshold coder is checked against the delay
   line only.
