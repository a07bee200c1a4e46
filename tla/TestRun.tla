----------------------------------- MODULE TestRun -----------------------------------
(***************************************************************************)
(* How cppunit runs a tree of tests in the thread of a graphical test      *)
(* runner: TestComposite::run and TestCase::run, the protector around the  *)
(* methods of a test case, and TestResult with its flag to stop.  What the *)
(* listeners do when they are told of a test is the front ends' part, see  *)
(* MfcTestRunner and QtTestRunner.                                         *)
(***************************************************************************)
EXTENDS Integers, SequencesExt

CONSTANTS
  Suites,
  Cases,
  Children,         \* of a suite, in their order
  None

ASSUME TestsAssumption ==
  /\ Suites \cap Cases = {}
  /\ Children \in [Suites -> Seq(Suites \cup Cases)]
  /\ None \notin Suites \cup Cases

Tests == Suites \cup Cases

\* The tests are a tree: each suite stands above its children, so that no suite
\* contains itself.
ASSUME TreeAssumption ==
  /\ IsFiniteSet(Tests)
  /\ \E height \in [Tests -> 0 .. Cardinality(Tests)] :
       \A suite \in Suites : \A n \in DOMAIN Children[suite] :
         height[Children[suite][n]] < height[suite]

VARIABLES
  toolkit,              \* the front end that the program is linked with
  running,              \* there is a thread, and it has not come to its end
  frames,               \* the suites that are run, each with its next child
  test,                 \* the test case that is run
  phase,                \* where its run is
  thrown,               \* what the protector has caught, and in which phase
  m_stop,
  startedSinceStop      \* the tests that have started while m_stop was set

runVars == <<running, frames, test, phase, thrown, m_stop, startedSinceStop>>

Methods == {"setUp", "runTest", "tearDown"}
Calls == {"startTest", "addFailure", "endTest"}     \* the calls of the listeners

countTestCases[t \in Tests] ==
  IF t \in Cases THEN 1
  ELSE FoldLeft(LAMBDA count, child : count + countTestCases[child], 0, Children[t])

-----------------------------------------------------------------------------
RunInit ==
  /\ running = FALSE
  /\ frames = <<>>
  /\ test = None
  /\ phase = "idle"
  /\ thrown = <<>>
  /\ m_stop = FALSE
  /\ startedSinceStop = 0

\* A new TestResult, and a new thread that calls Test::run.
BeginRun(t) ==
  /\ running' = TRUE
  /\ m_stop' = FALSE
  /\ startedSinceStop' = 0
  /\ thrown' = <<>>
  /\ IF t \in Cases
     THEN frames' = <<>> /\ test' = t /\ phase' = "startTest"
     ELSE frames' = <<[suite |-> t, index |-> 1]>> /\ test' = None /\ phase' = "idle"

\* Mutant: all suites share the counter of the first.
AdvancedFirst(suites) ==
  [suites EXCEPT ![1].index = @ + 1]

Advanced(suites) ==
  [suites EXCEPT ![Len(suites)].index = @ + 1]

\* Mutant: a suite that has been entered runs to its end.
LeavesNever(frame) == frame.index > Len(Children[frame.suite])

\* The loop over the children comes to its end, or breaks since shouldStop().
Leaves(frame) == frame.index > Len(Children[frame.suite]) \/ m_stop

\* TestComposite::doRunChildTests; no listener overrides startSuite or endSuite.
RunChildTest ==
  /\ running
  /\ test = None
  /\ frames # <<>>
  /\ IF Leaves(Last(frames))
     THEN frames' = Front(frames) /\ UNCHANGED <<test, phase>>
     ELSE LET child == Children[Last(frames).suite][Last(frames).index]
          IN  IF child \in Cases
              THEN /\ frames' = Advanced(frames)
                   /\ test' = child
                   /\ phase' = "startTest"
              ELSE /\ frames' = Append(Advanced(frames), [suite |-> child, index |-> 1])
                   /\ UNCHANGED <<test, phase>>
  /\ UNCHANGED <<running, thrown, m_stop, startedSinceStop>>

\* TestCase::run: what follows a method; runTest is left out if setUp has failed.
After(method, succeed) ==
  CASE method = "setUp"   -> IF succeed THEN "runTest" ELSE "tearDown"
    [] method = "runTest" -> "tearDown"
    [] OTHER              -> "endTest"

\* A method of the test case under the protectors: it returns, an assertion of it
\* fails, or it throws anything else.
Protect(outcome) ==
  /\ phase \in Methods
  /\ IF outcome = "succeed"
     THEN phase' = After(phase, TRUE) /\ UNCHANGED thrown
     ELSE phase' = "addFailure" /\ thrown' = <<outcome, phase>>
  /\ UNCHANGED <<running, frames, test, m_stop, startedSinceStop>>

RunMethod == \E outcome \in {"succeed", "failure", "error"} : Protect(outcome)

\* The listeners have been told, and the thread goes on.
Told ==
  /\ phase \in Calls
  /\ phase' = CASE phase = "startTest"  -> "setUp"
                [] phase = "addFailure" -> After(thrown[2], FALSE)
                [] OTHER                -> "idle"
  /\ test' = IF phase = "endTest" THEN None ELSE test
  /\ thrown' = <<>>
  /\ startedSinceStop' = startedSinceStop + (IF phase = "startTest" /\ m_stop THEN 1 ELSE 0)
  /\ UNCHANGED <<running, frames, m_stop>>

TestsAreOver == running /\ frames = <<>> /\ test = None

EndThread ==
  /\ TestsAreOver
  /\ running' = FALSE
  /\ UNCHANGED <<frames, test, phase, thrown, m_stop, startedSinceStop>>

Stop ==
  /\ m_stop' = TRUE
  /\ UNCHANGED <<running, frames, test, phase, thrown, startedSinceStop>>

-----------------------------------------------------------------------------
RunTypeOK ==
  /\ toolkit \in {"mfc", "qt"}
  /\ running \in BOOLEAN
  /\ frames \in Seq([suite : Suites, index : Nat])
  /\ \A n \in 1 .. Len(frames) : frames[n].index \in 1 .. Len(Children[frames[n].suite]) + 1
  /\ test \in Cases \cup {None}
  /\ phase \in Methods \cup Calls \cup {"idle"}
  /\ thrown \in {<<>>} \cup ({"failure", "error"} \X Methods)
  /\ m_stop \in BOOLEAN
  /\ startedSinceStop \in Nat

(***************************************************************************)
(* TestResult::stop: however deep in the tree the run is, at most one more *)
(* test starts after it, the one that the thread was about to start.       *)
(***************************************************************************)
StopIsHeeded == startedSinceStop =< 1

=============================================================================
