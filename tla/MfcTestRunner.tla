-------------------------------- MODULE MfcTestRunner --------------------------------
(***************************************************************************)
(* The test runner for MFC: TestRunnerDlg, which lives in the thread of    *)
(* its window, and ActiveTest, which runs the tests in a thread of its own *)
(* (cppunit-1.12.1/src/msvc6/testrunner).  The dialog is a listener of the *)
(* tests, and its callbacks, which run in the thread of the tests while    *)
(* this holds the lock of TestResult, call controls of the window: such a  *)
(* call is a message to the thread of the window and returns when that     *)
(* thread has dealt with it, which it does in its message loop only.       *)
(*                                                                         *)
(* The space bar runs the tests as the Run button does (the accelerators   *)
(* of TestRunner.rc), so that OnRun is held off by m_bIsRunning alone.     *)
(* Closing the dialog is not modelled.                                     *)
(***************************************************************************)
EXTENDS TestRun

VARIABLES
  gui,              \* the thread of the window: where it is
  history,          \* the newest test of the model's history
  m_selectedTest,
  m_activeTest,     \* there are an ActiveTest, a TestResult and a collector
  m_runCompleted,
  m_bIsRunning,
  m_result,         \* what the collector has counted
  counts,           \* m_testsRun, m_errors and m_failures
  callback          \* how far the thread of the tests is in the dialog's callback

mfcVars == <<gui, history, m_selectedTest, m_activeTest, m_runCompleted, m_bIsRunning,
             m_result, counts, callback>>

NoCounts == [tests |-> 0, error |-> 0, failure |-> 0]

MfcInit ==
  /\ gui = "loop"
  /\ history \in Tests \cup {None}
  /\ m_selectedTest = None
  /\ m_activeTest = FALSE
  /\ m_runCompleted = FALSE
  /\ m_bIsRunning = FALSE
  /\ m_result = NoCounts
  /\ counts = NoCounts
  /\ callback = "none"

\* Mutant: startTest does not release the lock.
LockedByTest == callback # "none" \/ (test # None /\ phase # "startTest")

\* The thread of the tests holds the lock of m_testObserver while the listeners run.
Locked == callback # "none"

-----------------------------------------------------------------------------
\* The thread of the window.

\* OnRun, up to the destruction of the ActiveTest of the run before.
OnRun ==
  /\ gui = "loop"
  /\ ~ m_bIsRunning
  /\ m_selectedTest' = history
  /\ gui' = IF history = None THEN "loop" ELSE "freeState"
  /\ UNCHANGED <<history, m_activeTest, m_runCompleted, m_bIsRunning, m_result, counts,
                 callback, runVars>>

\* Mutant: the counters of the dialog are left as they are.
FreshCountsKept == counts

\* reset(): m_testsRun, m_errors and m_failures are 0.
FreshCounts == NoCounts

\* ~ActiveTest waits for the end of its run; then all that there is of it is freed,
\* and the next run begins.
FreeStateAndRun ==
  /\ gui = "freeState"
  /\ m_activeTest => m_runCompleted
  /\ gui' = "loop"
  /\ m_activeTest' = TRUE
  /\ m_runCompleted' = FALSE
  /\ m_bIsRunning' = TRUE
  /\ m_result' = NoCounts
  /\ counts' = FreshCounts
  /\ BeginRun(m_selectedTest)
  /\ UNCHANGED <<history, m_selectedTest, callback>>

\* OnStop, up to the lock of TestResult::stop.
OnStop ==
  /\ gui = "loop"
  /\ IF m_activeTest
     THEN gui' = "stop" /\ UNCHANGED m_bIsRunning
     ELSE m_bIsRunning' = FALSE /\ UNCHANGED gui
  /\ UNCHANGED <<history, m_selectedTest, m_activeTest, m_runCompleted, m_result, counts,
                 callback, runVars>>

StopAndBeIdle ==
  /\ gui = "stop"
  /\ ~ Locked
  /\ Stop
  /\ m_bIsRunning' = FALSE
  /\ gui' = "loop"
  /\ UNCHANGED <<history, m_selectedTest, m_activeTest, m_runCompleted, m_result, counts,
                 callback>>

\* The box with the history is there during a run too; choosing a test makes the
\* dialog idle.
OnSelectTestInHistoryCombo(t) ==
  /\ gui = "loop"
  /\ history # None
  /\ history' = t
  /\ m_bIsRunning' = FALSE
  /\ UNCHANGED <<gui, m_selectedTest, m_activeTest, m_runCompleted, m_result, counts,
                 callback, runVars>>

\* Browsing is for an idle dialog only.
OnBrowseTest(t) ==
  /\ gui = "loop"
  /\ ~ m_bIsRunning
  /\ history' = t
  /\ UNCHANGED <<gui, m_selectedTest, m_activeTest, m_runCompleted, m_bIsRunning, m_result,
                 counts, callback, runVars>>

-----------------------------------------------------------------------------
\* The thread of the tests.

\* TestResult locks, and the collector is the first to be told.
NotifyCollector ==
  /\ phase \in Calls
  /\ ~ Locked
  /\ m_result' = CASE phase = "startTest"  -> [m_result EXCEPT !.tests = @ + 1]
                   [] phase = "addFailure" -> [m_result EXCEPT ![thrown[1]] = @ + 1]
                   [] OTHER                -> m_result
  /\ callback' = "display"
  /\ UNCHANGED <<gui, history, m_selectedTest, m_activeTest, m_runCompleted, m_bIsRunning,
                 counts, runVars>>

\* TestRunnerDlg::startTest, addFailure, and endTest up to its last message.
UpdateDisplay ==
  /\ callback = "display"
  /\ gui = "loop"
  /\ counts' = CASE phase = "addFailure" -> [counts EXCEPT ![thrown[1]] = @ + 1]
                 [] phase = "endTest"    -> [counts EXCEPT !.tests = @ + 1]
                 [] OTHER                -> counts
  /\ IF phase = "endTest"
     THEN callback' = "displayed" /\ UNCHANGED runVars
     ELSE callback' = "none" /\ Told
  /\ UNCHANGED <<gui, history, m_selectedTest, m_activeTest, m_runCompleted, m_bIsRunning,
                 m_result>>

\* Mutant: one test more is waited for.
AllTestsAndOneMore == counts.tests > countTestCases[m_selectedTest]

AllTestsRun == counts.tests >= countTestCases[m_selectedTest]

\* The end of endTest: after the last test, beIdle.
CheckTestsRun ==
  /\ callback = "displayed"
  /\ IF AllTestsRun
     THEN m_bIsRunning' = FALSE /\ callback' = "enable" /\ UNCHANGED runVars
     ELSE callback' = "none" /\ Told /\ UNCHANGED m_bIsRunning
  /\ UNCHANGED <<gui, history, m_selectedTest, m_activeTest, m_runCompleted, m_result, counts>>

\* The buttons are enabled by messages.
EnableButtons ==
  /\ callback = "enable"
  /\ gui = "loop"
  /\ callback' = "none"
  /\ Told
  /\ UNCHANGED <<gui, history, m_selectedTest, m_activeTest, m_runCompleted, m_bIsRunning,
                 m_result, counts>>

SetRunCompleted ==
  /\ EndThread
  /\ m_runCompleted' = TRUE
  /\ UNCHANGED <<gui, history, m_selectedTest, m_activeTest, m_bIsRunning, m_result, counts,
                 callback>>

RunTests ==
  \/ (RunChildTest \/ RunMethod) /\ UNCHANGED mfcVars
  \/ NotifyCollector
  \/ CheckTestsRun
  \/ SetRunCompleted

Messages == UpdateDisplay \/ EnableButtons

WindowGoesOn == FreeStateAndRun \/ StopAndBeIdle

User ==
  \/ OnRun
  \/ OnStop
  \/ \E t \in Tests : OnSelectTestInHistoryCombo(t) \/ OnBrowseTest(t)

MfcNext ==
  /\ toolkit = "mfc"
  /\ RunTests \/ Messages \/ WindowGoesOn \/ User
  /\ UNCHANGED toolkit

vars == <<toolkit, runVars, mfcVars>>

MfcInitial == toolkit = "mfc" /\ RunInit /\ MfcInit

\* The thread of the tests goes on (each test comes to its end), and so does that of
\* the window.  It deals with the messages of other threads before those of the user
\* whenever it is back in its loop, so that no message is put off for ever.
MfcSpec ==
  /\ MfcInitial
  /\ [][MfcNext]_vars
  /\ WF_vars(MfcNext /\ RunTests)
  /\ WF_vars(MfcNext /\ WindowGoesOn)
  /\ SF_vars(MfcNext /\ Messages)

-----------------------------------------------------------------------------
MfcTypeOK ==
  /\ RunTypeOK
  /\ gui \in {"loop", "freeState", "stop"}
  /\ {history, m_selectedTest} \subseteq Tests \cup {None}
  /\ {m_activeTest, m_runCompleted, m_bIsRunning} \subseteq BOOLEAN
  /\ m_result \in [{"tests", "error", "failure"} -> Nat]
  /\ counts \in [{"tests", "error", "failure"} -> Nat]
  /\ callback \in {"none", "display", "displayed", "enable"}

(***************************************************************************)
(* Whenever the listeners have been told, the dialog shows what the        *)
(* collector has counted of the same run, less the test that is under way; *)
(* no callback of an earlier run is counted in a later one.                *)
(***************************************************************************)
UnderWay == IF phase \in Methods \cup {"addFailure", "endTest"} THEN 1 ELSE 0

DialogAgreesWithCollector ==
  toolkit = "mfc" /\ ~ Locked =>
    m_result = [counts EXCEPT !.tests = @ + UnderWay]

(***************************************************************************)
(* When a run is over, the dialog is idle again and can run tests.  There  *)
(* is one exception: a suite without any test case never has an endTest.   *)
(***************************************************************************)
IdleAfterRun ==
  m_bIsRunning /\ m_runCompleted => countTestCases[m_selectedTest] = 0

(***************************************************************************)
(* A run that has begun ends, unless the two threads wait for each other:  *)
(* the callback for the window, and the window for the lock or for the end *)
(* of the run.  It takes a click during the run to get there.              *)
(***************************************************************************)
Embraced == callback \in {"display", "enable"} /\ gui \in {"freeState", "stop"}

RunEndsOrEmbraces == (toolkit = "mfc" /\ running) ~> (~ running \/ Embraced)

(***************************************************************************)
(* "Pend until the test has completed" (ActiveTest.cpp): the destructor    *)
(* waits until the tests are over, and then it returns.                    *)
(***************************************************************************)
PendsUntilCompleted == gui = "freeState" ~> gui # "freeState"

=============================================================================
