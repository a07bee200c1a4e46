--------------------------------- MODULE QtTestRunner --------------------------------
(***************************************************************************)
(* The test runner for Qt: TestRunnerModel and TestRunnerThread with the   *)
(* dialog that is connected to their signals (cppunit-1.12.1/src/          *)
(* qttestrunner).  The thread of the tests posts events, which the thread  *)
(* of the window takes in their order; a slot runs to its end before the   *)
(* next event or click.  The TestResult has no lock of its own, and the    *)
(* critical sections of the model are short: each callback is one step.    *)
(*                                                                         *)
(* Closing the dialog is not modelled, nor that the failures and threads   *)
(* of earlier runs are never deleted.                                      *)
(***************************************************************************)
EXTENDS TestRun

VARIABLES
  dialog,           \* what the buttons are for: see QtStates
  testToRun,        \* the most recent test
  numberOf,         \* _numberOfTestCase, -Run and -Failure of the model
  events,           \* that the model has been posted
  posted,           \* the thread has posted its finished event
  labels            \* what the dialog shows of numberOf, and how many failures it lists

qtVars == <<dialog, testToRun, numberOf, events, posted, labels>>

\* The state of the buttons; "stopTest" is the middle of that slot.
QtStates == {"canRun", "running", "stopTest", "stopping"}

Counters(t) == [testCase |-> countTestCases[t], run |-> 0, failure |-> 0]
Labels(t) == [testCase |-> countTestCases[t], run |-> 0, failure |-> 0, listed |-> 0]

QtInit ==
  /\ dialog = "canRun"
  /\ testToRun \in Tests
  /\ numberOf = Counters(testToRun)
  /\ events = <<>>
  /\ posted = FALSE
  /\ labels = Labels(testToRun)

-----------------------------------------------------------------------------
\* The thread of the window.

\* TestRunnerDlg::runTest and TestRunnerModel::runTest; the request is ignored while
\* the thread is there, with its events taken perhaps.
RunTest ==
  /\ dialog = "canRun"
  /\ IF running
     THEN UNCHANGED <<dialog, numberOf, posted, labels, runVars>>
     ELSE /\ numberOf' = Counters(testToRun)
          /\ labels' = Labels(testToRun)
          /\ dialog' = "running"
          /\ posted' = FALSE
          /\ BeginRun(testToRun)
  /\ UNCHANGED <<testToRun, events>>

\* Mutant: the box with the recent tests stays enabled during a run.
CanSelectAlways == QtStates \ {"stopTest"}

\* The states in which a test can be chosen.
CanSelect == {"canRun"}

\* MostRecentTests::setTestToRun and resetTestReportCounterFor, which returns if the
\* thread is there.
SelectTestToRun(t) ==
  /\ dialog \in CanSelect
  /\ testToRun' = t
  /\ IF running
     THEN UNCHANGED <<numberOf, labels>>
     ELSE numberOf' = Counters(t) /\ labels' = Labels(t)
  /\ UNCHANGED <<dialog, events, posted, runVars>>

\* TestRunnerModel::stopRunningTest ...
StopTest ==
  /\ dialog = "running"
  /\ dialog' = "stopTest"
  /\ IF running THEN Stop ELSE UNCHANGED runVars
  /\ UNCHANGED <<testToRun, numberOf, events, posted, labels>>

\* ... and, if the thread is still there, beStoppingTest.
BeStoppingTest ==
  /\ dialog = "stopTest"
  /\ dialog' = IF running THEN "stopping" ELSE "running"
  /\ UNCHANGED <<testToRun, numberOf, events, posted, labels, runVars>>

\* TestRunnerModel::event and what it emits.
ProcessEvent ==
  /\ dialog # "stopTest"
  /\ events # <<>>
  /\ LET event == Head(events)
     IN  /\ labels' = CASE event.of = "run" -> [labels EXCEPT !.run = event.number]
                        [] event.of = "failure" ->
                             [labels EXCEPT !.failure = event.number, !.listed = @ + 1]
                        [] OTHER -> labels
         /\ dialog' = IF event.of = "finished" THEN "canRun" ELSE dialog
  /\ events' = Tail(events)
  /\ UNCHANGED <<testToRun, numberOf, posted, runVars>>

-----------------------------------------------------------------------------
\* The thread of the tests.

Post(event) == events' = Append(events, event)

\* The callbacks of the model: startTest does nothing, the others count and post.
NotifyModel ==
  /\ Told
  /\ CASE phase = "startTest" -> UNCHANGED <<numberOf, events>>
       [] phase = "addFailure" ->
            /\ numberOf' = [numberOf EXCEPT !.failure = @ + 1]
            /\ Post([of |-> "failure", number |-> numberOf.failure + 1])
       [] OTHER ->
            /\ numberOf' = [numberOf EXCEPT !.run = @ + 1]
            /\ Post([of |-> "run", number |-> numberOf.run + 1])
  /\ UNCHANGED <<dialog, testToRun, posted, labels>>

\* Mutant: the thread posts its event only if no one has stopped it.
MayPostUnlessStopped == TestsAreOver /\ ~ posted /\ ~ m_stop

MayPost == TestsAreOver /\ ~ posted

PostFinished ==
  /\ MayPost
  /\ Post([of |-> "finished", number |-> 0])
  /\ posted' = TRUE
  /\ UNCHANGED <<dialog, testToRun, numberOf, labels, runVars>>

\* TestRunnerThread::run is over, and some time later QThread::running() says so.
FinishThread ==
  /\ posted
  /\ EndThread
  /\ UNCHANGED qtVars

QtThread ==
  \/ (RunChildTest \/ RunMethod) /\ UNCHANGED qtVars
  \/ NotifyModel
  \/ PostFinished
  \/ FinishThread

QtWindow == BeStoppingTest \/ ProcessEvent

QtUser ==
  \/ RunTest
  \/ StopTest
  \/ \E t \in Tests : SelectTestToRun(t)

QtNext ==
  /\ toolkit = "qt"
  /\ QtThread \/ QtWindow \/ QtUser
  /\ UNCHANGED toolkit

-----------------------------------------------------------------------------
QtTypeOK ==
  /\ dialog \in QtStates
  /\ testToRun \in Tests
  /\ numberOf \in [{"testCase", "run", "failure"} -> Nat]
  /\ events \in Seq([of : {"run", "failure", "finished"}, number : Nat])
  /\ posted \in BOOLEAN
  /\ labels \in [{"testCase", "run", "failure", "listed"} -> Nat]

(***************************************************************************)
(* Once its events have been taken the dialog shows what the model has     *)
(* counted, and lists each failure once: no event of an earlier run comes  *)
(* in after the counters have been reset for another.                      *)
(***************************************************************************)
LabelsCatchUp ==
  events = <<>> => labels = [testCase |-> numberOf.testCase, run |-> numberOf.run,
                             failure |-> numberOf.failure, listed |-> numberOf.failure]

(***************************************************************************)
(* "testRunFinished() signal should be used to now when the test actually  *)
(* stopped running" (TestRunnerModel.h): after a run, whenever it has been *)
(* stopped, the signal comes, the dialog can run tests again, and no test  *)
(* is run any more.                                                        *)
(***************************************************************************)
CanRunAgain ==
  dialog # "canRun" ~> (dialog = "canRun" /\ (running => TestsAreOver))

=============================================================================
