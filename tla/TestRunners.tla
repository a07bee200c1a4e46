--------------------------------- MODULE TestRunners ---------------------------------
(***************************************************************************)
(* A program that is linked with one of the two graphical test runners.    *)
(***************************************************************************)
EXTENDS MfcTestRunner, QtTestRunner

allVars == <<toolkit, runVars, mfcVars, qtVars>>

RunnersInit ==
  /\ toolkit \in {"mfc", "qt"}
  /\ RunInit
  /\ MfcInit
  /\ QtInit
  /\ toolkit = "qt" => history = None
  /\ toolkit = "mfc" => testToRun = CHOOSE t \in Tests : TRUE


RunnersNext ==
  \/ MfcNext /\ UNCHANGED qtVars
  \/ QtNext /\ UNCHANGED mfcVars

\* The fairness of MfcSpec; in Qt too the threads go on, and however often the user
\* clicks, a posted event is taken.
RunnersSpec ==
  /\ RunnersInit
  /\ [][RunnersNext]_allVars
  /\ WF_allVars(MfcNext /\ RunTests /\ UNCHANGED qtVars)
  /\ WF_allVars(MfcNext /\ WindowGoesOn /\ UNCHANGED qtVars)
  /\ SF_allVars(MfcNext /\ Messages /\ UNCHANGED qtVars)
  /\ WF_allVars(QtNext /\ QtThread /\ UNCHANGED mfcVars)
  /\ WF_allVars(QtNext /\ BeStoppingTest /\ UNCHANGED mfcVars)
  /\ SF_allVars(QtNext /\ ProcessEvent /\ UNCHANGED mfcVars)

-----------------------------------------------------------------------------
\* The values that the variables have.
TypeOK == RunTypeOK /\ MfcTypeOK /\ QtTypeOK

=============================================================================
