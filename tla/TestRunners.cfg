SPECIFICATION RunnersSpec
CONSTANTS
  Suites = {"all", "inner", "empty"}
  Cases = {"first", "second", "third"}
  Children <- Tree
  None = "none"
INVARIANTS
  TypeOK
  StopIsHeeded
  DialogAgreesWithCollector
  IdleAfterRun
  LabelsCatchUp
PROPERTIES
  RunEndsOrEmbraces
  CanRunAgain
CHECK_DEADLOCK FALSE
