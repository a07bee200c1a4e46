SPECIFICATION MfcSpec
CONSTANTS
  Suites = {"all", "inner", "empty"}
  Cases = {"first", "second"}
  Children <- Tree
  None = "none"
PROPERTIES
  PendsUntilCompleted
CHECK_DEADLOCK FALSE
