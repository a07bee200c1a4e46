SPECIFICATION Spec
CONSTANTS
  dataBlockLen = 4
  entireBlockLen = 7
  additionalBlockLen = 3
  MaxErrors = 1
INVARIANTS
  CodewordsPassTheCheck
  CorrectsOneError
