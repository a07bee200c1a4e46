SPECIFICATION Spec
CONSTANTS
  dataBlockLen = 11
  entireBlockLen = 15
  additionalBlockLen = 4
  MaxErrors = 0
INVARIANTS
  DecodesCleanBlocks
