SPECIFICATION Spec
CONSTANTS
  Items <- TwoInputsCode
  polynomPower = 2
  k0 = 2
  n0 = 3
  MaxErrors = 3
INVARIANTS
  CleanSpanDecodes
  FlagsHaveErrors
  NoFalseCorrection
