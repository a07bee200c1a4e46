SPECIFICATION Spec
CONSTANTS
  Items <- TestCode
  polynomPower = 6
  k0 = 1
  n0 = 2
  MaxErrors = 2
INVARIANTS
  TypeOK
  DecodesWhatWasSent
  NoStaleFlags
PROPERTY
  ImplementsDelayLine
