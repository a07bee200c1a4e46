SPECIFICATION Spec
CONSTANTS
  Items <- TwoInputsCode
  polynomPower = 2
  k0 = 2
  n0 = 3
  countDecoderSections = 2
  MaxErrors = 1
PROPERTIES
  ImplementsDelayLine
