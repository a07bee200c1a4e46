SPECIFICATION Spec
CONSTANTS
  Items <- ShortCode
  polynomPower = 1
  k0 = 1
  n0 = 2
  countDecoderSections = 3
  MaxErrors = 6
INVARIANTS
  DiffMarksChanges
  CleanSpanDecodes
PROPERTIES
  FirstSectionIsThresholdDecoder
