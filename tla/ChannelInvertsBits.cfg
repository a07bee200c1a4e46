SPECIFICATION Spec
CONSTANTS
  lenData = 2
INVARIANTS
  InvertsTheNoisyBits
