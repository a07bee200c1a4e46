SPECIFICATION SimulationSpec
CONSTANTS
  Bits <- DataBits
  Latency = 1
  Items <- CrossedCode
  polynomPower = 1
  k0 = 2
  n0 = 4
  MaxErrors = 2
  volume = 0
  limitErrors = 2
  MaxCount = 4
INVARIANTS
  TypeOK
  QueueHoldsLatency
  CountersAgree
  UncodedCountsNoise
  RatesAreShares
  BlocksHaveOneOwner
  QueueMatchesRegisters
  CountsDecoderErrors
  CountsOnlyBeyondDistance
PROPERTIES
  EndsIfErrorsKeepComing
  ImplementsEngine
