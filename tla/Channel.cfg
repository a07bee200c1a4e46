SPECIFICATION LineSpec
CONSTANTS
  lenData = 9
  Garbage <- GarbageBytes
INVARIANTS
  GainedBitsAreNoisy
  LostBitsFollowNoise
  ComparisonsAgree
  BlockHoldsDrawnBits
  CopyLosesLastBitsOnly
CHECK_DEADLOCK FALSE
