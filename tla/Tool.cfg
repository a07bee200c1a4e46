SPECIFICATION Spec
CONSTANTS
  t1 = t1
  t2 = t2
  Tools = {t1, t2}
  CommandLines <- ArgvsOfTools
  DefaultArgs <- Default
  Number <- Words
  Ratios <- Decibels
  Name <- PrintedDecibels
  Vanishing = {20}
  TableRatios <- Table
  Files <- DefinitionFiles
INVARIANTS
  NoiseFitsItsName
  RefusesForItsArguments
  CoderIsSetUp
PROPERTIES
  ComesThroughItsFiles
