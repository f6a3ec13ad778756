SPECIFICATION Spec
CONSTANTS
  hdfc = hdfc
  sbi = sbi
  icici = icici
  Keys = {hdfc, sbi, icici}
  Window = 1
  MinSamples = 2
  RateNum = 2
  RateDen = 3
  MaxKeys = 2
  Lag = 1
  MaxTime = 3
  MaxObservations = 4
  MaxRestarts = 2
INVARIANTS
  MemoryBounded
  NothingRecentForgotten
  StaleBounded
  RestartKeepsVerdict
SYMMETRY KeySymmetry
CHECK_DEADLOCK FALSE
