SPECIFICATION Spec
CONSTANTS
  Samplers = {s1}
  None = None
  MaxDraws = 3
  Accurate = {2}
  MaxId = 6
  MaxInserts = 2
  MaxBundle = 1
  MaxGeneration = 2
  MaxPerTick = 2
  FetchLimit = 2
  MaxStarts = 3
  MaxFaults = 1
  Overlap = FALSE
INVARIANTS BatchesCountedOnce
CHECK_DEADLOCK FALSE
