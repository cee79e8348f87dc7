SPECIFICATION Spec
CONSTANTS
  Samplers = {s1, s2}
  None = None
  MaxDraws = 1
  Accurate = {}
  MaxId = 1
  MaxInserts = 1
  MaxBundle = 1
  MaxGeneration = 1
  MaxPerTick = 1
  FetchLimit = 1
  MaxStarts = 2
  MaxFaults = 2
  Overlap = TRUE
SYMMETRY Symmetry
CHECK_DEADLOCK FALSE
PROPERTIES BoundaryKept
