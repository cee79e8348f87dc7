SPECIFICATION Spec
CONSTANTS
  Batches = {b1}
  Nodes = {n1, n2}
  Tokens = {t1, t2, t3, t4}
  None = None
  MaxRetries = 2
  Mortal = {n1}
  Retained = {}
  MaxFaults = 1
PROPERTIES ExpiredWorkerCannotPublish
CHECK_DEADLOCK FALSE
