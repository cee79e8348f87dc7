SPECIFICATION Spec
CONSTANTS
  Batches = {b1, b2}
  Nodes = {n1, n2}
  Tokens = {t1, t2, t3, t4}
  None = None
  MaxRetries = 2
  Mortal = {n1}
  Retained = {n2}
  MaxFaults = 2
SYMMETRY Symmetry
CONSTRAINT Explored
INVARIANTS TypeOK ClaimTokenUnique RetryAccounting ResultOfCurrentClaim
PROPERTIES AcceptedResultStable NoLiveClaimRevoked
CHECK_DEADLOCK FALSE
