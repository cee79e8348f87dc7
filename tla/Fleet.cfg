SPECIFICATION Spec
CONSTANTS
  None = None  Off = Off
  n1 = n1  n2 = n2  p1 = p1  p2 = p2  p3 = p3
  root1 = root1  ctrl1 = ctrl1  child1 = child1
  w1 = w1  w2 = w2  w3 = w3  l1 = l1  l2 = l2  q1 = q1  q2 = q2  q3 = q3
  m1 = m1  m2 = m2  j1 = j1  j2 = j2  cli1 = cli1
  d1 = d1  d2 = d2
SYMMETRY Symmetry
CHECK_DEADLOCK FALSE
INVARIANT PlacementsBest
PROPERTIES RolesOwned LaunchedOnce PlansAgree RemovalDrains DeployCleansUp DatabaseKept
