SPECIFICATION Spec
CONSTANTS
  None = None  Off = Off
  t1 = t1  t2 = t2  t3 = t3  e1 = e1  e2 = e2  k1 = k1  k2 = k2  f1 = f1  f2 = f2  v1 = v1  s1 = s1
SYMMETRY Symmetry
INVARIANTS BudgetShared TrialsExact DefinitionsFrozen PanelsFaithful TelemetryExact
PROPERTY QueueKept
