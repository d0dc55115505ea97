SPECIFICATION FairSpec

CONSTANTS
  None = None
  p1 = p1
  p2 = p2
  p3 = p3
  g1 = g1
  g2 = g2
  Providers = {p1, p2, p3}
  Invalid = {p3}
  Getters = {g1, g2}
  MaxDials = 2

INVARIANT TypeOK
INVARIANT RegisteredOpen
INVARIANT SharedClient
INVARIANT HealthChecksOpen
PROPERTY LocksGranted
