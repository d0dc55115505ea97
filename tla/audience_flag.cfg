SPECIFICATION Spec

CONSTANTS
  None = None
  w1 = w1
  sa1 = sa1
  sa2 = sa2
  Workers = {w1}
  Accounts = {sa1, sa2}
  Audiences <- FromChart
  tokenRequestAudience <- Configured
  TTLs = {2, 5}
  maxTTL = 3
  Jitters = {0, 1}
  MaxTime = 4

INVARIANT RequestsConfigured
