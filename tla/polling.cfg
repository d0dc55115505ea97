SPECIFICATION FairSpec

CONSTANTS
  Names = {n1, n2}
  None = None
  Capacity = 1
  MaxChanges = 2
  MaxFaults = 1

PROPERTY EveryonePolled
PROPERTY ShutdownCompletes
CHECK_DEADLOCK FALSE
