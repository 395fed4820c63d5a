SPECIFICATION Spec
CONSTANTS
  MAX_HEAP = 8
  ALIGNMENT = 2
  Addresses = {0, 2, 4, 6}
  Increments = {0, 8}
  Sessions <- HighSessions
  FREE_HEAP = 2
  SPEED_RUNS = 1
  INT_MAX = 8
INVARIANT PreservedDataPasses
