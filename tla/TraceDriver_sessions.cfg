SPECIFICATION Spec
CONSTANTS
  MAX_HEAP = 6
  ALIGNMENT = 2
  Addresses = {0, 1, 2, 4, 6}
  Increments = {0, 2, 6}
  Sessions <- AllSessions
  FREE_HEAP = 2
  SPEED_RUNS = 1
  INT_MAX = 7
INVARIANTS TypeOK CorrectPackagePasses BlocksFilled ErrorsMatchVerdicts UtilAtMostOne NoStaleAddress
  RangesExact OverlapsNest AssertsOnlyOffFormat
