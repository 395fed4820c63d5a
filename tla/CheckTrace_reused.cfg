SPECIFICATION Spec
CONSTANTS
  Ids = {0, 1}
  Commands = {"a", "r", "f", "x", ""}
  MaxLines = 5
  Generated <- GeneratedTraces
INVARIANT ReusedIdRefused
