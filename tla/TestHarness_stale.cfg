SPECIFICATION Spec
CONSTANTS
  test_set <- Puzzles
  Chosen <- Some
  TEST_RANGE = 2
  Draws <- DrawnValues
  Limits = {10}
INVARIANT OnlyOwnTimeout
