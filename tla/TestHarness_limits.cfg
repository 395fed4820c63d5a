SPECIFICATION FairSpec
CONSTANTS
  test_set <- Puzzles
  Chosen <- AllBut7
  TEST_RANGE = 2
  Draws <- DrawnValues
  Limits = {0, 10}
INVARIANTS TypeOK NoUndeservedPoints LostByTimeoutOnly OneErrorEach TestsLimited ExactWithoutLimit
PROPERTY Ends
