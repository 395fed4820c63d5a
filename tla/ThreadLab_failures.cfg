SPECIFICATION FairSpec
CONSTANTS
  DATA_SIZE = 4
  NTHREADS = 2
  DATA_MAX = 3
  BUCKET_SIZE = 2
  UNROLL = 2
  CREATE_CAN_FAIL = TRUE
INVARIANTS IndInv SumCheckSound NoStrayThread
PROPERTIES OnlyStaleJoinHangs RefinesHistogram
