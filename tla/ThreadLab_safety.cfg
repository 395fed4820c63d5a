SPECIFICATION FairSpec
CONSTANTS
  DATA_SIZE = 6
  NTHREADS = 3
  DATA_MAX = 2
  BUCKET_SIZE = 2
  UNROLL = 2
  CREATE_CAN_FAIL = FALSE
INVARIANTS MutualExclusion NoLostUpdate JoinedExact SemaphoresFree
PROPERTY EveryKernelPasses
