SPECIFICATION Spec
CONSTANTS
  MAX_HEAP = 128
  CHUNKSIZE = 64
  HEAP = 9
INVARIANT MmInitReturns
