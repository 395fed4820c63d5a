SPECIFICATION FairTimer
CONSTANTS
  kbest = 2
  maxsamples = 3
  eps_num = 1
  eps_den = 2
  Cycles <- SomeCycles
  WORD = 8
  StartTSC = {5}
  TickCosts = {5, 8}
  MinTick = 5
  MaxTick = 8
  MinPeriod = 6
  MaxPeriod = 7
  TurnCycles = {1, 2}
  FunctionCycles = {6}
  MaxCall = 6
  MaxUncharged = 5
  NEVENT = 2
  THRESHOLD = 3
  RECORDTHRESH = 4
INVARIANTS ElapsedExact CalibrationBounds MeasurementBounds KSmallest ResultIsBest ConvergedWithinEpsilon IndInv
PROPERTY FcycReturns
