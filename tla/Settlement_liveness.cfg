SPECIFICATION FairSpec
CONSTANTS
  Jobs = {1}
  Genesis = 0
  MaxHead = 3
  Windows = {1}
  ReorgDepth = 0
  FaultHorizon = 3
  PauseHorizon = 3
  OperatorActs = FALSE
  BackoffBase = 1
  BackoffMax = 1
  MaxShift = 0
  Tickers = {tick}
  OneShots = {}
  BatchThreshold = 1
  MaxBatchSize = 2
  Interval = 1
  PausedCycleBackoff = 1
  MaxLate = 1
  Scanners = {rec}
  StartBlock = 0
  ChunkSize = 1
  Confirmations = 1
PROPERTIES EveryFeeCollected PendingDrains
CHECK_DEADLOCK FALSE
