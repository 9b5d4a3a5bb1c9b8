SPECIFICATION Spec
CONSTANTS
  Jobs = {1, 2}
  Genesis = 0
  MaxHead = 3
  Windows = {1}
  ReorgDepth = 0
  FaultHorizon = 3
  PauseHorizon = 3
  OperatorActs = FALSE
  BackoffBase = 1
  BackoffMax = 2
  MaxShift = 1
  Tickers = {tick}
  OneShots = {}
  BatchThreshold = 2
  MaxBatchSize = 2
  Interval = 1
  PausedCycleBackoff = 1
  MaxLate = 1
  Scanners = {}
  StartBlock = 0
  ChunkSize = 1
  Confirmations = 1
INVARIANTS PauseGateHonoured JobBackoffHonoured
CHECK_DEADLOCK FALSE
