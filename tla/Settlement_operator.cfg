SPECIFICATION Spec
CONSTANTS
  Jobs = {1}
  Genesis = 1
  MaxHead = 5
  Windows = {1}
  ReorgDepth = 2
  FaultHorizon = 6
  PauseHorizon = 0
  OperatorActs = TRUE
  BackoffBase = 1
  BackoffMax = 2
  MaxShift = 1
  Tickers = {}
  OneShots = {}
  BatchThreshold = 2
  MaxBatchSize = 2
  Interval = 1
  PausedCycleBackoff = 1
  MaxLate = 1
  Scanners = {rec, cli}
  StartBlock = 1
  ChunkSize = 2
  Confirmations = 2
INVARIANTS NoFeeForgotten
CHECK_DEADLOCK FALSE
