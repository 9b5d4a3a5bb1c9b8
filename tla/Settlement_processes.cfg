SPECIFICATION Spec
CONSTANTS
  Jobs = {1}
  Genesis = 0
  MaxHead = 2
  Windows = {1}
  ReorgDepth = 1
  FaultHorizon = 3
  PauseHorizon = 0
  OperatorActs = FALSE
  BackoffBase = 1
  BackoffMax = 2
  MaxShift = 1
  Tickers = {tick}
  OneShots = {cli}
  BatchThreshold = 2
  MaxBatchSize = 2
  Interval = 1
  PausedCycleBackoff = 1
  MaxLate = 1
  Scanners = {cli}
  StartBlock = 0
  ChunkSize = 1
  Confirmations = 1
INVARIANTS TypeOK NoFeeForgotten
PROPERTIES ImplementsLedger DropsOnlySettled
CHECK_DEADLOCK FALSE
