SPECIFICATION Spec
CONSTANTS
  Requests = {1}
  Jobs = {1, 2}
  Confirmations = 1
  Lookback = 1
  ClaimWait = 1
  ChunkSize = 2
  MaxHead = 5
  MaxPerBlock = 1
  LastRequest = 5
  Unsteady = {1}
  Odd = {1}
  MaxFaults = 2
  ReseedMaxAttempts = 2
  MaxConcurrent = 1
  SessionRetryLimit = 2
INVARIANTS TypeOK NoJobSkipped RequestsKept
CHECK_DEADLOCK FALSE
