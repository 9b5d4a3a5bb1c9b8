SPECIFICATION FairSpec
CONSTANTS
  Requests = {1, 2}
  Jobs = {1, 2}
  Confirmations = 0
  Lookback = 4
  ClaimWait = 1
  ChunkSize = 2
  MaxHead = 4
  MaxPerBlock = 1
  LastRequest = 1
  Unsteady = {1}
  Odd = {}
  MaxFaults = 1
  ReseedMaxAttempts = 2
  MaxConcurrent = 1
  SessionRetryLimit = 2
PROPERTIES EveryJobTaken EveryRequestTried
CHECK_DEADLOCK FALSE
