SPECIFICATION Spec
CONSTANTS
  Nil = 0
  Ciphertexts = {1, 2}
  AckWindow = 1
  CompletionWindow = 2
  SettleReserve = 1
  CompletionReserve = 0
  MinInferenceBudget = 0
  LastAttempt = 2
  Entries = {"task"}
  Stores = {TRUE}
  Overlaps = {TRUE, FALSE}
  MaxFaults = 0
INVARIANT NoErrorAfterAnswer
CHECK_DEADLOCK FALSE
