SPECIFICATION Spec
CONSTANTS
  Nil = 0
  Ciphertexts = {1, 2}
  AckWindow = 1
  CompletionWindow = 2
  SettleReserve = 1
  CompletionReserve = 0
  MinInferenceBudget = 0
  LastAttempt = 2
  Entries = {"task", "payload"}
  Stores = {TRUE, FALSE}
  Overlaps = {TRUE, FALSE}
  MaxFaults = 1
INVARIANTS TypeOK AnswerAfterAck CommittedIsDelivered AnsweredOnce SettledOnlyCompleted TombstoneStaysShort NeverSilent
CHECK_DEADLOCK FALSE
