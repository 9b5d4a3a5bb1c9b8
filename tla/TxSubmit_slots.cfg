SPECIFICATION FairSpec
CONSTANTS
  Legacy = {ack}
  Blob = {blob}
  ack = ack
  blob = blob
  MaxNonce = 2
  Threshold = 0
  MaxBumps = 1
  AutoReplace = FALSE
  Faults = {"build", "reject", "timeout", "ambiguous", "evict", "cli", "outlive"}
PROPERTIES SlotsReturned
CHECK_DEADLOCK FALSE
