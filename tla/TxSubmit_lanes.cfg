SPECIFICATION Spec
CONSTANTS
  Legacy = {ack, done}
  Blob = {blob}
  ack = ack
  done = done
  blob = blob
  MaxNonce = 2
  Threshold = 1
  MaxBumps = 1
  AutoReplace = TRUE
  Faults = {"build", "reject", "timeout", "cli", "restart"}
INVARIANTS TypeOK ClassExclusion NoLostWakeup LeasesDistinct HolesKnown NoCrossClassSend BumpBudget
CHECK_DEADLOCK FALSE
