SPECIFICATION FairSpec
CONSTANTS
  Modes = {"direct", "gateway", "sortition"}
  Jobs = {"a", "b"}
  MaxKeys = 2
  MaxConcurrent = 2
  MaxDrains = 1
INVARIANTS TypeOK CleanShutdown RotationOnly SlotsTrue
PROPERTIES ShutdownEnds ComesBack
CHECK_DEADLOCK FALSE
