SPECIFICATION FairSpec
CONSTANTS
  Publishers = {"redis", "gateway", "stream"}
  StreamBufferSize = 2
  MaxLost = 1
  MaxBreaks = 1
  Streams = {1}
  MaxDeltas = 3
  ChunkTokens = 2
  ForwardReasoning = TRUE
  MaxSound = 1
CHECK_DEADLOCK FALSE
INVARIANTS TypeOK GapVisible CompleteLast WholeAnswer
PROPERTY EveryAnswerArrives
