SPECIFICATION CallSpec
CONSTANTS
  w1 = w1
  w2 = w2
  ChMaxCalls = 2
  ChMaxConns = 3
  ChBufCap = 2
  CsWorkers = {w1, w2}
  CsMaxConns = 2
  CsFds = {1, 2}
  CsMaxReqs = 2
  CsHead = 2
  CsLens <- MCBodyLengths
  CsPipeCap = 1
  EpFds = {1, 2, 3, 4}
  EpSize = 3
  CoIds = 3
  CoMax = 1
  CoDepth = 2
  CoLocals = {1, 2}
  CoNested = FALSE
INVARIANTS
  AtMostTwice
  AnswerMatchesCall
  AnswersInOrder
  StackIntact
PROPERTIES
  
  RequestAnswered
  NoStaleEvent
CHECK_DEADLOCK FALSE
