SPECIFICATION ServiceSpec
CONSTANTS
  w1 = w1
  w2 = w2
  b1 = b1
  c1 = c1
  e1 = e1
  e2 = e2
  e3 = e3
  BkWorkers = {w1, w2}
  BkBooks = {b1}
  BkMaxWrites = 2
  AgWorkers = {w1, w2}
  AgMaxReqs = 3
  AgTimes = {0, 1}
  AgTrigger = 3
  AgKeep = 2
  MmMaxItems = 3
  MmNorms = {"a", "b"}
  MmSpellings = {"A"}
  LcCallers = {c1}
  LcUnit = 2
  LcTotal = 6
  LcMax = 1
  LcMaxTime = 15
  LcWrap = 64
  LbLists <- MCLists
  LbWeight <- MCWeights
  LbHashes = {0, 1, 2, 5}
  LbWrap = 8
INVARIANTS
  
  
  StoreConsistent
  MemoriesConsistent
  
  NoStarvation

  
CHECK_DEADLOCK FALSE
