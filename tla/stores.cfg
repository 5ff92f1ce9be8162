SPECIFICATION StoreSpec
CONSTANTS
  k1 = k1
  k2 = k2
  k3 = k3
  v1 = v1
  BcKeys = {k1, k2}
  BcValues = {v1}
  BcNoValue = BcNoValue
  BcFileCap = 2
  BcMaxFiles = 2
  BcMaxTime = 2
  BcOutcomes = {"ok", "failed", "before", "after"}
  HdKeys = {k1, k2, k3}
  HdValues = {v1}
  HdNoValue = HdNoValue
  HdSlots = {1, 2}
  HdSlot <- MCSlots
  HdMaxBuckets = 3
  HdMaxData = 3
  HdWrap = 8
  LruKeys = {k1, k2, k3}
  LruHead = LruHead
  LruFreed = LruFreed
  LruLimits = {0, 1, 2}
  LruInterval = 1
  LruMaxTime = 2
  LruWrap = 8
  RbKeys = {1, 2}
  RbMaxNodes = 7
  SlKeys = {1, 2, 3, 4}
  SlMaxHeight = 3
  ElTop = 4
  ElMaxReq = 3
INVARIANTS
  
  
  ListMatchesMap
  RedBlack
  SkipListExact
  EachServedOnce
PROPERTIES
  BitCaskImplementsDBBase
  
  LRUCacheImplementsRecencyList
  ContentsExact
CHECK_DEADLOCK FALSE
