SPECIFICATION BcSpec
CONSTANTS
  BcKeys = {k1, k2}
  BcValues = {v1}
  BcNoValue = BcNoValue
  BcFileCap = 2
  BcMaxFiles = 2
  BcMaxTime = 2
  BcOutcomes = {"ok", "failed", "before", "after", "head", "body"}
INVARIANT ReopensAfterCrash
CHECK_DEADLOCK FALSE
