SPECIFICATION Spec
CONSTANTS
  Threads = {t1, t2, t3}
  Addrs = {a1, a2}
  Clients = {c1, c2, c3, c4}
  Configs <- TwoConfigs
  MaxTime = 1
  ClockStepsBack = TRUE
  NoAddr = NoAddr
  NoClient = NoClient
SYMMETRY Symmetry
INVARIANTS Accounting LimitRespected ExclusiveOwnership
