SPECIFICATION Spec
CONSTANTS
  Threads = {t1, t2, t3, t4}
  Addrs = {a1}
  Clients = {c1, c2}
  Configs <- OneConfig
  MaxTime = 2
  ClockStepsBack = FALSE
  NoAddr = NoAddr
  NoClient = NoClient
SYMMETRY Symmetry
INVARIANTS NoStrandedWaiter IdleOldestFirst
