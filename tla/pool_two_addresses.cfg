SPECIFICATION Spec
CONSTANTS
  Threads = {t1, t2, t3, t4}
  Addrs = {a1, a2}
  Clients = {c1, c2, c3, c4}
  Configs <- TightConfig
  MaxTime = 0
  ClockStepsBack = FALSE
  NoAddr = NoAddr
  NoClient = NoClient
SYMMETRY Symmetry
INVARIANT NoStrandedWaiter
