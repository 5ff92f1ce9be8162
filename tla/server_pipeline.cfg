SPECIFICATION FairSpec
CONSTANTS
  Conns = {c1}
  c1 = c1
  Fds = {f1}
  f1 = f1
  ConnWorkers = {w1}
  w1 = w1
  RealWorkers = {r1, r2}
  r1 = r1
  r2 = r2
  MaxReq = 3
  PipeCap = 1
  NoConn = NoConn
  NoFd = NoFd
INVARIANTS
  NoLostNotify
  ExactlyOnce
PROPERTIES
  Served
CHECK_DEADLOCK FALSE
