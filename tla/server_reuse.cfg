SPECIFICATION Spec
CONSTANTS
  Conns = {c1, c2}
  c1 = c1
  c2 = c2
  Fds = {f1, f2}
  f1 = f1
  f2 = f2
  ConnWorkers = {w1, w2}
  w1 = w1
  w2 = w2
  RealWorkers = {r1}
  r1 = r1
  MaxReq = 1
  PipeCap = 1
  NoConn = NoConn
  NoFd = NoFd
SYMMETRY Symmetry
INVARIANTS
  RightConnection
  DescriptorTable
CHECK_DEADLOCK FALSE
