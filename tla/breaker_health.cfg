SPECIFICATION Spec
CONSTANTS
  a1 = a1
  a2 = a2
  a3 = a3
  t1 = t1
  t2 = t2
  Addrs <- TwoAddrs
  Lists <- Changing
  Threads <- TwoThreads
  FailThreshold = 2
  HalfOpenSuccess = 2
  Cooldown = 1
  MinNum = 1
  MinDen = 2
  MaxFlips = 0
  MaxBacks = 1
  Flaky = TRUE
  NoCall = NoCall
SYMMETRY ThreadSymmetry
PROPERTIES ImplementsBreaker EjectedNotPicked
