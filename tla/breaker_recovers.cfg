SPECIFICATION FairSpec
CONSTANTS
  a1 = a1
  a2 = a2
  a3 = a3
  t1 = t1
  t2 = t2
  Addrs <- ThreeAddrs
  Lists <- FixedThree
  Threads <- OneThread
  FailThreshold = 2
  HalfOpenSuccess = 2
  Cooldown = 1
  MinNum = 1
  MinDen = 2
  MaxFlips = 3
  MaxBacks = 1
  Flaky = FALSE
  NoCall = NoCall
INVARIANT MinHealthyShare
PROPERTY Recovers
