SPECIFICATION FairSpec
CONSTANTS
  s1 = s1
  s2 = s2
  p = p
  c = c
  Services <- TwoServices
  Poller = p
  Callers <- OneCaller
  MaxEdits = 3
  MaxClock = 3
  MaxStatErrors = 1
  MaxLoadErrors = 1
  SameSecond = FALSE
  LateRegister = FALSE
  ConcurrentReload = FALSE
PROPERTIES
  NeverBackwards
  HotReload
CHECK_DEADLOCK FALSE
