SPECIFICATION FairSpec
CONSTANTS
  p1 = p1  p2 = p2  p3 = p3  s1 = s1  s2 = s2  i1 = i1
  Publishers = {p1, p2, p3}
  Pruners = {s1}
  Cleaners = {s2}
  Ids = {i1}
  id <- MCid
  content <- MCcontent
  MaxTries = 2
  Scenarios <- PublishAndSweep
  None = None
INVARIANT TypeOK
PROPERTIES EnsureDurable ExpiredReclaimed SweepTakesOldOnly ImplementsRegister EveryProcessReturns
CHECK_DEADLOCK FALSE
