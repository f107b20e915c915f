SPECIFICATION Spec
CONSTANTS
  p1 = p1  p2 = p2  p3 = p3  s1 = s1  s2 = s2  i1 = i1
  Publishers = {p1, p2}
  Pruners = {}
  Cleaners = {s2}
  Ids = {i1}
  id <- MCid
  content <- MCcontent
  MaxTries = 2
  Scenarios <- CleanUpAlone
  None = None
PROPERTY CleanupCompletes
CHECK_DEADLOCK FALSE
