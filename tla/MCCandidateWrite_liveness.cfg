SPECIFICATION FairSpec
CONSTANTS
  c1 = c1  c2 = c2  c3 = c3  c4 = c4
  Calls = {c1, c2, c3}
  Requests <- SequelRequests
  key <- MCkey
  eventID <- MCeventID
  content <- MCcontent
  path <- MCpath
  expected <- MCexpected
  Applies <- MCApplies
  Faults = {"age"}
  NoCommit = NoCommit
  NoCall = NoCall
  NoRequest = NoRequest
  Nil = Nil
PROPERTIES EveryCallReturns ContentionProgress LiveCapabilityKept
CHECK_DEADLOCK FALSE
