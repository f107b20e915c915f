SPECIFICATION Spec
CONSTANTS
  c1 = c1  c2 = c2  c3 = c3  c4 = c4
  Calls = {c1, c2, c3}
  Requests <- RaceRequests
  key <- MCkey
  eventID <- MCeventID
  content <- MCcontent
  path <- MCpath
  expected <- MCexpected
  Applies <- MCApplies
  Faults = {"io", "kill", "crash"}
  NoCommit = NoCommit
  NoCall = NoCall
  NoRequest = NoRequest
  Nil = Nil
SYMMETRY Symmetry
INVARIANTS TypeOK MoverAnswered StagingReported
PROPERTIES NoRejectionOfAccepted ImplementsLedger LiveCapabilityKept
CHECK_DEADLOCK FALSE
