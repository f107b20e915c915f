SPECIFICATION Spec
CONSTANTS
  c1 = c1  c2 = c2  c3 = c3  c4 = c4
  Calls = {c1, c2, c3, c4}
  Requests <- AllRequests
  key <- MCkey
  eventID <- MCeventID
  content <- MCcontent
  path <- MCpath
  expected <- MCexpected
  Applies <- MCApplies
  Faults = {"kill"}
  NoCommit = NoCommit
  NoCall = NoCall
  NoRequest = NoRequest
  Nil = Nil
SYMMETRY Symmetry
INVARIANTS HeadReplays RepliesTruthful AcceptedOnce NoAcceptedResidue
CHECK_DEADLOCK FALSE
