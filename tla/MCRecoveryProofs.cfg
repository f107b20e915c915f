SPECIFICATION FairSpec
CONSTANTS
  d1 = d1  d2 = d2  base = base  w1 = w1  w2 = w2
  Dirs = {d1, d2}
  Numbers = {1, 2}
  Calls = {base, w1, w2}
  Base = base
  Changes = {"x", "y"}
  MaxLen = 2
  MaxMoves = 4
  Scenarios <- MCScenarios
  Snapshots <- MCSnapshots
  Envelopes <- MCEnvelopes
  Provenances <- MCProvenances
  None = None
INVARIANTS TypeOK ProofDescribesOpened LoadVerdictTrue RestoreTrue ForkMeansSplit
PROPERTY EveryCallReturns
CHECK_DEADLOCK FALSE
