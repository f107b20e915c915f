SPECIFICATION Spec
CONSTANTS
  Inits = {i1, i2}
  PolicyKind = "policy"
  BindingSchema = "binding-v1"
  EventSchema = "event-v1"
  Bad = Bad
  Nil = Nil
  Seeds <- MCSeeds
  Foreign <- MCForeign
  Documents <- MCDocuments
  Changes <- MCChanges
  MaxCommits = 4
  Faults = {"io", "crash"}
SYMMETRY Identical
INVARIANTS SeedErrorsFoundFirst EvidenceTrue ConfigImmutable PolicyFailsClosed
PROPERTY GenesisFixed
CHECK_DEADLOCK FALSE
