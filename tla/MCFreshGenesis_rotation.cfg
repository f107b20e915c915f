SPECIFICATION Spec
CONSTANTS
  Inits = {i1}
  PolicyKind = "policy"
  BindingSchema = "binding-v1"
  EventSchema = "event-v1"
  Bad = Bad
  Nil = Nil
  Seeds <- MCSeeds
  Foreign <- MCForeign
  Documents <- MCDocuments
  Changes <- MCChanges
  MaxCommits = 3
  Faults = {}
INVARIANT PolicyRotatable
CHECK_DEADLOCK FALSE
