SPECIFICATION FairSpec
CONSTANTS
  c1 = c1  c2 = c2  c3 = c3
  Clients = {c1, c2, c3}
  Scenarios <- MCScenarios
  RootPolicy <- MCRootPolicy
  Policies <- MCPolicies
  LedgerID = "here"
  None = None
  PolicyTarget = "authority:actor-policy"
INVARIANTS TypeOK WithinCapacity AuthorisedAtParent
PROPERTIES EverySubmissionReturns ImplementsLedger
CHECK_DEADLOCK FALSE
