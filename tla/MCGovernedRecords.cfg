SPECIFICATION Spec
CONSTANTS
  Writers = {w1, w2}
  Targets = {P, T}
  Kinds = {policy, note}
  Values = {v1, v2}
  Terms = {m1, m2}
  PolicyKind = policy
  PolicyTarget = P
  PolicyValues = {v1}
  Nil = Nil
  MaxEvents = 4
SYMMETRY Symmetry
INVARIANTS LineageIntact NoLostUpdate ReplayStable PolicyReserved
PROPERTY RecordsAdvance
CHECK_DEADLOCK FALSE
