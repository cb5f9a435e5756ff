SPECIFICATION Spec
CONSTANTS
  r1 = r1
  r2 = r2
  m1 = m1
  m2 = m2
  Requests = {r1}
  Mutations = {m1}
  MaxRefresh = 3
  NoMutation = NoMutation
  NoCards = NoCards
INVARIANTS InteractiveIsReconciled
CHECK_DEADLOCK FALSE
