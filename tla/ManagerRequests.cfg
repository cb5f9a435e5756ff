SPECIFICATION Spec
CONSTANTS
  r1 = r1
  r2 = r2
  m1 = m1
  m2 = m2
  Requests = {r1}
  Mutations = {m1, m2}
  MaxOpen = 2
  MaxRefresh = 3
  MaxElsewhere = 1
  NoMutation = NoMutation
  NoList = NoList
  NoAnswer = NoAnswer
SYMMETRY MC_Symmetry
INVARIANTS TypeOK OneMutationInFlight UsableIsReconciled ShownTogether
PROPERTIES NeverBackwards
CHECK_DEADLOCK FALSE
