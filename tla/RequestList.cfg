SPECIFICATION Spec
CONSTANTS
  r1 = r1
  r2 = r2
  m1 = m1
  m2 = m2
  Requests = {r1, r2}
  Mutations = {m1, m2}
  MaxRefresh = 3
  NoMutation = NoMutation
  NoCards = NoCards
SYMMETRY MC_Symmetry
INVARIANTS TypeOK OneMutationInFlight ReportedOnce NoLeakedReservation
PROPERTIES NeverBackwards
CHECK_DEADLOCK FALSE
