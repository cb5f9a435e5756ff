SPECIFICATION Spec
CONSTANTS
  e1 = e1
  e2 = e2
  e3 = e3
  k1 = k1
  k2 = k2
  blank = blank
  c1 = c1
  c2 = c2
  bad = bad
  Editors = {e1, e2, e3}
  Repeats = {}
  MaxLate = 0
  Keys = {k1, k2}
  Contents = {blank}
  Blank = blank
  Refused = {}
  NoEditor = NoEditor
  NoKey = NoKey
  NoContent = NoContent
SYMMETRY MC_Symmetry
INVARIANTS KeyBelongsToDraft
PROPERTIES LateStartKeepsDraft
CHECK_DEADLOCK FALSE
