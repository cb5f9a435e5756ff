SPECIFICATION AdminSpec
CONSTANTS
  Types = {"cost-centers"}
  Files = {f1, f2}
  NoFile = NoFile
  NoCandidate = NoCandidate
  MaxGeneration = 3
  MaxReceipts = 2
  Sections = {"organization", "cost-allocation"}
  PanelSections = {"cost-allocation"}
  MaxSurface = 3
  MaxRevision = 3
  MaxCalls = 2
INVARIANTS AdminTypeOK AppliedAsValidated
PROPERTIES PresentationKeepsUp WrittenWhereOpen
CHECK_DEADLOCK FALSE
