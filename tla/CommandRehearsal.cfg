SPECIFICATION Spec
CONSTANTS
  CommandIds = {"c1", "c2"}
  Requests <- FreezeRequests
  Writers = {w1, w2}
  IsMock = TRUE
  Staged = FALSE
  HasPin = FALSE
  LateBatches = FALSE
  MaxFaults = 2
  MaxLocalSeq = 2
  None = None
INVARIANTS
  CheckedStillTrue
  Rebuildable
PROPERTIES
  LegacySealed
  ImplementsLog
