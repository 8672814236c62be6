SPECIFICATION Spec
CONSTANTS
  CommandIds = {"c1", "c2", "c3"}
  Requests <- LateRequests
  Writers = {w1}
  IsMock = TRUE
  Staged = TRUE
  HasPin = TRUE
  LateBatches = TRUE
  MaxFaults = 2
  MaxLocalSeq = 1
  None = None
INVARIANTS
  BundleAtomic
  NoLostUpdate
  AnswersOnRecord
PROPERTIES
  FreezeIsFinal
