SPECIFICATION FairSpec
CONSTANTS
  CommandIds = {"c1", "c2"}
  Requests <- LiveRequests
  Writers = {w1}
  IsMock = FALSE
  Staged = TRUE
  HasPin = TRUE
  LateBatches = FALSE
  MaxFaults = 2
  MaxLocalSeq = 3
  None = None
INVARIANTS
  ReplyFinality
  AckedVisible
PROPERTIES
  ImplementsLog
  LeaseReturned
