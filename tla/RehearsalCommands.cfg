SPECIFICATION Spec
CONSTANTS
  m1 = m1  m2 = m2  p1 = p1  p2 = p2  k1 = k1  k2 = k2  k3 = k3  w1 = w1  w2 = w2
  Order <- MCOrder
  Rules <- MCRules
  Eligible <- MCEligible
  Keys = {k1, k2, k3}
  Requests <- MCRequests
  Workers = {w1, w2}
  MissLimit = 2
  LateBatches = TRUE
  MaxFaults = 3
  MaxRevision = 3
  None = None
INVARIANTS AnswersTrue CommandsWhole OneCommandPerRevision
PROPERTIES SealedForGood
SYMMETRY WorkerSymmetry
CHECK_DEADLOCK FALSE
