SPECIFICATION Spec
CONSTANTS
  m1 = m1  m2 = m2  m3 = m3
  p1 = p1  p2 = p2  p3 = p3
  Members <- MCMembers
  Positions <- MCPositions
  Stages <- MCStages
  Turns <- MCTurns
  Deferred <- MCDeferred
  Specialty <- MCSpecialty
  Rules <- MCRules
  None = None
  MinAttempts = 1
  MaxTurns = 5
  Fallback = FALSE
  Granted = {"record_selection", "approve_transition", "skip_defer"}
INVARIANTS TypeOK PriorityRespected
PROPERTIES NeverRewinds TurnsGivenAreUsable
CHECK_DEADLOCK FALSE
