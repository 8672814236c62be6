SPECIFICATION Spec
CONSTANTS
  m1 = m1  m2 = m2  m3 = m3
  p1 = p1  p2 = p2  p3 = p3
  Members <- TwoMembers
  Positions <- TwoSeats
  Stages <- OneStage
  Turns <- OneTurns
  Deferred <- MCDeferred
  Specialty <- OneSeat
  Rules <- MCRules
  None = None
  MinAttempts = 1
  MaxTurns = 3
  Fallback = FALSE
  Granted = {"record_selection", "force", "amend_selection", "approve_transition"}
INVARIANTS ReviewHoldsTurn
PROPERTIES NeverRewinds TurnsGivenAreUsable
CONSTRAINT FewIrregular
CHECK_DEADLOCK FALSE
