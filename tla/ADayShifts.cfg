SPECIFICATION ADaySpec
CONSTANTS
  m1 = m1  m2 = m2
  p1 = p1  p2 = p2  p3 = p3
  G1 = G1  G2 = G2
  Members <- MCMembers
  Positions <- TwoShiftSeats
  Stages <- TwoShiftStages
  Turns <- MCTurns
  Deferred = {p1}
  Specialty <- NoSpecialty
  Rules <- MCRules
  None = None
  MinAttempts = 1
  MaxTurns = 2
  Fallback = FALSE
  Granted = {"record_selection", "force", "amend_selection"}
  Officers = {}
  ShiftOf <- TwoShifts
  CombatShifts = {"A", "B"}
  Groups = {G1}
  Weekdays = {}
  Enabled = {G1}
  Minimum = 0
  Maximum = 1
  Exact = None
  Scoped = {}
INVARIANT CapacityKept
CHECK_DEADLOCK FALSE
