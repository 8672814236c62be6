SPECIFICATION ADaySpec
CONSTANTS
  m1 = m1  m2 = m2
  p1 = p1  p2 = p2  p3 = p3
  G1 = G1  G2 = G2
  Members <- MCMembers
  Positions <- MCPositions
  Stages <- MCStages
  Turns <- MCTurns
  Deferred = {p2}
  Specialty <- NoSpecialty
  Rules <- MCRules
  None = None
  MinAttempts = 1
  MaxTurns = 2
  Fallback = FALSE
  Granted = {"record_selection", "force", "amend_selection", "skip_defer", "approve_final_results", "pause_resume"}
  Officers = {m1, m2}
  ShiftOf <- MCShift
  CombatShifts = {"A"}
  Groups = {G1, G2}
  Weekdays = {}
  Enabled = {G1, G2}
  Minimum = 1
  Maximum = 1
  Exact = 1
  Scoped = {}
INVARIANT Replayable
CHECK_DEADLOCK FALSE
