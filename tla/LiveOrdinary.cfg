SPECIFICATION Spec
CONSTANTS
  m1 = m1  m2 = m2  m3 = m3
  p1 = p1  p2 = p2  p3 = p3
  Members <- MCMembers
  Positions <- MCPositions
  Stages <- MCStages
  Turns <- MCTurns
  Deferred <- MCDeferred
  Specialty <- NoSpecialty
  Rules <- MCRules
  None = None
  MinAttempts = 1
  MaxTurns = 5
  Fallback = TRUE
  Granted = {"record_selection", "skip_defer", "mark_unreachable", "pause_resume", "approve_final_results"}
INVARIANTS EveryoneAsked ContactSettled
PROPERTIES ReturnKeepsTurn ADaysPrompted
CHECK_DEADLOCK FALSE
