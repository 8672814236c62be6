SPECIFICATION FairSpec
CONSTANTS
  Employees = {e1}
  MaxSequence = 2
  Consumers = {c1, c2}
  MaxAttempts = 1
  QueueRetries = 1
  MaxMessages = 1
  MaxFaults = 2
  None = None
INVARIANTS
  OnePoster
  Delivered
PROPERTIES
  VerdictsFinal
  EventuallySettled
CHECK_DEADLOCK FALSE
