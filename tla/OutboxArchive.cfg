SPECIFICATION FairSpec
CONSTANTS
  Items = {i1, i2}
  Corrupt = {i2}
  Drains = {d1, d2}
  LeaseTime = 2
  Delays = {1}
  Limit = 2
  MaxAge = 3
  MaxFaults = 2
  None = None
INVARIANTS
  ArchiveVerified
  OneArchiver
PROPERTIES
  VerdictFinal
  EventuallySettled
