CONSTANTS
  Ids = {t1}
  Attempts = {a1, a2}
  Payloads = {p1, p2}
  Ranks = {1}
  MaxRetries = {1}
  Admins = {d1}
  Horizon = 1
  BatchLimit = 1
  MaxSequence = 2
  None = None
  MantissaBits = 8
  PriorityWeight = 28
  MaxPriority = 1
  MaxCreatedAt = 4
  Now = 5
  MaxOptions = 0
SPECIFICATION StoreSpec
PROPERTY ReplayKeepsTask
