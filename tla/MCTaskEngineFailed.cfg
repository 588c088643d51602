CONSTANTS
  Ids = {t1}
  Attempts = {a1, a2}
  Payloads = {p1}
  Ranks = {1}
  MaxRetries = {1}
  Admins = {}
  Horizon = 1
  BatchLimit = 1
  MaxSequence = 1
  None = None
  DurationBits = 5
  MaxCount = 0
  JitterParts = 4
  Servers = {s1}
  Concurrency = 1
  LeaseTicks = 1
  Delays = {1}
  MaxFaults = 0
  MaxStops = 1
SPECIFICATION EngineSpec
INVARIANTS FailedAfterTransition
