CONSTANTS
  Ids = {t1, t2}
  Attempts = {a1, a2, a3}
  Payloads = {p1}
  Ranks = {1}
  MaxRetries = {0}
  Admins = {}
  Horizon = 1
  BatchLimit = 1
  MaxSequence = 2
  None = None
  DurationBits = 5
  MaxCount = 0
  JitterParts = 4
  Servers = {s1}
  Concurrency = 1
  LeaseTicks = 1
  Delays = {1}
  MaxFaults = 0
  MaxStops = 1
SPECIFICATION EngineSpec
SYMMETRY Symmetry
INVARIANT CleanShutdown
