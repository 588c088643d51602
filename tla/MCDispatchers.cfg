CONSTANTS
  Capacity = 4
  Rate = 3
  Eps = 1
  Amounts = {3}
  Year = 9
  MaxWindow = 1
  MaxBacks = 1
  MaxBack = 1
  None = None
  Servers = {s1, s2}
  Tasks = {t1, t2}
  Queues = {"high", "low", "off"}
  Priority <- TwoServed
  DefaultQueue = "low"
  TokenAmount = 3
  PollInterval = 1
  MaxFaults = 1
SPECIFICATION DispatchLiveSpec
INVARIANTS DispatchTypeOK RetryAfterClose
PROPERTIES ImplementsRate PriorityKept EveryTaskClaimed
