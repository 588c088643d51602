SPECIFICATION LifeLiveSpec
CONSTANTS
  c1 = c1
  c2 = c2
  c3 = c3
  Callers = {c1, c2, c3}
  Calls <- ThreeCallers
  Workers = {w1}
  Loops = {"recovery"}
  ShutdownTimeout = 1
  MaxWait = 1
INVARIANTS LifeTypeOK CleanMeansEnded CutByStopOrTimeout
PROPERTIES WaitLasts EveryWaitEnds EveryCallReturns GoroutinesEnd
