SPECIFICATION WheelLiveSpec
CONSTANTS
  Events = {e1, e2, e3}
  MaxTime = 1
  MaxSignals = 1
  None = None
INVARIANTS WheelTypeOK NeverOversleeps
PROPERTIES ImplementsTimer EveryEventRuns RunReturns
