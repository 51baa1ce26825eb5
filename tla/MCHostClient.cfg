CONSTANTS
  Topics = {"cpu", "mem"}
  Supported = {"cpu"}
  FailThreshold = 2
  MaxInFlight = 2
  MaxFaults = 1
  SendTimesOut = FALSE
SPECIFICATION Spec
INVARIANT ClientOutlivesCalls
