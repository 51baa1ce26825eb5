CONSTANTS
  Topics = {"cpu", "mem"}
  Supported = {"cpu"}
  FailThreshold = 2
  MaxInFlight = 2
  MaxFaults = 1
  SendTimesOut = FALSE
SPECIFICATION FairSpec
INVARIANTS
  TypeOK
  AppliedWhenQuiet
  UpIsAccepted
PROPERTY
  EventuallyUp
