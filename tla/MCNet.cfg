CONSTANTS
  Nets = {home}
  Default = home
  MaxEvents = 4
  MaxRetries = 2
  MaxForms = 2
  SlowWorld = TRUE
  StartFails = FALSE
  None = None
SPECIFICATION FairSpec
INVARIANTS
  TypeOK
  KeepsTrying
  UpIsUp
  ApOnlyInSetup
PROPERTY
  Reconnects
