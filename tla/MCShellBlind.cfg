SPECIFICATION Spec
CONSTANTS
  None = None
  Present <- MCPresent
  QueueLen = 2
  RingLen = 2
  Registries <- MCRegistries
  Binding <- MCBinding
  NeedsPc <- MCNeedsPc
  MaxPins = 2
  Patient = TRUE
  BlindEnter = TRUE
PROPERTIES
  HomeReached
