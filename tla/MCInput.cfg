SPECIFICATION Spec
CONSTANTS
  Present = {B1, B2}
  SingleTouch = FALSE
  QueueLen = 2
  DEBOUNCE = 1
  CHORD = 2
  LONG = 4
  REPEAT = 2
  DOUBLE = 4
  MaxLate = 2
INVARIANTS
  TypeOK
  NoPhantom
PROPERTIES
  ImplementsButtons
  PressDecided
  ReleaseSeen
