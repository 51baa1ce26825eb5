SPECIFICATION Spec
CONSTANTS
  Healthy = {v1, v2}
  Dead = {v3}
  First = v1
  NFiles = 2
INVARIANTS
  TypeOK
  Fallback
  FilesCurrent
  Kept
PROPERTIES
  Recovers
