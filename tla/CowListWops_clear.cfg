\* The writer also calls Clear.
CONSTANTS
  Items = {x}
  Snaps = {s1, s2, s3, s4}
  NULL = NULL
  UseClear = TRUE
  MaxDepth = 1
  MaxLen = 1
  MaxDelta = 2
SPECIFICATION Spec
PROPERTY DeltaIsExact
