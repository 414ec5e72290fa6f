\* Single calls and batches on lists of up to two of two items.
CONSTANTS
  Items = {x, y}
  Snaps = {s1, s2, s3, s4}
  NULL = NULL
  UseClear = FALSE
  MaxDepth = 1
  MaxLen = 2
  MaxDelta = 2
SPECIFICATION Spec
SYMMETRY Symmetry
INVARIANTS TypeOK NoDangling OneOwner FewSnapshots Reconciled
PROPERTY DeltaIsExact
