\* One item, nested batches and Clear, under fairness.
CONSTANTS
  Items = {x}
  Snaps = {s1, s2, s3, s4}
  NULL = NULL
  UseClear = TRUE
  MaxDepth = 2
  MaxLen = 1
  MaxDelta = 1
SPECIFICATION FairSpec
PROPERTIES LatestIsSeen ReaderReturns
