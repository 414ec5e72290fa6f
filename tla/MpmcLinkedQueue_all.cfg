\* Two threads and three nodes under fairness, four changes of the head.
CONSTANTS
  Threads = {t1, t2}
  Nodes = {a, b, c}
  Stacks = {s}
  NULL = NULL
  PopAllStacks = {s}
  MaxTag = 4
SPECIFICATION QFairSpec
INVARIANTS QTypeOK OneSignalPerBatch
PROPERTIES ImplementsBatchFifo QCallsReturn
