\* Three objects and one node more than they need, under fairness.
CONSTANTS
  Objects = {x, y, z}
  Nodes = {n1, n2, n3, n4}
  NULL = NULL
SPECIFICATION FairSpec
INVARIANTS TypeOK OneListEach FewNodes
PROPERTIES ImplementsTransfer CallsReturn
