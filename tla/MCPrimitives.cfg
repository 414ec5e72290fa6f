\* The bounds on calls make every behaviour stop in the end: no deadlock check.
CONSTANTS
  NONE = NONE  JUNK = JUNK  NULL = NULL
  Values = {v1, v2}  SpscSizes = {1, 2, 3}  MaxWrites = 5
  Items = {v1, v2}  Snaps = {p1, p2, p3, p4}  InitialCapacity = 1  GrowCapacity = 1
  MaxCount = 2  MaxDepth = 2  MaxCalls = 3
  Words = {1, 2}  Structs <- EqualWords  SeqWord = 8  MaxRaces = 2
  LockThreads = {t1, t2, t3}  LockKinds = {"spin", "slim", "mutex", "semaphore"}
  Units = 2  MaxUnits = 3  MaxNested = 2
  Threads = {t1, t2}
  Slots = {s1, s2}  Objects = {o1, o2, o3}  MaxStarts = 2
  Buckets = {h1, h2}  BucketUnits = 3  Sizes = {1, 2}  MaxAllocs = 3
SPECIFICATION Spec
INVARIANT NoIntrusion
PROPERTIES ImplementsShared EverythingEnds
CHECK_DEADLOCK FALSE
