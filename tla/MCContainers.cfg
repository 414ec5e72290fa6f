\* The bounds on edits and calls make some behaviours stop in the end, and an input
\* is checked once: no deadlock check.
SPECIFICATION MCSpec
CONSTANTS
  NONE = NONE  HOLE = HOLE  JUNK = JUNK  NULL = NULL  NUL = NUL
  Maps = {"a", "b", "c"}  Keys = {1, 2, 4, 12}  Vals = {v1, v2}  HashOf <- Identity  HashRange = 8
  MapsFilled <- ThreeMaps  Edited = {"a"}  Hows <- SomeHows  MaxEdits = 3
  Lists = {"l", "m"}  Items = {1, 2, 3}  MinCapacity = 2  ListsFilled <- TwoLists  MaxLen <- UpToThree
  Streams = {"s", "t"}  Bytes = {1, 2}  StreamTexts <- FirstTexts  Seeks <- SomeSeeks  FirstSize = 2
  StreamsFilled <- TwoStreams  MaxLength <- UpToFive  MaxCalls = 3
  Blocks = {b1, b2, b3}
  Header = 1  DefaultSize = 4  Lengths = {1, 3, 5}  MaxStrings = 3
  Roots = {p1, p2}  Objects = {o1, o2}  MaxPointers = 3
  Delegates = {d1, d2, d3}  States = {1, 2}  Called <- Flip
  BuilderTexts <- ShortTexts  Short = 2  CharSizes = {1, 2}  MaxBuilt = 6
  Strings = {t1, t2}  StringTexts <- ShortTexts  MaxShares = 2
INVARIANTS StructuresSound LookupsExact MemoryOwned 
PROPERTIES ImplementsDict ImplementsSeq ImplementsValues
CHECK_DEADLOCK FALSE
