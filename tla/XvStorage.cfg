CONSTANTS
  Worker = {w1, w2}
  First = first
  Pair = {first, second}
  None = none
  Inode = {1, 2, 3}
  Root = 1
  Name = {"a", "b"}
  Paths <- DownPaths
  OneFile = {f1, f2}
  RootDir = f1
  NumBlocks = 4
  NDirect = 1
  NIndirect = 2
  BSize = 2
  Buf = {b1, b2, b3}
  SomeBlocks = {n1, n2, n3}
  OtherBlock = n4
  Value = {0, 1}
  MaxPins = 1
  NumFile = 3
  NumFd = 2
  Pipe = {q1}
  Bytes = {0, 1}
  PipeSize = 2
  Wrap = 4
  MaxKills = 1
  MaxN = 2
SPECIFICATION Spec
SYMMETRY Sym
VIEW View
INVARIANTS TypeOK  NothingDangles NoMissedWakeup BlocksExact ReadsSeeStores
PROPERTIES PipeIsAStream
CHECK_DEADLOCK FALSE
