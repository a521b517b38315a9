CONSTANTS
  BoardSize = 3
  MaxLosses = 1
  MaxLeaves = 1
  MAX_CHUNKS = 3
  MaxTotal = 4
  MAX_SIZE = 3
  Programs = 2
  Pid = {p1, p2}
  None = none
  MaxSpawn = 4
  Stages = 3
  PipeSize = 2
  MaxOut = 3
  Label = {m1, m2}
  MARK_MAX = 1
  Arg <- SomeArgs
  Directory <- SomeDirectories
  UserHome <- ShellHome
  Fragile <- Innermost
  Conn = {c1, c2, c3}
  Fd = {1, 2}
  Shared <- SomePaths
  Home <- ServerHome
  MAX_FILES = 1
  THRESHOLD = 3
  MIN_THREAD_SIZE = 2
  NUM_THREADS = 2
  MAX_ID = 1
  PerThread = 1
  Overflow = 2
  Id = {0, 1, 2}
  Chars = {0, 1}
  Time = {0, 1, 3}
  MaxFiles = 4
SPECIFICATION Spec
SYMMETRY Sym
INVARIANTS TypeOK  RightResults 
PROPERTIES  FollowsDirectory
CHECK_DEADLOCK FALSE
