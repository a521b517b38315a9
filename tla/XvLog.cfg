SPECIFICATION FairSpec
CONSTANTS
  Op = {o1, o2, o3, o4}
  Block = {b1, b2, b3}
  Blank = Blank
  MAXOPBLOCKS = 2
  LOGSIZE = 4
  OpBlocks = 1
  MaxCrashes = 2
INVARIANTS
  TypeOK
  RoomInLog
  CommitAlone
PROPERTIES
  AtomicDisk
  CallsReturn
