SPECIFICATION Spec
CONSTANTS
  Process = {init, p1, p2}
  InitProc = init
  Nobody = None
  IO = IO
  N = 3
  Builds = {"RR", "LBS", "MLFQ"}
  Blocking = {1}
  BoostTicks = 3
  Slice <- ShortSlice
  MaxTickets = 2
  CPU = {c1, c2}
INVARIANTS
  TypeOK
  StackOwned
  SelectedOnce
  NoMissedExit
  ParentAlive
