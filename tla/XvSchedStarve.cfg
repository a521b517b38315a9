SPECIFICATION FairSpec
CONSTANTS
  N = 50
  CPU = {c1}
  Builds = {"MLFQ"}
  Blocking = {}
  BoostTicks = 48
  Slice <- CodeSlice
  MaxTickets = 1
PROPERTY NoStarvation
CHECK_DEADLOCK FALSE
