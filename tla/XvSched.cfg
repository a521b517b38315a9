SPECIFICATION FairSpec
CONSTANTS
  N = 3
  CPU = {c1, c2}
  Builds = {"RR", "LBS", "MLFQ"}
  Blocking = {1}
  BoostTicks = 3
  Slice <- ShortSlice
  MaxTickets = 2
PROPERTY NoStarvation
