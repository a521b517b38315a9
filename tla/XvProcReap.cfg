SPECIFICATION FairSpec
CONSTANTS
  Proc = {init, p1, p2}
  InitProc = init
  CPU = {c1}
  None = None
  IO = IO
PROPERTY OrphansReaped
