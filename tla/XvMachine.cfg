CONSTANTS
  Worker = {w1, w2}
  First = first
  Reader = {reader1, reader2}
  None = none
  Num = 7
  RingWrap = 14
  Irq = interrupt
  BufSize = 3
  EndOfLine = nl
  EndOfFile = eof
  Char = {nl, eof, x}
  Wrap = 6
  MaxN = 2
  NumPages = 17
  MaxSize = 2
  NProc = 2
  NSlot = 3
  NCpu = 2
  MaxTicks = 3
  MaxSleep = 2
  MaxInterval = 3
  MaxSteps = 3
  MaxLate = 2
  MaxCalls = 4
  MaxAgain = 2
SPECIFICATION Spec
SYMMETRY Sym
INVARIANTS TypeOK IoMoves PoolsConserved AccountsKept
PROPERTIES ConsoleIsLineInput
CHECK_DEADLOCK FALSE
