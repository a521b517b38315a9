---------------------------- MODULE MCXvMachine ----------------------------
(***************************************************************************)
(* The drivers, the memory and the accounts of xv6 for TLC.  Each part is  *)
(* checked by itself, for its initial states choose which one runs; the    *)
(* parts share the names of their variables, and those that a part does    *)
(* not have are 0 all the time.                                            *)
(***************************************************************************)
EXTENDS Naturals, FiniteSets, TLC

CONSTANTS
  Worker, First, None,               \* processes
  Num, RingWrap,                     \* XvDisk
  Irq, BufSize,                      \* XvUart and XvConsole
  Reader, EndOfLine, EndOfFile, Char, Wrap, MaxN,
  NumPages, MaxSize,                 \* XvMemory
  NProc, NCpu, MaxTicks, MaxSleep,   \* XvTime
  MaxInterval, MaxSteps, MaxLate,    \* XvAlarm
  NSlot, MaxCalls, MaxAgain          \* XvCounts

Proc == Worker \cup {First}
Sym == Permutations(Worker)

VARIABLES
  part,
  pc, lock, free, state,
  next, info, avail, availIdx, used, usedIdxDev, usedIdx, taken, inDevice, idx, busy, moved,
  waiting, asleep, thr, irq,
  buf, r, w, e, left, target,
  trapframe, original, image, kid, new, goal, base, mem,
  ticks, visit, ctime, rtime, etime, ticks0, length,
  alarmticks, ticksLeft, inAlarm, frame, saved, progress, late, misused,
  parent, count, calls, again, dropped

Disk    == INSTANCE XvDisk WITH Wrap <- RingWrap
Uart    == INSTANCE XvUart WITH Interrupt <- Irq, Nobody <- None
Console == INSTANCE XvConsole WITH Proc <- Reader, Nobody <- None
Memory  == INSTANCE XvMemory
Time    == INSTANCE XvTime
Alarm   == INSTANCE XvAlarm
Counts  == INSTANCE XvCounts WITH NProc <- NSlot

ASSUME PartsAssumption ==
  /\ Disk!NumAssumption /\ Uart!OwnerAssumption /\ Uart!BufAssumption
  /\ Console!CharAssumption /\ Console!BufAssumption
  /\ Memory!FirstAssumption /\ Memory!SizeAssumption
  /\ Time!TimeAssumption /\ Alarm!AlarmAssumption /\ Counts!CountsAssumption

\* Variables of one part only.
diskOnly    == <<next, info, avail, availIdx, used, usedIdxDev, usedIdx, taken, inDevice, idx,
                 busy, moved>>
uartOnly    == <<waiting, asleep, thr, irq>>
consoleOnly == <<buf, r, w, e, left, target>>
memoryOnly  == <<trapframe, original, image, kid, new, goal, base, mem>>
timeOnly    == <<ticks, visit, ctime, rtime, etime, ticks0, length>>
alarmOnly   == <<alarmticks, ticksLeft, inAlarm, frame, saved, progress, late, misused>>
countsOnly  == <<parent, count, calls, again, dropped>>
vars == <<part, pc, lock, free, state, diskOnly, uartOnly, consoleOnly, memoryOnly, timeOnly,
          alarmOnly, countsOnly>>

NoDisk ==
  /\ next = 0 /\ info = 0 /\ avail = 0 /\ availIdx = 0 /\ used = 0 /\ usedIdxDev = 0
  /\ usedIdx = 0 /\ taken = 0 /\ inDevice = 0 /\ idx = 0 /\ busy = 0 /\ moved = 0
NoUart == waiting = 0 /\ asleep = 0 /\ thr = 0 /\ irq = 0
NoConsole == buf = 0 /\ r = 0 /\ w = 0 /\ e = 0 /\ left = 0 /\ target = 0
NoMemory ==
  /\ trapframe = 0 /\ original = 0 /\ image = 0 /\ kid = 0 /\ new = 0 /\ goal = 0
  /\ base = 0 /\ mem = 0
NoTime ==
  /\ ticks = 0 /\ visit = 0 /\ ctime = 0 /\ rtime = 0 /\ etime = 0 /\ ticks0 = 0 /\ length = 0
NoAlarm ==
  /\ alarmticks = 0 /\ ticksLeft = 0 /\ inAlarm = 0 /\ frame = 0 /\ saved = 0
  /\ progress = 0 /\ late = 0 /\ misused = 0
NoCounts == parent = 0 /\ count = 0 /\ calls = 0 /\ again = 0 /\ dropped = 0

Init ==
  \/ /\ part = "disk" /\ Disk!Init
     /\ NoAlarm /\ NoCounts /\ NoUart /\ NoConsole /\ NoMemory /\ NoTime /\ lock = 0 /\ state = 0
  \/ /\ part = "uart" /\ Uart!Init
     /\ NoAlarm /\ NoCounts /\ NoDisk /\ NoConsole /\ NoMemory /\ NoTime /\ pc = 0 /\ free = 0 /\ state = 0
  \/ /\ part = "console" /\ Console!Init
     /\ NoAlarm /\ NoCounts /\ NoDisk /\ NoUart /\ NoMemory /\ NoTime /\ free = 0 /\ state = 0
  \/ /\ part = "memory" /\ Memory!Init
     /\ NoAlarm /\ NoCounts /\ NoDisk /\ NoUart /\ NoConsole /\ NoTime /\ lock = 0
  \/ /\ part = "time" /\ Time!Init
     /\ NoAlarm /\ NoCounts /\ NoDisk /\ NoUart /\ NoConsole /\ NoMemory /\ pc = 0 /\ lock = 0 /\ free = 0
  \/ /\ part = "alarm" /\ Alarm!Init
     /\ NoCounts /\ NoDisk /\ NoUart /\ NoConsole /\ NoMemory /\ NoTime
     /\ pc = 0 /\ lock = 0 /\ free = 0 /\ state = 0
  \/ /\ part = "counts" /\ Counts!Init
     /\ NoAlarm /\ NoDisk /\ NoUart /\ NoConsole /\ NoMemory /\ NoTime
     /\ pc = 0 /\ lock = 0 /\ free = 0

Next ==
  \/ /\ part = "disk" /\ Disk!Next
     /\ UNCHANGED <<part, alarmOnly, countsOnly, uartOnly, consoleOnly, memoryOnly, timeOnly, lock, state>>
  \/ /\ part = "uart" /\ Uart!Next
     /\ UNCHANGED <<part, alarmOnly, countsOnly, diskOnly, consoleOnly, memoryOnly, timeOnly, pc, free, state>>
  \/ /\ part = "console" /\ Console!Next
     /\ UNCHANGED <<part, alarmOnly, countsOnly, diskOnly, uartOnly, memoryOnly, timeOnly, free, state>>
  \/ /\ part = "memory" /\ Memory!Next
     /\ UNCHANGED <<part, alarmOnly, countsOnly, diskOnly, uartOnly, consoleOnly, timeOnly, lock>>
  \/ /\ part = "time" /\ Time!Next
     /\ UNCHANGED <<part, alarmOnly, countsOnly, diskOnly, uartOnly, consoleOnly, memoryOnly, pc, lock, free>>
  \/ /\ part = "alarm" /\ Alarm!Next
     /\ UNCHANGED <<part, countsOnly, diskOnly, uartOnly, consoleOnly, memoryOnly, timeOnly,
                    pc, lock, free, state>>
  \/ /\ part = "counts" /\ Counts!Next
     /\ UNCHANGED <<part, alarmOnly, diskOnly, uartOnly, consoleOnly, memoryOnly, timeOnly,
                    pc, lock, free>>

Spec == Init /\ [][Next]_vars

-----------------------------------------------------------------------------
\* The variables of each part keep their types.
TypeOK ==
  /\ part = "disk" => Disk!TypeOK
  /\ part = "uart" => Uart!TypeOK
  /\ part = "console" => Console!TypeOK
  /\ part = "memory" => Memory!TypeOK
  /\ part = "time" => Time!TypeOK
  /\ part = "alarm" => Alarm!TypeOK
  /\ part = "counts" => Counts!TypeOK

\* No input or output gets stuck: output in the UART's buffer has an interrupt
\* to come (uart.c:136), a reader of the console sleeps only while no line is
\* there (console.c:87), a request for the disk was submitted (virtio_disk.c:281).
IoMoves ==
  /\ part = "uart" => Uart!OutputMoves
  /\ part = "console" => Console!ReadersAwake
  /\ part = "disk" => Disk!DoneMeansMoved

\* Descriptors of the disk and pages of memory are free or used, never both
\* (virtio_disk.c:161, kalloc.c:46): on every failing path of fork(), exec()
\* and sbrk(), and in whatever order requests end.
PoolsConserved ==
  /\ part = "disk" => Disk!DescriptorsConserved
  /\ part = "memory" => Memory!PagesFreedOnce

\* What the kernel keeps of a process adds up: its times (proc.c:908-975), the
\* system calls of it and its children (proc.c:451), and through alarms the point
\* where it was interrupted (trap.c:91-97).
AccountsKept ==
  /\ part = "time" => Time!TimesAddUp
  /\ part = "alarm" => Alarm!ProgramResumes
  /\ part = "counts" => Counts!CountsRollUp

Input == INSTANCE LineInput WITH
  Capacity <- BufSize,
  complete <- IF part = "console" THEN Console!Complete ELSE <<>>,
  line <- IF part = "console" THEN Console!Line ELSE <<>>

\* Through any wrap of the indices, the ring of the console is a line editor:
\* what was erased is never read, what was read cannot be erased (console.c:146
\* and 156).
ConsoleIsLineInput == Input!Spec
=============================================================================
