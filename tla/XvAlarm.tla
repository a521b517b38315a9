------------------------------- MODULE XvAlarm -------------------------------
(***************************************************************************)
(* sigalarm() and sigreturn() of one xv6 process: the timer interrupt in   *)
(* usertrap() (kernel/trap.c) counts ticks down and sends the process to   *)
(* its handler, the system calls are in kernel/sysproc.c.                  *)
(*                                                                         *)
(* A trapframe is abstracted to whose registers it holds and how far that  *)
(* code is.  Left out: the register a0, which sigreturn() writes with      *)
(* assembler statements whose effect is up to the compiler.                *)
(***************************************************************************)
EXTENDS Integers

CONSTANTS
  MaxInterval, \* bound: intervals of an alarm
  MaxSteps,    \* bound: steps of the program
  MaxLate      \* bound: ticks that ticks_left falls below 0

AlarmAssumption == {MaxInterval, MaxSteps, MaxLate} \subseteq Nat

VARIABLES
  alarmticks, ticksLeft, inAlarm,
  frame,      \* trapframe
  saved,      \* original_trapframe
  progress,   \* steps that the program has made
  late,       \* a handler has run as long as an interval
  misused     \* sigalarm() or exec() in a handler, sigreturn() elsewhere

vars == <<alarmticks, ticksLeft, inAlarm, frame, saved, progress, late, misused>>

Main(n) == [code |-> "main", at |-> n]
Handler == [code |-> "handler", at |-> 0]
Junk == [code |-> "junk", at |-> 0]   \* what kalloc() leaves in a page, and no program survives
Frame == {Main(n) : n \in 0 .. MaxSteps} \cup {Handler, Junk}
InHandler == frame.code = "handler"
Alive == frame.code # "junk"

TypeOK ==
  /\ alarmticks \in 0 .. MaxInterval
  /\ ticksLeft \in -MaxLate .. MaxInterval
  /\ inAlarm \in BOOLEAN /\ late \in BOOLEAN /\ misused \in BOOLEAN
  /\ frame \in Frame /\ saved \in Frame
  /\ progress \in 0 .. MaxSteps

\* allocproc()
Init ==
  /\ alarmticks = 0 /\ ticksLeft = 0 /\ inAlarm = FALSE
  /\ frame = Main(0) /\ saved = Junk
  /\ progress = 0 /\ late = FALSE /\ misused = FALSE

\* The program's own code.
Step ==
  /\ frame.code = "main" /\ frame.at < MaxSteps /\ progress < MaxSteps
  /\ frame' = Main(frame.at + 1)
  /\ progress' = progress + 1
  /\ UNCHANGED <<alarmticks, ticksLeft, inAlarm, saved, late, misused>>

Fires(left) == left = 0 /\ alarmticks > 0 /\ ~inAlarm

\* usertrap(), after the yield().
TimerInterrupt ==
  /\ Alive
  /\ ticksLeft > -MaxLate
  /\ LET left == ticksLeft - 1 IN
     IF Fires(left)
     THEN /\ inAlarm' = TRUE
          /\ ticksLeft' = alarmticks
          /\ saved' = frame
          /\ frame' = Handler
          /\ UNCHANGED late
     ELSE /\ ticksLeft' = left
          /\ late' = (late \/ left <= 0)
          /\ UNCHANGED <<inAlarm, frame, saved>>
  /\ UNCHANGED <<alarmticks, progress, misused>>

SigAlarm(interval) ==
  /\ Alive
  /\ alarmticks' = interval /\ ticksLeft' = interval
  /\ inAlarm' = FALSE
  /\ late' = FALSE
  /\ misused' = (misused \/ InHandler)
  /\ UNCHANGED <<frame, saved, progress>>

SigReturn ==
  /\ Alive
  /\ frame' = saved
  /\ inAlarm' = FALSE
  /\ misused' = (misused \/ ~InHandler)
  /\ UNCHANGED <<alarmticks, ticksLeft, saved, progress, late>>

\* exec() starts a program, and leaves the alarm of the one before.
Exec ==
  /\ Alive
  /\ frame' = Main(0) /\ progress' = 0
  /\ misused' = (misused \/ InHandler)
  /\ UNCHANGED <<alarmticks, ticksLeft, inAlarm, saved, late>>

Next ==
  \/ Step \/ TimerInterrupt \/ SigReturn \/ Exec
  \/ \E interval \in 0 .. MaxInterval : SigAlarm(interval)

Spec == Init /\ [][Next]_vars

-----------------------------------------------------------------------------
\* Alarms are invisible to the program: between its steps it may be sent to its
\* handler at any tick, but the handler is never interrupted by the next alarm,
\* and after it the program goes on exactly where it was (trap.c:91-97,
\* sysproc.c:141, alarmtest.c:70-75).  Until a handler runs as long as an
\* interval, the next alarm is at most an interval away (trap.c:91).
ProgramResumes ==
  ~misused =>
    /\ InHandler <=> inAlarm
    /\ progress = IF InHandler THEN saved.at ELSE frame.at
    /\ InHandler => saved.code = "main"
    /\ alarmticks > 0 /\ ~late => ticksLeft \in 1 .. alarmticks
=============================================================================
