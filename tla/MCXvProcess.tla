---------------------------- MODULE MCXvProcess ----------------------------
(***************************************************************************)
(* What kernel/proc.c does with processes for TLC: their life, and the     *)
(* schedulers that pick the next one.  Each part is checked by itself, for *)
(* its initial states choose which one runs; both have p->state, and the   *)
(* variables that a part does not have are 0 all the time.                 *)
(***************************************************************************)
EXTENDS Naturals

CONSTANTS
  Process, InitProc, Nobody, IO,                       \* XvProc
  N, Builds, Blocking, BoostTicks, Slice, MaxTickets,  \* XvSched
  CPU

\* Time slices short enough that every queue is reached between two boosts.
ShortSlice == [q \in 0..3 |-> IF q = 0 THEN 1 ELSE 2]

VARIABLES
  part, state,
  parent, chan, killed, pc, child, cpu, waitLock,
  build, priority, slices, tickets, boost, loop

Life  == INSTANCE XvProc WITH Proc <- Process, None <- Nobody
Sched == INSTANCE XvSched

ASSUME ProcessAssumption == Life!ProcAssumption /\ Sched!SchedAssumption

\* Variables of one part only.
lifeOnly  == <<parent, chan, killed, pc, child, cpu, waitLock>>
schedOnly == <<build, priority, slices, tickets, boost, loop>>
vars == <<part, state, lifeOnly, schedOnly>>

NoLife == /\ parent = 0 /\ chan = 0 /\ killed = 0 /\ pc = 0 /\ child = 0 /\ cpu = 0
          /\ waitLock = 0
NoSched == /\ build = 0 /\ priority = 0 /\ slices = 0 /\ tickets = 0 /\ boost = 0 /\ loop = 0

Init ==
  \/ part = "life" /\ Life!Init /\ NoSched
  \/ part = "sched" /\ Sched!Init /\ NoLife

Next ==
  \/ part = "life" /\ Life!Next /\ UNCHANGED <<part, schedOnly>>
  \/ part = "sched" /\ Sched!Next /\ UNCHANGED <<part, lifeOnly>>

Spec == Init /\ [][Next]_vars

-----------------------------------------------------------------------------
\* The table of processes, and the bookkeeping of the schedulers, keep their types
\* (proc.c:478, 635-657, 958).
TypeOK ==
  /\ part = "life" => Life!TypeOK
  /\ part = "sched" => Sched!TypeOK

\* A kernel stack is used by one CPU at a time, and a slot is freed only when no CPU
\* is on its stack (proc.c:442, 531, 669).
StackOwned == part = "life" => Life!StackOwned

\* Of two CPUs that walk the table at once only one selects a process, and it is
\* still RUNNABLE when it is switched to (proc.c:531-574, 669).
SelectedOnce == part = "sched" => Sched!SelectedOnce

\* A parent asleep in wait() has no zombie child (proc.c:402-412, 432-478, 753-779).
NoMissedExit == part = "life" => Life!NoMissedExit

\* Every process but init has a parent that can still wait for it
\* (proc.c:361-373, 405).
ParentAlive == part = "life" => Life!ParentAlive
=============================================================================
