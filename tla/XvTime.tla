------------------------------ MODULE XvTime ------------------------------
(***************************************************************************)
(* Time in xv6: the clock interrupt (clockintr() of kernel/trap.c and      *)
(* update_time() of kernel/proc.c), the times that fork(), exit() and      *)
(* waitx() keep of a process, and sleep() (kernel/sysproc.c).              *)
(*                                                                         *)
(* CPU 0 holds tickslock while update_time() visits the slots one by one   *)
(* under their locks; the other CPUs create, run and end processes         *)
(* meanwhile, and read ticks without tickslock.                            *)
(***************************************************************************)
EXTENDS Integers, FiniteSets

CONSTANTS
  NProc,     \* NPROC
  NCpu,      \* bound: processes that run at once
  MaxTicks,  \* bound: ticks of the clock
  MaxSleep   \* bound: the largest n of a sleep(n)

TimeAssumption == {NProc, NCpu, MaxTicks, MaxSleep} \subseteq Nat /\ NProc > 0

VARIABLES
  ticks,
  visit,                \* the slot update_time() comes to; 0: tickslock is free
  state,                \* of a slot; "used" while its lock is held by fork()
  ctime, rtime, etime,
  ticks0, length        \* of sleep(): when it began, and its n

times == <<ctime, rtime, etime>>
vars == <<ticks, visit, state, times, ticks0, length>>

Slot == 1 .. NProc
States == {"unused", "used", "runnable", "running", "asleep", "zombie"}

TypeOK ==
  /\ ticks \in 0 .. MaxTicks /\ visit \in 0 .. NProc
  /\ state \in [Slot -> States]
  /\ \A f \in {ctime, rtime, etime, ticks0} : f \in [Slot -> 0 .. MaxTicks]
  /\ length \in [Slot -> 0 .. MaxSleep]

Init ==
  /\ ticks = 0 /\ visit = 0
  /\ state = [s \in Slot |-> "unused"]
  /\ ctime = [s \in Slot |-> 0] /\ rtime = ctime /\ etime = ctime
  /\ ticks0 = [s \in Slot |-> 0] /\ length = [s \in Slot |-> 0]

Become(s, new) == state' = [state EXCEPT ![s] = new]

-----------------------------------------------------------------------------
(* clockintr() *)

Tick ==
  /\ visit = 0 /\ ticks < MaxTicks
  /\ ticks' = ticks + 1
  /\ visit' = 1
  /\ UNCHANGED <<state, times, ticks0, length>>

\* update_time() visits a slot; after the last one, wakeup(&ticks).
UpdateTime ==
  /\ visit > 0 /\ state[visit] # "used"
  /\ rtime' = IF state[visit] = "running" THEN [rtime EXCEPT ![visit] = @ + 1] ELSE rtime
  /\ visit' = IF visit = NProc THEN 0 ELSE visit + 1
  /\ state' = IF visit = NProc
                THEN [s \in Slot |-> IF state[s] = "asleep" THEN "runnable" ELSE state[s]]
                ELSE state
  /\ UNCHANGED <<ticks, ctime, etime, ticks0, length>>

-----------------------------------------------------------------------------
(* The life of a process *)

\* Mutant of Create: the slot keeps the time of who had it before.
CreateKeeping(s) ==
  /\ state[s] = "unused"
  /\ Become(s, "used")
  /\ ctime' = [ctime EXCEPT ![s] = ticks]
  /\ etime' = [etime EXCEPT ![s] = 0]
  /\ UNCHANGED <<ticks, visit, rtime, ticks0, length>>

\* allocproc()
Create(s) ==
  /\ state[s] = "unused"
  /\ Become(s, "used")
  /\ ctime' = [ctime EXCEPT ![s] = ticks]
  /\ rtime' = [rtime EXCEPT ![s] = 0]
  /\ etime' = [etime EXCEPT ![s] = 0]
  /\ UNCHANGED <<ticks, visit, ticks0, length>>

\* fork() gives the slot's lock up and makes it RUNNABLE.
Ready(s) ==
  /\ state[s] = "used"
  /\ Become(s, "runnable")
  /\ UNCHANGED <<ticks, visit, times, ticks0, length>>

Running == {s \in Slot : state[s] = "running"}

Dispatch(s) ==
  /\ state[s] = "runnable" /\ Cardinality(Running) < NCpu
  /\ Become(s, "running")
  /\ UNCHANGED <<ticks, visit, times, ticks0, length>>

Yield(s) ==
  /\ state[s] = "running"
  /\ Become(s, "runnable")
  /\ UNCHANGED <<ticks, visit, times, ticks0, length>>

Exit(s) ==
  /\ state[s] = "running" /\ length[s] = 0
  /\ Become(s, "zombie")
  /\ etime' = [etime EXCEPT ![s] = ticks]
  /\ UNCHANGED <<ticks, visit, ctime, rtime, ticks0, length>>

\* waitx() reports rtime and etime - ctime - rtime; freeproc() clears neither.
Reap(s) ==
  /\ state[s] = "zombie"
  /\ Become(s, "unused")
  /\ UNCHANGED <<ticks, visit, times, ticks0, length>>

-----------------------------------------------------------------------------
(* sleep(n) *)

Sleep(s, n) ==
  /\ state[s] = "running" /\ length[s] = 0 /\ n > 0 /\ visit = 0
  /\ length' = [length EXCEPT ![s] = n]
  /\ ticks0' = [ticks0 EXCEPT ![s] = ticks]
  /\ Become(s, "asleep")
  /\ UNCHANGED <<ticks, visit, times>>

\* Awake again, with tickslock: it sleeps on, or returns.
SleepOn(s) ==
  /\ state[s] = "running" /\ length[s] > 0 /\ visit = 0
  /\ ticks - ticks0[s] < length[s]
  /\ Become(s, "asleep")
  /\ UNCHANGED <<ticks, visit, times, ticks0, length>>

\* Enough ticks have gone by, or the process is killed.
SleepReturns(s) ==
  /\ state[s] = "running" /\ length[s] > 0 /\ visit = 0
  /\ length' = [length EXCEPT ![s] = 0]
  /\ ticks0' = [ticks0 EXCEPT ![s] = 0]
  /\ UNCHANGED <<ticks, visit, state, times>>

-----------------------------------------------------------------------------
Next ==
  \/ Tick \/ UpdateTime
  \/ \E s \in Slot :
       \/ Create(s) \/ Ready(s) \/ Dispatch(s) \/ Yield(s) \/ Exit(s) \/ Reap(s)
       \/ SleepOn(s) \/ SleepReturns(s)
       \/ \E n \in 1 .. MaxSleep : Sleep(s, n)

Spec == Init /\ [][Next]_vars

-----------------------------------------------------------------------------
(* Properties *)

Age(s) == (IF state[s] = "zombie" THEN etime[s] ELSE ticks) - ctime[s]

\* The times of a process add up, though its slot was used before and clock,
\* fork() and exit() run at once: it has not run longer than it exists, but for
\* the one tick that was counted, and not yet charged, when it was created
\* (proc.c:155); waitx() reports that one as a wait of 2^32 - 1 ticks.
TimesAddUp ==
  \A s \in Slot : state[s] # "unused" => /\ Age(s) >= 0
                                         /\ rtime[s] <= Age(s) + 1
=============================================================================
