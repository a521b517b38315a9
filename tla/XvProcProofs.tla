---------------------------- MODULE XvProcProofs ----------------------------
(***************************************************************************)
(* Processes and schedulers.                                               *)
(*                                                                         *)
(* First the safety of XvProc for every process table and every number of  *)
(* CPUs.  LifeInv is inductive.  To the checked invariants it adds where a *)
(* kernel thread can stand in each state of its process (Labels), that     *)
(* wait_lock is held exactly by a thread inside one of its critical        *)
(* sections (LockHeld), that fork() is the only one to touch a slot that   *)
(* is USED (Forking), and why no step leaves a parent asleep beside a      *)
(* zombie (Wakeups).                                                       *)
(*                                                                         *)
(* Then the safety of XvSched for every process table, number of CPUs, set *)
(* of builds, boost interval and slices.  SchedInv is inductive.  To       *)
(* TypeOK and SelectedOnce it adds which build's code a CPU can be in (a   *)
(* scan of MLFQ ignores the locks of a lottery, and may, since there is    *)
(* none), that only a draw goes past the last slot and only a draw or a    *)
(* switched CPU has selected anybody, and that a boost is due before the   *)
(* counter passes the interval.                                            *)
(*                                                                         *)
(* The last section says it of both together.                              *)
(***************************************************************************)
EXTENDS MCXvProcess, Integers, TLAPS

-----------------------------------------------------------------------------
(* The life of processes.                                                  *)

Dead == {"UNUSED", "USED", "ZOMBIE"}

(* A running process has its stack on exactly one CPU.                     *)
Stacks ==
  /\ Life!StackOwned
  /\ \A p \in Process : state[p] = "RUNNING" => Life!OnCpu(p)

Labels ==
  \A p \in Process :
    /\ state[p] = "UNUSED" => pc[p] \in {"user", "exitZombie"}
    /\ state[p] = "USED" => pc[p] = "user"
    /\ state[p] = "SLEEPING" => pc[p] \in {"user", "waitLock"}
    /\ state[p] = "ZOMBIE" => pc[p] = "exitZombie"
    /\ pc[p] = "exitZombie" => state[p] \in {"RUNNING", "ZOMBIE", "UNUSED"}
    /\ pc[p] \in {"exitReparent", "exitWake", "waitScan", "waitSleep"}
         => state[p] = "RUNNING"
    /\ p = InitProc =>
         /\ state[p] \notin Dead
         /\ pc[p] \notin {"exitLock", "exitReparent", "exitWake", "exitZombie"}

(* The statements between acquire(&wait_lock) and its release.             *)
Holds(p) ==
  \/ pc[p] \in {"exitReparent", "exitWake", "waitScan", "waitSleep"}
  \/ pc[p] = "exitZombie" /\ state[p] = "RUNNING"

LockHeld == \A p \in Process : waitLock = p <=> Holds(p)

(* Each slot that a fork() is filling belongs to that one fork().          *)
Forking ==
  /\ \A p \in Process : child[p] # Nobody <=> pc[p] \in {"forkParent", "forkRun"}
  /\ \A p \in Process : child[p] # Nobody => state[child[p]] = "USED"
  /\ \A p \in Process : pc[p] = "forkRun" => parent[child[p]] = p
  /\ \A p, q \in Process : child[p] # Nobody /\ child[p] = child[q] => p = q

(* A parent is alive; past reparent() nobody is a child of p any more.     *)
Parents ==
  /\ \A q \in Process : parent[q] # Nobody => state[parent[q]] \notin Dead
  /\ \A q \in Process \ {InitProc} :
       state[q] \notin {"UNUSED", "USED"} => parent[q] # Nobody
  /\ \A p, q \in Process : pc[p] \in {"exitWake", "exitZombie"} => parent[q] # p

(* NoMissedExit, the scan's result still true when the parent goes to      *)
(* sleep, and the parent awake from the child's wakeup() to its death.     *)
Wakeups ==
  /\ Life!NoMissedExit
  /\ \A p, q \in Process : pc[p] = "waitSleep" /\ parent[q] = p => state[q] # "ZOMBIE"
  /\ \A p, q \in Process :
       pc[q] = "exitZombie" /\ state[q] = "RUNNING" /\ parent[q] = p
         => ~(state[p] = "SLEEPING" /\ chan[p] = p)

LifeInv ==
  /\ Life!TypeOK
  /\ Stacks
  /\ Labels
  /\ LockHeld
  /\ Forking
  /\ Parents
  /\ Wakeups

-----------------------------------------------------------------------------
(* Every step keeps each part of IInv.                                     *)
LEMMA TypeStep ==
  ASSUME Life!ProcAssumption PROVE LifeInv /\ [Life!Next]_(Life!vars) => Life!TypeOK'
<1> SUFFICES ASSUME LifeInv, [Life!Next]_(Life!vars) PROVE Life!TypeOK'
  OBVIOUS
<1> USE DEF Life!ProcAssumption, LifeInv, Life!TypeOK, Life!At, Life!InUser, Life!Running,
            Life!OnCpu, Life!Locked, Life!Goto, Life!State, Life!Label, Parents, Labels,
                    Forking, Dead
<1>1. ASSUME NEW c \in CPU, Life!SwitchOut(c) PROVE Life!TypeOK'
  BY <1>1 DEF Life!SwitchOut
<1>2. ASSUME NEW c \in CPU, NEW p \in Process, Life!Dispatch(c, p) PROVE Life!TypeOK'
  BY <1>2 DEF Life!Dispatch
<1>3. ASSUME NEW p \in Process, Life!Preempt(p) PROVE Life!TypeOK'
  BY <1>3 DEF Life!Preempt
<1>4. ASSUME NEW p \in Process, NEW q \in Process, Life!ForkAlloc(p, q) PROVE Life!TypeOK'
  BY <1>4 DEF Life!ForkAlloc
<1>5. ASSUME NEW p \in Process, NEW q \in Process, Life!ForkFail(p, q) PROVE Life!TypeOK'
  BY <1>5 DEF Life!ForkFail
<1>6. ASSUME NEW p \in Process, Life!ForkParent(p) PROVE Life!TypeOK'
  BY <1>6 DEF Life!ForkParent
<1>7. ASSUME NEW p \in Process, Life!ForkRun(p) PROVE Life!TypeOK'
  BY <1>7 DEF Life!ForkRun
<1>8. ASSUME NEW p \in Process, NEW q \in Process, Life!Kill(p, q) PROVE Life!TypeOK'
  BY <1>8 DEF Life!Kill
<1>9. ASSUME NEW p \in Process, Life!BeginExit(p) PROVE Life!TypeOK'
  BY <1>9 DEF Life!BeginExit
<1>10. ASSUME NEW p \in Process, Life!ExitLock(p) PROVE Life!TypeOK'
  BY <1>10 DEF Life!ExitLock
<1>11. ASSUME NEW p \in Process, Life!ExitReparent(p) PROVE Life!TypeOK'
  BY <1>11 DEF Life!ExitReparent, Life!CanAwaken, Life!Awaken, Life!Children
<1>12. ASSUME NEW p \in Process, Life!ExitWake(p) PROVE Life!TypeOK'
  BY <1>12 DEF Life!ExitWake, Life!CanAwaken, Life!Awaken
<1>13. ASSUME NEW p \in Process, Life!ExitZombie(p) PROVE Life!TypeOK'
  BY <1>13 DEF Life!ExitZombie
<1>14. ASSUME NEW p \in Process, Life!BeginWait(p) PROVE Life!TypeOK'
  BY <1>14 DEF Life!BeginWait
<1>15. ASSUME NEW p \in Process, Life!WaitLock(p) PROVE Life!TypeOK'
  BY <1>15 DEF Life!WaitLock
<1>16. ASSUME NEW p \in Process, NEW q \in Process, Life!WaitReap(p, q) PROVE Life!TypeOK'
  BY <1>16 DEF Life!WaitReap
<1>17. ASSUME NEW p \in Process, Life!WaitFail(p) PROVE Life!TypeOK'
  BY <1>17 DEF Life!WaitFail
<1>18. ASSUME NEW p \in Process, Life!WaitMore(p) PROVE Life!TypeOK'
  BY <1>18 DEF Life!WaitMore
<1>19. ASSUME NEW p \in Process, Life!WaitSleep(p) PROVE Life!TypeOK'
  BY <1>19 DEF Life!WaitSleep, Life!SleepOn
<1>20. ASSUME NEW p \in Process, Life!IoCheck(p) PROVE Life!TypeOK'
  BY <1>20 DEF Life!IoCheck
<1>21. ASSUME NEW p \in Process, Life!IoSleep(p) PROVE Life!TypeOK'
  BY <1>21 DEF Life!IoSleep, Life!SleepOn
<1>22. ASSUME NEW p \in Process, Life!IoWakeup(p) PROVE Life!TypeOK'
  BY <1>22 DEF Life!IoWakeup, Life!CanAwaken, Life!Awaken
<1>23. CASE UNCHANGED Life!vars
  BY <1>23 DEF Life!vars
<1>24. QED
  BY <1>1, <1>2, <1>3, <1>4, <1>5, <1>6, <1>7, <1>8, <1>9, <1>10, <1>11, <1>12, <1>13,
     <1>14, <1>15, <1>16, <1>17, <1>18, <1>19, <1>20, <1>21, <1>22, <1>23 DEF Life!Next,
             Life!Kernel

LEMMA StacksStep ==
  ASSUME Life!ProcAssumption PROVE LifeInv /\ [Life!Next]_(Life!vars) => Stacks'
<1> SUFFICES ASSUME LifeInv, [Life!Next]_(Life!vars) PROVE Stacks'
  OBVIOUS
<1> USE DEF Life!ProcAssumption, LifeInv, Life!TypeOK, Life!At, Life!InUser, Life!Running,
            Life!OnCpu, Life!Locked, Life!Goto, Stacks, Life!StackOwned, Labels, Dead,
                    Forking
<1>1. ASSUME NEW c \in CPU, Life!SwitchOut(c) PROVE Stacks'
  BY <1>1 DEF Life!SwitchOut
<1>2. ASSUME NEW c \in CPU, NEW p \in Process, Life!Dispatch(c, p) PROVE Stacks'
  BY <1>2 DEF Life!Dispatch
<1>3. ASSUME NEW p \in Process, Life!Preempt(p) PROVE Stacks'
  BY <1>3 DEF Life!Preempt
<1>4. ASSUME NEW p \in Process, NEW q \in Process, Life!ForkAlloc(p, q) PROVE Stacks'
  BY <1>4 DEF Life!ForkAlloc
<1>5. ASSUME NEW p \in Process, NEW q \in Process, Life!ForkFail(p, q) PROVE Stacks'
  BY <1>5 DEF Life!ForkFail
<1>6. ASSUME NEW p \in Process, Life!ForkParent(p) PROVE Stacks'
  BY <1>6 DEF Life!ForkParent
<1>7. ASSUME NEW p \in Process, Life!ForkRun(p) PROVE Stacks'
  BY <1>7 DEF Life!ForkRun
<1>8. ASSUME NEW p \in Process, NEW q \in Process, Life!Kill(p, q) PROVE Stacks'
  BY <1>8 DEF Life!Kill
<1>9. ASSUME NEW p \in Process, Life!BeginExit(p) PROVE Stacks'
  BY <1>9 DEF Life!BeginExit
<1>10. ASSUME NEW p \in Process, Life!ExitLock(p) PROVE Stacks'
  BY <1>10 DEF Life!ExitLock
<1>11. ASSUME NEW p \in Process, Life!ExitReparent(p) PROVE Stacks'
  BY <1>11 DEF Life!ExitReparent, Life!CanAwaken, Life!Awaken, Life!Children
<1>12. ASSUME NEW p \in Process, Life!ExitWake(p) PROVE Stacks'
  BY <1>12 DEF Life!ExitWake, Life!CanAwaken, Life!Awaken
<1>13. ASSUME NEW p \in Process, Life!ExitZombie(p) PROVE Stacks'
  BY <1>13 DEF Life!ExitZombie
<1>14. ASSUME NEW p \in Process, Life!BeginWait(p) PROVE Stacks'
  BY <1>14 DEF Life!BeginWait
<1>15. ASSUME NEW p \in Process, Life!WaitLock(p) PROVE Stacks'
  BY <1>15 DEF Life!WaitLock
<1>16. ASSUME NEW p \in Process, NEW q \in Process, Life!WaitReap(p, q) PROVE Stacks'
  BY <1>16 DEF Life!WaitReap
<1>17. ASSUME NEW p \in Process, Life!WaitFail(p) PROVE Stacks'
  BY <1>17 DEF Life!WaitFail
<1>18. ASSUME NEW p \in Process, Life!WaitMore(p) PROVE Stacks'
  BY <1>18 DEF Life!WaitMore
<1>19. ASSUME NEW p \in Process, Life!WaitSleep(p) PROVE Stacks'
  BY <1>19 DEF Life!WaitSleep, Life!SleepOn
<1>20. ASSUME NEW p \in Process, Life!IoCheck(p) PROVE Stacks'
  BY <1>20 DEF Life!IoCheck
<1>21. ASSUME NEW p \in Process, Life!IoSleep(p) PROVE Stacks'
  BY <1>21 DEF Life!IoSleep, Life!SleepOn
<1>22. ASSUME NEW p \in Process, Life!IoWakeup(p) PROVE Stacks'
  BY <1>22 DEF Life!IoWakeup, Life!CanAwaken, Life!Awaken
<1>23. CASE UNCHANGED Life!vars
  BY <1>23 DEF Life!vars
<1>24. QED
  BY <1>1, <1>2, <1>3, <1>4, <1>5, <1>6, <1>7, <1>8, <1>9, <1>10, <1>11, <1>12, <1>13,
     <1>14, <1>15, <1>16, <1>17, <1>18, <1>19, <1>20, <1>21, <1>22, <1>23 DEF Life!Next,
             Life!Kernel

LEMMA LabelsStep ==
  ASSUME Life!ProcAssumption PROVE LifeInv /\ [Life!Next]_(Life!vars) => Labels'
<1> SUFFICES ASSUME LifeInv, [Life!Next]_(Life!vars) PROVE Labels'
  OBVIOUS
<1> USE DEF Life!ProcAssumption, LifeInv, Life!TypeOK, Life!At, Life!InUser, Life!Running,
            Life!OnCpu, Life!Locked, Life!Goto, Labels, Dead, Stacks, Forking, LockHeld,
                    Holds
<1>1. ASSUME NEW c \in CPU, Life!SwitchOut(c) PROVE Labels'
  BY <1>1 DEF Life!SwitchOut
<1>2. ASSUME NEW c \in CPU, NEW p \in Process, Life!Dispatch(c, p) PROVE Labels'
  BY <1>2 DEF Life!Dispatch
<1>3. ASSUME NEW p \in Process, Life!Preempt(p) PROVE Labels'
  BY <1>3 DEF Life!Preempt
<1>4. ASSUME NEW p \in Process, NEW q \in Process, Life!ForkAlloc(p, q) PROVE Labels'
  BY <1>4 DEF Life!ForkAlloc
<1>5. ASSUME NEW p \in Process, NEW q \in Process, Life!ForkFail(p, q) PROVE Labels'
  BY <1>5 DEF Life!ForkFail
<1>6. ASSUME NEW p \in Process, Life!ForkParent(p) PROVE Labels'
  BY <1>6 DEF Life!ForkParent
<1>7. ASSUME NEW p \in Process, Life!ForkRun(p) PROVE Labels'
  BY <1>7 DEF Life!ForkRun
<1>8. ASSUME NEW p \in Process, NEW q \in Process, Life!Kill(p, q) PROVE Labels'
  BY <1>8 DEF Life!Kill
<1>9. ASSUME NEW p \in Process, Life!BeginExit(p) PROVE Labels'
  BY <1>9 DEF Life!BeginExit
<1>10. ASSUME NEW p \in Process, Life!ExitLock(p) PROVE Labels'
  BY <1>10 DEF Life!ExitLock
<1>11. ASSUME NEW p \in Process, Life!ExitReparent(p) PROVE Labels'
  BY <1>11 DEF Life!ExitReparent, Life!CanAwaken, Life!Awaken, Life!Children
<1>12. ASSUME NEW p \in Process, Life!ExitWake(p) PROVE Labels'
  BY <1>12 DEF Life!ExitWake, Life!CanAwaken, Life!Awaken
<1>13. ASSUME NEW p \in Process, Life!ExitZombie(p) PROVE Labels'
  BY <1>13 DEF Life!ExitZombie
<1>14. ASSUME NEW p \in Process, Life!BeginWait(p) PROVE Labels'
  BY <1>14 DEF Life!BeginWait
<1>15. ASSUME NEW p \in Process, Life!WaitLock(p) PROVE Labels'
  BY <1>15 DEF Life!WaitLock
<1>16. ASSUME NEW p \in Process, NEW q \in Process, Life!WaitReap(p, q) PROVE Labels'
  BY <1>16 DEF Life!WaitReap
<1>17. ASSUME NEW p \in Process, Life!WaitFail(p) PROVE Labels'
  BY <1>17 DEF Life!WaitFail
<1>18. ASSUME NEW p \in Process, Life!WaitMore(p) PROVE Labels'
  BY <1>18 DEF Life!WaitMore
<1>19. ASSUME NEW p \in Process, Life!WaitSleep(p) PROVE Labels'
  BY <1>19 DEF Life!WaitSleep, Life!SleepOn
<1>20. ASSUME NEW p \in Process, Life!IoCheck(p) PROVE Labels'
  BY <1>20 DEF Life!IoCheck
<1>21. ASSUME NEW p \in Process, Life!IoSleep(p) PROVE Labels'
  BY <1>21 DEF Life!IoSleep, Life!SleepOn
<1>22. ASSUME NEW p \in Process, Life!IoWakeup(p) PROVE Labels'
  BY <1>22 DEF Life!IoWakeup, Life!CanAwaken, Life!Awaken
<1>23. CASE UNCHANGED Life!vars
  BY <1>23 DEF Life!vars
<1>24. QED
  BY <1>1, <1>2, <1>3, <1>4, <1>5, <1>6, <1>7, <1>8, <1>9, <1>10, <1>11, <1>12, <1>13,
     <1>14, <1>15, <1>16, <1>17, <1>18, <1>19, <1>20, <1>21, <1>22, <1>23 DEF Life!Next,
             Life!Kernel

LEMMA LockStep ==
  ASSUME Life!ProcAssumption PROVE LifeInv /\ [Life!Next]_(Life!vars) => LockHeld'
<1> SUFFICES ASSUME LifeInv, [Life!Next]_(Life!vars) PROVE LockHeld'
  OBVIOUS
<1> USE DEF Life!ProcAssumption, LifeInv, Life!TypeOK, Life!At, Life!InUser, Life!Running,
            Life!OnCpu, Life!Locked, Life!Goto, LockHeld, Holds, Labels, Dead, Forking
<1>1. ASSUME NEW c \in CPU, Life!SwitchOut(c) PROVE LockHeld'
  BY <1>1 DEF Life!SwitchOut
<1>2. ASSUME NEW c \in CPU, NEW p \in Process, Life!Dispatch(c, p) PROVE LockHeld'
  BY <1>2 DEF Life!Dispatch
<1>3. ASSUME NEW p \in Process, Life!Preempt(p) PROVE LockHeld'
  BY <1>3 DEF Life!Preempt
<1>4. ASSUME NEW p \in Process, NEW q \in Process, Life!ForkAlloc(p, q) PROVE LockHeld'
  BY <1>4 DEF Life!ForkAlloc
<1>5. ASSUME NEW p \in Process, NEW q \in Process, Life!ForkFail(p, q) PROVE LockHeld'
  BY <1>5 DEF Life!ForkFail
<1>6. ASSUME NEW p \in Process, Life!ForkParent(p) PROVE LockHeld'
  BY <1>6 DEF Life!ForkParent
<1>7. ASSUME NEW p \in Process, Life!ForkRun(p) PROVE LockHeld'
  BY <1>7 DEF Life!ForkRun
<1>8. ASSUME NEW p \in Process, NEW q \in Process, Life!Kill(p, q) PROVE LockHeld'
  BY <1>8 DEF Life!Kill
<1>9. ASSUME NEW p \in Process, Life!BeginExit(p) PROVE LockHeld'
  BY <1>9 DEF Life!BeginExit
<1>10. ASSUME NEW p \in Process, Life!ExitLock(p) PROVE LockHeld'
  BY <1>10 DEF Life!ExitLock
<1>11. ASSUME NEW p \in Process, Life!ExitReparent(p) PROVE LockHeld'
  BY <1>11 DEF Life!ExitReparent, Life!CanAwaken, Life!Awaken, Life!Children
<1>12. ASSUME NEW p \in Process, Life!ExitWake(p) PROVE LockHeld'
  BY <1>12 DEF Life!ExitWake, Life!CanAwaken, Life!Awaken
<1>13. ASSUME NEW p \in Process, Life!ExitZombie(p) PROVE LockHeld'
  BY <1>13 DEF Life!ExitZombie
<1>14. ASSUME NEW p \in Process, Life!BeginWait(p) PROVE LockHeld'
  BY <1>14 DEF Life!BeginWait
<1>15. ASSUME NEW p \in Process, Life!WaitLock(p) PROVE LockHeld'
  BY <1>15 DEF Life!WaitLock
<1>16. ASSUME NEW p \in Process, NEW q \in Process, Life!WaitReap(p, q) PROVE LockHeld'
  BY <1>16 DEF Life!WaitReap
<1>17. ASSUME NEW p \in Process, Life!WaitFail(p) PROVE LockHeld'
  BY <1>17 DEF Life!WaitFail
<1>18. ASSUME NEW p \in Process, Life!WaitMore(p) PROVE LockHeld'
  BY <1>18 DEF Life!WaitMore
<1>19. ASSUME NEW p \in Process, Life!WaitSleep(p) PROVE LockHeld'
  BY <1>19 DEF Life!WaitSleep, Life!SleepOn
<1>20. ASSUME NEW p \in Process, Life!IoCheck(p) PROVE LockHeld'
  BY <1>20 DEF Life!IoCheck
<1>21. ASSUME NEW p \in Process, Life!IoSleep(p) PROVE LockHeld'
  BY <1>21 DEF Life!IoSleep, Life!SleepOn
<1>22. ASSUME NEW p \in Process, Life!IoWakeup(p) PROVE LockHeld'
  BY <1>22 DEF Life!IoWakeup, Life!CanAwaken, Life!Awaken
<1>23. CASE UNCHANGED Life!vars
  BY <1>23 DEF Life!vars
<1>24. QED
  BY <1>1, <1>2, <1>3, <1>4, <1>5, <1>6, <1>7, <1>8, <1>9, <1>10, <1>11, <1>12, <1>13,
     <1>14, <1>15, <1>16, <1>17, <1>18, <1>19, <1>20, <1>21, <1>22, <1>23 DEF Life!Next,
             Life!Kernel

LEMMA ForkingStep ==
  ASSUME Life!ProcAssumption PROVE LifeInv /\ [Life!Next]_(Life!vars) => Forking'
<1> SUFFICES ASSUME LifeInv, [Life!Next]_(Life!vars) PROVE Forking'
  OBVIOUS
<1> USE DEF Life!ProcAssumption, LifeInv, Life!TypeOK, Life!At, Life!InUser, Life!Running,
            Life!OnCpu, Life!Locked, Life!Goto, Forking, Labels, Dead, Life!State
<1>1. ASSUME NEW c \in CPU, Life!SwitchOut(c) PROVE Forking'
  BY <1>1 DEF Life!SwitchOut
<1>2. ASSUME NEW c \in CPU, NEW p \in Process, Life!Dispatch(c, p) PROVE Forking'
  BY <1>2 DEF Life!Dispatch
<1>3. ASSUME NEW p \in Process, Life!Preempt(p) PROVE Forking'
  BY <1>3 DEF Life!Preempt
<1>4. ASSUME NEW p \in Process, NEW q \in Process, Life!ForkAlloc(p, q) PROVE Forking'
  BY <1>4 DEF Life!ForkAlloc
<1>5. ASSUME NEW p \in Process, NEW q \in Process, Life!ForkFail(p, q) PROVE Forking'
  BY <1>5 DEF Life!ForkFail
<1>6. ASSUME NEW p \in Process, Life!ForkParent(p) PROVE Forking'
  BY <1>6 DEF Life!ForkParent
<1>7. ASSUME NEW p \in Process, Life!ForkRun(p) PROVE Forking'
  BY <1>7 DEF Life!ForkRun
<1>8. ASSUME NEW p \in Process, NEW q \in Process, Life!Kill(p, q) PROVE Forking'
  BY <1>8 DEF Life!Kill
<1>9. ASSUME NEW p \in Process, Life!BeginExit(p) PROVE Forking'
  BY <1>9 DEF Life!BeginExit
<1>10. ASSUME NEW p \in Process, Life!ExitLock(p) PROVE Forking'
  BY <1>10 DEF Life!ExitLock
<1>11. ASSUME NEW p \in Process, Life!ExitReparent(p) PROVE Forking'
  BY <1>11 DEF Life!ExitReparent, Life!CanAwaken, Life!Awaken, Life!Children
<1>12. ASSUME NEW p \in Process, Life!ExitWake(p) PROVE Forking'
  BY <1>12 DEF Life!ExitWake, Life!CanAwaken, Life!Awaken
<1>13. ASSUME NEW p \in Process, Life!ExitZombie(p) PROVE Forking'
  BY <1>13 DEF Life!ExitZombie
<1>14. ASSUME NEW p \in Process, Life!BeginWait(p) PROVE Forking'
  BY <1>14 DEF Life!BeginWait
<1>15. ASSUME NEW p \in Process, Life!WaitLock(p) PROVE Forking'
  BY <1>15 DEF Life!WaitLock
<1>16. ASSUME NEW p \in Process, NEW q \in Process, Life!WaitReap(p, q) PROVE Forking'
  BY <1>16 DEF Life!WaitReap
<1>17. ASSUME NEW p \in Process, Life!WaitFail(p) PROVE Forking'
  BY <1>17 DEF Life!WaitFail
<1>18. ASSUME NEW p \in Process, Life!WaitMore(p) PROVE Forking'
  BY <1>18 DEF Life!WaitMore
<1>19. ASSUME NEW p \in Process, Life!WaitSleep(p) PROVE Forking'
  BY <1>19 DEF Life!WaitSleep, Life!SleepOn
<1>20. ASSUME NEW p \in Process, Life!IoCheck(p) PROVE Forking'
  BY <1>20 DEF Life!IoCheck
<1>21. ASSUME NEW p \in Process, Life!IoSleep(p) PROVE Forking'
  BY <1>21 DEF Life!IoSleep, Life!SleepOn
<1>22. ASSUME NEW p \in Process, Life!IoWakeup(p) PROVE Forking'
  BY <1>22 DEF Life!IoWakeup, Life!CanAwaken, Life!Awaken
<1>23. CASE UNCHANGED Life!vars
  BY <1>23 DEF Life!vars
<1>24. QED
  BY <1>1, <1>2, <1>3, <1>4, <1>5, <1>6, <1>7, <1>8, <1>9, <1>10, <1>11, <1>12, <1>13,
     <1>14, <1>15, <1>16, <1>17, <1>18, <1>19, <1>20, <1>21, <1>22, <1>23 DEF Life!Next,
             Life!Kernel

LEMMA ParentsStep ==
  ASSUME Life!ProcAssumption PROVE LifeInv /\ [Life!Next]_(Life!vars) => Parents'
<1> SUFFICES ASSUME LifeInv, [Life!Next]_(Life!vars) PROVE Parents'
  OBVIOUS
<1> USE DEF Life!ProcAssumption, LifeInv, Life!TypeOK, Life!At, Life!InUser, Life!Running,
            Life!OnCpu, Life!Locked, Life!Goto, Parents, Labels, Dead, Forking
<1>1. ASSUME NEW c \in CPU, Life!SwitchOut(c) PROVE Parents'
  BY <1>1 DEF Life!SwitchOut
<1>2. ASSUME NEW c \in CPU, NEW p \in Process, Life!Dispatch(c, p) PROVE Parents'
  BY <1>2 DEF Life!Dispatch
<1>3. ASSUME NEW p \in Process, Life!Preempt(p) PROVE Parents'
  BY <1>3 DEF Life!Preempt
<1>4. ASSUME NEW p \in Process, NEW q \in Process, Life!ForkAlloc(p, q) PROVE Parents'
  BY <1>4 DEF Life!ForkAlloc
<1>5. ASSUME NEW p \in Process, NEW q \in Process, Life!ForkFail(p, q) PROVE Parents'
  BY <1>5 DEF Life!ForkFail
<1>6. ASSUME NEW p \in Process, Life!ForkParent(p) PROVE Parents'
  BY <1>6 DEF Life!ForkParent
<1>7. ASSUME NEW p \in Process, Life!ForkRun(p) PROVE Parents'
  BY <1>7 DEF Life!ForkRun
<1>8. ASSUME NEW p \in Process, NEW q \in Process, Life!Kill(p, q) PROVE Parents'
  BY <1>8 DEF Life!Kill
<1>9. ASSUME NEW p \in Process, Life!BeginExit(p) PROVE Parents'
  BY <1>9 DEF Life!BeginExit
<1>10. ASSUME NEW p \in Process, Life!ExitLock(p) PROVE Parents'
  BY <1>10 DEF Life!ExitLock
<1>11. ASSUME NEW p \in Process, Life!ExitReparent(p) PROVE Parents'
  BY <1>11 DEF Life!ExitReparent, Life!CanAwaken, Life!Awaken, Life!Children
<1>12. ASSUME NEW p \in Process, Life!ExitWake(p) PROVE Parents'
  BY <1>12 DEF Life!ExitWake, Life!CanAwaken, Life!Awaken
<1>13. ASSUME NEW p \in Process, Life!ExitZombie(p) PROVE Parents'
  BY <1>13 DEF Life!ExitZombie
<1>14. ASSUME NEW p \in Process, Life!BeginWait(p) PROVE Parents'
  BY <1>14 DEF Life!BeginWait
<1>15. ASSUME NEW p \in Process, Life!WaitLock(p) PROVE Parents'
  BY <1>15 DEF Life!WaitLock
<1>16. ASSUME NEW p \in Process, NEW q \in Process, Life!WaitReap(p, q) PROVE Parents'
  BY <1>16 DEF Life!WaitReap
<1>17. ASSUME NEW p \in Process, Life!WaitFail(p) PROVE Parents'
  BY <1>17 DEF Life!WaitFail
<1>18. ASSUME NEW p \in Process, Life!WaitMore(p) PROVE Parents'
  BY <1>18 DEF Life!WaitMore
<1>19. ASSUME NEW p \in Process, Life!WaitSleep(p) PROVE Parents'
  BY <1>19 DEF Life!WaitSleep, Life!SleepOn
<1>20. ASSUME NEW p \in Process, Life!IoCheck(p) PROVE Parents'
  BY <1>20 DEF Life!IoCheck
<1>21. ASSUME NEW p \in Process, Life!IoSleep(p) PROVE Parents'
  BY <1>21 DEF Life!IoSleep, Life!SleepOn
<1>22. ASSUME NEW p \in Process, Life!IoWakeup(p) PROVE Parents'
  BY <1>22 DEF Life!IoWakeup, Life!CanAwaken, Life!Awaken
<1>23. CASE UNCHANGED Life!vars
  BY <1>23 DEF Life!vars
<1>24. QED
  BY <1>1, <1>2, <1>3, <1>4, <1>5, <1>6, <1>7, <1>8, <1>9, <1>10, <1>11, <1>12, <1>13,
     <1>14, <1>15, <1>16, <1>17, <1>18, <1>19, <1>20, <1>21, <1>22, <1>23 DEF Life!Next,
             Life!Kernel

LEMMA WakeupsStep ==
  ASSUME Life!ProcAssumption PROVE LifeInv /\ [Life!Next]_(Life!vars) => Wakeups'
<1> SUFFICES ASSUME LifeInv, [Life!Next]_(Life!vars) PROVE Wakeups'
  OBVIOUS
<1> USE DEF Life!ProcAssumption, LifeInv, Life!TypeOK, Life!At, Life!InUser, Life!Running,
            Life!OnCpu, Life!Locked, Life!Goto, Wakeups, Life!NoMissedExit, Labels, Dead,
                    LockHeld, Holds, Forking, Parents, Life!Children
<1>1. ASSUME NEW c \in CPU, Life!SwitchOut(c) PROVE Wakeups'
  BY <1>1 DEF Life!SwitchOut
<1>2. ASSUME NEW c \in CPU, NEW p \in Process, Life!Dispatch(c, p) PROVE Wakeups'
  BY <1>2 DEF Life!Dispatch
<1>3. ASSUME NEW p \in Process, Life!Preempt(p) PROVE Wakeups'
  BY <1>3 DEF Life!Preempt
<1>4. ASSUME NEW p \in Process, NEW q \in Process, Life!ForkAlloc(p, q) PROVE Wakeups'
  BY <1>4 DEF Life!ForkAlloc
<1>5. ASSUME NEW p \in Process, NEW q \in Process, Life!ForkFail(p, q) PROVE Wakeups'
  BY <1>5 DEF Life!ForkFail
<1>6. ASSUME NEW p \in Process, Life!ForkParent(p) PROVE Wakeups'
  BY <1>6 DEF Life!ForkParent
<1>7. ASSUME NEW p \in Process, Life!ForkRun(p) PROVE Wakeups'
  BY <1>7 DEF Life!ForkRun
<1>8. ASSUME NEW p \in Process, NEW q \in Process, Life!Kill(p, q) PROVE Wakeups'
  BY <1>8 DEF Life!Kill
<1>9. ASSUME NEW p \in Process, Life!BeginExit(p) PROVE Wakeups'
  BY <1>9 DEF Life!BeginExit
<1>10. ASSUME NEW p \in Process, Life!ExitLock(p) PROVE Wakeups'
  BY <1>10 DEF Life!ExitLock
<1>11. ASSUME NEW p \in Process, Life!ExitReparent(p) PROVE Wakeups'
  BY <1>11 DEF Life!ExitReparent, Life!CanAwaken, Life!Awaken, Life!Children
<1>12. ASSUME NEW p \in Process, Life!ExitWake(p) PROVE Wakeups'
  BY <1>12 DEF Life!ExitWake, Life!CanAwaken, Life!Awaken
<1>13. ASSUME NEW p \in Process, Life!ExitZombie(p) PROVE Wakeups'
  BY <1>13 DEF Life!ExitZombie
<1>14. ASSUME NEW p \in Process, Life!BeginWait(p) PROVE Wakeups'
  BY <1>14 DEF Life!BeginWait
<1>15. ASSUME NEW p \in Process, Life!WaitLock(p) PROVE Wakeups'
  BY <1>15 DEF Life!WaitLock
<1>16. ASSUME NEW p \in Process, NEW q \in Process, Life!WaitReap(p, q) PROVE Wakeups'
  BY <1>16 DEF Life!WaitReap
<1>17. ASSUME NEW p \in Process, Life!WaitFail(p) PROVE Wakeups'
  BY <1>17 DEF Life!WaitFail
<1>18. ASSUME NEW p \in Process, Life!WaitMore(p) PROVE Wakeups'
  BY <1>18 DEF Life!WaitMore
<1>19. ASSUME NEW p \in Process, Life!WaitSleep(p) PROVE Wakeups'
  BY <1>19 DEF Life!WaitSleep, Life!SleepOn
<1>20. ASSUME NEW p \in Process, Life!IoCheck(p) PROVE Wakeups'
  BY <1>20 DEF Life!IoCheck
<1>21. ASSUME NEW p \in Process, Life!IoSleep(p) PROVE Wakeups'
  <2>1. /\ IO \notin Process
        /\ state' = [state EXCEPT ![p] = "SLEEPING"]
        /\ chan' = [chan EXCEPT ![p] = IO]
        /\ parent' = parent
        /\ pc' = [pc EXCEPT ![p] = "user"]
    BY <1>21 DEF Life!IoSleep, Life!SleepOn
  <2>2. Life!NoMissedExit'
    BY <2>1
  <2>3. \A r, q \in Process : pc'[r] = "waitSleep" /\ parent'[q] = r => state'[q] # "ZOMBIE"
    BY <2>1
  <2>4. \A r, q \in Process :
          pc'[q] = "exitZombie" /\ state'[q] = "RUNNING" /\ parent'[q] = r
            => ~(state'[r] = "SLEEPING" /\ chan'[r] = r)
    BY <2>1
  <2>5. QED
    BY <2>2, <2>3, <2>4
<1>22. ASSUME NEW p \in Process, Life!IoWakeup(p) PROVE Wakeups'
  BY <1>22 DEF Life!IoWakeup, Life!CanAwaken, Life!Awaken
<1>23. CASE UNCHANGED Life!vars
  BY <1>23 DEF Life!vars
<1>24. QED
  BY <1>1, <1>2, <1>3, <1>4, <1>5, <1>6, <1>7, <1>8, <1>9, <1>10, <1>11, <1>12, <1>13,
     <1>14, <1>15, <1>16, <1>17, <1>18, <1>19, <1>20, <1>21, <1>22, <1>23 DEF Life!Next,
             Life!Kernel

LEMMA InitLife ==
  ASSUME Life!ProcAssumption PROVE Life!Init => LifeInv
<1> SUFFICES ASSUME Life!Init PROVE LifeInv
  OBVIOUS
<1> USE DEF Life!ProcAssumption, Life!Init
<1>1. Life!TypeOK
  BY DEF Life!TypeOK, Life!State, Life!Label
<1>2. Stacks /\ Labels /\ LockHeld
  BY DEF Stacks, Life!StackOwned, Labels, Dead, LockHeld, Holds
<1>3. Forking /\ Parents /\ Wakeups
  BY DEF Forking, Parents, Wakeups, Life!NoMissedExit, Dead
<1>4. QED
  BY <1>1, <1>2, <1>3 DEF LifeInv

LEMMA LifeStep ==
  ASSUME Life!ProcAssumption PROVE LifeInv /\ [Life!Next]_(Life!vars) => LifeInv'
BY TypeStep, StacksStep, LabelsStep, LockStep, ForkingStep, ParentsStep, WakeupsStep DEF LifeInv

LEMMA LifeIsSafe ==
  LifeInv => Life!TypeOK /\ Life!StackOwned /\ Life!NoMissedExit /\ Life!ParentAlive
BY DEF LifeInv, Stacks, Wakeups, Parents, Life!ParentAlive, Life!TypeOK, Dead

(* In every state that XvProc reaches, the table, the kernel stacks, the   *)
(* locks and the parent links fit together as LifeInv says                 *)
(* (proc.c:307-960).                                                       *)
THEOREM LifeSafety == ASSUME Life!ProcAssumption PROVE Life!Spec => []LifeInv
BY InitLife, LifeStep, PTL DEF Life!Spec

-----------------------------------------------------------------------------
(* The schedulers.                                                         *)

Runs == {"runRR", "runLBS", "runMLFQ"}
LoopLabel == {"top", "rr", "count", "draw", "boost", "pick"} \cup Runs

LoopRecord ==
  [at : LoopLabel, pos : 1..(N + 1), level : 0..3, count : Int,
   selected : Sched!Proc \cup {Sched!None}]

Fits(c) ==
  /\ loop[c].pos <= N \/ Sched!At(c, "draw") \/ Sched!At(c, "runLBS")
  /\ loop[c].selected # Sched!None => Sched!Running(c) \/ Sched!At(c, "draw")
  /\ Sched!Running(c) => loop[c].selected # Sched!None
  /\ Sched!At(c, "draw") \/ Sched!At(c, "count") => build = "LBS"
  /\ Sched!At(c, "pick") \/ Sched!At(c, "boost") => build = "MLFQ"
  /\ Sched!At(c, "pick") \/ Sched!At(c, "runMLFQ") => boost[c] < BoostTicks

Loops == loop \in [CPU -> LoopRecord] /\ \A c \in CPU : Fits(c)

Queues ==
  /\ build \in Builds
  /\ state \in [Sched!Proc -> {"SLEEPING", "RUNNABLE", "RUNNING"}]
  /\ priority \in [Sched!Proc -> 0..3]
  /\ slices \in [Sched!Proc -> Nat]
  /\ \A p \in Sched!Proc : slices[p] \in 1..Slice[priority[p]]
  /\ tickets \in [Sched!Proc -> 1..MaxTickets]
  /\ boost \in [CPU -> 0..BoostTicks]

SchedInv == Loops /\ Queues /\ Sched!SelectedOnce

LEMMA InitSched ==
  ASSUME Sched!SchedAssumption PROVE Sched!Init => SchedInv
<1> USE DEF Sched!SchedAssumption
<1>1. SUFFICES ASSUME Sched!Init PROVE SchedInv
  OBVIOUS
<1>2. Loops
  BY <1>1
  DEF Sched!Init, Loops, LoopRecord, LoopLabel, Runs, Fits, Sched!Scan, Sched!Walk, Sched!At,
      Sched!Running, Sched!Proc, Sched!None
<1>3. Queues
  BY <1>1 DEF Sched!Init, Queues, Sched!Proc
<1>4. Sched!SelectedOnce
  BY <1>1
  DEF Sched!Init, Sched!SelectedOnce, Sched!Scan, Sched!Walk, Sched!Running, Sched!At,
      Sched!None
<1>5. QED
  BY <1>2, <1>3, <1>4 DEF SchedInv

(* A step of c leaves the loops of the other CPUs alone: what c's loop     *)
(* becomes is all there is to show.                                        *)
LEMMA GoLoop ==
  ASSUME Sched!SchedAssumption, Loops, NEW c \in CPU, NEW where \in LoopLabel,
         Sched!Go(c, where)
  PROVE  /\ loop' \in [CPU -> LoopRecord]
         /\ loop'[c] = Sched!Scan(where)
         /\ \A d \in CPU \ {c} : loop'[d] = loop[d]
<1> USE DEF Sched!SchedAssumption
<1>1. Sched!Scan(where) \in LoopRecord
  BY DEF Sched!Scan, Sched!Walk, LoopRecord, Sched!Proc, Sched!None
<1>2. QED
  BY <1>1 DEF Loops, Sched!Go

LEMMA AdvanceLoop ==
  ASSUME Sched!SchedAssumption, Loops, NEW c \in CPU, NEW where \in LoopLabel,
         Sched!Advance(c, where), loop[c].pos <= N
  PROVE  /\ loop' \in [CPU -> LoopRecord]
         /\ \A d \in CPU \ {c} : loop'[d] = loop[d]
         /\ loop[c].pos = N => loop'[c] = Sched!Scan(where)
         /\ loop[c].pos # N => loop'[c] = [loop[c] EXCEPT !.pos = @ + 1]
         /\ loop[c].pos # N => loop[c].pos + 1 <= N
<1> USE DEF Sched!SchedAssumption
<1>1. loop[c].pos \in 1..(N + 1) /\ loop[c] \in LoopRecord
  BY DEF Loops, LoopRecord
<1>2. CASE loop[c].pos = N
  BY <1>2, GoLoop DEF Sched!Advance
<1>3. CASE loop[c].pos # N
  <2>1. loop' = [loop EXCEPT ![c].pos = @ + 1]
    BY <1>3 DEF Sched!Advance
  <2>2. loop[c].pos + 1 \in 1..(N + 1) /\ loop[c].pos + 1 <= N
    BY <1>1, <1>3
  <2>3. [loop[c] EXCEPT !.pos = @ + 1] \in LoopRecord
    BY <1>1, <2>2 DEF LoopRecord
  <2>4. QED
    BY <1>3, <2>1, <2>2, <2>3 DEF Loops
<1>4. QED
  BY <1>2, <1>3

LEMMA BeginStep ==
  ASSUME Sched!SchedAssumption, SchedInv, NEW c \in CPU, Sched!Begin(c) PROVE SchedInv'
<1> USE DEF SchedInv, Sched!SchedAssumption
<1>1. PICK where \in {"rr", "count", "boost", "pick"} :
        /\ Sched!Go(c, where)
        /\ where = "count" => build = "LBS"
        /\ where \in {"boost", "pick"} => build = "MLFQ"
        /\ where = "pick" => ~Sched!BoostDue(c)
  BY DEF Sched!Begin, Queues
<1>2. /\ loop' \in [CPU -> LoopRecord]
      /\ loop'[c] = Sched!Scan(where)
      /\ \A d \in CPU \ {c} : loop'[d] = loop[d]
  BY <1>1, GoLoop DEF LoopLabel
<1>3. UNCHANGED <<build, state, priority, slices, tickets, boost>>
  BY DEF Sched!Begin, Sched!queues
<1>4. boost[c] \in 0..BoostTicks /\ BoostTicks \in Nat
  BY DEF Queues
<1>5. Fits(c)'
  BY <1>1, <1>2, <1>3, <1>4
  DEF Fits, Sched!Scan, Sched!Walk, Sched!At, Sched!Running, Sched!BoostDue, Sched!None
<1>6. Loops'
  BY <1>2, <1>3, <1>5 DEF Loops, Fits, Sched!At, Sched!Running
<1>7. Queues'
  BY <1>3 DEF Queues
<1>8. Sched!SelectedOnce'
  BY <1>2, <1>3, <1>1
  DEF Sched!SelectedOnce, Sched!Scan, Sched!Walk, Sched!Running, Sched!At, Sched!Runnable,
      Sched!None
<1>9. QED
  BY <1>6, <1>7, <1>8

(* c switches to a RUNNABLE process that nobody else has selected.         *)
LEMMA SwitchToStep ==
  ASSUME Sched!SchedAssumption, SchedInv, NEW c \in CPU, NEW p \in Sched!Proc,
         NEW where \in Runs, Sched!SwitchTo(c, p, where), Sched!Runnable(p),
         loop[c].pos <= N \/ where = "runLBS",
         \A d \in CPU \ {c} : ~(Sched!At(d, "draw") /\ loop[d].selected = p),
         where = "runMLFQ" => boost[c] < BoostTicks
  PROVE  SchedInv'
<1> USE DEF SchedInv, Sched!SchedAssumption
<1>1. p # Sched!None
  BY DEF Sched!Proc, Sched!None
<1>2. /\ loop' \in [CPU -> LoopRecord]
      /\ loop'[c].at = where
      /\ loop'[c].selected = p
      /\ loop'[c].pos = loop[c].pos
      /\ \A d \in CPU \ {c} : loop'[d] = loop[d]
  <2>1. /\ loop' = [loop EXCEPT ![c] = Sched!Walk(where, loop[c].pos, 0, p)]
        /\ loop \in [CPU -> LoopRecord]
        /\ where \in LoopLabel
    BY DEF Sched!SwitchTo, Loops, LoopLabel
  <2>2. loop' \in [CPU -> LoopRecord]
    BY <2>1 DEF LoopRecord, Sched!Walk
  <2>3. /\ loop'[c].at = where
        /\ loop'[c].selected = p
        /\ loop'[c].pos = loop[c].pos
    BY <2>1 DEF Sched!Walk
  <2>4. \A d \in CPU \ {c} : loop'[d] = loop[d]
    BY <2>1
  <2>5. QED
    BY <2>2, <2>3, <2>4
<1>3. /\ UNCHANGED <<build, priority, slices, tickets, boost>>
      /\ state' = [state EXCEPT ![p] = "RUNNING"]
  BY DEF Sched!SwitchTo, Sched!queues
<1>4. Fits(c)'
  BY <1>1, <1>2, <1>3 DEF Fits, Sched!At, Sched!Running, Runs
<1>5. Loops'
  BY <1>2, <1>3, <1>4 DEF Loops, Fits, Sched!At, Sched!Running
<1>6. Queues'
  BY <1>3 DEF Queues
<1>7. Sched!SelectedOnce'
  <2>1. \A d \in CPU \ {c} : loop[d].selected # p
    BY <1>1 DEF Sched!SelectedOnce, Loops, Fits, Sched!Runnable
  <2>2. \A d \in CPU \ {c} : loop[d].selected \in Sched!Proc \cup {Sched!None}
    BY DEF Loops, LoopRecord
  <2>3. \A d \in CPU : Sched!Running(d)' => (state[loop[d].selected])' = "RUNNING"
    BY <1>1, <1>2, <1>3, <2>1, <2>2
    DEF Sched!SelectedOnce, Sched!Running, Sched!At, Queues, Loops, Fits
  <2>4. \A d \in CPU : Sched!At(d, "draw")' /\ (loop[d].selected # Sched!None)'
          => Sched!Runnable(loop[d].selected)'
    BY <1>2, <1>3, <2>1, <2>2 DEF Sched!SelectedOnce, Sched!Runnable, Sched!At, Queues, Runs
  <2>5. \A d, e \in CPU :
          (loop[d].selected # Sched!None /\ loop[d].selected = loop[e].selected)' => d = e
    BY <1>2, <2>1 DEF Sched!SelectedOnce
  <2>6. QED
    BY <2>3, <2>4, <2>5 DEF Sched!SelectedOnce
<1>8. QED
  BY <1>5, <1>6, <1>7

(* A step of c that neither switches nor selects: the table of processes   *)
(* and the other loops stay, and c has nobody selected afterwards.         *)
LEMMA ScanOn ==
  ASSUME Sched!SchedAssumption, SchedInv, NEW c \in CPU,
         loop' \in [CPU -> LoopRecord],
         \A d \in CPU \ {c} : loop'[d] = loop[d],
         loop'[c].selected = Sched!None,
         loop'[c].at \notin Runs,
         \A d \in CPU \ {c} : boost'[d] = boost[d],
         Fits(c)', Queues', UNCHANGED <<build, state>>
  PROVE  SchedInv'
<1> USE DEF SchedInv
<1>1. Loops'
  BY DEF Loops, Fits, Sched!At, Sched!Running
<1>2. Sched!SelectedOnce'
  BY DEF Sched!SelectedOnce, Sched!Running, Sched!At, Sched!Runnable, Runs
<1>3. QED
  BY <1>1, <1>2

(* Scans with an Advance, outside draws and switches.                      *)
LEMMA AdvanceOn ==
  ASSUME Sched!SchedAssumption, SchedInv, NEW c \in CPU, NEW where \in {"top", "pick"},
         Sched!Advance(c, where),
         loop[c].at \in {"rr", "boost", "pick"},
         where = "pick" => build = "MLFQ",
         loop[c].pos = N /\ where = "pick" => boost'[c] < BoostTicks,
         loop[c].at = "pick" => boost'[c] < BoostTicks,
         \A d \in CPU \ {c} : boost'[d] = boost[d],
         Queues', UNCHANGED <<build, state>>
  PROVE  SchedInv'
<1> USE DEF SchedInv, Sched!SchedAssumption
<1>1. loop[c].pos <= N /\ loop[c].selected = Sched!None
  BY DEF Loops, Fits, Sched!At, Sched!Running
<1>2. /\ loop' \in [CPU -> LoopRecord]
      /\ \A d \in CPU \ {c} : loop'[d] = loop[d]
      /\ loop[c].pos = N => loop'[c] = Sched!Scan(where)
      /\ loop[c].pos # N => loop'[c] = [loop[c] EXCEPT !.pos = @ + 1] /\ loop[c].pos + 1 <= N
  BY <1>1, AdvanceLoop DEF LoopLabel
<1>3. CASE loop[c].pos = N
  <2>1. Fits(c)'
    BY <1>2, <1>3 DEF Fits, Sched!Scan, Sched!Walk, Sched!At, Sched!Running
  <2>2. QED
    BY <1>2, <1>3, <2>1, ScanOn DEF Sched!Scan, Sched!Walk, Runs
<1>4. CASE loop[c].pos # N
  <2>1. loop[c] \in LoopRecord
    BY DEF Loops
  <2>2. /\ loop'[c].pos = loop[c].pos + 1
        /\ loop'[c].at = loop[c].at
        /\ loop'[c].selected = Sched!None
    BY <1>1, <1>2, <1>4, <2>1 DEF LoopRecord
  <2>3. Fits(c)'
    BY <1>2, <1>4, <2>2 DEF Loops, Fits, Sched!At, Sched!Running
  <2>4. QED
    BY <1>2, <2>2, <2>3, ScanOn DEF Runs
<1>5. QED
  BY <1>3, <1>4

LEMMA ScanRRStep ==
  ASSUME Sched!SchedAssumption, SchedInv, NEW c \in CPU, Sched!ScanRR(c) PROVE SchedInv'
<1> DEFINE p == loop[c].pos
<1>1. p \in Sched!Proc /\ Sched!At(c, "rr") /\ p <= N /\ ~Sched!Locked(p)
  BY DEF Sched!ScanRR, SchedInv, Loops, Fits, LoopRecord, Sched!At, Sched!Proc
<1>2. CASE Sched!Runnable(p)
  <2>1. Sched!SwitchTo(c, p, "runRR")
    BY <1>2 DEF Sched!ScanRR
  <2>2. QED
    BY <1>1, <1>2, <2>1, SwitchToStep DEF Sched!Locked, Runs
<1>3. CASE ~Sched!Runnable(p)
  <2>1. Sched!Advance(c, "top") /\ UNCHANGED <<build, state, Sched!queues, tickets, boost>>
    BY <1>3 DEF Sched!ScanRR
  <2>2. Queues'
    BY <2>1 DEF SchedInv, Queues, Sched!queues
  <2>3. QED
    BY <1>1, <2>1, <2>2, AdvanceOn DEF Sched!At, Sched!queues
<1>4. QED
  BY <1>2, <1>3

LEMMA BoostStep ==
  ASSUME Sched!SchedAssumption, SchedInv, NEW c \in CPU, Sched!Boost(c) PROVE SchedInv'
<1> USE DEF Sched!SchedAssumption
<1> DEFINE p == loop[c].pos
<1>1. p \in Sched!Proc /\ Sched!At(c, "boost") /\ p <= N /\ build = "MLFQ"
  BY DEF Sched!Boost, SchedInv, Loops, Fits, LoopRecord, Sched!At, Sched!Proc
<1>2. /\ Sched!Advance(c, "pick")
      /\ boost' = IF p = N THEN [boost EXCEPT ![c] = 0] ELSE boost
      /\ UNCHANGED <<build, state, tickets>>
  BY DEF Sched!Boost
<1>3. boost' \in [CPU -> 0..BoostTicks] /\ \A d \in CPU \ {c} : boost'[d] = boost[d]
  BY <1>2 DEF SchedInv, Queues
<1>4. p = N => boost'[c] < BoostTicks
  BY <1>2 DEF SchedInv, Queues
<1>5. Slice[0] \in Nat \ {0}
  OBVIOUS
<1>6. Queues'
  <2>1. CASE Sched!Runnable(p)
    <3>1. priority' = [priority EXCEPT ![p] = 0] /\ slices' = [slices EXCEPT ![p] = Slice[0]]
      BY <2>1 DEF Sched!Boost
    <3>2. QED
      BY <1>1, <1>2, <1>3, <1>5, <3>1 DEF SchedInv, Queues
  <2>2. CASE ~Sched!Runnable(p)
    <3>1. UNCHANGED <<priority, slices>>
      BY <2>2 DEF Sched!Boost, Sched!queues
    <3>2. QED
      BY <1>2, <1>3, <3>1 DEF SchedInv, Queues
  <2>3. QED
    BY <2>1, <2>2
<1>7. QED
  BY <1>1, <1>2, <1>3, <1>4, <1>6, AdvanceOn DEF Sched!At

LEMMA PickStep ==
  ASSUME Sched!SchedAssumption, SchedInv, NEW c \in CPU, Sched!Pick(c) PROVE SchedInv'
<1> USE DEF Sched!SchedAssumption
<1> DEFINE p == loop[c].pos
<1>1. /\ p \in Sched!Proc /\ Sched!At(c, "pick") /\ p <= N /\ build = "MLFQ"
      /\ boost[c] < BoostTicks /\ loop[c].selected = Sched!None
      /\ loop \in [CPU -> LoopRecord]
  BY DEF Sched!Pick, SchedInv, Loops, Fits, LoopRecord, Sched!At, Sched!Proc, Sched!Running
<1>2. CASE Sched!Runnable(p) /\ priority[p] = loop[c].level
  <2>1. Sched!SwitchTo(c, p, "runMLFQ")
    BY <1>2 DEF Sched!Pick
  <2>2. \A d \in CPU : ~Sched!At(d, "draw")
    BY <1>1 DEF SchedInv, Loops, Fits
  <2>3. QED
    BY <1>1, <1>2, <2>1, <2>2, SwitchToStep DEF Runs
<1>3. CASE ~(Sched!Runnable(p) /\ priority[p] = loop[c].level)
  <2>1. /\ \/ p < N /\ Sched!Advance(c, "pick") /\ UNCHANGED boost
           \/ /\ p = N /\ loop[c].level < 3
              /\ loop' = [loop EXCEPT ![c].pos = 1, ![c].level = @ + 1]
              /\ UNCHANGED boost
           \/ /\ p = N /\ loop[c].level = 3
              /\ Sched!Go(c, "top")
              /\ boost' = [boost EXCEPT ![c] = @ + 1]
        /\ UNCHANGED <<build, state, priority, slices, tickets>>
    BY <1>3 DEF Sched!Pick, Sched!queues
  <2>2. CASE p < N /\ Sched!Advance(c, "pick") /\ UNCHANGED boost
    <3>1. Queues'
      BY <2>1, <2>2 DEF SchedInv, Queues
    <3>2. QED
      BY <1>1, <2>1, <2>2, <3>1, AdvanceOn DEF Sched!At
  <2>3. CASE /\ p = N /\ loop[c].level < 3
             /\ loop' = [loop EXCEPT ![c].pos = 1, ![c].level = @ + 1]
             /\ UNCHANGED boost
    <3>1. Queues'
      BY <2>1, <2>3 DEF SchedInv, Queues
    <3>2. loop[c].level + 1 \in 0..3 /\ 1 \in 1..(N + 1) /\ 1 <= N
      BY <1>1, <2>3 DEF LoopRecord
    <3>3. loop' \in [CPU -> LoopRecord]
      BY <1>1, <2>3, <3>2 DEF LoopRecord
    <3>4. loop'[c].pos = 1 /\ loop'[c].at = "pick" /\ loop'[c].selected = Sched!None
      BY <1>1, <2>3 DEF LoopRecord, Sched!At
    <3>5. \A d \in CPU \ {c} : loop'[d] = loop[d]
      BY <1>1, <2>3
    <3>6. Fits(c)'
      BY <1>1, <2>1, <2>3, <3>2, <3>4 DEF Fits, Sched!At, Sched!Running
    <3>7. QED
      BY <2>1, <2>3, <3>1, <3>3, <3>4, <3>5, <3>6, ScanOn DEF Runs
  <2>4. CASE /\ p = N /\ loop[c].level = 3
             /\ Sched!Go(c, "top")
             /\ boost' = [boost EXCEPT ![c] = @ + 1]
    <3>1. boost' \in [CPU -> 0..BoostTicks] /\ \A d \in CPU \ {c} : boost'[d] = boost[d]
      BY <1>1, <2>4 DEF SchedInv, Queues
    <3>2. Queues'
      BY <2>1, <3>1 DEF SchedInv, Queues
    <3>3. /\ loop' \in [CPU -> LoopRecord]
          /\ loop'[c] = Sched!Scan("top")
          /\ \A d \in CPU \ {c} : loop'[d] = loop[d]
      BY <2>4, GoLoop DEF LoopLabel, SchedInv
    <3>4. Fits(c)'
      BY <3>3 DEF Fits, Sched!Scan, Sched!Walk, Sched!At, Sched!Running
    <3>5. QED
      BY <2>1, <3>1, <3>2, <3>3, <3>4, ScanOn DEF Sched!Scan, Sched!Walk, Runs
  <2>5. QED
    BY <2>1, <2>2, <2>3, <2>4
<1>4. QED
  BY <1>2, <1>3

LEMMA CountTicketsStep ==
  ASSUME Sched!SchedAssumption, SchedInv, NEW c \in CPU, Sched!CountTickets(c) PROVE SchedInv'
<1> USE DEF Sched!SchedAssumption
<1> DEFINE p == loop[c].pos
           total == loop[c].count + (IF Sched!Runnable(p) THEN tickets[p] ELSE 0)
<1>1. /\ p \in Sched!Proc /\ Sched!At(c, "count") /\ p <= N /\ build = "LBS"
      /\ loop \in [CPU -> LoopRecord]
  BY
  DEF Sched!CountTickets, SchedInv, Loops, Fits, LoopRecord, Sched!At, Sched!Proc, Sched!Running
<1>2. total \in Int
  <2>1. loop[c].count \in Int /\ tickets[p] \in Int
    BY <1>1 DEF LoopRecord, SchedInv, Queues
  <2>2. QED
    BY <2>1
<1>3. /\ \/ /\ p < N
            /\ loop' = [loop EXCEPT ![c] = Sched!Walk("count", p + 1, total, Sched!None)]
         \/ /\ p = N
            /\ \/ total = 0 /\ Sched!Go(c, "rr")
               \/ \E winning \in 1..total :
                    loop' = [loop EXCEPT ![c] = Sched!Walk("draw", 1, winning, Sched!None)]
      /\ UNCHANGED <<build, state, priority, slices, tickets, boost>>
  BY DEF Sched!CountTickets, Sched!queues
<1>4. PICK where \in {"count", "rr", "draw"}, pos \in 1..N, count \in Int :
        loop' = [loop EXCEPT ![c] = Sched!Walk(where, pos, count, Sched!None)]
  <2>1. CASE p < N /\ loop' = [loop EXCEPT ![c] = Sched!Walk("count", p + 1, total, Sched!None)]
    <3>1. p + 1 \in 1..N
      BY <1>1, <2>1 DEF Sched!Proc
    <3> HIDE DEF total
    <3>2. QED
      BY <1>2, <2>1, <3>1
  <2>2. CASE Sched!Go(c, "rr")
    <3>1. loop' = [loop EXCEPT ![c] = Sched!Walk("rr", 1, 0, Sched!None)]
            /\ 1 \in 1..N /\ 0 \in Int
      BY <2>2 DEF Sched!Go, Sched!Scan
    <3>2. QED
      BY <3>1
  <2>3. CASE \E winning \in 1..total :
              loop' = [loop EXCEPT ![c] = Sched!Walk("draw", 1, winning, Sched!None)]
    <3> HIDE DEF total
    <3>1. PICK winning \in 1..total :
             loop' = [loop EXCEPT ![c] = Sched!Walk("draw", 1, winning, Sched!None)]
      BY <2>3
    <3>2. winning \in Int /\ 1 \in 1..N
      BY <1>2
    <3>3. QED
      BY <3>1, <3>2
  <2>4. QED
    BY <1>3, <2>1, <2>2, <2>3
<1>5. Sched!Walk(where, pos, count, Sched!None) \in LoopRecord /\ pos <= N
  BY DEF Sched!Walk, LoopRecord, LoopLabel
<1>6. /\ loop' \in [CPU -> LoopRecord]
      /\ loop'[c] = Sched!Walk(where, pos, count, Sched!None)
      /\ \A d \in CPU \ {c} : loop'[d] = loop[d]
  BY <1>1, <1>4, <1>5
<1>7. Fits(c)'
  BY <1>1, <1>3, <1>5, <1>6 DEF Fits, Sched!Walk, Sched!At, Sched!Running
<1>8. Queues'
  BY <1>3 DEF SchedInv, Queues
<1>9. QED
  BY <1>3, <1>6, <1>7, <1>8, ScanOn DEF Sched!Walk, Runs

(* The walk keeps the lock of its candidate: whoever it selects next is    *)
(* RUNNABLE and nobody else's.                                             *)
LEMMA DrawTicketStep ==
  ASSUME Sched!SchedAssumption, SchedInv, NEW c \in CPU, Sched!DrawTicket(c) PROVE SchedInv'
<1> USE DEF SchedInv, Sched!SchedAssumption
<1> DEFINE p == loop[c].pos
           best == loop[c].selected
           left == loop[c].count - (IF Sched!Runnable(p) THEN tickets[p] ELSE 0)
<1>1. /\ p \in Sched!Proc /\ Sched!At(c, "draw") /\ p <= N /\ build = "LBS"
      /\ ~Sched!Locked(p)
      /\ best \in Sched!Proc \cup {Sched!None}
      /\ loop \in [CPU -> LoopRecord]
  BY DEF Sched!DrawTicket, Loops, Fits, LoopRecord, Sched!At, Sched!Proc, Sched!Running
<1>2. left \in Int
  <2>1. loop[c].count \in Int /\ tickets[p] \in Int
    BY <1>1 DEF LoopRecord, Queues
  <2>2. QED
    BY <2>1
<1>3. PICK selected \in {best, p} :
        /\ selected = best \/ Sched!Runnable(p)
        /\ loop' = [loop EXCEPT ![c] = Sched!Walk("draw", p + 1, left, selected)]
  <2> DEFINE eligible == Sched!Runnable(p) /\ left <= 0
  <2>1. PICK selected \in {best, p} :
          /\ ~eligible => selected = best
          /\ loop' = [loop EXCEPT ![c] = Sched!Walk("draw", p + 1, left, selected)]
    BY DEF Sched!DrawTicket
  <2>2. selected = best \/ Sched!Runnable(p)
    BY <2>1
  <2> HIDE DEF left, eligible
  <2>3. QED
    BY <2>1, <2>2
<1>4. UNCHANGED <<build, state, priority, slices, tickets, boost>>
  BY DEF Sched!DrawTicket, Sched!queues
<1> HIDE DEF left
<1>5. Sched!Walk("draw", p + 1, left, selected) \in LoopRecord
  BY <1>1, <1>2 DEF Sched!Walk, LoopRecord, LoopLabel, Sched!Proc
<1>6. /\ loop' \in [CPU -> LoopRecord]
      /\ loop'[c].at = "draw" /\ loop'[c].selected = selected
      /\ \A d \in CPU \ {c} : loop'[d] = loop[d]
  BY <1>1, <1>3, <1>5 DEF Sched!Walk
<1>7. Fits(c)'
  BY <1>1, <1>4, <1>6 DEF Fits, Sched!At, Sched!Running
<1>8. Loops'
  BY <1>4, <1>6, <1>7 DEF Loops, Fits, Sched!At, Sched!Running
<1>9. Queues'
  BY <1>4 DEF Queues
<1>10. Sched!SelectedOnce'
  <2>1. selected # Sched!None => Sched!Runnable(selected)
    BY <1>1, <1>3 DEF Sched!SelectedOnce
  <2>2. \A d \in CPU \ {c} : selected # Sched!None => loop[d].selected # selected
    <3>1. CASE selected = best
      BY <3>1 DEF Sched!SelectedOnce
    <3>2. CASE Sched!Runnable(p) /\ selected = p
      <4>1. ASSUME NEW d \in CPU \ {c}, loop[d].selected = p, p # Sched!None PROVE FALSE
        BY <1>1, <3>2, <4>1 DEF Sched!Locked, Sched!SelectedOnce, Loops, Fits, Sched!Runnable
      <4>2. QED
        BY <3>2, <4>1
    <3>3. QED
      BY <1>3, <3>1, <3>2
  <2>3. QED
    BY <1>4, <1>6, <2>1, <2>2 DEF Sched!SelectedOnce, Sched!Running, Sched!At, Sched!Runnable
<1>11. QED
  BY <1>8, <1>9, <1>10

LEMMA RunWinnerStep ==
  ASSUME Sched!SchedAssumption, SchedInv, NEW c \in CPU, Sched!RunWinner(c) PROVE SchedInv'
<1> USE DEF Sched!SchedAssumption
<1> DEFINE p == loop[c].selected
<1>1. /\ Sched!At(c, "draw") /\ p \in Sched!Proc \cup {Sched!None}
      /\ loop \in [CPU -> LoopRecord]
  BY DEF Sched!RunWinner, SchedInv, Loops, LoopRecord
<1>2. CASE p # Sched!None /\ Sched!Runnable(p)
  <2>1. Sched!SwitchTo(c, p, "runLBS")
    BY <1>2 DEF Sched!RunWinner
  <2>2. \A d \in CPU \ {c} : loop[d].selected # p
    BY <1>2 DEF SchedInv, Sched!SelectedOnce
  <2>3. QED
    BY <1>1, <1>2, <2>1, <2>2, SwitchToStep DEF Runs
<1>3. CASE ~(p # Sched!None /\ Sched!Runnable(p))
  <2>1. Sched!Go(c, "rr") /\ UNCHANGED <<build, state, priority, slices, tickets, boost>>
    BY <1>3 DEF Sched!RunWinner, Sched!queues
  <2>2. /\ loop' \in [CPU -> LoopRecord]
        /\ loop'[c] = Sched!Scan("rr")
        /\ \A d \in CPU \ {c} : loop'[d] = loop[d]
    BY <2>1, GoLoop DEF LoopLabel, SchedInv
  <2>3. Fits(c)'
    BY <2>2 DEF Fits, Sched!Scan, Sched!Walk, Sched!At, Sched!Running
  <2>4. Queues'
    BY <2>1 DEF SchedInv, Queues
  <2>5. QED
    BY <2>1, <2>2, <2>3, <2>4, ScanOn DEF Sched!Scan, Sched!Walk, Runs
<1>4. QED
  BY <1>2, <1>3

(* A process that is charged keeps between one and a full slice of the     *)
(* queue it is in then.                                                    *)
LEMMA ChargeQueues ==
  ASSUME Sched!SchedAssumption, Queues, NEW p \in Sched!Proc, Sched!Charge(p)
  PROVE  /\ priority' \in [Sched!Proc -> 0..3] /\ slices' \in [Sched!Proc -> Nat]
         /\ \A r \in Sched!Proc : slices'[r] \in 1..Slice[priority'[r]]
<1> USE DEF Sched!SchedAssumption
<1> DEFINE q == IF priority[p] < 3 THEN priority[p] + 1 ELSE 3
<1>1. \A r \in Sched!Proc : /\ priority[r] \in 0..3 /\ slices[r] \in Nat
                      /\ Slice[priority[r]] \in Nat \ {0}
                      /\ slices[r] >= 1 /\ slices[r] <= Slice[priority[r]]
  BY DEF Queues
<1>2. CASE slices[p] > 1
  <2>1. slices' = [slices EXCEPT ![p] = @ - 1] /\ priority' = priority
    BY <1>2 DEF Sched!Charge
  <2>2. slices[p] - 1 \in Nat /\ slices[p] - 1 >= 1 /\ slices[p] - 1 <= Slice[priority[p]]
    BY <1>1, <1>2
  <2>3. QED
    BY <1>1, <2>1, <2>2 DEF Queues
<1>3. CASE ~(slices[p] > 1)
  <2>1. priority' = [priority EXCEPT ![p] = q] /\ slices' = [slices EXCEPT ![p] = Slice[q]]
    BY <1>3 DEF Sched!Charge
  <2>2. q \in 0..3
    BY <1>1
  <2> HIDE DEF q
  <2>3. Slice[q] \in Nat \ {0}
    BY <2>2
  <2>4. QED
    BY <1>1, <2>1, <2>2, <2>3 DEF Queues
<1>4. QED
  BY <1>2, <1>3

LEMMA SwitchOutStep ==
  ASSUME Sched!SchedAssumption, SchedInv, NEW c \in CPU, Sched!SwitchOut(c) PROVE SchedInv'
<1> USE DEF SchedInv, Sched!SchedAssumption
<1> DEFINE p == loop[c].selected
<1>1. /\ Sched!Running(c) /\ p \in Sched!Proc /\ p # Sched!None
      /\ loop \in [CPU -> LoopRecord] /\ loop[c].at \in Runs
      /\ loop[c].pos \in 1..(N + 1)
  BY DEF Sched!SwitchOut, Loops, LoopRecord, Fits, Sched!Running, Runs
<1>2. PICK s \in {"RUNNABLE", "SLEEPING"} : state' = [state EXCEPT ![p] = s]
  BY DEF Sched!SwitchOut
<1>3. UNCHANGED <<build, tickets>>
  BY DEF Sched!SwitchOut
<1>4. PICK where \in {"top", "rr"}, pos \in 1..N :
        loop' = [loop EXCEPT ![c] = Sched!Walk(where, pos, 0, Sched!None)]
  <2>1. CASE Sched!At(c, "runRR")
    <3>1. loop[c].pos <= N
      BY <2>1 DEF Loops, Fits, Sched!At
    <3>2. loop' = [loop EXCEPT ![c] = IF @.pos = N THEN Sched!Scan("top")
                                      ELSE Sched!Walk("rr", @.pos + 1, 0, Sched!None)]
      BY <2>1 DEF Sched!SwitchOut, Sched!At
    <3>3. CASE loop[c].pos = N
      <4>1. loop' = [loop EXCEPT ![c] = Sched!Walk("top", 1, 0, Sched!None)] /\ 1 \in 1..N
        BY <1>1, <3>2, <3>3 DEF Sched!Scan
      <4>2. QED
        BY <4>1
    <3>4. CASE loop[c].pos # N
      <4>1. loop' = [loop EXCEPT ![c] = Sched!Walk("rr", loop[c].pos + 1, 0, Sched!None)]
        BY <1>1, <3>2, <3>4
      <4>2. loop[c].pos + 1 \in 1..N
        BY <1>1, <3>1, <3>4
      <4>3. QED
        BY <4>1, <4>2
    <3>5. QED
      BY <3>3, <3>4
  <2>2. CASE ~Sched!At(c, "runRR")
    <3>1. PICK where \in {"top", "rr"} : Sched!Go(c, where)
      BY <2>2 DEF Sched!SwitchOut
    <3>2. loop' = [loop EXCEPT ![c] = Sched!Walk(where, 1, 0, Sched!None)] /\ 1 \in 1..N
      BY <3>1 DEF Sched!Go, Sched!Scan
    <3>3. QED
      BY <3>2
  <2>3. QED
    BY <2>1, <2>2
<1>5. Sched!Walk(where, pos, 0, Sched!None) \in LoopRecord
  BY DEF Sched!Walk, LoopRecord, LoopLabel
<1>6. /\ loop' \in [CPU -> LoopRecord]
      /\ loop'[c].at = where /\ loop'[c].selected = Sched!None /\ loop'[c].pos = pos
      /\ \A d \in CPU \ {c} : loop'[d] = loop[d]
  BY <1>1, <1>4, <1>5 DEF Sched!Walk
<1>7. /\ boost' \in [CPU -> 0..BoostTicks]
      /\ \A d \in CPU \ {c} : boost'[d] = boost[d]
  <2>1. CASE Sched!At(c, "runMLFQ")
    <3>1. boost' = [boost EXCEPT ![c] = @ + 1] /\ boost[c] < BoostTicks
      BY <2>1 DEF Sched!SwitchOut, Loops, Fits, Sched!At
    <3>2. QED
      BY <3>1 DEF Queues
  <2>2. CASE ~Sched!At(c, "runMLFQ")
    <3>1. boost' = boost
      BY <2>2 DEF Sched!SwitchOut
    <3>2. QED
      BY <3>1 DEF Queues
  <2>3. QED
    BY <2>1, <2>2
<1>8. /\ priority' \in [Sched!Proc -> 0..3] /\ slices' \in [Sched!Proc -> Nat]
      /\ \A r \in Sched!Proc : slices'[r] \in 1..Slice[priority'[r]]
  <2>1. CASE Sched!At(c, "runMLFQ")
    <3>1. Sched!Charge(p)
      BY <2>1 DEF Sched!SwitchOut, Sched!At
    <3>2. QED
      BY <1>1, <3>1, ChargeQueues
  <2>2. CASE ~Sched!At(c, "runMLFQ")
    <3>1. UNCHANGED <<priority, slices>>
      BY <2>2 DEF Sched!SwitchOut, Sched!queues
    <3>2. QED
      BY <3>1 DEF Queues
  <2>3. QED
    BY <2>1, <2>2
<1>9. Queues'
  BY <1>2, <1>3, <1>7, <1>8 DEF Queues
<1>10. Fits(c)'
  BY <1>4, <1>6 DEF Fits, Sched!At, Sched!Running
<1>11. Loops'
  BY <1>3, <1>6, <1>7, <1>10 DEF Loops, Fits, Sched!At, Sched!Running
<1>12. Sched!SelectedOnce'
  <2>1. \A d \in CPU \ {c} : loop[d].selected # p
    BY <1>1 DEF Sched!SelectedOnce
  <2>2. \A d \in CPU \ {c} : loop[d].selected # Sched!None
          => state'[loop[d].selected] = state[loop[d].selected]
    BY <1>2, <2>1 DEF Loops, LoopRecord, Queues
  <2>3. QED
    BY <1>4, <1>6, <2>2
    DEF Sched!SelectedOnce, Sched!Running, Sched!At, Sched!Runnable, Loops, Fits
<1>13. QED
  BY <1>9, <1>11, <1>12

LEMMA WakeupStep ==
  ASSUME Sched!SchedAssumption, SchedInv, NEW p \in Sched!Proc, Sched!Wakeup(p) PROVE SchedInv'
<1> USE DEF SchedInv
<1>1. Loops'
  BY DEF Sched!Wakeup, Loops, Fits, Sched!At, Sched!Running
<1>2. Queues'
  BY DEF Sched!Wakeup, Queues, Sched!queues
<1>3. Sched!SelectedOnce'
  <2>1. \A d \in CPU : loop[d].selected # Sched!None => loop[d].selected \in Sched!Proc
    BY DEF Loops, LoopRecord
  <2>2. QED
    BY <2>1
    DEF Sched!Wakeup, Sched!SelectedOnce, Sched!Running, Sched!At, Sched!Runnable, Loops,
        Fits, Queues
<1>4. QED
  BY <1>1, <1>2, <1>3

LEMMA SetTicketsStep ==
  ASSUME Sched!SchedAssumption, SchedInv, NEW c \in CPU, NEW n \in 1..MaxTickets,
         Sched!SetTickets(c, n)
  PROVE  SchedInv'
<1> USE DEF SchedInv
<1>1. Loops'
  BY DEF Sched!SetTickets, Loops, Fits, Sched!At, Sched!Running
<1>2. Queues'
  BY DEF Sched!SetTickets, Queues, Sched!queues
<1>3. Sched!SelectedOnce'
  BY DEF Sched!SetTickets, Sched!SelectedOnce, Sched!Running, Sched!At, Sched!Runnable
<1>4. QED
  BY <1>1, <1>2, <1>3

LEMMA SchedStep ==
  ASSUME Sched!SchedAssumption PROVE SchedInv /\ [Sched!Next]_(Sched!vars) => SchedInv'
<1>1. SUFFICES ASSUME SchedInv, [Sched!Next]_(Sched!vars) PROVE SchedInv'
  OBVIOUS
<1>2. ASSUME NEW c \in CPU, Sched!Step(c) PROVE SchedInv'
  BY <1>1, <1>2, BeginStep, SwitchOutStep, ScanRRStep, CountTicketsStep, DrawTicketStep,
     RunWinnerStep, BoostStep, PickStep DEF Sched!Step
<1>3. CASE UNCHANGED Sched!vars
  BY <1>1, <1>3
  DEF SchedInv, Loops, Fits, Queues, Sched!SelectedOnce, Sched!At, Sched!Running,
      Sched!Runnable, Sched!vars
<1>4. QED
  BY <1>1, <1>2, <1>3, SetTicketsStep, WakeupStep DEF Sched!Next

(* Scans, locks, queues and counters fit together as SchedInv says in      *)
(* every state of every build (proc.c:482-684).                            *)
THEOREM SchedSafety ==
  ASSUME Sched!SchedAssumption PROVE Sched!Spec => []SchedInv
<1>1. Sched!Init => SchedInv
  BY InitSched
<1>2. SchedInv /\ [Sched!Next]_(Sched!vars) => SchedInv'
  BY SchedStep
<1>3. QED
  BY <1>1, <1>2, PTL DEF Sched!Spec

LEMMA SchedIsSafe == SchedInv => Sched!TypeOK /\ Sched!SelectedOnce
BY DEF SchedInv, Sched!TypeOK, Loops, LoopRecord, Queues

-----------------------------------------------------------------------------
(* Both parts.                                                             *)

Invariant == (part = "life" => LifeInv) /\ (part = "sched" => SchedInv)

LEMMA InitInvariant == Init => Invariant
<1>1. part = "life" /\ Life!Init => LifeInv
  BY InitLife, ProcessAssumption
<1>2. part = "sched" /\ Sched!Init => SchedInv
  BY InitSched, ProcessAssumption
<1> QED
  BY <1>1, <1>2 DEF Init, Invariant

LEMMA NextInvariant == Invariant /\ [Next]_vars => Invariant'
<1> SUFFICES ASSUME Invariant, [Next]_vars PROVE Invariant'
  OBVIOUS
<1>1. /\ part' = part
      /\ part = "life" => [Life!Next]_(Life!vars)
      /\ part = "sched" => [Sched!Next]_(Sched!vars)
  BY DEF Next, vars, lifeOnly, schedOnly, Life!vars, Sched!vars
<1>2. ASSUME part = "life" PROVE LifeInv'
  BY <1>1, <1>2, LifeStep, ProcessAssumption DEF Invariant
<1>3. ASSUME part = "sched" PROVE SchedInv'
  BY <1>1, <1>3, SchedStep, ProcessAssumption DEF Invariant
<1> QED
  BY <1>1, <1>2, <1>3 DEF Invariant

LEMMA InvariantIsSafe ==
  Invariant => TypeOK /\ StackOwned /\ SelectedOnce /\ NoMissedExit /\ ParentAlive
<1> SUFFICES ASSUME Invariant
             PROVE  TypeOK /\ StackOwned /\ SelectedOnce /\ NoMissedExit /\ ParentAlive
  OBVIOUS
<1>1. ASSUME part = "life"
      PROVE  Life!TypeOK /\ Life!StackOwned /\ Life!NoMissedExit /\ Life!ParentAlive
  BY <1>1, LifeIsSafe DEF Invariant
<1>2. ASSUME part = "sched" PROVE Sched!TypeOK /\ Sched!SelectedOnce
  BY <1>2, SchedIsSafe DEF Invariant
<1> QED
  BY <1>1, <1>2 DEF TypeOK, StackOwned, SelectedOnce, NoMissedExit, ParentAlive

(* The invariants of both parts hold in every state.                       *)
THEOREM Safety == Spec => []Invariant
BY InitInvariant, NextInvariant, PTL DEF Spec

(* Every variable keeps its shape: a process sleeps only on its own        *)
(* address or on an outside channel, and is always in a queue with between *)
(* one and a full slice of it left (proc.c:478, 635-657, 958).             *)
THEOREM TypeCorrect == Spec => []TypeOK
BY Safety, InvariantIsSafe, PTL

(* No two CPUs are ever on one kernel stack, and no slot is freed or       *)
(* allocated while a CPU is on its stack (proc.c:442, 531, 669).           *)
THEOREM StacksAreOwned == Spec => []StackOwned
BY Safety, InvariantIsSafe, PTL

(* No two CPUs run or have selected the same process, and a lottery's      *)
(* candidate is still RUNNABLE when the walk is over (proc.c:531-574).     *)
THEOREM SelectedAtMostOnce == Spec => []SelectedOnce
BY Safety, InvariantIsSafe, PTL

(* A parent never sleeps in wait() beside a zombie child, whatever the     *)
(* order of exits, kills and preemptions (proc.c:402-412, 432-478).        *)
THEOREM ExitsAreNotMissed == Spec => []NoMissedExit
BY Safety, InvariantIsSafe, PTL

(* Every process but init always has a parent that can still wait for it   *)
(* (proc.c:361-373, 405).                                                  *)
THEOREM ParentsAreAlive == Spec => []ParentAlive
BY Safety, InvariantIsSafe, PTL
=============================================================================
