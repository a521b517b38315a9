------------------------------- MODULE XvProc -------------------------------
(***************************************************************************)
(* kernel/proc.c: the life of a process: fork, exit, wait, waitx, kill,    *)
(* sleep, wakeup, yield and the part of scheduler() they rely on, on       *)
(* several CPUs.  Proc is the table proc[NPROC]; pc[p] is where p's kernel *)
(* thread stands and advances only while some CPU is on p's stack.         *)
(*                                                                         *)
(* Locks.  wait_lock is a variable: exit() and wait() hold it over several *)
(* steps.  p->lock is held across states only from the moment p leaves     *)
(* RUNNING until scheduler(), on another stack, releases it (sleep, yield  *)
(* and exit call sched() with it held): Locked(p).  Every other critical   *)
(* section of a p->lock is one step that needs it free.                    *)
(*                                                                         *)
(* Which policy picks the next process is XvSched's subject; here any      *)
(* RUNNABLE process may be picked.  Channels other than a parent's own     *)
(* (pipes, disk, console, ticks) are one channel IO that is signalled at   *)
(* arbitrary moments.  Memory exhaustion and copyout failure are outcomes  *)
(* a system call may have; the failure at line 163 is left out: it leaves  *)
(* a p->lock held for ever and the CPU's next sched() panics.              *)
(***************************************************************************)
EXTENDS Naturals

CONSTANTS Proc,      \* the slots of proc[]
          InitProc,  \* the slot of init
          CPU,
          None,      \* a null pointer or a free lock
          IO         \* the channel of every sleep that is not in wait()

ASSUME ProcAssumption == /\ InitProc \in Proc
                         /\ None \notin Proc \cup CPU \cup {IO}
                         /\ IO \notin Proc

VARIABLES state,     \* p->state
          parent,    \* p->parent
          chan,      \* p->chan
          killed,    \* p->killed
          pc,
          child,     \* child[p]: np, the slot a fork() of p is filling
          cpu,       \* cpu[c]: the process whose kernel stack c is on
          waitLock   \* the holder of wait_lock

vars == <<state, parent, chan, killed, pc, child, cpu, waitLock>>

State == {"UNUSED", "USED", "SLEEPING", "RUNNABLE", "RUNNING", "ZOMBIE"}

Label == {"user", "forkParent", "forkRun", "ioSleep",
          "exitLock", "exitReparent", "exitWake", "exitZombie",
          "waitLock", "waitScan", "waitSleep"}

OnCpu(p) == \E c \in CPU : cpu[c] = p
Running(p) == state[p] = "RUNNING" /\ OnCpu(p)

(* p->lock is held on p's own stack, on its way into scheduler().          *)
Locked(p) == OnCpu(p) /\ state[p] # "RUNNING"

Children(p) == {q \in Proc : parent[q] = p}

At(p, label) == Running(p) /\ pc[p] = label

(* usertrap() lets a killed process do nothing but exit.                   *)
InUser(p) == At(p, "user") /\ ~killed[p]

Goto(p, label) == pc' = [pc EXCEPT ![p] = label]

Init ==
  /\ state = [p \in Proc |-> IF p = InitProc THEN "RUNNABLE" ELSE "UNUSED"]
  /\ parent = [p \in Proc |-> None]
  /\ chan = [p \in Proc |-> None]
  /\ killed = [p \in Proc |-> FALSE]
  /\ pc = [p \in Proc |-> "user"]
  /\ child = [p \in Proc |-> None]
  /\ cpu = [c \in CPU |-> None]
  /\ waitLock = None

-----------------------------------------------------------------------------
(* Variants with one slip each: a scheduler that does not take p->lock, a  *)
(* sleeper that waits on its parent, an exit() that does not reparent() or *)
(* does not wake its parent, a wait() that drops wait_lock before it holds *)
(* its own lock.                                                           *)
DispatchUnlocked(c, p) ==
  /\ cpu[c] = None
  /\ state[p] = "RUNNABLE"
  /\ state' = [state EXCEPT ![p] = "RUNNING"]
  /\ chan' = [chan EXCEPT ![p] = None]
  /\ cpu' = [cpu EXCEPT ![c] = p]
  /\ UNCHANGED <<parent, killed, pc, child, waitLock>>

SleepOnParent(p, ch) ==
  /\ state' = [state EXCEPT ![p] = "SLEEPING"]
  /\ chan' = [chan EXCEPT ![p] = parent[p]]

ExitNoReparent(p) ==
  /\ At(p, "exitReparent")
  /\ Goto(p, "exitWake")
  /\ UNCHANGED <<state, parent, chan, killed, child, cpu, waitLock>>

ExitWakeNobody(p) ==
  /\ At(p, "exitWake")
  /\ Goto(p, "exitZombie")
  /\ UNCHANGED <<state, parent, chan, killed, child, cpu, waitLock>>

WaitMoreUnlocked(p) ==
  /\ At(p, "waitScan")
  /\ Children(p) # {} /\ ~killed[p]
  /\ \A q \in Children(p) : state[q] # "ZOMBIE"
  /\ Goto(p, "waitSleep")
  /\ waitLock' = None
  /\ UNCHANGED <<state, parent, chan, killed, child, cpu>>

-----------------------------------------------------------------------------
(* scheduler(): an idle CPU takes a RUNNABLE process whose lock is free,   *)
(* and the process, back in sleep(), yield() or forkret(), clears its      *)
(* channel and releases its lock.                                          *)
Dispatch(c, p) ==
  /\ cpu[c] = None
  /\ state[p] = "RUNNABLE" /\ ~Locked(p)
  /\ state' = [state EXCEPT ![p] = "RUNNING"]
  /\ chan' = [chan EXCEPT ![p] = None]
  /\ cpu' = [cpu EXCEPT ![c] = p]
  /\ UNCHANGED <<parent, killed, pc, child, waitLock>>

(* sched() reaches scheduler() on c, which releases the lock of p.         *)
SwitchOut(c) ==
  /\ cpu[c] # None
  /\ state[cpu[c]] # "RUNNING"
  /\ cpu' = [cpu EXCEPT ![c] = None]
  /\ UNCHANGED <<state, parent, chan, killed, pc, child, waitLock>>

(* A timer interrupt makes p yield(), in user space or in the kernel with  *)
(* interrupts on, which is whenever p holds no spinlock.                   *)
Preempt(p) ==
  /\ Running(p)
  /\ waitLock # p
  /\ state' = [state EXCEPT ![p] = "RUNNABLE"]
  /\ UNCHANGED <<parent, chan, killed, pc, child, cpu, waitLock>>

(* sleep(ch, lk): p->lock is taken before the state changes and is held    *)
(* until SwitchOut.                                                        *)
SleepOn(p, ch) ==
  /\ state' = [state EXCEPT ![p] = "SLEEPING"]
  /\ chan' = [chan EXCEPT ![p] = ch]

(* wakeup(ch) where p is the only process that may sleep on ch: the table  *)
(* after it, which the caller reaches once p->lock is free.                *)
CanAwaken(p) == p \notin Proc \/ ~Locked(p)
Awaken(p, ch) ==
  IF p \in Proc /\ state[p] = "SLEEPING" /\ chan[p] = ch
  THEN [state EXCEPT ![p] = "RUNNABLE"] ELSE state

-----------------------------------------------------------------------------
(* fork(): allocproc() takes an UNUSED slot; nobody else can use it before *)
(* its lock is released, with the copy of the parent's memory in place.    *)
ForkAlloc(p, np) ==
  /\ InUser(p)
  /\ state[np] = "UNUSED" /\ ~Locked(np)
  /\ state' = [state EXCEPT ![np] = "USED"]
  /\ child' = [child EXCEPT ![p] = np]
  /\ pc' = [pc EXCEPT ![p] = "forkParent", ![np] = "user"]
  /\ UNCHANGED <<parent, chan, killed, cpu, waitLock>>

(* The slot's memory ran out: freeproc() gives it back, kill mark cleared, *)
(* and fork() returns -1.  With no UNUSED slot fork() changes nothing.     *)
ForkFail(p, np) ==
  /\ InUser(p)
  /\ state[np] = "UNUSED" /\ ~Locked(np)
  /\ killed' = [killed EXCEPT ![np] = FALSE]
  /\ UNCHANGED <<state, parent, chan, pc, child, cpu, waitLock>>

ForkParent(p) ==
  /\ At(p, "forkParent")
  /\ waitLock = None
  /\ parent' = [parent EXCEPT ![child[p]] = p]
  /\ Goto(p, "forkRun")
  /\ UNCHANGED <<state, chan, killed, child, cpu, waitLock>>

ForkRun(p) ==
  /\ At(p, "forkRun")
  /\ state' = [state EXCEPT ![child[p]] = "RUNNABLE"]
  /\ child' = [child EXCEPT ![p] = None]
  /\ Goto(p, "user")
  /\ UNCHANGED <<parent, chan, killed, cpu, waitLock>>

-----------------------------------------------------------------------------
(* kill(pid) by a running process.  A slot that fork() is still filling    *)
(* has its pid already.  An UNUSED slot has pid 0, so kill(0) finds one    *)
(* and marks it; allocproc() does not clear the mark.  Killing init, which *)
(* panics the kernel, is left out.                                         *)
Kill(p, q) ==
  /\ InUser(p)
  /\ q # InitProc /\ ~Locked(q)
  /\ killed' = [killed EXCEPT ![q] = TRUE]
  /\ state' = IF state[q] = "SLEEPING" THEN [state EXCEPT ![q] = "RUNNABLE"]
                                       ELSE state
  /\ UNCHANGED <<parent, chan, pc, child, cpu, waitLock>>

(* usertrap() sends a killed process to exit(), a program may call it.     *)
(* init must not: it would panic.                                          *)
BeginExit(p) ==
  /\ At(p, "user")
  /\ p # InitProc
  /\ Goto(p, "exitLock")
  /\ UNCHANGED <<state, parent, chan, killed, child, cpu, waitLock>>

ExitLock(p) ==
  /\ At(p, "exitLock")
  /\ waitLock = None
  /\ waitLock' = p
  /\ Goto(p, "exitReparent")
  /\ UNCHANGED <<state, parent, chan, killed, child, cpu>>

(* reparent(p): every child of p goes to init, and each one wakes init.    *)
ExitReparent(p) ==
  /\ At(p, "exitReparent")
  /\ \/ /\ Children(p) = {}
        /\ UNCHANGED <<state, parent>>
     \/ /\ Children(p) # {}
        /\ CanAwaken(InitProc)
        /\ parent' = [q \in Proc |-> IF parent[q] = p THEN InitProc ELSE parent[q]]
        /\ state' = Awaken(InitProc, InitProc)
  /\ Goto(p, "exitWake")
  /\ UNCHANGED <<chan, killed, child, cpu, waitLock>>

(* wakeup(p->parent), while p is not a zombie yet.                         *)
ExitWake(p) ==
  /\ At(p, "exitWake")
  /\ CanAwaken(parent[p])
  /\ state' = Awaken(parent[p], parent[p])
  /\ Goto(p, "exitZombie")
  /\ UNCHANGED <<parent, chan, killed, child, cpu, waitLock>>

ExitZombie(p) ==
  /\ At(p, "exitZombie")
  /\ state' = [state EXCEPT ![p] = "ZOMBIE"]
  /\ waitLock' = None
  /\ UNCHANGED <<parent, chan, killed, pc, child, cpu>>

-----------------------------------------------------------------------------
(* wait() and waitx(), which differ only in the accounting they return.    *)
BeginWait(p) ==
  /\ InUser(p)
  /\ Goto(p, "waitLock")
  /\ UNCHANGED <<state, parent, chan, killed, child, cpu, waitLock>>

(* acquire(&wait_lock), on entry and again after every sleep.              *)
WaitLock(p) ==
  /\ At(p, "waitLock")
  /\ waitLock = None
  /\ waitLock' = p
  /\ Goto(p, "waitScan")
  /\ UNCHANGED <<state, parent, chan, killed, child, cpu>>

(* A child is a zombie, and off its stack because its lock is free:        *)
(* freeproc() it.                                                          *)
WaitReap(p, q) ==
  /\ At(p, "waitScan")
  /\ q \in Children(p)
  /\ state[q] = "ZOMBIE" /\ ~Locked(q)
  /\ state' = [state EXCEPT ![q] = "UNUSED"]
  /\ parent' = [parent EXCEPT ![q] = None]
  /\ chan' = [chan EXCEPT ![q] = None]
  /\ killed' = [killed EXCEPT ![q] = FALSE]
  /\ waitLock' = None
  /\ Goto(p, "user")
  /\ UNCHANGED <<child, cpu>>

(* No child, or killed, or copyout() of a zombie's status failed: -1.      *)
(* init asks for no status, so it has nothing to copy.                     *)
WaitFail(p) ==
  /\ At(p, "waitScan")
  /\ \/ p # InitProc /\ \E q \in Children(p) : state[q] = "ZOMBIE" /\ ~Locked(q)
     \/ /\ \A q \in Children(p) : state[q] # "ZOMBIE"
        /\ Children(p) = {} \/ killed[p]
  /\ waitLock' = None
  /\ Goto(p, "user")
  /\ UNCHANGED <<state, parent, chan, killed, child, cpu>>

(* Children, none of them a zombie, and p not killed when it looked.       *)
WaitMore(p) ==
  /\ At(p, "waitScan")
  /\ Children(p) # {}
  /\ \A q \in Children(p) : state[q] # "ZOMBIE"
  /\ ~killed[p]
  /\ Goto(p, "waitSleep")
  /\ UNCHANGED <<state, parent, chan, killed, child, cpu, waitLock>>

(* sleep(p, &wait_lock): p->lock first, then wait_lock is dropped.         *)
WaitSleep(p) ==
  /\ At(p, "waitSleep")
  /\ SleepOn(p, p)
  /\ waitLock' = None
  /\ Goto(p, "waitLock")
  /\ UNCHANGED <<parent, killed, child, cpu>>

-----------------------------------------------------------------------------
(* Any other system call that sleeps: it looks at killed, then sleeps, and *)
(* is signalled or killed while asleep.                                    *)
IoCheck(p) ==
  /\ InUser(p)
  /\ Goto(p, "ioSleep")
  /\ UNCHANGED <<state, parent, chan, killed, child, cpu, waitLock>>

IoSleep(p) ==
  /\ At(p, "ioSleep")
  /\ SleepOn(p, IO)
  /\ Goto(p, "user")
  /\ UNCHANGED <<parent, killed, child, cpu, waitLock>>

IoWakeup(p) ==
  /\ chan[p] = IO /\ CanAwaken(p)
  /\ state[p] = "SLEEPING"
  /\ state' = Awaken(p, IO)
  /\ UNCHANGED <<parent, chan, killed, pc, child, cpu, waitLock>>

-----------------------------------------------------------------------------
(* What a kernel thread does once its system call is under way.            *)
Kernel(p) ==
  \/ ForkParent(p) \/ ForkRun(p)
  \/ ExitLock(p) \/ ExitReparent(p) \/ ExitWake(p) \/ ExitZombie(p)
  \/ WaitLock(p) \/ (\E q \in Proc : WaitReap(p, q)) \/ WaitFail(p)
  \/ WaitMore(p) \/ WaitSleep(p) \/ IoSleep(p)

Next ==
  \/ \E c \in CPU : SwitchOut(c) \/ \E p \in Proc : Dispatch(c, p)
  \/ \E p \in Proc :
       \/ Preempt(p) \/ Kernel(p)
       \/ BeginExit(p) \/ BeginWait(p) \/ IoCheck(p) \/ IoWakeup(p)
       \/ \E q \in Proc : ForkAlloc(p, q) \/ ForkFail(p, q) \/ Kill(p, q)

Spec == Init /\ [][Next]_vars

(* Every CPU keeps running its scheduler or the thread it is on, the round *)
(* robin loop reaches every RUNNABLE process, timer interrupts recur, and  *)
(* a spinlock that is released again and again is eventually obtained.     *)
(* init calls wait() for ever, and what else it sleeps on, the console and *)
(* the disk, answers (user/init.c).  Nothing else a user program does is   *)
(* assumed.                                                                *)
Fairness ==
  /\ \A c \in CPU : WF_vars(SwitchOut(c))
  /\ \A p \in Proc : /\ SF_vars(\E c \in CPU : Dispatch(c, p))
                     /\ SF_vars(Preempt(p))
                     /\ SF_vars(Kernel(p))
  /\ SF_vars(BeginWait(InitProc))
  /\ WF_vars(IoWakeup(InitProc))

FairSpec == Spec /\ Fairness

-----------------------------------------------------------------------------
(* The table keeps its shape; a process sleeps on its own address or on an *)
(* outside channel (proc.c:478, 958).                                      *)
TypeOK ==
  /\ state \in [Proc -> State]
  /\ parent \in [Proc -> Proc \cup {None}]
  /\ chan \in [Proc -> Proc \cup {None, IO}]
  /\ \A p \in Proc : chan[p] \in {None, IO, p}
  /\ killed \in [Proc -> BOOLEAN]
  /\ pc \in [Proc -> Label]
  /\ child \in [Proc -> Proc \cup {None}]
  /\ cpu \in [CPU -> Proc \cup {None}]
  /\ waitLock \in Proc \cup {None}

(* A kernel stack is used by one CPU at a time, and a slot is freed only   *)
(* when no CPU is on its stack: "make sure the child isn't still in exit() *)
(* or swtch()" (proc.c:442), and p->lock held through swtch (531, 669).    *)
StackOwned ==
  \A c \in CPU : cpu[c] # None =>
    /\ state[cpu[c]] \notin {"UNUSED", "USED"}
    /\ \A d \in CPU \ {c} : cpu[d] # cpu[c]

(* A parent asleep in wait() has no zombie child: exit() cannot become one *)
(* between the parent's scan and its sleep, nor after a wakeup that came   *)
(* too early (proc.c:402-412, 432-478, 753-779).                           *)
NoMissedExit ==
  \A p, q \in Proc :
    state[p] = "SLEEPING" /\ chan[p] = p /\ parent[q] = p => state[q] # "ZOMBIE"

(* Every process but init has a parent that can still wait for it: a       *)
(* parent that exits hands its children over first (proc.c:361-373, 405).  *)
ParentAlive ==
  \A q \in Proc \ {InitProc} :
    state[q] \notin {"UNUSED", "USED"} =>
      /\ parent[q] # None
      /\ state[parent[q]] \notin {"UNUSED", "USED", "ZOMBIE"}

(* init does not sleep, or do anything else, for ever beside a zombie      *)
(* child, its own or one handed over by reparent(): as long as there is    *)
(* one it frees one after another (proc.c:361-373, 408, 478).              *)
InitReaps == \E q \in Proc : WaitReap(InitProc, q)

OrphansReaped ==
  <>[](\E q \in Children(InitProc) : state[q] = "ZOMBIE")
    => []<><<InitReaps>>_vars

(* "Kill the process with the given pid" (proc.c:801): a process that      *)
(* fork() has just created has not been killed, since nobody knew its pid. *)
BornAlive ==
  [][\A q \in Proc : state[q] = "UNUSED" /\ state'[q] = "USED" => ~killed'[q]]_vars
=============================================================================
