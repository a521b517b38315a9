---------------------------- MODULE LazyReadWrite ----------------------------
(***************************************************************************)
(* concurrency/lazy_read_write.c: one File and the request threads that    *)
(* name it.  Files share nothing but the print lock, so one File with any  *)
(* set of threads stands for the program.  A thread is one call of         *)
(* process_request(); pc names the statement it is about to execute.       *)
(*                                                                         *)
(* A critical section that cannot block is one step, taken when its mutex  *)
(* is free; `lock' and `deleteLock' are held across states only where the  *)
(* code can block while holding them (line 139/194: lock held, delete_lock *)
(* wanted; lines 229-235: delete_lock held around the wait loop).          *)
(*                                                                         *)
(* Time is the outcome of the comparisons with max_wait_time: each check   *)
(* that reads the clock may go either way.  The reader's check at line 119 *)
(* reuses the time stored at line 88, which line 91 already found in time, *)
(* so it never fires and the model has no such branch.                     *)
(***************************************************************************)
EXTENDS Naturals, FiniteSets

CONSTANTS User,            \* the request threads
          MaxConcurrency,  \* max_concurrency, the initial value of access_limit
          NoUser           \* a free mutex

ASSUME RWAssumption == /\ IsFiniteSet(User)
                       /\ NoUser \notin User
                       /\ MaxConcurrency \in Nat \ {0}

VARIABLES op,          \* op[u]: the operation user u requests
          pc,
          exists,      \* file->exists
          readCount,   \* file->read_count
          isWriting,   \* file->is_writing
          lock,        \* the holder of file->lock
          deleteLock,  \* the holder of file->delete_lock
          accessLimit, \* the value of the semaphore access_limit
          writeLimit   \* the value of the semaphore write_limit

vars == <<op, pc, exists, readCount, isWriting, lock, deleteLock,
          accessLimit, writeLimit>>
file == <<exists, readCount, isWriting>>
sync == <<lock, deleteLock, accessLimit, writeLimit>>

Operation == {"R", "W", "D"}

Label == {"start", "access", "writeLimit", "check", "working", "finish",
          "deleteLock", "test", "wait", "woken", "remove",
          "postWrite", "postAccess", "done"}

(* Threads blocked in pthread_cond_wait(&file->delete, ...).               *)
Waiting == {u \in User : pc[u] = "wait"}

Goto(u, label) == pc' = [pc EXCEPT ![u] = label]

(* Variants of the steps below with one plausible slip each: a reader's     *)
(* error path that also posts write_limit, a missing wait on write_limit,  *)
(* a decline that returns without posting, a finished read that stays      *)
(* counted, a finished operation that does not signal.                     *)
PostLabelBoth(u) == "postWrite"

AcquireWriteUnguarded(u) ==
  /\ pc[u] = "writeLimit"
  /\ Goto(u, "check")
  /\ UNCHANGED <<op, file, sync>>

DeclineNoPost(u) ==
  /\ pc[u] = "check" /\ lock = NoUser /\ ~exists
  /\ Goto(u, "done")
  /\ UNCHANGED <<op, file, sync>>

SignalNobody(u, label) == Goto(u, label)

FinishReadUncounted(u) ==
  /\ pc[u] = "finish" /\ op[u] = "R"
  /\ deleteLock = NoUser
  /\ Goto(u, "postAccess")
  /\ lock' = NoUser
  /\ UNCHANGED <<op, file, deleteLock, accessLimit, writeLimit>>

(* Where a thread goes to give its semaphores back.                        *)
PostLabel(u) == IF op[u] = "W" THEN "postWrite" ELSE "postAccess"

(* pthread_cond_signal followed by a jump of the signaller u: one waiter,  *)
(* if there is one, leaves the wait set.                                   *)
SignalAndGoto(u, label) ==
  IF Waiting = {}
  THEN Goto(u, label)
  ELSE \E w \in Waiting : pc' = [pc EXCEPT ![u] = label, ![w] = "woken"]

Init ==
  /\ op \in [User -> Operation]
  /\ pc = [u \in User |-> "start"]
  /\ exists = TRUE
  /\ readCount = 0
  /\ isWriting = FALSE
  /\ lock = NoUser
  /\ deleteLock = NoUser
  /\ accessLimit = MaxConcurrency
  /\ writeLimit = 1

-----------------------------------------------------------------------------
(* Lines 72-97: wait for the request time and the lazy second, then cancel *)
(* if the wait was too long.                                               *)
Start(u) ==
  /\ pc[u] = "start"
  /\ \E label \in {"access", "done"} : Goto(u, label)
  /\ UNCHANGED <<op, file, sync>>

(* sem_wait(&file->access_limit).                                          *)
AcquireAccess(u) ==
  /\ pc[u] = "access"
  /\ accessLimit > 0
  /\ accessLimit' = accessLimit - 1
  /\ Goto(u, IF op[u] = "W" THEN "writeLimit" ELSE "check")
  /\ UNCHANGED <<op, file, lock, deleteLock, writeLimit>>

(* sem_wait(&file->write_limit), with access_limit already taken.          *)
AcquireWrite(u) ==
  /\ pc[u] = "writeLimit"
  /\ writeLimit > 0
  /\ writeLimit' = writeLimit - 1
  /\ Goto(u, "check")
  /\ UNCHANGED <<op, file, lock, deleteLock, accessLimit>>

(* The request finds the file deleted and is declined.                     *)
Decline(u) ==
  /\ pc[u] = "check"
  /\ lock = NoUser
  /\ ~exists
  /\ Goto(u, PostLabel(u))
  /\ UNCHANGED <<op, file, sync>>

TakeUpRead(u) ==
  /\ pc[u] = "check" /\ op[u] = "R"
  /\ lock = NoUser
  /\ exists
  /\ readCount' = readCount + 1
  /\ Goto(u, "working")
  /\ UNCHANGED <<op, exists, isWriting, sync>>

TakeUpWrite(u) ==
  /\ pc[u] = "check" /\ op[u] = "W"
  /\ lock = NoUser
  /\ exists
  /\ \/ isWriting' = TRUE /\ Goto(u, "working")
     \/ isWriting' = isWriting /\ Goto(u, "postWrite")   \* timed out, 173
  /\ UNCHANGED <<op, exists, readCount, sync>>

(* A deleter that found the file goes on to the wait loop without `lock'.  *)
CheckDelete(u) ==
  /\ pc[u] = "check" /\ op[u] = "D"
  /\ lock = NoUser
  /\ exists
  /\ Goto(u, "deleteLock")
  /\ UNCHANGED <<op, file, sync>>

-----------------------------------------------------------------------------
(* The end of a read or a write: lock, then delete_lock, then the update,  *)
(* the signal and both unlocks.                                            *)
LockToFinish(u) ==
  /\ pc[u] = "working" /\ op[u] # "D"
  /\ lock = NoUser
  /\ lock' = u
  /\ Goto(u, "finish")
  /\ UNCHANGED <<op, file, deleteLock, accessLimit, writeLimit>>

FinishRead(u) ==
  /\ pc[u] = "finish" /\ op[u] = "R"
  /\ deleteLock = NoUser
  /\ readCount' = readCount - 1
  /\ SignalAndGoto(u, "postAccess")
  /\ lock' = NoUser
  /\ UNCHANGED <<op, exists, isWriting, deleteLock, accessLimit, writeLimit>>

FinishWrite(u) ==
  /\ pc[u] = "finish" /\ op[u] = "W"
  /\ deleteLock = NoUser
  /\ isWriting' = FALSE
  /\ SignalAndGoto(u, "postWrite")
  /\ lock' = NoUser
  /\ UNCHANGED <<op, exists, readCount, deleteLock, accessLimit, writeLimit>>

-----------------------------------------------------------------------------
(* pthread_mutex_lock(&file->delete_lock) at 229, or the re-acquisition    *)
(* inside pthread_cond_wait once the deleter has been woken.               *)
LockDelete(u) ==
  /\ pc[u] \in {"deleteLock", "woken"}
  /\ deleteLock = NoUser
  /\ deleteLock' = u
  /\ Goto(u, "test")
  /\ UNCHANGED <<op, file, lock, accessLimit, writeLimit>>

(* The while condition of line 230, read without `lock', and either        *)
(* pthread_cond_wait or the unlock of line 235.                            *)
TestDelete(u) ==
  /\ pc[u] = "test"
  /\ Goto(u, IF readCount > 0 \/ isWriting THEN "wait" ELSE "remove")
  /\ deleteLock' = NoUser
  /\ UNCHANGED <<op, file, lock, accessLimit, writeLimit>>

(* POSIX allows pthread_cond_wait to return with no signal.                *)
SpuriousWakeup(u) ==
  /\ pc[u] = "wait"
  /\ Goto(u, "woken")
  /\ UNCHANGED <<op, file, sync>>

(* Lines 238-256: nothing is tested again but the timeout.                 *)
Remove(u) ==
  /\ pc[u] = "remove"
  /\ lock = NoUser
  /\ \/ exists' = FALSE /\ Goto(u, "working")
     \/ exists' = exists /\ Goto(u, "postAccess")        \* timed out, 242
  /\ UNCHANGED <<op, readCount, isWriting, sync>>

FinishDelete(u) ==
  /\ pc[u] = "working" /\ op[u] = "D"
  /\ Goto(u, "postAccess")
  /\ UNCHANGED <<op, file, sync>>

-----------------------------------------------------------------------------
PostWrite(u) ==
  /\ pc[u] = "postWrite"
  /\ writeLimit' = writeLimit + 1
  /\ Goto(u, "postAccess")
  /\ UNCHANGED <<op, file, lock, deleteLock, accessLimit>>

PostAccess(u) ==
  /\ pc[u] = "postAccess"
  /\ accessLimit' = accessLimit + 1
  /\ Goto(u, "done")
  /\ UNCHANGED <<op, file, lock, deleteLock, writeLimit>>

(* Every step a running thread takes by itself.                            *)
Step(u) ==
  \/ Start(u) \/ AcquireAccess(u) \/ AcquireWrite(u)
  \/ Decline(u) \/ TakeUpRead(u) \/ TakeUpWrite(u) \/ CheckDelete(u)
  \/ LockToFinish(u) \/ FinishRead(u) \/ FinishWrite(u)
  \/ LockDelete(u) \/ TestDelete(u) \/ Remove(u) \/ FinishDelete(u)
  \/ PostWrite(u) \/ PostAccess(u)

(* pthread_join on every thread: main returns.                             *)
Done == (\A u \in User : pc[u] = "done") /\ UNCHANGED vars

Next == (\E u \in User : Step(u) \/ SpuriousWakeup(u)) \/ Done

Spec == Init /\ [][Next]_vars

(* A runnable thread is scheduled, and a mutex or a semaphore that becomes *)
(* free again and again is eventually granted to a thread blocked on it.   *)
(* Nobody promises a spurious wakeup.                                      *)
Fairness ==
  \A u \in User :
    /\ WF_vars(Step(u))
    /\ SF_vars(FinishRead(u) \/ FinishWrite(u) \/ LockDelete(u))

FairSpec == Spec /\ Fairness

-----------------------------------------------------------------------------
Reading(u) == op[u] = "R" /\ pc[u] \in {"working", "finish"}
Writing(u) == op[u] = "W" /\ pc[u] \in {"working", "finish"}

Readers == {u \in User : Reading(u)}
Writers == {u \in User : Writing(u)}

(* The threads between their sem_wait and their sem_post.                  *)
AccessHolders ==
  {u \in User : pc[u] \notin {"start", "access", "done"}}
WriteHolders ==
  {u \in User : /\ op[u] = "W"
                /\ pc[u] \in {"check", "working", "finish", "postWrite"}}

(* Deleters that have been through the wait of line 232 or never needed it.*)
PastWait(u) ==
  op[u] = "D" /\ pc[u] \in {"woken", "test", "remove", "working",
                            "postAccess", "done"}

Deleters == {u \in User : op[u] = "D"}

(* Every variable stays in the range the program gives it; in particular   *)
(* no error path posts a semaphore it did not take (lines 106-128,         *)
(* 159-183, 218-250).                                                      *)
TypeOK ==
  /\ op \in [User -> Operation]
  /\ pc \in [User -> Label]
  /\ exists \in BOOLEAN
  /\ readCount \in Nat
  /\ isWriting \in BOOLEAN
  /\ lock \in User \cup {NoUser}
  /\ deleteLock \in User \cup {NoUser}
  /\ accessLimit \in 0..MaxConcurrency
  /\ writeLimit \in 0..1

(* Writers exclude each other, and is_writing, which one finishing writer  *)
(* clears without looking at who else is there (line 195), is set exactly  *)
(* while some write is in progress.                                        *)
WriterExclusion ==
  /\ \A u, v \in Writers : u = v
  /\ isWriting <=> Writers # {}

(* read_count, on which the deleter's wait depends (line 230), is the      *)
(* number of reads in progress through every early return.                 *)
ReadersCounted == readCount = Cardinality(Readers)

(* access_limit and its holders always add up: no path of a declined,      *)
(* cancelled or completed request leaks or duplicates a slot, so at most   *)
(* max_concurrency threads work on the file.                               *)
SlotsConserved == accessLimit + Cardinality(AccessHolders) = MaxConcurrency

(* A deleter is never asleep on the condition (line 232) with the file     *)
(* idle unless another deleter has been woken in its stead: one signal per *)
(* finished operation (141, 196) is enough for one deleter, and only for   *)
(* one.                                                                    *)
NoLostWakeup ==
  Waiting # {} => \/ readCount > 0 \/ isWriting
                  \/ \E u \in User : PastWait(u)

(* With at most one delete request every thread terminates, whatever the   *)
(* order of the others: no lock order, semaphore or wait in lines 99-268   *)
(* can block it forever.                                                   *)
SingleDeleterTermination ==
  Cardinality(Deleters) <= 1 => <>(\A u \in User : pc[u] = "done")

(* What both READMEs say of the program: shared state is coordinated       *)
(* without deadlock, so every request is eventually answered.              *)
NoDeadlock == <>(\A u \in User : pc[u] = "done")
=============================================================================
