------------------------------ MODULE XvPipe ------------------------------
(***************************************************************************)
(* One xv6 pipe (kernel/pipe.c) and the processes that hold its two ends   *)
(* (kernel/file.c, and fork() and exit() of kernel/proc.c for the file     *)
(* descriptors).                                                           *)
(*                                                                         *)
(* pi->lock is held over every iteration of the loops of piperead() and    *)
(* pipewrite() and given up only by sleep() and at the return, but a kill  *)
(* or another process' fork() may come between two iterations, so each     *)
(* iteration is a step.  nread and nwrite are unsigned and wrap around.    *)
(***************************************************************************)
EXTENDS Naturals, FiniteSets

CONSTANTS
  Proc,      \* processes that may ever share the pipe
  Creator,   \* the one that calls pipe()
  Nobody,    \* no owner of pi->lock
  Bytes,     \* what may be written
  PipeSize,  \* PIPESIZE
  Wrap,      \* nread and nwrite count modulo this (2^32 in the code)
  MaxN,      \* bound: the largest n of one read() or write()
  MaxKills   \* bound: how many processes are killed

ProcAssumption == Creator \in Proc /\ Nobody \notin Proc
SizeAssumption ==
  /\ PipeSize \in Nat \ {0} /\ Wrap \in Nat /\ MaxN \in Nat /\ MaxKills \in Nat
  /\ Wrap % PipeSize = 0 /\ Wrap > PipeSize /\ Bytes # {}

VARIABLES
  data, nread, nwrite,   \* the ring
  readopen, writeopen,
  allocated,             \* the page of the pipe is not freed
  lock,                  \* owner of pi->lock
  holds,                 \* ends a process has an open file descriptor for
  pc, left,              \* the call a process is in and its bytes to go
  chan,                  \* what a process sleeps on
  killed

ring == <<data, nread, nwrite>>
ends == <<readopen, writeopen, allocated>>
vars == <<ring, ends, lock, holds, pc, left, chan, killed>>

Ends == {"r", "w"}
InCall == {"write", "read", "writeSleep", "readSleep"}
Closing == {"closeR", "closeW"}
Slots == 0 .. PipeSize - 1
Counter == 0 .. Wrap - 1

TypeOK ==
  /\ data \in [Slots -> Bytes] /\ nread \in Counter /\ nwrite \in Counter
  /\ {readopen, writeopen, allocated} \subseteq BOOLEAN
  /\ lock \in Proc \cup {Nobody}
  /\ holds \in [Proc -> SUBSET Ends]
  /\ pc \in [Proc -> {"unborn", "user"} \cup InCall \cup Closing]
  /\ left \in [Proc -> 0 .. MaxN]
  /\ chan \in [Proc -> {"none", "nread", "nwrite"}]
  /\ killed \in [Proc -> BOOLEAN]

Init ==
  /\ data \in [Slots -> {CHOOSE b \in Bytes : TRUE}] /\ nread = 0 /\ nwrite = 0
  /\ readopen = TRUE /\ writeopen = TRUE /\ allocated = TRUE
  /\ lock = Nobody
  /\ holds = [p \in Proc |-> IF p = Creator THEN Ends ELSE {}]
  /\ pc = [p \in Proc |-> IF p = Creator THEN "user" ELSE "unborn"]
  /\ left = [p \in Proc |-> 0]
  /\ chan = [p \in Proc |-> "none"]
  /\ killed = [p \in Proc |-> FALSE]

\* Mutant of Full: one byte too many fits.
FullLate == nwrite = (nread + PipeSize + 1) % Wrap

Full == nwrite = (nread + PipeSize) % Wrap
Empty == nread = nwrite

Goto(p, l) == pc' = [pc EXCEPT ![p] = l]

\* Process p is at label l and runs with pi->lock, which it holds already or
\* takes now: after sleep() as at the start of a call.
At(p, l) ==
  /\ pc[p] = l
  /\ chan[p] = "none"
  /\ lock \in {Nobody, p}

Wakeup(c) == chan' = [q \in Proc |-> IF chan[q] = c THEN "none" ELSE chan[q]]

Return(p) ==
  /\ lock' = Nobody
  /\ left' = [left EXCEPT ![p] = 0]
  /\ Goto(p, "user")

-----------------------------------------------------------------------------
(* pipewrite() *)

BeginWrite(p) ==
  \E n \in 1 .. MaxN :
    /\ pc[p] = "user" /\ ~killed[p] /\ "w" \in holds[p]
    /\ left' = [left EXCEPT ![p] = n]
    /\ Goto(p, "write")
    /\ UNCHANGED <<ring, ends, lock, holds, chan, killed>>

WriteRefused(p) ==
  /\ At(p, "write") /\ left[p] > 0
  /\ ~readopen \/ killed[p]
  /\ Return(p)
  /\ UNCHANGED <<ring, ends, holds, chan, killed>>

WriteFull(p) ==
  /\ At(p, "write") /\ left[p] > 0
  /\ readopen /\ ~killed[p] /\ Full
  /\ Wakeup("nread")
  /\ lock' = p
  /\ Goto(p, "writeSleep")
  /\ UNCHANGED <<ring, ends, holds, left, killed>>

WriteSleep(p) ==
  /\ At(p, "writeSleep")
  /\ chan' = [chan EXCEPT ![p] = "nwrite"]
  /\ lock' = Nobody
  /\ Goto(p, "write")
  /\ UNCHANGED <<ring, ends, holds, left, killed>>

WriteByte(p) ==
  \E b \in Bytes :
    /\ At(p, "write") /\ left[p] > 0
    /\ readopen /\ ~killed[p] /\ ~Full
    /\ data' = [data EXCEPT ![nwrite % PipeSize] = b]
    /\ nwrite' = (nwrite + 1) % Wrap
    /\ left' = [left EXCEPT ![p] = @ - 1]
    /\ lock' = p
    /\ UNCHANGED <<nread, ends, holds, pc, chan, killed>>

\* All bytes written, or copyin() finds a bad address.
WriteEnd(p) ==
  /\ At(p, "write")
  /\ left[p] = 0 \/ (readopen /\ ~killed[p] /\ ~Full)
  /\ Wakeup("nread")
  /\ Return(p)
  /\ UNCHANGED <<ring, ends, holds, killed>>

-----------------------------------------------------------------------------
(* piperead() *)

BeginRead(p) ==
  \E n \in 1 .. MaxN :
    /\ pc[p] = "user" /\ ~killed[p] /\ "r" \in holds[p]
    /\ left' = [left EXCEPT ![p] = n]
    /\ Goto(p, "read")
    /\ UNCHANGED <<ring, ends, lock, holds, chan, killed>>

\* A read that has not taken the lock yet, or sleeps, waits while there is
\* nothing; once it has started to copy (lock = p) it does not.
MustWait(p) == lock # p /\ Empty /\ writeopen

ReadRefused(p) ==
  /\ At(p, "read") /\ MustWait(p) /\ killed[p]
  /\ Return(p)
  /\ UNCHANGED <<ring, ends, holds, chan, killed>>

ReadEmpty(p) ==
  /\ At(p, "read") /\ MustWait(p) /\ ~killed[p]
  /\ lock' = p
  /\ Goto(p, "readSleep")
  /\ UNCHANGED <<ring, ends, holds, left, chan, killed>>

ReadSleep(p) ==
  /\ At(p, "readSleep")
  /\ chan' = [chan EXCEPT ![p] = "nread"]
  /\ lock' = Nobody
  /\ Goto(p, "read")
  /\ UNCHANGED <<ring, ends, holds, left, killed>>

ReadByte(p) ==
  /\ At(p, "read") /\ ~MustWait(p) /\ left[p] > 0 /\ ~Empty
  /\ nread' = (nread + 1) % Wrap
  /\ left' = [left EXCEPT ![p] = @ - 1]
  /\ lock' = p
  /\ UNCHANGED <<data, nwrite, ends, holds, pc, chan, killed>>

\* copyout() fails: the byte has left the pipe and reaches nobody.
ReadFault(p) ==
  /\ At(p, "read") /\ ~MustWait(p) /\ left[p] > 0 /\ ~Empty
  /\ nread' = (nread + 1) % Wrap
  /\ Wakeup("nwrite")
  /\ Return(p)
  /\ UNCHANGED <<data, nwrite, ends, holds, killed>>

ReadEnd(p) ==
  /\ At(p, "read") /\ ~MustWait(p)
  /\ left[p] = 0 \/ Empty
  /\ Wakeup("nwrite")
  /\ Return(p)
  /\ UNCHANGED <<ring, ends, holds, killed>>

-----------------------------------------------------------------------------
(* File descriptors: fork(), close(), exit(), kill() *)

Fork(p, q) ==
  /\ pc[p] = "user" /\ ~killed[p] /\ holds[p] # {} /\ pc[q] = "unborn"
  /\ holds' = [holds EXCEPT ![q] = holds[p]]
  /\ Goto(q, "user")
  /\ UNCHANGED <<ring, ends, lock, left, chan, killed>>

LastHolder(p, e) == \A q \in Proc \ {p} : e \notin holds[q]

\* fileclose(), called by close() or by the exit() of p, which makes p close
\* what it has open: the last reference to a file goes on to pipeclose().
Close(p, e) ==
  /\ pc[p] = "user" /\ e \in holds[p]
  /\ holds' = [holds EXCEPT ![p] = @ \ {e}]
  /\ IF LastHolder(p, e)
       THEN Goto(p, IF e = "r" THEN "closeR" ELSE "closeW")
       ELSE UNCHANGED pc
  /\ UNCHANGED <<ring, ends, lock, left, chan, killed>>

\* Mutant of PipeClose: the other end is not told.
PipeCloseQuietly(p) ==
  /\ pc[p] \in Closing /\ lock = Nobody
  /\ readopen' = (readopen /\ pc[p] # "closeR")
  /\ writeopen' = (writeopen /\ pc[p] # "closeW")
  /\ allocated' = (readopen' \/ writeopen')
  /\ Goto(p, "user")
  /\ UNCHANGED <<ring, lock, holds, left, chan, killed>>

\* pipeclose()
PipeClose(p) ==
  /\ pc[p] \in Closing /\ lock = Nobody
  /\ readopen' = (readopen /\ pc[p] # "closeR")
  /\ writeopen' = (writeopen /\ pc[p] # "closeW")
  /\ Wakeup(IF pc[p] = "closeW" THEN "nread" ELSE "nwrite")
  /\ allocated' = (readopen' \/ writeopen')
  /\ Goto(p, "user")
  /\ UNCHANGED <<ring, lock, holds, left, killed>>

Kill(p) ==
  /\ Cardinality({q \in Proc : killed[q]}) < MaxKills
  /\ pc[p] # "unborn" /\ ~killed[p]
  /\ killed' = [killed EXCEPT ![p] = TRUE]
  /\ chan' = [chan EXCEPT ![p] = "none"]
  /\ UNCHANGED <<ring, ends, lock, holds, pc, left>>

-----------------------------------------------------------------------------
InPipe(p) ==
  \/ WriteRefused(p) \/ WriteFull(p) \/ WriteSleep(p) \/ WriteByte(p) \/ WriteEnd(p)
  \/ ReadRefused(p) \/ ReadEmpty(p) \/ ReadSleep(p) \/ ReadByte(p) \/ ReadFault(p)
  \/ ReadEnd(p) \/ PipeClose(p)

Programs(p) ==
  \/ BeginWrite(p) \/ BeginRead(p) \/ Kill(p)
  \/ \E q \in Proc : Fork(p, q)
  \/ \E e \in Ends : Close(p, e)

Next == \E p \in Proc : InPipe(p) \/ Programs(p)

Spec == Init /\ [][Next]_vars

-----------------------------------------------------------------------------
(* Properties *)

\* No call ever touches a pipe whose page pipeclose() has given back, although
\* the two ends are closed by different processes at any time (pipe.c:69).
NoUseAfterFree ==
  \A p \in Proc : pc[p] \in InCall \cup Closing => allocated

\* Nobody sleeps on what has already happened: outside the lock a sleeping
\* reader finds the pipe empty and its other end open, a sleeping writer finds
\* it full.  The exception is a write cut short by a kill (pipe.c:84), which
\* returns without the wakeup it owes.
NoMissedWakeup ==
  lock = Nobody =>
    \A p \in Proc :
      /\ chan[p] = "nread" => writeopen /\ (Empty \/ \E q \in Proc : killed[q])
      /\ chan[p] = "nwrite" => readopen /\ Full

\* What the ring holds, oldest byte first.
Contents ==
  [i \in 1 .. (nwrite + Wrap - nread) % Wrap |-> data[(nread + i - 1) % PipeSize]]
=============================================================================
