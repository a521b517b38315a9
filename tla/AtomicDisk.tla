------------------------------ MODULE AtomicDisk ------------------------------
(***************************************************************************)
(* What log.c promises its callers, "Simple logging that allows concurrent *)
(* FS system calls" (log.c:10-24): the updates of the system calls between *)
(* two moments at which none is in progress reach the disk together or not *)
(* at all, and a crash takes the file system back to the last such moment  *)
(* that was committed.  It does not promise that a system call that has    *)
(* returned survives a crash, while others are still in progress.          *)
(***************************************************************************)
CONSTANTS Op,     \* file system calls; an updated block holds its last writer
          Block,
          Blank   \* the content of a block nobody has written

VARIABLES durable,  \* what a crash now would leave
          current,  \* what system calls read and write
          active    \* the system calls in progress

vars == <<durable, current, active>>

Init ==
  /\ durable = [b \in Block |-> Blank]
  /\ current = durable
  /\ active = {}

Begin(o) ==
  /\ o \notin active
  /\ active' = active \cup {o}
  /\ UNCHANGED <<durable, current>>

Write(o, b) ==
  /\ o \in active
  /\ current' = [current EXCEPT ![b] = o]
  /\ UNCHANGED <<durable, active>>

End(o) ==
  /\ o \in active
  /\ active' = active \ {o}
  /\ UNCHANGED <<durable, current>>

Commit ==
  /\ active = {}
  /\ durable' = current
  /\ UNCHANGED <<current, active>>

Crash ==
  /\ current' = durable
  /\ active' = {}
  /\ UNCHANGED durable

Next ==
  \/ \E o \in Op : Begin(o) \/ End(o) \/ \E b \in Block : Write(o, b)
  \/ Commit \/ Crash

Spec == Init /\ [][Next]_vars
=============================================================================
