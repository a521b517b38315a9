------------------------------ MODULE XvCounts ------------------------------
(***************************************************************************)
(* The system call counts of xv6 (syscall_count of a process, for one of   *)
(* the calls): syscall() counts, wait() adds what a child has counted to   *)
(* its parent, allocproc() starts again from zero.                         *)
(***************************************************************************)
EXTENDS Naturals, Totals

CONSTANTS
  NProc,
  MaxCalls,  \* bound: calls that are counted
  MaxAgain   \* bound: counts that are added a second time

CountsAssumption == NProc \in Nat \ {0} /\ MaxCalls \in Nat /\ MaxAgain \in Nat

VARIABLES
  state, parent, count,
  calls,    \* calls that were made
  again,    \* of these, counted once more by a wait() after one that failed
  dropped   \* counts of children that waitx() has waited for

vars == <<state, parent, count, calls, again, dropped>>

Slot == 1 .. NProc
InitProc == 1

TypeOK ==
  /\ state \in [Slot -> {"unused", "alive", "zombie"}]
  /\ parent \in [Slot -> Slot]
  /\ count \in [Slot -> 0 .. (MaxCalls + MaxAgain)]
  /\ calls \in 0 .. MaxCalls /\ again \in 0 .. MaxAgain /\ dropped \in 0 .. (MaxCalls + MaxAgain)

Init ==
  /\ state = [s \in Slot |-> IF s = InitProc THEN "alive" ELSE "unused"]
  /\ parent = [s \in Slot |-> InitProc]
  /\ count = [s \in Slot |-> 0]
  /\ calls = 0 /\ again = 0 /\ dropped = 0

\* syscall()
Syscall(s) ==
  /\ state[s] = "alive" /\ calls < MaxCalls
  /\ count' = [count EXCEPT ![s] = @ + 1]
  /\ calls' = calls + 1
  /\ UNCHANGED <<state, parent, again, dropped>>

Fork(s, child) ==
  /\ state[s] = "alive" /\ state[child] = "unused"
  /\ state' = [state EXCEPT ![child] = "alive"]
  /\ parent' = [parent EXCEPT ![child] = s]
  /\ count' = [count EXCEPT ![child] = 0]
  /\ UNCHANGED <<calls, again, dropped>>

Exit(s) ==
  /\ state[s] = "alive" /\ s # InitProc
  /\ state' = [state EXCEPT ![s] = "zombie"]
  /\ parent' = [c \in Slot |-> IF parent[c] = s THEN InitProc ELSE parent[c]]
  /\ UNCHANGED <<count, calls, again, dropped>>

Child(s, child) == state[s] = "alive" /\ state[child] = "zombie" /\ parent[child] = s

\* freeproc() leaves the counts in the slot.
Wait(s, child) ==
  /\ Child(s, child)
  /\ count' = [count EXCEPT ![s] = @ + count[child]]
  /\ state' = [state EXCEPT ![child] = "unused"]
  /\ UNCHANGED <<parent, calls, again, dropped>>

\* copyout() of the status fails, when the counts have been added.
WaitFails(s, child) ==
  /\ Child(s, child) /\ again + count[child] <= MaxAgain
  /\ count' = [count EXCEPT ![s] = @ + count[child]]
  /\ again' = again + count[child]
  /\ UNCHANGED <<state, parent, calls, dropped>>

\* waitx() adds nothing.
WaitX(s, child) ==
  /\ Child(s, child)
  /\ dropped' = dropped + count[child]
  /\ state' = [state EXCEPT ![child] = "unused"]
  /\ UNCHANGED <<parent, count, calls, again>>

Next ==
  \E s \in Slot :
    \/ Syscall(s) \/ Exit(s)
    \/ \E child \in Slot : \/ Fork(s, child) \/ Wait(s, child)
                           \/ WaitFails(s, child) \/ WaitX(s, child)

Spec == Init /\ [][Next]_vars

-----------------------------------------------------------------------------
\* Through forks, exits, orphans and the reuse of slots, every call that was made
\* is in the count of exactly one process that has not been waited for
\* (proc.c:157, 451; syscall.c:150), but for the children of waitx() and for
\* the counts that wait() has added although it failed (proc.c:451-460).
CountsRollUp ==
  Total(count, {s \in Slot : state[s] # "unused"}) + dropped = calls + again
=============================================================================
