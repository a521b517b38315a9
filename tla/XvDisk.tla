------------------------------ MODULE XvDisk ------------------------------
(***************************************************************************)
(* The virtio disk driver of xv6 (kernel/virtio_disk.c) and the device it  *)
(* shares the descriptors, the avail ring and the used ring with.  Each    *)
(* process transfers a buffer of its own, whose sleep-lock it holds.  The  *)
(* driver gives vdisk_lock up only in sleep() and at the return, so what   *)
(* it does between two sleeps is one step; the device takes no lock.  An   *)
(* entry of a ring that the other side has read is dead: it becomes None.  *)
(***************************************************************************)
EXTENDS Naturals, FiniteSets

CONSTANTS
  Proc,
  Num,    \* NUM descriptors and ring entries
  Wrap,   \* the ring indices are counted modulo this (2^16 in the code)
  None

NumAssumption ==
  /\ Num \in Nat /\ Num >= 3 /\ Wrap \in Nat /\ Wrap % Num = 0 /\ Wrap > Num
  /\ None \notin Proc \cup Nat

VARIABLES
  free,                    \* the descriptors that are free
  next,                    \* desc[i].next, None without VRING_DESC_F_NEXT
  info,                    \* head of a chain -> the process whose buffer it is
  avail, availIdx,         \* ring of heads for the device, and its index
  used, usedIdxDev,        \* ring of heads that are done, the device's index
  usedIdx,                 \* how far the driver has looked
  taken, inDevice,         \* the device: how far it has read, what it works on
  pc, idx, busy,           \* of a process: where it is, its chain, b->disk
  moved                    \* history: the device has moved this buffer's data

rings == <<avail, availIdx, used, usedIdxDev, usedIdx>>
device == <<taken, inDevice>>
vars == <<free, next, info, rings, device, pc, idx, busy, moved>>

Desc == 0 .. Num - 1
Counter == 0 .. Wrap - 1
Maybe(S) == S \cup {None}

TypeOK ==
  /\ free \subseteq Desc /\ next \in [Desc -> Maybe(Desc)] /\ info \in [Desc -> Maybe(Proc)]
  /\ avail \in [Desc -> Maybe(Desc)] /\ used \in [Desc -> Maybe(Desc)]
  /\ {availIdx, usedIdxDev, usedIdx, taken} \subseteq Counter /\ inDevice \subseteq Desc
  /\ pc \in [Proc -> {"user", "begin", "noDesc", "wait", "woken"}]
  /\ idx \in [Proc -> Maybe(Desc)]
  /\ busy \in [Proc -> BOOLEAN] /\ moved \in [Proc -> BOOLEAN]

Init ==
  /\ free = Desc
  /\ next = [d \in Desc |-> None] /\ info = [d \in Desc |-> None]
  /\ avail = [d \in Desc |-> None] /\ availIdx = 0
  /\ used = [d \in Desc |-> None] /\ usedIdxDev = 0 /\ usedIdx = 0
  /\ taken = 0 /\ inDevice = {}
  /\ pc = [p \in Proc |-> "user"] /\ idx = [p \in Proc |-> None]
  /\ busy = [p \in Proc |-> FALSE] /\ moved = [p \in Proc |-> FALSE]

-----------------------------------------------------------------------------
(* virtio_disk_rw() *)

Call(p) ==
  /\ pc[p] = "user"
  /\ pc' = [pc EXCEPT ![p] = "begin"]
  /\ UNCHANGED <<free, next, info, rings, device, idx, busy, moved>>

\* wakeup(&disk.free[0])
WakeForDesc == [q \in Proc |-> IF pc[q] = "noDesc" THEN "begin" ELSE pc[q]]

\* alloc3_desc() fails; it has freed what it had got, which wakes the others
\* that wait for descriptors.
NoDescriptors(p) ==
  /\ pc[p] = "begin" /\ Cardinality(free) < 3
  /\ pc' = [IF free = {} THEN pc ELSE WakeForDesc EXCEPT ![p] = "noDesc"]
  /\ UNCHANGED <<free, next, info, rings, device, idx, busy, moved>>

\* A chain of the first three that are free is formatted and offered; p
\* sleeps on its buffer.
Submit(p) ==
  \E d0, d1, d2 \in free :
    /\ pc[p] = "begin"
    /\ d0 < d1 /\ d1 < d2 /\ \A d \in free \ {d0, d1, d2} : d2 < d
    /\ free' = free \ {d0, d1, d2}
    /\ next' = [next EXCEPT ![d0] = d1, ![d1] = d2, ![d2] = None]
    /\ info' = [info EXCEPT ![d0] = p]
    /\ avail' = [avail EXCEPT ![availIdx % Num] = d0]
    /\ availIdx' = (availIdx + 1) % Wrap
    /\ idx' = [idx EXCEPT ![p] = d0]
    /\ busy' = [busy EXCEPT ![p] = TRUE]
    /\ moved' = [moved EXCEPT ![p] = FALSE]
    /\ pc' = [pc EXCEPT ![p] = "wait"]
    /\ UNCHANGED <<used, usedIdxDev, usedIdx, device>>

\* kill() wakes a sleeping process; its loop looks again and sleeps.
Killed(p) ==
  /\ pc[p] \in {"wait", "noDesc"}
  /\ pc' = [pc EXCEPT ![p] = IF pc[p] = "wait" THEN "woken" ELSE "begin"]
  /\ UNCHANGED <<free, next, info, rings, device, idx, busy, moved>>

SleepAgain(p) ==
  /\ pc[p] = "woken" /\ busy[p]
  /\ pc' = [pc EXCEPT ![p] = "wait"]
  /\ UNCHANGED <<free, next, info, rings, device, idx, busy, moved>>

\* free_chain() follows next.
Chain(d) ==
  {d} \cup (IF next[d] = None THEN {}
            ELSE {next[d]} \cup (IF next[next[d]] = None THEN {} ELSE {next[next[d]]}))

\* Mutant of Finish: only the head of the chain is freed.
FinishHead(p) ==
  /\ pc[p] = "woken" /\ ~busy[p]
  /\ info' = [info EXCEPT ![idx[p]] = None]
  /\ free' = free \cup {idx[p]}
  /\ next' = [next EXCEPT ![idx[p]] = None]
  /\ pc' = [WakeForDesc EXCEPT ![p] = "user"]
  /\ idx' = [idx EXCEPT ![p] = None]
  /\ UNCHANGED <<rings, device, busy, moved>>

Finish(p) ==
  /\ pc[p] = "woken" /\ ~busy[p]
  /\ info' = [info EXCEPT ![idx[p]] = None]
  /\ free' = free \cup Chain(idx[p])
  /\ next' = [d \in Desc |-> IF d \in Chain(idx[p]) THEN None ELSE next[d]]
  /\ pc' = [WakeForDesc EXCEPT ![p] = "user"]
  /\ idx' = [idx EXCEPT ![p] = None]
  /\ UNCHANGED <<rings, device, busy, moved>>

-----------------------------------------------------------------------------
(* The device, and the interrupt it raises when it has finished something *)

DeviceTakes ==
  /\ taken # availIdx
  /\ inDevice' = inDevice \cup {avail[taken % Num]}
  /\ taken' = (taken + 1) % Wrap
  /\ avail' = [avail EXCEPT ![taken % Num] = None]
  /\ UNCHANGED <<free, next, info, availIdx, used, usedIdxDev, usedIdx, pc, idx, busy, moved>>

\* In any order.
DeviceFinishes(d) ==
  /\ d \in inDevice
  /\ inDevice' = inDevice \ {d}
  /\ moved' = [moved EXCEPT ![info[d]] = TRUE]
  /\ used' = [used EXCEPT ![usedIdxDev % Num] = d]
  /\ usedIdxDev' = (usedIdxDev + 1) % Wrap
  /\ UNCHANGED <<free, next, info, avail, availIdx, usedIdx, taken, pc, idx, busy>>

\* One turn of virtio_disk_intr()'s loop; the device may add entries meanwhile.
Interrupt ==
  LET d == used[usedIdx % Num] IN
  /\ usedIdx # usedIdxDev
  /\ busy' = [busy EXCEPT ![info[d]] = FALSE]
  /\ pc' = [pc EXCEPT ![info[d]] = "woken"]
  /\ usedIdx' = (usedIdx + 1) % Wrap
  /\ used' = [used EXCEPT ![usedIdx % Num] = None]
  /\ UNCHANGED <<free, next, info, avail, availIdx, usedIdxDev, device, idx, moved>>

-----------------------------------------------------------------------------
Next ==
  \/ \E p \in Proc :
       \/ Call(p) \/ NoDescriptors(p) \/ Submit(p) \/ Killed(p) \/ SleepAgain(p) \/ Finish(p)
  \/ DeviceTakes \/ Interrupt
  \/ \E d \in Desc : DeviceFinishes(d)

Spec == Init /\ [][Next]_vars

-----------------------------------------------------------------------------
(* Properties *)

\* Every descriptor is free or belongs to the chain of one request under way:
\* free_desc() never panics (virtio_disk.c:161) and none is lost, although
\* requests end in any order; so who finds no descriptor always waits for a
\* request that is still to end.
DescriptorsConserved ==
  LET heads == {idx[p] : p \in Proc} \ {None} IN
  /\ Desc \ free = UNION {Chain(d) : d \in heads}
  /\ Cardinality(Desc \ free) = 3 * Cardinality({p \in Proc : idx[p] # None})
  /\ \A p \in Proc : pc[p] = "noDesc" => Cardinality(free) < 3 \/ \E q \in Proc : pc[q] = "begin"

\* virtio_disk_rw() returns when the device has moved the data of this very
\* request, and a process that sleeps on its buffer has a request under way.
DoneMeansMoved ==
  \A p \in Proc :
    /\ pc[p] = "woken" /\ ~busy[p] => moved[p]
    /\ pc[p] = "wait" => busy[p] /\ info[idx[p]] = p
=============================================================================
