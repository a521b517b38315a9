----------------------------- MODULE XvMemory -----------------------------
(***************************************************************************)
(* Physical pages of xv6 (kernel/kalloc.c) and the calls that allocate and *)
(* free them: allocproc(), fork(), exit() and wait() of kernel/proc.c,     *)
(* exec() of kernel/exec.c and sbrk(), over the page tables of kernel/vm.c. *)
(*                                                                         *)
(* Every kalloc() is a step, for it may fail, and other processes allocate *)
(* meanwhile.  The pages that a failing or ending call gives back, it      *)
(* gives back in one step.  A page table is three levels deep; here its    *)
(* root has one table below it for the trampoline and the trapframe and    *)
(* one for the memory of the program.  Which page is which does not        *)
(* matter, so pages are counted: one that is given back twice would make   *)
(* free and used pages more than there are.                                *)
(***************************************************************************)
EXTENDS Naturals, Totals

CONSTANTS
  Proc,      \* slots of the process table
  First,     \* the process that runs at the start
  NumPages,  \* pages of memory
  MaxSize    \* bound: the largest program, in pages

FirstAssumption == IsFiniteSet(Proc) /\ First \in Proc
SizeAssumption == NumPages \in Nat /\ NumPages >= 6 /\ MaxSize \in Nat \ {0}

VARIABLES
  free,           \* length of kmem.freelist
  state,          \* of a slot; "stuck" is USED with its lock held for ever
  trapframe, original,  \* 1 if it has the page for it
  image,          \* pages of its page table and of its memory
  pc,             \* where the call of a process is
  kid,            \* the slot that its fork() fills
  new,            \* the image that its exec() builds
  goal,           \* pages of memory that its call is to reach
  base,           \* pages of memory it had when sbrk() began
  mem             \* 1 if it has a page that is not mapped yet

slots == <<state, trapframe, original, image>>
locals == <<kid, new, goal, base, mem>>
vars == <<free, slots, pc, locals>>

NoImage == [tables |-> 0, user |-> 0]
Image == [tables : 0 .. 3, user : 0 .. MaxSize]
Building == {"forkRoot", "forkHigh", "execRoot", "execHigh"}
Growing == {"fork", "grow", "exec"}
Labels == {"user", "forkTf", "forkOriginal", "panic"} \cup Building \cup Growing

TypeOK ==
  /\ free \in 0 .. NumPages
  /\ state \in [Proc -> {"unused", "used", "alive", "zombie", "stuck"}]
  /\ trapframe \in [Proc -> 0 .. 1] /\ original \in [Proc -> 0 .. 1]
  /\ image \in [Proc -> Image] /\ new \in [Proc -> Image]
  /\ pc \in [Proc -> Labels] /\ kid \in [Proc -> Proc]
  /\ goal \in [Proc -> 0 .. MaxSize] /\ base \in [Proc -> 0 .. MaxSize]
  /\ mem \in [Proc -> 0 .. 1]

\* userinit()
Init ==
  /\ free = NumPages - 6
  /\ state = [p \in Proc |-> IF p = First THEN "alive" ELSE "unused"]
  /\ trapframe = [p \in Proc |-> IF p = First THEN 1 ELSE 0]
  /\ original = trapframe
  /\ image = [p \in Proc |-> IF p = First THEN [tables |-> 3, user |-> 1] ELSE NoImage]
  /\ pc = [p \in Proc |-> "user"] /\ kid = [p \in Proc |-> p]
  /\ new = [p \in Proc |-> NoImage]
  /\ goal = [p \in Proc |-> 0] /\ base = [p \in Proc |-> 0] /\ mem = [p \in Proc |-> 0]

Calls(p) == state[p] = "alive" /\ pc[p] = "user"
Goto(p, l) == pc' = [pc EXCEPT ![p] = l]
Return(p) ==
  /\ Goto(p, "user")
  /\ goal' = [goal EXCEPT ![p] = 0] /\ base' = [base EXCEPT ![p] = 0]

-----------------------------------------------------------------------------
(* kalloc() and kfree() *)

Out == free = 0
Take == free > 0 /\ free' = free - 1
Give(n) == free' = free + n
Size(i) == i.tables + i.user

\* The slot that fork() fills becomes free again: freeproc(), which gives
\* back the trapframe and what the page table holds.
FreeProc(q) ==
  /\ state' = [state EXCEPT ![q] = "unused"]
  /\ trapframe' = [trapframe EXCEPT ![q] = 0]
  /\ image' = [image EXCEPT ![q] = NoImage]
  /\ Give(trapframe[q] + Size(image[q]))

-----------------------------------------------------------------------------
(* allocproc() *)

Fork(p, q) ==
  /\ Calls(p) /\ state[q] = "unused"
  /\ state' = [state EXCEPT ![q] = "used"]
  /\ kid' = [kid EXCEPT ![p] = q]
  /\ Goto(p, "forkTf")
  /\ UNCHANGED <<free, trapframe, original, image, new, goal, base, mem>>

\* kalloc() fails, before there is a page table or while there is one to free.
ForkFails(p) ==
  /\ pc[p] \in {"forkTf", "forkRoot", "forkHigh"} /\ Out
  /\ FreeProc(kid[p])
  /\ Goto(p, "user")
  /\ UNCHANGED <<original, locals>>

AllocTrapframe(p) ==
  /\ pc[p] = "forkTf" /\ Take
  /\ trapframe' = [trapframe EXCEPT ![kid[p]] = 1]
  /\ Goto(p, "forkRoot")
  /\ UNCHANGED <<state, original, image, locals>>

\* proc_pagetable() for fork() or exec(): the root, then the table below it
\* that maps trampoline and trapframe.
PageTable(p) ==
  /\ pc[p] \in Building /\ Take
  /\ IF pc[p] \in {"forkRoot", "forkHigh"}
       THEN image' = [image EXCEPT ![kid[p]].tables = @ + 1] /\ UNCHANGED new
       ELSE new' = [new EXCEPT ![p].tables = @ + 1] /\ UNCHANGED image
  /\ Goto(p, CASE pc[p] = "forkRoot" -> "forkHigh"
               [] pc[p] = "forkHigh" -> "forkOriginal"
               [] pc[p] = "execRoot" -> "execHigh"
               [] pc[p] = "execHigh" -> "exec")
  /\ UNCHANGED <<state, trapframe, original, kid, goal, base, mem>>

AllocOriginal(p) ==
  /\ pc[p] = "forkOriginal" /\ Take
  /\ original' = [original EXCEPT ![kid[p]] = 1]
  /\ goal' = [goal EXCEPT ![p] = image[p].user]
  /\ Goto(p, "fork")
  /\ UNCHANGED <<state, trapframe, image, kid, new, base, mem>>

\* The last kalloc() fails: allocproc() returns 0 with the lock of the slot
\* held and nothing undone; whoever scans the table next hangs or panics.
OriginalFails(p) ==
  /\ pc[p] = "forkOriginal" /\ Out
  /\ state' = [state EXCEPT ![kid[p]] = "stuck"]
  /\ Goto(p, "panic")
  /\ UNCHANGED <<free, trapframe, original, image, locals>>

-----------------------------------------------------------------------------
(* uvmalloc() for sbrk() and exec(), uvmcopy() for fork() *)

Target(p) ==
  CASE pc[p] = "fork" -> image[kid[p]] [] pc[p] = "grow" -> image[p] [] pc[p] = "exec" -> new[p]

Retarget(p, i) ==
  IF pc[p] = "exec"
    THEN new' = [new EXCEPT ![p] = i] /\ UNCHANGED image
    ELSE image' = [image EXCEPT ![IF pc[p] = "fork" THEN kid[p] ELSE p] = i] /\ UNCHANGED new

More(p) == pc[p] \in Growing /\ Target(p).user < goal[p]

GetPage(p) ==
  /\ More(p) /\ mem[p] = 0 /\ Take
  /\ mem' = [mem EXCEPT ![p] = 1]
  /\ UNCHANGED <<slots, pc, kid, new, goal, base>>

\* mappages(), which may need a page-table page first.
MapPage(p) ==
  LET i == Target(p) IN
  /\ More(p) /\ mem[p] # 0
  /\ \/ /\ i.tables = 2 /\ Take
        /\ Retarget(p, [i EXCEPT !.tables = 3])
        /\ UNCHANGED mem
     \/ /\ i.tables = 3
        /\ Retarget(p, [i EXCEPT !.user = @ + 1])
        /\ mem' = [mem EXCEPT ![p] = 0]
        /\ UNCHANGED free
  /\ UNCHANGED <<state, trapframe, original, pc, kid, goal, base>>

\* One of them fails: everything is given back, in sbrk() what is new.
NoMemory(p) == Out /\ More(p) /\ (mem[p] = 0 \/ Target(p).tables = 2)

CopyFails(p) ==
  /\ pc[p] = "fork" /\ NoMemory(p)
  /\ state' = [state EXCEPT ![kid[p]] = "unused"]
  /\ trapframe' = [trapframe EXCEPT ![kid[p]] = 0]
  /\ image' = [image EXCEPT ![kid[p]] = NoImage]
  /\ Give(mem[p] + trapframe[kid[p]] + Size(image[kid[p]]))
  /\ mem' = [mem EXCEPT ![p] = 0]
  /\ Return(p)
  /\ UNCHANGED <<original, kid, new>>

ForkDone(p) ==
  /\ pc[p] = "fork" /\ ~More(p)
  /\ state' = [state EXCEPT ![kid[p]] = "alive"]
  /\ Return(p)
  /\ UNCHANGED <<free, trapframe, original, image, kid, new, mem>>

-----------------------------------------------------------------------------
(* sbrk(): growproc() *)

Grow(p, n) ==
  /\ Calls(p) /\ n > image[p].user
  /\ goal' = [goal EXCEPT ![p] = n]
  /\ base' = [base EXCEPT ![p] = image[p].user]
  /\ Goto(p, "grow")
  /\ UNCHANGED <<free, slots, kid, new, mem>>

GrowFails(p) ==
  /\ pc[p] = "grow" /\ NoMemory(p)
  /\ image' = [image EXCEPT ![p].user = base[p]]
  /\ Give(mem[p] + image[p].user - base[p])
  /\ mem' = [mem EXCEPT ![p] = 0]
  /\ Return(p)
  /\ UNCHANGED <<state, trapframe, original, kid, new>>

GrowDone(p) ==
  /\ pc[p] = "grow" /\ ~More(p)
  /\ Return(p)
  /\ UNCHANGED <<free, slots, kid, new, mem>>

Shrink(p, n) ==
  /\ Calls(p) /\ n < image[p].user
  /\ image' = [image EXCEPT ![p].user = n]
  /\ Give(image[p].user - n)
  /\ UNCHANGED <<state, trapframe, original, pc, locals>>

-----------------------------------------------------------------------------
(* exec() *)

Exec(p, n) ==
  /\ Calls(p)
  /\ goal' = [goal EXCEPT ![p] = n]
  /\ Goto(p, "execRoot")
  /\ UNCHANGED <<free, slots, kid, new, base, mem>>

\* "bad": no memory, or a file that cannot be read or arguments that do not
\* fit, at any point after the page table is there.
ExecFails(p) ==
  /\ \/ pc[p] \in {"execRoot", "execHigh"} /\ Out
     \/ pc[p] = "exec" /\ (NoMemory(p) \/ mem[p] = 0)
  /\ Give(mem[p] + Size(new[p]))
  /\ mem' = [mem EXCEPT ![p] = 0] /\ new' = [new EXCEPT ![p] = NoImage]
  /\ Return(p)
  /\ UNCHANGED <<slots, kid>>

\* "Commit to the user image", then the old one is freed.
ExecDone(p) ==
  /\ pc[p] = "exec" /\ ~More(p)
  /\ image' = [image EXCEPT ![p] = new[p]]
  /\ Give(Size(image[p]))
  /\ new' = [new EXCEPT ![p] = NoImage]
  /\ Return(p)
  /\ UNCHANGED <<state, trapframe, original, kid, mem>>

-----------------------------------------------------------------------------
(* exit() and wait() *)

\* The pointer to the page that exit() frees stays.
Exit(p) ==
  /\ Calls(p) /\ p # First
  /\ state' = [state EXCEPT ![p] = "zombie"]
  /\ Give(original[p])
  /\ UNCHANGED <<trapframe, original, image, pc, locals>>

Reap(p, q) ==
  /\ Calls(p) /\ q # p /\ state[q] = "zombie"
  /\ FreeProc(q)
  /\ UNCHANGED <<original, pc, locals>>

-----------------------------------------------------------------------------
Next ==
  \E p \in Proc :
    \/ ForkFails(p) \/ AllocTrapframe(p) \/ PageTable(p) \/ AllocOriginal(p) \/ OriginalFails(p)
    \/ GetPage(p) \/ MapPage(p) \/ CopyFails(p) \/ ForkDone(p)
    \/ GrowFails(p) \/ GrowDone(p) \/ ExecFails(p) \/ ExecDone(p) \/ Exit(p)
    \/ \E q \in Proc : Fork(p, q) \/ Reap(p, q)
    \/ \E n \in 0 .. MaxSize : Grow(p, n) \/ Shrink(p, n) \/ (n > 0 /\ Exec(p, n))

Spec == Init /\ [][Next]_vars

-----------------------------------------------------------------------------
(* Properties *)

\* The pointer to original_trapframe is good from fork() to exit().
HasOriginal(q) == state[q] = "alive" \/ \E p \in Proc : pc[p] = "fork" /\ kid[p] = q

\* The pages that a slot or a call uses.
Uses ==
  [q \in Proc |-> trapframe[q] + Size(image[q]) + Size(new[q]) + mem[q]
                  + (IF HasOriginal(q) THEN original[q] ELSE 0)]
InUse == Total(Uses, Proc)

\* No page is free while it is used, or free twice: whatever runs out in the
\* middle of fork(), exec() or sbrk(), and whoever runs meanwhile.
PagesFreedOnce == free + InUse <= NumPages
=============================================================================
