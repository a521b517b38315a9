------------------------------- MODULE XvSched -------------------------------
(***************************************************************************)
(* kernel/proc.c, scheduler(): which process runs next, for the three      *)
(* builds: round robin (RR), SCHEDULER=LBS and SCHEDULER=MLFQ.             *)
(*                                                                         *)
(* The table is proc[0..NPROC-1] in index order, here 1..N.  A scheduler   *)
(* walks it one p->lock at a time, so processes wake up and other CPUs     *)
(* schedule between two slots of a scan: each slot is a step.  A process   *)
(* that leaves its CPU keeps p->lock until scheduler() has done its        *)
(* accounting, which makes SwitchOut one step; the lottery keeps the lock  *)
(* of the process it has selected so far while it examines the others.     *)
(*                                                                         *)
(* The processes are given: fork and exit are XvProc's subject, and a      *)
(* child starts with the values of Init.  arrival_time only breaks ties    *)
(* between equal tickets, so on a tie either process may be selected.      *)
(***************************************************************************)
EXTENDS Integers

CONSTANTS N,           \* NPROC
          CPU,
          Builds,      \* the schedulers to consider
          Blocking,    \* the processes that sleep at times; the others compute
          BoostTicks,  \* boost_ticks, 48 in the code
          Slice,       \* the time slices of the queues 0..3: 1, 4, 8, 16
          MaxTickets   \* bounds what settickets() is asked for

ASSUME SchedAssumption ==
  /\ N \in Nat \ {0}
  /\ Builds \subseteq {"RR", "LBS", "MLFQ"}
  /\ Blocking \subseteq 1..N
  /\ BoostTicks \in Nat \ {0}
  /\ Slice \in [0..3 -> Nat \ {0}]
  /\ MaxTickets \in Nat \ {0}

Proc == 1..N
None == 0

VARIABLES build,      \* the SCHEDULER of this kernel
          state,      \* p->state
          priority,   \* p->priority
          slices,     \* p->time_slices
          tickets,    \* p->tickets
          boost,      \* boost[c]: ticks_since_last_boost of c's scheduler()
          loop        \* loop[c]: where c's scheduler() is, and its locals

vars == <<build, state, priority, slices, tickets, boost, loop>>
queues == <<priority, slices>>

(* A scan of the table: slot pos is next, for queue `level' in MLFQ; count *)
(* is total_tickets while counting them and winning_ticket - ticket_counter*)
(* while looking for the winner; selected is selected_proc, or the process *)
(* c has switched to.                                                      *)
Walk(where, pos, count, selected) ==
  [at |-> where, pos |-> pos, level |-> 0, count |-> count, selected |-> selected]

Scan(where) == Walk(where, 1, 0, None)

At(c, where) == loop[c].at = where
Go(c, where) == loop' = [loop EXCEPT ![c] = Scan(where)]

(* On to the next slot, or to `where' after the last one.                  *)
Advance(c, where) ==
  IF loop[c].pos = N THEN Go(c, where)
                     ELSE loop' = [loop EXCEPT ![c].pos = @ + 1]

Runnable(p) == state[p] = "RUNNABLE"
Running(c) == loop[c].at \in {"runRR", "runLBS", "runMLFQ"}

(* Variants with one slip each: a lottery that drops the lock of its best  *)
(* candidate, a boost that leaves everybody where he is.                   *)
LockedNever(p) == FALSE

BoostNobody(c) ==
  /\ At(c, "boost")
  /\ Advance(c, "pick")
  /\ boost' = IF loop[c].pos = N THEN [boost EXCEPT ![c] = 0] ELSE boost
  /\ UNCHANGED <<build, state, priority, slices, tickets>>

(* if (ticks_since_last_boost >= boost_ticks).                             *)
BoostDue(c) == boost[c] >= BoostTicks

(* p->lock is held across steps by a lottery that has selected p.          *)
Locked(p) == \E c \in CPU : At(c, "draw") /\ loop[c].selected = p

Init ==
  /\ build \in Builds
  /\ \E S \in SUBSET Blocking :
       state = [p \in Proc |-> IF p \in S THEN "SLEEPING" ELSE "RUNNABLE"]
  /\ priority = [p \in Proc |-> 0]
  /\ slices = [p \in Proc |-> Slice[0]]
  /\ tickets = [p \in Proc |-> 1]
  /\ boost = [c \in CPU |-> 0]
  /\ loop = [c \in CPU |-> Scan("top")]

-----------------------------------------------------------------------------
(* One turn of for (;;).                                                   *)
Begin(c) ==
  /\ At(c, "top")
  /\ Go(c, CASE build = "RR" -> "rr"
             [] build = "LBS" -> "count"
             [] build = "MLFQ" -> IF BoostDue(c) THEN "boost" ELSE "pick")
  /\ UNCHANGED <<build, state, queues, tickets, boost>>

(* swtch() to p: c leaves its scheduler until p gives the CPU up.          *)
SwitchTo(c, p, where) ==
  /\ state' = [state EXCEPT ![p] = "RUNNING"]
  /\ loop' = [loop EXCEPT ![c] = Walk(where, @.pos, 0, p)]
  /\ UNCHANGED <<build, queues, tickets, boost>>

(* The time slice of a process that comes off its CPU, for whatever        *)
(* reason, and its demotion when the slice is used up.                     *)
Charge(p) ==
  IF slices[p] > 1
  THEN slices' = [slices EXCEPT ![p] = @ - 1] /\ UNCHANGED priority
  ELSE LET q == IF priority[p] < 3 THEN priority[p] + 1 ELSE 3
       IN  priority' = [priority EXCEPT ![p] = q] /\ slices' = [slices EXCEPT ![p] = Slice[q]]

(* The process on c yields at a timer interrupt, or sleeps if it ever      *)
(* does; its scheduler goes on from where it was.                          *)
SwitchOut(c) ==
  /\ Running(c)
  /\ LET p == loop[c].selected IN
       /\ \/ state' = [state EXCEPT ![p] = "RUNNABLE"]
          \/ p \in Blocking /\ state' = [state EXCEPT ![p] = "SLEEPING"]
       /\ \/ /\ At(c, "runRR")
             /\ loop' = [loop EXCEPT ![c] = IF @.pos = N THEN Scan("top")
                                            ELSE Walk("rr", @.pos + 1, 0, None)]
             /\ UNCHANGED <<queues, boost>>
          \/ At(c, "runLBS") /\ Go(c, "rr") /\ UNCHANGED <<queues, boost>>
          \/ /\ At(c, "runMLFQ")
             /\ Go(c, "top")
             /\ Charge(p)
             /\ boost' = [boost EXCEPT ![c] = @ + 1]
  /\ UNCHANGED <<build, tickets>>

-----------------------------------------------------------------------------
(* RR, and the LBS build after every lottery.                              *)
ScanRR(c) ==
  /\ At(c, "rr")
  /\ LET p == loop[c].pos IN
       /\ ~Locked(p)
       /\ IF Runnable(p)
          THEN SwitchTo(c, p, "runRR")
          ELSE Advance(c, "top") /\ UNCHANGED <<build, state, queues, tickets, boost>>

(* LBS: the tickets in the hands of RUNNABLE processes ...                 *)
CountTickets(c) ==
  /\ At(c, "count")
  /\ LET p == loop[c].pos
         total == loop[c].count + (IF Runnable(p) THEN tickets[p] ELSE 0)
     IN  /\ ~Locked(p)
         /\ \/ /\ p < N
               /\ loop' = [loop EXCEPT ![c] = Walk("count", p + 1, total, None)]
            \/ /\ p = N
               /\ \/ total = 0 /\ Go(c, "rr")
                  \/ \E winning \in 1..total :
                       loop' = [loop EXCEPT ![c] = Walk("draw", 1, winning, None)]
  /\ UNCHANGED <<build, state, queues, tickets, boost>>

(* ... and the walk that selects, among the winner and those behind it,    *)
(* one with the most tickets.                                              *)
DrawTicket(c) ==
  /\ At(c, "draw") /\ loop[c].pos <= N
  /\ LET p == loop[c].pos
         best == loop[c].selected
         left == loop[c].count - (IF Runnable(p) THEN tickets[p] ELSE 0)
         eligible == Runnable(p) /\ left <= 0
     IN  /\ ~Locked(p)
         /\ \E selected \in {best, p} :
              /\ ~eligible => selected = best
              /\ eligible /\ best = None => selected = p
              /\ eligible /\ best # None => \A q \in {p, best} : tickets[selected] >= tickets[q]
              /\ loop' = [loop EXCEPT ![c] = Walk("draw", p + 1, left, selected)]
  /\ UNCHANGED <<build, state, queues, tickets, boost>>

RunWinner(c) ==
  /\ At(c, "draw") /\ loop[c].pos > N
  /\ LET p == loop[c].selected IN
       IF p # None /\ Runnable(p)
       THEN SwitchTo(c, p, "runLBS")
       ELSE Go(c, "rr") /\ UNCHANGED <<build, state, queues, tickets, boost>>

-----------------------------------------------------------------------------
(* MLFQ: every RUNNABLE process back to queue 0.                           *)
Boost(c) ==
  /\ At(c, "boost")
  /\ LET p == loop[c].pos IN
       /\ IF Runnable(p)
          THEN /\ priority' = [priority EXCEPT ![p] = 0]
               /\ slices' = [slices EXCEPT ![p] = Slice[0]]
          ELSE UNCHANGED queues
       /\ Advance(c, "pick")
       /\ boost' = IF p = N THEN [boost EXCEPT ![c] = 0] ELSE boost
  /\ UNCHANGED <<build, state, tickets>>

(* The first process of the highest queue; an empty round counts too.      *)
Pick(c) ==
  /\ At(c, "pick")
  /\ LET p == loop[c].pos IN
       IF Runnable(p) /\ priority[p] = loop[c].level
       THEN SwitchTo(c, p, "runMLFQ")
       ELSE /\ \/ p < N /\ Advance(c, "pick") /\ UNCHANGED boost
               \/ /\ p = N /\ loop[c].level < 3
                  /\ loop' = [loop EXCEPT ![c].pos = 1, ![c].level = @ + 1]
                  /\ UNCHANGED boost
               \/ /\ p = N /\ loop[c].level = 3
                  /\ Go(c, "top")
                  /\ boost' = [boost EXCEPT ![c] = @ + 1]
            /\ UNCHANGED <<build, state, queues, tickets>>

-----------------------------------------------------------------------------
(* wakeup() of a sleeping process.                                         *)
Wakeup(p) ==
  /\ state[p] = "SLEEPING"
  /\ state' = [state EXCEPT ![p] = "RUNNABLE"]
  /\ UNCHANGED <<build, queues, tickets, boost, loop>>

(* settickets(n) by the process on c; only the lottery looks at tickets.   *)
SetTickets(c, n) ==
  /\ build = "LBS" /\ Running(c)
  /\ tickets' = [tickets EXCEPT ![loop[c].selected] = n]
  /\ UNCHANGED <<build, state, queues, boost, loop>>

Step(c) ==
  \/ Begin(c) \/ SwitchOut(c) \/ ScanRR(c)
  \/ CountTickets(c) \/ DrawTicket(c) \/ RunWinner(c)
  \/ Boost(c) \/ Pick(c)

Next ==
  \/ \E c \in CPU : Step(c) \/ \E n \in 1..MaxTickets : SetTickets(c, n)
  \/ \E p \in Proc : Wakeup(p)

Spec == Init /\ [][Next]_vars

(* Every CPU goes on: its scheduler loops and the timer interrupts what it *)
(* runs.  Whether a sleeping process is ever woken is not assumed.         *)
FairSpec == Spec /\ \A c \in CPU : WF_vars(Step(c))

-----------------------------------------------------------------------------
(* The scheduler's bookkeeping keeps its shape; in particular a process is *)
(* always in a queue and has between one and a full slice of it left       *)
(* (proc.c:635-657).                                                       *)
TypeOK ==
  /\ build \in Builds
  /\ state \in [Proc -> {"SLEEPING", "RUNNABLE", "RUNNING"}]
  /\ priority \in [Proc -> 0..3]
  /\ \A p \in Proc : slices[p] \in 1..Slice[priority[p]]
  /\ tickets \in [Proc -> 1..MaxTickets]
  /\ boost \in [CPU -> 0..BoostTicks]
  /\ \A c \in CPU : /\ loop[c].pos \in 1..(N + 1)
                    /\ loop[c].level \in 0..3
                    /\ loop[c].count \in Int
                    /\ loop[c].selected \in Proc \cup {None}

(* Two CPUs never run, nor are about to run, the same process, and what a  *)
(* lottery has selected is still RUNNABLE when it is switched to, though   *)
(* the walk visits other slots in between (proc.c:531-574, 669).           *)
SelectedOnce ==
  /\ \A c \in CPU : Running(c) => state[loop[c].selected] = "RUNNING"
  /\ \A c \in CPU : At(c, "draw") /\ loop[c].selected # None => Runnable(loop[c].selected)
  /\ \A c, d \in CPU : loop[c].selected # None /\ loop[c].selected = loop[d].selected => c = d

(* Every process that can run does, under each scheduler, though lotteries *)
(* may be lost for ever and queue 0 may never be empty: because of the     *)
(* round robin after each lottery and because of the boost, as long as     *)
(* BoostTicks rounds are enough to run everybody once ("To prevent         *)
(* starvation", xv6_modifications/README.md:35; proc.c:577-681).           *)
NoStarvation == \A p \in Proc : Runnable(p) ~> state[p] = "RUNNING"
=============================================================================
