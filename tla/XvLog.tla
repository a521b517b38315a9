-------------------------------- MODULE XvLog --------------------------------
(***************************************************************************)
(* kernel/log.c and the part of kernel/bio.c it relies on: write-ahead     *)
(* logging with group commit, and recovery after a crash.                  *)
(*                                                                         *)
(* The disk is the home blocks, the log blocks and the header block; one   *)
(* virtio_disk_rw() writes one of them, a step, since its caller sleeps    *)
(* until the device is done.  cache[b] is what bread(b) returns; a buffer  *)
(* nobody has pinned may be recycled at any time and is then read again.   *)
(* A system call holds the buffer from its bread() to its log_write(), so  *)
(* modifying a block and logging it is one step.  A block's content is the *)
(* name of the system call that wrote it last.                             *)
(***************************************************************************)
EXTENDS Naturals, Sequences, FiniteSets

CONSTANTS Op,          \* the file system calls
          Block,
          Blank,       \* the content of a block nobody has written
          MAXOPBLOCKS, \* what begin_op() reserves per system call
          LOGSIZE,     \* 3 * MAXOPBLOCKS in the code
          OpBlocks,    \* how many blocks a system call does write
          MaxCrashes   \* bounds the power failures of a behaviour

ASSUME LogAssumption ==
  /\ IsFiniteSet(Op) /\ Blank \notin Op
  /\ MAXOPBLOCKS \in Nat \ {0} /\ LOGSIZE \in Nat /\ LOGSIZE > MAXOPBLOCKS
  /\ OpBlocks \in Nat /\ OpBlocks < MAXOPBLOCKS
  /\ MaxCrashes \in Nat

Content == Op \cup {Blank}

(* initlog(): the log area holds sb.nlog = LOGSIZE blocks, the first is    *)
(* the header (mkfs.c:25).                                                 *)
Capacity == LOGSIZE - 1
Slot == 1..Capacity

VARIABLES pc,          \* pc[o]: where system call o is
          wrote,       \* wrote[o]: the blocks it has logged
          outstanding, \* log.outstanding
          committing,  \* log.committing
          lh,          \* log.lh.block[0 .. log.lh.n - 1]
          stage,       \* where commit() or recover_from_log() is
          recovering,
          tail,        \* the loop variable of write_log() and install_trans()
          cache, pinned,
          home, logged, head,  \* the disk
          crashes

calls == <<pc, wrote, outstanding>>
disk == <<home, logged, head>>
vars == <<calls, committing, lh, stage, recovering, tail, cache, pinned, disk, crashes>>

InOp == {o \in Op : pc[o] = "in"}
Logged == {lh[i] : i \in DOMAIN lh}

Init ==
  /\ pc = [o \in Op |-> "begin"]
  /\ wrote = [o \in Op |-> {}]
  /\ outstanding = 0
  /\ committing = FALSE
  /\ lh = <<>>
  /\ stage = "idle"
  /\ recovering = FALSE
  /\ tail = 1
  /\ home = [b \in Block |-> Blank]
  /\ cache = home
  /\ pinned = {}
  /\ logged = [i \in Slot |-> Blank]
  /\ head = <<>>
  /\ crashes = 0

-----------------------------------------------------------------------------
(* Variants with one slip each: a reservation that ignores the calls in    *)
(* progress, a begin_op() that does not count, a log_write() that does not *)
(* pin, a commit that does not wait for the others, an end_op() that wakes *)
(* nobody.                                                                 *)
FitsAlone == Len(lh) + MAXOPBLOCKS <= LOGSIZE

BeginOpUncounted(o) ==
  /\ pc[o] = "begin"
  /\ ~recovering
  /\ Len(lh) + (outstanding + 1) * MAXOPBLOCKS <= LOGSIZE
  /\ pc' = [pc EXCEPT ![o] = "in"]
  /\ UNCHANGED <<wrote, outstanding, committing, lh, stage, recovering, tail, cache, pinned,
                 disk, crashes>>

PinNothing(b) == pinned

AnyOp == TRUE

WakeNobody(f) == f

(* begin_op(): another system call is sure to fit in the log.              *)
Fits == Len(lh) + (outstanding + 1) * MAXOPBLOCKS <= LOGSIZE

(* bpin() of the buffer of a block that is new in the log.                 *)
Pin(b) == pinned \cup {b}

(* end_op() of the last system call in progress.                           *)
LastOp == outstanding = 1

(* wakeup(&log).                                                           *)
WakeAll(f) == [o \in Op |-> IF f[o] = "asleep" THEN "begin" ELSE f[o]]

-----------------------------------------------------------------------------
BeginOp(o) ==
  /\ pc[o] = "begin"
  /\ ~recovering
  /\ IF committing \/ ~Fits
     THEN /\ pc' = [pc EXCEPT ![o] = "asleep"]
          /\ UNCHANGED outstanding
     ELSE /\ pc' = [pc EXCEPT ![o] = "in"]
          /\ outstanding' = outstanding + 1
  /\ UNCHANGED <<wrote, committing, lh, stage, recovering, tail, cache, pinned, disk, crashes>>

(* bread(), a change of the block, log_write().                            *)
LogWrite(o, b) ==
  /\ pc[o] = "in"
  /\ Cardinality(wrote[o] \cup {b}) <= OpBlocks
  /\ Len(lh) < Capacity                     \* else panic, line 220
  /\ wrote' = [wrote EXCEPT ![o] = @ \cup {b}]
  /\ cache' = [cache EXCEPT ![b] = o]
  /\ IF b \in Logged
     THEN UNCHANGED <<lh, pinned>>
     ELSE lh' = Append(lh, b) /\ pinned' = Pin(b)
  /\ UNCHANGED <<pc, outstanding, committing, stage, recovering, tail, disk, crashes>>

EndOp(o) ==
  /\ pc[o] = "in"
  /\ outstanding' = outstanding - 1
  /\ IF LastOp
     THEN /\ pc' = [pc EXCEPT ![o] = "done"]
          /\ committing' = TRUE
          /\ stage' = IF lh = <<>> THEN "finish" ELSE "writeLog"
     ELSE /\ pc' = WakeAll([pc EXCEPT ![o] = "done"])
          /\ UNCHANGED <<committing, stage>>
  /\ wrote' = [wrote EXCEPT ![o] = {}]
  /\ tail' = 1
  /\ UNCHANGED <<lh, recovering, cache, pinned, disk, crashes>>

-----------------------------------------------------------------------------
(* write_log(), a block a step; write_head(), the commit; install_trans(); *)
(* and write_head() with no blocks, which erases the transaction.          *)
WriteLog ==
  /\ stage = "writeLog"
  /\ logged' = [logged EXCEPT ![tail] = cache[lh[tail]]]
  /\ IF tail < Len(lh) THEN tail' = tail + 1 /\ UNCHANGED stage
                       ELSE tail' = 1 /\ stage' = "writeHead"
  /\ UNCHANGED <<calls, committing, lh, recovering, cache, pinned, home, head, crashes>>

WriteHead ==
  /\ stage = "writeHead"
  /\ head' = lh
  /\ stage' = "install"
  /\ UNCHANGED <<calls, committing, lh, recovering, tail, cache, pinned, home, logged, crashes>>

Install ==
  /\ stage = "install"
  /\ IF tail <= Len(lh)
     THEN LET b == lh[tail] IN
            /\ cache' = [cache EXCEPT ![b] = logged[tail]]
            /\ home' = [home EXCEPT ![b] = logged[tail]]
            /\ pinned' = IF recovering THEN pinned ELSE pinned \ {b}
            /\ tail' = tail + 1
            /\ UNCHANGED <<lh, stage>>
     ELSE /\ lh' = <<>>
          /\ stage' = "erase"
          /\ tail' = 1
          /\ UNCHANGED <<cache, home, pinned>>
  /\ UNCHANGED <<calls, committing, recovering, logged, head, crashes>>

EraseHead ==
  /\ stage = "erase"
  /\ head' = lh
  /\ stage' = IF recovering THEN "idle" ELSE "finish"
  /\ recovering' = FALSE
  /\ UNCHANGED <<calls, committing, lh, tail, cache, pinned, home, logged, crashes>>

(* end_op(), after commit().                                               *)
FinishCommit ==
  /\ stage = "finish"
  /\ committing' = FALSE
  /\ pc' = WakeAll(pc)
  /\ stage' = "idle"
  /\ UNCHANGED <<wrote, outstanding, lh, recovering, tail, cache, pinned, disk, crashes>>

-----------------------------------------------------------------------------
(* bget() recycles a buffer that nobody uses.                              *)
Recycle(b) ==
  /\ b \notin pinned
  /\ cache' = [cache EXCEPT ![b] = home[b]]
  /\ UNCHANGED <<calls, committing, lh, stage, recovering, tail, pinned, disk, crashes>>

(* Power fails; the disk keeps what was written.  The programs whose calls *)
(* had not returned issue them again.                                      *)
Crash ==
  /\ crashes < MaxCrashes
  /\ crashes' = crashes + 1
  /\ pc' = [o \in Op |-> IF pc[o] = "done" THEN "done" ELSE "begin"]
  /\ wrote' = [o \in Op |-> {}]
  /\ outstanding' = 0
  /\ committing' = FALSE
  /\ lh' = <<>>
  /\ stage' = "boot"
  /\ recovering' = TRUE
  /\ tail' = 1
  /\ cache' = home
  /\ pinned' = {}
  /\ UNCHANGED disk

(* recover_from_log(): read_head(), then install_trans(1) and write_head().*)
ReadHead ==
  /\ stage = "boot"
  /\ lh' = head
  /\ stage' = "install"
  /\ UNCHANGED <<calls, committing, recovering, tail, cache, pinned, disk, crashes>>

-----------------------------------------------------------------------------
Commit == WriteLog \/ WriteHead \/ Install \/ EraseHead \/ FinishCommit \/ ReadHead

Done == (\A o \in Op : pc[o] = "done") /\ stage = "idle" /\ UNCHANGED vars

Next ==
  \/ \E o \in Op : BeginOp(o) \/ EndOp(o) \/ \E b \in Block : LogWrite(o, b)
  \/ Commit
  \/ \E b \in Block : Recycle(b)
  \/ Crash
  \/ Done

Spec == Init /\ [][Next]_vars

(* A system call that is not asleep goes on and ends, and the disk answers.*)
Fairness ==
  /\ \A o \in Op : WF_vars(BeginOp(o)) /\ WF_vars(EndOp(o))
  /\ WF_vars(Commit)

FairSpec == Spec /\ Fairness

-----------------------------------------------------------------------------
(* What recovery would make of the disk as it is.                          *)
Recovered ==
  [b \in Block |-> IF \E i \in DOMAIN head : head[i] = b
                   THEN logged[CHOOSE i \in DOMAIN head : head[i] = b]
                   ELSE home[b]]

Atomic == INSTANCE AtomicDisk WITH
            durable <- Recovered,
            current <- IF recovering THEN Recovered ELSE cache,
            active <- InOp

TypeOK ==
  /\ pc \in [Op -> {"begin", "asleep", "in", "done"}]
  /\ wrote \in [Op -> SUBSET Block]
  /\ outstanding \in Nat
  /\ committing \in BOOLEAN
  /\ lh \in Seq(Block) /\ Len(lh) <= Capacity
  /\ stage \in {"idle", "writeLog", "writeHead", "install", "erase", "finish", "boot"}
  /\ recovering \in BOOLEAN
  /\ tail \in 1..LOGSIZE
  /\ cache \in [Block -> Content]
  /\ pinned \subseteq Block
  /\ home \in [Block -> Content]
  /\ logged \in [Slot -> Content]
  /\ head \in Seq(Block) /\ Len(head) <= Capacity
  /\ crashes \in 0..MaxCrashes

(* log_write() never panics with "too big a transaction" (log.c:220),      *)
(* although the log holds one block less than begin_op() counts with and   *)
(* the test comes before absorption: there is room whenever a system call  *)
(* is in progress.                                                         *)
RoomInLog == InOp # {} => Len(lh) < Capacity

(* A commit writes nobody's unfinished updates: it starts when no system   *)
(* call is in progress and none begins before it is over, so end_op()      *)
(* never panics with "log.committing" (log.c:13-16, 130, 153).             *)
CommitAlone == committing => InOp = {} /\ outstanding = 0

(* log.c implements an atomic disk across crashes at any point of a commit *)
(* or of a recovery.                                                       *)
AtomicDisk == Atomic!Spec

(* Every file system call is let in and returns: no sleep in begin_op() is *)
(* for ever (log.c:129-140, 159, 173).                                     *)
CallsReturn == \A o \in Op : <>(pc[o] = "done")
=============================================================================
