------------------------------- MODULE XvBuf -------------------------------
(***************************************************************************)
(* The xv6 buffer cache (kernel/bio.c) and its sleep-locks                 *)
(* (kernel/sleeplock.c), under the discipline of log.c: a changed block is *)
(* pinned until it is written home, possibly by another process.  What     *)
(* bcache.lock or lk->lk covers is one step.                               *)
(***************************************************************************)
EXTENDS Naturals, FiniteSets, SequencesExt

CONSTANTS
  Proc,
  Buf,      \* the NBUF buffers
  Block,    \* block numbers of the disk
  Value,    \* what a block may hold
  None,
  MaxPins   \* blocks a transaction of the log may pin (LOGSIZE)

NoneAssumption == None \notin Proc \cup Buf \cup Block

\* NBUF is large enough for what is pinned and what every process uses.
RoomAssumption ==
  /\ IsFiniteSet(Proc) /\ IsFiniteSet(Buf) /\ MaxPins \in Nat /\ Value # {}
  /\ MaxPins + Cardinality(Proc) <= Cardinality(Buf)

VARIABLES
  lru,                    \* the list from head.next, most recently used first
  blockno, valid, refcnt, data,
  owner,                  \* who has the buffer's sleep-lock
  logged,                 \* buffers log_write() has pinned
  disk,
  pc, want, buf,          \* the call of a process, its block, its buffer
  asleep,                 \* processes that sleep on their buffer's lock
  latest                  \* history: what was last stored in each block

cache == <<lru, blockno, valid, refcnt, data, owner, logged>>
vars == <<cache, disk, pc, want, buf, asleep, latest>>

Labels == {"user", "acquire", "read", "hold", "unref"}

TypeOK ==
  /\ Len(lru) = Cardinality(Buf) /\ ToSet(lru) = Buf
  /\ blockno \in [Buf -> Block \cup {None}] /\ valid \in [Buf -> BOOLEAN]
  /\ refcnt \in [Buf -> Nat] /\ owner \in [Buf -> Proc \cup {None}]
  /\ data \in [Buf -> Value] /\ disk \in [Block -> Value] /\ latest \in [Block -> Value]
  /\ pc \in [Proc -> Labels] /\ want \in [Proc -> Block \cup {None}]
  /\ buf \in [Proc -> Buf \cup {None}] /\ asleep \subseteq Proc /\ logged \subseteq Buf

AnyValue == CHOOSE v \in Value : TRUE

\* binit()
Init ==
  /\ lru = SetToSeq(Buf)
  /\ blockno = [b \in Buf |-> None] /\ valid = [b \in Buf |-> FALSE]
  /\ refcnt = [b \in Buf |-> 0] /\ owner = [b \in Buf |-> None]
  /\ data = [b \in Buf |-> AnyValue] /\ logged = {}
  /\ disk = [n \in Block |-> AnyValue] /\ latest = disk
  /\ pc = [p \in Proc |-> "user"] /\ want = [p \in Proc |-> None]
  /\ buf = [p \in Proc |-> None] /\ asleep = {}

Goto(p, l) == pc' = [pc EXCEPT ![p] = l]

-----------------------------------------------------------------------------
(* bget() and bread() *)

Cached(n) == {b \in Buf : blockno[b] = n}
Unused == {k \in 1 .. Len(lru) : refcnt[lru[k]] = 0}

Use(p, b, n) ==
  /\ want' = [want EXCEPT ![p] = n] /\ buf' = [buf EXCEPT ![p] = b]
  /\ refcnt' = [refcnt EXCEPT ![b] = @ + 1]
  /\ Goto(p, "acquire")

GetCached(p, n) ==
  \E b \in Cached(n) :
    /\ pc[p] = "user"
    /\ Use(p, b, n)
    /\ UNCHANGED <<lru, blockno, valid, data, owner, logged, disk, asleep, latest>>

\* Mutant of Recycle: the old block's content passes for the new one's.
RecycleStale(p, n) ==
  \E k \in Unused :
    /\ pc[p] = "user" /\ Cached(n) = {} /\ \A j \in Unused : j <= k
    /\ Use(p, lru[k], n)
    /\ blockno' = [blockno EXCEPT ![lru[k]] = n]
    /\ UNCHANGED <<lru, valid, data, owner, logged, disk, asleep, latest>>

\* The least recently used buffer without a reference is taken.
Recycle(p, n) ==
  \E k \in Unused :
    /\ pc[p] = "user" /\ Cached(n) = {} /\ \A j \in Unused : j <= k
    /\ Use(p, lru[k], n)
    /\ blockno' = [blockno EXCEPT ![lru[k]] = n]
    /\ valid' = [valid EXCEPT ![lru[k]] = FALSE]
    /\ UNCHANGED <<lru, data, owner, logged, disk, asleep, latest>>

\* acquiresleep()
Acquire(p) ==
  LET b == buf[p] IN
  /\ pc[p] = "acquire" /\ p \notin asleep
  /\ IF owner[b] = None
       THEN /\ owner' = [owner EXCEPT ![b] = p]
            /\ Goto(p, IF valid[b] THEN "hold" ELSE "read")
            /\ UNCHANGED asleep
       ELSE /\ asleep' = asleep \cup {p}
            /\ UNCHANGED <<owner, pc>>
  /\ UNCHANGED <<lru, blockno, valid, refcnt, data, logged, disk, want, buf, latest>>

\* virtio_disk_rw() has returned.
DiskRead(p) ==
  LET b == buf[p] IN
  /\ pc[p] = "read"
  /\ data' = [data EXCEPT ![b] = disk[blockno[b]]]
  /\ valid' = [valid EXCEPT ![b] = TRUE]
  /\ Goto(p, "hold")
  /\ UNCHANGED <<lru, blockno, refcnt, owner, logged, disk, want, buf, asleep, latest>>

-----------------------------------------------------------------------------
(* What the holder of a buffer does *)

\* log_write() after a change: bpin() unless the block is in the log already.
Store(p, v) ==
  LET b == buf[p] IN
  /\ pc[p] = "hold"
  /\ b \in logged \/ Cardinality(logged) < MaxPins
  /\ data' = [data EXCEPT ![b] = v]
  /\ latest' = [latest EXCEPT ![want[p]] = v]
  /\ logged' = logged \cup {b}
  /\ refcnt' = [refcnt EXCEPT ![b] = @ + (IF b \in logged THEN 0 ELSE 1)]
  /\ UNCHANGED <<lru, blockno, valid, owner, disk, pc, want, buf, asleep>>

\* install_trans(): bwrite() and bunpin().
WriteHome(p) ==
  LET b == buf[p] IN
  /\ pc[p] = "hold" /\ b \in logged
  /\ disk' = [disk EXCEPT ![blockno[b]] = data[b]]
  /\ logged' = logged \ {b}
  /\ refcnt' = [refcnt EXCEPT ![b] = @ - 1]
  /\ UNCHANGED <<lru, blockno, valid, data, owner, pc, want, buf, asleep, latest>>

-----------------------------------------------------------------------------
(* brelse() *)

\* releasesleep() wakes everybody who waits for the lock.
ReleaseSleep(p) ==
  LET b == buf[p] IN
  /\ pc[p] = "hold"
  /\ owner' = [owner EXCEPT ![b] = None]
  /\ asleep' = {q \in asleep : buf[q] # b}
  /\ Goto(p, "unref")
  /\ UNCHANGED <<lru, blockno, valid, refcnt, data, logged, disk, want, buf, latest>>

Unref(p) ==
  LET b == buf[p] IN
  /\ pc[p] = "unref"
  /\ refcnt' = [refcnt EXCEPT ![b] = @ - 1]
  /\ \E k \in 1 .. Len(lru) :
       lru[k] = b /\ lru' = IF refcnt[b] = 1 THEN <<b>> \o RemoveAt(lru, k) ELSE lru
  /\ want' = [want EXCEPT ![p] = None] /\ buf' = [buf EXCEPT ![p] = None]
  /\ Goto(p, "user")
  /\ UNCHANGED <<blockno, valid, data, owner, logged, disk, asleep, latest>>

-----------------------------------------------------------------------------
Next ==
  \E p \in Proc :
    \/ Acquire(p) \/ DiskRead(p) \/ WriteHome(p) \/ ReleaseSleep(p) \/ Unref(p)
    \/ \E n \in Block : GetCached(p, n) \/ Recycle(p, n)
    \/ \E v \in Value : Store(p, v)

Spec == Init /\ [][Next]_vars

-----------------------------------------------------------------------------
(* Properties *)

\* "A synchronization point for disk blocks used by multiple processes"
\* (bio.c:6): who holds a buffer holds it alone, it is the only copy of its
\* block, and it shows what was last stored there, through any number of
\* evictions, pins and hand-overs in between.
ReadsSeeStores ==
  /\ \A n \in Block : Cardinality(Cached(n)) <= 1
  /\ \A p \in Proc : pc[p] = "hold" =>
       /\ owner[buf[p]] = p /\ blockno[buf[p]] = want[p]
       /\ data[buf[p]] = latest[want[p]]

\* A buffer has a reference for everybody who holds it, waits for it or is on
\* the way to give it up, and one for the log (bio.c:128); with that, who calls
\* bget() finds the block or a buffer to recycle, and never panics (bio.c:88).
BuffersCounted ==
  /\ \A b \in Buf :
       refcnt[b] = Cardinality({p \in Proc : buf[p] = b}) + (IF b \in logged THEN 1 ELSE 0)
  /\ (\E p \in Proc : pc[p] = "user") => Unused # {}

\* Nobody sleeps for a sleep-lock that is free (sleeplock.c:26).
NoLostWakeup == \A p \in asleep : owner[buf[p]] # None

=============================================================================
