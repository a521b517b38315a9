# Shell_POSIX-Core in TLA+

Specifications of the concurrent and failure-prone parts of Shell_POSIX-Core,
checked with TLC on small instances and, for the properties that matter most,
proved with TLAPS for every value of the constants. Paths below are relative to
the repository; line numbers are those of the sources.

## 1. Inventory

The repository holds four programs that share nothing at run time. Section 3 says
which module models which part, section 6 what has no module.

### xv6_modifications: a kernel and two pthread programs

| Part | State | Operations | Hard because |
|---|---|---|---|
| Process life cycle (`kernel/proc.c`) | `proc[]` (state, parent, chan, killed, pid), `wait_lock`, the CPU's current process | `fork exit wait waitx kill sleep wakeup yield sched` | Several CPUs; a process is on a kernel stack while its state already says otherwise; lost wakeups; lock order `wait_lock`, child's lock |
| Schedulers (`scheduler()`, RR / LBS / MLFQ) | priority, slices, tickets of each process; a boost counter per CPU | pick, switch, charge, demote, boost, `settickets` | The table changes between two slots of a scan; the lottery holds a lock over the scan; starvation |
| Time, alarm, system call counts (`trap.c`, `sysproc.c`, `syscall.c`) | `ticks`, rtime/ctime/etime, `ticks_left`, `in_alarm`, counts | `clockintr update_time waitx sigalarm sigreturn getSysCount` | Unlocked reads of `ticks`; a counter that must be exactly 0; roll-up when `copyout` fails |
| Log (`log.c`) over buffer cache (`bio.c`) | in-memory header, outstanding, committing; log area and home blocks on disk; pinned buffers | `begin_op log_write end_op commit recover` | Crashes at any disk write; group commit; a bounded log |
| Buffer cache, sleep locks | LRU list, refcnt, valid | `bget bread bwrite brelse bpin` | Limit NBUF, two processes wanting one block |
| Inodes, directories, files, pipes (`fs.c sysfile.c file.c pipe.c`) | inode table, link counts, file table, pipe rings | `iget ilock iput link unlink create`, `filedup fileclose`, `piperead pipewrite` | Reference counts shared by processes, sleeping producers and consumers |
| Devices (`virtio_disk.c uart.c console.c`) | descriptor ring, output ring, input line | start, interrupt | Interrupt handlers against callers |
| Memory, exec, boot (`vm.c kalloc.c exec.c main.c`) | free list, page tables | `kalloc kfree uvmcopy exec` | Sequential; failure paths |
| LAZY read-write (`concurrency/lazy_read_write.c`) | per file: exists, reader count, writer flag, two mutexes, a condition variable, two semaphores | read, write, delete requests, one thread each | Every early return gives something back; condition variable with several waiters |
| LAZY sort (`concurrency/lazy_sort.c`) | the array, bucket counts | counting sort on 4 threads, parallel merge sort | Chunk boundaries, key overflow, shared counters |

The kernel's parts call each other (a file system call is `begin_op` ... inode
and buffer operations ... `end_op`, each of which may `sleep`), and meet in
`proc[]` and its locks; interrupts call `wakeup`, `yield` and `update_time`.

What makes them correct: one CPU per kernel stack; no lost wakeup; a parent or
init reaps every zombie; runnable processes run; committed transactions survive
a crash and uncommitted ones leave no trace; reference counts match references;
writers exclude each other; every semaphore slot comes back.

### c_shell: an interactive shell

| Part | State | Operations | Hard because |
|---|---|---|---|
| History (`queue.c log.c main.c`) | a ring of 15 commands, the log file | enqueue with eviction, `log`, `log purge`, `log execute n`, load, save | Ring arithmetic; the last command is compared in a slot that may be stale |
| Jobs and signals (`sys.c signals.c activities.c main.c`) | tables of spawned and background processes, foreground pid | fork/exec/wait, SIGCHLD/SIGINT/SIGTSTP handlers, `fg bg ping activities`, pipes | A signal handler that reaps and scans tables while the main loop changes them |
| Directories, bookmarks (`hop.c mark.c`) | current and previous directory, bookmark table | `hop`, `mark` | State changed before `chdir` succeeds |
| Others (`reveal seek calc iman neonate proclore sysinfo`) | none | formatting of what the system reports | |

### networks_tcp_udp: stop-and-wait transport over UDP, and a game

| Part | State | Operations | Hard because |
|---|---|---|---|
| Transport (`tcp_stack_client.c tcp_stack_server.c`) | current chunk; received chunks | send, wait 100 ms, retransmit; store, acknowledge, reassemble | Loss, delay, duplication; the last acknowledgement |
| Game (`server.c client.c`, `server_udp.c client_udp.c`) | board, turn, two connections | move, broadcast, replay | Message boundaries, a client that leaves |

### vfs_network_file_system: naming server, storage servers, clients

| Part | State | Operations | Hard because |
|---|---|---|---|
| Naming server (`naming_server.c efficiency.h`) | registered servers, path hash map, LRU cache | register, READ/WRITE/STAT/STREAM lookups, CREATE, DELETE, COPY, LIST | Threads, a cache and a map that must agree, calls to storage servers half-way through an operation |
| Storage server (`storage_server.c`), client (`client.c`) | file table, files | CREATE DELETE COPY READ WRITE STREAM STAT | Error paths that keep a mutex, forked children that update a copy |

## 2. Plan

The modules, in the order in which they were written. All of them exist.

| Step | Modules | Abstract specification |
|---|---|---|
| 1 | `LazyReadWrite`, `LazyReadWriteProofs` | |
| 2 | `XvProc`, `XvProcProofs` | |
| 3 | `XvSched` (`MCXvSched` gives it its slices), with `XvProc` in `MCXvProcess`; `XvProcProofs` is about both | |
| 4 | `XvLog`, `XvLogProofs` | `AtomicDisk` |
| 5 | `VfsNames` (`MCVfsNames` gives it its paths), `NamesProofs` | `NameDirectory` |
| 6 | `XvInodes XvBlocks XvBuf XvFiles XvPipe`, checked through `MCXvStorage`; `XvStorageProofs` | `ByteStream` (pipe) |
| 7 | `XvDisk XvUart XvConsole XvMemory XvTime XvAlarm XvCounts`, through `MCXvMachine` (`Totals`: sums as cardinalities); `XvMachineProofs` | `LineInput` (console) |
| 8 | `Game UdpTransport ShellHistory ShellJobs ShellPipeline ShellDirs VfsStorage LazySort`, through `MCPrograms`; `ProgramsProofs` | `CommandHistory` (history) |

`CountingLemmas` has what several proofs need: remainders and wrapping counters,
totals, and the two inductions of section 4.

What could follow: one module that puts `XvFiles` over `XvInodes` over `XvLog`, whose
product is beyond TLC at bounds where something happens; the naming server's threads
and sockets.

## 3. What is modelled

The comment at the head of each module says what a step is there and why no other
actor can see the middle of it; the comment of each action names its function.
`PROJECT.json` maps every definition to the lines it models.

### How several modules are checked at once

The parts of the kernel below the system calls, and the user programs, are small
and many. Each of `MCXvProcess` (steps 2 and 3), `MCXvStorage`, `MCXvMachine` and
`MCPrograms` checks several of them side by side: the variable `part`, which only
the initial state chooses, says which one runs, `Next` is the next-state relation of that part, and the
variables that a part does not have are 0. A property of such a run is a
conjunction with one conjunct per part, named for what the parts have in common
(references, wakeups, pools, accounts). The assumptions of all parts are the
`ASSUME` of the module. What the parts do to each other is therefore not
checked; where one relies on another, the interface is in its actions (a caller
of `XvInodes` is inside a transaction, a caller of `XvDisk` holds its buffer).

### LazyReadWrite

`pc[u]` is the statement thread `u` of `process_request()` is about to execute;
`exists readCount isWriting` are the file's fields; `lock deleteLock` hold the
owner of a mutex; `accessLimit writeLimit` are the semaphores' values. A critical
section that cannot block is one step taken when its mutex is free. The clock is
not a variable: each comparison with `max_wait_time` may go either way. The
reader's second comparison (line 119) uses the time the first has just accepted
and cannot fail, so it has no branch. `pthread_cond_signal` moves one waiter,
and waiters may also wake up by themselves, as POSIX allows.

*Properties.* `WriterExclusion`, `ReadersCounted` (the counter the deleter tests
without `lock` is exact), `SlotsConserved` (no error path loses a semaphore
slot), `NoLostWakeup` (a deleter sleeps only while the file is in use or another
deleter has been woken), `SingleDeleterTermination` (with at most one deleter,
everybody ends). Run `lazy_rw`: 4 threads, `max_concurrency` 2, all mixes of
operations. Two slots make readers, writers and deleters compete for slots;
four threads give two deleters, a reader and a writer at once.

*Fairness.* Threads are scheduled (weak), and mutexes and semaphores that are
free again and again are granted (strong for the two places where a thread waits
for `delete_lock` that others keep taking).

*Finding.* `lazy_rw_deadlock`: with two deleters `NoDeadlock` fails.

### XvProc

`state parent chan killed` are the fields of `proc[]`, `pc` the place a kernel
thread has reached, `child` the `np` of a `fork()`, `cpu[c]` the process whose
kernel stack CPU `c` is on, `waitLock` the owner of `wait_lock`. `p->lock` needs
no variable: it is held across states exactly while a process has left `RUNNING`
and its CPU has not left its stack (`Locked`). Every other use of a `p->lock`
fits in a step. User programs call `fork exit wait kill` and sleeping system
calls in any order; other channels than a parent's are one channel `IO`. Any
`RUNNABLE` process may be dispatched.

*Properties.* `StackOwned` (`proc.c:442`: no reaping while a child is still on
its stack), `NoMissedExit` (no parent sleeps beside a zombie child),
`ParentAlive` (children of an exiting process are handed over), `OrphansReaped`
(under fairness init keeps reaping while it has zombies). Run `xv_process` has 3
processes on 2 CPUs: a child can exit while its parent exits and init waits, on
different CPUs. Run `xv_proc_reap` checks the liveness property on 1 CPU: with
the interleavings of 2 TLC needs more than five minutes, and what it depends on, wakeups
and reparenting between preemptions, is there with 1.

*Fairness.* Stated at `Fairness`: the scheduler dispatches every process that is
runnable again and again (round robin), timer interrupts recur, kernel code goes
on, init calls `wait()` for ever (`user/init.c`). Nothing is assumed of other
user programs.

*Left out.* The failure path of `allocproc()` at 163 (it is in `XvMemory`), and
killing init, which panics the kernel. *Finding.*
`xv_proc_kill_zero`: `kill(0)` marks a free slot.

### XvSched

`loop[c]` is where CPU `c`'s `scheduler()` stands and its locals; each slot of a
scan is a step, since `p->lock` is taken and released per slot, except that the
lottery keeps the lock of its current candidate (`Locked`). `priority slices`,
`tickets`, `boost` are the fields and the per-CPU counter. A process on a CPU
comes off it by preemption or, if in `Blocking`, by sleeping; `Charge` is what
the MLFQ build then does. Tie breaks on arrival time are left open.

*Properties.* `TypeOK` (a process always has between one and a full slice of its
queue left), `SelectedOnce` (two CPUs never run or select the same process), both
in run `xv_process`; `NoStarvation` in run `xv_sched`, which is about liveness only
and therefore has no other part beside it. Both: 3 processes, 2 CPUs, one process
that sleeps, boost interval 3, slices 1, 2, 2, 2: all queues are reached between boosts and
the interval covers one round of all processes. *Fairness*: each CPU's loop goes
on. Nobody promises that a sleeper wakes.

*Finding.* `mlfq_starvation`: with the code's 48 and 50 processes `NoStarvation`
fails.

### XvLog and AtomicDisk

`AtomicDisk` is what callers of `log.c` rely on: updates between two moments
without a system call in progress reach the disk together or not at all.
`XvLog` has the in-memory header `lh`, `outstanding`, `committing`, the `stage`
of a commit or of recovery, the buffer cache (`cache`, `pinned`) and the disk
(`home`, `logged`, `head`). Each block written by `virtio_disk_rw` is a step, a
crash may come between any two, unpinned buffers are recycled at any time. A
block holds the name of its last writer, which is all the properties compare.

*Properties.* `RoomInLog` (the panic at 220 is unreachable), `CommitAlone`,
`AtomicDisk` (refinement: the durable state is what recovery would make of the
disk; the write of the header is the abstract commit), `CallsReturn`. Run
`xv_log`: 4 calls, 3 blocks, a log of 4 (header and 3), reservations of 2, 2
crashes. The log fills up, calls wait for space, blocks are absorbed, and a
crash can hit a recovery. `OpBlocks < MAXOPBLOCKS` is an assumption: the largest
call, `filewrite`, writes fewer blocks than it reserves; without it `log_write`
can panic, because the log has one data block less than `begin_op` counts with.

*Fairness.* A call that is in or may enter goes on, and the disk answers.

### VfsNames and NameDirectory

`handle_client()` of the naming server holds one mutex over a whole request, so
each request is one action; what storage servers answer is chosen (`Replies`).
`hashmap` has the chains, `lru` is the structure `*lruCache`: `head tail size`,
`map` for `cacheMap`, and `node`, whose domain is the set of allocated nodes, so a
use of a freed node is a use outside the domain. `MoveToHead AddToCache Evict
CacheDelete HashmapInsert HashmapDelete` are the functions of `efficiency.h`,
written from a structure to a structure and chained as the handlers chain them; a
loop over paths (`InsertAll`, `AddAll`) or over a chain (`InChain`) is a recursive
function of the number of rounds.
A path is a sequence of names. `content` is the global that makes
`send_command_to_storage_server()` read raw data; `up` is false once the naming
server has followed a bad pointer because `content` was still set.

`NameDirectory` is what the handlers may rely on: several owners per path, the
newest first; a cache that may hold an older owner and forgets it at the latest
when the path is deleted.

*Properties.* `TypeOK` (with it: a draw of an unregistered slot never enters the
map, although the code draws from one slot more than there are), `CacheIsSound`
(next and prev agree from head to tail over all allocated nodes, although a path
may have several; no pointer of `cacheMap` leads to a freed node),
`NameDirectory` (refinement: the cache never names a server that the map does not
list). Run `vfs_names`: a directory `a`, copies of it into itself, two hash values,
a cache of 3 nodes (so nodes leave from the front, the middle and the end), 2
servers, 3 entries in the map (an owner, a copied directory and its file; or a
path entered three times). `VIEW UpToAddresses` identifies states that differ only
in which addresses `malloc` returned; every property speaks of nodes through
pointers only. Deadlock is not checked: a crashed naming server stays down.

### XvInodes, XvBlocks, XvBuf, XvFiles, XvPipe (run `xv_storage`)

`XvInodes`: the inode table (`ref valid locker`), the inodes and directories
(`type nlink entries`; memory is written through before an inode is unlocked, so
one copy stands for both), and for each process the pointers of the call it is in
(`ip dp old`, the `iput()`s to come in `puts`). Calls: `open` (also with
`O_CREATE`), `mkdir`, `link`, `unlink`, `chdir` and the end of an open file, over
`namex`, `create`, `dirlink`, `ialloc`, `iput` with its three steps. Properties
in the run: `RefsCounted` (in `ReferencesCounted`), `NothingDangles` and
`LinksCover` (in `NothingDangles`). *Bounds:* 2 processes, 3 inodes, 2 names,
paths of 2 names: a process can free an inode that the other is on its way to,
`link()` and `create()` can find no inode and no entry. The paths of the run do not
go through `..`: once a directory in use and its parent have been removed, that
entry leads nowhere and `ilock()` panics (see findings).

`XvBlocks`: `bitmap`, `addrs` and `content` of pointer blocks, `size`; phases
`mkfs` and `running`. `write()` is a step per block, with `balloc()` for the data
block and for the pointer block, `itrunc()` a step per pointer. Properties:
`BitmapExact`, `NoHoles`. *Bounds:* 2 files, 4 blocks, 1 direct and 2 indirect
pointers: the disk fills up before and after the pointer block.

`XvBuf`: the list `lru`, `blockno valid refcnt data`, the sleep-locks (`owner`,
`asleep`), pins. `latest` is a history variable. Properties: `ReadsSeeStores`,
`BuffersCounted`, `NoLostWakeup`. *Bounds:* 2 processes, 4 blocks, 3 buffers:
every buffer is recycled, also one that holds valid data.

`XvFiles`: the file table (`ref type`), descriptors, what `fileclose()` releases
after `ftable.lock`. Calls: `open dup close pipe fork exit`, each with its failing
paths. Properties: `FilesCounted`, `ObjectsReleasedOnce`. *Bounds:* 2 processes,
3 files, 2 descriptors: the table and the descriptors both run out, also at the
second file of a pipe.

`XvPipe`: the ring with counters that wrap, the two ends, `pi->lock`, the two
channels, `killed`; processes fork, close, exit and are killed. Properties:
`NoUseAfterFree`, `NoMissedWakeup`, and `PipeIsAStream`: `ByteStream` with the
ring's contents as the stream. `NoMissedWakeup` excepts a write that a kill cuts
short, which owes its readers a wakeup (see findings). *Bounds:* 3 processes, a
ring of 2 and counters that wrap at 4, writes and reads of 2: every write can be
interrupted by a full ring. What matters is that the ring's size divides the
counters' range, as 512 divides 2^32.

### XvDisk, XvUart, XvConsole, XvMemory, XvTime, XvAlarm, XvCounts (run `xv_machine`)

`XvDisk`: descriptors (`free next info`), the avail and used rings, the device,
which ends requests in any order, and processes in `virtio_disk_rw()`. Properties:
`DescriptorsConserved`, `DoneMeansMoved`. *Bounds:* 3 processes, 7 descriptors
(two requests, and one descriptor that is left over: `alloc3_desc()` gives up
half-way), ring indices that wrap at twice the ring.

`XvUart`: the number of waiting characters, the transmit register, its
interrupt, `uart_tx_lock`; `uartputc_sync()` takes the register without the lock.
Property: `OutputMoves`. *Bounds:* 3 writers, a ring of 3.

`XvConsole`: the ring of `cons` with the indices `r w e`, which wrap; the
interrupt that edits, two readers. Properties: `ReadersAwake` and
`ConsoleIsLineInput`: `LineInput`, an editable line behind complete ones, with the
two stretches of the ring. *Bounds:* a ring of 3, indices that wrap at 6, reads of
up to 2: the ring fills up in the middle of a line.

`XvMemory`: pages are counted, not named. A `kalloc()` is a step; `fork`, `exec`,
`sbrk`, `exit`, `wait` give back in one step what they give back. Property:
`PagesFreedOnce`. *Bounds:* 3 processes, 17 pages, programs of up to 2: memory
runs out at every `kalloc()` of every call. Pages may get lost (`freeproc()`
forgets one, see findings), so the property is an inequality.

`XvTime`: `ticks`, the slot that `update_time()` has come to, `ctime rtime etime`,
`sys_sleep()`. Property: `TimesAddUp`, with the one tick that the code can charge
before birth (see findings). *Bounds:* 2 slots, 2 CPUs, 3 ticks.

`XvAlarm`: a process with an alarm; trapframes say whose registers they hold and
how far that code is. Property: `ProgramResumes`, for programs that do not call
`sigalarm()` in a handler, `sigreturn()` elsewhere, or `exec()` in a handler
(`misused`); the interval is kept until a handler runs as long as it (`late`).
*Bounds:* intervals of up to 3, 3 steps, 2 ticks below 0.

`XvCounts`: the count of one system call through `fork exit wait waitx`. Property:
`CountsRollUp`; `again` and `dropped` are history variables for what the code
counts twice and forgets (see findings). *Bounds:* 3 slots (a grandchild can be
orphaned), 4 calls, 2 counted again.

### The user programs (run `programs`)

`Game`: the server's state (`board currentPlayer asked replay1 addr`) and two
clients, over TCP or UDP (`udp`). A server step goes from one `recv()` to the
next. TCP clients read any number of waiting messages at once; datagrams get lost.
Properties: `GameLegal`, `ServerHeard` (with the known ways to get stuck named).
*Bounds:* the real board of 3 by 3, 1 lost datagram, 1 client that leaves.

`UdpTransport`: the client's chunk, the datagrams under way as two sets (a member
can be delivered any number of times, in any order, or dropped), the server's
slots. Property: `Delivered`. *Bounds:* messages of up to 4 chunks for 3 slots
(too long a message is refused). The programs do not handle restarts, so there
are none.

`ShellHistory`: the queue (`items front rear size`), `log_exec` and the file;
sessions start, end and crash. Reading the file (`EnqueueAll`) and the commands of
one line (`RunAll`) are recursive functions of how many have been done.
`HistoryIsAList`: it implements `CommandHistory`, a sequence of the newest lines. *Bounds:* a ring of 3, 2 programs and `exit`.

`ShellJobs`: what the system knows of each pid (`os`), the two tables, the place of
the shell between `fork()` and the end of `waitpid()`, the handler, which is
delivered between any two of these places. Property: `JobsKnown`. *Bounds:* 2 pids,
4 processes: each pid is used again.

`ShellPipeline`: who has which end of which pipe open, what each stage still has
to write. Property: `PipelineMoves`. *Bounds:* 3 stages, pipes of 2, output of up
to 3: an inner stage has a pipe on each side, and may overfill one.

`ShellDirs`: `cwd` is the system's, `currentDir prevDir` are the shell's. `hop` and
`mark` while a directory comes and goes. Property: `FollowsDirectory`. *Bounds:*
three levels of directories, 2 labels, 1 bookmark.

`VfsStorage`: the accept loop with its one `client_socket`, a thread per connection,
descriptors that are used again, the mutex, the table, the disk, the child that a
command waits for. Properties: `LockAccountedFor`, `OwnChildren`, `AnswersGoHome`
(`overrun` is set when `main()` overwrites a socket that was not read). *Bounds:*
3 connections for 2 descriptors, a table of 1, a file under two names and its
directory.

`LazySort`: the counting threads, each of whose reads and writes under the mutex is
a step; `merge_sort()` as a tree of segments, in which the two halves of a long
segment run at once and `merge()` copies before it merges. `FromLeft(l, r)[k]` is
`i` of `merge()` after `k` rounds of its loop, from which the merged entries follow.
The guards of the steps have names (`MayLock`, `MaySplit` ...), and `Runs` says that
one of them holds until there is a result. Properties: `Sorted`, `SegmentsSorted`,
`Runs`. *Bounds:* up to 4 files with a threshold of 3 and threads
for segments of 2: both sorts and both kinds of segments; 2 counting threads; ids
up to one above `MAX_ID`; a time above the `int`.

### Fairness

Only `LazyReadWrite`, `XvProc`, `XvSched` and `XvLog` have liveness properties,
under the fairness stated above; what they rely on is that of a thread, a CPU's
loop or a disk that goes on. `xv_process` and the runs of steps 5 to 8 check safety
only. In their place stand properties that say in every state that whoever waits
waits for one who can still act (`NoMissedWakeup`, `IoMoves`, `NobodyStuck`): a missed wakeup or
a deadlock violates them without an assumption on how processes are scheduled.
Deadlock itself is not checked in these runs, since programs end and processes
that are all asleep for input may stay so.

## 4. What is proved

All proofs are checked by TLAPS for every value of the constants, from the named
assumptions of each module and nothing else. The theorems of modules that a run
reaches through `INSTANCE` state their assumption as a hypothesis.

* `LazyReadWriteProofs`: `TypeCorrect`, `WritersExclude`, `ReadersAreCounted`,
  `SlotsAreConserved`, `WakeupsReachADeleter`, for any finite set of threads and
  any `max_concurrency` > 0. The inductive invariant adds to the properties who
  holds each mutex and semaphore at each `pc`: without it `accessLimit <= max`
  is not preserved by `PostAccess`, nor exclusion by `TakeUpWrite`.
* `XvProcProofs`: `TypeCorrect`, `StacksAreOwned`, `ExitsAreNotMissed`,
  `ParentsAreAlive`, `SelectedAtMostOnce`: all that the run `xv_process` checks.
  * processes, for any table and any CPUs (`LifeInv`): where `wait_lock` is held,
    that a process past its wakeup of its parent holds it, that a sleeping parent's
    children have not reached that point, and that slots a `fork()` is filling are
    nobody's;
  * schedulers, for any table, CPUs, builds, boost interval and slices (`SchedInv`):
    which build a CPU's position belongs to. MLFQ's scan looks at no lock, and two
    CPUs pick different processes only because each slot's `p->lock` makes the test
    and the switch one step and no lottery is in progress in that build.
* `XvLogProofs`: `TypeCorrect`, `CommitsRunAlone`, `ImplementsAtomicDisk`. The
  invariant relates, for each stage, the header on disk, the copied prefix of
  the log, the installed prefix of home blocks and the pinned blocks; the
  refinement step then shows that recovery makes the same of the disk before and
  after every step but the write of the header. `RoomForEveryCall` (`RoomInLog`):
  a call in progress has a credit for each block it reserved and has not logged;
  `Reserved` says that the logged blocks and the credits fit in `LOGSIZE`, with one
  to spare while a single call is in progress: the log was empty when it began, or
  a call that ended gave back a credit. That one is the block the header takes.
  A credit is a pair of a call and a number, so that the sum over the calls is a
  cardinality and needs no induction.
* `NamesProofs`: `NamesTypes` (`TypeOK`), `NamesCache` (`CacheIsSound`), `NamesRefine`
  (`NameDirectory`): all that the run `vfs_names` checks, for any paths, hash, size
  of the table, capacity of the cache and number of servers. The inductive invariant
  (`NamesInv`) is that the chains hold entries for registered servers (`Map`) and
  that the cache is `Sound`: there is an order of all its allocated nodes that `next`
  follows from `head` and `prev` from `tail`, `size` counts them, and `cacheMap`
  points into it, to a node of that hash value or nowhere. One lemma each says what
  moving to the front, adding, evicting and deleting do to that order (`First`,
  `Led`, `Gap`). For the refinement a request is summed up in what it does to the
  owners of each path and to the answers of the cache (`Entered`, `Deleted`): the
  owners of one path grow in front or lose their newest, and the cache learns what
  the map says or forgets.
* `XvMachineProofs`: `TypesKept` (`TypeOK`), `InputAndOutputMove` (`IoMoves`),
  `NothingIsLost` (`PoolsConserved`), `AccountsAddUp` (`AccountsKept`),
  `TheConsoleIsALineInput` (`ConsoleIsLineInput`): all that the run `xv_machine`
  checks. The invariant of each part:
  * disk: the descriptors of a process in `virtio_disk_rw()`, of a request under way
    and of a chain that is being freed are three disjoint sets, the rest is free;
    what the used ring holds and the device has not returned are the requests whose
    owners sleep; both rings are as long as the requests under way;
  * UART and console: who holds the lock, that a transmitter that is idle has an
    empty ring or a holder about to fill it; the editable line lies between the
    indices, `r` to `w` to `e`, less than a ring apart, modulo their range;
  * memory: pages in use are the sum over the processes of what each has and is
    taking. The sum is the cardinality of the set of pairs of a process and a number
    (`Total`), which changes with one or two members (`TotalChanges`, `TotalOfTwo`);
  * times: what `update_time()` has charged up to its slot, and that its slot's tick
    is the one outstanding; alarm: which frame holds whose registers; counts: the
    same `Total` over a parent's children.
* `XvStorageProofs`: `NobodySleepsForNothing` (`NoMissedWakeup`), `BuffersShowStores`
  (`ReadsSeeStores`), `APipeIsAStream` (`PipeIsAStream`), `EveryBlockHasOneFile`
  (`BlocksExact`), `ReferencesAreCounted` (`ReferencesCounted`), `NothingIsDangling`
  (`NothingDangles`), `TypesKept` (`TypeOK`): all that the run `xv_storage` checks.
  * inodes: `ref` is the sum over the processes of the pointers of each (`Claims`).
    The step in which `iput()` gives up `itable.lock` with the last reference in hand
    (`fs.c:347`) is safe because nobody can get a second one meanwhile (`InodePuts`,
    `FreedIsNobodys`): `iget()` is only called for an inode that the caller can reach
    (`Near`), by a name, by its current directory or as the root, and one without
    links is none of these. That needs a bound on links from below, and the bound that
    is inductive is more than what is checked: names, directories in it, calls of
    `link()` under way and being the root, together at most `nlink` (`Linked`). A call
    that holds a directory's lock over a second `ilock()` finds the entry as it left it
    and a new inode in no other hands (`InodeCaller`); that a step of one process
    leaves all this true of the others follows from what a step may change
    (`Moves`, `OthersKeep`), so that each action is only about the process that takes it.
  * pipes: which end is open for whom while a call or a close is under way, that
    calls under way hold their end, and which wakeups the holder of `pi->lock` still
    owes: a reader may sleep beside a full pipe as long as the writer that filled it
    has not left its loop. For the refinement of `ByteStream`: `nwrite` is `nread` and
    a number of bytes ahead, modulo their range; that `PIPESIZE` divides the range
    is what keeps slot `nread % PIPESIZE` the same byte when the counter wraps;
  * buffers: each buffer is once in the list; a block is in one buffer; a process
    between `bget()` and `brelse()` has counted itself; a block that is not pinned is
    on disk as it was last stored; `refcnt` counts users and pins. With fewer pins
    and users than buffers one has `refcnt` 0 (a pigeonhole over the list): the panic
    of `bio.c:89` is unreachable.
  * open files (`FilesCounted`, `ObjectsReleasedOnce`): `ref` of a file is the sum over
    the processes of the descriptors that hold it and of the references in hand in a
    system call (`FileCounted`); each open end of a pipe and each reference to an inode
    belongs to one file that is in use or to one process that has taken it and not yet
    made it a file (`EndsCounted`, `InodesCounted`). They are kept because a free file
    has no type (`FreeIsUntyped`: `fileclose()` clears it under `ftable.lock`, before it
    releases the object) and because of what each process holds at each `pc`
    (`FileCaller`). Sums are `Total`s, which a step changes at one or two processes.
  * blocks of files (`BlocksExact`): two pointers never lead to one block
    (`PointersDiffer`), the marked blocks are those pointers lead to (`PointersMarked`),
    and up to a file's size there are no holes (`HasBlocks`). Each step of `bmap()` and
    `itrunc()` changes one pointer, so that one lemma on a changed pointer serves all of
    them. In the middle of `itrunc()` the pointers it has passed count as cleared though
    they are still written there, and `BlockCall` says how far it is; a write that is cut
    into pieces keeps the size behind the blocks it has.
* `ProgramsProofs`: `ProgramsAreTyped` (`TypeOK`), `NobodyIsStuck` (`NobodyStuck`),
  `ResultsAreRight` (`RightResults`), `SystemIsKnown` (`SystemKnown`),
  `HistoryImplementsAList` (`HistoryIsAList`), `HopFollowsTheSystem`
  (`FollowsDirectory`): all that the run `programs` checks. Part by part, of the
  specification of each program alone:
  * game (`GamesAreLegal`, `PlayersAreHeard`), for a board of any size and any number
    of lost datagrams: where what a player has still to do is, in a message to him,
    with him, or in his answer, and that nobody else has anything to do but to look
    at the result (`Doing`, `Answers`); that marks differ by at most the one of the
    player who is asked, and that nobody won before the last move (`BoardLegal`);
  * transport (`MessagesArrive`): only stored chunks are acknowledged, and the server
    stops when its count is complete; the count is a cardinality; for any number of
    chunks and slots;
  * history: the ring's `front`, `rear` and `size` agree modulo its length (`Ring`), so
    that its `size` slots from `front` on, read as a sequence, lose their first line
    and gain a last one exactly as the list of `CommandHistory` does, and the slot of
    `rear` is the line recorded last, also after it has been purged;
  * jobs (`NoJobIsLost`): at which places the shell is busy with a process; for any
    number of children;
  * pipelines (`PipelinesMove`), for any number of stages and any size of pipe: the
    shell has open the ends of the pipes that it has not yet handed on, a stage at
    most its own, and only while it is there; an induction along the stages finds
    one that can go on;
  * directories: unless an error is set, the shell is where it says, after each
    argument and so after any two; labels are kept apart by the scan of `mark`;
  * storage server (`OneChildAtATime`, `LockIsAccountedFor`,
    `AnswersReachTheirClient`): where the holder of the mutex is and that descriptors
    and connections are one to one; all that a command does besides is summed up in
    the lemma `CommandMoves`. What is read, worked on and kept in the table is of its
    type (`StorageData`), the table never past `MAX_FILES`;
  * sort (`EntriesAreSorted`, `PartsAreSorted`, `SortsGoOn`), for any entries, keys,
    threshold and threads (`SortInv`). Count sort (`CountInv`): the threads' shares
    are consecutive and cover the entries; a count is the number of entries with that
    key before the places that the threads have come to (`SoFar`), and the one thread
    that has the mutex has read it as it still is. In the end the counts are those of the
    keys, so that the places below the cumulated counts are all different, in order
    and stable; the bubble sort is stable because only neighbours out of order change
    places. Merge sort (`MergeInv`): the segments begun are a tree, two of them are
    nested or apart, what is inside one that is done is done, and a segment is copied
    only after both of its halves (`Tree`, `InTurn`); each largest segment that is done
    holds what was read into it, in order, what is outside all of them is where it was
    read, and the copies of a segment are its halves as they still are (`Data`). A
    thread that merges changes nothing of any other segment since that is nested or
    apart; that is the step that a data race would break. The merged entries are in
    order by `MergeRises` and all there by `EachIsTaken`. Timestamps that do not parse
    are equal to everything, which is no order: what is said of `merge_sort()` is for
    those that do.

The theorems of the modules that check parts side by side have one invariant,
`Invariant`, with a conjunct per part under `part = ...`; `part` never changes, so that
each part's step lemma proves its conjunct. Operators of the library that a part
reaches through its instance are shown once to be those of the module.

Assumptions on constants, beyond the kinds of the sets: the ring of a pipe divides
the range of its counters, as do `INPUT_BUF_SIZE` and the console's indices and `NUM`
and the indices of the disk's rings (512, 128 and 8 divide 2^32 and 2^16); there are more
buffers than users and pins at a time, as `param.h` has `NBUF = MAXOPBLOCKS*3`;
directories have different paths; no path goes through `..` (`DownAssumption`, for
the reason given under `XvInodes`); the storage server's paths are closed under what
`~` stands for, and its table has at least the one entry it may start with; names are
compared by finitely many first characters. TLC evaluates all of them.

*Induction.* The provers cannot instantiate the library's induction theorems, whose
parameters are operators. Where a loop over data needs induction, what holds after
each round is made a set of numbers, and a nonempty set of numbers has a least member
(`LeastOne`, from two theorems of the library that take no operator,
`NatLessThanWellFounded` and `WFMin`); `StepByStep` puts this into a form to cite: a
set that has 0, and with each `k` below `n` also `k + 1`, has all of `0..n`. `Iteration`
derives from it that a recursive function over the rounds of a loop exists and unfolds.
For that the models write loops as recursive functions, never as `RECURSIVE` operators.

What proving changed in the models: `HopArg` had two overlapping cases, of which
TLC took the first, `alloc_desc()`'s and `bget()`'s choice of a free descriptor and of
a buffer are quantified with the condition that the loop's order implies, the paths
of the run are a constant, references and counts are added with `Total` (a cardinality)
where they were folded, loops that were folds or `RECURSIVE` are recursive functions,
`Runs` names the guards where it said `ENABLED`, and assumptions on constants that held
in the runs by accident are stated by name (`FileAssumption`, `StorageAssumption`,
`SortAssumption`).

Only model-checked:

* the liveness properties `SingleDeleterTermination`, `OrphansReaped`, `NoStarvation`
  and `CallsReturn`: out of this prover's reach. Every invariant and every refinement
  that a passing run checks is a theorem.

## 5. Runs

| Run | Question |
|---|---|
| `lazy_rw` | exclusion, exact counts, conserved slots, wakeups, termination with one deleter |
| `lazy_rw_deadlock` | (violated) does everybody end with two deleters? |
| `xv_process` | stacks, exits, parents; unique selection and bookkeeping of the schedulers |
| `xv_proc_reap` | does init keep reaping? |
| `xv_proc_kill_zero` | (violated) is a new process alive? |
| `xv_sched` | does everybody who can run? |
| `mlfq_starvation` | (violated) is the boost interval of 48 enough? |
| `xv_log` | atomic disk, room, lone commits, calls return |
| `vfs_names` | a cache without bad pointers, registered owners, an abstract directory |
| `xv_storage` | references and blocks counted, nothing freed in use, no missed wakeup, reads see stores, a pipe is a stream |
| `xv_machine` | I/O moves, pools conserved, accounts kept, the console is a line editor |
| `programs` | nobody stuck, right results, tables that agree with the system, history, directories |

Run one with `tlc -config <cfg> <module>`; names and files are in `PROJECT.json`.
The long ones are `xv_storage` and `xv_machine`, some minutes each with two
workers. `SYMMETRY` is used for processes, blocks, pids and connections, only in
runs without liveness.

`PROJECT.json` also lists what the code does otherwise than its documents and
comments say or than its author can have meant (`findings`). Three of them are
violated runs; the others are visible in the model, in a guard, a named exception
of a property or a history variable, and say where.

## 6. Not modelled

* **Boot, printing, strings** (`main.c start.c printf.c string.c`), set-up of the
  devices, the RAM disk: no state that a property could be about.
* **User programs and tests of xv6** (`user/`): clients of the kernel; the models
  let a program make any call at any time.
* **`reveal seek calc iman neonate proclore sysinfo`** of the shell and the sorting
  of `activities`: they format what the system, a web server or an expression
  yields. Parsing of lines and redirections: text, and a `dup2` in a child (a
  failing one is a finding).
* **Bits**: page table entries, ELF headers, `copyin`/`copyout`, bytes of directory
  blocks and of files, the metrics of `lazy_sort`.
* **Threads and sockets of the naming server**, its registration of a second
  server while a request runs, and LIST, which changes nothing; file contents on
  the storage server; the interactive part of the clients.
* **`pthread_create()` that fails in `merge_sort()`**: the code joins an
  uninitialized thread.
* **`acquire()`'s atomic swap** is taken as given; locks are modelled by who holds
  them.
* **Products of the kernel's parts**: see the beginning of section 3.
