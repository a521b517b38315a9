---------------------------- MODULE MCXvStorage ----------------------------
(***************************************************************************)
(* The parts of the xv6 file system and of its pipes for TLC.  Each part   *)
(* is checked by itself, for its initial states choose which one runs; the *)
(* parts share the names of their variables, and those that a part does    *)
(* not have are 0 all the time.                                            *)
(***************************************************************************)
EXTENDS Naturals, Sequences, FiniteSets, TLC

CONSTANTS
  Worker, First, Pair, None,                           \* processes
  Inode, Root, Name, Paths,                            \* XvInodes
  OneFile, RootDir, NumBlocks, NDirect, NIndirect, BSize,  \* XvBlocks
  Buf, SomeBlocks, OtherBlock, Value, MaxPins,         \* XvBuf
  NumFile, NumFd, Pipe,                                \* XvFiles
  Bytes, PipeSize, Wrap, MaxKills,                     \* XvPipe
  MaxN

Proc == Worker \cup {First}
\* One block more than buffers; the symmetry of three of them is enough.
Sym == Permutations(Worker) \cup Permutations(SomeBlocks)

\* The same file is named from the root and from wherever a process is.
DownPaths == {[absolute |-> TRUE, names |-> <<"a", "b">>], [absolute |-> FALSE, names |-> <<"a">>]}

VARIABLES
  part,
  pc, type, ref, valid, left, data, readopen, writeopen,
  nlink, entries, locker, path, ip, dp, old, puts, freeing, cwd, open,
  phase, freeblock, bitmap, addrs, content, size, pos,
  lru, blockno, refcnt, owner, logged, disk, want, buf, asleep, latest,
  ofile, inodes, arg, toClose, release,
  nread, nwrite, allocated, lock, holds, chan, killed

Inodes  == INSTANCE XvInodes WITH Proc <- Worker
Blocks  == INSTANCE XvBlocks WITH File <- OneFile
Buffers == INSTANCE XvBuf WITH Proc <- Worker, Block <- SomeBlocks \cup {OtherBlock}
Files   == INSTANCE XvFiles WITH Proc <- Pair
Pipes   == INSTANCE XvPipe WITH Creator <- First, Nobody <- None

ASSUME PartsAssumption ==
  /\ Inodes!InodeAssumption /\ Inodes!PathAssumption /\ Blocks!BlockAssumption
  /\ Buffers!NoneAssumption /\ Buffers!RoomAssumption /\ Files!FileAssumption
  /\ Pipes!ProcAssumption /\ Pipes!SizeAssumption

\* No path goes through "..", which a removed directory keeps (fs.c:315).
ASSUME DownAssumption == \A s \in Paths : s.names \in Seq(Name)

\* Variables of one part only, and of several.
inodesOnly  == <<nlink, entries, locker, path, ip, dp, old, puts, freeing, cwd, open>>
blocksOnly  == <<phase, freeblock, bitmap, addrs, content, size, pos>>
buffersOnly == <<lru, blockno, refcnt, owner, logged, disk, want, buf, asleep, latest>>
filesOnly   == <<ofile, inodes, arg, toClose, release>>
pipesOnly   == <<nread, nwrite, allocated, lock, holds, chan, killed>>
types == <<type, ref>>
ends == <<readopen, writeopen>>
vars == <<part, pc, types, ends, valid, left, data, inodesOnly, blocksOnly, buffersOnly,
          filesOnly, pipesOnly>>

NoInodes ==
  /\ nlink = 0 /\ entries = 0 /\ locker = 0 /\ path = 0 /\ ip = 0 /\ dp = 0 /\ old = 0
  /\ puts = 0 /\ freeing = 0 /\ cwd = 0 /\ open = 0
NoBlocks ==
  /\ phase = 0 /\ freeblock = 0 /\ bitmap = 0 /\ addrs = 0 /\ content = 0 /\ size = 0 /\ pos = 0
NoBuffers ==
  /\ lru = 0 /\ blockno = 0 /\ refcnt = 0 /\ owner = 0 /\ logged = 0 /\ disk = 0
  /\ want = 0 /\ buf = 0 /\ asleep = 0 /\ latest = 0
NoFiles == ofile = 0 /\ inodes = 0 /\ arg = 0 /\ toClose = 0 /\ release = 0
NoPipes ==
  /\ nread = 0 /\ nwrite = 0 /\ allocated = 0 /\ lock = 0 /\ holds = 0 /\ chan = 0 /\ killed = 0
NoTypes == type = 0 /\ ref = 0
NoEnds == readopen = 0 /\ writeopen = 0

Init ==
  \/ /\ part = "inodes" /\ Inodes!Init
     /\ NoBlocks /\ NoBuffers /\ NoFiles /\ NoPipes /\ NoEnds /\ left = 0 /\ data = 0
  \/ /\ part = "blocks" /\ Blocks!Init
     /\ NoInodes /\ NoBuffers /\ NoFiles /\ NoPipes /\ NoTypes /\ NoEnds /\ valid = 0 /\ data = 0
  \/ /\ part = "buffers" /\ Buffers!Init
     /\ NoInodes /\ NoBlocks /\ NoFiles /\ NoPipes /\ NoTypes /\ NoEnds /\ left = 0
  \/ /\ part = "files" /\ Files!Init
     /\ NoInodes /\ NoBlocks /\ NoBuffers /\ NoPipes /\ valid = 0 /\ left = 0 /\ data = 0
  \/ /\ part = "pipes" /\ Pipes!Init
     /\ NoInodes /\ NoBlocks /\ NoBuffers /\ NoFiles /\ NoTypes /\ valid = 0

Next ==
  \/ /\ part = "inodes" /\ Inodes!Next
     /\ UNCHANGED <<part, blocksOnly, buffersOnly, filesOnly, pipesOnly, ends, left, data>>
  \/ /\ part = "blocks" /\ Blocks!Next
     /\ UNCHANGED <<part, inodesOnly, buffersOnly, filesOnly, pipesOnly, types, ends, valid, data>>
  \/ /\ part = "buffers" /\ Buffers!Next
     /\ UNCHANGED <<part, inodesOnly, blocksOnly, filesOnly, pipesOnly, types, ends, left>>
  \/ /\ part = "files" /\ Files!Next
     /\ UNCHANGED <<part, inodesOnly, blocksOnly, buffersOnly, pipesOnly, valid, left, data>>
  \/ /\ part = "pipes" /\ Pipes!Next
     /\ UNCHANGED <<part, inodesOnly, blocksOnly, buffersOnly, filesOnly, types, valid>>

Spec == Init /\ [][Next]_vars

\* What the ring of a pipe holds matters, not what lies in its other slots.
View == <<part, pc, types, ends, valid, left, inodesOnly, blocksOnly, buffersOnly, filesOnly,
          pipesOnly, IF part = "pipes" THEN Pipes!Contents ELSE data>>

-----------------------------------------------------------------------------
\* The variables of each part keep their types.
TypeOK ==
  /\ part = "inodes" => Inodes!TypeOK
  /\ part = "blocks" => Blocks!TypeOK
  /\ part = "buffers" => Buffers!TypeOK
  /\ part = "files" => Files!TypeOK
  /\ part = "pipes" => Pipes!TypeOK

\* Every count of references - of an inode (fs.c:134), a buffer (bio.c:132), an
\* open file (file.c:64) - is the number of those who have one, and what a file
\* stands for is released once, by the last who closes it.
ReferencesCounted ==
  /\ part = "inodes" => Inodes!RefsCounted
  /\ part = "buffers" => Buffers!BuffersCounted
  /\ part = "files" => Files!FilesCounted /\ Files!ObjectsReleasedOnce

\* Nothing is freed that somebody can still reach: an inode with a name or a
\* pointer to it (fs.c:341), the page of a pipe with a call under way in it
\* (pipe.c:69).
NothingDangles ==
  /\ part = "inodes" => Inodes!NothingDangles /\ Inodes!LinksCover
  /\ part = "pipes" => Pipes!NoUseAfterFree

\* Who sleeps on a pipe (pipe.c:90 and 112) or on a buffer (sleeplock.c:26)
\* sleeps for a reason that is still there.
NoMissedWakeup ==
  /\ part = "pipes" => Pipes!NoMissedWakeup
  /\ part = "buffers" => Buffers!NoLostWakeup

\* The bitmap marks the blocks that files have, each of them in one file, from
\* mkfs on and when the disk is full (fs.c:65-105, 382-453); and a file has a
\* block for every piece of its size (fs.c:482).
BlocksExact == part = "blocks" => Blocks!BitmapExact /\ Blocks!NoHoles

\* A locked buffer holds what was last stored in its block, however often the
\* buffer was recycled in between (bio.c:77-87).
ReadsSeeStores == part = "buffers" => Buffers!ReadsSeeStores

Stream == INSTANCE ByteStream WITH
  Capacity <- PipeSize,
  stream <- IF part = "pipes" THEN Pipes!Contents ELSE <<>>

\* The ring of a pipe and its wrapping counters are a byte stream (pipe.c:95
\* and 123).
PipeIsAStream == Stream!Spec
=============================================================================
