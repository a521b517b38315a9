----------------------------- MODULE MCPrograms -----------------------------
(***************************************************************************)
(* The user programs for TLC: the two-player games, the transport over     *)
(* UDP, four parts of c_shell, the storage server and the sorting program. *)
(* As in MCXvStorage the initial states choose which one runs, and the     *)
(* variables that a program does not have are 0 all the time.              *)
(***************************************************************************)
EXTENDS Naturals, Sequences, TLC

CONSTANTS
  BoardSize, MaxLosses, MaxLeaves,            \* Game
  MAX_CHUNKS, MaxTotal,                       \* UdpTransport
  MAX_SIZE, Programs,                         \* ShellHistory
  Pid, None, MaxSpawn,                        \* ShellJobs
  Stages, PipeSize, MaxOut,                   \* ShellPipeline
  Label, MARK_MAX, Arg, Directory, UserHome, Fragile,    \* ShellDirs
  Conn, Fd, Shared, Home, MAX_FILES,          \* VfsStorage
  THRESHOLD, MIN_THREAD_SIZE, NUM_THREADS, MAX_ID, PerThread, Overflow, Id, Chars, Time,
  MaxFiles                                    \* LazySort

Sym == Permutations(Pid) \cup Permutations(Conn)

\* Three directories below the root, the innermost of which comes and goes.
SomeArgs == {[kind |-> k, path |-> <<>>] : k \in {".", "~", "-", ".."}}
              \cup {[kind |-> "relative", path |-> <<"b">>], [kind |-> "absolute", path |-> <<"a">>]}
SomeDirectories == {<<>>, <<"a">>, <<"a", "b">>, <<"a", "b", "b">>}
ShellHome == <<"a">>
Innermost == {<<"a", "b", "b">>}

\* The home directory, and a file in it by its two names.
SomePaths == {<<"h">>, <<"h", "f">>, <<"~", "f">>}
ServerHome == <<"h">>

VARIABLES
  part,
  client, at, on,
  udp, board, currentPlayer, asked, replay1, addr, inbox, outbox, gone, losses,
  total, i, packets, acks, received, receivedChunks, running, early,
  items, front, rear, size, logExec, file,
  os, spawned, background, fgProc, cur, bg, pending, handling, starts,
  counter, waiting, stage, holds, toWrite, amount, filled,
  exists, cwd, currentDir, prevDir, error, marks,
  clientSocket, fd, pc, sock, reads, request, unread, mutex, child, table, disk, home, overrun, up,
  column, entries, input, made, next, read, counts, segment, halves, result

Games    == INSTANCE Game WITH Size <- BoardSize
Udp      == INSTANCE UdpTransport
History  == INSTANCE ShellHistory
Jobs     == INSTANCE ShellJobs
Pipeline == INSTANCE ShellPipeline
Dirs     == INSTANCE ShellDirs WITH Home <- UserHome
Storage  == INSTANCE VfsStorage WITH Nobody <- None, Path <- Shared
Sort     == INSTANCE LazySort

ASSUME ProgramsAssumption ==
  /\ Games!GameAssumption /\ Udp!ChunksAssumption /\ History!HistoryAssumption
  /\ Jobs!JobsAssumption /\ Pipeline!PipelineAssumption /\ Dirs!DirsAssumption
  /\ Storage!StorageAssumption /\ Sort!SortAssumption

\* Variables of one program only.
gameOnly     == <<udp, board, currentPlayer, asked, replay1, addr, inbox, outbox, gone, losses>>
udpOnly      == <<total, i, packets, acks, received, receivedChunks, running, early>>
historyOnly  == <<items, front, rear, size, logExec, file>>
jobsOnly     == <<os, spawned, background, fgProc, cur, bg, pending, handling, starts>>
pipelineOnly == <<counter, waiting, stage, holds, toWrite, amount, filled>>
dirsOnly     == <<exists, cwd, currentDir, prevDir, error, marks>>
storageOnly  == <<clientSocket, fd, pc, sock, reads, request, unread, mutex, child, table, disk,
                  home, overrun, up>>
sortOnly     == <<column, entries, input, made, next, read, counts, segment, halves, result>>
vars == <<part, client, at, on, gameOnly, udpOnly, historyOnly, jobsOnly, pipelineOnly, dirsOnly,
          storageOnly, sortOnly>>

NoGame == /\ udp = 0 /\ board = 0 /\ currentPlayer = 0 /\ asked = 0 /\ replay1 = 0 /\ addr = 0
          /\ inbox = 0 /\ outbox = 0 /\ gone = 0 /\ losses = 0
NoUdp == /\ total = 0 /\ i = 0 /\ packets = 0 /\ acks = 0 /\ received = 0 /\ receivedChunks = 0
         /\ running = 0 /\ early = 0
NoHistory == items = 0 /\ front = 0 /\ rear = 0 /\ size = 0 /\ logExec = 0 /\ file = 0
NoJobs == /\ os = 0 /\ spawned = 0 /\ background = 0 /\ fgProc = 0 /\ cur = 0 /\ bg = 0
          /\ pending = 0 /\ handling = 0 /\ starts = 0
NoPipeline == /\ counter = 0 /\ waiting = 0 /\ stage = 0 /\ holds = 0 /\ toWrite = 0 /\ amount = 0
              /\ filled = 0
NoDirs == exists = 0 /\ cwd = 0 /\ currentDir = 0 /\ prevDir = 0 /\ error = 0 /\ marks = 0
NoStorage == /\ clientSocket = 0 /\ fd = 0 /\ pc = 0 /\ sock = 0 /\ reads = 0 /\ request = 0
             /\ unread = 0 /\ mutex = 0 /\ child = 0 /\ table = 0 /\ disk = 0 /\ home = 0
             /\ overrun = 0 /\ up = 0
NoSort == /\ column = 0 /\ entries = 0 /\ input = 0 /\ made = 0 /\ next = 0 /\ read = 0
          /\ counts = 0 /\ segment = 0 /\ halves = 0 /\ result = 0

Init ==
  \/ /\ part = "game" /\ Games!Init /\ at = 0 /\ on = 0
     /\ NoUdp /\ NoHistory /\ NoJobs /\ NoPipeline /\ NoDirs /\ NoStorage /\ NoSort
  \/ /\ part = "udp" /\ Udp!Init /\ at = 0 /\ on = 0
     /\ NoGame /\ NoHistory /\ NoJobs /\ NoPipeline /\ NoDirs /\ NoStorage /\ NoSort
  \/ /\ part = "history" /\ History!Init /\ client = 0 /\ at = 0
     /\ NoGame /\ NoUdp /\ NoJobs /\ NoPipeline /\ NoDirs /\ NoStorage /\ NoSort
  \/ /\ part = "jobs" /\ Jobs!Init /\ client = 0 /\ on = 0
     /\ NoGame /\ NoUdp /\ NoHistory /\ NoPipeline /\ NoDirs /\ NoStorage /\ NoSort
  \/ /\ part = "pipeline" /\ Pipeline!Init /\ client = 0 /\ at = 0 /\ on = 0
     /\ NoGame /\ NoUdp /\ NoHistory /\ NoJobs /\ NoDirs /\ NoStorage /\ NoSort
  \/ /\ part = "dirs" /\ Dirs!Init /\ client = 0 /\ at = 0
     /\ NoGame /\ NoUdp /\ NoHistory /\ NoJobs /\ NoPipeline /\ NoStorage /\ NoSort
  \/ /\ part = "storage" /\ Storage!Init /\ at = 0 /\ on = 0
     /\ NoGame /\ NoUdp /\ NoHistory /\ NoJobs /\ NoPipeline /\ NoDirs /\ NoSort
  \/ /\ part = "sort" /\ Sort!Init /\ client = 0 /\ on = 0
     /\ NoGame /\ NoUdp /\ NoHistory /\ NoJobs /\ NoPipeline /\ NoDirs /\ NoStorage

Next ==
  \/ /\ part = "game" /\ Games!Next
     /\ UNCHANGED <<part, at, on, udpOnly, historyOnly, jobsOnly, pipelineOnly, dirsOnly, storageOnly, sortOnly>>
  \/ /\ part = "udp" /\ Udp!Next
     /\ UNCHANGED <<part, at, on, gameOnly, historyOnly, jobsOnly, pipelineOnly, dirsOnly, storageOnly, sortOnly>>
  \/ /\ part = "history" /\ History!Next
     /\ UNCHANGED <<part, client, at, gameOnly, udpOnly, jobsOnly, pipelineOnly, dirsOnly, storageOnly, sortOnly>>
  \/ /\ part = "jobs" /\ Jobs!Next
     /\ UNCHANGED <<part, client, on, gameOnly, udpOnly, historyOnly, pipelineOnly, dirsOnly, storageOnly, sortOnly>>
  \/ /\ part = "pipeline" /\ Pipeline!Next
     /\ UNCHANGED <<part, client, at, on, gameOnly, udpOnly, historyOnly, jobsOnly, dirsOnly, storageOnly, sortOnly>>
  \/ /\ part = "dirs" /\ Dirs!Next
     /\ UNCHANGED <<part, client, at, gameOnly, udpOnly, historyOnly, jobsOnly, pipelineOnly, storageOnly, sortOnly>>
  \/ /\ part = "storage" /\ Storage!Next
     /\ UNCHANGED <<part, at, on, gameOnly, udpOnly, historyOnly, jobsOnly, pipelineOnly, dirsOnly, sortOnly>>
  \/ /\ part = "sort" /\ Sort!Next
     /\ UNCHANGED <<part, client, on, gameOnly, udpOnly, historyOnly, jobsOnly, pipelineOnly, dirsOnly, storageOnly>>

Spec == Init /\ [][Next]_vars

-----------------------------------------------------------------------------
\* The variables of each program keep their types.
TypeOK ==
  /\ part = "game" => Games!TypeOK
  /\ part = "udp" => Udp!TypeOK
  /\ part = "history" => History!TypeOK
  /\ part = "jobs" => Jobs!TypeOK
  /\ part = "pipeline" => Pipeline!TypeOK
  /\ part = "dirs" => Dirs!TypeOK
  /\ part = "storage" => Storage!TypeOK
  /\ part = "sort" => Sort!TypeOK

\* Nobody waits for one that does nothing: the server of a game for an answer
\* that was not asked for (server.c:181-233), the stages of a pipeline for each
\* other (main.c:530-541), the threads of the storage server for a thread that has
\* ended without an error (storage_server.c:253), those of the sort for each other.
NobodyStuck ==
  /\ part = "game" => Games!ServerHeard
  /\ part = "pipeline" => Pipeline!PipelineMoves
  /\ part = "storage" => Storage!LockAccountedFor
  /\ part = "sort" => Sort!Runs

\* What comes out is right: the board of a game (server.c:83-115), the message of
\* the transport (tcp_stack_server.c:54-84), the sorted entries and every part of
\* them that is sorted (lazy_sort.c:369-452).
RightResults ==
  /\ part = "game" => Games!GameLegal
  /\ part = "udp" => Udp!Delivered
  /\ part = "sort" => Sort!Sorted /\ Sort!SegmentsSorted

\* What a program believes of the system is so: the shell of its processes
\* (sys.c:157-211, main.c:80-99), a thread of the storage server of the child it
\* waits for and of the connection it answers (storage_server.c:141, 244, 316).
SystemKnown ==
  /\ part = "jobs" => Jobs!JobsKnown
  /\ part = "storage" => Storage!OwnChildren /\ Storage!AnswersGoHome

IsHistory == part = "history"
List == INSTANCE CommandHistory WITH
  Capacity <- MAX_SIZE,
  Line     <- History!PlainLine,
  NoLine   <- History!NoLine,
  on       <- IF IsHistory THEN on ELSE FALSE,
  hist     <- IF IsHistory THEN History!Contents(History!Queue) ELSE <<>>,
  last     <- IF IsHistory THEN History!Latest(History!Queue) ELSE <<>>,
  pending  <- IF IsHistory THEN logExec ELSE History!NoLine,
  saved    <- IF IsHistory THEN file ELSE <<>>

\* The ring of slots, the flag of log execute and the file of the shell are a list
\* of lines that survives its sessions (queue.c, log.c, main.c:419-679).
HistoryIsAList == List!Spec

\* hop moves the shell where the system moves it (hop.c:9-180).
FollowsDirectory == [][part = "dirs" => Dirs!Followed]_vars
=============================================================================
