--------------------------- MODULE ProgramsProofs ---------------------------
(***************************************************************************)
(* The programs around the kernel: the two-player game, the transport over *)
(* UDP, the C-Shell's jobs, pipelines, history and directories, a storage  *)
(* server of the network file system and the concurrent sort, for any      *)
(* number of chunks, processes, stages, slots, connections, paths, entries *)
(* and threads, and a board of any size.  Each has an inductive invariant; what is said of a program alone *)
(* is said of its own specification, and the last sections of all programs *)
(* together.                                                               *)
(***************************************************************************)
EXTENDS MCPrograms, CountingLemmas, SequenceTheorems, TLAPS

-----------------------------------------------------------------------------
(* The transport over UDP delivers, whatever datagrams do.  UdpInv adds    *)
(* that a chunk is acknowledged only after it has been stored.             *)

LEMMA UdpCard == ASSUME NEW S PROVE Udp!Cardinality(S) = Cardinality(S)
BY DEF Udp!Cardinality, Cardinality

UdpInv ==
  /\ Udp!TypeOK
  /\ Udp!Delivered
  /\ acks \subseteq received
  /\ client # "done" => i < total
  /\ receivedChunks = total => ~running

LEMMA UdpInit == ASSUME Udp!ChunksAssumption, Udp!Init PROVE UdpInv
BY FS_EmptySet, UdpCard DEF Udp!ChunksAssumption, Udp!Init, UdpInv, Udp!TypeOK, Udp!Delivered

(* Slots that are filled are counted (tcp_stack_server.c:64).              *)
LEMMA Counted ==
  ASSUME Udp!ChunksAssumption, Udp!TypeOK, Udp!Delivered, NEW k \in 0..(total - 1), Udp!Store(k)
  PROVE  /\ receivedChunks' = Cardinality(received') /\ receivedChunks' \in 0..total
         /\ received' \subseteq 0..(total - 1)
         /\ receivedChunks' = total => received' = 0..(total - 1)
<1>1. total \in Nat /\ IsFiniteSet(0..(total - 1)) /\ Cardinality(0..(total - 1)) = total
  <2>1. total \in Nat \ {0} /\ 0 \in Int /\ total - 1 \in Int
    BY Udp!ChunksAssumption DEF Udp!TypeOK, Udp!ChunksAssumption
  <2>2. /\ IsFiniteSet(0..(total - 1))
        /\ Cardinality(0..(total - 1)) = IF 0 > total - 1 THEN 0 ELSE (total - 1) - 0 + 1
    BY <2>1, FS_Interval
  <2> QED
    BY <2>1, <2>2
<1>2. received \in SUBSET (0..(total - 1)) /\ IsFiniteSet(received)
  BY <1>1, FS_Subset DEF Udp!TypeOK
<1>3. received' = received \cup {k}
  BY DEF Udp!Store
<1>4. receivedChunks' = Cardinality(received')
  <2>1. Cardinality(received') = IF k \in received THEN Cardinality(received) ELSE Cardinality(received) + 1
    BY <1>2, <1>3, FS_AddElement
  <2>2. receivedChunks' = receivedChunks + (IF k \in received THEN 0 ELSE 1)
    BY DEF Udp!Store
  <2> QED
    BY <2>1, <2>2, UdpCard DEF Udp!Delivered, Udp!TypeOK
<1>5. received' \in SUBSET (0..(total - 1))
  BY <1>2, <1>3
<1>6. /\ IsFiniteSet(received') /\ Cardinality(received') <= total
      /\ Cardinality(received') = total => received' = 0..(total - 1)
  BY <1>1, <1>5, FS_Subset
<1> QED
  BY <1>1, <1>4, <1>5, <1>6, FS_CardinalityType

LEMMA UdpStep == ASSUME Udp!ChunksAssumption, UdpInv, [Udp!Next]_(Udp!vars) PROVE UdpInv'
<1> USE DEF UdpInv
<1>1. CASE Udp!Send
  BY <1>1 DEF Udp!Send, Udp!TypeOK, Udp!Delivered
<1>2. CASE Udp!Timeout
  BY <1>2 DEF Udp!Timeout, Udp!TypeOK, Udp!Delivered
<1>3. CASE Udp!Lose
  BY <1>3 DEF Udp!Lose, Udp!TypeOK, Udp!Delivered
<1>4. ASSUME NEW k \in Udp!Chunk, Udp!Acknowledged(k) PROVE UdpInv'
  <2>1. k \in received /\ i \in 0..(total - 1) /\ total \in Nat
    BY <1>4 DEF Udp!Acknowledged, Udp!TypeOK
  <2>2. Udp!TypeOK'
    BY <1>4, <2>1 DEF Udp!Acknowledged, Udp!TypeOK
  <2>3. ASSUME NEW j \in 0..i PROVE j \in received \/ j \in early'
    BY <1>4, <2>1 DEF Udp!Acknowledged, Udp!TypeOK, Udp!Delivered
  <2>4. Udp!Delivered'
    BY <1>4, <2>1, <2>3 DEF Udp!Acknowledged, Udp!TypeOK, Udp!Delivered
  <2> QED
    BY <1>4, <2>1, <2>2, <2>4 DEF Udp!Acknowledged, Udp!TypeOK
<1>5. ASSUME NEW k \in Udp!Chunk, Udp!Receive(k) PROVE UdpInv'
  <2>1. k \in 0..(total - 1) /\ UNCHANGED <<total, i, client, early>>
        /\ packets' \subseteq 0..(total - 1)
    BY <1>5 DEF Udp!Receive, Udp!TypeOK
  <2>2. CASE k >= MAX_CHUNKS
    BY <1>5, <2>1, <2>2 DEF Udp!Receive, Udp!TypeOK, Udp!Delivered
  <2>3. CASE ~(k >= MAX_CHUNKS)
    <3>1. Udp!Store(k) /\ acks' = acks \cup {k} /\ running' = (receivedChunks' # total')
      BY <1>5, <2>3 DEF Udp!Receive, Udp!Complete
    <3>2. received' = received \cup {k}
      BY <3>1 DEF Udp!Store
    <3> QED
      BY <2>1, <3>1, <3>2, Counted, UdpCard DEF Udp!TypeOK, Udp!Delivered
  <2> QED
    BY <2>2, <2>3
<1>6. CASE UNCHANGED Udp!vars
  BY <1>6 DEF Udp!vars, Udp!TypeOK, Udp!Delivered
<1> QED
  BY <1>1, <1>2, <1>3, <1>4, <1>5, <1>6 DEF Udp!Next

(* The inductive invariant of the transport holds in every state.          *)
THEOREM UdpSafety == ASSUME Udp!ChunksAssumption PROVE Udp!Spec => []UdpInv
BY UdpInit, UdpStep, PTL DEF Udp!Spec

(* No chunk is out of its slot's range, and no more are counted than the   *)
(* message has.                                                            *)
THEOREM UdpTypes == ASSUME Udp!ChunksAssumption PROVE Udp!Spec => []Udp!TypeOK
BY UdpSafety, PTL DEF UdpInv

(* The server ends with a whole message, and the client leaves only stored *)
(* chunks behind but for those it gave up on (tcp_stack_server.c:54-84,    *)
(* tcp_stack_client.c:68).                                                 *)
THEOREM MessagesArrive == ASSUME Udp!ChunksAssumption PROVE Udp!Spec => []Udp!Delivered
BY UdpSafety, PTL DEF UdpInv

-----------------------------------------------------------------------------
(* The shell loses no job, whenever the SIGCHLD handler runs.  JobsInv     *)
(* adds where the shell is busy with a process and where it is with none.  *)

Busy ==
  /\ at \in {"forked", "started", "waiting", "resumed"} => cur \in Pid
  /\ at \in {"prompt", "over"} => cur = None

JobsInv == Jobs!TypeOK /\ Busy /\ Jobs!JobsKnown

-----------------------------------------------------------------------------
LEMMA JobsInit == ASSUME Jobs!JobsAssumption, Jobs!Init PROVE JobsInv
<1>1. os \in [Pid -> Jobs!Mine \cup Jobs!Free] /\ \A p \in Pid : os[p] = "unused"
  BY DEF Jobs!Init, Jobs!Free
<1>2. at \in Jobs!Places /\ starts \in 0..MaxSpawn
  BY DEF Jobs!JobsAssumption, Jobs!Init, Jobs!Places
<1>3. Jobs!TypeOK
  BY <1>1, <1>2 DEF Jobs!Init, Jobs!TypeOK
<1>4. Busy /\ Jobs!JobsKnown
  BY <1>1 DEF Jobs!Init, Busy, Jobs!JobsKnown, Jobs!Mine
<1> QED
  BY <1>3, <1>4 DEF JobsInv

LEMMA JobsTypeStep == ASSUME Jobs!JobsAssumption, JobsInv, [Jobs!Next]_(Jobs!vars) PROVE Jobs!TypeOK'
<1> USE DEF Jobs!JobsAssumption, JobsInv, Jobs!TypeOK, Jobs!Mine, Jobs!Free, Jobs!Places, Busy
<1>1. CASE Jobs!RecordSpawned
  BY <1>1 DEF Jobs!RecordSpawned
<1>2. CASE Jobs!RecordBackground
  BY <1>2 DEF Jobs!RecordBackground, Jobs!ToPrompt
<1>3. CASE Jobs!Block
  BY <1>3 DEF Jobs!Block
<1>4. CASE Jobs!Waited
  BY <1>4 DEF Jobs!Waited, Jobs!ToPrompt, Jobs!RecordStopped
<1>5. CASE Jobs!FgWaited
  BY <1>5 DEF Jobs!FgWaited, Jobs!ToPrompt
<1>6. CASE Jobs!LogOut
  BY <1>6 DEF Jobs!LogOut
<1>7. CASE Jobs!Deliver
  BY <1>7 DEF Jobs!Deliver, Jobs!Alive
<1>8. CASE Jobs!HandlerReturns
  BY <1>8 DEF Jobs!HandlerReturns, Jobs!Alive
<1>9. CASE Jobs!Suspend
  BY <1>9 DEF Jobs!Suspend, Jobs!Becomes, Jobs!Alive
<1>10. ASSUME NEW p \in Pid, Jobs!Fork(p) PROVE Jobs!TypeOK'
  BY <1>10 DEF Jobs!Fork
<1>11. ASSUME NEW p \in Pid, Jobs!HandleFg(p) PROVE Jobs!TypeOK'
  BY <1>11 DEF Jobs!HandleFg, Jobs!Continue, Jobs!Becomes
<1>12. ASSUME NEW p \in Pid, Jobs!HandleBg(p) PROVE Jobs!TypeOK'
  BY <1>12 DEF Jobs!HandleBg, Jobs!Continue, Jobs!Becomes
<1>13. ASSUME NEW p \in Pid, Jobs!HandleSignals(p) PROVE Jobs!TypeOK'
  BY <1>13 DEF Jobs!HandleSignals, Jobs!Becomes
<1>14. ASSUME NEW p \in Pid, Jobs!Reap(p) PROVE Jobs!TypeOK'
  BY <1>14 DEF Jobs!Reap, Jobs!Alive
<1>15. ASSUME NEW p \in Pid, Jobs!ChildEnds(p) PROVE Jobs!TypeOK'
  BY <1>15 DEF Jobs!ChildEnds, Jobs!Becomes, Jobs!Alive
<1>16. ASSUME NEW p \in Pid, Jobs!Reuse(p) PROVE Jobs!TypeOK'
  BY <1>16 DEF Jobs!Reuse
<1>17. CASE UNCHANGED Jobs!vars
  BY <1>17 DEF Jobs!vars
<1> QED
  BY <1>1, <1>2, <1>3, <1>4, <1>5, <1>6, <1>7, <1>8, <1>9, <1>10, <1>11,
     <1>12, <1>13, <1>14, <1>15, <1>16, <1>17 DEF Jobs!Next

LEMMA BusyStep == ASSUME Jobs!JobsAssumption, JobsInv, [Jobs!Next]_(Jobs!vars) PROVE Busy'
<1> USE DEF Jobs!JobsAssumption, JobsInv, Jobs!TypeOK, Jobs!Mine, Jobs!Free, Jobs!Places, Busy
<1>1. CASE Jobs!RecordSpawned
  BY <1>1 DEF Jobs!RecordSpawned
<1>2. CASE Jobs!RecordBackground
  BY <1>2 DEF Jobs!RecordBackground, Jobs!ToPrompt
<1>3. CASE Jobs!Block
  BY <1>3 DEF Jobs!Block
<1>4. CASE Jobs!Waited
  BY <1>4 DEF Jobs!Waited, Jobs!ToPrompt, Jobs!RecordStopped
<1>5. CASE Jobs!FgWaited
  BY <1>5 DEF Jobs!FgWaited, Jobs!ToPrompt
<1>6. CASE Jobs!LogOut
  BY <1>6 DEF Jobs!LogOut
<1>7. CASE Jobs!Deliver
  BY <1>7 DEF Jobs!Deliver, Jobs!Alive
<1>8. CASE Jobs!HandlerReturns
  BY <1>8 DEF Jobs!HandlerReturns, Jobs!Alive
<1>9. CASE Jobs!Suspend
  BY <1>9 DEF Jobs!Suspend, Jobs!Becomes, Jobs!Alive
<1>10. ASSUME NEW p \in Pid, Jobs!Fork(p) PROVE Busy'
  BY <1>10 DEF Jobs!Fork
<1>11. ASSUME NEW p \in Pid, Jobs!HandleFg(p) PROVE Busy'
  BY <1>11 DEF Jobs!HandleFg, Jobs!Continue, Jobs!Becomes
<1>12. ASSUME NEW p \in Pid, Jobs!HandleBg(p) PROVE Busy'
  BY <1>12 DEF Jobs!HandleBg, Jobs!Continue, Jobs!Becomes
<1>13. ASSUME NEW p \in Pid, Jobs!HandleSignals(p) PROVE Busy'
  BY <1>13 DEF Jobs!HandleSignals, Jobs!Becomes
<1>14. ASSUME NEW p \in Pid, Jobs!Reap(p) PROVE Busy'
  BY <1>14 DEF Jobs!Reap, Jobs!Alive
<1>15. ASSUME NEW p \in Pid, Jobs!ChildEnds(p) PROVE Busy'
  BY <1>15 DEF Jobs!ChildEnds, Jobs!Becomes, Jobs!Alive
<1>16. ASSUME NEW p \in Pid, Jobs!Reuse(p) PROVE Busy'
  BY <1>16 DEF Jobs!Reuse
<1>17. CASE UNCHANGED Jobs!vars
  BY <1>17 DEF Jobs!vars
<1> QED
  BY <1>1, <1>2, <1>3, <1>4, <1>5, <1>6, <1>7, <1>8, <1>9, <1>10, <1>11,
     <1>12, <1>13, <1>14, <1>15, <1>16, <1>17 DEF Jobs!Next

LEMMA KnownStep == ASSUME Jobs!JobsAssumption, JobsInv, [Jobs!Next]_(Jobs!vars) PROVE Jobs!JobsKnown'
<1> USE DEF Jobs!JobsAssumption, JobsInv, Jobs!TypeOK, Jobs!Mine, Jobs!Free, Jobs!Places, Busy, Jobs!JobsKnown
<1>1. CASE Jobs!RecordSpawned
  BY <1>1 DEF Jobs!RecordSpawned
<1>2. CASE Jobs!RecordBackground
  BY <1>2 DEF Jobs!RecordBackground, Jobs!ToPrompt
<1>3. CASE Jobs!Block
  BY <1>3 DEF Jobs!Block
<1>4. CASE Jobs!Waited
  BY <1>4 DEF Jobs!Waited, Jobs!ToPrompt, Jobs!RecordStopped
<1>5. CASE Jobs!FgWaited
  BY <1>5 DEF Jobs!FgWaited, Jobs!ToPrompt
<1>6. CASE Jobs!LogOut
  BY <1>6 DEF Jobs!LogOut
<1>7. CASE Jobs!Deliver
  BY <1>7 DEF Jobs!Deliver, Jobs!Alive
<1>8. CASE Jobs!HandlerReturns
  BY <1>8 DEF Jobs!HandlerReturns, Jobs!Alive
<1>9. CASE Jobs!Suspend
  BY <1>9 DEF Jobs!Suspend, Jobs!Becomes, Jobs!Alive
<1>10. ASSUME NEW p \in Pid, Jobs!Fork(p) PROVE Jobs!JobsKnown'
  BY <1>10 DEF Jobs!Fork
<1>11. ASSUME NEW p \in Pid, Jobs!HandleFg(p) PROVE Jobs!JobsKnown'
  BY <1>11 DEF Jobs!HandleFg, Jobs!Continue, Jobs!Becomes
<1>12. ASSUME NEW p \in Pid, Jobs!HandleBg(p) PROVE Jobs!JobsKnown'
  BY <1>12 DEF Jobs!HandleBg, Jobs!Continue, Jobs!Becomes
<1>13. ASSUME NEW p \in Pid, Jobs!HandleSignals(p) PROVE Jobs!JobsKnown'
  BY <1>13 DEF Jobs!HandleSignals, Jobs!Becomes
<1>14. ASSUME NEW p \in Pid, Jobs!Reap(p) PROVE Jobs!JobsKnown'
  BY <1>14 DEF Jobs!Reap, Jobs!Alive
<1>15. ASSUME NEW p \in Pid, Jobs!ChildEnds(p) PROVE Jobs!JobsKnown'
  BY <1>15 DEF Jobs!ChildEnds, Jobs!Becomes, Jobs!Alive
<1>16. ASSUME NEW p \in Pid, Jobs!Reuse(p) PROVE Jobs!JobsKnown'
  BY <1>16 DEF Jobs!Reuse
<1>17. CASE UNCHANGED Jobs!vars
  BY <1>17 DEF Jobs!vars
<1> QED
  BY <1>1, <1>2, <1>3, <1>4, <1>5, <1>6, <1>7, <1>8, <1>9, <1>10, <1>11,
     <1>12, <1>13, <1>14, <1>15, <1>16, <1>17 DEF Jobs!Next

LEMMA JobsStep == ASSUME Jobs!JobsAssumption, JobsInv, [Jobs!Next]_(Jobs!vars) PROVE JobsInv'
BY JobsTypeStep, BusyStep, KnownStep DEF JobsInv

(* The inductive invariant of the shell's jobs holds in every state.       *)
THEOREM JobsSafety == ASSUME Jobs!JobsAssumption PROVE Jobs!Spec => []JobsInv
BY JobsInit, JobsStep, PTL DEF Jobs!Spec

(* The tables of the shell hold nothing but pids.                          *)
THEOREM JobsTypes == ASSUME Jobs!JobsAssumption PROVE Jobs!Spec => []Jobs!TypeOK
BY JobsSafety, PTL DEF JobsInv

(* Every child is listed in background_processes or is the one that the    *)
(* shell is starting or waiting for (sys.c:182, main.c:85).                *)
THEOREM NoJobIsLost == ASSUME Jobs!JobsAssumption PROVE Jobs!Spec => []Jobs!JobsKnown
BY JobsSafety, PTL DEF JobsInv

-----------------------------------------------------------------------------
(* Who has the mutex of a storage server, whose child runs, and whose      *)
(* connection a thread answers.  StorageInv says where the holder of the   *)
(* mutex is, and that a descriptor is of one connection and a connection   *)
(* of one descriptor.                                                      *)

InCommand == {"command", "wait", "unlock", "left"}
Served == {"call", "read", "lock", "close"} \cup InCommand
Labels == {"none", "start", "done"} \cup Served

StorageTypes ==
  /\ clientSocket \in Fd \cup {0}
  /\ fd \in [Fd -> Conn \cup {None}]
  /\ pc \in [Conn -> Labels]
  /\ sock \in [Conn -> Fd \cup {0}]
  /\ reads \in [Conn -> Conn \cup {None}]
  /\ mutex \in Conn \cup {None}
  /\ DOMAIN child = Conn

(* What a thread has read, what its child does and what the table holds is *)
(* of its type; the table never grows past file_storage[MAX_FILES].        *)
Requests == Storage!Request \cup {Storage!Empty, Storage!Unparsed}

Tables ==
  /\ table \in Seq(Storage!Entry) /\ Len(table) <= MAX_FILES
  /\ up \in BOOLEAN

StorageData ==
  /\ request \in [Conn -> Requests]
  /\ child \in [Conn -> Storage!Work]
  /\ client \in [Conn -> {"waiting", "stop", "closed"}]
  /\ unread \subseteq Conn
  /\ Tables
  /\ disk \in [Shared -> {"none", "file", "dir"}]
  /\ home \in BOOLEAN /\ overrun \in BOOLEAN

Holder ==
  /\ \A t \in Conn : pc[t] \in InCommand <=> mutex = t
  /\ \A t \in Conn : child[t] # Storage!NoWork => pc[t] = "wait"

Descriptors ==
  /\ \A f, g \in Fd : fd[f] = fd[g] /\ fd[f] # None => f = g
  /\ \A t \in Conn : /\ pc[t] = "none" => \A f \in Fd : fd[f] # t
                     /\ pc[t] = "start" => clientSocket \in Fd
                     /\ pc[t] \in Served => sock[t] \in Fd

StorageInv == StorageTypes /\ StorageData /\ Holder /\ Descriptors /\ Storage!AnswersGoHome

-----------------------------------------------------------------------------
LEMMA RequestPath ==
  ASSUME NEW r \in Requests, r.op \notin {"", "?"}
  PROVE  r.path \in Shared
<1>1. CASE r \in [op : {"CREATE", "DELETE"}, kind : {"FILE", "FOLDER"}, path : Shared]
  BY <1>1
<1>2. CASE r \in [op : {"IS_DIR", "COPYSRC", "COPYDEST", "READ", "STAT", "STREAM", "WRITE", "LIST_DIR"},
                 kind : {""}, path : Shared]
  BY <1>2
<1>3. r # Storage!Empty /\ r # Storage!Unparsed
  <2>1. Storage!Empty.op = ""
    BY DEF Storage!Empty
  <2>2. Storage!Unparsed.op = "?"
    BY DEF Storage!Unparsed
  <2> QED
    BY <2>1, <2>2
<1>4. r \in Storage!Request
  BY <1>3 DEF Requests
<1> QED
  BY <1>1, <1>2, <1>4 DEF Storage!Request

LEMMA NewWork ==
  ASSUME NEW p \in Shared, NEW op \in {"touch", "mkdir", "rm", "rmdir", "sh"}
  PROVE  [op |-> op, path |-> p] \in Storage!Work
BY DEF Storage!Work

LEMMA NewRequest ==
  ASSUME NEW t, NEW r \in Requests, request \in [Conn -> Requests]
  PROVE  [request EXCEPT ![t] = r] \in [Conn -> Requests]
OBVIOUS

LEMMA NewChild ==
  ASSUME NEW t, NEW w \in Storage!Work, child \in [Conn -> Storage!Work]
  PROVE  [child EXCEPT ![t] = w] \in [Conn -> Storage!Work]
OBVIOUS

LEMMA CommandRequest ==
  ASSUME StorageData, NEW t \in Conn, NEW ops, NEW l, Storage!Command(t, ops, l)
  PROVE  /\ request' \in [Conn -> Requests] /\ request[t].op \in ops
         /\ UNCHANGED <<unread, home, overrun>>
BY NewRequest DEF Storage!Command, StorageData, Requests

LEMMA EntryAdded ==
  ASSUME Storage!StorageAssumption, Tables, NEW p \in Shared, Storage!AddEntry(p)
  PROVE  Tables'
<1>1. [path |-> p, live |-> TRUE, reg |-> FALSE] \in Storage!Entry
  BY DEF Storage!Entry
<1>2. PICK e \in Storage!Entry : e = [path |-> p, live |-> TRUE, reg |-> FALSE]
  BY <1>1
<1>3. CASE Len(table) < MAX_FILES
  <2>1. table' = Append(table, e) /\ up' = up
    BY <1>2, <1>3 DEF Storage!AddEntry
  <2>2. Append(table, e) \in Seq(Storage!Entry) /\ Len(Append(table, e)) = Len(table) + 1
    BY AppendProperties DEF Tables
  <2> QED
    BY <1>3, <2>1, <2>2 DEF Tables, Storage!StorageAssumption
<1>4. CASE ~(Len(table) < MAX_FILES)
  BY <1>4 DEF Storage!AddEntry, Tables
<1> QED
  BY <1>3, <1>4

LEMMA EntryFreed ==
  ASSUME NEW s \in Seq(Storage!Entry), NEW k
  PROVE  /\ [s EXCEPT ![k].live = FALSE, ![k].reg = FALSE] \in Seq(Storage!Entry)
         /\ Len([s EXCEPT ![k].live = FALSE, ![k].reg = FALSE]) = Len(s)
<1> DEFINE z == [s EXCEPT ![k].live = FALSE, ![k].reg = FALSE]
<1>1. s \in [1..Len(s) -> Storage!Entry] /\ Len(s) \in Nat
  OBVIOUS
<1>2. DOMAIN z = 1..Len(s)
  BY <1>1
<1>3. ASSUME NEW j \in 1..Len(s) PROVE z[j] \in Storage!Entry
  <2>1. s[j] \in Storage!Entry
    OBVIOUS
  <2>2. CASE j = k
    <3>1. z[j] = [[s[j] EXCEPT !.live = FALSE] EXCEPT !.reg = FALSE]
      BY <2>2, <1>1
    <3> QED
      BY <2>1, <3>1 DEF Storage!Entry
  <2>3. CASE j # k
    BY <2>1, <2>3, <1>1
  <2> QED
    BY <2>2, <2>3
<1>4. z \in [1..Len(s) -> Storage!Entry]
  BY <1>2, <1>3
<1> HIDE DEF z
<1>5. z \in Seq(Storage!Entry) /\ Len(z) = Len(s)
  BY <1>1, <1>4
<1> QED
  BY <1>5 DEF z

LEMMA DiskTypes ==
  ASSUME NEW w, disk \in [Shared -> {"none", "file", "dir"}], Storage!Works(w)
  PROVE  disk' \in [Shared -> {"none", "file", "dir"}]
BY DEF Storage!Works

LEMMA ExpandedPath ==
  ASSUME Storage!StorageAssumption, NEW p \in Shared
  PROVE  Storage!Expand(p) \in Shared
BY DEF Storage!StorageAssumption

LEMMA NoWorkIsWork == Storage!NoWork \in Storage!Work
BY DEF Storage!Work

LEMMA StorageDataInit == ASSUME Storage!StorageAssumption, Storage!Init PROVE StorageData
<1>1. request \in [Conn -> Requests] /\ child \in [Conn -> Storage!Work]
  BY NoWorkIsWork DEF Storage!Init, Requests
<1>2. Tables
  <2>1. CASE table = <<>>
    BY <2>1 DEF Storage!Init, Tables, Storage!StorageAssumption
  <2>2. ASSUME NEW p \in Shared, table = <<[path |-> p, live |-> TRUE, reg |-> TRUE]>> PROVE Tables
    <3>1. PICK e \in Storage!Entry : e = [path |-> p, live |-> TRUE, reg |-> TRUE]
      BY DEF Storage!Entry
    <3>2. table = <<e>>
      BY <2>2, <3>1
    <3> QED
      BY <3>2 DEF Storage!Init, Tables, Storage!StorageAssumption
  <2> QED
    BY <2>1, <2>2 DEF Storage!Init
<1> QED
  BY <1>1, <1>2 DEF Storage!Init, StorageData

LEMMA StorageInit == ASSUME Storage!StorageAssumption, Storage!Init PROVE StorageInv
BY StorageDataInit
   DEF Storage!StorageAssumption, Storage!Init, StorageInv, StorageTypes, Holder, Descriptors,
       Storage!AnswersGoHome, Labels, Served, InCommand

(* Whatever a command does, it leaves the connections and the mutex alone; *)
(* a thread that goes on to wait may have started a child.                 *)
Goes(t, l) ==
  /\ pc[t] = "command" /\ pc' = [pc EXCEPT ![t] = l]
  /\ child' = child \/ (l = "wait" /\ \E w : child' = [child EXCEPT ![t] = w])
  /\ UNCHANGED <<clientSocket, fd, sock, reads, mutex, overrun>>

LEMMA CommandMoves ==
  ASSUME NEW t \in Conn,
         \/ Storage!CreateFails(t) \/ Storage!Create(t) \/ Storage!Delete(t) \/ Storage!CopyDest(t)
         \/ Storage!FileFails(t) \/ Storage!FileServed(t) \/ Storage!LookUp(t)
  PROVE  Goes(t, "wait") \/ Goes(t, "unlock") \/ Goes(t, "left")
<1> USE DEF Goes, Storage!Command, Storage!Fork, Storage!NoFork
<1>1. CASE Storage!CreateFails(t)
  BY <1>1 DEF Storage!CreateFails
<1>2. CASE Storage!Create(t)
  BY <1>2 DEF Storage!Create
<1>3. CASE Storage!Delete(t)
  BY <1>3 DEF Storage!Delete
<1>4. CASE Storage!CopyDest(t)
  BY <1>4 DEF Storage!CopyDest
<1>5. CASE Storage!FileFails(t)
  BY <1>5 DEF Storage!FileFails
<1>6. CASE Storage!FileServed(t)
  BY <1>6 DEF Storage!FileServed
<1>7. CASE Storage!LookUp(t)
  BY <1>7 DEF Storage!LookUp
<1> QED
  BY <1>1, <1>2, <1>3, <1>4, <1>5, <1>6, <1>7

(* A thread waits for its own child, for there is no other.                *)
LEMMA WaitsForItsOwn ==
  ASSUME Storage!StorageAssumption, StorageInv, NEW t \in Conn, Storage!Wait(t)
  PROVE  /\ pc[t] = "wait"
         /\ pc' = [pc EXCEPT ![t] = "unlock"] \/ pc' = [pc EXCEPT ![t] = "left"]
         /\ child' = [child EXCEPT ![t] = Storage!NoWork]
         /\ UNCHANGED <<clientSocket, fd, sock, reads, mutex, overrun>>
<1>1. PICK u \in Storage!Reaped(t) : child' = [child EXCEPT ![u] = Storage!NoWork]
  BY DEF Storage!Wait
<1>2. u = t
  BY <1>1 DEF Storage!Reaped, Storage!Wait, StorageInv, Holder, Storage!StorageAssumption, InCommand
<1> QED
  BY <1>1, <1>2 DEF Storage!Wait, Storage!connections

-----------------------------------------------------------------------------
LEMMA StorageTypesStep ==
  ASSUME Storage!StorageAssumption, StorageInv, NEW c \in Conn, Storage!Accept(c) \/ Storage!ClientCloses(c) \/ Storage!Handle(c)
  PROVE  StorageTypes'
<1> USE DEF Storage!StorageAssumption, StorageInv, StorageTypes, Labels, Served, InCommand
<1>1. CASE Storage!Accept(c)
  BY <1>1 DEF Storage!Accept
<1>2. CASE Storage!ClientCloses(c)
  BY <1>2 DEF Storage!ClientCloses
<1>3. CASE Storage!Start(c)
  BY <1>3 DEF Storage!Start, Storage!connections
<1>4. CASE Storage!Call(c)
  BY <1>4 DEF Storage!Call, Storage!connections, Descriptors
<1>5. CASE Storage!Read(c)
  BY <1>5 DEF Storage!Read
<1>6. CASE Storage!Lock(c)
  BY <1>6 DEF Storage!Lock, Storage!LockWhen, Storage!connections
<1>7. CASE Storage!Unlock(c)
  BY <1>7 DEF Storage!Unlock, Storage!connections
<1>8. CASE Storage!Close(c)
  BY <1>8 DEF Storage!Close, Storage!CloseOf
<1>9. CASE Storage!Wait(c)
  BY <1>9, WaitsForItsOwn
<1>10. CASE Goes(c, "wait")
  BY <1>10 DEF Goes
<1>11. CASE Goes(c, "unlock")
  BY <1>11 DEF Goes
<1>12. CASE Goes(c, "left")
  BY <1>12 DEF Goes
<1> QED
  BY CommandMoves, <1>1, <1>2, <1>3, <1>4, <1>5, <1>6, <1>7, <1>8, <1>9, <1>10, <1>11, <1>12
  DEF Storage!Handle

LEMMA HolderStep ==
  ASSUME Storage!StorageAssumption, StorageInv, NEW c \in Conn, Storage!Accept(c) \/ Storage!ClientCloses(c) \/ Storage!Handle(c)
  PROVE  Holder'
<1> USE DEF Storage!StorageAssumption, StorageInv, StorageTypes, Labels, Served, InCommand, Holder
<1>1. CASE Storage!Accept(c)
  BY <1>1 DEF Storage!Accept
<1>2. CASE Storage!ClientCloses(c)
  BY <1>2 DEF Storage!ClientCloses
<1>3. CASE Storage!Start(c)
  BY <1>3 DEF Storage!Start, Storage!connections
<1>4. CASE Storage!Call(c)
  BY <1>4 DEF Storage!Call, Storage!connections
<1>5. CASE Storage!Read(c)
  BY <1>5 DEF Storage!Read
<1>6. CASE Storage!Lock(c)
  BY <1>6 DEF Storage!Lock, Storage!LockWhen, Storage!connections
<1>7. CASE Storage!Unlock(c)
  BY <1>7 DEF Storage!Unlock, Storage!connections
<1>8. CASE Storage!Close(c)
  BY <1>8 DEF Storage!Close, Storage!CloseOf
<1>9. CASE Storage!Wait(c)
  BY <1>9, WaitsForItsOwn
<1>10. CASE Goes(c, "wait")
  BY <1>10 DEF Goes
<1>11. CASE Goes(c, "unlock")
  BY <1>11 DEF Goes
<1>12. CASE Goes(c, "left")
  BY <1>12 DEF Goes
<1> QED
  BY CommandMoves, <1>1, <1>2, <1>3, <1>4, <1>5, <1>6, <1>7, <1>8, <1>9, <1>10, <1>11, <1>12
  DEF Storage!Handle

LEMMA DescriptorsStep ==
  ASSUME Storage!StorageAssumption, StorageInv, NEW c \in Conn, Storage!Accept(c) \/ Storage!ClientCloses(c) \/ Storage!Handle(c)
  PROVE  Descriptors'
<1> USE DEF Storage!StorageAssumption, StorageInv, StorageTypes, Labels, Served, InCommand, Descriptors
<1>1. CASE Storage!Accept(c)
  BY <1>1 DEF Storage!Accept
<1>2. CASE Storage!ClientCloses(c)
  BY <1>2 DEF Storage!ClientCloses
<1>3. CASE Storage!Start(c)
  BY <1>3 DEF Storage!Start, Storage!connections
<1>4. CASE Storage!Call(c)
  BY <1>4 DEF Storage!Call, Storage!connections
<1>5. CASE Storage!Read(c)
  BY <1>5 DEF Storage!Read
<1>6. CASE Storage!Lock(c)
  BY <1>6 DEF Storage!Lock, Storage!LockWhen, Storage!connections
<1>7. CASE Storage!Unlock(c)
  BY <1>7 DEF Storage!Unlock, Storage!connections
<1>8. CASE Storage!Close(c)
  BY <1>8 DEF Storage!Close, Storage!CloseOf
<1>9. CASE Storage!Wait(c)
  BY <1>9, WaitsForItsOwn
<1>10. CASE Goes(c, "wait")
  BY <1>10 DEF Goes
<1>11. CASE Goes(c, "unlock")
  BY <1>11 DEF Goes
<1>12. CASE Goes(c, "left")
  BY <1>12 DEF Goes
<1> QED
  BY CommandMoves, <1>1, <1>2, <1>3, <1>4, <1>5, <1>6, <1>7, <1>8, <1>9, <1>10, <1>11, <1>12
  DEF Storage!Handle

LEMMA AnswersStep ==
  ASSUME Storage!StorageAssumption, StorageInv, NEW c \in Conn, Storage!Accept(c) \/ Storage!ClientCloses(c) \/ Storage!Handle(c)
  PROVE  Storage!AnswersGoHome'
<1> USE DEF Storage!StorageAssumption, StorageInv, StorageTypes, Labels, Served, InCommand, Descriptors, Storage!AnswersGoHome
<1>1. CASE Storage!Accept(c)
  <2>1. PICK f \in Fd : fd[f] = None /\ clientSocket' = f /\ fd' = [fd EXCEPT ![f] = c]
    BY <1>1 DEF Storage!Accept
  <2>2. /\ pc[c] = "none" /\ pc' = [pc EXCEPT ![c] = "start"] /\ UNCHANGED <<sock, reads>>
        /\ ~overrun' => ~overrun /\ \A t \in Conn : pc[t] # "start"
    BY <1>1 DEF Storage!Accept
  <2>3. /\ fd'[f] = c /\ \A g \in Fd : g # f => fd'[g] = fd[g]
        /\ pc'[c] = "start" /\ \A t \in Conn : t # c => pc'[t] = pc[t]
    BY <2>1, <2>2
  <2>4. SUFFICES ASSUME ~overrun', NEW t \in Conn
                 PROVE  /\ pc'[t] = "start" => fd'[clientSocket'] = t
                        /\ pc'[t] \in Served => fd'[sock'[t]] = t
                        /\ reads'[t] \in {t, None}
                        /\ pc'[t] = "done" => \A g \in Fd : fd'[g] # t
    OBVIOUS
  <2>5. pc'[t] = "start" => t = c
    BY <2>2, <2>3, <2>4
  <2>6. pc'[t] \in Served => t # c /\ sock[t] \in Fd /\ sock[t] # f
    BY <2>1, <2>2, <2>3, <2>4
  <2>7. pc'[t] = "done" => t # c
    BY <2>3
  <2> QED
    BY <2>1, <2>2, <2>3, <2>4, <2>5, <2>6, <2>7
<1>2. CASE Storage!ClientCloses(c)
  BY <1>2 DEF Storage!ClientCloses
<1>3. CASE Storage!Start(c)
  BY <1>3 DEF Storage!Start, Storage!connections
<1>4. CASE Storage!Call(c)
  BY <1>4 DEF Storage!Call, Storage!connections
<1>5. CASE Storage!Read(c)
  BY <1>5 DEF Storage!Read
<1>6. CASE Storage!Lock(c)
  BY <1>6 DEF Storage!Lock, Storage!LockWhen, Storage!connections
<1>7. CASE Storage!Unlock(c)
  BY <1>7 DEF Storage!Unlock, Storage!connections
<1>8. CASE Storage!Close(c)
  <2>1. /\ pc[c] = "close" /\ fd' = [fd EXCEPT ![sock[c]] = None]
        /\ pc' = [pc EXCEPT ![c] = "done"] /\ sock' = [sock EXCEPT ![c] = 0]
        /\ UNCHANGED <<clientSocket, reads, overrun>>
    BY <1>8 DEF Storage!Close, Storage!CloseOf
  <2>2. SUFFICES ASSUME ~overrun, NEW t \in Conn
                 PROVE  /\ pc'[t] = "start" => fd'[clientSocket] = t
                        /\ pc'[t] \in Served => fd'[sock'[t]] = t
                        /\ reads[t] \in {t, None}
                        /\ pc'[t] = "done" => \A g \in Fd : fd'[g] # t
    BY <2>1
  <2>3. sock[c] \in Fd /\ fd[sock[c]] = c
    BY <2>1, <2>2
  <2>4. CASE t = c
    <3>1. pc'[c] = "done"
      BY <2>1
    <3>2. \A g \in Fd : fd'[g] # c
      <4>1. TAKE g \in Fd
      <4>2. \A x, y \in Fd : fd[x] = fd[y] /\ fd[x] # None => x = y
        BY DEF Descriptors
      <4>3. c # None
        OBVIOUS
      <4>4. fd[g] = c => g = sock[c]
        BY <2>3, <4>2, <4>3
      <4> QED
        BY <2>1, <2>3, <4>3, <4>4
    <3>3. reads[c] \in {c, None}
      BY <2>2
    <3> QED
      BY <2>4, <3>1, <3>2, <3>3
  <2>5. CASE t # c
    <3>1. pc'[t] = pc[t] /\ sock'[t] = sock[t]
      BY <2>1, <2>5
    <3>2. pc[t] \in Served => sock[t] \in Fd /\ sock[t] # sock[c]
      BY <2>2, <2>3, <2>5
    <3>3. pc[t] = "start" => clientSocket \in Fd /\ clientSocket # sock[c]
      BY <2>2, <2>3, <2>5
    <3> QED
      BY <2>1, <2>2, <3>1, <3>2, <3>3
  <2> QED
    BY <2>4, <2>5
<1>9. CASE Storage!Wait(c)
  BY <1>9, WaitsForItsOwn
<1>10. CASE Goes(c, "wait")
  BY <1>10 DEF Goes
<1>11. CASE Goes(c, "unlock")
  BY <1>11 DEF Goes
<1>12. CASE Goes(c, "left")
  BY <1>12 DEF Goes
<1> QED
  BY CommandMoves, <1>1, <1>2, <1>3, <1>4, <1>5, <1>6, <1>7, <1>8, <1>9, <1>10, <1>11, <1>12
  DEF Storage!Handle

LEMMA CreateData ==
  ASSUME Storage!StorageAssumption, StorageData, NEW t \in Conn, Storage!Create(t)
  PROVE  StorageData'
<1>1. PICK l \in {"wait", "unlock"} : Storage!Command(t, {"CREATE"}, l)
  BY DEF Storage!Create
<1>2. request' \in [Conn -> Requests] /\ UNCHANGED <<unread, home, overrun>>
  BY <1>1, CommandRequest
<1>3. Storage!Expand(request[t].path) \in Shared
  <2>1. request[t] \in Requests /\ request[t].op = "CREATE"
    BY DEF Storage!Create, StorageData
  <2> QED
    BY <2>1, RequestPath, ExpandedPath
<1>4. child' \in [Conn -> Storage!Work]
  <2>1. child \in [Conn -> Storage!Work]
    BY DEF StorageData
  <2>2. \A op \in {"touch", "mkdir"} : Storage!Fork(t, op, Storage!Expand(request[t].path)) => child' \in [Conn -> Storage!Work]
    BY <1>3, <2>1, NewWork, NewChild, ZenonT(40) DEF Storage!Fork
  <2> QED
    BY <2>1, <2>2 DEF Storage!Create, Storage!NoFork
<1>5. Tables'
  BY <1>3, EntryAdded DEF Storage!Create, StorageData
<1> QED
  BY <1>2, <1>4, <1>5 DEF Storage!Create, StorageData

LEMMA DeleteData ==
  ASSUME Storage!StorageAssumption, StorageData, NEW t \in Conn, Storage!Delete(t)
  PROVE  StorageData'
<1>1. PICK l \in {"wait", "unlock"} : Storage!Command(t, {"DELETE"}, l)
  BY DEF Storage!Delete
<1>2. request' \in [Conn -> Requests] /\ UNCHANGED <<unread, home, overrun>>
  BY <1>1, CommandRequest
<1>3. Storage!Expand(request[t].path) \in Shared
  <2>1. request[t] \in Requests /\ request[t].op = "DELETE"
    BY DEF Storage!Delete, StorageData
  <2> QED
    BY <2>1, RequestPath, ExpandedPath
<1>4. child' \in [Conn -> Storage!Work]
  <2>1. child \in [Conn -> Storage!Work]
    BY DEF StorageData
  <2>2. \A op \in {"rm", "rmdir"} : Storage!Fork(t, op, Storage!Expand(request[t].path)) => child' \in [Conn -> Storage!Work]
    BY <1>3, <2>1, NewWork, NewChild, ZenonT(40) DEF Storage!Fork
  <2> QED
    BY <2>1, <2>2 DEF Storage!Delete, Storage!NoFork
<1>5. Tables'
  <2>1. up' \in BOOLEAN
    BY DEF Storage!Delete
  <2>2. table' \in Seq(Storage!Entry) /\ Len(table') = Len(table)
    <3>1. table' = table \/ \E k : table' = [table EXCEPT ![k].live = FALSE, ![k].reg = FALSE]
      BY DEF Storage!Delete
    <3>2. table \in Seq(Storage!Entry)
      BY DEF StorageData, Tables
    <3> QED
      BY <3>1, <3>2, EntryFreed
  <2> QED
    BY <2>1, <2>2 DEF StorageData, Tables
<1> QED
  BY <1>2, <1>4, <1>5 DEF Storage!Delete, StorageData

LEMMA CopyDestData ==
  ASSUME StorageData, NEW t \in Conn, Storage!CopyDest(t)
  PROVE  StorageData'
<1>1. PICK l \in {"wait", "unlock"} : Storage!Command(t, {"COPYDEST"}, l)
  BY DEF Storage!CopyDest
<1>2. /\ request' \in [Conn -> Requests] /\ UNCHANGED <<unread, home, overrun>>
      /\ request[t].op = "COPYDEST"
  BY <1>1, CommandRequest
<1>3. request[t].path \in Shared
  <2>1. request[t] \in Requests
    BY DEF StorageData
  <2> QED
    BY <1>2, <2>1, RequestPath
<1>4. child' \in [Conn -> Storage!Work]
  <2>1. child \in [Conn -> Storage!Work]
    BY DEF StorageData
  <2> QED
    BY <1>3, <2>1, NewWork, NewChild DEF Storage!CopyDest, Storage!NoFork, Storage!Fork
<1> QED
  BY <1>2, <1>4 DEF Storage!CopyDest, StorageData, Tables, Storage!files

LEMMA ServedData ==
  ASSUME StorageData, NEW t \in Conn,
         \/ Storage!CreateFails(t) \/ Storage!FileFails(t) \/ Storage!FileServed(t) \/ Storage!LookUp(t)
  PROVE  StorageData'
<1>1. \E ops, l : Storage!Command(t, ops, l)
  BY DEF Storage!CreateFails, Storage!FileFails, Storage!FileServed, Storage!LookUp
<1>2. request' \in [Conn -> Requests] /\ UNCHANGED <<unread, home, overrun>>
  BY <1>1, CommandRequest
<1>3. UNCHANGED <<child, table, disk, up>>
  BY DEF Storage!CreateFails, Storage!FileFails, Storage!FileServed, Storage!LookUp, Storage!files
<1>4. client' \in [Conn -> {"waiting", "stop", "closed"}]
  BY DEF StorageData, Storage!CreateFails, Storage!FileFails, Storage!FileServed, Storage!LookUp
<1> QED
  BY <1>2, <1>3, <1>4 DEF StorageData, Tables

LEMMA WaitData ==
  ASSUME Storage!StorageAssumption, StorageData, NEW t \in Conn, Storage!Wait(t)
  PROVE  StorageData'
<1>1. disk' \in [Shared -> {"none", "file", "dir"}] /\ child' \in [Conn -> Storage!Work]
  BY DiskTypes, NewChild, NoWorkIsWork DEF Storage!Wait, StorageData
<1>2. request' \in [Conn -> Requests]
  BY NewRequest DEF Storage!Wait, StorageData, Requests
<1>3. Tables'
  <2>1. CASE UNCHANGED <<table, up>>
    BY <2>1 DEF StorageData, Tables
  <2>2. CASE request[t].op = "COPYDEST" /\ Storage!AddEntry(Storage!Expand(request[t].path))
    <3>1. request[t] \in Requests /\ Tables
      BY DEF StorageData
    <3> QED
      BY <2>2, <3>1, RequestPath, ExpandedPath, EntryAdded
  <2> QED
    BY <2>1, <2>2 DEF Storage!Wait
<1> QED
  BY <1>1, <1>2, <1>3 DEF Storage!Wait, StorageData, Storage!connections

LEMMA StorageDataStep ==
  ASSUME Storage!StorageAssumption, StorageInv, NEW c \in Conn, Storage!Accept(c) \/ Storage!ClientCloses(c) \/ Storage!Handle(c)
  PROVE  StorageData'
<1> USE DEF StorageInv, StorageData, Tables
<1>1. CASE Storage!Accept(c)
  BY <1>1 DEF Storage!Accept, Storage!files
<1>2. CASE Storage!ClientCloses(c)
  BY <1>2 DEF Storage!ClientCloses, Storage!files
<1>3. CASE Storage!Start(c)
  BY <1>3 DEF Storage!Start, Storage!connections, Storage!files
<1>4. CASE Storage!Call(c)
  BY <1>4 DEF Storage!Call, Storage!connections, Storage!files
<1>5. CASE Storage!Read(c)
  <2>1. request' \in [Conn -> Requests] /\ unread' \subseteq Conn
    BY <1>5, NewRequest DEF Storage!Read, Requests
  <2> QED
    BY <1>5, <2>1 DEF Storage!Read, Storage!files
<1>6. CASE Storage!Lock(c)
  <2>1. request' \in [Conn -> Requests]
    BY <1>6, NewRequest DEF Storage!Lock, Storage!LockWhen, Requests
  <2> QED
    BY <1>6, <2>1 DEF Storage!Lock, Storage!LockWhen, Storage!connections, Storage!files
<1>7. CASE Storage!Unlock(c)
  BY <1>7 DEF Storage!Unlock, Storage!connections, Storage!files
<1>8. CASE Storage!Close(c)
  BY <1>8 DEF Storage!Close, Storage!CloseOf, Storage!files
<1> HIDE DEF StorageData, Tables
<1> QED
  BY CreateData, DeleteData, CopyDestData, ServedData, WaitData,
     <1>1, <1>2, <1>3, <1>4, <1>5, <1>6, <1>7, <1>8 DEF Storage!Handle

LEMMA StorageIsTyped == ASSUME StorageInv PROVE Storage!TypeOK
BY DEF StorageInv, StorageTypes, StorageData, Tables, Storage!TypeOK, Labels, Served, InCommand, Requests

LEMMA StorageStutter == StorageInv /\ UNCHANGED Storage!vars => StorageInv'
BY DEF StorageInv, StorageTypes, StorageData, Tables, Holder, Descriptors, Storage!AnswersGoHome, Storage!vars

LEMMA StorageStep ==
  ASSUME Storage!StorageAssumption, StorageInv, [Storage!Next]_(Storage!vars)
  PROVE  StorageInv'
BY StorageTypesStep, StorageDataStep, HolderStep, DescriptorsStep, AnswersStep, StorageStutter
   DEF Storage!Next, StorageInv

(* The inductive invariant of a storage server holds in every state.       *)
THEOREM StorageSafety == ASSUME Storage!StorageAssumption PROVE Storage!Spec => []StorageInv
BY StorageInit, StorageStep, PTL DEF Storage!Spec

LEMMA OwnChild == ASSUME Storage!StorageAssumption, StorageInv PROVE Storage!OwnChildren
BY DEF StorageInv, Holder, Storage!OwnChildren, InCommand

(* wait(NULL), which takes any child, takes that of its own thread: it is  *)
(* the only one (storage_server.c:316, 333, 414, 430).                     *)
THEOREM OneChildAtATime == ASSUME Storage!StorageAssumption PROVE Storage!Spec => []Storage!OwnChildren
BY StorageSafety, OwnChild, PTL

(* A thread that waits for the mutex (storage_server.c:253) waits for one  *)
(* at work, or for one that returned with an error and never gives it back.*)
THEOREM LockIsAccountedFor == ASSUME Storage!StorageAssumption PROVE Storage!Spec => []Storage!LockAccountedFor
<1>1. ASSUME Storage!StorageAssumption, StorageInv PROVE Storage!LockAccountedFor
  BY <1>1 DEF StorageInv, StorageTypes, Holder, Storage!LockAccountedFor, InCommand
<1> QED
  BY StorageSafety, <1>1, PTL

(* Unless main() accepted too early, each thread answers its connection    *)
(* (storage_server.c:141 and 244).                                         *)
THEOREM AnswersReachTheirClient == ASSUME Storage!StorageAssumption PROVE Storage!Spec => []Storage!AnswersGoHome
BY StorageSafety, PTL DEF StorageInv

-----------------------------------------------------------------------------
(* hop and mark.  DirsInv is inductive: it is the type invariant, and that *)
(* no label is in the file twice.                                          *)

OneMarkEach == \A j, k \in 1..Len(marks) : marks[j].name = marks[k].name => j = k
DirsInv == Dirs!TypeOK /\ OneMarkEach

HopState ==
  [cwd : Directory, current : Dirs!Path, prev : Dirs!Path, error : BOOLEAN, moved : BOOLEAN,
   gone : BOOLEAN]

(* Unless an argument has failed, the shell knows where it is.             *)
Knows(s) == ~s.error => ~s.moved /\ s.current = s.cwd

LEMMA DirectoriesArePaths == Directory \subseteq Dirs!Path
BY DEF Dirs!Path

LEMMA ChangeMoves ==
  ASSUME exists \subseteq Directory, NEW s \in HopState, NEW path
  PROVE  /\ Dirs!Change(s, path) \in HopState
         /\ ~Dirs!Change(s, path).error =>
              /\ ~s.error /\ Dirs!Change(s, path).cwd = path /\ ~Dirs!Change(s, path).moved
              /\ Dirs!Change(s, path).current = IF s.moved THEN path ELSE s.current
<1> DEFINE t == IF path \in exists THEN [s EXCEPT !.cwd = path] ELSE [s EXCEPT !.error = TRUE]
<1>1. t \in HopState
  BY DEF HopState
<1>2. CASE t.moved /\ ~t.error
  <2>1. path \in exists /\ path \in Directory /\ path \in Dirs!Path
    BY <1>2, DirectoriesArePaths DEF HopState
  <2>2. Dirs!Change(s, path) = [t EXCEPT !.prev = t.current, !.current = path, !.moved = FALSE]
    BY <1>2 DEF Dirs!Change
  <2> QED
    BY <1>1, <1>2, <2>1, <2>2 DEF HopState
<1>3. CASE ~(t.moved /\ ~t.error)
  <2>1. Dirs!Change(s, path) = t
    BY <1>3 DEF Dirs!Change
  <2> QED
    BY <1>1, <1>3, <2>1 DEF HopState
<1> QED
  BY <1>2, <1>3

LEMMA ArgMoves ==
  ASSUME Dirs!DirsAssumption, exists \subseteq Directory, NEW a \in Arg \cup {Dirs!GoHome, Dirs!NoArg},
         NEW s \in HopState
  PROVE  Dirs!HopArg(s, a) \in HopState /\ (Knows(s) => Knows(Dirs!HopArg(s, a)))
<1> DEFINE h == Dirs!HopArg(s, a)
<1>1. a.kind \in {".", "~", "-", "..", "absolute", "relative"}
  BY DEF Dirs!DirsAssumption, Dirs!GoHome, Dirs!NoArg
<1>2. UserHome \in Directory /\ UserHome \in Dirs!Path /\ s.cwd \in Directory /\ s.prev \in Dirs!Path
      /\ s.current \in Dirs!Path
  BY DirectoriesArePaths DEF Dirs!DirsAssumption, HopState
<1>3. CASE a.kind = "." \/ s.gone
  BY <1>3 DEF Dirs!HopArg
<1>8. ASSUME NEW u \in HopState, NEW path, h = Dirs!Change(u, path),
             s.error => u.error, ~u.moved => u.current = path
      PROVE  h \in HopState /\ (Knows(s) => Knows(h))
  <2>1. ~h.error => ~s.error /\ h.cwd = path /\ h.current = path /\ ~h.moved
    <3> HIDE DEF h
    <3> QED
      BY <1>8, ChangeMoves
  <2>2. h \in HopState
    BY <1>8, ChangeMoves
  <2> QED
    BY <2>1, <2>2 DEF Knows
<1>4. CASE a.kind = "~" /\ ~s.gone
  <2> DEFINE u == [s EXCEPT !.prev = s.current, !.current = UserHome]
  <2>1. u \in HopState /\ u.error = s.error /\ u.current = UserHome
    BY <1>2 DEF HopState
  <2>2. h = Dirs!Change(u, UserHome)
    BY <1>4 DEF Dirs!HopArg
  <2> HIDE DEF u
  <2> QED
    BY <2>1, <2>2, <1>8
<1>5. CASE a.kind = "-" /\ ~s.gone
  <2> DEFINE u == [s EXCEPT !.prev = s.current, !.current = s.prev]
  <2>1. u \in HopState /\ u.error = s.error /\ u.current = s.prev
    BY <1>2 DEF HopState
  <2>2. h = Dirs!Change(u, s.prev)
    BY <1>5 DEF Dirs!HopArg
  <2> HIDE DEF u
  <2> QED
    BY <2>1, <2>2, <1>8
<1>6. CASE a.kind = ".." /\ ~s.gone
  <2> DEFINE u == [s EXCEPT !.moved = TRUE, !.prev = s.current,
                            !.current = IF Len(s.cwd) > 1 THEN Dirs!Parent(s.cwd) ELSE s.cwd]
  <2>1. Dirs!Parent(s.cwd) \in Directory
    BY <1>2 DEF Dirs!Parent, Dirs!DirsAssumption
  <2>2. u \in HopState /\ [s EXCEPT !.gone = TRUE] \in HopState /\ u.error = s.error /\ u.moved = TRUE
    BY <1>2, <2>1, DirectoriesArePaths DEF HopState
  <2>3. CASE s.cwd \in exists
    <3>1. h = Dirs!Change(u, Dirs!Parent(s.cwd))
      BY <1>6, <2>3 DEF Dirs!HopArg, Dirs!HopUp
    <3> HIDE DEF u
    <3> QED
      BY <2>2, <3>1, <1>8
  <2>4. CASE s.cwd \notin exists
    <3>1. h = [s EXCEPT !.gone = TRUE]
      BY <1>6, <2>4 DEF Dirs!HopArg
    <3> QED
      BY <2>2, <3>1 DEF Knows, HopState
  <2> QED
    BY <2>3, <2>4
<1>7. ASSUME a.kind = "absolute" \/ a.kind = "relative", ~s.gone
      PROVE  h \in HopState /\ (Knows(s) => Knows(h))
  <2> DEFINE u == [s EXCEPT !.moved = TRUE]
  <2>1. u \in HopState /\ u.error = s.error /\ u.moved = TRUE
    BY DEF HopState
  <2>2. PICK path : h = Dirs!Change(u, path)
    BY <1>7 DEF Dirs!HopArg
  <2> HIDE DEF u
  <2> QED
    BY <2>1, <2>2, <1>8
<1> QED
  BY <1>1, <1>3, <1>4, <1>5, <1>6, <1>7

-----------------------------------------------------------------------------
LEMMA DirsInit == ASSUME Dirs!DirsAssumption, Dirs!Init PROVE DirsInv
<1>1. marks \in Seq(Dirs!Mark) /\ Len(marks) = 0 /\ Len(marks) <= MARK_MAX
  BY DEF Dirs!Init, Dirs!DirsAssumption
<1>2. OneMarkEach
  BY <1>1 DEF OneMarkEach
<1> QED
  BY <1>1, <1>2, DirectoriesArePaths DEF Dirs!DirsAssumption, Dirs!Init, DirsInv, Dirs!TypeOK

(* No label, two bookmarks: with k gone the lines after it move up.        *)
LEMMA RemoveKeeps ==
  ASSUME NEW S, NEW s \in Seq(S), NEW k \in 1..Len(s)
  PROVE  /\ Dirs!RemoveAt(s, k) \in Seq(S) /\ Len(Dirs!RemoveAt(s, k)) = Len(s) - 1
         /\ \A j \in 1..(Len(s) - 1) :
              Dirs!RemoveAt(s, k)[j] = IF j < k THEN s[j] ELSE s[j + 1]
<1> DEFINE before == SubSeq(s, 1, k - 1)
           after == SubSeq(s, k + 1, Len(s))
<1>1. before \in Seq(S) /\ Len(before) = k - 1 /\ \A j \in 1..(k - 1) : before[j] = s[j]
  OBVIOUS
<1>2. /\ after \in Seq(S) /\ Len(after) = Len(s) - k
      /\ \A j \in 1..(Len(s) - k) : after[j] = s[j + k]
  OBVIOUS
<1>3. Dirs!RemoveAt(s, k) = before \o after
  BY DEF Dirs!RemoveAt
<1> HIDE DEF before, after
<1>4. /\ before \o after \in Seq(S) /\ Len(before \o after) = Len(before) + Len(after)
      /\ \A j \in 1..(Len(before) + Len(after)) :
           (before \o after)[j] = IF j <= Len(before) THEN before[j] ELSE after[j - Len(before)]
  BY <1>1, <1>2, ConcatProperties
<1>5. Len(s) \in Nat /\ k \in Nat /\ Len(before) + Len(after) = Len(s) - 1
  BY <1>1, <1>2
<1>6. ASSUME NEW j \in 1..(Len(s) - 1)
      PROVE  (before \o after)[j] = IF j < k THEN s[j] ELSE s[j + 1]
  <2>1. CASE j < k
    BY <1>1, <1>4, <1>5, <2>1
  <2>2. CASE ~(j < k)
    <3>1. j - (k - 1) \in 1..(Len(s) - k) /\ (j - (k - 1)) + k = j + 1
      BY <1>5, <2>2
    <3>2. (before \o after)[j] = after[j - (k - 1)]
      BY <1>1, <1>4, <1>5, <2>2, SMTT(30)
    <3> QED
      BY <1>2, <2>2, <3>1, <3>2
  <2> QED
    BY <2>1, <2>2
<1> QED
  BY <1>3, <1>4, <1>5, <1>6

LEMMA DirsStep ==
  ASSUME Dirs!DirsAssumption, DirsInv, [Dirs!Next]_(Dirs!vars)
  PROVE  DirsInv' /\ Dirs!Followed
<1> USE DEF DirsInv
<1>0. OneMarkEach <=> \A j, k \in 1..Len(marks) : marks[j].name = marks[k].name => j = k
  BY DEF OneMarkEach
<1>1. CASE Dirs!HandleHop
  <2>1. PICK a \in Arg \cup {Dirs!GoHome}, b \in Arg \cup {Dirs!NoArg} :
          Dirs!At(Dirs!HopArg(Dirs!HopArg(Dirs!Here, a), b))
          /\ on' = ~Dirs!HopArg(Dirs!HopArg(Dirs!Here, a), b).gone
    BY <1>1 DEF Dirs!HandleHop
  <2>2. Dirs!Here \in HopState
    BY ZenonT(30) DEF Dirs!Here, HopState, Dirs!TypeOK
  <2> DEFINE h == Dirs!HopArg(Dirs!HopArg(Dirs!Here, a), b)
  <2>3. h \in HopState /\ (Knows(Dirs!Here) => Knows(h))
    BY <2>2, ArgMoves DEF Dirs!TypeOK
  <2>4. UNCHANGED <<exists, marks>>
    BY <1>1 DEF Dirs!HandleHop
  <2>5. Dirs!TypeOK'
    BY <2>1, <2>3, <2>4 DEF Dirs!TypeOK, Dirs!At, HopState
  <2>6. ~error' /\ currentDir = cwd => currentDir' = cwd'
    BY <2>1, <2>3 DEF Dirs!At, Knows, Dirs!Here
  <2> QED
    BY <2>4, <2>5, <2>6 DEF OneMarkEach, Dirs!Followed
<1>2. CASE Dirs!AddMark
  <2>1. PICK n \in Label :
          IF Dirs!Named(n) # {}
          THEN marks' = [marks EXCEPT ![CHOOSE k \in Dirs!Named(n) : TRUE].path = currentDir]
          ELSE \/ Len(marks) < MARK_MAX /\ marks' = Append(marks, [name |-> n, path |-> currentDir])
               \/ UNCHANGED marks
    BY <1>2 DEF Dirs!AddMark
  <2>2. error' \in BOOLEAN /\ UNCHANGED <<exists, cwd, currentDir, prevDir, on>>
    BY <1>2 DEF Dirs!AddMark
  <2>3. CASE Dirs!Named(n) # {}
    <3>1. PICK k \in 1..Len(marks) : marks' = [marks EXCEPT ![k].path = currentDir]
      BY <2>1, <2>3 DEF Dirs!Named
    <3>2. /\ marks' \in Seq(Dirs!Mark) /\ Len(marks') = Len(marks)
          /\ \A j \in 1..Len(marks) : marks'[j].name = marks[j].name
      <4> DEFINE m == [marks[k] EXCEPT !.path = currentDir]
      <4>1. marks \in Seq(Dirs!Mark) /\ marks[k] \in Dirs!Mark
        BY DEF Dirs!TypeOK
      <4>2. m \in Dirs!Mark /\ m.name = marks[k].name
        BY <4>1 DEF Dirs!Mark, Dirs!TypeOK
      <4>3. marks' = [marks EXCEPT ![k] = m]
        BY <3>1
      <4> HIDE DEF m
      <4> QED
        BY <4>1, <4>2, <4>3
    <3> QED
      BY <2>2, <3>2 DEF OneMarkEach, Dirs!Followed, Dirs!TypeOK
  <2>4. ASSUME Dirs!Named(n) = {}, Len(marks) < MARK_MAX,
               marks' = Append(marks, [name |-> n, path |-> currentDir])
        PROVE  DirsInv' /\ Dirs!Followed
    <3>1. [name |-> n, path |-> currentDir] \in Dirs!Mark
      BY DEF Dirs!Mark, Dirs!TypeOK
    <3>2. /\ marks' \in Seq(Dirs!Mark) /\ Len(marks') = Len(marks) + 1 /\ marks'[Len(marks) + 1].name = n
          /\ \A j \in 1..Len(marks) : marks'[j].name = marks[j].name
      <4>1. marks \in Seq(Dirs!Mark)
        BY DEF Dirs!TypeOK
      <4> DEFINE m == [name |-> n, path |-> currentDir]
      <4>2. m.name = n
        OBVIOUS
      <4> HIDE DEF m
      <4>3. /\ Append(marks, m) \in Seq(Dirs!Mark) /\ Len(Append(marks, m)) = Len(marks) + 1
            /\ Append(marks, m)[Len(marks) + 1] = m
            /\ \A j \in 1..Len(marks) : Append(marks, m)[j] = marks[j]
        BY <3>1, <4>1 DEF m
      <4> QED
        BY <2>4, <4>2, <4>3 DEF m
    <3>3. \A j \in 1..Len(marks) : marks[j].name # n
      BY <2>4 DEF Dirs!Named
    <3>4. Len(marks) \in Nat /\ \A j \in 1..Len(marks') : j = Len(marks) + 1 \/ j \in 1..Len(marks)
      BY <3>2 DEF Dirs!TypeOK
    <3>5. OneMarkEach'
      BY <3>2, <3>3, <3>4 DEF OneMarkEach
    <3> QED
      BY <2>2, <2>4, <3>2, <3>5 DEF OneMarkEach, Dirs!Followed, Dirs!TypeOK, Dirs!DirsAssumption
  <2>5. CASE UNCHANGED marks
    BY <2>2, <2>5 DEF OneMarkEach, Dirs!Followed, Dirs!TypeOK
  <2> QED
    BY <2>1, <2>3, <2>4, <2>5
<1>3. CASE Dirs!GoToMark
  <2>1. PICK n \in Label :
          IF \E k \in Dirs!Named(n) : marks[k].path \in exists
          THEN Dirs!At([cwd |-> marks[CHOOSE k \in Dirs!Named(n) : TRUE].path,
                        current |-> marks[CHOOSE k \in Dirs!Named(n) : TRUE].path,
                        prev |-> currentDir, error |-> FALSE])
          ELSE error' = TRUE /\ UNCHANGED <<cwd, currentDir, prevDir>>
    BY <1>3 DEF Dirs!GoToMark
  <2>2. UNCHANGED <<exists, marks, on>>
    BY <1>3 DEF Dirs!GoToMark
  <2>3. ASSUME NEW k \in Dirs!Named(n), marks[k].path \in exists
        PROVE  DirsInv' /\ Dirs!Followed
    <3>1. (CHOOSE j \in Dirs!Named(n) : TRUE) = k
      BY <2>3, <1>0 DEF Dirs!Named
    <3>2. cwd' = marks[k].path /\ currentDir' = marks[k].path /\ prevDir' = currentDir /\ error' = FALSE
      BY <2>1, <2>3, <3>1 DEF Dirs!At
    <3> QED
      BY <2>2, <2>3, <3>2, DirectoriesArePaths DEF OneMarkEach, Dirs!Followed, Dirs!TypeOK
  <2>4. CASE ~\E k \in Dirs!Named(n) : marks[k].path \in exists
    BY <2>1, <2>2, <2>4 DEF OneMarkEach, Dirs!Followed, Dirs!TypeOK
  <2> QED
    BY <2>3, <2>4
<1>4. CASE Dirs!DeleteMark
  <2>1. error' \in BOOLEAN /\ UNCHANGED <<exists, cwd, currentDir, prevDir, on>>
    BY <1>4 DEF Dirs!DeleteMark
  <2>2. ASSUME NEW k \in 1..Len(marks), marks' = Dirs!RemoveAt(marks, k)
        PROVE  DirsInv' /\ Dirs!Followed
    <3>1. /\ marks' \in Seq(Dirs!Mark) /\ Len(marks') = Len(marks) - 1
          /\ \A j \in 1..(Len(marks) - 1) : marks'[j] = IF j < k THEN marks[j] ELSE marks[j + 1]
      BY <2>2, RemoveKeeps, SMTT(30) DEF Dirs!TypeOK
    <3>2. Len(marks) \in Nat /\ Len(marks') <= MARK_MAX
      BY <3>1 DEF Dirs!TypeOK, Dirs!DirsAssumption
    <3>3. OneMarkEach'
      BY <3>1, <3>2, <1>0, SMTT(30) DEF OneMarkEach
    <3> QED
      BY <2>1, <3>1, <3>2, <3>3 DEF OneMarkEach, Dirs!Followed, Dirs!TypeOK
  <2>3. CASE UNCHANGED marks
    BY <2>1, <2>3 DEF OneMarkEach, Dirs!Followed, Dirs!TypeOK
  <2>4. UNCHANGED marks \/ \E k \in 1..Len(marks) : marks' = Dirs!RemoveAt(marks, k)
    BY <1>4 DEF Dirs!DeleteMark, Dirs!Named
  <2> QED
    BY <2>2, <2>3, <2>4
<1>5. CASE Dirs!Others
  BY <1>5 DEF Dirs!Others, Dirs!dirs, OneMarkEach, Dirs!Followed, Dirs!TypeOK, Dirs!DirsAssumption
<1>6. CASE UNCHANGED Dirs!vars
  BY <1>6 DEF Dirs!vars, Dirs!dirs, OneMarkEach, Dirs!Followed, Dirs!TypeOK
<1> QED
  BY <1>1, <1>2, <1>3, <1>4, <1>5, <1>6 DEF Dirs!Next

-----------------------------------------------------------------------------
(* The C-Shell's history.  A ring is a list that starts at front and is as *)
(* long as size; rear is one before the slot that is filled next.          *)

HistoryQueue ==
  [items : [0..(MAX_SIZE - 1) -> History!PlainLine], front : 0..(MAX_SIZE - 1),
   rear : -1..(MAX_SIZE - 1), size : 0..MAX_SIZE]

\* The slot of the k-th line.
SlotOf(q, k) == (q.front + k - 1) % MAX_SIZE

Ring(q) ==
  /\ q \in HistoryQueue
  /\ (q.rear + 1) % MAX_SIZE = (q.front + q.size) % MAX_SIZE
  /\ q.rear = -1 => q.size = 0

LEMMA OnceAround ==
  ASSUME NEW n \in Nat \ {0}, NEW x \in 0..(2 * n - 1)
  PROVE  (x % n) = (IF x < n THEN x ELSE x - n) /\ x % n \in 0..(n - 1)
<1>1. CASE x < n
  BY <1>1, ModOfSmall
<1>2. CASE ~(x < n)
  <2>1. x \in n..(2 * n - 1)
    BY <1>2
  <2>2. x % n = x - n
    BY <2>1, ModOfNext
  <2> QED
    BY <1>2, <2>2
<1> QED
  BY <1>1, <1>2

(* The slots of a ring of m slots that starts at f, is s long, and was     *)
(* filled last at r.                                                       *)
Turns(m, f, r, s) ==
  /\ (r + 1) % m \in 0..(m - 1) /\ (f + 1) % m \in 0..(m - 1) /\ (f + s) % m \in 0..(m - 1)
  /\ \A k \in 1..m : (f + k - 1) % m \in 0..(m - 1)
  /\ (r + m) % m \in 0..(m - 1)
  /\ r # -1 => (r + m) % m = r
  /\ s > 0 => r # -1 /\ r = (f + s - 1) % m
  /\ s # m => (((r + 1) % m) + 1) % m = (f + (s + 1)) % m
  /\ s = m => /\ (r + 1) % m = f
              /\ (((r + 1) % m) + 1) % m = (((f + 1) % m) + m) % m
  /\ \A n \in 1..s : (r - n + 1 + m) % m = (f + (s + 1 - n) - 1) % m
  /\ s # m => \A k \in 1..s : (f + k - 1) % m # (r + 1) % m
  /\ s = m => \A k \in 1..(m - 1) : /\ (((f + 1) % m) + k - 1) % m = (f + (k + 1) - 1) % m
                                    /\ (f + (k + 1) - 1) % m # f
  /\ (((f + 1) % m) + m - 1) % m = f

LEMMA RingArithmetic ==
  ASSUME NEW m \in Nat \ {0}, NEW f \in 0..(m - 1), NEW r \in -1..(m - 1), NEW s \in 0..m,
         (r + 1) % m = (f + s) % m, r = -1 => s = 0
  PROVE  Turns(m, f, r, s)
<1> DEFINE W(x) == IF x < m THEN x ELSE x - m
<1>1. \A x \in 0..(2 * m - 1) : x % m = W(x) /\ x % m \in 0..(m - 1)
  BY OnceAround
<1>2. /\ (r + 1) % m = W(r + 1) /\ (f + 1) % m = W(f + 1) /\ (f + s) % m = W(f + s)
      /\ (r + 1) % m \in 0..(m - 1) /\ (f + 1) % m \in 0..(m - 1) /\ (f + s) % m \in 0..(m - 1)
  <2>1. r + 1 \in 0..(2 * m - 1) /\ f + 1 \in 0..(2 * m - 1) /\ f + s \in 0..(2 * m - 1)
    OBVIOUS
  <2> QED
    BY <1>1, <2>1
<1>3. \A k \in 1..m : (f + k - 1) % m = W(f + k - 1) /\ (f + k - 1) % m \in 0..(m - 1)
  <2>1. \A k \in 1..m : f + k - 1 \in 0..(2 * m - 1)
    OBVIOUS
  <2> QED
    BY <1>1, <2>1
<1>4. (r + m) % m = W(r + m) /\ (r + m) % m \in 0..(m - 1)
  <2>1. r + m \in 0..(2 * m - 1)
    OBVIOUS
  <2> QED
    BY <1>1, <2>1
<1>5. r # -1 => (r + m) % m = r
  BY <1>4
<1>6. W(r + 1) = W(f + s)
  BY <1>2
<1>7. ASSUME s > 0 PROVE r # -1 /\ r = (f + s - 1) % m
  <2>1. r # -1 /\ r = W(f + s - 1)
    BY <1>6, <1>7
  <2>2. (f + s - 1) % m = W(f + s - 1)
    BY <1>3, <1>7
  <2> QED
    BY <2>1, <2>2
<1>8. (W(r + 1) + 1) % m = W(W(r + 1) + 1)
  <2>1. W(r + 1) + 1 \in 0..(2 * m - 1)
    OBVIOUS
  <2> QED
    BY <1>1, <2>1
<1>9. ASSUME s # m PROVE (((r + 1) % m) + 1) % m = (f + (s + 1)) % m
  <2>1. f + (s + 1) \in 0..(2 * m - 1)
    BY <1>9
  <2>2. (f + (s + 1)) % m = W(f + (s + 1))
    BY <1>1, <2>1
  <2>3. W(W(r + 1) + 1) = W(f + (s + 1))
    BY <1>6, <1>9
  <2> QED
    BY <1>2, <1>8, <2>2, <2>3
<1>10. ASSUME s = m
       PROVE  (r + 1) % m = f /\ (((r + 1) % m) + 1) % m = (((f + 1) % m) + m) % m
  <2>1. W(r + 1) = f
    BY <1>6, <1>10
  <2>2. W(f + 1) + m \in 0..(2 * m - 1)
    OBVIOUS
  <2>3. (W(f + 1) + m) % m = W(W(f + 1) + m)
    BY <1>1, <2>2
  <2>4. W(W(r + 1) + 1) = W(W(f + 1) + m)
    BY <2>1
  <2> QED
    BY <1>2, <1>8, <2>1, <2>3, <2>4
<1>11. ASSUME NEW n \in 1..s PROVE (r - n + 1 + m) % m = (f + (s + 1 - n) - 1) % m
  <2>1. r - n + 1 + m \in 0..(2 * m - 1) /\ f + (s + 1 - n) - 1 \in 0..(2 * m - 1)
    <3>1. r + 1 = f + s \/ r + 1 = f + s - m \/ r + 1 = f + s + m
      BY <1>6
    <3> QED
      BY <3>1, <1>6
  <2>2. (r - n + 1 + m) % m = W(r - n + 1 + m) /\ (f + (s + 1 - n) - 1) % m = W(f + (s + 1 - n) - 1)
    BY <1>1, <2>1
  <2>3. W(r - n + 1 + m) = W(f + (s + 1 - n) - 1)
    BY <1>6
  <2> QED
    BY <2>2, <2>3
<1>12. ASSUME s # m, NEW k \in 1..s PROVE (f + k - 1) % m # (r + 1) % m
  <2>1. W(f + k - 1) # W(f + s)
    BY <1>12
  <2> QED
    BY <1>2, <1>3, <1>6, <2>1
<1>13. ASSUME NEW k \in 1..(m - 1)
       PROVE  (((f + 1) % m) + k - 1) % m = (f + (k + 1) - 1) % m /\ (f + (k + 1) - 1) % m # f
  <2>1. W(f + 1) + k - 1 \in 0..(2 * m - 1) /\ f + (k + 1) - 1 \in 0..(2 * m - 1)
    OBVIOUS
  <2>2. /\ (W(f + 1) + k - 1) % m = W(W(f + 1) + k - 1)
        /\ (f + (k + 1) - 1) % m = W(f + (k + 1) - 1)
    BY <1>1, <2>1
  <2>3. W(W(f + 1) + k - 1) = W(f + (k + 1) - 1) /\ W(f + (k + 1) - 1) # f
    OBVIOUS
  <2> QED
    BY <1>2, <2>2, <2>3
<1>14. (((f + 1) % m) + m - 1) % m = f
  <2>1. W(f + 1) + m - 1 \in 0..(2 * m - 1)
    OBVIOUS
  <2>2. (W(f + 1) + m - 1) % m = W(W(f + 1) + m - 1)
    BY <1>1, <2>1
  <2>3. W(W(f + 1) + m - 1) = f
    OBVIOUS
  <2> QED
    BY <1>2, <2>2, <2>3
<1> QED
  BY <1>2, <1>3, <1>4, <1>5, <1>7, <1>9, <1>10, <1>11, <1>12, <1>13, <1>14 DEF Turns

LEMMA RingFields ==
  ASSUME History!HistoryAssumption, NEW q, Ring(q)
  PROVE  /\ MAX_SIZE \in Nat \ {0} /\ q.front \in 0..(MAX_SIZE - 1) /\ q.rear \in -1..(MAX_SIZE - 1)
         /\ q.size \in 0..MAX_SIZE /\ q.items \in [0..(MAX_SIZE - 1) -> History!PlainLine]
         /\ (q.rear + 1) % MAX_SIZE = (q.front + q.size) % MAX_SIZE
         /\ q.rear = -1 => q.size = 0
         /\ q = [items |-> q.items, front |-> q.front, rear |-> q.rear, size |-> q.size]
BY DEF Ring, HistoryQueue, History!HistoryAssumption

(* What the ring contains, and its latest line.                            *)
LEMMA ContentsAre ==
  ASSUME History!HistoryAssumption, NEW q, Ring(q)
  PROVE  /\ History!Contents(q) = [k \in 1..q.size |-> q.items[SlotOf(q, k)]]
         /\ \A k \in 1..q.size : SlotOf(q, k) \in 0..(MAX_SIZE - 1)
         /\ History!Contents(q) \in Seq(History!PlainLine)
         /\ Len(History!Contents(q)) = q.size /\ q.size \in 0..MAX_SIZE
         /\ History!Latest(q) \in History!PlainLine
         /\ q.size > 0 => History!Latest(q) = History!Contents(q)[q.size]
<1>1. PICK f, r, s, a : f = q.front /\ r = q.rear /\ s = q.size /\ a = q.items
  OBVIOUS
<1>2. /\ MAX_SIZE \in Nat \ {0} /\ f \in 0..(MAX_SIZE - 1) /\ r \in -1..(MAX_SIZE - 1)
      /\ s \in 0..MAX_SIZE /\ a \in [0..(MAX_SIZE - 1) -> History!PlainLine]
      /\ (r + 1) % MAX_SIZE = (f + s) % MAX_SIZE /\ (r = -1 => s = 0)
  BY <1>1, RingFields
<1>3. /\ \A k \in 1..MAX_SIZE : (f + k - 1) % MAX_SIZE \in 0..(MAX_SIZE - 1)
      /\ (r + MAX_SIZE) % MAX_SIZE \in 0..(MAX_SIZE - 1)
      /\ r # -1 => (r + MAX_SIZE) % MAX_SIZE = r
      /\ s > 0 => r # -1 /\ r = (f + s - 1) % MAX_SIZE
  <2>1. Turns(MAX_SIZE, f, r, s)
    BY <1>2, RingArithmetic
  <2> QED
    BY <2>1 DEF Turns
<1>4. History!Contents(q) = [k \in 1..q.size |-> q.items[SlotOf(q, k)]]
  BY DEF History!Contents, SlotOf
<1>5. \A k \in 1..s : SlotOf(q, k) \in 0..(MAX_SIZE - 1)
  <2>1. ASSUME NEW k \in 1..s PROVE SlotOf(q, k) \in 0..(MAX_SIZE - 1)
    <3>1. SlotOf(q, k) = (f + k - 1) % MAX_SIZE /\ k \in 1..MAX_SIZE
      BY <1>1, <1>2 DEF SlotOf
    <3> QED
      BY <1>3, <3>1
  <2> QED
    BY <2>1
<1>6. \A k \in 1..s : a[SlotOf(q, k)] \in History!PlainLine
  BY <1>2, <1>5
<1>7. History!Contents(q) \in [1..s -> History!PlainLine]
  BY <1>1, <1>4, <1>6
<1>8. History!Contents(q) \in Seq(History!PlainLine) /\ Len(History!Contents(q)) = s
  BY <1>2, <1>7
<1>9. History!Latest(q) = a[(r + MAX_SIZE) % MAX_SIZE]
  BY <1>1 DEF History!Latest
<1>10. History!Latest(q) \in History!PlainLine
  BY <1>2, <1>3, <1>9
<1>11. ASSUME s > 0 PROVE History!Latest(q) = History!Contents(q)[s]
  <2>0. SlotOf(q, s) = (f + s - 1) % MAX_SIZE
    BY <1>1 DEF SlotOf
  <2>1. History!Latest(q) = a[r] /\ r = SlotOf(q, s) /\ s \in 1..s
    BY <1>2, <1>3, <1>9, <1>11, <2>0
  <2> QED
    BY <1>1, <1>4, <2>1
<1> QED
  BY <1>1, <1>2, <1>4, <1>5, <1>8, <1>10, <1>11

LEMMA SameQueue ==
  ASSUME NEW q \in HistoryQueue, NEW e \in HistoryQueue,
         q.items = e.items, q.front = e.front, q.rear = e.rear, q.size = e.size
  PROVE  q = e
<1>1. q = [items |-> q.items, front |-> q.front, rear |-> q.rear, size |-> q.size]
  BY DEF HistoryQueue
<1>2. e = [items |-> e.items, front |-> e.front, rear |-> e.rear, size |-> e.size]
  BY DEF HistoryQueue
<1> QED
  BY <1>1, <1>2

Fills(q, line, slot) == [q EXCEPT !.items[slot] = line, !.rear = slot, !.size = @ + 1]

LEMMA Filled ==
  ASSUME NEW q \in HistoryQueue, NEW line \in History!PlainLine, NEW slot \in 0..(MAX_SIZE - 1),
         q.size + 1 \in 0..MAX_SIZE,
         NEW e, e = Fills(q, line, slot)
  PROVE  /\ e \in HistoryQueue /\ e.items = [q.items EXCEPT ![slot] = line]
         /\ e.front = q.front /\ e.rear = slot /\ e.size = q.size + 1
<1>1. PICK z, t : z = [q.items EXCEPT ![slot] = line] /\ t = q.size + 1
  OBVIOUS
<1>2. z \in [0..(MAX_SIZE - 1) -> History!PlainLine] /\ slot \in -1..(MAX_SIZE - 1) /\ t \in 0..MAX_SIZE
  BY <1>1 DEF HistoryQueue
<1>3. e = [q EXCEPT !.items = z, !.rear = slot, !.size = t]
  BY <1>1 DEF HistoryQueue, Fills
<1>4. e \in HistoryQueue
  BY <1>2, <1>3 DEF HistoryQueue
<1>5. e.items = z /\ e.front = q.front /\ e.rear = slot /\ e.size = t
  BY <1>3 DEF HistoryQueue
<1> QED
  BY <1>1, <1>4, <1>5

LEMMA EnqueueFields ==
  ASSUME History!HistoryAssumption, NEW q \in HistoryQueue, NEW line \in History!PlainLine,
         NEW e, e = History!Enqueue(q, line)
  PROVE  /\ e \in HistoryQueue
         /\ e.items = [q.items EXCEPT ![(q.rear + 1) % MAX_SIZE] = line]
         /\ e.front = IF q.size = MAX_SIZE THEN (q.front + 1) % MAX_SIZE ELSE q.front
         /\ e.rear = (q.rear + 1) % MAX_SIZE
         /\ e.size = IF q.size = MAX_SIZE THEN MAX_SIZE ELSE q.size + 1
<1>1. MAX_SIZE \in Nat \ {0}
  BY DEF History!HistoryAssumption
<1>2. PICK g, slot : g = (q.front + 1) % MAX_SIZE /\ slot = (q.rear + 1) % MAX_SIZE
  OBVIOUS
<1>3. g \in 0..(MAX_SIZE - 1) /\ slot \in 0..(MAX_SIZE - 1)
  <2>1. /\ q.front + 1 \in 0..(2 * MAX_SIZE - 1) /\ q.rear + 1 \in 0..(2 * MAX_SIZE - 1)
        /\ q.front + 1 \in Int /\ q.rear + 1 \in Int
    BY <1>1 DEF HistoryQueue
  <2>2. (q.front + 1) % MAX_SIZE \in 0..(MAX_SIZE - 1)
    BY <1>1, <2>1, OnceAround
  <2>3. (q.rear + 1) % MAX_SIZE \in 0..(MAX_SIZE - 1)
    BY <1>1, <2>1, OnceAround
  <2> QED
    BY <1>2, <2>2, <2>3
<1>4. CASE q.size = MAX_SIZE
  <2>1. PICK t, d : t = q.size - 1 /\ d = [q EXCEPT !.front = g, !.size = t]
    OBVIOUS
  <2>2. t \in 0..MAX_SIZE /\ t + 1 = MAX_SIZE /\ MAX_SIZE \in 0..MAX_SIZE
    BY <1>1, <1>4, <2>1
  <2>3. d = History!Dequeue(q)
    BY <1>2, <2>1 DEF History!Dequeue
  <2>4. d \in HistoryQueue
    BY <1>3, <2>1, <2>2 DEF HistoryQueue
  <2>5. d.items = q.items /\ d.front = g /\ d.rear = q.rear /\ d.size = t
    BY <2>1 DEF HistoryQueue
  <2>6. e = Fills(d, line, slot)
    BY <1>2, <1>4, <2>3, <2>5 DEF History!Enqueue, History!IsFull, Fills
  <2>7. /\ e \in HistoryQueue /\ e.items = [q.items EXCEPT ![slot] = line]
        /\ e.front = g /\ e.rear = slot /\ e.size = MAX_SIZE
    BY <1>3, <2>2, <2>4, <2>5, <2>6, Filled
  <2> QED
    BY <1>2, <1>4, <2>7
<1>5. CASE q.size # MAX_SIZE
  <2>1. e = Fills(q, line, slot)
    BY <1>2, <1>5 DEF History!Enqueue, History!IsFull, Fills
  <2>2. q.size + 1 \in 0..MAX_SIZE
    BY <1>1, <1>5 DEF HistoryQueue
  <2>3. /\ e \in HistoryQueue /\ e.items = [q.items EXCEPT ![slot] = line]
        /\ e.front = q.front /\ e.rear = slot /\ e.size = q.size + 1
    BY <1>3, <2>1, <2>2, Filled
  <2> QED
    BY <1>2, <1>5, <2>3
<1> QED
  BY <1>4, <1>5

LEMMA EnqueueIs ==
  ASSUME History!HistoryAssumption, NEW q, Ring(q), NEW line \in History!PlainLine,
         NEW e, e = History!Enqueue(q, line)
  PROVE  /\ Ring(e)
         /\ History!Latest(e) = line
         /\ History!Contents(e) = List!Newest(Append(History!Contents(q), line))
<1> DEFINE M == MAX_SIZE
           C == History!Contents(q)
<1>1. PICK f, r, s, a : f = q.front /\ r = q.rear /\ s = q.size /\ a = q.items
  OBVIOUS
<1>2. /\ M \in Nat \ {0} /\ f \in 0..(M - 1) /\ r \in -1..(M - 1)
      /\ s \in 0..M /\ a \in [0..(M - 1) -> History!PlainLine]
      /\ (r + 1) % M = (f + s) % M /\ (r = -1 => s = 0)
  BY <1>1, RingFields
<1>3. PICK slot, z : slot = (r + 1) % M /\ z = [a EXCEPT ![slot] = line]
  OBVIOUS
<1>4. /\ e.items = z /\ e.rear = slot
      /\ e.front = (IF s = M THEN (f + 1) % M ELSE f)
      /\ e.size = (IF s = M THEN M ELSE s + 1)
      /\ e \in HistoryQueue
  <2>1. q \in HistoryQueue
    BY DEF Ring
  <2>2. /\ e \in HistoryQueue
        /\ e.items = [q.items EXCEPT ![(q.rear + 1) % MAX_SIZE] = line]
        /\ e.front = IF q.size = MAX_SIZE THEN (q.front + 1) % MAX_SIZE ELSE q.front
        /\ e.rear = (q.rear + 1) % MAX_SIZE
        /\ e.size = IF q.size = MAX_SIZE THEN MAX_SIZE ELSE q.size + 1
    BY <2>1, EnqueueFields
  <2> QED
    BY <1>1, <1>3, <2>2
<1>5. /\ slot \in 0..(M - 1) /\ (f + 1) % M \in 0..(M - 1)
      /\ \A k \in 1..M : (f + k - 1) % M \in 0..(M - 1)
      /\ s # M => (slot + 1) % M = (f + (s + 1)) % M
      /\ s = M => slot = f /\ (slot + 1) % M = (((f + 1) % M) + M) % M
      /\ s # M => \A k \in 1..s : (f + k - 1) % M # slot
      /\ s = M => \A k \in 1..(M - 1) : /\ (((f + 1) % M) + k - 1) % M = (f + (k + 1) - 1) % M
                                        /\ (f + (k + 1) - 1) % M # f
      /\ (((f + 1) % M) + M - 1) % M = f
  <2>1. Turns(M, f, r, s)
    BY <1>2, RingArithmetic
  <2> QED
    BY <1>3, <2>1 DEF Turns
<1>6. Ring(e)
  <2>1. (slot + 1) % M = (e.front + e.size) % M
    BY <1>4, <1>5
  <2>2. slot # -1
    BY <1>2, <1>5
  <2> QED
    BY <1>4, <2>1, <2>2 DEF Ring
<1>7. /\ C \in Seq(History!PlainLine) /\ Len(C) = s
      /\ \A k \in 1..s : C[k] = a[(f + k - 1) % M]
  BY <1>1, ContentsAre DEF SlotOf
<1>8. /\ History!Contents(e) \in Seq(History!PlainLine) /\ Len(History!Contents(e)) = e.size
      /\ History!Contents(e) = [k \in 1..e.size |-> e.items[SlotOf(e, k)]]
      /\ e.size > 0 => History!Latest(e) = History!Contents(e)[e.size]
  BY <1>6, ContentsAre
<1> HIDE DEF C
<1>9. PICK D : D = Append(C, line)
  OBVIOUS
<1>10. /\ D \in Seq(History!PlainLine) /\ Len(D) = s + 1
       /\ \A k \in 1..s : D[k] = a[(f + k - 1) % M]
       /\ D[s + 1] = line
  BY <1>7, <1>9
<1>11. z[slot] = line /\ \A k \in 0..(M - 1) : k # slot => z[k] = a[k]
  BY <1>2, <1>3, <1>5
<1>12. \A k \in 1..e.size : History!Contents(e)[k] = z[(e.front + k - 1) % M]
  BY <1>4, <1>8 DEF SlotOf
<1>13. CASE s # M
  <2>1. e.size = s + 1 /\ e.front = f /\ List!Newest(D) = D
    BY <1>2, <1>4, <1>10, <1>13 DEF List!Newest
  <2>2. ASSUME NEW k \in 1..(s + 1) PROVE History!Contents(e)[k] = D[k]
    <3>1. History!Contents(e)[k] = z[(f + k - 1) % M]
      BY <1>12, <2>1
    <3>2. CASE k = s + 1
      <4>1. f + k - 1 = f + s
        BY <1>2, <3>2
      <4> QED
        BY <1>2, <1>3, <1>10, <1>11, <3>1, <3>2, <4>1
    <3>3. CASE k # s + 1
      <4>1. k \in 1..s /\ k \in 1..M
        BY <1>2, <3>3
      <4> QED
        BY <1>5, <1>10, <1>11, <1>13, <3>1, <4>1
    <3> QED
      BY <3>2, <3>3
  <2>3. History!Contents(e) = D
    BY <1>8, <1>10, <2>1, <2>2, SeqEqual
  <2>4. History!Latest(e) = line
    BY <1>2, <1>8, <1>10, <2>1, <2>3
  <2> QED
    BY <1>6, <1>9, <2>1, <2>3, <2>4 DEF C
<1>14. CASE s = M
  <2>1. e.size = M /\ e.front = (f + 1) % M /\ List!Newest(D) = Tail(D)
    BY <1>2, <1>4, <1>10, <1>14 DEF List!Newest
  <2>2. /\ Tail(D) \in Seq(History!PlainLine) /\ Len(Tail(D)) = M
        /\ \A k \in 1..M : Tail(D)[k] = D[k + 1]
    <3>1. D # <<>> /\ Len(D) - 1 = M
      <4>1. Len(D) = s + 1 /\ s = M /\ M \in Nat
        BY <1>2, <1>10, <1>14
      <4>2. Len(D) - 1 = M
        BY <4>1
      <4> QED
        BY <4>1, <4>2
    <3>2. /\ Tail(D) \in Seq(History!PlainLine) /\ Len(Tail(D)) = Len(D) - 1
          /\ \A k \in 1..Len(Tail(D)) : Tail(D)[k] = D[k + 1]
      BY <1>10, <3>1, HeadTailProperties
    <3>3. Len(Tail(D)) = M
      BY <3>1, <3>2
    <3> QED
      BY <3>2, <3>3
  <2>3. ASSUME NEW k \in 1..M PROVE History!Contents(e)[k] = Tail(D)[k]
    <3>1. History!Contents(e)[k] = z[(((f + 1) % M) + k - 1) % M]
      BY <1>12, <2>1
    <3>2. CASE k = M
      <4>1. (((f + 1) % M) + k - 1) % M = slot
        BY <1>5, <1>14, <3>2
      <4>2. k \in 1..M /\ D[k + 1] = line
        BY <1>10, <1>14, <3>2
      <4> QED
        BY <4>1, <4>2, <3>1, <2>2, <1>11
    <3>3. CASE k # M
      <4>1. k \in 1..(M - 1) /\ k + 1 \in 1..M
        BY <1>2, <3>3
      <4>2. PICK x : x = (f + (k + 1) - 1) % M
        OBVIOUS
      <4>3. x \in 0..(M - 1) /\ x # slot /\ (((f + 1) % M) + k - 1) % M = x
        BY <4>1, <4>2, <1>5, <1>14
      <4>4. D[k + 1] = a[x]
        BY <4>1, <4>2, <1>10, <1>14
      <4> QED
        BY <4>3, <4>4, <3>1, <2>2, <1>11
    <3> QED
      BY <3>2, <3>3
  <2>4. History!Contents(e) = Tail(D)
    <3>1. /\ Len(History!Contents(e)) = Len(Tail(D))
          /\ \A k \in 1..Len(History!Contents(e)) : History!Contents(e)[k] = Tail(D)[k]
      BY <1>8, <2>1, <2>2, <2>3
    <3> QED
      BY <1>8, <2>2, <3>1, SeqEqual
  <2>5. History!Latest(e) = line
    <3>1. M > 0 /\ M \in 1..M /\ M + 1 = s + 1
      BY <1>2, <1>14
    <3> QED
      BY <1>8, <1>10, <2>1, <2>2, <2>4, <3>1
  <2> QED
    BY <1>6, <1>9, <2>1, <2>4, <2>5 DEF C
<1> QED
  BY <1>13, <1>14

(* The queue after the lines of the file: no slot is used twice.           *)
Loaded(lines, n) ==
  [items |-> [k \in 0..(MAX_SIZE - 1) |-> IF k < n THEN lines[k + 1] ELSE <<>>],
   front |-> 0, rear |-> n - 1, size |-> n]

LEMMA LoadedNext ==
  ASSUME History!HistoryAssumption, NEW lines \in Seq(History!PlainLine), Len(lines) <= MAX_SIZE,
         NEW n \in 1..Len(lines)
  PROVE  History!Enqueue(Loaded(lines, n - 1), lines[n]) = Loaded(lines, n)
<1> DEFINE a(m) == [k \in 0..(MAX_SIZE - 1) |-> IF k < m THEN lines[k + 1] ELSE <<>>]
<1>1. MAX_SIZE \in Nat \ {0} /\ Len(lines) \in Nat /\ n <= MAX_SIZE /\ n \in Nat \ {0}
  BY DEF History!HistoryAssumption
<1>2. ASSUME NEW m \in 0..Len(lines)
      PROVE  /\ Loaded(lines, m) \in HistoryQueue /\ Loaded(lines, m).items = a(m)
             /\ Loaded(lines, m).front = 0 /\ Loaded(lines, m).rear = m - 1
             /\ Loaded(lines, m).size = m
  <2>1. <<>> \in History!PlainLine /\ \A k \in 1..Len(lines) : lines[k] \in History!PlainLine
    BY DEF History!PlainLine
  <2>2. ASSUME NEW k \in 0..(MAX_SIZE - 1)
        PROVE  (IF k < m THEN lines[k + 1] ELSE <<>>) \in History!PlainLine
    <3>1. k < m => k + 1 \in 1..Len(lines)
      BY <1>1
    <3> QED
      BY <2>1, <3>1
  <2>3. a(m) \in [0..(MAX_SIZE - 1) -> History!PlainLine]
    BY <2>2
  <2>4. 0 \in 0..(MAX_SIZE - 1) /\ m - 1 \in -1..(MAX_SIZE - 1) /\ m \in 0..MAX_SIZE
    BY <1>1
  <2> QED
    BY <2>3, <2>4 DEF Loaded, HistoryQueue
<1>3. PICK q, r, s : q = Loaded(lines, n - 1) /\ r = n - 1 - 1 /\ s = n - 1
  OBVIOUS
<1>4. s \in 0..Len(lines) /\ n \in 0..Len(lines) /\ r + 1 = s /\ s + 1 = n /\ s # MAX_SIZE /\ s \in 0..(MAX_SIZE - 1)
  BY <1>1, <1>3
<1>5. /\ q \in HistoryQueue /\ q.items = a(s) /\ q.front = 0 /\ q.rear = r /\ q.size = s
  BY <1>2, <1>3, <1>4
<1>6. (q.rear + 1) % MAX_SIZE = s
  BY <1>1, <1>4, <1>5, ModOfSmall
<1>7. PICK e : e = History!Enqueue(q, lines[n])
  OBVIOUS
<1>8. /\ e \in HistoryQueue
      /\ e.items = [q.items EXCEPT ![(q.rear + 1) % MAX_SIZE] = lines[n]]
      /\ e.front = IF q.size = MAX_SIZE THEN (q.front + 1) % MAX_SIZE ELSE q.front
      /\ e.rear = (q.rear + 1) % MAX_SIZE
      /\ e.size = IF q.size = MAX_SIZE THEN MAX_SIZE ELSE q.size + 1
  <2>1. lines[n] \in History!PlainLine
    BY <1>1
  <2>2. q \in HistoryQueue
    BY <1>5
  <2> QED
    BY <1>7, <2>1, <2>2, EnqueueFields
<1>9. [a(s) EXCEPT ![s] = lines[n]] = a(n)
  <2>1. ASSUME NEW k \in 0..(MAX_SIZE - 1)
        PROVE  (IF k = s THEN lines[n] ELSE a(s)[k]) = a(n)[k]
    BY <1>1, <1>4
  <2> QED
    BY <1>4, <2>1
<1> HIDE DEF a
<1>10. e.items = a(n) /\ e.front = 0 /\ e.rear = s /\ e.size = n
  BY <1>4, <1>5, <1>6, <1>8, <1>9
<1>11. e = Loaded(lines, n)
  BY <1>2, <1>3, <1>4, <1>8, <1>10, SameQueue
<1> QED
  BY <1>3, <1>7, <1>11

LEMMA EnqueueAllIs ==
  ASSUME History!HistoryAssumption, NEW lines \in Seq(History!PlainLine), Len(lines) <= MAX_SIZE
  PROVE  History!EnqueueAll(History!InitQueue, lines) = Loaded(lines, Len(lines))
<1> DEFINE N == Len(lines)
           Q == History!InitQueue
           after == CHOOSE f : f = [n \in 0..N |-> IF n = 0 THEN Q ELSE History!Enqueue(f[n - 1], lines[n])]
           g == [n \in 0..N |-> Loaded(lines, n)]
           Same == {n \in 0..N : after[n] = g[n]}
<1>1. MAX_SIZE \in Nat \ {0} /\ N \in Nat
  BY DEF History!HistoryAssumption
<1>2. Loaded(lines, 0) = Q
  <2>1. \A k \in 0..(MAX_SIZE - 1) : ~(k < 0)
    BY <1>1
  <2>2. 0 - 1 = -1
    OBVIOUS
  <2> QED
    BY <2>1, <2>2 DEF Loaded, History!InitQueue
<1>3. History!EnqueueAll(Q, lines) = after[N]
  BY DEF History!EnqueueAll
<1> HIDE DEF Q
<1>4. \A n \in 1..N : g[n] = History!Enqueue(g[n - 1], lines[n])
  BY <1>1, LoadedNext
<1>5. g = [n \in 0..N |-> IF n = 0 THEN Q ELSE History!Enqueue(g[n - 1], lines[n])]
  <2>1. \A n \in 0..N : g[n] = IF n = 0 THEN Q ELSE History!Enqueue(g[n - 1], lines[n])
    BY <1>1, <1>2, <1>4, SMTT(30)
  <2>2. g = [n \in 0..N |-> g[n]]
    OBVIOUS
  <2> HIDE DEF g
  <2> QED
    BY <2>1, <2>2
<1>6. after = [n \in 0..N |-> IF n = 0 THEN Q ELSE History!Enqueue(after[n - 1], lines[n])]
  BY <1>5
<1> HIDE DEF after
<1>7. 0 \in Same
  BY <1>1, <1>2, <1>6
<1> HIDE DEF g
<1>8. ASSUME NEW k \in 0..(N - 1), k \in Same PROVE k + 1 \in Same
  <2>1. k + 1 \in 0..N /\ k + 1 \in 1..N /\ k + 1 # 0 /\ k + 1 - 1 = k
    BY <1>1
  <2>2. after[k + 1] = History!Enqueue(after[k], lines[k + 1])
    BY <1>6, <2>1
  <2>3. g[k + 1] = History!Enqueue(g[k + 1 - 1], lines[k + 1])
    BY <1>4, <2>1
  <2> QED
    BY <1>8, <2>1, <2>2, <2>3
<1> HIDE DEF Same
<1>9. N \in Same
  <2> HIDE DEF N
  <2>1. 0..N \subseteq Same
    BY <1>1, <1>7, <1>8, StepByStep
  <2> QED
    BY <1>1, <2>1
<1> QED
  BY <1>1, <1>3, <1>9 DEF Same, Q, g

LEMMA StartIs ==
  ASSUME History!HistoryAssumption, NEW lines \in Seq(History!PlainLine), Len(lines) <= MAX_SIZE,
         NEW q, q = History!EnqueueAll(History!InitQueue, lines)
  PROVE  /\ Ring(q) /\ History!Contents(q) = lines
         /\ History!Latest(q) = IF lines = <<>> THEN <<>> ELSE lines[Len(lines)]
<1> DEFINE N == Len(lines)
<1>1. MAX_SIZE \in Nat \ {0} /\ N \in 0..MAX_SIZE
  BY DEF History!HistoryAssumption
<1>a. q = Loaded(lines, N)
  BY EnqueueAllIs
<1>2. /\ q.items = [k \in 0..(MAX_SIZE - 1) |-> IF k < N THEN lines[k + 1] ELSE <<>>]
      /\ q.front = 0 /\ q.rear = N - 1 /\ q.size = N
      /\ q = [items |-> q.items, front |-> 0, rear |-> N - 1, size |-> N]
  BY <1>a DEF Loaded
<1>3. <<>> \in History!PlainLine /\ \A k \in 1..N : lines[k] \in History!PlainLine
  BY DEF History!PlainLine
<1>4. q.items \in [0..(MAX_SIZE - 1) -> History!PlainLine]
  BY <1>1, <1>2, <1>3
<1>5. Ring(q)
  <2>1. q \in HistoryQueue
    BY <1>1, <1>2, <1>4 DEF HistoryQueue
  <2>2. N - 1 + 1 = 0 + N
    BY <1>1
  <2>3. (q.rear + 1) % MAX_SIZE = (q.front + q.size) % MAX_SIZE
    BY <1>2, <2>2
  <2> QED
    BY <1>1, <1>2, <2>1, <2>3 DEF Ring
<1>6. History!Contents(q) = lines
  <2>1. /\ History!Contents(q) = [k \in 1..q.size |-> q.items[SlotOf(q, k)]]
        /\ History!Contents(q) \in Seq(History!PlainLine) /\ Len(History!Contents(q)) = q.size
    BY <1>5, ContentsAre
  <2>2. ASSUME NEW k \in 1..N PROVE q.items[SlotOf(q, k)] = lines[k]
    <3>1. 0 + k - 1 = k - 1 /\ k - 1 \in 0..(MAX_SIZE - 1) /\ k - 1 < N /\ k - 1 + 1 = k
      BY <1>1
    <3>2. SlotOf(q, k) = k - 1
      BY <1>1, <1>2, <3>1, ModOfSmall DEF SlotOf
    <3> QED
      BY <1>2, <3>1, <3>2
  <2>3. /\ Len(History!Contents(q)) = Len(lines)
        /\ \A k \in 1..Len(History!Contents(q)) : History!Contents(q)[k] = lines[k]
    <3>1. q.size = N /\ Len(History!Contents(q)) = N
      BY <1>2, <2>1
    <3>2. \A k \in 1..N : History!Contents(q)[k] = lines[k]
      BY <2>1, <2>2, <3>1
    <3> QED
      BY <3>1, <3>2, Zenon
  <2> QED
    BY <2>1, <2>3, SeqEqual
<1>7. CASE lines = <<>>
  <2>1. q.items[MAX_SIZE - 1] = <<>> /\ -1 + MAX_SIZE = MAX_SIZE - 1 /\ q.rear = -1
    BY <1>1, <1>2, <1>7
  <2>2. (q.rear + MAX_SIZE) % MAX_SIZE = MAX_SIZE - 1
    BY <1>1, <2>1, ModOfSmall
  <2> QED
    BY <1>5, <1>6, <1>7, <2>1, <2>2 DEF History!Latest
<1>8. CASE lines # <<>>
  <2>1. N > 0
    BY <1>8
  <2> QED
    BY <1>2, <1>5, <1>6, <1>8, <2>1, ContentsAre
<1> QED
  BY <1>5, <1>6, <1>7, <1>8

(* What the commands of a line leave of the loop's state.                  *)
LoopState ==
  [q : HistoryQueue, logged : BOOLEAN, status : BOOLEAN, exec : History!PlainLine \cup {History!NoLine}]

LEMMA Lines ==
  /\ History!NoLine \notin History!PlainLine
  /\ \A c \in History!Plain : c.does \in {"run", "exit"}
  /\ History!Exit \in History!Plain /\ History!Exit.does = "exit"
  /\ \A c \in History!LogCommand :
       c.does \in {"log", "purge", "execute"} /\ (c.does = "execute" => c.n \in 1..MAX_SIZE)
<1>1. \A c \in History!Plain : c.does \in {"run", "exit"}
  BY DEF History!Plain, History!Exit, History!Command
<1>2. History!Exit \in History!Plain /\ History!Exit.does = "exit"
  BY DEF History!Plain, History!Exit, History!Command
<1>3. \A c \in History!LogCommand :
        c.does \in {"log", "purge", "execute"} /\ (c.does = "execute" => c.n \in 1..MAX_SIZE)
  BY DEF History!LogCommand, History!Command
<1>4. History!NoLine \notin History!PlainLine
  <2>1. History!Command("none", 0).does = "none"
    BY DEF History!Command
  <2>2. \A c \in History!Plain : c # History!Command("none", 0)
    BY <1>1, <2>1
  <2>3. \A c : <<c>> = History!NoLine => c = History!Command("none", 0)
    BY DEF History!NoLine
  <2>4. <<>> # History!NoLine
    BY DEF History!NoLine
  <2> QED
    BY <2>2, <2>3, <2>4 DEF History!PlainLine
<1> QED
  BY <1>1, <1>2, <1>3, <1>4

LEMMA RunAllIs ==
  ASSUME NEW s, NEW c
  PROVE  /\ History!RunAll(s, <<>>) = s
         /\ History!RunAll(s, <<c>>) = History!RunCommand(s, c)
<1> DEFINE R(t, b) == History!RunCommand(t, b)
           f(line) == CHOOSE g : g = [n \in 0..Len(line) |-> IF n = 0 THEN s ELSE R(g[n - 1], line[n])]
           h == [n \in 0..1 |-> IF n = 0 THEN s ELSE R(s, c)]
           none == [n \in 0..0 |-> s]
<1> HIDE DEF R
<1>1. \A line : History!RunAll(s, line) = f(line)[Len(line)]
  BY DEF History!RunAll, R
<1>2. h = [n \in 0..Len(<<c>>) |-> IF n = 0 THEN s ELSE R(h[n - 1], <<c>>[n])]
  <2>1. h[0] = s /\ h[1] = R(s, c)
    OBVIOUS
  <2>2. Len(<<c>>) = 1 /\ <<c>>[1] = c /\ 1 - 1 = 0
    OBVIOUS
  <2>3. ASSUME NEW n \in 0..1 PROVE h[n] = IF n = 0 THEN s ELSE R(h[n - 1], <<c>>[n])
    <3>1. n = 0 \/ n = 1
      OBVIOUS
    <3> QED
      BY <2>1, <2>2, <3>1
  <2> QED
    BY <2>2, <2>3
<1>3. none = [n \in 0..Len(<<>>) |-> IF n = 0 THEN s ELSE R(none[n - 1], <<>>[n])]
  OBVIOUS
<1>4. f(<<>>) = [n \in 0..Len(<<>>) |-> IF n = 0 THEN s ELSE R(f(<<>>)[n - 1], <<>>[n])]
  BY <1>3
<1>5. f(<<c>>) = [n \in 0..Len(<<c>>) |-> IF n = 0 THEN s ELSE R(f(<<c>>)[n - 1], <<c>>[n])]
  BY <1>2
<1> HIDE DEF f
<1>6. f(<<>>)[Len(<<>>)] = s
  BY <1>4
<1>7. f(<<c>>)[Len(<<c>>)] = R(s, c)
  <2>1. f(<<c>>)[0] = s
    BY <1>5
  <2>2. f(<<c>>)[1] = R(f(<<c>>)[1 - 1], <<c>>[1])
    BY <1>5
  <2> QED
    BY <2>1, <2>2
<1> QED
  BY <1>1, <1>6, <1>7 DEF R

LEMMA RunTwo ==
  ASSUME NEW s, NEW c, NEW d, NEW line, line = <<c, d>>
  PROVE  History!RunAll(s, line) = History!RunCommand(History!RunCommand(s, c), d)
<1> DEFINE R(t, b) == History!RunCommand(t, b)
           f == CHOOSE g : g = [n \in 0..Len(line) |-> IF n = 0 THEN s ELSE R(g[n - 1], line[n])]
           h == [n \in 0..2 |-> IF n = 0 THEN s ELSE IF n = 1 THEN R(s, c) ELSE R(R(s, c), d)]
<1> HIDE DEF R
<1>1. History!RunAll(s, line) = f[Len(line)]
  BY DEF History!RunAll, R
<1>2. Len(line) = 2 /\ line[1] = c /\ line[2] = d /\ 1 - 1 = 0 /\ 2 - 1 = 1
  OBVIOUS
<1>3. h = [n \in 0..2 |-> IF n = 0 THEN s ELSE R(h[n - 1], line[n])]
  <2>1. h[0] = s /\ h[1] = R(s, c) /\ h[2] = R(R(s, c), d)
    OBVIOUS
  <2>2. ASSUME NEW n \in 0..2 PROVE h[n] = IF n = 0 THEN s ELSE R(h[n - 1], line[n])
    <3>1. n = 0 \/ n = 1 \/ n = 2
      OBVIOUS
    <3> QED
      BY <1>2, <2>1, <3>1
  <2> QED
    BY <2>2
<1>4. f = [n \in 0..2 |-> IF n = 0 THEN s ELSE R(f[n - 1], line[n])]
  BY <1>2, <1>3
<1> HIDE DEF f
<1>5. f[0] = s
  BY <1>4
<1>6. f[1] = R(f[1 - 1], line[1])
  BY <1>4
<1>7. f[2] = R(f[2 - 1], line[2])
  BY <1>4
<1> QED
  BY <1>1, <1>2, <1>5, <1>6, <1>7 DEF R

LEMMA ExitIs ==
  ASSUME NEW s \in LoopState, NEW c, c.does = "exit", NEW e, e = History!RunCommand(s, c)
  PROVE  e \in LoopState /\ e.q = s.q /\ e.logged = s.logged /\ e.exec = s.exec /\ ~e.status
<1>1. e = [s EXCEPT !.status = FALSE]
  BY DEF History!RunCommand
<1> QED
  BY <1>1 DEF LoopState

LEMMA RunIs ==
  ASSUME NEW s, NEW c, c.does = "run" PROVE History!RunCommand(s, c) = s
BY DEF History!RunCommand

LEMMA LogIs ==
  ASSUME NEW s \in LoopState, NEW c, c.does = "log", NEW e, e = History!RunCommand(s, c)
  PROVE  e \in LoopState /\ e.q = s.q /\ e.logged /\ e.exec = s.exec
<1>1. e = [s EXCEPT !.logged = TRUE]
  BY DEF History!RunCommand
<1> QED
  BY <1>1 DEF LoopState

LEMMA PurgeIs ==
  ASSUME History!HistoryAssumption,
         NEW s \in LoopState, Ring(s.q), NEW c, c.does = "purge", NEW e, e = History!RunCommand(s, c)
  PROVE  /\ e \in LoopState /\ e.logged /\ e.exec = s.exec /\ Ring(e.q)
         /\ History!Contents(e.q) = <<>> /\ History!Latest(e.q) = History!Latest(s.q)
<1>1. PICK f : f = (s.q.front + s.q.size) % MAX_SIZE
  OBVIOUS
<1>2. e = [s EXCEPT !.logged = TRUE, !.q.front = f, !.q.size = 0]
  BY <1>1 DEF History!RunCommand
<1>3. /\ MAX_SIZE \in Nat \ {0} /\ f \in 0..(MAX_SIZE - 1)
      /\ (s.q.rear + 1) % MAX_SIZE = f
  <2>1. /\ MAX_SIZE \in Nat \ {0} /\ s.q.front \in 0..(MAX_SIZE - 1) /\ s.q.size \in 0..MAX_SIZE
        /\ (s.q.rear + 1) % MAX_SIZE = (s.q.front + s.q.size) % MAX_SIZE
    BY RingFields
  <2>2. s.q.front + s.q.size \in 0..(2 * MAX_SIZE - 1)
    BY <2>1
  <2>3. (s.q.front + s.q.size) % MAX_SIZE \in 0..(MAX_SIZE - 1)
    BY <2>1, <2>2, OnceAround
  <2> QED
    BY <1>1, <2>1, <2>3
<1>4. s.q \in HistoryQueue
  BY DEF LoopState
<1>5. PICK p : p = [s.q EXCEPT !.front = f, !.size = 0]
  OBVIOUS
<1>6. p \in HistoryQueue
  <2>1. 0 \in 0..MAX_SIZE
    BY <1>3
  <2> QED
    BY <1>3, <1>4, <1>5, <2>1 DEF HistoryQueue
<1>7. p.items = s.q.items /\ p.front = f /\ p.rear = s.q.rear /\ p.size = 0
  BY <1>4, <1>5 DEF HistoryQueue
<1>8. e = [s EXCEPT !.logged = TRUE, !.q = p]
  BY <1>2, <1>4, <1>5 DEF LoopState
<1>9. e \in LoopState /\ e.logged /\ e.exec = s.exec /\ e.q = p
  BY <1>6, <1>8 DEF LoopState
<1>10. Ring(p)
  <2>1. (f + 0) % MAX_SIZE = f
    BY <1>3, ModOfSmall
  <2> QED
    BY <1>3, <1>6, <1>7, <2>1 DEF Ring
<1>11. History!Contents(p) = <<>>
  <2>1. History!Contents(p) \in Seq(History!PlainLine) /\ Len(History!Contents(p)) = 0
    BY <1>7, <1>10, ContentsAre
  <2> QED
    BY <2>1, EmptySeq
<1>12. History!Latest(p) = History!Latest(s.q)
  BY <1>7 DEF History!Latest
<1> QED
  BY <1>9, <1>10, <1>11, <1>12

LEMMA ExecuteIs ==
  ASSUME History!HistoryAssumption, NEW s \in LoopState, Ring(s.q),
         NEW c, c.does = "execute", c.n \in 1..MAX_SIZE, NEW e, e = History!RunCommand(s, c)
  PROVE  /\ e \in LoopState /\ e.logged /\ e.q = s.q
         /\ \/ e.exec = s.exec
            \/ /\ c.n <= s.q.size /\ e.exec \in History!PlainLine
               /\ e.exec = History!Contents(s.q)[s.q.size + 1 - c.n]
<1>1. CASE s.q.size < c.n
  <2>1. e = [s EXCEPT !.logged = TRUE]
    BY <1>1 DEF History!RunCommand
  <2> QED
    BY <2>1 DEF LoopState
<1>2. CASE ~(s.q.size < c.n)
  <2>1. PICK f, r, z, a, n : f = s.q.front /\ r = s.q.rear /\ z = s.q.size /\ a = s.q.items /\ n = c.n
    OBVIOUS
  <2>2. /\ MAX_SIZE \in Nat \ {0} /\ f \in 0..(MAX_SIZE - 1) /\ r \in -1..(MAX_SIZE - 1)
        /\ z \in 0..MAX_SIZE /\ a \in [0..(MAX_SIZE - 1) -> History!PlainLine]
        /\ (r + 1) % MAX_SIZE = (f + z) % MAX_SIZE /\ (r = -1 => z = 0)
    BY <2>1, RingFields
  <2>3. n \in 1..z /\ z + 1 - n \in 1..z /\ z + 1 - n \in 1..MAX_SIZE
    <3>1. ~(z < n) /\ n \in 1..MAX_SIZE
      BY <1>2, <2>1
    <3>2. MAX_SIZE \in Nat /\ z \in 0..MAX_SIZE
      BY <2>2
    <3> QED
      BY <3>1, <3>2
  <2>4. PICK line : line = a[(r - n + 1 + MAX_SIZE) % MAX_SIZE]
    OBVIOUS
  <2>5. Turns(MAX_SIZE, f, r, z)
    BY <2>2, RingArithmetic
  <2>6. (r - n + 1 + MAX_SIZE) % MAX_SIZE = (f + (z + 1 - n) - 1) % MAX_SIZE
    BY <2>3, <2>5 DEF Turns
  <2>7. line = History!Contents(s.q)[z + 1 - n]
    BY <2>1, <2>3, <2>4, <2>6 DEF History!Contents
  <2>8. line \in History!PlainLine
    <3>1. History!Contents(s.q) \in Seq(History!PlainLine) /\ Len(History!Contents(s.q)) = z
      BY <2>1, ContentsAre
    <3> QED
      BY <2>3, <2>7, <3>1
  <2>9. e = [s EXCEPT !.logged = TRUE, !.status = FALSE, !.exec = line]
    BY <1>2, <2>1, <2>4 DEF History!RunCommand
  <2>10. e \in LoopState /\ e.logged /\ e.q = s.q /\ e.exec = line
    BY <2>8, <2>9 DEF LoopState
  <2> QED
    BY <2>1, <2>2, <2>3, <2>7, <2>8, <2>10
<1> QED
  BY <1>1, <1>2

(* What one log command makes of the lines: nothing, nothing left, or the  *)
(* line to run next.                                                       *)
LogOutcome(s, e) ==
  /\ e \in LoopState /\ e.logged /\ Ring(e.q)
  /\ History!Latest(e.q) = History!Latest(s.q)
  /\ \/ History!Contents(e.q) = History!Contents(s.q) /\ e.exec = s.exec
     \/ History!Contents(e.q) = <<>> /\ e.exec = s.exec
     \/ /\ History!Contents(e.q) = History!Contents(s.q)
        /\ \E n \in 1..s.q.size : e.exec = History!Contents(s.q)[s.q.size + 1 - n]
        /\ e.exec \in History!PlainLine

LEMMA LogRuns ==
  ASSUME History!HistoryAssumption, NEW s \in LoopState, Ring(s.q), NEW c \in History!LogCommand
  PROVE  LogOutcome(s, History!RunCommand(s, c))
<1>1. PICK e : e = History!RunCommand(s, c)
  OBVIOUS
<1>2. CASE c.does = "log"
  BY <1>1, <1>2, LogIs DEF LogOutcome
<1>3. CASE c.does = "purge"
  <2>1. /\ e \in LoopState /\ e.logged /\ e.exec = s.exec /\ Ring(e.q)
        /\ History!Contents(e.q) = <<>> /\ History!Latest(e.q) = History!Latest(s.q)
    BY <1>1, <1>3, PurgeIs
  <2> QED
    BY <1>1, <2>1 DEF LogOutcome
<1>4. CASE c.does = "execute"
  <2>1. c.n \in 1..MAX_SIZE
    BY <1>4, Lines
  <2>2. /\ e \in LoopState /\ e.logged /\ e.q = s.q
        /\ \/ e.exec = s.exec
           \/ /\ c.n <= s.q.size /\ e.exec \in History!PlainLine
              /\ e.exec = History!Contents(s.q)[s.q.size + 1 - c.n]
    BY <1>1, <1>4, <2>1, ExecuteIs
  <2>3. c.n <= s.q.size => c.n \in 1..s.q.size
    BY <2>1, RingFields
  <2> QED
    BY <1>1, <2>2, <2>3 DEF LogOutcome
<1> QED
  BY <1>2, <1>3, <1>4, Lines

LEMMA ExitAfter ==
  ASSUME NEW s, NEW t, LogOutcome(s, t), NEW c, c.does = "exit"
  PROVE  LogOutcome(s, History!RunCommand(t, c))
<1>1. PICK e : e = History!RunCommand(t, c)
  OBVIOUS
<1>2. e \in LoopState /\ e.q = t.q /\ e.logged = t.logged /\ e.exec = t.exec
  BY <1>1, ExitIs DEF LogOutcome
<1> QED
  BY <1>1, <1>2 DEF LogOutcome

LEMMA PlainRuns ==
  ASSUME NEW s \in LoopState, NEW line \in History!PlainLine, NEW e, e = History!RunAll(s, line)
  PROVE  e \in LoopState /\ e.q = s.q /\ e.logged = s.logged /\ e.exec = s.exec
<1>1. CASE line = <<>>
  BY <1>1, RunAllIs
<1>2. CASE line # <<>>
  <2>1. PICK c \in History!Plain : line = <<c>>
    BY <1>2 DEF History!PlainLine
  <2>2. e = History!RunCommand(s, c)
    BY <2>1, RunAllIs
  <2>3. CASE c.does = "run"
    BY <2>2, <2>3, RunIs
  <2>4. CASE c.does = "exit"
    BY <2>2, <2>4, ExitIs
  <2> QED
    BY <2>3, <2>4, Lines
<1> QED
  BY <1>1, <1>2

LEMMA OtherRuns ==
  ASSUME History!HistoryAssumption, NEW s \in LoopState, Ring(s.q),
         NEW line \in History!Line, line \notin History!PlainLine
  PROVE  LogOutcome(s, History!RunAll(s, line))
<1>1. PICK c \in History!LogCommand : line = <<c>> \/ line = <<c, History!Exit>>
  BY DEF History!Line
<1>2. LogOutcome(s, History!RunCommand(s, c))
  BY LogRuns
<1>3. CASE line = <<c>>
  BY <1>2, <1>3, RunAllIs
<1>4. CASE line = <<c, History!Exit>>
  <2>1. History!RunAll(s, line) = History!RunCommand(History!RunCommand(s, c), History!Exit)
    BY <1>4, RunTwo
  <2>2. LogOutcome(s, History!RunCommand(History!RunCommand(s, c), History!Exit))
    BY <1>2, ExitAfter, Lines
  <2> QED
    BY <2>1, <2>2
<1> QED
  BY <1>1, <1>3, <1>4

HistoryInv ==
  /\ History!TypeOK
  /\ Ring(History!Queue)
  /\ on \/ logExec = History!NoLine

(* The lines that the shell keeps, and the line recorded last.             *)
Kept == History!Contents(History!Queue)
LastLine == History!Latest(History!Queue)

(* A step of the shell, in terms of its lines.                             *)
Begins ==
  /\ ~on /\ on'
  /\ Kept' = file /\ LastLine' = IF file = <<>> THEN <<>> ELSE file[Len(file)]
  /\ logExec = History!NoLine /\ logExec' = History!NoLine /\ file' = file
GoesOn == file' = IF on' THEN file ELSE Kept'
Records(line) ==
  /\ on /\ logExec \in {History!NoLine, line} /\ logExec' = History!NoLine
  /\ Kept' = (IF line = LastLine THEN Kept ELSE List!Newest(Append(Kept, line)))
  /\ LastLine' = line
  /\ GoesOn
Leaves ==
  /\ on /\ logExec = History!NoLine /\ LastLine' = LastLine
  /\ \/ Kept' = Kept /\ logExec' = History!NoLine /\ GoesOn
     \/ Kept' = <<>> /\ logExec' = History!NoLine /\ GoesOn
     \/ Kept' = Kept /\ on' /\ file' = file /\ \E n \in 1..Len(Kept) : logExec' = Kept[Len(Kept) + 1 - n]
Dies == on /\ ~on' /\ logExec' = History!NoLine /\ Kept' = Kept /\ LastLine' = LastLine /\ file' = file
HistoryMove == Begins \/ (\E line \in History!PlainLine : Records(line)) \/ Leaves \/ Dies

LEMMA HistoryInit == ASSUME History!HistoryAssumption, History!Init PROVE HistoryInv
<1>1. MAX_SIZE \in Nat \ {0}
  BY DEF History!HistoryAssumption
<1>2. PICK q : q = History!EnqueueAll(History!InitQueue, <<>>)
  OBVIOUS
<1>3. <<>> \in Seq(History!PlainLine) /\ Len(<<>>) = 0
  OBVIOUS
<1>4. Ring(q) /\ q = Loaded(<<>>, 0)
  <2>1. Len(<<>>) <= MAX_SIZE
    BY <1>1, <1>3
  <2>2. Ring(q)
    BY <1>2, <1>3, <2>1, StartIs
  <2>3. History!EnqueueAll(History!InitQueue, <<>>) = Loaded(<<>>, Len(<<>>))
    BY <1>3, <2>1, EnqueueAllIs
  <2> QED
    BY <1>2, <1>3, <2>2, <2>3
<1>5. History!Queue = q
  <2>1. \A k \in 0..(MAX_SIZE - 1) : ~(k < 0)
    BY <1>1
  <2>2. 0 - 1 = -1
    OBVIOUS
  <2>3. q = History!InitQueue
    BY <1>4, <2>1, <2>2 DEF Loaded, History!InitQueue
  <2> QED
    BY <2>3 DEF History!Init, History!Queue, History!InitQueue
<1>6. History!TypeOK
  <2>1. History!Queue \in HistoryQueue
    BY <1>4, <1>5 DEF Ring
  <2> QED
    <3>1. /\ items \in [0..(MAX_SIZE - 1) -> History!PlainLine] /\ front \in 0..(MAX_SIZE - 1)
          /\ rear \in -1..(MAX_SIZE - 1) /\ size \in 0..MAX_SIZE
      BY <2>1 DEF HistoryQueue, History!Queue
    <3>2. logExec = History!NoLine /\ on = FALSE /\ file = <<>>
      BY DEF History!Init
    <3>3. file \in Seq(History!PlainLine) /\ Len(file) <= MAX_SIZE
      BY <1>1, <1>3, <3>2
    <3> QED
      BY <3>1, <3>2, <3>3 DEF History!TypeOK
<1> QED
  BY <1>4, <1>5, <1>6 DEF HistoryInv, History!Init

LEMMA QueueTypes ==
  ASSUME Ring(History!Queue), logExec \in History!PlainLine \cup {History!NoLine}, on \in BOOLEAN,
         file \in Seq(History!PlainLine), Len(file) <= MAX_SIZE
  PROVE  History!TypeOK
BY DEF Ring, HistoryQueue, History!Queue, History!TypeOK

LEMMA HandleLineStep ==
  ASSUME History!HistoryAssumption, HistoryInv, on, NEW line \in History!Line,
         line = logExec \/ logExec = History!NoLine,
         History!HandleLine(line)
  PROVE  HistoryInv' /\ HistoryMove
<1>1. PICK s0 : s0 = [q |-> History!Queue, logged |-> FALSE, status |-> TRUE, exec |-> History!NoLine]
  OBVIOUS
<1>2. /\ s0 \in LoopState /\ s0.q = History!Queue /\ ~s0.logged /\ s0.exec = History!NoLine
      /\ Ring(s0.q)
  BY <1>1 DEF HistoryInv, LoopState, Ring
<1>3. PICK s, last : s = History!RunAll(s0, line) /\ last = History!Record(s, line)
  OBVIOUS
<1>4. /\ items' = last.items /\ front' = last.front /\ rear' = last.rear /\ size' = last.size
      /\ logExec' = s.exec
      /\ on' = (s.status \/ s.exec # History!NoLine)
      /\ file' = IF on' THEN file ELSE History!Contents(last)
  BY <1>1, <1>3 DEF History!HandleLine
<1>5. /\ file \in Seq(History!PlainLine) /\ Len(file) <= MAX_SIZE
      /\ Kept \in Seq(History!PlainLine) /\ Len(Kept) \in Nat /\ Len(Kept) = s0.q.size
      /\ LastLine \in History!PlainLine
  BY <1>2, ContentsAre DEF HistoryInv, History!TypeOK, Kept, LastLine
<1>6. ASSUME Ring(last), s.exec \in History!PlainLine \cup {History!NoLine},
             s.status \in BOOLEAN
      PROVE  /\ HistoryInv' /\ History!Queue' = last
             /\ Kept' = History!Contents(last) /\ LastLine' = History!Latest(last) /\ GoesOn
  <2>1. History!Queue' = last
    BY <1>4, <1>6, RingFields DEF History!Queue
  <2>2. Kept' = History!Contents(last) /\ LastLine' = History!Latest(last)
    BY <2>1 DEF Kept, LastLine, History!Contents, History!Latest
  <2>3. GoesOn
    BY <1>4, <2>2 DEF GoesOn
  <2>4. Ring(History!Queue)'
    BY <1>6, <2>1 DEF Ring, HistoryQueue
  <2>5. /\ logExec' \in History!PlainLine \cup {History!NoLine} /\ on' \in BOOLEAN
        /\ on' \/ logExec' = History!NoLine
    BY <1>4, <1>6
  <2>6. file' \in Seq(History!PlainLine) /\ Len(file') <= MAX_SIZE
    <3>1. History!Contents(last) \in Seq(History!PlainLine) /\ Len(History!Contents(last)) <= MAX_SIZE
      <4>1. /\ History!Contents(last) \in Seq(History!PlainLine)
            /\ Len(History!Contents(last)) = last.size /\ last.size \in 0..MAX_SIZE
        BY <1>6, ContentsAre
      <4> QED
        BY <4>1 DEF History!HistoryAssumption
    <3> QED
      BY <1>4, <1>5, <3>1
  <2>7. History!TypeOK'
    BY <2>4, <2>5, <2>6 DEF Ring, HistoryQueue, History!Queue, History!TypeOK
  <2> QED
    BY <2>1, <2>2, <2>3, <2>4, <2>5, <2>7 DEF HistoryInv
<1>7. CASE line \in History!PlainLine
  <2>1. s \in LoopState /\ s.q = History!Queue /\ ~s.logged /\ s.exec = History!NoLine
    BY <1>2, <1>3, <1>7, PlainRuns
  <2>2. last = IF line = LastLine THEN History!Queue ELSE History!Enqueue(History!Queue, line)
    BY <1>3, <2>1 DEF History!Record, LastLine
  <2>3. /\ Ring(last) /\ History!Latest(last) = line
        /\ History!Contents(last) = IF line = LastLine THEN Kept ELSE List!Newest(Append(Kept, line))
    <3>1. CASE line = LastLine
      BY <1>2, <2>2, <3>1 DEF Kept, LastLine
    <3>2. CASE line # LastLine
      <4>1. last = History!Enqueue(History!Queue, line) /\ Ring(History!Queue)
        BY <1>2, <2>2, <3>2
      <4>2. /\ Ring(last) /\ History!Latest(last) = line
            /\ History!Contents(last) = List!Newest(Append(History!Contents(History!Queue), line))
        BY <1>7, <4>1, EnqueueIs
      <4> QED
        BY <3>2, <4>2 DEF Kept
    <3> QED
      BY <3>1, <3>2
  <2>4. s.status \in BOOLEAN
    BY <2>1 DEF LoopState
  <2>5. HistoryInv' /\ Kept' = History!Contents(last) /\ LastLine' = History!Latest(last) /\ GoesOn
    BY <1>6, <2>1, <2>3, <2>4
  <2>6. Records(line)
    BY <1>4, <2>1, <2>3, <2>5 DEF Records
  <2> QED
    BY <1>7, <2>5, <2>6 DEF HistoryMove
<1>8. CASE line \notin History!PlainLine
  <2>1. LogOutcome(s0, s)
    BY <1>2, <1>3, <1>8, OtherRuns
  <2>2. last = s.q /\ logExec = History!NoLine
    <3>1. logExec \in History!PlainLine \cup {History!NoLine}
      BY DEF HistoryInv, History!TypeOK
    <3> QED
      BY <1>3, <1>8, <2>1, <3>1 DEF History!Record, LogOutcome
  <2>3. /\ Ring(last) /\ s.exec \in History!PlainLine \cup {History!NoLine} /\ s.status \in BOOLEAN
        /\ History!Latest(last) = LastLine
        /\ \/ History!Contents(last) = Kept /\ s.exec = History!NoLine
           \/ History!Contents(last) = <<>> /\ s.exec = History!NoLine
           \/ /\ History!Contents(last) = Kept
              /\ \E n \in 1..Len(Kept) : s.exec = Kept[Len(Kept) + 1 - n]
              /\ s.exec \in History!PlainLine
    BY <1>2, <1>5, <2>1, <2>2 DEF LogOutcome, LoopState, Kept, LastLine
  <2>4. /\ HistoryInv'
        /\ Kept' = History!Contents(last) /\ LastLine' = History!Latest(last) /\ GoesOn
    BY <1>6, <2>3
  <2>5. s.exec \in History!PlainLine => s.exec # History!NoLine
    BY Lines
  <2>6. Leaves
    BY <1>4, <2>2, <2>3, <2>4, <2>5 DEF Leaves, GoesOn
  <2> QED
    BY <2>4, <2>6 DEF HistoryMove
<1> QED
  BY <1>7, <1>8

LEMMA HistoryStep ==
  ASSUME History!HistoryAssumption, HistoryInv, History!Next
  PROVE  HistoryInv' /\ HistoryMove
<1>1. /\ Ring(History!Queue) /\ on \in BOOLEAN /\ file \in Seq(History!PlainLine)
      /\ Len(file) <= MAX_SIZE /\ logExec \in History!PlainLine \cup {History!NoLine}
      /\ on \/ logExec = History!NoLine
  BY DEF HistoryInv, History!TypeOK
<1>2. CASE History!Start
  <2>1. PICK q : q = History!EnqueueAll(History!InitQueue, file)
    OBVIOUS
  <2>2. /\ ~on /\ on' /\ file' = file /\ logExec' = logExec
        /\ items' = q.items /\ front' = q.front /\ rear' = q.rear /\ size' = q.size
    BY <1>2, <2>1 DEF History!Start
  <2>3. /\ Ring(q) /\ History!Contents(q) = file
        /\ History!Latest(q) = IF file = <<>> THEN <<>> ELSE file[Len(file)]
    BY <1>1, <2>1, StartIs
  <2>4. History!Queue' = q
    BY <2>2, <2>3, RingFields DEF History!Queue
  <2>5. Kept' = file /\ LastLine' = IF file = <<>> THEN <<>> ELSE file[Len(file)]
    BY <2>3, <2>4 DEF Kept, LastLine, History!Contents, History!Latest
  <2>6. Begins
    BY <1>1, <2>2, <2>5 DEF Begins
  <2>7. Ring(History!Queue)'
    BY <2>3, <2>4 DEF Ring, HistoryQueue
  <2>8. HistoryInv'
    BY <1>1, <1>2, <2>2, <2>7 DEF HistoryInv, History!Start, Ring, HistoryQueue, History!Queue, History!TypeOK
  <2> QED
    BY <2>6, <2>8 DEF HistoryMove
<1>3. CASE History!ReadLine
  BY <1>3, HandleLineStep DEF History!ReadLine
<1>4. CASE History!RunLogged
  <2>1. logExec \in History!Line
    BY <1>1, <1>4 DEF History!RunLogged, History!Line
  <2> QED
    BY <1>4, <2>1, HandleLineStep DEF History!RunLogged
<1>5. ASSUME UNCHANGED History!queue
      PROVE  History!Queue' = History!Queue /\ Kept' = Kept /\ LastLine' = LastLine /\ Ring(History!Queue)'
  <2>1. History!Queue' = History!Queue
    BY <1>5 DEF History!queue, History!Queue
  <2> QED
    BY <1>1, <2>1 DEF Kept, LastLine, History!Contents, History!Latest, Ring, HistoryQueue
<1>6. CASE History!EndOfInput
  <2>1. /\ on /\ logExec = History!NoLine /\ on' = FALSE /\ file' = Kept /\ logExec' = logExec
        /\ UNCHANGED History!queue
    BY <1>6 DEF History!EndOfInput, Kept
  <2>2. Leaves
    BY <1>5, <2>1 DEF Leaves, GoesOn
  <2>3. Kept \in Seq(History!PlainLine) /\ Len(Kept) <= MAX_SIZE
    <3>1. /\ Kept \in Seq(History!PlainLine) /\ Len(Kept) = History!Queue.size
          /\ History!Queue.size \in 0..MAX_SIZE
      BY <1>1, ContentsAre DEF Kept
    <3> QED
      BY <3>1 DEF History!HistoryAssumption
  <2>4. HistoryInv'
    BY <1>1, <1>5, <2>1, <2>3 DEF HistoryInv, Ring, HistoryQueue, History!Queue, History!TypeOK
  <2> QED
    BY <2>2, <2>4 DEF HistoryMove
<1>7. CASE History!Crash
  <2>1. on /\ on' = FALSE /\ logExec' = History!NoLine /\ file' = file /\ UNCHANGED History!queue
    BY <1>7 DEF History!Crash
  <2>2. Dies
    BY <1>5, <2>1 DEF Dies
  <2>3. HistoryInv'
    BY <1>1, <1>5, <2>1 DEF HistoryInv, Ring, HistoryQueue, History!Queue, History!TypeOK
  <2> QED
    BY <2>2, <2>3 DEF HistoryMove
<1> QED
  BY <1>2, <1>3, <1>4, <1>6, <1>7 DEF History!Next

LEMMA HistoryStutter == HistoryInv /\ UNCHANGED History!vars => HistoryInv'
BY DEF HistoryInv, History!vars, History!queue, History!Queue, History!TypeOK, Ring, HistoryQueue

(* Each step of the lines is one of the list's.                            *)
LEMMA ListMoves ==
  ASSUME History!HistoryAssumption, HistoryInv, HistoryMove, part = "history", part' = "history"
  PROVE  List!Next
<1>1. /\ IsHistory /\ IsHistory'
  BY DEF IsHistory
<1>2. Kept \in Seq(History!PlainLine) /\ Len(Kept) \in 0..MAX_SIZE
  BY ContentsAre DEF HistoryInv, Kept
<1>3. CASE Begins
  <2>1. List!Start
    BY <1>1, <1>3 DEF Begins, Kept, LastLine, List!Start
  <2> QED
    BY <2>1 DEF List!Next
<1>4. ASSUME NEW line \in History!PlainLine, Records(line) PROVE List!Next
  <2>1. List!Record(line)
    BY <1>1, <1>4 DEF Records, GoesOn, Kept, LastLine, List!Record, List!GoOn
  <2> QED
    BY <2>1 DEF List!Next
<1>5. CASE Leaves
  <2>1. CASE Kept' = Kept /\ logExec' = History!NoLine /\ GoesOn
    <3>1. List!Look
      BY <1>1, <1>5, <2>1 DEF Leaves, GoesOn, Kept, LastLine, List!Look, List!GoOn
    <3> QED
      BY <3>1 DEF List!Next
  <2>2. CASE Kept' = <<>> /\ logExec' = History!NoLine /\ GoesOn
    <3>1. List!Purge
      BY <1>1, <1>5, <2>2 DEF Leaves, GoesOn, Kept, LastLine, List!Purge, List!GoOn
    <3> QED
      BY <3>1 DEF List!Next
  <2>3. ASSUME Kept' = Kept, on', file' = file, NEW n \in 1..Len(Kept),
               logExec' = Kept[Len(Kept) + 1 - n]
        PROVE  List!Next
    <3>1. n \in 1..MAX_SIZE /\ n <= Len(Kept)
      BY <1>2 DEF History!HistoryAssumption
    <3>2. List!Execute(n)
      BY <1>1, <1>5, <2>3, <3>1 DEF Leaves, Kept, LastLine, List!Execute
    <3> QED
      BY <3>1, <3>2 DEF List!Next
  <2> QED
    BY <1>5, <2>1, <2>2, <2>3 DEF Leaves
<1>6. CASE Dies
  <2>1. List!Crash
    BY <1>1, <1>6 DEF Dies, Kept, LastLine, List!Crash
  <2> QED
    BY <2>1 DEF List!Next
<1> QED
  BY <1>3, <1>4, <1>5, <1>6 DEF HistoryMove

-----------------------------------------------------------------------------
(* A pipeline.  The shell has closed all it does not need for the stages   *)
(* to come, a stage keeps its input, its output and what it inherits of    *)
(* the later pipes, and every stage before the last one forked has ended   *)
(* or been stopped, as the shell waits for each.                           *)

ShellKeeps(c, j, d) == j > c \/ (j = c /\ d = "r")
StageKeeps(k, j, d) == j > k \/ (j = k /\ d = "w") \/ (j = k - 1 /\ d = "r")
Alive(k) == stage[k] \in {"running", "stopped"}

PipelineInv ==
  /\ Pipeline!TypeOK
  /\ \A k \in Pipeline!Stage : stage[k] = "none" <=> k > counter
  /\ waiting => counter \in Pipeline!Stage
  /\ \A j \in Pipeline!PipeNo, d \in {"r", "w"} :
       <<j, d>> \in holds[Pipeline!Shell] <=> ShellKeeps(counter, j, d)
  /\ \A k \in Pipeline!Stage : \A j \in Pipeline!PipeNo, d \in {"r", "w"} :
       <<j, d>> \in holds[k] => Alive(k) /\ StageKeeps(k, j, d)
  /\ \A k \in Pipeline!Stage :
       k < counter => stage[k] \in {"stopped", "ended"} \/ (~waiting /\ counter = Stages)
  /\ counter \in Pipeline!Stage /\ ~waiting =>
       stage[counter] \in {"stopped", "ended"} \/ counter = Stages
  /\ \A k \in Pipeline!PipeNo : filled[k] + toWrite[k] <= amount[k]

LEMMA PipelineConstants ==
  ASSUME Pipeline!PipelineAssumption
  PROVE  /\ Stages \in Nat \ {0} /\ PipeSize \in Nat \ {0} /\ MaxOut \in Nat
         /\ Pipeline!Shell \notin Pipeline!Stage
         /\ \A k \in Pipeline!Stage : k \in 1..Stages /\ (k < Stages <=> k \in Pipeline!PipeNo)
         /\ \A k \in Pipeline!Stage : k > 1 => k - 1 \in Pipeline!PipeNo
         /\ \A j \in Pipeline!PipeNo : j \in Pipeline!Stage /\ j \in Nat /\ j < Stages
BY DEF Pipeline!PipelineAssumption, Pipeline!Shell, Pipeline!Stage, Pipeline!PipeNo

LEMMA PipelineInit == ASSUME Pipeline!PipelineAssumption, Pipeline!Init PROVE PipelineInv
<1>1. Pipeline!TypeOK
  <2>1. /\ counter \in 0..Stages /\ waiting \in BOOLEAN
        /\ stage \in [Pipeline!Stage -> {"none", "running", "stopped", "ended"}]
        /\ toWrite \in [Pipeline!Stage -> 0..MaxOut] /\ amount \in [Pipeline!Stage -> 0..MaxOut]
        /\ filled \in [Pipeline!PipeNo -> 0..PipeSize]
    <3>1. 0 \in 0..Stages /\ 0 \in 0..PipeSize
      BY PipelineConstants
    <3>2. counter = 0 /\ waiting = FALSE /\ stage = [k \in Pipeline!Stage |-> "none"]
          /\ toWrite = amount /\ amount \in [Pipeline!Stage -> 0..MaxOut]
          /\ filled = [k \in Pipeline!PipeNo |-> 0]
      BY DEF Pipeline!Init
    <3> QED
      BY <3>1, <3>2
  <2>2. \A x \in Pipeline!Stage \cup {Pipeline!Shell} :
          (IF x = Pipeline!Shell THEN Pipeline!Ends ELSE {}) \in SUBSET Pipeline!Ends
    OBVIOUS
  <2>3. holds \in [Pipeline!Stage \cup {Pipeline!Shell} -> SUBSET Pipeline!Ends]
    BY <2>2 DEF Pipeline!Init
  <2> QED
    BY <2>1, <2>3 DEF Pipeline!TypeOK
<1>2. \A k \in Pipeline!Stage : stage[k] = "none" /\ k > counter /\ holds[k] = {}
  BY PipelineConstants DEF Pipeline!Init
<1>3. counter = 0 /\ waiting = FALSE /\ counter \notin Pipeline!Stage
  BY DEF Pipeline!Init, Pipeline!Stage
<1>4. \A j \in Pipeline!PipeNo, d \in {"r", "w"} :
        <<j, d>> \in holds[Pipeline!Shell] /\ ShellKeeps(counter, j, d)
  BY <1>3, PipelineConstants DEF Pipeline!Init, Pipeline!Ends, Pipeline!PipeNo, ShellKeeps, Pipeline!Shell
<1>5. \A k \in Pipeline!PipeNo : filled[k] + toWrite[k] <= amount[k]
  <2>1. \A k \in Pipeline!PipeNo : filled[k] = 0 /\ toWrite[k] = amount[k] /\ amount[k] \in 0..MaxOut
    BY PipelineConstants DEF Pipeline!Init
  <2> QED
    BY <2>1, PipelineConstants
<1>6. \A k \in Pipeline!Stage : ~ (k < counter)
  BY <1>2, PipelineConstants, <1>3
<1> QED
  BY <1>1, <1>2, <1>3, <1>4, <1>5, <1>6 DEF PipelineInv

LEMMA PipelineMovesOn ==
  ASSUME Pipeline!PipelineAssumption, PipelineInv PROVE Pipeline!PipelineMoves
<1>1. counter \in 0..Stages /\ filled \in [Pipeline!PipeNo -> 0..PipeSize]
      /\ toWrite \in [Pipeline!Stage -> 0..MaxOut] /\ amount \in [Pipeline!Stage -> 0..MaxOut]
      /\ holds \in [Pipeline!Stage \cup {Pipeline!Shell} -> SUBSET Pipeline!Ends]
  BY DEF PipelineInv, Pipeline!TypeOK
<1>2. ASSUME counter = Stages PROVE holds[Pipeline!Shell] = {}
  <2>1. ASSUME NEW j \in Pipeline!PipeNo, NEW d \in {"r", "w"} PROVE <<j, d>> \notin holds[Pipeline!Shell]
    <3>1. ~ShellKeeps(Stages, j, d)
      BY PipelineConstants DEF ShellKeeps
    <3> QED
      BY <1>2, <3>1 DEF PipelineInv
  <2>2. \A e \in Pipeline!Ends : \E j \in Pipeline!PipeNo, d \in {"r", "w"} : e = <<j, d>>
    BY DEF Pipeline!Ends
  <2>3. holds[Pipeline!Shell] \in SUBSET Pipeline!Ends
    BY <1>1
  <2>4. ASSUME NEW e \in holds[Pipeline!Shell] PROVE FALSE
    <3>1. PICK j \in Pipeline!PipeNo, d \in {"r", "w"} : e = <<j, d>>
      BY <2>2, <2>3, <2>4
    <3> QED
      BY <2>1, <2>4, <3>1
  <2> QED
    BY <2>4
<1>3. ASSUME waiting, stage[counter] = "running", ~(amount[counter] > PipeSize),
             \A k \in 1..(counter - 1) : stage[k] # "stopped"
      PROVE  Pipeline!CanMove(counter)
  <2>1. counter \in Pipeline!Stage /\ counter \in 1..Stages
    BY <1>3, PipelineConstants DEF PipelineInv
  <2>2. \A k \in Pipeline!Stage : k # counter => ~Alive(k)
    <3>1. SUFFICES ASSUME NEW k \in Pipeline!Stage, k # counter PROVE ~Alive(k)
      OBVIOUS
    <3>2. CASE k < counter
      <4>1. k \in 1..(counter - 1)
        BY <2>1, <3>2, PipelineConstants
      <4> QED
        BY <1>3, <3>2, <4>1 DEF PipelineInv, Alive
    <3>3. CASE k > counter
      BY <3>3 DEF PipelineInv, Alive
    <3> QED
      BY <2>1, <3>1, <3>2, <3>3, PipelineConstants
  <2>3. counter > 1 => ~Pipeline!Held(<<counter - 1, "w">>)
    <3>1. SUFFICES ASSUME counter > 1, NEW x \in Pipeline!Stage \cup {Pipeline!Shell},
                          <<counter - 1, "w">> \in holds[x]
                   PROVE  FALSE
      BY DEF Pipeline!Held
    <3>2. counter - 1 \in Pipeline!PipeNo
      BY <2>1, <3>1, PipelineConstants
    <3>3. CASE x = Pipeline!Shell
      <4>1. ShellKeeps(counter, counter - 1, "w")
        BY <3>1, <3>2, <3>3 DEF PipelineInv
      <4> QED
        BY <2>1, <4>1 DEF ShellKeeps
    <3>4. CASE x \in Pipeline!Stage
      <4>1. Alive(x) /\ StageKeeps(x, counter - 1, "w")
        BY <3>1, <3>2, <3>4 DEF PipelineInv
      <4>2. x = counter
        BY <2>2, <3>4, <4>1
      <4> QED
        BY <2>1, <4>1, <4>2 DEF StageKeeps
    <3> QED
      BY <3>3, <3>4
  <2>4. counter < Stages => Pipeline!Held(<<counter, "r">>)
    <3>1. counter < Stages => counter \in Pipeline!PipeNo
      BY <2>1, PipelineConstants
    <3>2. counter < Stages => <<counter, "r">> \in holds[Pipeline!Shell]
      BY <3>1 DEF PipelineInv, ShellKeeps
    <3> QED
      BY <3>2 DEF Pipeline!Held
  <2>5. CASE counter > 1 /\ filled[counter - 1] # 0
    <3>1. filled[counter - 1] \in 0..PipeSize
      BY <1>1, <2>1, <2>5, PipelineConstants
    <3>2. filled[counter - 1] > 0
      BY <2>5, <3>1, PipelineConstants
    <3> QED
      BY <2>5, <3>2 DEF Pipeline!CanMove
  <2>6. CASE counter > 1 => filled[counter - 1] = 0
    <3>1. Pipeline!EndOfFile(counter)
      BY <2>3, <2>6 DEF Pipeline!EndOfFile
    <3>2. CASE toWrite[counter] = 0
      BY <3>1, <3>2 DEF Pipeline!CanMove
    <3>3. CASE toWrite[counter] # 0
      <4>1. toWrite[counter] \in 0..MaxOut /\ amount[counter] \in 0..MaxOut
        BY <1>1, <2>1
      <4>2. toWrite[counter] > 0
        BY <3>3, <4>1, PipelineConstants
      <4>3. ASSUME counter < Stages PROVE filled[counter] < PipeSize
        <5>1. counter \in Pipeline!PipeNo
          BY <2>1, <4>3, PipelineConstants
        <5>2. filled[counter] \in 0..PipeSize /\ filled[counter] + toWrite[counter] <= amount[counter]
          BY <1>1, <5>1 DEF PipelineInv
        <5> QED
          BY <1>3, <4>1, <4>2, <5>2, PipelineConstants
      <4> QED
        BY <2>4, <4>2, <4>3 DEF Pipeline!CanMove
    <3> QED
      BY <3>2, <3>3
  <2> QED
    BY <2>5, <2>6
<1> QED
  BY <1>2, <1>3 DEF Pipeline!PipelineMoves

LEMMA PipelineTypesStep ==
  ASSUME Pipeline!PipelineAssumption, PipelineInv, Pipeline!Next PROVE Pipeline!TypeOK'
<1>1. Pipeline!TypeOK
  BY DEF PipelineInv
<1>2. CASE Pipeline!Fork
  <2>1. counter + 1 \in Pipeline!Stage /\ counter + 1 \in 0..Stages
    BY <1>1, <1>2, PipelineConstants DEF Pipeline!Fork, Pipeline!TypeOK, Pipeline!Stage
  <2>2. stage' \in [Pipeline!Stage -> {"none", "running", "stopped", "ended"}]
    BY <1>1, <1>2 DEF Pipeline!Fork, Pipeline!TypeOK
  <2>3. holds' \in [Pipeline!Stage \cup {Pipeline!Shell} -> SUBSET Pipeline!Ends]
    BY <1>1, <1>2 DEF Pipeline!Fork, Pipeline!TypeOK
  <2> QED
    BY <1>1, <1>2, <2>1, <2>2, <2>3 DEF Pipeline!Fork, Pipeline!TypeOK
<1>3. CASE Pipeline!Wait
  BY <1>1, <1>3 DEF Pipeline!Wait, Pipeline!TypeOK
<1>4. ASSUME NEW k \in Pipeline!Stage, Pipeline!Write(k) PROVE Pipeline!TypeOK'
  <2>1. toWrite[k] \in 0..MaxOut /\ toWrite[k] > 0
    BY <1>1, <1>4 DEF Pipeline!TypeOK, Pipeline!Write
  <2>2. toWrite[k] - 1 \in 0..MaxOut
    BY <2>1, PipelineConstants
  <2>3. toWrite' \in [Pipeline!Stage -> 0..MaxOut]
    BY <1>1, <1>4, <2>2 DEF Pipeline!TypeOK, Pipeline!Write
  <2>4. filled' \in [Pipeline!PipeNo -> 0..PipeSize]
    <3>1. CASE k < Stages
      <4>1. k \in Pipeline!PipeNo /\ filled[k] \in 0..PipeSize /\ filled[k] < PipeSize
        BY <1>1, <1>4, <3>1, PipelineConstants DEF Pipeline!TypeOK, Pipeline!Write
      <4>2. filled[k] + 1 \in 0..PipeSize
        BY <4>1, PipelineConstants
      <4> QED
        BY <1>1, <1>4, <3>1, <4>2 DEF Pipeline!TypeOK, Pipeline!Write
    <3>2. CASE ~(k < Stages)
      BY <1>1, <1>4, <3>2 DEF Pipeline!TypeOK, Pipeline!Write
    <3> QED
      BY <3>1, <3>2
  <2> QED
    BY <1>1, <1>4, <2>3, <2>4 DEF Pipeline!TypeOK, Pipeline!Write
<1>5. ASSUME NEW k \in Pipeline!Stage, Pipeline!Read(k) PROVE Pipeline!TypeOK'
  <2>1. filled[k - 1] \in 0..PipeSize /\ filled[k - 1] > 0
    BY <1>1, <1>5, PipelineConstants DEF Pipeline!TypeOK, Pipeline!Read
  <2>2. filled[k - 1] - 1 \in 0..PipeSize
    BY <2>1, PipelineConstants
  <2>3. filled' \in [Pipeline!PipeNo -> 0..PipeSize]
    BY <1>1, <1>5, <2>2 DEF Pipeline!TypeOK, Pipeline!Read
  <2> QED
    BY <1>1, <1>5, <2>3 DEF Pipeline!TypeOK, Pipeline!Read
<1>6. ASSUME NEW k \in Pipeline!Stage, Pipeline!End(k) PROVE Pipeline!TypeOK'
  BY <1>1, <1>6 DEF Pipeline!TypeOK, Pipeline!End
<1>7. ASSUME NEW k \in Pipeline!Stage, Pipeline!Stop(k) \/ Pipeline!Resume(k) PROVE Pipeline!TypeOK'
  BY <1>1, <1>7 DEF Pipeline!TypeOK, Pipeline!Stop, Pipeline!Resume
<1> QED
  BY <1>2, <1>3, <1>4, <1>5, <1>6, <1>7 DEF Pipeline!Next

LEMMA PipelineStep ==
  ASSUME Pipeline!PipelineAssumption, PipelineInv, Pipeline!Next PROVE PipelineInv'
<1> DEFINE Forked == \A k \in Pipeline!Stage : stage[k] = "none" <=> k > counter
           Waits == waiting => counter \in Pipeline!Stage
           ShellEnds == \A j \in Pipeline!PipeNo, d \in {"r", "w"} :
                          <<j, d>> \in holds[Pipeline!Shell] <=> ShellKeeps(counter, j, d)
           StageEnds == \A k \in Pipeline!Stage : \A j \in Pipeline!PipeNo, d \in {"r", "w"} :
                          <<j, d>> \in holds[k] => Alive(k) /\ StageKeeps(k, j, d)
           Before == \A k \in Pipeline!Stage :
                       k < counter => stage[k] \in {"stopped", "ended"} \/ (~waiting /\ counter = Stages)
           Latest == counter \in Pipeline!Stage /\ ~waiting =>
                       stage[counter] \in {"stopped", "ended"} \/ counter = Stages
           Fits == \A k \in Pipeline!PipeNo : filled[k] + toWrite[k] <= amount[k]
<1>1. Forked /\ Waits /\ ShellEnds /\ StageEnds /\ Before /\ Latest /\ Fits
  BY DEF PipelineInv
<1>2. /\ counter \in 0..Stages /\ waiting \in BOOLEAN
      /\ stage \in [Pipeline!Stage -> {"none", "running", "stopped", "ended"}]
      /\ holds \in [Pipeline!Stage \cup {Pipeline!Shell} -> SUBSET Pipeline!Ends]
      /\ toWrite \in [Pipeline!Stage -> 0..MaxOut] /\ amount \in [Pipeline!Stage -> 0..MaxOut]
      /\ filled \in [Pipeline!PipeNo -> 0..PipeSize]
  BY DEF PipelineInv, Pipeline!TypeOK
<1>3. Pipeline!TypeOK'
  BY PipelineTypesStep
<1>4. SUFFICES Forked' /\ Waits' /\ ShellEnds' /\ StageEnds' /\ Before' /\ Latest' /\ Fits'
  BY <1>3 DEF PipelineInv
<1>5. CASE Pipeline!Fork
  <2> DEFINE k == counter + 1
  <2>1. /\ k \in Pipeline!Stage /\ k \in 1..Stages /\ counter' = k /\ waiting' = TRUE
        /\ stage' = [stage EXCEPT ![k] = "running"]
        /\ holds'[k] = holds[Pipeline!Shell] \ Pipeline!StageCloses(k)
        /\ holds'[Pipeline!Shell] = holds[Pipeline!Shell] \ Pipeline!ShellCloses(k)
        /\ \A x \in Pipeline!Stage : x # k => holds'[x] = holds[x]
        /\ UNCHANGED <<toWrite, amount, filled>>
    <3>1. k \in 1..Stages
      BY <1>2, <1>5, PipelineConstants DEF Pipeline!Fork
    <3>2. k \in Pipeline!Stage /\ k # Pipeline!Shell
      BY <3>1, PipelineConstants DEF Pipeline!Stage, Pipeline!Shell
    <3> QED
      BY <1>2, <1>5, <3>1, <3>2, PipelineConstants DEF Pipeline!Fork
  <2>2. \A x \in Pipeline!Stage : x # k => stage'[x] = stage[x]
    BY <1>2, <2>1
  <2>3. stage'[k] = "running"
    BY <1>2, <2>1
  <2>4. Forked'
    <3>1. \A x \in Pipeline!Stage : x # k => (x > counter <=> x > k)
      BY <1>2, PipelineConstants
    <3>2. ~(k > k)
      BY <1>2
    <3> QED
      BY <1>1, <2>1, <2>2, <2>3, <3>1, <3>2
  <2>5. ShellEnds'
    <3>1. SUFFICES ASSUME NEW j \in Pipeline!PipeNo, NEW d \in {"r", "w"}
                   PROVE  <<j, d>> \in holds'[Pipeline!Shell] <=> ShellKeeps(k, j, d)
      BY <2>1 DEF ShellKeeps
    <3>2. <<j, d>> \in holds[Pipeline!Shell] <=> ShellKeeps(counter, j, d)
      BY <1>1
    <3>3. <<j, d>> \in Pipeline!ShellCloses(k) <=> (j = counter \/ (j = k /\ d = "w"))
      <4>1. k - 1 = counter
        BY <1>2
      <4> QED
        BY <4>1 DEF Pipeline!ShellCloses
    <3>4. ShellKeeps(k, j, d) <=> ShellKeeps(counter, j, d) /\ ~(j = counter \/ (j = k /\ d = "w"))
      BY <1>2, PipelineConstants DEF ShellKeeps, Pipeline!PipeNo
    <3> QED
      BY <2>1, <3>2, <3>3, <3>4
  <2>6. StageEnds'
    <3>1. SUFFICES ASSUME NEW x \in Pipeline!Stage, NEW j \in Pipeline!PipeNo, NEW d \in {"r", "w"},
                          <<j, d>> \in holds'[x]
                   PROVE  Alive(x)' /\ StageKeeps(x, j, d)
      BY DEF StageKeeps
    <3>2. CASE x # k
      <4>1. <<j, d>> \in holds[x] /\ stage'[x] = stage[x]
        BY <2>1, <2>2, <3>1, <3>2
      <4>2. Alive(x) /\ StageKeeps(x, j, d)
        BY <4>1, <1>1
      <4> QED
        BY <4>1, <4>2 DEF Alive
    <3>3. CASE x = k
      <4>1. <<j, d>> \in holds[Pipeline!Shell] /\ <<j, d>> \notin Pipeline!StageCloses(k)
        BY <2>1, <3>1, <3>3
      <4>2. ShellKeeps(counter, j, d) /\ ~(j = counter /\ d = "w")
        <5>1. k - 1 = counter
          BY <1>2
        <5> QED
          BY <1>1, <4>1, <5>1 DEF Pipeline!StageCloses
      <4>3. ~(j = k /\ d = "r")
        BY <4>1 DEF Pipeline!StageCloses
      <4>4. StageKeeps(k, j, d)
        <5>1. j \in Nat /\ d \in {"r", "w"} /\ k - 1 = counter /\ counter \in Nat
          BY <1>2, PipelineConstants
        <5> QED
          BY <4>2, <4>3, <5>1 DEF ShellKeeps, StageKeeps
      <4> QED
        BY <2>3, <3>3, <4>4 DEF Alive
    <3> QED
      BY <3>2, <3>3
  <2>7. Before'
    <3>1. SUFFICES ASSUME NEW x \in Pipeline!Stage, x < k PROVE stage'[x] \in {"stopped", "ended"}
      BY <2>1
    <3>2. x # k /\ (x < counter \/ x = counter) /\ counter # Stages /\ ~waiting
      BY <1>2, <1>5, <3>1, PipelineConstants, SMTT(30) DEF Pipeline!Fork
    <3>3. stage[x] \in {"stopped", "ended"}
      BY <1>1, <3>2
    <3> QED
      BY <2>2, <3>2, <3>3
  <2>8. Waits' /\ Latest' /\ Fits'
    BY <1>1, <2>1
  <2> QED
    BY <2>4, <2>5, <2>6, <2>7, <2>8
<1>6. CASE Pipeline!Wait
  <2>1. /\ waiting /\ stage[counter] \in {"stopped", "ended"} /\ waiting' = FALSE
        /\ UNCHANGED <<counter, stage, holds, toWrite, amount, filled>>
    BY <1>6 DEF Pipeline!Wait
  <2> QED
    BY <1>1, <2>1 DEF Alive
<1>7. ASSUME NEW k \in Pipeline!Stage, Pipeline!Write(k)
      PROVE  Forked' /\ Waits' /\ ShellEnds' /\ StageEnds' /\ Before' /\ Latest' /\ Fits'
  <2>1. /\ toWrite' = [toWrite EXCEPT ![k] = @ - 1]
        /\ filled' = IF k < Stages THEN [filled EXCEPT ![k] = @ + 1] ELSE filled
        /\ UNCHANGED <<counter, waiting, stage, holds, amount>>
    BY <1>7 DEF Pipeline!Write
  <2>2. Fits'
    <3>1. SUFFICES ASSUME NEW x \in Pipeline!PipeNo PROVE filled'[x] + toWrite'[x] <= amount[x]
      BY <2>1
    <3>2. /\ x \in Pipeline!Stage /\ x < Stages /\ filled[x] \in 0..PipeSize /\ toWrite[x] \in 0..MaxOut
          /\ amount[x] \in 0..MaxOut /\ filled[x] + toWrite[x] <= amount[x]
      BY <1>1, <1>2, PipelineConstants
    <3>3. CASE x = k
      <4>1. filled'[x] = filled[x] + 1 /\ toWrite'[x] = toWrite[x] - 1
        BY <1>2, <2>1, <3>2, <3>3
      <4> QED
        BY <3>2, <4>1
    <3>4. CASE x # k
      BY <1>2, <2>1, <3>2, <3>4
    <3> QED
      BY <3>3, <3>4
  <2> QED
    BY <1>1, <2>1, <2>2 DEF Alive
<1>8. ASSUME NEW k \in Pipeline!Stage, Pipeline!Read(k)
      PROVE  Forked' /\ Waits' /\ ShellEnds' /\ StageEnds' /\ Before' /\ Latest' /\ Fits'
  <2>1. /\ filled' = [filled EXCEPT ![k - 1] = @ - 1]
        /\ UNCHANGED <<counter, waiting, stage, holds, toWrite, amount>>
    BY <1>8 DEF Pipeline!Read
  <2>2. Fits'
    <3>1. SUFFICES ASSUME NEW x \in Pipeline!PipeNo PROVE filled'[x] + toWrite[x] <= amount[x]
      BY <2>1
    <3>2. /\ filled[x] \in 0..PipeSize /\ toWrite[x] \in 0..MaxOut
          /\ amount[x] \in 0..MaxOut /\ filled[x] + toWrite[x] <= amount[x]
      BY <1>1, <1>2, PipelineConstants
    <3>3. filled'[x] = filled[x] \/ filled'[x] = filled[x] - 1
      BY <1>2, <2>1
    <3> QED
      BY <3>2, <3>3
  <2> QED
    BY <1>1, <2>1, <2>2 DEF Alive
<1>9. ASSUME NEW k \in Pipeline!Stage, Pipeline!End(k)
      PROVE  Forked' /\ Waits' /\ ShellEnds' /\ StageEnds' /\ Before' /\ Latest' /\ Fits'
  <2>1. /\ stage[k] = "running" /\ stage' = [stage EXCEPT ![k] = "ended"]
        /\ holds' = [holds EXCEPT ![k] = {}]
        /\ UNCHANGED <<counter, waiting, toWrite, amount, filled>>
    BY <1>9 DEF Pipeline!End
  <2>2. /\ stage'[k] = "ended" /\ holds'[k] = {} /\ holds'[Pipeline!Shell] = holds[Pipeline!Shell]
        /\ \A x \in Pipeline!Stage : x # k => stage'[x] = stage[x] /\ holds'[x] = holds[x]
    BY <1>2, <2>1, PipelineConstants
  <2>3. Forked' /\ Waits' /\ ShellEnds' /\ Before' /\ Latest' /\ Fits'
    BY <1>1, <2>1, <2>2
  <2>4. StageEnds'
    BY <1>1, <2>1, <2>2, ZenonT(40) DEF Alive
  <2> QED
    BY <2>3, <2>4
<1>10. ASSUME NEW k \in Pipeline!Stage, Pipeline!Stop(k)
       PROVE  Forked' /\ Waits' /\ ShellEnds' /\ StageEnds' /\ Before' /\ Latest' /\ Fits'
  <2>1. /\ stage[k] = "running" /\ stage' = [stage EXCEPT ![k] = "stopped"]
        /\ UNCHANGED <<counter, waiting, holds, toWrite, amount, filled>>
    BY <1>10 DEF Pipeline!Stop
  <2>2. /\ stage'[k] = "stopped" /\ \A x \in Pipeline!Stage : x # k => stage'[x] = stage[x]
    BY <1>2, <2>1
  <2>3. Forked' /\ Waits' /\ ShellEnds' /\ Before' /\ Latest' /\ Fits'
    BY <1>1, <2>1, <2>2
  <2>4. StageEnds'
    BY <1>1, <2>1, <2>2 DEF Alive
  <2> QED
    BY <2>3, <2>4
<1>11. ASSUME NEW k \in Pipeline!Stage, Pipeline!Resume(k)
       PROVE  Forked' /\ Waits' /\ ShellEnds' /\ StageEnds' /\ Before' /\ Latest' /\ Fits'
  <2>1. /\ stage[k] = "stopped" /\ ~waiting /\ counter = Stages
        /\ stage' = [stage EXCEPT ![k] = "running"]
        /\ UNCHANGED <<counter, waiting, holds, toWrite, amount, filled>>
    BY <1>11 DEF Pipeline!Resume
  <2>2. /\ stage'[k] = "running" /\ \A x \in Pipeline!Stage : x # k => stage'[x] = stage[x]
    BY <1>2, <2>1
  <2>3. Forked' /\ Waits' /\ ShellEnds' /\ Before' /\ Latest' /\ Fits'
    BY <1>1, <2>1, <2>2
  <2>4. StageEnds'
    BY <1>1, <2>1, <2>2 DEF Alive
  <2> QED
    BY <2>3, <2>4
<1> QED
  BY <1>5, <1>6, <1>7, <1>8, <1>9, <1>10, <1>11 DEF Pipeline!Next

LEMMA PipelineStutter == PipelineInv /\ UNCHANGED Pipeline!vars => PipelineInv'
BY DEF PipelineInv, Pipeline!vars, Pipeline!TypeOK, Alive, ShellKeeps, StageKeeps

(* A stage that the shell waits for gets on, unless it writes more than a  *)
(* pipe holds or an earlier stage is stopped, and in the end the shell     *)
(* holds no end of a pipe, however many stages there are (sys.c:126, 164,  *)
(* main.c:530-541).                                                        *)
THEOREM PipelinesMove == ASSUME Pipeline!PipelineAssumption PROVE Pipeline!Spec => []Pipeline!PipelineMoves
<1>1. PipelineInv /\ [Pipeline!Next]_(Pipeline!vars) => PipelineInv'
  BY PipelineStep, PipelineStutter
<1> QED
  BY PipelineInit, <1>1, PipelineMovesOn, PTL DEF Pipeline!Spec

-----------------------------------------------------------------------------
(* The two-player game.  GameInv says where everything that a player has   *)
(* still to do is: in a message, with him, or in his answer; nobody but    *)
(* the player who is asked has anything to do but to look at the result.   *)

Announcement == IF Games!CheckWin(board) THEN Games!Wins(currentPlayer) ELSE "draw"
Underway == asked \notin {"over", "killed"}
Idle(q) == inbox[q] = <<>> /\ client[q] = "reading"
Watching(q) ==
  \/ Idle(q) /\ (udp /\ asked = "again1" /\ q = 2 => losses > 0)
  \/ asked = "again1" /\ q = 2 /\ inbox[q] = <<Announcement>> /\ client[q] = "reading"
  \/ udp /\ asked = "again1" /\ q = 2 /\ inbox[q] = <<>> /\ client[q] = "result"
Answering(q) ==
  \/ asked = "move" /\ inbox[q] = <<"turn">> /\ client[q] = "reading"
  \/ asked = "move" /\ inbox[q] = <<>> /\ client[q] = "moving"
  \/ asked # "move" /\ inbox[q] = <<Announcement, "again">> /\ client[q] = "reading"
  \/ asked # "move" /\ inbox[q] = <<"again">> /\ client[q] = "reading" /\ (udp => losses > 0)
  \/ asked # "move" /\ inbox[q] = <<"again">> /\ client[q] = "result" /\ udp
  \/ asked # "move" /\ inbox[q] = <<>> /\ client[q] = "choosing"
  \/ asked # "move" /\ inbox[q] = <<>> /\ client[q] = "result" /\ udp /\ losses > 0
Answered(q) == Idle(q) /\ (outbox # <<>> \/ losses > 0 \/ (~udp /\ asked # "move"))
AnswerSent(a) ==
  outbox = <<a>> /\ a.from = Games!Asked /\ inbox[a.from] = <<>> /\ client[a.from] \in {"reading", "ended"}

Leaving == \A q \in Games!Player : q \in gone <=> client[q] = "ended"
Doing == \A q \in Games!Player : q \notin gone =>
           (IF q = Games!Asked THEN Answering(q) \/ Answered(q) ELSE Watching(q))
Answers == outbox = <<>> \/ \E a \in Games!Answer : AnswerSent(a)

BoardLegal ==
  /\ asked = "move" =>
       /\ Games!Marks(1) = Games!Marks(2) + (IF currentPlayer = 2 THEN 1 ELSE 0)
       /\ ~Games!CheckWin(board) /\ ~Games!CheckDraw(board)
  /\ asked \in {"again1", "again2"} => ~Games!Complete(board, Games!Other(currentPlayer))

GameInv ==
  /\ Games!TypeOK
  /\ addr = [q \in Games!Player |-> q]
  /\ udp => gone = {}
  /\ \A q \in gone : inbox[q] = <<>>
  /\ Underway => Leaving /\ Doing /\ Answers
  /\ BoardLegal

LEMMA GameConstants ==
  /\ Games!Player = {1, 2} /\ Games!Other(1) = 2 /\ Games!Other(2) = 1
  /\ Games!Wins(1) = "1 wins" /\ Games!Wins(2) = "2 wins"
BY DEF Games!Player, Games!Other, Games!Wins

LEMMA AskedIs ==
  ASSUME Games!TypeOK
  PROVE  /\ Games!Asked \in Games!Player
         /\ asked = "again1" => Games!Asked = 1
         /\ asked = "again2" => Games!Asked = 2
         /\ asked = "move" => Games!Asked = currentPlayer
BY GameConstants DEF Games!TypeOK, Games!Asked

LEMMA Announcements ==
  ASSUME Games!TypeOK
  PROVE  Announcement \in Games!Result /\ Announcement \notin {"turn", "again", "closing", "game over"}
BY GameConstants DEF Games!TypeOK, Announcement, Games!Result

(* Short lists of messages.                                                *)
LEMMA MessageLists ==
  ASSUME Games!TypeOK
  PROVE  /\ \A m \in Games!Message : <<m>> \in Seq(Games!Message)
         /\ \A m, k \in Games!Message : <<m, k>> \in Seq(Games!Message)
         /\ <<>> \in Seq(Games!Message)
         /\ {"turn", "again", "closing", "game over"} \cup Games!Result \subseteq Games!Message
         /\ Announcement \in Games!Message
<1>1. {"turn", "again", "closing", "game over"} \cup Games!Result \subseteq Games!Message
  BY DEF Games!Message
<1>2. Announcement \in Games!Message
  BY Announcements DEF Games!Message
<1>3. ASSUME NEW m \in Games!Message PROVE <<m>> \in Seq(Games!Message)
  OBVIOUS
<1>4. ASSUME NEW m \in Games!Message, NEW k \in Games!Message PROVE <<m, k>> \in Seq(Games!Message)
  OBVIOUS
<1>5. <<>> \in Seq(Games!Message)
  OBVIOUS
<1> QED
  BY <1>1, <1>2, <1>3, <1>4, <1>5

LEMMA OneMessage ==
  ASSUME NEW x, NEW s, s = <<x>>
  PROVE  /\ Len(s) = 1 /\ Head(s) = x /\ Tail(s) = <<>> /\ s # <<>> /\ 1..Len(s) = {1} /\ s[1] = x
         /\ \A n \in 1..Len(s) : SubSeq(s, n + 1, Len(s)) = <<>> /\ {s[k] : k \in 1..n} = {x}
<1>1. Len(s) = 1 /\ s[1] = x /\ 1..Len(s) = {1} /\ Head(s) = x /\ s # <<>>
  OBVIOUS
<1>2. Tail(s) = <<>>
  OBVIOUS
<1>3. ASSUME NEW n \in 1..Len(s) PROVE SubSeq(s, n + 1, Len(s)) = <<>> /\ {s[k] : k \in 1..n} = {x}
  <2>1. n = 1 /\ n + 1 = 2 /\ 1..n = {1}
    BY <1>1
  <2>2. SubSeq(s, 2, 1) = <<>>
    BY SubSeqEmpty
  <2> QED
    BY <1>1, <2>1, <2>2
<1> QED
  BY <1>1, <1>2, <1>3

LEMMA TwoMessages ==
  ASSUME NEW S, NEW x \in S, NEW y \in S, NEW s, s = <<x, y>>
  PROVE  /\ Len(s) = 2 /\ Head(s) = x /\ Tail(s) = <<y>> /\ s # <<>> /\ s[1] = x /\ s[2] = y
         /\ \A n \in 1..Len(s) : n = 1 \/ n = 2
         /\ SubSeq(s, 2, 2) = <<y>> /\ {s[k] : k \in 1..1} = {x}
         /\ SubSeq(s, 3, 2) = <<>> /\ {s[k] : k \in 1..2} = {x, y}
<1>1. Len(s) = 2 /\ s[1] = x /\ s[2] = y /\ 1..1 = {1} /\ 1..2 = {1, 2} /\ s # <<>> /\ Head(s) = x
  OBVIOUS
<1>2. s \in Seq(S)
  OBVIOUS
<1>3. SubSeq(s, 3, 2) = <<>>
  BY SubSeqEmpty
<1>4. Tail(s) = SubSeq(s, 2, 2)
  BY <1>1, <1>2, TailIsSubSeq
<1>5. SubSeq(s, 2, 2) = <<s[2]>> \o SubSeq(s, 3, 2)
  <2>1. 2 \in 1..Len(s) /\ 2 \in 2..Len(s) /\ 2 + 1 = 3
    BY <1>1
  <2> QED
    BY <1>2, <2>1, SubSeqRecursiveFirst
<1>6. <<y>> \in Seq(S) /\ <<y>> \o <<>> = <<y>>
  <2>1. <<y>> \in Seq(S)
    OBVIOUS
  <2> QED
    BY <2>1, ConcatEmptySeq
<1>7. SubSeq(s, 2, 2) = <<y>>
  BY <1>1, <1>3, <1>5, <1>6
<1>8. {s[k] : k \in 1..1} = {x} /\ {s[k] : k \in 1..2} = {x, y}
  BY <1>1
<1>9. \A n \in 1..Len(s) : n = 1 \/ n = 2
  BY <1>1
<1> QED
  BY <1>1, <1>3, <1>4, <1>7, <1>8, <1>9

(* What the server sends arrives, unless the player has left.              *)
LEMMA GameSends ==
  ASSUME Games!TypeOK, addr = [q \in Games!Player |-> q],
         NEW to1 \in Seq(Games!Message), NEW to2 \in Seq(Games!Message), Games!Send(to1, to2)
  PROVE  /\ inbox' \in [Games!Player -> Seq(Games!Message)]
         /\ \A q \in gone : q \in Games!Player => inbox'[q] = <<>>
         /\ 1 \notin gone => inbox'[1] = inbox[1] \o to1
         /\ 2 \notin gone => inbox'[2] = inbox[2] \o to2
<1>1. addr[1] = 1 /\ addr[2] = 2 /\ Games!Player = {1, 2}
  BY GameConstants
<1>2. inbox[1] \in Seq(Games!Message) /\ inbox[2] \in Seq(Games!Message)
  BY <1>1 DEF Games!TypeOK
<1> DEFINE Gets(q) == IF q \in gone THEN <<>>
                      ELSE inbox[q] \o (IF addr[1] = q THEN to1 ELSE <<>>) \o (IF addr[2] = q THEN to2 ELSE <<>>)
<1>3. inbox' = [q \in Games!Player |-> Gets(q)]
  BY DEF Games!Send
<1>4. inbox[1] \o to1 \in Seq(Games!Message) /\ inbox[2] \o to2 \in Seq(Games!Message)
  BY <1>2, ConcatProperties
<1>5. 1 \notin gone => Gets(1) = inbox[1] \o to1
  <2>1. (inbox[1] \o to1) \o <<>> = inbox[1] \o to1
    BY <1>4, ConcatEmptySeq
  <2> QED
    BY <1>1, <2>1
<1>6. 2 \notin gone => Gets(2) = inbox[2] \o to2
  <2>1. inbox[2] \o <<>> = inbox[2]
    BY <1>2, ConcatEmptySeq
  <2> QED
    BY <1>1, <2>1
<1>7. \A q \in Games!Player : q \in gone => Gets(q) = <<>>
  OBVIOUS
<1>8. <<>> \in Seq(Games!Message)
  OBVIOUS
<1> HIDE DEF Gets
<1>9. \A q \in Games!Player : Gets(q) \in Seq(Games!Message)
  BY <1>1, <1>4, <1>5, <1>6, <1>7, <1>8
<1> QED
  BY <1>1, <1>3, <1>5, <1>6, <1>7, <1>9

(* An answer: there is at most one, of the player who was asked.           *)
LEMMA GameReceives ==
  ASSUME GameInv, Underway, NEW a \in Games!Answer, Games!Receive(a)
  PROVE  /\ outbox' = <<>> /\ addr' = addr /\ inbox[Games!Asked] = <<>>
         /\ Games!Asked \notin gone => client[Games!Asked] = "reading"
<1>1. Games!Asked \in Games!Player
  BY AskedIs DEF GameInv
<1>2. Answers /\ Leaving /\ addr = [q \in Games!Player |-> q] /\ \A q \in gone : inbox[q] = <<>>
  BY DEF GameInv
<1>3. ASSUME NEW b \in Games!Answer, AnswerSent(b)
      PROVE  /\ outbox = <<b>> /\ b.from = Games!Asked /\ inbox[Games!Asked] = <<>>
             /\ Games!Asked \notin gone => client[Games!Asked] = "reading"
  BY <1>1, <1>2, <1>3 DEF AnswerSent, Leaving
<1>4. CASE /\ udp /\ outbox # <<>> /\ a = Head(outbox) /\ outbox' = Tail(outbox)
           /\ addr' = [addr EXCEPT ![Games!Asked] = a.from]
  <2>1. PICK b \in Games!Answer : AnswerSent(b)
    BY <1>2, <1>4 DEF Answers
  <2>2. outbox = <<b>> /\ b.from = Games!Asked
    BY <1>3, <2>1
  <2>3. Head(outbox) = b /\ Tail(outbox) = <<>>
    BY <2>2, OneMessage
  <2>4. a.from = Games!Asked
    BY <1>4, <2>2, <2>3
  <2>5. addr' = addr
    BY <1>1, <1>2, <1>4, <2>4
  <2> QED
    BY <1>3, <1>4, <2>1, <2>3, <2>5
<1>5. CASE /\ \E k \in 1..Len(outbox) :
                outbox[k].from = Games!Asked /\ outbox' = Games!RemoveAt(outbox, k)
           /\ UNCHANGED addr
  <2>1. PICK k \in 1..Len(outbox) : outbox' = Games!RemoveAt(outbox, k)
    BY <1>5
  <2>2. outbox # <<>>
    BY <2>1
  <2>3. PICK b \in Games!Answer : AnswerSent(b)
    BY <1>2, <2>2 DEF Answers
  <2>4. outbox = <<b>>
    BY <1>3, <2>3
  <2>5. k = 1
    BY <2>1, <2>4
  <2>6. SubSeq(outbox, 1, 0) = <<>> /\ SubSeq(outbox, 2, 1) = <<>> /\ Len(outbox) = 1
    BY <2>4, SubSeqEmpty
  <2>7. outbox' = <<>>
    BY <2>1, <2>5, <2>6 DEF Games!RemoveAt
  <2> QED
    BY <1>3, <1>5, <2>3, <2>7
<1>6. CASE /\ Games!Asked \in gone
           /\ \A k \in 1..Len(outbox) : outbox[k].from # Games!Asked
           /\ UNCHANGED <<addr, outbox>>
  <2>1. outbox = <<>>
    <3>1. SUFFICES ASSUME NEW b \in Games!Answer, AnswerSent(b) PROVE FALSE
      BY <1>2 DEF Answers
    <3>2. outbox = <<b>> /\ b.from = Games!Asked
      BY <1>3, <3>1
    <3> QED
      BY <1>6, <3>2
  <2> QED
    BY <1>2, <1>6, <2>1
<1> QED
  BY <1>4, <1>5, <1>6 DEF Games!Receive

(* A question to one player.                                               *)
LEMMA GameAsks ==
  ASSUME Games!TypeOK, addr = [q \in Games!Player |-> q],
         NEW p \in Games!Player, NEW m \in Games!Message, Games!ToPlayer(p, <<m>>)
  PROVE  /\ inbox' \in [Games!Player -> Seq(Games!Message)]
         /\ \A q \in Games!Player : q \in gone => inbox'[q] = <<>>
         /\ p \notin gone => inbox'[p] = inbox[p] \o <<m>>
         /\ \A q \in Games!Player : q \notin gone /\ q # p => inbox'[q] = inbox[q]
<1>1. <<m>> \in Seq(Games!Message) /\ <<>> \in Seq(Games!Message) /\ Games!Player = {1, 2}
  BY MessageLists, GameConstants
<1>2. \A q \in Games!Player : inbox[q] \o <<>> = inbox[q]
  BY ConcatEmptySeq DEF Games!TypeOK
<1>3. CASE p = 1
  <2>1. Games!Send(<<m>>, <<>>)
    BY <1>3 DEF Games!ToPlayer
  <2>2. /\ inbox' \in [Games!Player -> Seq(Games!Message)]
        /\ \A q \in gone : q \in Games!Player => inbox'[q] = <<>>
        /\ 1 \notin gone => inbox'[1] = inbox[1] \o <<m>>
        /\ 2 \notin gone => inbox'[2] = inbox[2] \o <<>>
    BY <1>1, <2>1, GameSends
  <2> QED
    BY <1>1, <1>2, <1>3, <2>2
<1>4. CASE p = 2
  <2>1. Games!Send(<<>>, <<m>>)
    BY <1>4 DEF Games!ToPlayer
  <2>2. /\ inbox' \in [Games!Player -> Seq(Games!Message)]
        /\ \A q \in gone : q \in Games!Player => inbox'[q] = <<>>
        /\ 1 \notin gone => inbox'[1] = inbox[1] \o <<>>
        /\ 2 \notin gone => inbox'[2] = inbox[2] \o <<m>>
    BY <1>1, <2>1, GameSends
  <2> QED
    BY <1>1, <1>2, <1>4, <2>2
<1> QED
  BY <1>1, <1>3, <1>4

LEMMA FirstMessage ==
  ASSUME Games!TypeOK
  PROVE  /\ \A m \in Games!Message : <<>> \o <<m>> = <<m>>
         /\ \A m, k \in Games!Message : <<>> \o <<m, k>> = <<m, k>> /\ <<m>> \o <<k>> = <<m, k>>
<1>1. \A m \in Games!Message : <<>> \o <<m>> = <<m>>
  BY MessageLists, ConcatEmptySeq
<1>2. \A m, k \in Games!Message : <<>> \o <<m, k>> = <<m, k>>
  BY MessageLists, ConcatEmptySeq
<1>3. ASSUME NEW m \in Games!Message, NEW k \in Games!Message PROVE <<m>> \o <<k>> = <<m, k>>
  <2>1. <<m>> \in Seq(Games!Message) /\ <<k>> \in Seq(Games!Message) /\ <<m, k>> \in Seq(Games!Message)
    BY MessageLists
  <2>2. Len(<<m>>) = 1 /\ Len(<<k>>) = 1 /\ Len(<<m, k>>) = 2
        /\ <<m>>[1] = m /\ <<k>>[1] = k /\ <<m, k>>[1] = m /\ <<m, k>>[2] = k
    OBVIOUS
  <2>3. /\ <<m>> \o <<k>> \in Seq(Games!Message) /\ Len(<<m>> \o <<k>>) = 2
        /\ (<<m>> \o <<k>>)[1] = m /\ (<<m>> \o <<k>>)[2] = k
    BY <2>1, <2>2, ConcatProperties
  <2>4. \A j \in 1..Len(<<m>> \o <<k>>) : (<<m>> \o <<k>>)[j] = <<m, k>>[j]
    BY <2>2, <2>3
  <2> QED
    BY <2>1, <2>2, <2>3, <2>4, SeqEqual
<1> QED
  BY <1>1, <1>2, <1>3

LEMMA BoardKept ==
  ASSUME BoardLegal, UNCHANGED <<board, currentPlayer>>,
         asked' = asked \/ asked' \in {"over", "killed"} \/ (asked = "again1" /\ asked' = "again2")
  PROVE  BoardLegal' /\ Announcement' = Announcement
BY DEF BoardLegal, Announcement, Games!Marks

(* What a legal move makes of the board.                                   *)
LEMMA GameCard == ASSUME NEW S PROVE Games!Cardinality(S) = Cardinality(S)
BY DEF Games!Cardinality, Cardinality

LEMMA CellsAreFinite ==
  ASSUME Games!GameAssumption
  PROVE  /\ IsFiniteSet(Games!Cell) /\ <<1, 1>> \in Games!Cell
         /\ \A p \in Games!Player : Games!Marks(p) \in Nat
<1>1. BoardSize \in Nat /\ 1 \in 1..BoardSize
  BY DEF Games!GameAssumption
<1>2. IsFiniteSet(1..BoardSize)
  BY <1>1, FS_Interval
<1>3. IsFiniteSet(Games!Cell)
  BY <1>2, FS_Product DEF Games!Cell
<1>4. ASSUME NEW p \in Games!Player PROVE Games!Marks(p) \in Nat
  <2>1. {c \in Games!Cell : board[c] = p} \in SUBSET Games!Cell
    OBVIOUS
  <2> QED
    BY <1>3, <2>1, FS_Subset, FS_CardinalityType, GameCard DEF Games!Marks
<1> QED
  BY <1>1, <1>3, <1>4 DEF Games!Cell

LEMMA MarkMade ==
  ASSUME Games!GameAssumption, Games!TypeOK, NEW p \in Games!Player, NEW c \in Games!Cell,
         board[c] = Games!Empty, board' = [board EXCEPT ![c] = p]
  PROVE  /\ board' \in [Games!Cell -> Games!Player \cup {Games!Empty}]
         /\ Games!Marks(p)' = Games!Marks(p) + 1
         /\ Games!Marks(Games!Other(p))' = Games!Marks(Games!Other(p))
         /\ Games!Complete(board', Games!Other(p)) => Games!Complete(board, Games!Other(p))
<1> DEFINE o == Games!Other(p)
<1>1. p # o /\ p # Games!Empty /\ o # Games!Empty /\ o \in Games!Player
  <2>1. p = 1 \/ p = 2
    BY GameConstants
  <2>2. p = 1 => o = 2
    BY GameConstants
  <2>3. p = 2 => o = 1
    BY GameConstants
  <2> HIDE DEF o
  <2>4. p # o /\ p # 0 /\ o # 0 /\ (o = 1 \/ o = 2)
    BY <2>1, <2>2, <2>3
  <2> QED
    BY <2>4, GameConstants DEF Games!Empty
<1>2. board \in [Games!Cell -> Games!Player \cup {Games!Empty}]
  BY DEF Games!TypeOK
<1>3. board' \in [Games!Cell -> Games!Player \cup {Games!Empty}]
  BY <1>2
<1>4. board'[c] = p /\ \A d \in Games!Cell : d # c => board'[d] = board[d]
  BY <1>2
<1>5. Games!Marks(p)' = Games!Marks(p) + 1
  <2> DEFINE S == {d \in Games!Cell : board[d] = p}
  <2>1. c \notin S /\ {d \in Games!Cell : board'[d] = p} = S \cup {c}
    BY <1>1, <1>4
  <2>2. S \in SUBSET Games!Cell
    OBVIOUS
  <2>3. IsFiniteSet(S)
    BY <2>2, CellsAreFinite, FS_Subset
  <2>4. Cardinality(S \cup {c}) = Cardinality(S) + 1
    BY <2>1, <2>3, FS_AddElement
  <2> QED
    BY <2>1, <2>4, GameCard DEF Games!Marks
<1>6. Games!Marks(o)' = Games!Marks(o)
  <2>1. {d \in Games!Cell : board'[d] = o} = {d \in Games!Cell : board[d] = o}
    BY <1>1, <1>4
  <2> QED
    BY <2>1 DEF Games!Marks
<1>7. ASSUME Games!Complete(board', o) PROVE Games!Complete(board, o)
  <2>1. PICK line \in Games!Rows \cup Games!Columns \cup Games!Diagonals : \A d \in line : board'[d] = o
    BY <1>7 DEF Games!Complete
  <2>2. ASSUME NEW d \in line PROVE board[d] = o
    <3>1. board'[d] = o /\ d # c
      BY <1>1, <1>4, <2>1, <2>2
    <3>2. board' = [board EXCEPT ![c] = p]
      OBVIOUS
    <3>3. d \in Games!Cell
      BY <2>1, <2>2 DEF Games!Rows, Games!Columns, Games!Diagonals, Games!Cell, Games!GameAssumption
    <3> QED
      BY <1>4, <3>1, <3>3
  <2> QED
    BY <2>1, <2>2 DEF Games!Complete
<1> QED
  BY <1>3, <1>5, <1>6, <1>7

LEMMA GameMove ==
  ASSUME Games!GameAssumption, GameInv, Games!HandleMove PROVE GameInv'
<1>1. /\ Games!TypeOK /\ addr = [q \in Games!Player |-> q] /\ \A q \in gone : inbox[q] = <<>>
      /\ udp => gone = {}
  BY DEF GameInv
<1>2. asked = "move" /\ Underway /\ Leaving /\ Doing /\ UNCHANGED <<udp, replay1, client, gone, losses>>
  BY DEF Games!HandleMove, GameInv, Underway
<1>0. PICK c, o : c = currentPlayer /\ o = Games!Other(currentPlayer)
  OBVIOUS
<1>3. c \in Games!Player /\ o \in Games!Player /\ c # o /\ Games!Asked = c /\ Games!Player = {1, 2}
      /\ \A q \in Games!Player : q = c \/ q = o
  <2>1. c = 1 \/ c = 2
    BY <1>0, <1>1, GameConstants DEF Games!TypeOK
  <2>2. c = 1 => o = 2
    BY <1>0, GameConstants
  <2>3. c = 2 => o = 1
    BY <1>0, GameConstants
  <2>4. Games!Asked = c
    BY <1>0, <1>1, <1>2, AskedIs
  <2> QED
    BY <2>1, <2>2, <2>3, <2>4, GameConstants
<1>4. PICK a \in Games!Answer :
        /\ Games!Receive(a)
        /\ \/ /\ ~Games!IsValidMove(a.text)
              /\ Games!ToPlayer(currentPlayer, <<"turn">>)
              /\ UNCHANGED <<board, currentPlayer, asked>>
           \/ /\ Games!IsValidMove(a.text)
              /\ board' = [board EXCEPT ![a.text] = currentPlayer]
              /\ IF Games!CheckWin(board') THEN Games!EndPlay(Games!Wins(currentPlayer))
                 ELSE IF Games!CheckDraw(board') THEN Games!EndPlay("draw")
                 ELSE Games!PassTurn
  BY DEF Games!HandleMove
<1>5. outbox' = <<>> /\ addr' = addr /\ inbox[c] = <<>> /\ (c \notin gone => client[c] = "reading")
  BY <1>2, <1>3, <1>4, GameReceives
<1>6. \A q \in Games!Player : inbox[q] = <<>> /\ (q \notin gone => client[q] = "reading")
  BY <1>1, <1>2, <1>3, <1>5 DEF Doing, Watching, Idle
<1>7. outbox' \in Seq(Games!Answer) /\ Answers' /\ Leaving'
  BY <1>2, <1>5 DEF Answers, Leaving
<1>8. "turn" \in Games!Message /\ "again" \in Games!Message /\ <<>> \o <<"turn">> = <<"turn">>
  BY <1>1, MessageLists, FirstMessage
<1>9. \A p \in Games!Player :
        Games!ToPlayer(p, <<"turn">>) =>
          /\ inbox' \in [Games!Player -> Seq(Games!Message)]
          /\ \A q \in Games!Player : q \in gone => inbox'[q] = <<>>
          /\ p \notin gone => inbox'[p] = <<"turn">>
          /\ \A q \in Games!Player : q \notin gone /\ q # p => inbox'[q] = <<>>
  BY <1>1, <1>6, <1>8, GameAsks
<1>10. CASE /\ Games!ToPlayer(currentPlayer, <<"turn">>)
            /\ UNCHANGED <<board, currentPlayer, asked>>
  <2>1. Games!Asked' = c
    BY <1>0, <1>2, <1>10 DEF Games!Asked
  <2>2. Games!TypeOK'
    BY <1>0, <1>1, <1>2, <1>3, <1>5, <1>7, <1>9, <1>10 DEF Games!TypeOK
  <2>3. Doing'
    BY <1>0, <1>2, <1>3, <1>6, <1>9, <1>10, <2>1 DEF Doing, Answering, Watching, Idle
  <2>4. BoardLegal'
    BY <1>10, BoardKept DEF GameInv
  <2>5. \A q \in gone' : inbox'[q] = <<>>
    BY <1>0, <1>1, <1>2, <1>3, <1>9, <1>10 DEF Games!TypeOK
  <2> QED
    BY <1>0, <1>1, <1>2, <1>5, <1>7, <2>2, <2>3, <2>4, <2>5 DEF GameInv
<1>11. CASE /\ Games!IsValidMove(a.text)
            /\ board' = [board EXCEPT ![a.text] = currentPlayer]
            /\ IF Games!CheckWin(board') THEN Games!EndPlay(Games!Wins(currentPlayer))
               ELSE IF Games!CheckDraw(board') THEN Games!EndPlay("draw")
               ELSE Games!PassTurn
  <2>1. /\ board' \in [Games!Cell -> Games!Player \cup {Games!Empty}]
        /\ Games!Marks(c)' = Games!Marks(c) + 1
        /\ Games!Marks(o)' = Games!Marks(o)
        /\ Games!Complete(board', o) => Games!Complete(board, o)
    <3>1. a.text \in Games!Cell /\ board[a.text] = Games!Empty
      BY <1>11 DEF Games!IsValidMove
    <3> QED
      BY <1>0, <1>1, <1>3, <1>11, <3>1, MarkMade
  <2>2. /\ Games!Marks(1) = Games!Marks(2) + (IF currentPlayer = 2 THEN 1 ELSE 0)
        /\ ~Games!CheckWin(board)
    BY <1>2 DEF GameInv, BoardLegal
  <2>3. ~Games!Complete(board', o)
    BY <1>0, <1>3, <2>1, <2>2 DEF Games!CheckWin
  <2>4. CASE ~Games!CheckWin(board') /\ ~Games!CheckDraw(board') /\ Games!PassTurn
    <3>1. asked' = "move" /\ currentPlayer' = o /\ Games!ToPlayer(o, <<"turn">>) /\ Games!Asked' = o
      BY <1>0, <1>2, <2>4 DEF Games!PassTurn, Games!Asked
    <3>2. Games!TypeOK'
      BY <1>0, <1>1, <1>2, <1>3, <1>5, <1>7, <1>9, <2>1, <3>1 DEF Games!TypeOK, Games!Question
    <3>3. Doing'
      BY <1>0, <1>2, <1>3, <1>6, <1>9, <3>1 DEF Doing, Answering, Watching, Idle
    <3>4. Games!Marks(1)' = Games!Marks(2)' + (IF currentPlayer' = 2 THEN 1 ELSE 0)
      <4>1. Games!Marks(1) \in Nat /\ Games!Marks(2) \in Nat
        BY CellsAreFinite, GameConstants
      <4>2. CASE c = 1
        <5>1. o = 2
          BY <1>0, <4>2, GameConstants
        <5> QED
          BY <1>0, <2>1, <2>2, <3>1, <4>1, <4>2, <5>1
      <4>3. CASE c = 2
        <5>1. o = 1
          BY <1>0, <4>3, GameConstants
        <5> QED
          BY <1>0, <2>1, <2>2, <3>1, <4>1, <4>3, <5>1
      <4> QED
        BY <1>3, <4>2, <4>3
    <3>5. BoardLegal'
      BY <2>4, <3>1, <3>4 DEF BoardLegal
    <3>6. \A q \in gone' : inbox'[q] = <<>>
      BY <1>0, <1>1, <1>2, <1>3, <1>9, <3>1 DEF Games!TypeOK
    <3> QED
      BY <1>0, <1>1, <1>2, <1>5, <1>7, <3>2, <3>3, <3>5, <3>6 DEF GameInv
  <2>5. ASSUME NEW r, Games!EndPlay(r), r = IF Games!CheckWin(board') THEN Games!Wins(currentPlayer) ELSE "draw"
        PROVE  GameInv'
    <3>1. /\ asked' = "again1" /\ currentPlayer' = c /\ Games!Send(<<r, "again">>, <<r>>) /\ Games!Asked' = 1
          /\ Announcement' = r
      BY <1>0, <2>5 DEF Games!EndPlay, Games!Asked, Announcement
    <3>2. r \in Games!Message
      <4>1. currentPlayer = 1 \/ currentPlayer = 2
        BY <1>0, <1>3
      <4> QED
        BY <2>5, <4>1, GameConstants DEF Games!Message, Games!Result
    <3>3. <<r, "again">> \in Seq(Games!Message) /\ <<r>> \in Seq(Games!Message)
      BY <1>1, <1>8, <3>2, MessageLists
    <3>4. /\ inbox' \in [Games!Player -> Seq(Games!Message)]
          /\ \A q \in gone : q \in Games!Player => inbox'[q] = <<>>
          /\ 1 \notin gone => inbox'[1] = <<>> \o <<r, "again">>
          /\ 2 \notin gone => inbox'[2] = <<>> \o <<r>>
      BY <1>0, <1>1, <1>3, <1>6, <3>1, <3>3, GameSends
    <3>5. <<>> \o <<r, "again">> = <<r, "again">> /\ <<>> \o <<r>> = <<r>>
      BY <1>1, <1>8, <3>2, FirstMessage
    <3>6. Games!TypeOK'
      BY <1>0, <1>1, <1>2, <1>5, <1>7, <2>1, <3>1, <3>4 DEF Games!TypeOK, Games!Question
    <3>7. Doing'
      BY <1>0, <1>2, <1>3, <1>6, <3>1, <3>4, <3>5 DEF Doing, Answering, Watching, Idle
    <3>8. BoardLegal'
      BY <1>0, <2>3, <3>1 DEF BoardLegal
    <3>9. \A q \in gone' : inbox'[q] = <<>>
      BY <1>0, <1>1, <1>2, <3>4 DEF Games!TypeOK
    <3> QED
      BY <1>0, <1>1, <1>2, <1>5, <1>7, <3>6, <3>7, <3>8, <3>9 DEF GameInv
  <2> QED
    BY <1>11, <2>4, <2>5
<1> QED
  BY <1>4, <1>10, <1>11

LEMMA GamePrompt1 ==
  ASSUME Games!GameAssumption, GameInv, Games!PromptReplay1 PROVE GameInv'
<1>1. /\ Games!TypeOK /\ addr = [q \in Games!Player |-> q] /\ \A q \in gone : inbox[q] = <<>>
      /\ udp => gone = {}
  BY DEF GameInv
<1>2. /\ asked = "again1" /\ Underway /\ Leaving /\ Doing /\ asked' = "again2"
      /\ UNCHANGED <<udp, board, currentPlayer, client, gone, losses>> /\ Games!ToPlayer(2, <<"again">>)
      /\ replay1' \in BOOLEAN
  BY DEF Games!PromptReplay1, GameInv, Underway
<1>3. Games!Asked = 1 /\ Games!Asked' = 2 /\ Games!Player = {1, 2}
  BY <1>1, <1>2, AskedIs, GameConstants DEF Games!Asked
<1>4. outbox' = <<>> /\ addr' = addr /\ inbox[1] = <<>> /\ (1 \notin gone => client[1] = "reading")
  BY <1>2, <1>3, GameReceives DEF Games!PromptReplay1
<1>5. outbox' \in Seq(Games!Answer) /\ Answers' /\ Leaving'
  BY <1>2, <1>4 DEF Answers, Leaving
<1>6. "again" \in Games!Message /\ <<>> \o <<"again">> = <<"again">>
      /\ Announcement \in Games!Message /\ <<Announcement>> \o <<"again">> = <<Announcement, "again">>
  BY <1>1, MessageLists, FirstMessage
<1>7. /\ inbox' \in [Games!Player -> Seq(Games!Message)]
      /\ \A q \in Games!Player : q \in gone => inbox'[q] = <<>>
      /\ 2 \notin gone => inbox'[2] = inbox[2] \o <<"again">>
      /\ 1 \notin gone => inbox'[1] = <<>>
  BY <1>1, <1>2, <1>3, <1>4, <1>6, GameAsks
<1>8. BoardLegal' /\ Announcement' = Announcement
  BY <1>2, BoardKept DEF GameInv
<1>9. Games!TypeOK'
  BY <1>1, <1>2, <1>4, <1>5, <1>7 DEF Games!TypeOK, Games!Question
<1>10. 2 \notin gone => Answering(2)'
  <2>1. SUFFICES ASSUME 2 \notin gone PROVE Answering(2)'
    OBVIOUS
  <2>2. Watching(2)
    BY <1>2, <1>3, <2>1 DEF Doing
  <2>3. \/ inbox[2] = <<>> /\ client[2] = "reading" /\ (udp => losses > 0)
        \/ inbox[2] = <<Announcement>> /\ client[2] = "reading"
        \/ udp /\ inbox[2] = <<>> /\ client[2] = "result"
    BY <1>2, <2>2 DEF Watching, Idle
  <2>4. CASE inbox[2] = <<>> /\ client[2] = "reading" /\ (udp => losses > 0)
    BY <1>2, <1>6, <1>7, <2>1, <2>4 DEF Answering
  <2>5. CASE inbox[2] = <<Announcement>> /\ client[2] = "reading"
    BY <1>2, <1>6, <1>7, <1>8, <2>1, <2>5 DEF Answering
  <2>6. CASE udp /\ inbox[2] = <<>> /\ client[2] = "result"
    BY <1>2, <1>6, <1>7, <2>1, <2>6 DEF Answering
  <2> QED
    BY <2>3, <2>4, <2>5, <2>6
<1>11. Doing'
  BY <1>2, <1>3, <1>4, <1>7, <1>10 DEF Doing, Watching, Idle
<1>12. \A q \in gone' : inbox'[q] = <<>>
  BY <1>1, <1>2, <1>7 DEF Games!TypeOK
<1> QED
  BY <1>1, <1>2, <1>4, <1>5, <1>8, <1>9, <1>11, <1>12 DEF GameInv

LEMMA FreshBoard ==
  ASSUME Games!GameAssumption, NEW b, b = Games!InitializeBoard
  PROVE  /\ b \in [Games!Cell -> Games!Player \cup {Games!Empty}]
         /\ ~Games!CheckWin(b) /\ ~Games!CheckDraw(b)
         /\ board = b => Games!Marks(1) = 0 /\ Games!Marks(2) = 0
         /\ board' = b => Games!Marks(1)' = 0 /\ Games!Marks(2)' = 0
<1>1. \A c \in Games!Cell : b[c] = 0
  BY DEF Games!InitializeBoard, Games!Empty
<1>2. b \in [Games!Cell -> Games!Player \cup {Games!Empty}]
  BY DEF Games!InitializeBoard
<1>3. {c \in Games!Cell : b[c] = 1} = {} /\ {c \in Games!Cell : b[c] = 2} = {}
  BY <1>1
<1>4. /\ board = b => Games!Marks(1) = 0 /\ Games!Marks(2) = 0
      /\ board' = b => Games!Marks(1)' = 0 /\ Games!Marks(2)' = 0
  BY <1>3, FS_EmptySet, GameCard DEF Games!Marks
<1>5. ASSUME NEW line \in Games!Rows \cup Games!Columns \cup Games!Diagonals
      PROVE  \E d \in line : d \in Games!Cell
  <2>1. BoardSize \in Nat \ {0} /\ 1 \in 1..BoardSize
    BY DEF Games!GameAssumption
  <2>2. CASE line \in Games!Rows
    <3>1. PICK x \in 1..BoardSize : line = {<<x, y>> : y \in 1..BoardSize}
      BY <2>2 DEF Games!Rows
    <3>2. <<x, 1>> \in line /\ <<x, 1>> \in Games!Cell
      BY <2>1, <3>1 DEF Games!Cell
    <3> QED
      BY <3>2
  <2>3. CASE line \in Games!Columns
    <3>1. PICK y \in 1..BoardSize : line = {<<x, y>> : x \in 1..BoardSize}
      BY <2>3 DEF Games!Columns
    <3>2. <<1, y>> \in line /\ <<1, y>> \in Games!Cell
      BY <2>1, <3>1 DEF Games!Cell
    <3> QED
      BY <3>2
  <2>4. CASE line \in Games!Diagonals
    <3>1. BoardSize + 1 - 1 \in 1..BoardSize
      BY <2>1
    <3>2. <<1, 1>> \in line \/ <<1, BoardSize + 1 - 1>> \in line
      BY <2>1, <2>4 DEF Games!Diagonals
    <3>3. <<1, 1>> \in Games!Cell /\ <<1, BoardSize + 1 - 1>> \in Games!Cell
      BY <2>1, <3>1 DEF Games!Cell
    <3> QED
      BY <3>2, <3>3
  <2> QED
    BY <1>5, <2>2, <2>3, <2>4
<1>6. ~Games!CheckWin(b)
  <2>1. SUFFICES ASSUME NEW p \in Games!Player,
                        NEW line \in Games!Rows \cup Games!Columns \cup Games!Diagonals,
                        \A d \in line : b[d] = p
                 PROVE  FALSE
    BY DEF Games!CheckWin, Games!Complete
  <2>2. PICK d \in line : d \in Games!Cell
    BY <1>5
  <2>3. p = 1 \/ p = 2
    BY GameConstants
  <2> QED
    BY <1>1, <2>1, <2>2, <2>3
<1>7. ~Games!CheckDraw(b)
  BY <1>1, CellsAreFinite DEF Games!CheckDraw, Games!Empty
<1> QED
  BY <1>2, <1>4, <1>6, <1>7

LEMMA GamePrompt2 ==
  ASSUME Games!GameAssumption, GameInv, Games!PromptReplay2 PROVE GameInv'
<1>1. /\ Games!TypeOK /\ addr = [q \in Games!Player |-> q] /\ \A q \in gone : inbox[q] = <<>>
      /\ udp => gone = {}
  BY DEF GameInv
<1>2. /\ asked = "again2" /\ Underway /\ Leaving /\ Doing
      /\ UNCHANGED <<udp, client, gone, losses>> /\ replay1' = FALSE
  BY DEF Games!PromptReplay2, GameInv, Underway
<1>3. Games!Asked = 2 /\ Games!Player = {1, 2}
  BY <1>1, <1>2, AskedIs, GameConstants
<1>4. PICK a \in Games!Answer :
        /\ Games!Receive(a)
        /\ IF replay1 /\ a.text = Games!Yes
           THEN /\ board' = Games!InitializeBoard
                /\ currentPlayer' = 1
                /\ asked' = "move"
                /\ Games!ToPlayer(1, <<"turn">>)
           ELSE /\ asked' = "over"
                /\ LET bye == IF udp THEN <<"game over">> ELSE <<"closing">> IN Games!Send(bye, bye)
                /\ UNCHANGED <<board, currentPlayer>>
  BY DEF Games!PromptReplay2
<1>5. outbox' = <<>> /\ addr' = addr /\ inbox[2] = <<>> /\ (2 \notin gone => client[2] = "reading")
  BY <1>2, <1>3, <1>4, GameReceives
<1>6. \A q \in Games!Player : inbox[q] = <<>> /\ (q \notin gone => client[q] = "reading")
  BY <1>1, <1>2, <1>3, <1>5 DEF Doing, Watching, Idle
<1>7. outbox' \in Seq(Games!Answer) /\ Answers' /\ Leaving'
  BY <1>2, <1>5 DEF Answers, Leaving
<1>8. CASE board' = Games!InitializeBoard /\ currentPlayer' = 1 /\ asked' = "move"
           /\ Games!ToPlayer(1, <<"turn">>)
  <2>1. "turn" \in Games!Message /\ <<>> \o <<"turn">> = <<"turn">>
    BY <1>1, MessageLists, FirstMessage
  <2>2. /\ inbox' \in [Games!Player -> Seq(Games!Message)]
        /\ \A q \in Games!Player : q \in gone => inbox'[q] = <<>>
        /\ 1 \notin gone => inbox'[1] = <<"turn">>
        /\ 2 \notin gone => inbox'[2] = <<>>
    BY <1>1, <1>3, <1>6, <1>8, <2>1, GameAsks
  <2>3. Games!Asked' = 1
    BY <1>8 DEF Games!Asked
  <2>4. Games!TypeOK'
    BY <1>1, <1>2, <1>3, <1>5, <1>7, <1>8, <2>2, FreshBoard DEF Games!TypeOK, Games!Question
  <2>5. Doing'
    BY <1>2, <1>3, <1>6, <1>8, <2>2, <2>3 DEF Doing, Answering, Watching, Idle
  <2>6. BoardLegal'
    BY <1>8, FreshBoard DEF BoardLegal
  <2>7. \A q \in gone' : inbox'[q] = <<>>
    BY <1>1, <1>2, <2>2 DEF Games!TypeOK
  <2> QED
    BY <1>1, <1>2, <1>5, <1>7, <2>4, <2>5, <2>6, <2>7 DEF GameInv
<1>9. ASSUME NEW bye, Games!Send(bye, bye), asked' = "over", UNCHANGED <<board, currentPlayer>>,
             bye = IF udp THEN <<"game over">> ELSE <<"closing">>
      PROVE  GameInv'
  <2>1. bye \in Seq(Games!Message)
    BY <1>1, <1>9, MessageLists
  <2>2. /\ inbox' \in [Games!Player -> Seq(Games!Message)]
        /\ \A q \in gone : q \in Games!Player => inbox'[q] = <<>>
    BY <1>1, <1>9, <2>1, GameSends
  <2>3. Games!TypeOK'
    BY <1>1, <1>2, <1>5, <1>7, <1>9, <2>2 DEF Games!TypeOK, Games!Question
  <2>4. BoardLegal'
    BY <1>9, BoardKept DEF GameInv
  <2>5. \A q \in gone' : inbox'[q] = <<>>
    BY <1>1, <1>2, <2>2 DEF Games!TypeOK
  <2> QED
    BY <1>1, <1>2, <1>5, <1>9, <2>3, <2>4, <2>5 DEF GameInv, Underway
<1> QED
  BY <1>4, <1>8, <1>9

LEMMA GameBreaks == ASSUME GameInv, Games!BrokenPipe PROVE GameInv'
<1>1. asked' = "killed"
      /\ UNCHANGED <<udp, board, currentPlayer, replay1, addr, inbox, outbox, client, gone, losses>>
  BY DEF Games!BrokenPipe
<1>2. BoardLegal'
  BY <1>1, BoardKept DEF GameInv
<1> QED
  BY <1>1, <1>2 DEF GameInv, Underway, Games!TypeOK, Games!Question

LEMMA GameLeaves == ASSUME GameInv, NEW p \in Games!Player, Games!Leave(p) PROVE GameInv'
<1>1. /\ Games!TypeOK /\ addr = [q \in Games!Player |-> q] /\ \A q \in gone : inbox[q] = <<>>
      /\ udp => gone = {}
  BY DEF GameInv
<1>2. /\ ~udp /\ gone' = gone \cup {p} /\ inbox' = [inbox EXCEPT ![p] = <<>>]
      /\ client' = [client EXCEPT ![p] = "ended"]
      /\ UNCHANGED <<udp, board, currentPlayer, asked, replay1, addr, outbox, losses>>
  BY DEF Games!Leave
<1>3. /\ inbox'[p] = <<>> /\ client'[p] = "ended"
      /\ \A q \in Games!Player : q # p => inbox'[q] = inbox[q] /\ client'[q] = client[q]
  BY <1>1, <1>2 DEF Games!TypeOK
<1>4. BoardLegal' /\ Announcement' = Announcement
  BY <1>2, BoardKept DEF GameInv
<1>5. Games!TypeOK'
  <2>1. <<>> \in Seq(Games!Message)
    OBVIOUS
  <2> QED
    BY <1>1, <1>2, <2>1 DEF Games!TypeOK, Games!ClientPlaces
<1>6. Games!Asked' = Games!Asked /\ Underway' = Underway /\ Games!Asked \in Games!Player
  BY <1>1, <1>2, AskedIs DEF Games!Asked, Underway
<1>7. ASSUME Underway PROVE Leaving' /\ Doing' /\ Answers'
  <2>1. Leaving /\ Doing /\ Answers
    BY <1>7 DEF GameInv
  <2>2. Leaving'
    BY <1>1, <1>2, <1>3, <2>1 DEF Leaving
  <2>3. ASSUME NEW q \in Games!Player, q \notin gone'
        PROVE  IF q = Games!Asked' THEN Answering(q)' \/ Answered(q)' ELSE Watching(q)'
    <3>1. q # p /\ q \notin gone
      BY <1>2, <2>3
    <3>2. IF q = Games!Asked THEN Answering(q) \/ Answered(q) ELSE Watching(q)
      BY <2>1, <3>1 DEF Doing
    <3>3. /\ Answering(q) => Answering(q)'
          /\ Answered(q) => Answered(q)'
          /\ Watching(q) => Watching(q)'
      BY <1>2, <1>3, <1>4, <3>1 DEF Answering, Answered, Watching, Idle
    <3> QED
      BY <1>6, <3>2, <3>3
  <2>4. Answers'
    <3>1. SUFFICES ASSUME NEW a \in Games!Answer, AnswerSent(a) PROVE AnswerSent(a)'
      BY <1>2, <2>1 DEF Answers
    <3>2. a.from \in Games!Player
      BY DEF Games!Answer
    <3> QED
      BY <1>2, <1>3, <1>6, <3>1, <3>2 DEF AnswerSent
  <2> QED
    BY <2>2, <2>3, <2>4 DEF Doing
<1>8. \A q \in gone' : inbox'[q] = <<>>
  BY <1>1, <1>2, <1>3 DEF Games!TypeOK
<1> QED
  BY <1>1, <1>2, <1>4, <1>5, <1>6, <1>7, <1>8 DEF GameInv

(* A player who has messages: which, and where he is.                      *)
Expecting(q) ==
  \/ asked = "move" /\ inbox[q] = <<"turn">> /\ client[q] = "reading"
  \/ asked # "move" /\ inbox[q] = <<Announcement, "again">> /\ client[q] = "reading"
  \/ asked # "move" /\ inbox[q] = <<"again">> /\ client[q] = "reading" /\ (udp => losses > 0)
  \/ asked # "move" /\ inbox[q] = <<"again">> /\ client[q] = "result" /\ udp
Looking(q) ==
  asked = "again1" /\ q = 2 /\ inbox[q] = <<Announcement>> /\ client[q] = "reading"

LEMMA HasMessages ==
  ASSUME GameInv, Underway, NEW p \in Games!Player, inbox[p] # <<>>
  PROVE  p \notin gone /\ IF p = Games!Asked THEN Expecting(p) ELSE Looking(p)
<1>1. p \notin gone /\ Doing
  BY DEF GameInv
<1>2. IF p = Games!Asked THEN Answering(p) \/ Answered(p) ELSE Watching(p)
  BY <1>1 DEF Doing
<1> QED
  BY <1>1, <1>2 DEF Answering, Answered, Watching, Idle, Expecting, Looking

(* When only p has got on, the others are where they were.                 *)
LEMMA OthersWait ==
  ASSUME GameInv, Underway, NEW p \in Games!Player, losses' = losses \/ (losses \in Nat /\ losses' = losses + 1),
         UNCHANGED <<udp, board, currentPlayer, asked, outbox, gone>>,
         \A q \in Games!Player : q # p => inbox'[q] = inbox[q] /\ client'[q] = client[q],
         p \notin gone, client'[p] # "ended", inbox[p] # <<>>,
         IF p = Games!Asked THEN Answering(p)' \/ Answered(p)' ELSE Watching(p)'
  PROVE  Leaving' /\ Doing' /\ Answers'
<1>1. /\ Games!TypeOK /\ Leaving /\ Doing /\ Answers /\ Games!Asked' = Games!Asked
      /\ Games!Asked \in Games!Player /\ Announcement' = Announcement
  BY AskedIs DEF GameInv, Games!Asked, Announcement
<1>2. client[p] # "ended" /\ Leaving'
  BY <1>1 DEF Leaving
<1>3. ASSUME NEW q \in Games!Player, q \notin gone', q # p
      PROVE  IF q = Games!Asked' THEN Answering(q)' \/ Answered(q)' ELSE Watching(q)'
  <2>1. IF q = Games!Asked THEN Answering(q) \/ Answered(q) ELSE Watching(q)
    BY <1>1, <1>3 DEF Doing
  <2>2. inbox'[q] = inbox[q] /\ client'[q] = client[q] /\ (losses > 0 => losses' > 0)
    BY <1>3
  <2>3. /\ Answering(q) => Answering(q)'
        /\ Answered(q) => Answered(q)'
        /\ Watching(q) => Watching(q)'
    BY <1>1, <2>2 DEF Answering, Answered, Watching, Idle
  <2> QED
    BY <1>1, <2>1, <2>3
<1>4. Doing'
  BY <1>1, <1>3 DEF Doing
<1>5. Answers'
  <2>1. SUFFICES ASSUME NEW a \in Games!Answer, AnswerSent(a) PROVE AnswerSent(a)'
    BY <1>1 DEF Answers
  <2>2. a.from \in Games!Player /\ a.from # p
    BY <2>1 DEF Games!Answer, AnswerSent
  <2> QED
    BY <1>1, <2>1, <2>2 DEF AnswerSent
<1> QED
  BY <1>2, <1>4, <1>5

LEMMA GameReads ==
  ASSUME GameInv, NEW p \in Games!Player, Games!ReadStream(p) PROVE GameInv'
<1>1. /\ Games!TypeOK /\ addr = [q \in Games!Player |-> q] /\ \A q \in gone : inbox[q] = <<>>
      /\ udp => gone = {}
  BY DEF GameInv
<1>2. PICK n \in 1..Len(inbox[p]) :
        /\ inbox' = [inbox EXCEPT ![p] = SubSeq(@, n + 1, Len(@))]
        /\ client' = [client EXCEPT ![p] = Games!Heard({inbox[p][k] : k \in 1..n})]
  BY DEF Games!ReadStream
<1>3. /\ ~udp /\ client[p] = "reading"
      /\ UNCHANGED <<udp, board, currentPlayer, asked, replay1, addr, outbox, gone, losses>>
  BY DEF Games!ReadStream
<1> DEFINE got == {inbox[p][k] : k \in 1..n}
<1>4. inbox[p] \in Seq(Games!Message) /\ inbox[p] # <<>> /\ Len(inbox[p]) \in Nat /\ p \notin gone
  <2>1. inbox[p] \in Seq(Games!Message)
    BY <1>1 DEF Games!TypeOK
  <2>2. inbox[p] # <<>>
    BY <1>2
  <2> QED
    BY <1>1, <2>1, <2>2, LenProperties
<1>5. /\ inbox'[p] = SubSeq(inbox[p], n + 1, Len(inbox[p])) /\ client'[p] = Games!Heard(got)
      /\ \A q \in Games!Player : q # p => inbox'[q] = inbox[q] /\ client'[q] = client[q]
  BY <1>1, <1>2 DEF Games!TypeOK
<1>6. Games!TypeOK'
  <2>1. SubSeq(inbox[p], n + 1, Len(inbox[p])) \in Seq(Games!Message)
    <3>1. \A k \in (n + 1)..Len(inbox[p]) : inbox[p][k] \in Games!Message
      <4>1. \A k \in (n + 1)..Len(inbox[p]) : k \in 1..Len(inbox[p])
        BY <1>2, <1>4
      <4> QED
        BY <1>4, <4>1, ElementOfSeq
    <3> QED
      BY <1>2, <1>4, <3>1, SubSeqProperties
  <2>2. Games!Heard(got) \in Games!ClientPlaces
    BY DEF Games!Heard, Games!ClientPlaces
  <2>3. inbox' \in [Games!Player -> Seq(Games!Message)]
    BY <1>1, <1>2, <2>1 DEF Games!TypeOK
  <2>4. client' \in [Games!Player -> Games!ClientPlaces]
    BY <1>1, <1>2, <2>2 DEF Games!TypeOK
  <2> QED
    BY <1>1, <1>3, <2>3, <2>4 DEF Games!TypeOK
<1>7. BoardLegal' /\ Announcement' = Announcement
  BY <1>3, BoardKept DEF GameInv
<1>8. ASSUME Underway PROVE Leaving' /\ Doing' /\ Answers'
  <2>1. IF p = Games!Asked THEN Expecting(p) ELSE Looking(p)
    BY <1>4, <1>8, HasMessages
  <2>2. /\ Announcement \notin {"turn", "again", "closing", "game over"} /\ Announcement \in Games!Result
        /\ "turn" \notin Games!Result /\ "again" \notin Games!Result /\ "closing" \notin Games!Result
    BY <1>1, Announcements DEF Games!Result
  <2>3. \A m : /\ inbox[p] = <<m>> => inbox'[p] = <<>> /\ got = {m}
    <3>1. SUFFICES ASSUME NEW m, inbox[p] = <<m>> PROVE inbox'[p] = <<>> /\ got = {m}
      OBVIOUS
    <3> QED
      BY <1>2, <1>5, <3>1, OneMessage
  <2>4. CASE asked = "move" /\ inbox[p] = <<"turn">> /\ p = Games!Asked
    <3>1. inbox'[p] = <<>> /\ got = {"turn"}
      BY <2>3, <2>4
    <3>2. client'[p] = "moving"
      BY <1>5, <2>2, <3>1 DEF Games!Heard
    <3>3. Answering(p)'
      BY <1>3, <2>4, <3>1, <3>2 DEF Answering
    <3> QED
      BY <1>3, <1>4, <1>5, <1>8, <2>4, <3>2, <3>3, OthersWait
  <2>5. CASE asked # "move" /\ inbox[p] = <<"again">> /\ p = Games!Asked
    <3>1. inbox'[p] = <<>> /\ got = {"again"}
      BY <2>3, <2>5
    <3>2. client'[p] = "choosing"
      BY <1>5, <2>2, <3>1 DEF Games!Heard
    <3>3. Answering(p)'
      BY <1>3, <2>5, <3>1, <3>2 DEF Answering
    <3> QED
      BY <1>3, <1>4, <1>5, <1>8, <2>5, <3>2, <3>3, OthersWait
  <2>6. CASE asked # "move" /\ inbox[p] = <<Announcement, "again">> /\ p = Games!Asked
    <3>1. Announcement \in Games!Message /\ "again" \in Games!Message
      BY <1>1, MessageLists
    <3>2. \/ inbox'[p] = <<"again">> /\ got = {Announcement}
          \/ inbox'[p] = <<>> /\ got = {Announcement, "again"}
      <4>1. Len(inbox[p]) = 2 /\ (n = 1 \/ n = 2)
        BY <1>2, <2>6, <3>1, TwoMessages
      <4>2. /\ SubSeq(inbox[p], 2, 2) = <<"again">> /\ {inbox[p][k] : k \in 1..1} = {Announcement}
            /\ SubSeq(inbox[p], 3, 2) = <<>> /\ {inbox[p][k] : k \in 1..2} = {Announcement, "again"}
        BY <2>6, <3>1, TwoMessages
      <4>3. CASE n = 1
        <5>1. inbox'[p] = <<"again">>
          BY <1>5, <4>1, <4>2, <4>3
        <5> QED
          BY <4>2, <4>3, <5>1
      <4>4. CASE n = 2
        <5>1. inbox'[p] = <<>>
          BY <1>5, <4>1, <4>2, <4>4
        <5> QED
          BY <4>2, <4>4, <5>1
      <4> QED
        BY <4>1, <4>3, <4>4
    <3>3. client'[p] = "reading"
      BY <1>5, <2>2, <3>2 DEF Games!Heard
    <3>4. Answering(p)' \/ Answered(p)'
      BY <1>3, <2>6, <3>2, <3>3 DEF Answering, Answered, Idle
    <3> QED
      BY <1>3, <1>4, <1>5, <1>8, <2>6, <3>3, <3>4, OthersWait
  <2>7. CASE inbox[p] = <<Announcement>> /\ p # Games!Asked
    <3>1. inbox'[p] = <<>> /\ got = {Announcement}
      BY <2>3, <2>7
    <3>2. client'[p] = "reading"
      BY <1>5, <2>2, <3>1 DEF Games!Heard
    <3>3. Watching(p)'
      BY <1>3, <3>1, <3>2 DEF Watching, Idle
    <3> QED
      BY <1>3, <1>4, <1>5, <1>8, <2>7, <3>2, <3>3, OthersWait
  <2> QED
    BY <1>3, <2>1, <2>4, <2>5, <2>6, <2>7 DEF Expecting, Looking
<1>9. \A q \in gone' : inbox'[q] = <<>>
  BY <1>1, <1>3, <1>4, <1>5 DEF Games!TypeOK
<1> QED
  BY <1>1, <1>3, <1>6, <1>7, <1>8, <1>9 DEF GameInv, Underway

LEMMA GameReadsOne ==
  ASSUME GameInv, NEW p \in Games!Player, Games!ReadDatagram(p) PROVE GameInv'
<1>1. /\ Games!TypeOK /\ addr = [q \in Games!Player |-> q] /\ \A q \in gone : inbox[q] = <<>>
      /\ udp => gone = {}
  BY DEF GameInv
<1>2. PICK m : m = Head(inbox[p])
  OBVIOUS
<1>3. /\ udp /\ client[p] \in {"reading", "result"} /\ inbox[p] # <<>>
      /\ inbox' = [inbox EXCEPT ![p] = Tail(@)]
      /\ client' = [client EXCEPT ![p] = IF @ = "result" THEN "choosing"
                                         ELSE IF m = "turn" THEN "moving"
                                         ELSE IF m \in Games!Result THEN "result" ELSE "reading"]
      /\ UNCHANGED <<udp, board, currentPlayer, asked, replay1, addr, outbox, gone, losses>>
  BY <1>2 DEF Games!ReadDatagram
<1>4. inbox[p] \in Seq(Games!Message) /\ p \notin gone /\ Tail(inbox[p]) \in Seq(Games!Message)
  <2>1. inbox[p] \in Seq(Games!Message)
    BY <1>1 DEF Games!TypeOK
  <2> QED
    BY <1>1, <1>3, <2>1, HeadTailProperties
<1>5. /\ inbox'[p] = Tail(inbox[p])
      /\ client'[p] = IF client[p] = "result" THEN "choosing"
                      ELSE IF m = "turn" THEN "moving"
                      ELSE IF m \in Games!Result THEN "result" ELSE "reading"
      /\ \A q \in Games!Player : q # p => inbox'[q] = inbox[q] /\ client'[q] = client[q]
  BY <1>1, <1>3 DEF Games!TypeOK
<1>6. Games!TypeOK'
  <2>1. inbox' \in [Games!Player -> Seq(Games!Message)]
    BY <1>1, <1>3, <1>4 DEF Games!TypeOK
  <2>2. client' \in [Games!Player -> Games!ClientPlaces]
    BY <1>1, <1>3 DEF Games!TypeOK, Games!ClientPlaces
  <2> QED
    BY <1>1, <1>3, <2>1, <2>2 DEF Games!TypeOK
<1>7. BoardLegal' /\ Announcement' = Announcement
  BY <1>3, BoardKept DEF GameInv
<1>8. ASSUME Underway PROVE Leaving' /\ Doing' /\ Answers'
  <2>1. IF p = Games!Asked THEN Expecting(p) ELSE Looking(p)
    BY <1>3, <1>8, HasMessages
  <2>2. /\ Announcement \notin {"turn", "again", "closing", "game over"} /\ Announcement \in Games!Result
        /\ "turn" \notin Games!Result /\ "again" \notin Games!Result /\ "closing" \notin Games!Result
    BY <1>1, Announcements DEF Games!Result
  <2>3. \A x : inbox[p] = <<x>> => inbox'[p] = <<>> /\ m = x
    BY <1>2, <1>5, OneMessage
  <2>4. CASE asked = "move" /\ inbox[p] = <<"turn">> /\ client[p] = "reading" /\ p = Games!Asked
    <3>1. inbox'[p] = <<>> /\ client'[p] = "moving"
      BY <1>5, <2>3, <2>4
    <3>2. Answering(p)'
      BY <1>3, <2>4, <3>1 DEF Answering
    <3> QED
      BY <1>3, <1>4, <1>5, <1>8, <2>4, <3>1, <3>2, OthersWait
  <2>5. CASE asked # "move" /\ inbox[p] = <<"again">> /\ p = Games!Asked
             /\ (client[p] = "reading" => losses > 0)
    <3>1. inbox'[p] = <<>> /\ client'[p] = IF client[p] = "result" THEN "choosing" ELSE "reading"
      <4>1. inbox'[p] = <<>> /\ m = "again"
        BY <2>3, <2>5
      <4> QED
        BY <1>5, <2>2, <4>1
    <3>2. Answering(p)' \/ Answered(p)'
      BY <1>3, <2>5, <3>1 DEF Answering, Answered, Idle
    <3>3. client'[p] # "ended"
      BY <3>1
    <3> QED
      BY <1>3, <1>4, <1>5, <1>8, <2>5, <3>2, <3>3, OthersWait
  <2>6. CASE asked # "move" /\ inbox[p] = <<Announcement, "again">> /\ client[p] = "reading" /\ p = Games!Asked
    <3>1. Announcement \in Games!Message /\ "again" \in Games!Message
      BY <1>1, MessageLists
    <3>2. inbox'[p] = <<"again">> /\ m = Announcement
      BY <1>2, <1>5, <2>6, <3>1, TwoMessages
    <3>3. client'[p] = "result"
      BY <1>5, <2>2, <2>6, <3>2
    <3>4. Answering(p)'
      BY <1>3, <2>6, <3>2, <3>3 DEF Answering
    <3> QED
      BY <1>3, <1>4, <1>5, <1>8, <2>6, <3>3, <3>4, OthersWait
  <2>7. CASE Looking(p) /\ p # Games!Asked
    <3>1. inbox'[p] = <<>> /\ client'[p] = "result" /\ asked = "again1" /\ p = 2
      <4>1. inbox[p] = <<Announcement>> /\ client[p] = "reading" /\ asked = "again1" /\ p = 2
        BY <2>7 DEF Looking
      <4>2. inbox'[p] = <<>> /\ m = Announcement
        BY <2>3, <4>1
      <4> QED
        BY <1>5, <2>2, <4>1, <4>2
    <3>2. Watching(p)'
      BY <1>3, <3>1 DEF Watching
    <3> QED
      BY <1>3, <1>4, <1>5, <1>8, <2>7, <3>1, <3>2, OthersWait
  <2> QED
    BY <1>3, <2>1, <2>4, <2>5, <2>6, <2>7 DEF Expecting
<1>9. \A q \in gone' : inbox'[q] = <<>>
  BY <1>1, <1>3, <1>4, <1>5 DEF Games!TypeOK
<1> QED
  BY <1>1, <1>3, <1>6, <1>7, <1>8, <1>9 DEF GameInv, Underway

LEMMA GameTypes ==
  ASSUME GameInv, NEW p \in Games!Player, Games!Type(p) PROVE GameInv'
<1>1. /\ Games!TypeOK /\ addr = [q \in Games!Player |-> q] /\ \A q \in gone : inbox[q] = <<>>
      /\ udp => gone = {}
  BY DEF GameInv
<1>2. PICK text \in Games!Text : outbox' = Append(outbox, [from |-> p, text |-> text])
  BY DEF Games!Type
<1>3. /\ client[p] \in {"moving", "choosing"} /\ client' = [client EXCEPT ![p] = "reading"]
      /\ UNCHANGED <<udp, board, currentPlayer, asked, replay1, addr, inbox, gone, losses>>
  BY DEF Games!Type
<1> DEFINE a == [from |-> p, text |-> text]
<1>4. a \in Games!Answer /\ a.from = p
  BY DEF Games!Answer
<1>5. client'[p] = "reading" /\ \A q \in Games!Player : q # p => client'[q] = client[q]
  BY <1>1, <1>3 DEF Games!TypeOK
<1>6. Games!TypeOK'
  <2>1. outbox' \in Seq(Games!Answer)
    BY <1>1, <1>2, <1>4, AppendProperties DEF Games!TypeOK
  <2>2. client' \in [Games!Player -> Games!ClientPlaces]
    BY <1>1, <1>3 DEF Games!TypeOK, Games!ClientPlaces
  <2> QED
    BY <1>1, <1>3, <2>1, <2>2 DEF Games!TypeOK
<1>7. BoardLegal' /\ Announcement' = Announcement
  BY <1>3, BoardKept DEF GameInv
<1>8. ASSUME Underway PROVE Leaving' /\ Doing' /\ Answers'
  <2>1. Leaving /\ Doing /\ Answers /\ Games!Asked' = Games!Asked /\ Games!Asked \in Games!Player
    BY <1>1, <1>3, <1>8, AskedIs DEF GameInv, Games!Asked
  <2>2. p \notin gone
    BY <1>3, <2>1 DEF Leaving
  <2>3. p = Games!Asked /\ inbox[p] = <<>>
    <3>1. IF p = Games!Asked THEN Answering(p) \/ Answered(p) ELSE Watching(p)
      BY <2>1, <2>2 DEF Doing
    <3> QED
      BY <1>3, <3>1 DEF Answering, Answered, Watching, Idle
  <2>4. outbox = <<>>
    <3>1. SUFFICES ASSUME NEW b \in Games!Answer, AnswerSent(b) PROVE FALSE
      BY <2>1 DEF Answers
    <3> QED
      BY <1>3, <2>3, <3>1 DEF AnswerSent
  <2>5. outbox' = <<a>> /\ outbox' # <<>>
    BY <1>2, <2>4
  <2>6. Answers'
    <3>1. outbox' = <<a>> /\ a.from = Games!Asked' /\ inbox'[a.from] = <<>>
          /\ client'[a.from] \in {"reading", "ended"}
      BY <1>3, <1>4, <1>5, <2>1, <2>3, <2>5
    <3> QED
      BY <1>4, <3>1 DEF Answers, AnswerSent
  <2>7. Leaving'
    BY <1>3, <1>5, <2>1, <2>2 DEF Leaving
  <2>8. Doing'
    <3>1. Answered(p)'
      BY <1>3, <1>5, <2>3, <2>5 DEF Answered, Idle
    <3>2. ASSUME NEW q \in Games!Player, q \notin gone', q # p PROVE Watching(q)'
      <4>1. Watching(q)
        BY <1>3, <2>1, <2>3, <3>2 DEF Doing
      <4>2. client'[q] = client[q]
        BY <1>5, <3>2
      <4> QED
        BY <1>3, <1>7, <4>1, <4>2 DEF Watching, Idle
    <3> QED
      BY <2>1, <2>3, <3>1, <3>2 DEF Doing
  <2> QED
    BY <2>6, <2>7, <2>8
<1> QED
  BY <1>1, <1>3, <1>6, <1>7, <1>8 DEF GameInv, Underway

LEMMA GameLoses == ASSUME Games!GameAssumption, GameInv, Games!LoseDatagram PROVE GameInv'
<1>1. /\ Games!TypeOK /\ addr = [q \in Games!Player |-> q] /\ \A q \in gone : inbox[q] = <<>>
      /\ udp => gone = {}
  BY DEF GameInv
<1>2. /\ udp /\ losses < MaxLosses /\ losses' = losses + 1
      /\ UNCHANGED <<udp, board, currentPlayer, asked, replay1, addr, client, gone>>
  BY DEF Games!LoseDatagram
<1>3. losses \in Nat /\ losses' > 0 /\ losses' \in 0..MaxLosses
  BY <1>1, <1>2 DEF Games!TypeOK, Games!GameAssumption
<1>4. BoardLegal' /\ Announcement' = Announcement
  BY <1>2, BoardKept DEF GameInv
<1>5. ASSUME outbox # <<>>, outbox' = Tail(outbox), inbox' = inbox PROVE GameInv'
  <2>1. Games!TypeOK'
    <3>1. outbox' \in Seq(Games!Answer)
      BY <1>1, <1>5, HeadTailProperties DEF Games!TypeOK
    <3> QED
      BY <1>1, <1>2, <1>3, <1>5, <3>1 DEF Games!TypeOK
  <2>2. ASSUME Underway PROVE Leaving' /\ Doing' /\ Answers'
    <3>1. Leaving /\ Doing /\ Answers /\ Games!Asked' = Games!Asked
      BY <1>2, <2>2 DEF GameInv, Games!Asked
    <3>2. PICK b \in Games!Answer : AnswerSent(b)
      BY <1>5, <3>1 DEF Answers
    <3>3. outbox' = <<>>
      BY <1>5, <3>2, OneMessage DEF AnswerSent
    <3>4. Leaving'
      BY <1>2, <3>1 DEF Leaving
    <3>5. ASSUME NEW q \in Games!Player, q \notin gone'
          PROVE  IF q = Games!Asked' THEN Answering(q)' \/ Answered(q)' ELSE Watching(q)'
      <4>1. IF q = Games!Asked THEN Answering(q) \/ Answered(q) ELSE Watching(q)
        BY <1>2, <3>1, <3>5 DEF Doing
      <4>2. /\ Answering(q) => Answering(q)'
            /\ Answered(q) => Answered(q)'
            /\ Watching(q) => Watching(q)'
        BY <1>2, <1>3, <1>4, <1>5 DEF Answering, Answered, Watching, Idle
      <4> QED
        BY <3>1, <4>1, <4>2
    <3> QED
      BY <3>3, <3>4, <3>5 DEF Doing, Answers
  <2> QED
    BY <1>1, <1>2, <1>4, <1>5, <2>1, <2>2 DEF GameInv, Underway
<1>6. ASSUME NEW p \in Games!Player, inbox[p] # <<>>, inbox' = [inbox EXCEPT ![p] = Tail(@)], outbox' = outbox
      PROVE  GameInv'
  <2>1. /\ inbox[p] \in Seq(Games!Message) /\ Tail(inbox[p]) \in Seq(Games!Message)
        /\ inbox'[p] = Tail(inbox[p]) /\ \A q \in Games!Player : q # p => inbox'[q] = inbox[q]
    BY <1>1, <1>6, HeadTailProperties DEF Games!TypeOK
  <2>2. Games!TypeOK'
    <3>1. inbox' \in [Games!Player -> Seq(Games!Message)]
      BY <1>1, <1>6, <2>1 DEF Games!TypeOK
    <3> QED
      BY <1>1, <1>2, <1>3, <1>6, <3>1 DEF Games!TypeOK
  <2>3. ASSUME Underway PROVE Leaving' /\ Doing' /\ Answers'
    <3>1. p \notin gone /\ IF p = Games!Asked THEN Expecting(p) ELSE Looking(p)
      BY <1>6, <2>3, HasMessages
    <3>2. client'[p] = client[p] /\ client[p] \in {"reading", "result"}
      BY <1>2, <3>1 DEF Expecting, Looking
    <3>3. \A x : inbox[p] = <<x>> => inbox'[p] = <<>>
      BY <2>1, OneMessage
    <3>4. inbox[p] = <<Announcement, "again">> => inbox'[p] = <<"again">>
      <4>1. Announcement \in Games!Message /\ "again" \in Games!Message
        BY <1>1, MessageLists
      <4> QED
        BY <2>1, <4>1, TwoMessages
    <3>5. CASE p = Games!Asked
      <4>1. Expecting(p)
        BY <3>1, <3>5
      <4>2. Answering(p)' \/ Answered(p)'
        BY <1>2, <1>3, <3>2, <3>3, <3>4, <4>1 DEF Expecting, Answering, Answered, Idle
      <4> QED
        BY <1>2, <1>3, <1>6, <2>1, <2>3, <3>1, <3>2, <3>5, <4>2, OthersWait
    <3>6. CASE p # Games!Asked
      <4>1. Looking(p)
        BY <3>1, <3>6
      <4>2. Watching(p)'
        BY <1>2, <1>3, <3>2, <3>3, <4>1 DEF Looking, Watching, Idle
      <4> QED
        BY <1>2, <1>3, <1>6, <2>1, <2>3, <3>1, <3>2, <3>6, <4>2, OthersWait
    <3> QED
      BY <3>5, <3>6
  <2>4. \A q \in gone' : inbox'[q] = <<>>
    BY <1>1, <1>2
  <2> QED
    BY <1>1, <1>2, <1>4, <2>2, <2>3, <2>4 DEF GameInv, Underway
<1> QED
  BY <1>5, <1>6 DEF Games!LoseDatagram

LEMMA GameStarts == ASSUME Games!GameAssumption, Games!Init PROVE GameInv
<1>1. /\ udp \in BOOLEAN /\ board = Games!InitializeBoard /\ currentPlayer = 1 /\ asked = "move"
      /\ replay1 = FALSE /\ addr = [q \in Games!Player |-> q] /\ outbox = <<>> /\ gone = {} /\ losses = 0
      /\ inbox = [q \in Games!Player |-> IF q = 1 THEN <<"turn">> ELSE <<>>]
      /\ client = [q \in Games!Player |-> "reading"]
  BY DEF Games!Init
<1>2. Games!Player = {1, 2} /\ Games!Asked = 1
  BY <1>1, GameConstants DEF Games!Asked
<1>3. inbox[1] = <<"turn">> /\ inbox[2] = <<>> /\ client[1] = "reading" /\ client[2] = "reading"
  BY <1>1, <1>2
<1>4. Games!TypeOK
  <2>1. "turn" \in Games!Message /\ <<>> \in Seq(Games!Message) /\ <<>> \in Seq(Games!Answer)
    BY DEF Games!Message
  <2>2. <<"turn">> \in Seq(Games!Message)
    BY <2>1
  <2>3. inbox \in [Games!Player -> Seq(Games!Message)]
    BY <1>1, <2>1, <2>2
  <2>4. MaxLosses \in Nat
    BY DEF Games!GameAssumption
  <2>5. board \in [Games!Cell -> Games!Player \cup {Games!Empty}]
    BY <1>1 DEF Games!InitializeBoard
  <2>6. losses \in 0..MaxLosses /\ currentPlayer \in Games!Player /\ gone \subseteq Games!Player
    BY <1>1, <1>2, <2>4
  <2>7. addr \in [Games!Player -> Games!Player] /\ client \in [Games!Player -> Games!ClientPlaces]
    BY <1>1 DEF Games!ClientPlaces
  <2> QED
    BY <1>1, <2>1, <2>3, <2>5, <2>6, <2>7 DEF Games!TypeOK, Games!Question
<1>5. Leaving /\ Answers
  BY <1>1, <1>2, <1>3 DEF Leaving, Answers
<1>6. Doing
  BY <1>1, <1>2, <1>3 DEF Doing, Answering, Watching, Idle
<1>7. BoardLegal
  <2>1. Games!Marks(1) = 0 /\ Games!Marks(2) = 0 /\ ~Games!CheckWin(board) /\ ~Games!CheckDraw(board)
    BY <1>1, FreshBoard
  <2> QED
    BY <1>1, <2>1 DEF BoardLegal
<1> QED
  BY <1>1, <1>4, <1>5, <1>6, <1>7 DEF GameInv

LEMMA GameStep == ASSUME Games!GameAssumption, GameInv, Games!Next PROVE GameInv'
BY GameMove, GamePrompt1, GamePrompt2, GameBreaks, GameLoses, GameReads, GameReadsOne, GameTypes, GameLeaves
   DEF Games!Next

LEMMA GameStutter == GameInv /\ UNCHANGED Games!vars => GameInv'
<1> SUFFICES ASSUME GameInv, UNCHANGED Games!vars PROVE GameInv'
  OBVIOUS
<1>1. UNCHANGED <<udp, board, currentPlayer, asked, replay1, addr, inbox, outbox, client, gone, losses>>
  BY DEF Games!vars
<1>2. BoardLegal' /\ Announcement' = Announcement /\ Games!Asked' = Games!Asked /\ Underway' = Underway
  BY <1>1, BoardKept DEF GameInv, Games!Asked, Underway
<1>3. Games!TypeOK'
  BY <1>1 DEF GameInv, Games!TypeOK
<1>4. Underway => Leaving' /\ Doing' /\ Answers'
  BY <1>1, <1>2 DEF GameInv, Leaving, Doing, Answers, AnswerSent, Answering, Answered, Watching, Idle
<1> QED
  BY <1>1, <1>2, <1>3, <1>4 DEF GameInv

(* What the invariant says of the server that waits, and of the board.     *)
LEMMA GameHeard == GameInv => Games!ServerHeard
<1> SUFFICES ASSUME GameInv, Underway PROVE Games!ServerHeard
  BY DEF Games!ServerHeard, Underway
<1>1. Games!TypeOK /\ Leaving /\ Doing /\ Answers /\ addr = [q \in Games!Player |-> q]
  BY DEF GameInv
<1>2. PICK p \in Games!Player : p = Games!Asked
  BY <1>1, AskedIs
<1>3. outbox = <<>> \/ \E a \in Games!Answer : outbox = <<a>> /\ a.from = p
  BY <1>1, <1>2 DEF Answers, AnswerSent
<1>4. /\ \A k \in 1..Len(outbox) : outbox[k].from = p
      /\ outbox # <<>> => \E k \in 1..Len(outbox) : outbox[k].from = p
  <2>1. CASE outbox = <<>>
    BY <2>1
  <2>2. ASSUME NEW a \in Games!Answer, outbox = <<a>>, a.from = p
        PROVE  /\ \A k \in 1..Len(outbox) : outbox[k].from = p
               /\ \E k \in 1..Len(outbox) : outbox[k].from = p
    <3>1. 1..Len(outbox) = {1} /\ outbox[1] = a
      BY <2>2, OneMessage
    <3> QED
      BY <2>2, <3>1
  <2> QED
    BY <1>3, <2>1, <2>2
<1>5. ASSUME inbox[p] # <<>>, p \notin gone
      PROVE  \E k \in 1..Len(inbox[p]) : inbox[p][k] \in {"turn", "again"}
  <2>1. Expecting(p)
    BY <1>2, <1>5, HasMessages
  <2>2. \A m : inbox[p] = <<m>> => 1 \in 1..Len(inbox[p]) /\ inbox[p][1] = m
    BY OneMessage
  <2>3. inbox[p] = <<Announcement, "again">> => 2 \in 1..Len(inbox[p]) /\ inbox[p][2] = "again"
    OBVIOUS
  <2> QED
    BY <2>1, <2>2, <2>3 DEF Expecting
<1>6. \/ outbox # <<>> \/ client[p] \in {"moving", "choosing"} \/ inbox[p] # <<>> \/ losses > 0
      \/ p \in gone \/ (~udp /\ asked # "move")
  <2>1. p \notin gone => Answering(p) \/ Answered(p)
    BY <1>1, <1>2 DEF Doing
  <2> QED
    BY <2>1 DEF Answering, Answered, Idle
<1>7. addr[p] = p
  BY <1>1
<1>8. asked # "move" => asked \in {"again1", "again2"}
  BY <1>1 DEF Games!TypeOK, Games!Question, Underway
<1>9. \/ \E k \in 1..Len(outbox) : outbox[k].from = p
      \/ client[p] \in {"moving", "choosing"}
      \/ \E k \in 1..Len(inbox[p]) : inbox[p][k] \in {"turn", "again"}
      \/ losses > 0
      \/ p \in gone
      \/ ~udp /\ asked \in {"again1", "again2"}
  BY <1>4, <1>5, <1>6, <1>8
<1> QED
  BY <1>2, <1>4, <1>7, <1>9 DEF Games!ServerHeard

LEMMA GameIsLegal == GameInv => Games!GameLegal
<1> SUFFICES ASSUME GameInv PROVE Games!GameLegal
  OBVIOUS
<1>1. Games!TypeOK /\ BoardLegal
  BY DEF GameInv
<1>2. ASSUME asked \in {"again1", "again2"}, NEW m \in Games!Announced PROVE m = Announcement
  <2>1. PICK p \in Games!Player : m \in Games!Range(inbox[p])
    BY DEF Games!Announced
  <2>2. PICK k \in DOMAIN inbox[p] : m = inbox[p][k]
    BY <2>1 DEF Games!Range
  <2>3. m \in Games!Result /\ "turn" \notin Games!Result /\ "again" \notin Games!Result
    BY DEF Games!Announced, Games!Result
  <2>4. k \in 1..Len(inbox[p]) /\ inbox[p] # <<>>
    BY <1>1, <2>2, LenProperties DEF Games!TypeOK
  <2>5. Underway
    BY <1>2 DEF Underway
  <2>6. Expecting(p) \/ Looking(p)
    BY <2>4, <2>5, HasMessages
  <2>7. \A x : inbox[p] = <<x>> => m = x
    BY <2>2, <2>4, OneMessage
  <2>8. inbox[p] = <<Announcement, "again">> => m = Announcement
    BY <2>2, <2>3, <2>4
  <2> QED
    BY <2>3, <2>6, <2>7, <2>8 DEF Expecting, Looking
<1> QED
  BY <1>1, <1>2 DEF BoardLegal, Games!GameLegal, Announcement

(* The inductive invariant of the game holds in every state.               *)
THEOREM GameSafety == ASSUME Games!GameAssumption PROVE Games!Spec => []GameInv
<1>1. GameInv /\ [Games!Next]_(Games!vars) => GameInv'
  BY GameStep, GameStutter
<1> QED
  BY GameStarts, <1>1, PTL DEF Games!Spec

(* On a board of any size, whatever the players type and whoever leaves,   *)
(* marks alternate, play stops at the first complete line, and what is     *)
(* announced is true (server.c:185, server_udp.c:168).                     *)
THEOREM GamesAreLegal == ASSUME Games!GameAssumption PROVE Games!Spec => []Games!GameLegal
BY GameSafety, GameIsLegal, PTL

(* The server does not wait for a player who was not asked, but for those  *)
(* whose datagram was lost, who left, or whose TCP client read the         *)
(* question together with the result; and over UDP, where it takes any     *)
(* datagram, it only ever gets one of the player it asked (client.c:53,    *)
(* server_udp.c:96, 123).                                                  *)
THEOREM PlayersAreHeard == ASSUME Games!GameAssumption PROVE Games!Spec => []Games!ServerHeard
BY GameSafety, GameHeard, PTL

-----------------------------------------------------------------------------
(* The sort of lazy_sort.c.  What is read are the keys of one column, each *)
(* with its place.                                                         *)

Read(m, k) == input = [j \in 1..m |-> [key |-> k[j], n |-> j]]
SortInput ==
  /\ column \in DOMAIN Sort!Keys
  /\ \E m \in 1..MaxFiles : \E k \in [1..m -> Sort!Keys[column]] : Read(m, k)

KeyOf(x) == Sort!CountKey(input[x].key)
Originals == {input[x] : x \in 1..Sort!N}

LEMMA Columns ==
  /\ DOMAIN Sort!Keys = {"ID", "Name", "Timestamp"}
  /\ Sort!Keys["ID"] = {[id |-> v] : v \in Id}
  /\ Sort!Keys["Name"] = [first : Chars, rest : Chars]
  /\ Sort!Keys["Timestamp"] = [time : Time, bad : {FALSE}] \cup {[time |-> 0, bad |-> TRUE]}
BY DEF Sort!Keys

LEMMA InputIs ==
  ASSUME Sort!SortAssumption, SortInput
  PROVE  /\ Sort!N \in 1..MaxFiles /\ Sort!N \in Nat \ {0}
         /\ input = [x \in 1..Sort!N |-> input[x]] /\ input \in [1..Sort!N -> Originals]
         /\ input \in Seq(Originals)
         /\ \A x \in 1..Sort!N : /\ input[x].n = x /\ input[x].key \in Sort!Keys[column]
                                 /\ input[x] = [key |-> input[x].key, n |-> x]
<1>a. PICK m \in 1..MaxFiles : \E k \in [1..m -> Sort!Keys[column]] : Read(m, k)
  BY DEF SortInput
<1>1. PICK k \in [1..m -> Sort!Keys[column]] : input = [j \in 1..m |-> [key |-> k[j], n |-> j]]
  BY <1>a DEF Read
<1>2. m \in Nat /\ m \in Nat \ {0}
  BY <1>1 DEF Sort!SortAssumption
<1>3. input \in Seq({input[x] : x \in 1..m}) /\ Len(input) = m
  <2> DEFINE e == [j \in 1..m |-> [key |-> k[j], n |-> j]]
  <2>1. e \in [1..m -> {e[x] : x \in 1..m}]
    OBVIOUS
  <2>2. input = e
    BY <1>1
  <2> HIDE DEF e
  <2>3. input \in [1..m -> {input[x] : x \in 1..m}]
    BY <2>1, <2>2
  <2> QED
    BY <1>2, <2>3, SMTT(30)
<1>4. Sort!N = m
  BY <1>3 DEF Sort!N
<1>5. \A x \in 1..m : input[x].n = x /\ input[x].key = k[x] /\ input[x] = [key |-> k[x], n |-> x]
  BY <1>1
<1>6. input = [x \in 1..m |-> input[x]] /\ input \in [1..m -> {input[x] : x \in 1..m}]
  <2>1. DOMAIN input = 1..m /\ input = [x \in DOMAIN input |-> input[x]]
    BY <1>1
  <2> QED
    BY <2>1
<1> QED
  BY <1>1, <1>2, <1>3, <1>4, <1>5, <1>6 DEF Originals

LEMMA KeysAreNumbers ==
  ASSUME Sort!SortAssumption, column \in DOMAIN Sort!Keys, NEW k \in Sort!Keys[column]
  PROVE  Sort!CountKey(k) \in Int
<1>1. CASE column = "ID"
  BY <1>1, Columns DEF Sort!CountKey, Sort!SortAssumption
<1>2. CASE column = "Name"
  BY <1>2, Columns DEF Sort!CountKey, Sort!SortAssumption
<1>3. CASE column = "Timestamp"
  <2>0. k \in [time : Time, bad : {FALSE}] \/ k \in {[time |-> 0, bad |-> TRUE]}
    BY <1>3, Columns
  <2>1. k.bad \in BOOLEAN /\ k.time \in Int
    <3>1. CASE k \in [time : Time, bad : {FALSE}]
      BY <3>1 DEF Sort!SortAssumption
    <3>2. CASE k \in {[time |-> 0, bad |-> TRUE]}
      <4>1. k = [time |-> 0, bad |-> TRUE]
        BY <3>2
      <4> QED
        BY <4>1
    <3> QED
      BY <2>0, <3>1, <3>2
  <2>2. Overflow \in Nat \ {0} /\ 2 * Overflow \in Nat \ {0}
    BY DEF Sort!SortAssumption
  <2>3. (k.time + Overflow) % (2 * Overflow) \in Int
    BY <2>1, <2>2
  <2>4. Sort!Bucket(k) \in Int
    BY <2>1, <2>2, <2>3 DEF Sort!Bucket
  <2> QED
    BY <1>3, <2>4 DEF Sort!CountKey
<1> QED
  BY <1>1, <1>2, <1>3, Columns

(* Which entries a thread counts: theirs is all, and nobody else's.        *)
LEMMA SortThreads ==
  ASSUME Sort!SortAssumption, SortInput
  PROVE  /\ Sort!num_threads \in 1..NUM_THREADS /\ Sort!num_threads \in Nat \ {0}
         /\ Sort!N \div Sort!num_threads \in Nat
         /\ Sort!N % Sort!num_threads \in 0..(Sort!num_threads - 1)
         /\ Sort!N = Sort!num_threads * (Sort!N \div Sort!num_threads) + (Sort!N % Sort!num_threads)
<1>1. Sort!N \in Nat \ {0} /\ PerThread \in Nat \ {0} /\ NUM_THREADS \in Nat \ {0}
  BY InputIs DEF Sort!SortAssumption
<1>2. Sort!N \div PerThread \in Nat
  BY <1>1
<1>3. Sort!num_threads \in 1..NUM_THREADS /\ Sort!num_threads \in Nat \ {0}
  BY <1>1, <1>2 DEF Sort!num_threads
<1>4. PICK m \in Nat \ {0}, w \in Nat \ {0} : m = Sort!num_threads /\ w = Sort!N
  BY <1>1, <1>3
<1>5. w \div m \in Nat /\ w % m \in 0..(m - 1) /\ w = m * (w \div m) + (w % m)
  BY <1>4
<1> QED
  BY <1>3, <1>4, <1>5

LEMMA StartsInOrder ==
  ASSUME NEW w \in Nat, NEW m \in Nat \ {0}, NEW d \in Nat, NEW e \in 0..(m - 1), w = m * d + e,
         NEW S, \A t \in 1..(m + 1) : S[t] = 1 + ((t - 1) * d) + (IF t - 1 < e THEN t - 1 ELSE e)
  PROVE  /\ S[1] = 1 /\ S[m + 1] = w + 1
         /\ \A t \in 1..(m + 1) : S[t] \in Int
         /\ \A t \in 1..(m + 1), u \in 1..(m + 1) : t <= u => S[t] <= S[u]
         /\ \A t \in 1..(m + 1) : S[t] \in 1..(w + 1)
<1>1. \A t \in 1..(m + 1) : (t - 1) * d \in Nat
  OBVIOUS
<1>2. \A t \in 1..(m + 1) : S[t] \in Int
  BY <1>1
<1>3. S[1] = 1
  <2>1. 1 \in 1..(m + 1) /\ (1 - 1) * d = 0
    OBVIOUS
  <2> QED
    BY <2>1
<1>4. S[m + 1] = w + 1
  <2>1. m + 1 \in 1..(m + 1) /\ (m + 1) - 1 = m /\ ~(m < e)
    OBVIOUS
  <2>2. S[m + 1] = 1 + (m * d) + e
    BY <2>1
  <2>3. m * d \in Nat
    OBVIOUS
  <2> QED
    BY <2>2, <2>3
<1>5. ASSUME NEW t \in 1..(m + 1), NEW u \in 1..(m + 1), t <= u PROVE S[t] <= S[u]
  <2>1. PICK a \in Nat, b \in Nat, c \in Nat : a = t - 1 /\ b = u - 1 /\ c = u - t
    BY <1>5
  <2>2. b = a + c /\ b * d = a * d + c * d
    BY <1>5, <2>1
  <2>3. PICK x \in Nat, y \in Nat, z \in Nat : x = a * d /\ y = b * d /\ z = c * d
    OBVIOUS
  <2>4. S[t] = 1 + x + (IF a < e THEN a ELSE e) /\ S[u] = 1 + y + (IF b < e THEN b ELSE e)
    BY <2>1, <2>3
  <2>5. y = x + z
    BY <2>2, <2>3
  <2>6. (IF a < e THEN a ELSE e) <= (IF b < e THEN b ELSE e)
    BY <2>2
  <2> QED
    BY <2>4, <2>5, <2>6
<1>6. ASSUME NEW t \in 1..(m + 1) PROVE S[t] \in 1..(w + 1)
  <2>1. S[1] <= S[t] /\ S[t] <= S[m + 1]
    BY <1>5, <1>6
  <2> QED
    BY <1>2, <1>3, <1>4, <2>1
<1> QED
  BY <1>2, <1>3, <1>4, <1>5, <1>6

LEMMA StartsAre ==
  ASSUME Sort!SortAssumption, SortInput
  PROVE  /\ Sort!Start(1) = 1 /\ Sort!Start(Sort!num_threads + 1) = Sort!N + 1
         /\ \A t \in 1..(Sort!num_threads + 1) : Sort!Start(t) \in 1..(Sort!N + 1)
         /\ \A t \in 1..(Sort!num_threads + 1), u \in 1..(Sort!num_threads + 1) :
              t <= u => Sort!Start(t) <= Sort!Start(u)
<1>1. PICK w, m, d, e : /\ w = Sort!N /\ m = Sort!num_threads /\ d = Sort!N \div Sort!num_threads
                        /\ e = Sort!N % Sort!num_threads
  OBVIOUS
<1>2. w \in Nat /\ m \in Nat \ {0} /\ d \in Nat /\ e \in 0..(m - 1) /\ w = m * d + e
  BY <1>1, SortThreads, InputIs
<1> DEFINE S == [t \in 1..(m + 1) |-> 1 + ((t - 1) * d) + (IF t - 1 < e THEN t - 1 ELSE e)]
<1>3. \A t \in 1..(m + 1) : S[t] = 1 + ((t - 1) * d) + (IF t - 1 < e THEN t - 1 ELSE e)
  OBVIOUS
<1>4. \A t \in 1..(m + 1) : Sort!Start(t) = S[t]
  BY <1>1 DEF Sort!Start
<1> HIDE DEF S
<1>5. /\ S[1] = 1 /\ S[m + 1] = w + 1
      /\ \A t \in 1..(m + 1), u \in 1..(m + 1) : t <= u => S[t] <= S[u]
      /\ \A t \in 1..(m + 1) : S[t] \in 1..(w + 1)
  BY <1>2, <1>3, StartsInOrder
<1>6. 1 \in 1..(m + 1) /\ m + 1 \in 1..(m + 1)
  BY <1>2
<1> QED
  BY <1>1, <1>4, <1>5, <1>6


(* The threads of the count sort: n entries with the keys K, of which the  *)
(* thread t of m counts those from S[t] to S[t + 1], in the slots D.       *)
Shares(n, m, S, K) ==
  /\ n \in Nat \ {0} /\ NUM_THREADS \in Nat /\ m \in 1..NUM_THREADS
  /\ \A t \in 1..(m + 1) : S[t] \in 1..(n + 1)
  /\ \A t \in 1..(m + 1), u \in 1..(m + 1) : t <= u => S[t] <= S[u]
  /\ S[1] = 1 /\ S[m + 1] = n + 1
  /\ \A x \in 1..n : K[x] \in Int

SoFar(n, S, K, mk, nx, k) == {x \in 1..n : K[x] = k /\ \E t \in 1..mk : S[t] <= x /\ x < nx[t]}

ThreadTypes(n, m, D, mk, st, nx, rd, cs) ==
  /\ mk \in 0..m
  /\ st \in [1..NUM_THREADS -> {"start", "locked", "done"}]
  /\ nx \in [1..NUM_THREADS -> 1..(n + 1)] /\ rd \in [1..NUM_THREADS -> 0..n] /\ cs \in [D -> 0..n]

CountGood(n, m, S, K, D, mk, st, nx, rd, cs) ==
  /\ ThreadTypes(n, m, D, mk, st, nx, rd, cs)
  /\ \A t \in 1..NUM_THREADS : t > mk => st[t] = "start" /\ nx[t] = 1
  /\ \A t \in 1..mk : /\ S[t] <= nx[t] /\ nx[t] <= S[t + 1]
                      /\ st[t] = "done" => nx[t] = S[t + 1]
                      /\ st[t] = "locked" => /\ nx[t] < S[t + 1] /\ K[nx[t]] \in D
                                             /\ rd[t] = cs[K[nx[t]]]
  /\ \A t \in 1..mk, u \in 1..mk : st[t] = "locked" /\ st[u] = "locked" => t = u
  /\ \A k \in D : cs[k] = Cardinality(SoFar(n, S, K, mk, nx, k))

LEMMA CountStarts ==
  ASSUME NEW n, NEW m, NEW S, NEW K, NEW D, Shares(n, m, S, K),
         NEW st, st = [t \in 1..NUM_THREADS |-> "start"], NEW nx, nx = [t \in 1..NUM_THREADS |-> 1],
         NEW rd, rd = [t \in 1..NUM_THREADS |-> 0], NEW cs, cs = [k \in D |-> 0]
  PROVE  CountGood(n, m, S, K, D, 0, st, nx, rd, cs)
<1>1. ThreadTypes(n, m, D, 0, st, nx, rd, cs)
  <2>1. 1 \in 1..(n + 1) /\ 0 \in 0..n /\ 0 \in 0..m
    BY DEF Shares
  <2> QED
    BY <2>1 DEF ThreadTypes
<1>2. 1..0 = {}
  OBVIOUS
<1>3. \A k \in D : cs[k] = Cardinality(SoFar(n, S, K, 0, nx, k))
  <2>1. \A k \in D : SoFar(n, S, K, 0, nx, k) = {}
    BY <1>2 DEF SoFar
  <2> QED
    BY <2>1, FS_EmptySet
<1> QED
  BY <1>1, <1>2, <1>3 DEF CountGood

LEMMA ThreadMade ==
  ASSUME NEW n, NEW m, NEW S, NEW K, NEW D, Shares(n, m, S, K), NEW mk, NEW st, NEW nx, NEW rd, NEW cs,
         CountGood(n, m, S, K, D, mk, st, nx, rd, cs), mk < m
  PROVE  CountGood(n, m, S, K, D, mk + 1, st, [nx EXCEPT ![mk + 1] = S[mk + 1]], rd, cs)
<1> DEFINE u == mk + 1
           ny == [nx EXCEPT ![u] = S[u]]
<1>1. n \in Nat /\ m \in Nat /\ mk \in Nat /\ u \in 1..m /\ u \in 1..NUM_THREADS /\ u > mk /\ NUM_THREADS \in Nat
  BY DEF CountGood, ThreadTypes, Shares
<1>2. S[u] \in 1..(n + 1) /\ S[u] <= S[u + 1] /\ S[u + 1] \in 1..(n + 1)
  BY <1>1 DEF Shares
<1>3. ny \in [1..NUM_THREADS -> 1..(n + 1)] /\ ny[u] = S[u] /\ \A t \in 1..NUM_THREADS : t # u => ny[t] = nx[t]
  BY <1>1, <1>2 DEF CountGood, ThreadTypes
<1>4. ThreadTypes(n, m, D, u, st, ny, rd, cs)
  BY <1>1, <1>3, SMTT(30) DEF CountGood, ThreadTypes
<1>5. \A t \in 1..u : t # u => t \in 1..mk /\ t \in 1..NUM_THREADS
  BY <1>1
<1>6. st[u] = "start"
  BY <1>1 DEF CountGood
<1>7. ASSUME NEW k \in D PROVE SoFar(n, S, K, u, ny, k) = SoFar(n, S, K, mk, nx, k)
  <2>1. ASSUME NEW x \in 1..n PROVE (\E t \in 1..u : S[t] <= x /\ x < ny[t]) <=> (\E t \in 1..mk : S[t] <= x /\ x < nx[t])
    <3>1. ~(S[u] <= x /\ x < ny[u])
      BY <1>2, <1>3
    <3>2. \A t \in 1..mk : t \in 1..u /\ t # u /\ t \in 1..NUM_THREADS
      BY <1>1
    <3> QED
      BY <3>1, <3>2, <1>3, <1>5
  <2> QED
    BY <2>1 DEF SoFar
<1> HIDE DEF u, ny
<1>8. \A t \in 1..NUM_THREADS : t > u => st[t] = "start" /\ ny[t] = 1
  <2>1. \A t \in 1..NUM_THREADS : t > u => t > mk /\ t # u
    BY <1>1 DEF u
  <2> QED
    BY <2>1, <1>3 DEF CountGood
<1>9. ASSUME NEW t \in 1..u
      PROVE  /\ S[t] <= ny[t] /\ ny[t] <= S[t + 1]
             /\ st[t] = "done" => ny[t] = S[t + 1]
             /\ st[t] = "locked" => ny[t] < S[t + 1] /\ K[ny[t]] \in D /\ rd[t] = cs[K[ny[t]]]
  <2>1. CASE t = u
    BY <2>1, <1>2, <1>3, <1>6
  <2>2. CASE t # u
    BY <2>2, <1>3, <1>5 DEF CountGood
  <2> QED
    BY <2>1, <2>2
<1>10. \A t \in 1..u, v \in 1..u : st[t] = "locked" /\ st[v] = "locked" => t = v
  BY <1>5, <1>6 DEF CountGood
<1>11. \A k \in D : cs[k] = Cardinality(SoFar(n, S, K, u, ny, k))
  BY <1>7 DEF CountGood
<1>12. CountGood(n, m, S, K, D, u, st, ny, rd, cs)
  BY <1>4, <1>8, <1>9, <1>10, <1>11 DEF CountGood
<1> QED
  BY <1>12 DEF u, ny

LEMMA ThreadLocks ==
  ASSUME NEW n, NEW m, NEW S, NEW K, NEW D, Shares(n, m, S, K), NEW mk, NEW st, NEW nx, NEW rd, NEW cs,
         CountGood(n, m, S, K, D, mk, st, nx, rd, cs), NEW t \in 1..NUM_THREADS, t <= mk,
         nx[t] < S[t + 1], K[nx[t]] \in D, \A u \in 1..NUM_THREADS : st[u] # "locked"
  PROVE  CountGood(n, m, S, K, D, mk, [st EXCEPT ![t] = "locked"], nx, [rd EXCEPT ![t] = cs[K[nx[t]]]], cs)
<1> DEFINE sv == [st EXCEPT ![t] = "locked"]
           re == [rd EXCEPT ![t] = cs[K[nx[t]]]]
<1>1. mk \in Nat /\ mk <= NUM_THREADS /\ t \in 1..mk /\ NUM_THREADS \in Nat
  BY DEF CountGood, ThreadTypes, Shares
<1>2. cs[K[nx[t]]] \in 0..n
  BY DEF CountGood, ThreadTypes
<1>3. /\ sv \in [1..NUM_THREADS -> {"start", "locked", "done"}] /\ sv[t] = "locked"
      /\ re \in [1..NUM_THREADS -> 0..n] /\ re[t] = cs[K[nx[t]]]
      /\ \A u \in 1..NUM_THREADS : u # t => sv[u] = st[u] /\ re[u] = rd[u]
  BY <1>2 DEF CountGood, ThreadTypes
<1> HIDE DEF sv, re
<1>4. ThreadTypes(n, m, D, mk, sv, nx, re, cs)
  BY <1>3 DEF CountGood, ThreadTypes
<1>5. \A u \in 1..NUM_THREADS : u > mk => sv[u] = "start" /\ nx[u] = 1
  BY <1>1, <1>3 DEF CountGood
<1>6. ASSUME NEW u \in 1..mk
      PROVE  /\ S[u] <= nx[u] /\ nx[u] <= S[u + 1]
             /\ sv[u] = "done" => nx[u] = S[u + 1]
             /\ sv[u] = "locked" => nx[u] < S[u + 1] /\ K[nx[u]] \in D /\ re[u] = cs[K[nx[u]]]
  <2>1. u \in 1..NUM_THREADS
    BY <1>1
  <2>2. S[u] <= nx[u] /\ nx[u] <= S[u + 1]
    BY DEF CountGood
  <2>3. CASE u = t
    BY <2>2, <2>3, <1>3
  <2>4. CASE u # t
    BY <2>1, <2>2, <2>4, <1>3 DEF CountGood
  <2> QED
    BY <2>3, <2>4
<1>7. \A u \in 1..mk, v \in 1..mk : sv[u] = "locked" /\ sv[v] = "locked" => u = v
  <2>1. \A u \in 1..mk : u \in 1..NUM_THREADS
    BY <1>1
  <2> QED
    BY <2>1, <1>3
<1>8. CountGood(n, m, S, K, D, mk, sv, nx, re, cs)
  BY <1>4, <1>5, <1>6, <1>7 DEF CountGood
<1> QED
  BY <1>8 DEF sv, re


\* What a thread counts nobody else counts, and it counts it once.
LEMMA SharesAreDisjoint ==
  ASSUME NEW n, NEW m, NEW S, NEW K, NEW D, Shares(n, m, S, K), NEW mk, NEW st, NEW nx, NEW rd, NEW cs,
         CountGood(n, m, S, K, D, mk, st, nx, rd, cs), NEW t \in 1..mk, nx[t] < S[t + 1],
         NEW u \in 1..mk
  PROVE  nx[t] \in 1..n /\ ~(S[u] <= nx[t] /\ nx[t] < nx[u])
<1>1. /\ n \in Nat /\ mk \in Nat /\ m \in Nat /\ mk <= m /\ mk <= NUM_THREADS /\ NUM_THREADS \in Nat
      /\ t \in 1..NUM_THREADS /\ u \in 1..NUM_THREADS
  BY SMTT(30) DEF CountGood, ThreadTypes, Shares
<1>2. /\ t \in 1..(m + 1) /\ u \in 1..(m + 1) /\ t + 1 \in 1..(m + 1) /\ u + 1 \in 1..(m + 1)
  BY <1>1
<1>3. nx[t] \in 1..(n + 1) /\ nx[u] \in 1..(n + 1)
  BY <1>1 DEF CountGood, ThreadTypes
<1>4. S[t] \in 1..(n + 1) /\ S[u] \in 1..(n + 1) /\ S[t + 1] \in 1..(n + 1) /\ S[u + 1] \in 1..(n + 1)
  BY <1>2 DEF Shares
<1>5. S[t] <= nx[t] /\ S[u] <= nx[u] /\ nx[u] <= S[u + 1]
  BY DEF CountGood
<1>6. CASE u < t
  <2>1. S[u + 1] <= S[t]
    BY <1>1, <1>2, <1>6 DEF Shares
  <2> QED
    BY <2>1, <1>1, <1>3, <1>4, <1>5
<1>7. CASE t < u
  <2>1. S[t + 1] <= S[u]
    BY <1>1, <1>2, <1>7 DEF Shares
  <2> QED
    BY <2>1, <1>1, <1>3, <1>4, <1>5
<1>8. CASE t = u
  BY <1>8, <1>1, <1>3, <1>4
<1> QED
  BY <1>1, <1>6, <1>7, <1>8

\* The thread t goes on to its next entry.
CountsOn(nx, ny, t) == ny = [nx EXCEPT ![t] = @ + 1]

LEMMA SoFarGrows ==
  ASSUME NEW n, NEW m, NEW S, NEW K, NEW D, Shares(n, m, S, K), NEW mk, NEW st, NEW nx, NEW rd, NEW cs,
         CountGood(n, m, S, K, D, mk, st, nx, rd, cs), NEW t \in 1..mk, nx[t] < S[t + 1],
         NEW ny, CountsOn(nx, ny, t), NEW k
  PROVE  /\ nx[t] \notin SoFar(n, S, K, mk, nx, k)
         /\ SoFar(n, S, K, mk, ny, k) =
              IF K[nx[t]] = k THEN SoFar(n, S, K, mk, nx, k) \cup {nx[t]} ELSE SoFar(n, S, K, mk, nx, k)
<1>1. n \in Nat /\ mk \in Nat /\ mk <= NUM_THREADS /\ NUM_THREADS \in Nat /\ t \in 1..NUM_THREADS
  BY DEF CountGood, ThreadTypes, Shares
<1>2. \A u \in 1..mk : nx[t] \in 1..n /\ ~(S[u] <= nx[t] /\ nx[t] < nx[u])
  BY SharesAreDisjoint
<1>3. nx[t] \in 1..n
  BY <1>2
<1>4. nx \in [1..NUM_THREADS -> 1..(n + 1)]
  BY DEF CountGood, ThreadTypes
<1>5. ny[t] = nx[t] + 1 /\ \A u \in 1..mk : u # t => ny[u] = nx[u]
  BY <1>1, <1>4 DEF CountsOn
<1>6. S[t] <= nx[t]
  BY DEF CountGood
<1>7. nx[t] \notin SoFar(n, S, K, mk, nx, k)
  BY <1>2 DEF SoFar
<1>8. ASSUME NEW x \in 1..n, x # nx[t]
      PROVE (\E u \in 1..mk : S[u] <= x /\ x < ny[u]) <=> (\E u \in 1..mk : S[u] <= x /\ x < nx[u])
  <2>1. x < nx[t] + 1 <=> x < nx[t]
    BY <1>1, <1>3, <1>8
  <2> QED
    BY <2>1, <1>5
<1>9. \E u \in 1..mk : S[u] <= nx[t] /\ nx[t] < ny[u]
  <2>1. nx[t] < nx[t] + 1
    BY <1>1, <1>3
  <2> QED
    BY <2>1, <1>5, <1>6
<1>10. ASSUME NEW x PROVE x \in SoFar(n, S, K, mk, ny, k) <=> x \in SoFar(n, S, K, mk, nx, k) \/ (x = nx[t] /\ K[nx[t]] = k)
  <2>1. CASE x = nx[t]
    BY <2>1, <1>3, <1>7, <1>9 DEF SoFar
  <2>2. CASE x # nx[t]
    BY <2>2, <1>8 DEF SoFar
  <2> QED
    BY <2>1, <2>2
<1>11. CASE K[nx[t]] = k
  BY <1>7, <1>10, <1>11
<1>12. CASE K[nx[t]] # k
  BY <1>7, <1>10, <1>12
<1> QED
  BY <1>11, <1>12

LEMMA NextIsNext ==
  ASSUME NEW n, NEW m, NEW S, NEW K, NEW D, Shares(n, m, S, K), NEW mk, NEW st, NEW nx, NEW rd, NEW cs,
         CountGood(n, m, S, K, D, mk, st, nx, rd, cs), NEW t \in 1..mk, nx[t] < S[t + 1],
         NEW ny, CountsOn(nx, ny, t)
  PROVE  /\ ny \in [1..NUM_THREADS -> 1..(n + 1)] /\ ny[t] = nx[t] + 1
         /\ \A u \in 1..NUM_THREADS : u # t => ny[u] = nx[u]
         /\ S[t] <= ny[t] /\ ny[t] <= S[t + 1]
<1>1. /\ n \in Nat /\ mk \in Nat /\ mk <= NUM_THREADS /\ NUM_THREADS \in Nat /\ t \in 1..NUM_THREADS
      /\ mk <= m /\ m \in Nat
  BY DEF CountGood, ThreadTypes, Shares
<1>2. nx \in [1..NUM_THREADS -> 1..(n + 1)]
  BY DEF CountGood, ThreadTypes
<1>3. S[t] \in 1..(n + 1) /\ S[t + 1] \in 1..(n + 1) /\ S[t] <= nx[t]
  <2>1. t \in 1..(m + 1) /\ t + 1 \in 1..(m + 1)
    BY <1>1
  <2> QED
    BY <2>1 DEF Shares, CountGood
<1>4. nx[t] + 1 \in 1..(n + 1) /\ nx[t] + 1 <= S[t + 1] /\ S[t] <= nx[t] + 1
  BY <1>1, <1>2, <1>3, SMTT(30)
<1> QED
  BY <1>1, <1>2, <1>4 DEF CountsOn

LEMMA ThreadCounts ==
  ASSUME NEW n, NEW m, NEW S, NEW K, NEW D, Shares(n, m, S, K), NEW mk, NEW st, NEW nx, NEW rd, NEW cs,
         CountGood(n, m, S, K, D, mk, st, nx, rd, cs), NEW t \in 1..NUM_THREADS, st[t] = "locked"
  PROVE  CountGood(n, m, S, K, D, mk, [st EXCEPT ![t] = "start"], [nx EXCEPT ![t] = @ + 1],
                   [rd EXCEPT ![t] = 0], [cs EXCEPT ![K[nx[t]]] = rd[t] + 1])
<1>1. n \in Nat /\ mk \in Nat /\ mk <= NUM_THREADS /\ NUM_THREADS \in Nat
  BY DEF CountGood, ThreadTypes, Shares
<1>2. t \in 1..mk
  <2>1. ~(t > mk)
    BY DEF CountGood
  <2> QED
    BY <2>1, <1>1
<1>3. nx[t] < S[t + 1] /\ K[nx[t]] \in D /\ rd[t] = cs[K[nx[t]]]
  BY <1>2 DEF CountGood
<1>4. PICK key, ny : key = K[nx[t]] /\ CountsOn(nx, ny, t)
  BY DEF CountsOn
<1> DEFINE sv == [st EXCEPT ![t] = "start"]
           re == [rd EXCEPT ![t] = 0]
           ct == [cs EXCEPT ![key] = rd[t] + 1]
<1>5. /\ ny \in [1..NUM_THREADS -> 1..(n + 1)] /\ ny[t] = nx[t] + 1
      /\ \A u \in 1..NUM_THREADS : u # t => ny[u] = nx[u]
      /\ S[t] <= ny[t] /\ ny[t] <= S[t + 1]
  BY <1>2, <1>3, <1>4, NextIsNext
<1>6. /\ sv \in [1..NUM_THREADS -> {"start", "locked", "done"}] /\ sv[t] = "start"
      /\ re \in [1..NUM_THREADS -> 0..n] /\ re[t] = 0
      /\ \A u \in 1..NUM_THREADS : u # t => sv[u] = st[u] /\ re[u] = rd[u]
  <2>1. /\ st \in [1..NUM_THREADS -> {"start", "locked", "done"}]
        /\ rd \in [1..NUM_THREADS -> 0..n]
    BY DEF CountGood, ThreadTypes
  <2>2. 0 \in 0..n
    BY <1>1
  <2> QED
    BY <2>1, <2>2
<1>7. \A k : /\ nx[t] \notin SoFar(n, S, K, mk, nx, k)
             /\ SoFar(n, S, K, mk, ny, k) =
                  IF key = k THEN SoFar(n, S, K, mk, nx, k) \cup {nx[t]} ELSE SoFar(n, S, K, mk, nx, k)
  BY <1>2, <1>3, <1>4, SoFarGrows
<1>8. \A k : /\ IsFiniteSet(SoFar(n, S, K, mk, nx, k)) /\ IsFiniteSet(SoFar(n, S, K, mk, ny, k))
             /\ Cardinality(SoFar(n, S, K, mk, ny, k)) \in 0..n
  <2>1. IsFiniteSet(1..n) /\ Cardinality(1..n) = n
    BY <1>1, FS_Interval
  <2>2. \A k : SoFar(n, S, K, mk, nx, k) \subseteq 1..n /\ SoFar(n, S, K, mk, ny, k) \subseteq 1..n
    BY DEF SoFar
  <2>3. \A k : Cardinality(SoFar(n, S, K, mk, ny, k)) \in Nat /\ Cardinality(SoFar(n, S, K, mk, ny, k)) <= n
    BY <2>1, <2>2, FS_Subset, FS_CardinalityType
  <2> QED
    BY <1>1, <2>1, <2>2, <2>3, FS_Subset
<1>9. cs[key] = Cardinality(SoFar(n, S, K, mk, nx, key)) /\ key \in D
  BY <1>3, <1>4 DEF CountGood
<1>10. rd[t] + 1 = Cardinality(SoFar(n, S, K, mk, ny, key))
  <2>1. Cardinality(SoFar(n, S, K, mk, nx, key) \cup {nx[t]}) = Cardinality(SoFar(n, S, K, mk, nx, key)) + 1
    BY <1>7, <1>8, FS_AddElement
  <2> QED
    BY <2>1, <1>3, <1>4, <1>7, <1>9
<1>11. ct \in [D -> 0..n] /\ ct[key] = rd[t] + 1 /\ \A k \in D : k # key => ct[k] = cs[k]
  <2>1. rd[t] + 1 \in 0..n
    BY <1>8, <1>10
  <2> QED
    BY <2>1, <1>9 DEF CountGood, ThreadTypes
<1>12. \A k \in D : ct[k] = Cardinality(SoFar(n, S, K, mk, ny, k))
  <2> TAKE k \in D
  <2>1. CASE k = key
    BY <2>1, <1>10, <1>11
  <2>2. CASE k # key
    BY <2>2, <1>7, <1>11 DEF CountGood
  <2> QED
    BY <2>1, <2>2
<1> HIDE DEF sv, re, ct
<1>13. ThreadTypes(n, m, D, mk, sv, ny, re, ct)
  BY <1>5, <1>6, <1>11 DEF CountGood, ThreadTypes
<1>14. \A u \in 1..NUM_THREADS : u > mk => sv[u] = "start" /\ ny[u] = 1
  <2>1. ~(t > mk)
    BY <1>1, <1>2
  <2> QED
    BY <2>1, <1>5, <1>6 DEF CountGood
<1>15. \A u \in 1..mk : u \in 1..NUM_THREADS /\ (u # t => st[u] # "locked")
  <2>1. \A u \in 1..mk : u \in 1..NUM_THREADS
    BY <1>1
  <2> QED
    BY <2>1, <1>2 DEF CountGood
<1>16. ASSUME NEW u \in 1..mk
       PROVE  /\ S[u] <= ny[u] /\ ny[u] <= S[u + 1]
              /\ sv[u] = "done" => ny[u] = S[u + 1]
              /\ sv[u] # "locked"
  <2>1. CASE u = t
    BY <2>1, <1>5, <1>6
  <2>2. CASE u # t
    BY <2>2, <1>5, <1>6, <1>15 DEF CountGood
  <2> QED
    BY <2>1, <2>2
<1>17. CountGood(n, m, S, K, D, mk, sv, ny, re, ct)
  BY <1>12, <1>13, <1>14, <1>16 DEF CountGood
<1> QED
  BY <1>4, <1>17 DEF sv, re, ct, CountsOn

LEMMA ThreadSkips ==
  ASSUME NEW n, NEW m, NEW S, NEW K, NEW D, Shares(n, m, S, K), NEW mk, NEW st, NEW nx, NEW rd, NEW cs,
         CountGood(n, m, S, K, D, mk, st, nx, rd, cs), NEW t \in 1..NUM_THREADS, t <= mk, st[t] = "start",
         nx[t] < S[t + 1], K[nx[t]] \notin D
  PROVE  CountGood(n, m, S, K, D, mk, st, [nx EXCEPT ![t] = @ + 1], rd, cs)
<1>1. n \in Nat /\ mk \in Nat /\ mk <= NUM_THREADS /\ NUM_THREADS \in Nat /\ t \in 1..mk /\ ~(t > mk)
  BY DEF CountGood, ThreadTypes, Shares
<1>2. PICK ny : CountsOn(nx, ny, t)
  BY DEF CountsOn
<1>3. /\ ny \in [1..NUM_THREADS -> 1..(n + 1)] /\ ny[t] = nx[t] + 1
      /\ \A u \in 1..NUM_THREADS : u # t => ny[u] = nx[u]
      /\ S[t] <= ny[t] /\ ny[t] <= S[t + 1]
  BY <1>1, <1>2, NextIsNext
<1>4. \A k \in D : SoFar(n, S, K, mk, ny, k) = SoFar(n, S, K, mk, nx, k)
  <2> TAKE k \in D
  <2>1. K[nx[t]] # k
    OBVIOUS
  <2>2. SoFar(n, S, K, mk, ny, k) =
          IF K[nx[t]] = k THEN SoFar(n, S, K, mk, nx, k) \cup {nx[t]} ELSE SoFar(n, S, K, mk, nx, k)
    BY <1>1, <1>2, SoFarGrows, SMTT(30)
  <2> QED
    BY <2>1, <2>2
<1>5. ThreadTypes(n, m, D, mk, st, ny, rd, cs)
  BY <1>3 DEF CountGood, ThreadTypes
<1>6. \A u \in 1..NUM_THREADS : u > mk => st[u] = "start" /\ ny[u] = 1
  BY <1>1, <1>3 DEF CountGood
<1>7. ASSUME NEW u \in 1..mk
      PROVE  /\ S[u] <= ny[u] /\ ny[u] <= S[u + 1]
             /\ st[u] = "done" => ny[u] = S[u + 1]
             /\ st[u] = "locked" => ny[u] < S[u + 1] /\ K[ny[u]] \in D /\ rd[u] = cs[K[ny[u]]]
  <2>1. CASE u = t
    BY <2>1, <1>3
  <2>2. CASE u # t
    <3>1. u \in 1..NUM_THREADS
      BY <1>1
    <3> QED
      BY <2>2, <3>1, <1>3 DEF CountGood
  <2> QED
    BY <2>1, <2>2
<1>8. CountGood(n, m, S, K, D, mk, st, ny, rd, cs)
  BY <1>4, <1>5, <1>6, <1>7 DEF CountGood
<1> QED
  BY <1>2, <1>8 DEF CountsOn

LEMMA ThreadEnds ==
  ASSUME NEW n, NEW m, NEW S, NEW K, NEW D, Shares(n, m, S, K), NEW mk, NEW st, NEW nx, NEW rd, NEW cs,
         CountGood(n, m, S, K, D, mk, st, nx, rd, cs), NEW t \in 1..NUM_THREADS, t <= mk, st[t] = "start",
         ~(nx[t] < S[t + 1])
  PROVE  CountGood(n, m, S, K, D, mk, [st EXCEPT ![t] = "done"], nx, rd, cs)
<1>1. /\ n \in Nat /\ mk \in Nat /\ mk <= NUM_THREADS /\ NUM_THREADS \in Nat /\ t \in 1..mk /\ ~(t > mk)
      /\ mk <= m /\ m \in Nat
  BY DEF CountGood, ThreadTypes, Shares
<1>2. nx[t] = S[t + 1]
  <2>1. t + 1 \in 1..(m + 1)
    BY <1>1
  <2>2. S[t + 1] \in 1..(n + 1) /\ nx[t] \in 1..(n + 1) /\ nx[t] <= S[t + 1]
    BY <2>1, <1>1 DEF CountGood, ThreadTypes, Shares
  <2> QED
    BY <1>1, <2>2
<1> DEFINE sv == [st EXCEPT ![t] = "done"]
<1>3. /\ sv \in [1..NUM_THREADS -> {"start", "locked", "done"}] /\ sv[t] = "done"
      /\ \A u \in 1..NUM_THREADS : u # t => sv[u] = st[u]
  BY DEF CountGood, ThreadTypes
<1> HIDE DEF sv
<1>4. ThreadTypes(n, m, D, mk, sv, nx, rd, cs)
  BY <1>3 DEF CountGood, ThreadTypes
<1>5. \A u \in 1..NUM_THREADS : u > mk => sv[u] = "start" /\ nx[u] = 1
  BY <1>1, <1>3 DEF CountGood
<1>6. \A u \in 1..mk : u \in 1..NUM_THREADS
  BY <1>1
<1>7. ASSUME NEW u \in 1..mk
      PROVE  /\ S[u] <= nx[u] /\ nx[u] <= S[u + 1]
             /\ sv[u] = "done" => nx[u] = S[u + 1]
             /\ sv[u] = "locked" => nx[u] < S[u + 1] /\ K[nx[u]] \in D /\ rd[u] = cs[K[nx[u]]]
  <2>1. S[u] <= nx[u] /\ nx[u] <= S[u + 1]
    BY DEF CountGood
  <2>2. CASE u = t
    BY <2>1, <2>2, <1>2, <1>3
  <2>3. CASE u # t
    BY <2>1, <2>3, <1>3, <1>6 DEF CountGood
  <2> QED
    BY <2>2, <2>3
<1>8. \A u \in 1..mk, v \in 1..mk : sv[u] = "locked" /\ sv[v] = "locked" => u = v
  BY <1>3, <1>6 DEF CountGood
<1>9. CountGood(n, m, S, K, D, mk, sv, nx, rd, cs)
  BY <1>4, <1>5, <1>7, <1>8 DEF CountGood
<1> QED
  BY <1>9 DEF sv


-----------------------------------------------------------------------------
(* When all threads have ended a slot holds the number of the entries with *)
(* its key, and the place of an entry is one more than the number of those *)
(* that go before it: no two have the same.                                *)

Holders(n, K, k) == {x \in 1..n : K[x] = k}
AllCount(n, K, D, cs) == \A k \in D : cs[k] = Cardinality(Holders(n, K, k))

LEMMA ThreadsCountAll ==
  ASSUME NEW n, NEW m, NEW S, NEW K, NEW D, Shares(n, m, S, K), NEW st, NEW nx, NEW rd, NEW cs,
         CountGood(n, m, S, K, D, m, st, nx, rd, cs), \A t \in 1..m : st[t] = "done"
  PROVE  AllCount(n, K, D, cs)
<1>1. n \in Nat /\ m \in Nat \ {0}
  BY DEF Shares
<1>2. ASSUME NEW x \in 1..n PROVE \E t \in 1..m : S[t] <= x /\ x < nx[t]
  <2> DEFINE T == {t \in 1..m : x < S[t + 1]}
  <2>1. m \in T
    BY <1>1 DEF Shares
  <2>2. T \subseteq Nat /\ T # {}
    BY <2>1, <1>1
  <2>3. PICK t \in T : \A u \in T : t <= u
    BY <2>2, LeastOne
  <2>4. t \in 1..m /\ x < S[t + 1]
    BY <2>3
  <2>5. S[t] <= x
    <3>1. CASE t = 1
      BY <3>1 DEF Shares
    <3>2. CASE t # 1
      <4>1. t - 1 \in 1..m /\ (t - 1) + 1 = t /\ ~(t <= t - 1) /\ t \in 1..(m + 1)
        BY <2>4, <3>2, <1>1
      <4>2. t - 1 \notin T
        BY <4>1, <2>3
      <4>3. ~(x < S[t]) /\ S[t] \in 1..(n + 1)
        BY <4>1, <4>2 DEF Shares
      <4> QED
        BY <4>3, <1>1
    <3> QED
      BY <3>1, <3>2
  <2>6. nx[t] = S[t + 1]
    BY <2>4 DEF CountGood
  <2> QED
    BY <2>4, <2>5, <2>6
<1>3. \A k \in D : SoFar(n, S, K, m, nx, k) = Holders(n, K, k)
  BY <1>2 DEF SoFar, Holders
<1> QED
  BY <1>3 DEF CountGood, AllCount

UpToKey(D, k) == {j \in D : j <= k}
UpTo(n, K, k) == {x \in 1..n : K[x] <= k}

LEMMA CumulatedCounts ==
  ASSUME NEW n \in Nat, NEW K, \A x \in 1..n : K[x] \in Int, NEW D, IsFiniteSet(D), D \subseteq Int,
         \A x \in 1..n : K[x] \in D, NEW cs, AllCount(n, K, D, cs), NEW k \in Int
  PROVE  Total(cs, UpToKey(D, k)) = Cardinality(UpTo(n, K, k))
<1> DEFINE U == {j \in D : j <= k}
           A(p) == {x \in 1..p : K[x] <= k}
           c[p \in 0..n] == [j \in D |-> Cardinality(Holders(p, K, j))]
           G == {p \in 0..n : Total(c[p], U) = Cardinality(A(p))}
<1>1. IsFiniteSet(U)
  BY FS_Subset
<1>2. \A p \in 0..n : \A j : IsFiniteSet(Holders(p, K, j)) /\ Cardinality(Holders(p, K, j)) \in Nat
  <2> TAKE p \in 0..n
  <2>1. IsFiniteSet(1..p)
    BY FS_Interval
  <2>2. \A j : Holders(p, K, j) \subseteq 1..p
    BY DEF Holders
  <2> QED
    BY <2>1, <2>2, FS_Subset, FS_CardinalityType
<1>3. \A p \in 0..n : IsFiniteSet(A(p)) /\ Cardinality(A(p)) \in Nat
  <2> TAKE p \in 0..n
  <2>1. IsFiniteSet(1..p) /\ A(p) \subseteq 1..p
    BY FS_Interval
  <2> QED
    BY <2>1, FS_Subset, FS_CardinalityType
<1>4. \A p \in 0..n : \A j \in D : c[p][j] = Cardinality(Holders(p, K, j)) /\ c[p][j] \in Nat
  BY <1>2
<1>5. 0 \in G
  <2>1. \A j \in U : c[0][j] = 0
    <3> TAKE j \in U
    <3>1. Holders(0, K, j) = {}
      BY DEF Holders
    <3>2. 0 \in 0..n
      OBVIOUS
    <3> QED
      BY <3>1, <3>2, <1>4, FS_EmptySet
  <2>2. Total(c[0], U) = 0
    <3> HIDE DEF c, U
    <3> QED
      BY <2>1, TotalOfNothing
  <2>3. A(0) = {}
    OBVIOUS
  <2>4. 0 \in 0..n
    OBVIOUS
  <2> HIDE DEF c, A, U
  <2> QED
    BY <2>2, <2>3, <2>4, FS_EmptySet
<1>6. ASSUME NEW p \in 0..(n - 1), p \in G PROVE p + 1 \in G
  <2>0. p + 1 \in 0..n /\ p \in 0..n /\ p + 1 \in 1..n /\ p \in Nat
    OBVIOUS
  <2>1. PICK q : q = p + 1
    OBVIOUS
  <2>2. K[q] \in D /\ K[q] \in Int
    BY <2>0, <2>1
  <2>3. \A x : x \in 1..q <=> x \in 1..p \/ x = q
    BY <2>0, <2>1
  <2>4. q \notin 1..p
    BY <2>0, <2>1
  <2>5. \A j : Holders(q, K, j) = IF K[q] = j THEN Holders(p, K, j) \cup {q} ELSE Holders(p, K, j)
    BY <2>3 DEF Holders
  <2>6. \A j : q \notin Holders(p, K, j)
    BY <2>4 DEF Holders
  <2>7. \A j \in D : j # K[q] => c[q][j] = c[p][j]
    BY <2>0, <2>1, <2>5, <1>4
  <2>8. c[q][K[q]] = c[p][K[q]] + 1
    <3>1. Cardinality(Holders(p, K, K[q]) \cup {q}) = Cardinality(Holders(p, K, K[q])) + 1
      BY <2>0, <2>6, <1>2, FS_AddElement
    <3> QED
      BY <3>1, <2>0, <2>1, <2>2, <2>5, <1>4
  <2>9. Total(c[p], U) = Cardinality(A(p))
    BY <1>6
  <2>10. CASE K[q] <= k
    <3>1. A(q) = A(p) \cup {q} /\ q \notin A(p)
      BY <2>3, <2>4, <2>10
    <3>2. Cardinality(A(q)) = Cardinality(A(p)) + 1
      <4> HIDE DEF A
      <4> QED
        BY <3>1, <2>0, <1>3, FS_AddElement
    <3>3. K[q] \in U /\ \A s \in U \ {K[q]} : c[q][s] = c[p][s]
      BY <2>2, <2>7, <2>10
    <3>4. \A s \in U : c[p][s] \in Nat /\ c[q][s] \in Nat
      BY <1>4, <2>0, <2>1
    <3>5. PICK d, e : d = c[p] /\ e = c[q]
      OBVIOUS
    <3> HIDE DEF c, U, A
    <3>6. Total(e, U) = Total(d, U) + e[K[q]] - d[K[q]]
      BY <1>1, <3>3, <3>4, <3>5, TotalChanges
    <3>7. d[K[q]] \in Nat /\ Cardinality(A(p)) \in Nat
      BY <3>3, <3>4, <3>5, <1>3, <2>0
    <3>8. Total(c[q], U) = Cardinality(A(q))
      BY <3>2, <3>5, <3>6, <3>7, <2>8, <2>9
    <3> QED
      BY <3>8, <2>0, <2>1
  <2>11. CASE ~(K[q] <= k)
    <3>1. A(q) = A(p)
      BY <2>3, <2>11
    <3>2. \A s \in U : c[q][s] = c[p][s]
      BY <2>7, <2>11
    <3>3. PICK d, e : d = c[p] /\ e = c[q]
      OBVIOUS
    <3> HIDE DEF c, U, A
    <3>4. Total(e, U) = Total(d, U)
      BY <3>2, <3>3, TotalIsOf
    <3> QED
      BY <3>1, <3>3, <3>4, <2>0, <2>1, <2>9
  <2> QED
    BY <2>10, <2>11
<1> HIDE DEF G
<1>7. 0..n \subseteq G
  BY <1>5, <1>6, StepByStep
<1>8. Total(c[n], U) = Cardinality(A(n))
  <2>1. n \in 0..n
    OBVIOUS
  <2> QED
    BY <2>1, <1>7 DEF G
<1>9. \A s \in U : cs[s] = c[n][s]
  <2>1. n \in 0..n
    OBVIOUS
  <2> QED
    BY <2>1, <1>4 DEF AllCount
<1>10. PICK d : d = c[n]
  OBVIOUS
<1>11. Total(cs, U) = Total(d, U)
  <2> HIDE DEF c, U
  <2> QED
    BY <1>9, <1>10, TotalIsOf
<1> QED
  BY <1>8, <1>10, <1>11 DEF UpToKey, UpTo

GoesFirst(K, x, y) == K[x] < K[y] \/ (K[x] = K[y] /\ x < y)
Earlier(n, K, y) == {x \in 1..n : GoesFirst(K, x, y)}

LEMMA PlaceCounts ==
  ASSUME NEW n \in Nat, NEW K, \A x \in 1..n : K[x] \in Int, NEW y \in 1..n
  PROVE  /\ Cardinality(Earlier(n, K, y)) \in Nat
         /\ Cardinality({x \in 1..n : K[x] <= K[y]}) - Cardinality({x \in y..n : K[x] = K[y]}) + 1
              = Cardinality(Earlier(n, K, y)) + 1
<1> DEFINE A == {x \in 1..n : K[x] <= K[y]}
           B == {x \in y..n : K[x] = K[y]}
           C == Earlier(n, K, y)
<1>1. B \subseteq 1..n /\ A \subseteq 1..n /\ C \subseteq 1..n
  BY DEF Earlier
<1>2. A = B \cup C
  <2>1. ASSUME NEW x \in 1..n PROVE K[x] <= K[y] <=> (x \in y..n /\ K[x] = K[y]) \/ GoesFirst(K, x, y)
    <3>1. K[x] \in Int /\ K[y] \in Int
      OBVIOUS
    <3>2. x < y \/ x \in y..n
      OBVIOUS
    <3> QED
      BY <3>1, <3>2 DEF GoesFirst
  <2> QED
    BY <2>1, <1>1 DEF Earlier
<1>3. B \cap C = {}
  <2>1. ASSUME NEW x \in 1..n, x \in y..n, K[x] = K[y] PROVE ~GoesFirst(K, x, y)
    <3>1. K[x] \in Int /\ K[y] \in Int
      OBVIOUS
    <3> QED
      BY <3>1, <2>1 DEF GoesFirst
  <2> QED
    BY <2>1, <1>1 DEF Earlier
<1>4. /\ IsFiniteSet(B) /\ IsFiniteSet(C) /\ Cardinality(B) \in Nat /\ Cardinality(C) \in Nat
  <2>1. IsFiniteSet(1..n)
    BY FS_Interval
  <2> HIDE DEF A, B, C
  <2> QED
    BY <2>1, <1>1, FS_Subset, FS_CardinalityType
<1> HIDE DEF A, B, C
<1>5. Cardinality(A) = Cardinality(B) + Cardinality(C)
  <2>1. Cardinality(A) = Cardinality(B) + Cardinality(C) - Cardinality(B \cap C)
    BY <1>2, <1>4, FS_Union
  <2>2. Cardinality(B \cap C) = 0
    BY <1>3, FS_EmptySet
  <2> QED
    BY <2>1, <2>2, <1>4
<1>6. Cardinality(A) - Cardinality(B) + 1 = Cardinality(C) + 1
  BY <1>4, <1>5
<1> QED
  BY <1>4, <1>6 DEF A, B, C

LEMMA FirstIsAnOrder ==
  ASSUME NEW n \in Nat, NEW K, \A x \in 1..n : K[x] \in Int
  PROVE  /\ \A x \in 1..n : ~GoesFirst(K, x, x)
         /\ \A x, y, z \in 1..n : GoesFirst(K, x, y) /\ GoesFirst(K, y, z) => GoesFirst(K, x, z)
         /\ \A x, y \in 1..n : x = y \/ GoesFirst(K, x, y) \/ GoesFirst(K, y, x)
<1>1. ASSUME NEW x \in 1..n PROVE ~GoesFirst(K, x, x)
  <2>1. K[x] \in Int
    OBVIOUS
  <2> QED
    BY <2>1 DEF GoesFirst
<1>2. ASSUME NEW x \in 1..n, NEW y \in 1..n, NEW z \in 1..n, GoesFirst(K, x, y), GoesFirst(K, y, z)
      PROVE  GoesFirst(K, x, z)
  <2>1. K[x] \in Int /\ K[y] \in Int /\ K[z] \in Int
    OBVIOUS
  <2> QED
    BY <2>1, <1>2 DEF GoesFirst
<1>3. ASSUME NEW x \in 1..n, NEW y \in 1..n PROVE x = y \/ GoesFirst(K, x, y) \/ GoesFirst(K, y, x)
  <2>1. K[x] \in Int /\ K[y] \in Int
    OBVIOUS
  <2> QED
    BY <2>1 DEF GoesFirst
<1> QED
  BY <1>1, <1>2, <1>3

PlaceFn(n, K) == [y \in 1..n |-> Cardinality(Earlier(n, K, y)) + 1]

IsPlacing(n, K, r) ==
  /\ r \in [1..n -> 1..n]
  /\ \A x, y \in 1..n : GoesFirst(K, x, y) => r[x] < r[y]
  /\ \A x, y \in 1..n : r[x] = r[y] => x = y
  /\ \A p \in 1..n : \E x \in 1..n : r[x] = p

LEMMA EveryPlaceIsTaken ==
  ASSUME NEW n \in Nat, NEW K, \A x \in 1..n : K[x] \in Int
  PROVE  IsPlacing(n, K, PlaceFn(n, K))
<1>r. PICK r : r = PlaceFn(n, K)
  OBVIOUS
<1>1. \A y \in 1..n : Earlier(n, K, y) \subseteq (1..n) \ {y}
  BY FirstIsAnOrder DEF Earlier
<1>2. \A y \in 1..n : IsFiniteSet((1..n) \ {y}) /\ Cardinality((1..n) \ {y}) = n - 1
  <2> TAKE y \in 1..n
  <2>1. IsFiniteSet(1..n) /\ Cardinality(1..n) = IF 1 > n THEN 0 ELSE n - 1 + 1
    BY FS_Interval
  <2>2. Cardinality(1..n) = n
    BY <2>1
  <2> QED
    BY <2>1, <2>2, FS_RemoveElement
<1>3. \A y \in 1..n : /\ IsFiniteSet(Earlier(n, K, y)) /\ Cardinality(Earlier(n, K, y)) \in Nat
                      /\ Cardinality(Earlier(n, K, y)) <= n - 1
  <2> TAKE y \in 1..n
  <2>1. Earlier(n, K, y) \in SUBSET ((1..n) \ {y})
    BY <1>1
  <2>2. IsFiniteSet(Earlier(n, K, y)) /\ Cardinality(Earlier(n, K, y)) <= Cardinality((1..n) \ {y})
    BY <1>2, <2>1, FS_Subset
  <2> QED
    BY <1>2, <2>2, FS_CardinalityType
<1>4. \A y \in 1..n : r[y] \in 1..n
  <2> TAKE y \in 1..n
  <2>1. r[y] = Cardinality(Earlier(n, K, y)) + 1
    BY <1>r DEF PlaceFn
  <2>2. Cardinality(Earlier(n, K, y)) \in Nat /\ Cardinality(Earlier(n, K, y)) <= n - 1
    BY <1>3
  <2> QED
    BY <2>1, <2>2
<1>5. r \in [1..n -> 1..n]
  BY <1>4, <1>r DEF PlaceFn
<1>6. ASSUME NEW x \in 1..n, NEW y \in 1..n, GoesFirst(K, x, y) PROVE r[x] < r[y]
  <2>1. Earlier(n, K, x) \cup {x} \subseteq Earlier(n, K, y)
    BY <1>6, FirstIsAnOrder DEF Earlier
  <2>2. x \notin Earlier(n, K, x)
    BY <1>1
  <2>3. Cardinality(Earlier(n, K, x) \cup {x}) = Cardinality(Earlier(n, K, x)) + 1
    BY <1>3, <2>2, FS_AddElement
  <2>4. Cardinality(Earlier(n, K, x) \cup {x}) <= Cardinality(Earlier(n, K, y))
    BY <1>3, <2>1, FS_Subset
  <2>5. r[x] = Cardinality(Earlier(n, K, x)) + 1 /\ r[y] = Cardinality(Earlier(n, K, y)) + 1
    BY <1>r DEF PlaceFn
  <2>6. Cardinality(Earlier(n, K, x)) \in Nat /\ Cardinality(Earlier(n, K, y)) \in Nat
    BY <1>3
  <2> QED
    BY <2>3, <2>4, <2>5, <2>6
<1>7. ASSUME NEW x \in 1..n, NEW y \in 1..n, r[x] = r[y] PROVE x = y
  <2>1. r[x] \in Int /\ r[y] \in Int
    BY <1>4
  <2>2. ~(r[x] < r[y]) /\ ~(r[y] < r[x])
    BY <2>1, <1>7
  <2> QED
    BY <2>2, <1>6, FirstIsAnOrder
<1>8. r \in Injection(1..n, 1..n)
  BY <1>5, <1>7 DEF Injection, IsInjective
<1>9. r \in Surjection(1..n, 1..n)
  BY <1>8, FS_Interval, FS_Injection
<1>10. \A p \in 1..n : \E x \in 1..n : r[x] = p
  BY <1>9 DEF Surjection
<1> QED
  BY <1>r, <1>5, <1>6, <1>7, <1>10 DEF IsPlacing


-----------------------------------------------------------------------------
(* The bubble sort of the timestamps.  From the place m + 1 on the entries *)
(* s of the set E are in order, and after the others; those with equal     *)
(* buckets stay in the order they had.                                     *)

V(e) == Sort!Bucket(e.key)
Stamped(E) == \A e \in E : V(e) \in Int /\ e.n \in Int

OrderedFrom(n, E, s, m) ==
  /\ s \in [1..n -> E] /\ {s[x] : x \in 1..n} = E
  /\ \A x \in 1..n, y \in 1..n : x < y /\ V(s[x]) = V(s[y]) => s[x].n < s[y].n
  /\ \A x \in 1..n, y \in 1..n : x < y /\ y > m => V(s[x]) <= V(s[y])
Greatest(n, s, j) == \A x \in 1..n : x <= j => V(s[x]) <= V(s[j])

LEMMA SwapKeepsOrder ==
  ASSUME NEW n \in Nat, NEW E, Stamped(E), NEW s, NEW m \in 1..n, OrderedFrom(n, E, s, m),
         NEW j \in 1..(m - 1), Greatest(n, s, j)
  PROVE  OrderedFrom(n, E, Sort!Swap(s, j), m) /\ Greatest(n, Sort!Swap(s, j), j + 1)
<1>1. j \in 1..n /\ j + 1 \in 1..n /\ j + 1 <= m /\ j # j + 1
  OBVIOUS
<1>2. s \in [1..n -> E] /\ {s[x] : x \in 1..n} = E
  BY DEF OrderedFrom
<1>3. \A x \in 1..n : V(s[x]) \in Int /\ s[x].n \in Int
  BY <1>2 DEF Stamped
<1>4. CASE V(s[j]) > V(s[j + 1])
  <2> DEFINE t == [s EXCEPT ![j] = s[j + 1], ![j + 1] = s[j]]
  <2>1. Sort!Swap(s, j) = t
    BY <1>4 DEF Sort!Swap, V
  <2>2. /\ t \in [1..n -> E] /\ t[j] = s[j + 1] /\ t[j + 1] = s[j]
        /\ \A x \in 1..n : x # j /\ x # j + 1 => t[x] = s[x]
    BY <1>1, <1>2
  <2> HIDE DEF t
  <2>3. {t[x] : x \in 1..n} = E
    <3>1. \A x \in 1..n : \E y \in 1..n : t[y] = s[x]
      BY <1>1, <2>2
    <3>2. \A e \in E : \E y \in 1..n : e = t[y]
      BY <1>2, <3>1
    <3>3. \A y \in 1..n : t[y] \in E
      BY <2>2
    <3> QED
      BY <3>2, <3>3
  <2>4. ASSUME NEW x \in 1..n, NEW y \in 1..n, x < y, V(t[x]) = V(t[y]) PROVE t[x].n < t[y].n
    <3>1. CASE x = j /\ y = j + 1
      BY <3>1, <2>2, <2>4, <1>1, <1>3, <1>4
    <3>2. CASE x = j /\ y # j + 1
      <4>1. j + 1 < y /\ t[y] = s[y] /\ t[x] = s[j + 1]
        BY <3>2, <2>2, <2>4
      <4> QED
        BY <4>1, <1>1, <2>4 DEF OrderedFrom
    <3>3. CASE x = j + 1
      <4>1. j < y /\ t[y] = s[y] /\ t[x] = s[j]
        BY <3>3, <2>2, <2>4
      <4> QED
        BY <4>1, <1>1, <2>4 DEF OrderedFrom
    <3>4. CASE x # j /\ x # j + 1 /\ y = j
      <4>1. x < j + 1 /\ t[y] = s[j + 1] /\ t[x] = s[x]
        BY <3>4, <2>2, <2>4
      <4> QED
        BY <4>1, <1>1, <2>4 DEF OrderedFrom
    <3>5. CASE x # j /\ x # j + 1 /\ y = j + 1
      <4>1. x < j /\ t[y] = s[j] /\ t[x] = s[x]
        BY <3>5, <2>2, <2>4
      <4> QED
        BY <4>1, <1>1, <2>4 DEF OrderedFrom
    <3>6. CASE x # j /\ x # j + 1 /\ y # j /\ y # j + 1
      BY <3>6, <2>2, <2>4 DEF OrderedFrom
    <3> QED
      BY <3>1, <3>2, <3>3, <3>4, <3>5, <3>6
  <2>5. ASSUME NEW x \in 1..n, NEW y \in 1..n, x < y, y > m PROVE V(t[x]) <= V(t[y])
    <3>1. t[y] = s[y] /\ j < y /\ j + 1 < y
      BY <2>2, <2>5, <1>1
    <3>2. V(s[j]) <= V(s[y]) /\ V(s[j + 1]) <= V(s[y]) /\ V(s[x]) <= V(s[y])
      BY <3>1, <2>5, <1>1 DEF OrderedFrom
    <3> QED
      BY <3>1, <3>2, <2>2
  <2>6. ASSUME NEW x \in 1..n, x <= j + 1 PROVE V(t[x]) <= V(t[j + 1])
    <3>1. CASE x = j + 1
      BY <3>1, <2>2, <1>1, <1>3
    <3>2. CASE x = j
      BY <3>2, <2>2, <1>1, <1>3, <1>4
    <3>3. CASE x # j /\ x # j + 1
      <4>1. x <= j /\ t[x] = s[x]
        BY <3>3, <2>2, <2>6
      <4> QED
        BY <4>1, <2>2 DEF Greatest
    <3> QED
      BY <3>1, <3>2, <3>3
  <2> QED
    BY <2>1, <2>2, <2>3, <2>4, <2>5, <2>6, ZenonT(40) DEF OrderedFrom, Greatest
<1>5. CASE ~(V(s[j]) > V(s[j + 1]))
  <2>1. Sort!Swap(s, j) = s
    BY <1>5 DEF Sort!Swap, V
  <2>2. ASSUME NEW x \in 1..n, x <= j + 1 PROVE V(s[x]) <= V(s[j + 1])
    <3>1. CASE x = j + 1
      BY <3>1, <1>1, <1>3
    <3>2. CASE x # j + 1
      <4>1. x <= j
        BY <3>2, <2>2
      <4>2. V(s[x]) <= V(s[j]) /\ V(s[x]) \in Int /\ V(s[j]) \in Int /\ V(s[j + 1]) \in Int
        BY <4>1, <1>1, <1>3 DEF Greatest
      <4> QED
        BY <4>2, <1>5
    <3> QED
      BY <3>1, <3>2
  <2> QED
    BY <2>1, <2>2 DEF Greatest
<1> QED
  BY <1>4, <1>5

LEMMA SwapIs ==
  ASSUME NEW n \in Nat, NEW E, NEW s \in [1..n -> E], NEW j \in 1..(n - 1)
  PROVE  Sort!Swap(s, j) \in [1..n -> E]
<1>1. j \in 1..n /\ j + 1 \in 1..n
  OBVIOUS
<1> QED
  BY <1>1 DEF Sort!Swap

\* A pass that compares the first w places with the next ones.
IsPass(n, E, s, w, r) ==
  /\ r \in [0..w -> [1..n -> E]]
  /\ r[0] = s /\ Sort!Pass(s, w) = r[w]
  /\ \A j \in 1..w : r[j] = Sort!Swap(r[j - 1], j)

LEMMA PassSteps ==
  ASSUME NEW n \in Nat, NEW E, NEW s \in [1..n -> E], NEW w \in 0..(n - 1)
  PROVE  \E r : IsPass(n, E, s, w, r)
<1> DEFINE X == [1..n -> E]
           F == [j \in 1..w |-> [t \in X |-> Sort!Swap(t, j)]]
           after == CHOOSE r : r = [j \in 0..w |-> IF j = 0 THEN s ELSE Sort!Swap(r[j - 1], j)]
<1>1. w \in Nat /\ \A j \in 1..w : j \in 1..(n - 1)
  OBVIOUS
<1>2. \A t \in X, j \in 1..w : Sort!Swap(t, j) \in X
  BY <1>1, SwapIs
<1>3. s \in X
  OBVIOUS
<1> HIDE DEF X
<1>4. F \in [1..w -> [X -> X]]
  BY <1>2
<1>5. PICK r : Run(r, w, X, s, F)
  <2> HIDE DEF F
  <2> QED
    BY <1>1, <1>3, <1>4, Iteration
<1>6. r = [j \in 0..w |-> IF j = 0 THEN s ELSE Sort!Swap(r[j - 1], j)]
  <2>1. \A j \in 1..w : j - 1 \in 0..w /\ r[j - 1] \in X
    BY <1>1, <1>5 DEF Run
  <2>2. \A j \in 1..w : j \in 0..w /\ j # 0 /\ F[j][r[j - 1]] = Sort!Swap(r[j - 1], j)
    BY <2>1, <1>1
  <2>3. \A j \in 0..w : j = 0 \/ j \in 1..w
    BY <1>1
  <2>4. r[0] = s /\ \A j \in 1..w : r[j] = F[j][r[j - 1]]
    BY <1>5 DEF Run
  <2>5. r = [j \in 0..w |-> r[j]]
    BY <1>5 DEF Run
  <2> HIDE DEF F
  <2>6. \A j \in 0..w : r[j] = IF j = 0 THEN s ELSE Sort!Swap(r[j - 1], j)
    BY <2>2, <2>3, <2>4
  <2> QED
    BY <2>5, <2>6
<1>7. after = [j \in 0..w |-> IF j = 0 THEN s ELSE Sort!Swap(after[j - 1], j)]
  BY <1>6, Zenon
<1>8. Sort!Pass(s, w) = after[w]
  BY Zenon DEF Sort!Pass, after
<1> HIDE DEF after
<1>9. after[0] = s /\ \A j \in 1..w : after[j] = Sort!Swap(after[j - 1], j)
  BY <1>1, <1>7
<1> DEFINE G == {j \in 0..w : after[j] \in X}
<1>10. 0 \in G
  BY <1>1, <1>3, <1>9
<1>11. ASSUME NEW j \in 0..(w - 1), j \in G PROVE j + 1 \in G
  <2>1. j + 1 \in 1..w /\ (j + 1) - 1 = j /\ j + 1 \in 0..w
    BY <1>1
  <2> QED
    BY <2>1, <1>2, <1>9, <1>11
<1>12. 0..w \subseteq G
  <2> HIDE DEF G
  <2> QED
    BY <1>1, <1>10, <1>11, StepByStep
<1>13. after \in [0..w -> X]
  BY <1>7, <1>12
<1> QED
  BY <1>8, <1>9, <1>13 DEF X, IsPass

LEMMA PassOrders ==
  ASSUME NEW n \in Nat, NEW E, Stamped(E), NEW s, NEW m \in 1..n, OrderedFrom(n, E, s, m)
  PROVE  OrderedFrom(n, E, Sort!Pass(s, m - 1), m - 1)
<1>1. PICK w \in 0..(n - 1) : w = m - 1
  OBVIOUS
<1>2. s \in [1..n -> E] /\ w \in Nat /\ w <= n
  BY DEF OrderedFrom
<1>a. PICK r : IsPass(n, E, s, w, r)
  BY <1>1, <1>2, PassSteps
<1>3. /\ r \in [0..w -> [1..n -> E]]
      /\ r[0] = s /\ Sort!Pass(s, w) = r[w]
      /\ \A j \in 1..w : r[j] = Sort!Swap(r[j - 1], j)
  BY <1>a DEF IsPass
<1> DEFINE G == {j \in 0..w : OrderedFrom(n, E, r[j], m) /\ Greatest(n, r[j], j + 1)}
<1>4. 0 \in G
  <2>1. ASSUME NEW x \in 1..n, x <= 0 + 1 PROVE V(s[x]) <= V(s[0 + 1])
    <3>1. x = 1 /\ 0 + 1 = 1 /\ V(s[x]) \in Int
      BY <1>2, <2>1 DEF Stamped
    <3> QED
      BY <3>1
  <2> QED
    BY <2>1, <1>2, <1>3 DEF Greatest
<1>5. ASSUME NEW j \in 0..(w - 1), j \in G PROVE j + 1 \in G
  <2>1. j + 1 \in 1..w /\ (j + 1) - 1 = j /\ j + 1 \in 0..w /\ j + 1 \in 1..(m - 1)
    BY <1>1, <1>2
  <2>2. r[j + 1] = Sort!Swap(r[j], j + 1)
    BY <2>1, <1>3
  <2>3. OrderedFrom(n, E, r[j], m) /\ Greatest(n, r[j], j + 1)
    BY <1>5
  <2>4. OrderedFrom(n, E, Sort!Swap(r[j], j + 1), m) /\ Greatest(n, Sort!Swap(r[j], j + 1), (j + 1) + 1)
    BY <2>1, <2>3, SwapKeepsOrder
  <2> QED
    BY <2>1, <2>2, <2>4
<1>6. 0..w \subseteq G
  <2> HIDE DEF G
  <2> QED
    BY <1>2, <1>4, <1>5, StepByStep
<1>7. OrderedFrom(n, E, r[w], m) /\ Greatest(n, r[w], w + 1)
  BY <1>2, <1>6
<1>8. Greatest(n, r[w], m)
  BY <1>1, <1>7
<1>9. ASSUME NEW x \in 1..n, NEW y \in 1..n, x < y, y > w PROVE V(r[w][x]) <= V(r[w][y])
  <2>1. CASE y > m
    BY <2>1, <1>7, <1>9 DEF OrderedFrom
  <2>2. CASE y = m
    <3>1. x <= m
      BY <2>2, <1>9
    <3> QED
      BY <2>2, <3>1, <1>8 DEF Greatest
  <2> QED
    BY <2>1, <2>2, <1>1, <1>9
<1>10. OrderedFrom(n, E, r[w], w)
  BY <1>7, <1>9 DEF OrderedFrom
<1> QED
  BY <1>1, <1>3, <1>10


LEMMA BubbledOrders ==
  ASSUME Sort!N \in Nat \ {0}, NEW E, Stamped(E), OrderedFrom(Sort!N, E, entries, Sort!N)
  PROVE  OrderedFrom(Sort!N, E, Sort!Bubbled, 1)
<1>1. PICK n, s : n = Sort!N /\ s = entries
  OBVIOUS
<1>2. n \in Nat /\ n >= 1 /\ n - 1 \in Nat /\ s \in [1..n -> E]
  BY <1>1 DEF OrderedFrom
<1>3. PICK w \in Nat : w = n - 1
  BY <1>2
<1> DEFINE X == [1..n -> E]
           F == [j \in 1..w |-> [t \in X |-> Sort!Pass(t, n - j)]]
           after == CHOOSE r : r = [j \in 0..w |-> IF j = 0 THEN s ELSE Sort!Pass(r[j - 1], n - j)]
<1>4. \A t \in X, j \in 1..w : Sort!Pass(t, n - j) \in X
  <2> TAKE t \in X, j \in 1..w
  <2>1. PICK v \in 0..(n - 1) : v = n - j
    BY <1>2, <1>3
  <2>2. PICK r : IsPass(n, E, t, v, r)
    BY <1>2, PassSteps
  <2>3. v \in 0..v
    OBVIOUS
  <2> QED
    BY <2>1, <2>2, <2>3 DEF IsPass
<1>5. s \in X
  BY <1>2
<1> HIDE DEF X
<1>6. F \in [1..w -> [X -> X]]
  BY <1>4
<1>7. PICK r : Run(r, w, X, s, F)
  <2> HIDE DEF F
  <2> QED
    BY <1>3, <1>5, <1>6, Iteration
<1>8. r = [j \in 0..w |-> IF j = 0 THEN s ELSE Sort!Pass(r[j - 1], n - j)]
  <2>1. \A j \in 1..w : j - 1 \in 0..w /\ r[j - 1] \in X
    BY <1>3, <1>7 DEF Run
  <2>2. \A j \in 1..w : j \in 0..w /\ j # 0 /\ F[j][r[j - 1]] = Sort!Pass(r[j - 1], n - j)
    BY <2>1, <1>3
  <2>3. \A j \in 0..w : j = 0 \/ j \in 1..w
    BY <1>3
  <2>4. r[0] = s /\ \A j \in 1..w : r[j] = F[j][r[j - 1]]
    BY <1>7 DEF Run
  <2>5. r = [j \in 0..w |-> r[j]]
    BY <1>7 DEF Run
  <2> HIDE DEF F
  <2>6. \A j \in 0..w : r[j] = IF j = 0 THEN s ELSE Sort!Pass(r[j - 1], n - j)
    BY <2>2, <2>3, <2>4
  <2> QED
    BY <2>5, <2>6
<1>9. after = [j \in 0..w |-> IF j = 0 THEN s ELSE Sort!Pass(after[j - 1], n - j)]
  BY <1>8, Zenon
<1>10. Sort!Bubbled = after[w]
  BY <1>1, <1>3, Zenon DEF Sort!Bubbled, after
<1> HIDE DEF after
<1>11. after[0] = s /\ \A j \in 1..w : after[j] = Sort!Pass(after[j - 1], n - j)
  BY <1>3, <1>9
<1> DEFINE G == {j \in 0..w : OrderedFrom(n, E, after[j], n - j)}
<1>12. 0 \in G
  <2>1. n - 0 = n /\ 0 \in 0..w
    BY <1>2, <1>3
  <2> QED
    BY <2>1, <1>1, <1>11
<1>13. ASSUME NEW j \in 0..(w - 1), j \in G PROVE j + 1 \in G
  <2>1. /\ j + 1 \in 1..w /\ (j + 1) - 1 = j /\ j + 1 \in 0..w /\ n - (j + 1) = (n - j) - 1
        /\ n - j \in 1..n
    BY <1>2, <1>3
  <2>2. PICK m \in 1..n : m = n - j
    BY <2>1
  <2>3. OrderedFrom(n, E, after[j], m)
    BY <2>2, <1>13
  <2>4. OrderedFrom(n, E, Sort!Pass(after[j], m - 1), m - 1)
    BY <2>3, <1>2, PassOrders
  <2>5. after[j + 1] = Sort!Pass(after[j], m - 1)
    BY <2>1, <2>2, <1>11
  <2> QED
    BY <2>1, <2>2, <2>4, <2>5
<1>14. 0..w \subseteq G
  <2> HIDE DEF G
  <2> QED
    BY <1>3, <1>12, <1>13, StepByStep
<1>15. w \in 0..w /\ n - w = 1
  BY <1>2, <1>3
<1>16. OrderedFrom(n, E, after[w], 1)
  BY <1>14, <1>15
<1> QED
  BY <1>1, <1>10, <1>16

-----------------------------------------------------------------------------
(* The invariant of the count sort.                                        *)

InOrder(n, inp, K, s) ==
  /\ s \in [1..n -> {inp[x] : x \in 1..n}] /\ {s[x] : x \in 1..n} = {inp[x] : x \in 1..n}
  /\ \A x \in 1..n, y \in 1..n : x < y => GoesFirst(K, s[x].n, s[y].n)

Keyed == [x \in 1..Sort!N |-> KeyOf(x)]
StartFn == [t \in 1..(Sort!num_threads + 1) |-> Sort!Start(t)]

CountInv ==
  /\ CountGood(Sort!N, Sort!num_threads, StartFn, Keyed, Sort!Slots, made, at, next, read, counts)
  /\ ~Sort!CountSort => made = 0
  /\ Sort!CountSort =>
       /\ result \in {"", "success", "error", "undefined"}
       /\ result # "success" => entries = input
       /\ result # "" => Sort!AllCounted
       /\ result = "success" => InOrder(Sort!N, input, Keyed, entries)

LEMMA KeyedIs ==
  ASSUME Sort!SortAssumption, SortInput
  PROVE  \A x \in 1..Sort!N : Keyed[x] = Sort!CountKey(input[x].key) /\ Keyed[x] \in Int
<1>1. column \in DOMAIN Sort!Keys
  BY DEF SortInput
<1> QED
  BY <1>1, InputIs, KeysAreNumbers DEF Keyed, KeyOf

LEMMA SharesHold ==
  ASSUME Sort!SortAssumption, SortInput
  PROVE  Shares(Sort!N, Sort!num_threads, StartFn, Keyed)
<1>1. /\ Sort!N \in Nat \ {0} /\ NUM_THREADS \in Nat /\ Sort!num_threads \in 1..NUM_THREADS
      /\ Sort!num_threads \in Nat \ {0}
  BY InputIs, SortThreads DEF Sort!SortAssumption
<1>2. 1 \in 1..(Sort!num_threads + 1) /\ Sort!num_threads + 1 \in 1..(Sort!num_threads + 1)
  BY <1>1
<1> QED
  BY <1>1, <1>2, StartsAre, KeyedIs DEF Shares, StartFn

LEMMA SlotsAre ==
  ASSUME Sort!SortAssumption, SortInput
  PROVE  /\ IsFiniteSet(Sort!Slots) /\ Sort!Slots \subseteq Int
         /\ column # "Timestamp" =>
              \A x \in 1..Sort!N : Sort!InArray(input[x].key) => Keyed[x] \in Sort!Slots
<1>1. column \in {"ID", "Name", "Timestamp"}
  BY Columns DEF SortInput
<1>2. CASE column = "ID"
  <2>a. Sort!Slots = 0..MAX_ID
    BY <1>2 DEF Sort!Slots
  <2>1. Sort!Slots = 0..MAX_ID /\ IsFiniteSet(0..MAX_ID)
    BY <2>a, FS_Interval DEF Sort!SortAssumption
  <2>2. \A x \in 1..Sort!N : Sort!InArray(input[x].key) => Keyed[x] \in 0..MAX_ID
    BY <1>2, KeyedIs DEF Sort!InArray, Sort!CountKey
  <2> QED
    BY <2>1, <2>2 DEF Sort!SortAssumption
<1>3. CASE column = "Name"
  <2>a. Sort!IsFiniteSet(Chars) = IsFiniteSet(Chars)
    BY DEF Sort!IsFiniteSet, IsFiniteSet
  <2>b. Sort!Slots = Chars
    BY <1>3 DEF Sort!Slots
  <2>1. Sort!Slots = Chars /\ IsFiniteSet(Chars) /\ Chars \subseteq Int
    BY <2>a, <2>b DEF Sort!SortAssumption
  <2>2. \A x \in 1..Sort!N : Keyed[x] = input[x].key.first
    BY <1>3, KeyedIs DEF Sort!CountKey
  <2>3. \A x \in 1..Sort!N : input[x].key \in [first : Chars, rest : Chars]
    BY <1>3, InputIs, Columns
  <2> QED
    BY <2>1, <2>2, <2>3
<1>4. CASE column = "Timestamp"
  BY <1>4, FS_EmptySet DEF Sort!Slots
<1> QED
  BY <1>1, <1>2, <1>3, <1>4

LEMMA SortFixed ==
  ASSUME column' = column, input' = input
  PROVE  /\ Sort!N' = Sort!N /\ Sort!num_threads' = Sort!num_threads /\ StartFn' = StartFn
         /\ Keyed' = Keyed /\ Sort!Slots' = Sort!Slots /\ (Sort!CountSort' <=> Sort!CountSort)
         /\ Originals' = Originals /\ (SortInput' <=> SortInput) /\ (Sort!AllParse' <=> Sort!AllParse)
<1>1. Sort!N' = Sort!N
  BY DEF Sort!N
<1>2. Sort!num_threads' = Sort!num_threads
  BY <1>1 DEF Sort!num_threads
<1>3. StartFn' = StartFn
  BY <1>1, <1>2 DEF StartFn, Sort!Start
<1>4. Keyed' = Keyed
  BY <1>1 DEF Keyed, KeyOf, Sort!CountKey
<1>5. Sort!Slots' = Sort!Slots
  BY DEF Sort!Slots
<1>6. Sort!CountSort' <=> Sort!CountSort
  BY <1>1 DEF Sort!CountSort
<1>7. Originals' = Originals
  BY <1>1 DEF Originals
<1>8. SortInput' <=> SortInput
  BY DEF SortInput, Read, Sort!Keys
<1>9. Sort!AllParse' <=> Sort!AllParse
  BY <1>1 DEF Sort!AllParse
<1> QED
  BY <1>1, <1>2, <1>3, <1>4, <1>5, <1>6, <1>7, <1>8, <1>9


LEMMA CountInvStarts ==
  ASSUME Sort!SortAssumption, Sort!Init PROVE SortInput /\ CountInv
<1>1. SortInput
  BY DEF Sort!Init, SortInput, Read
<1>2. Shares(Sort!N, Sort!num_threads, StartFn, Keyed)
  BY <1>1, SharesHold
<1>3. /\ made = 0 /\ at = [t \in 1..NUM_THREADS |-> "start"] /\ next = [t \in 1..NUM_THREADS |-> 1]
      /\ read = [t \in 1..NUM_THREADS |-> 0] /\ counts = [k \in Sort!Slots |-> 0]
      /\ entries = input /\ result = ""
  BY DEF Sort!Init, Sort!Thread
<1>4. CountGood(Sort!N, Sort!num_threads, StartFn, Keyed, Sort!Slots, made, at, next, read, counts)
  BY <1>2, <1>3, CountStarts
<1> QED
  BY <1>1, <1>3, <1>4 DEF CountInv

\* A thread that has entries left counts what was read.
LEMMA ThreadAtWork ==
  ASSUME Sort!SortAssumption, SortInput, CountInv, NEW t \in Sort!Thread, t <= made, at[t] # "done"
  PROVE  /\ Sort!CountSort /\ result = "" /\ entries = input /\ t \in 1..NUM_THREADS
         /\ Sort!End(t) = StartFn[t + 1]
         /\ next[t] < Sort!End(t) => /\ next[t] \in 1..Sort!N
                                     /\ Sort!CountKey(entries[next[t]].key) = Keyed[next[t]]
         /\ DOMAIN counts = Sort!Slots
<1>1. /\ CountGood(Sort!N, Sort!num_threads, StartFn, Keyed, Sort!Slots, made, at, next, read, counts)
      /\ Shares(Sort!N, Sort!num_threads, StartFn, Keyed)
  BY SharesHold DEF CountInv
<1>2. /\ t \in 1..NUM_THREADS /\ made \in 0..Sort!num_threads /\ Sort!num_threads \in Nat /\ Sort!N \in Nat
      /\ t + 1 \in 1..(Sort!num_threads + 1) /\ t \in 1..made
      /\ next[t] \in 1..(Sort!N + 1) /\ DOMAIN counts = Sort!Slots
  <2>1. /\ made \in 0..Sort!num_threads /\ next \in [1..NUM_THREADS -> 1..(Sort!N + 1)]
        /\ counts \in [Sort!Slots -> 0..Sort!N] /\ t \in 1..NUM_THREADS
    BY <1>1 DEF CountGood, ThreadTypes, Sort!Thread
  <2>2. Sort!num_threads \in Nat /\ NUM_THREADS \in Nat /\ Sort!N \in Nat
    BY SortThreads, InputIs DEF Sort!SortAssumption
  <2>3. PICK m \in Nat : m = Sort!num_threads
    BY <2>2
  <2>4. t \in Nat /\ made \in 0..m /\ t \in 1..made /\ t + 1 \in 1..(m + 1)
    BY <2>1, <2>2, <2>3
  <2> QED
    BY <2>1, <2>2, <2>3, <2>4
<1>3. Sort!CountSort
  <2>1. made # 0
    BY <1>2
  <2> QED
    BY <2>1 DEF CountInv
<1>4. result = "" /\ entries = input
  BY <1>2, <1>3 DEF CountInv, Sort!AllCounted
<1>5. Sort!End(t) = StartFn[t + 1] /\ StartFn[t + 1] \in 1..(Sort!N + 1)
  BY <1>1, <1>2 DEF Sort!End, StartFn, Shares
<1>6. next[t] < Sort!End(t) => next[t] \in 1..Sort!N
  BY <1>2, <1>5
<1> QED
  BY <1>2, <1>3, <1>4, <1>5, <1>6, KeyedIs

LEMMA CountGoesOn ==
  ASSUME column' = column, input' = input, Sort!CountSort, result' = "", entries' = input,
         CountGood(Sort!N, Sort!num_threads, StartFn, Keyed, Sort!Slots, made', at', next', read', counts')
  PROVE  CountInv' /\ SortInput' <=> SortInput
BY SortFixed DEF CountInv

LEMMA CreateCounts ==
  ASSUME Sort!SortAssumption, SortInput, CountInv, Sort!Create PROVE CountInv'
<1>1. /\ Sort!CountSort /\ result = "" /\ made < Sort!num_threads /\ entries = input
      /\ made' = made + 1 /\ next' = [next EXCEPT ![made + 1] = Sort!Start(made + 1)]
      /\ UNCHANGED <<column, entries, input, at, read, counts, result>>
  BY DEF Sort!Create, Sort!MayCreate, CountInv
<1>2. /\ CountGood(Sort!N, Sort!num_threads, StartFn, Keyed, Sort!Slots, made, at, next, read, counts)
      /\ Shares(Sort!N, Sort!num_threads, StartFn, Keyed)
  BY SharesHold DEF CountInv
<1>3. Sort!Start(made + 1) = StartFn[made + 1]
  <2>1. made + 1 \in 1..(Sort!num_threads + 1)
    <3>1. made \in 0..Sort!num_threads /\ Sort!num_threads \in Nat
      BY <1>2, SortThreads DEF CountGood, ThreadTypes
    <3>2. PICK m \in Nat : m = Sort!num_threads
      BY <3>1
    <3>3. made \in 0..m
      BY <3>1, <3>2
    <3>4. made + 1 \in 1..(m + 1)
      BY <3>3
    <3> QED
      BY <3>2, <3>4
  <2> QED
    BY <2>1 DEF StartFn
<1>4. CountGood(Sort!N, Sort!num_threads, StartFn, Keyed, Sort!Slots, made + 1, at,
                [next EXCEPT ![made + 1] = StartFn[made + 1]], read, counts)
  BY <1>1, <1>2, ThreadMade
<1>5. CountGood(Sort!N, Sort!num_threads, StartFn, Keyed, Sort!Slots, made', at', next', read', counts')
  BY <1>1, <1>3, <1>4
<1> QED
  BY <1>1, <1>5, CountGoesOn

LEMMA LockCounts ==
  ASSUME Sort!SortAssumption, SortInput, CountInv, NEW t \in Sort!Thread, Sort!Lock(t) PROVE CountInv'
<1>1. /\ at[t] = "start" /\ t <= made /\ next[t] < Sort!End(t)
      /\ Sort!CountKey(entries[next[t]].key) \in DOMAIN counts /\ ~Sort!Locked
      /\ at' = [at EXCEPT ![t] = "locked"]
      /\ read' = [read EXCEPT ![t] = counts[Sort!CountKey(entries[next[t]].key)]]
      /\ UNCHANGED <<column, entries, input, made, next, counts, result>>
  BY DEF Sort!Lock, Sort!LockWhen, Sort!MayLock, Sort!Counts
<1>2. /\ Sort!CountSort /\ result = "" /\ entries = input /\ t \in 1..NUM_THREADS
      /\ Sort!End(t) = StartFn[t + 1] /\ Sort!CountKey(entries[next[t]].key) = Keyed[next[t]]
      /\ DOMAIN counts = Sort!Slots
  BY <1>1, ThreadAtWork
<1>3. /\ CountGood(Sort!N, Sort!num_threads, StartFn, Keyed, Sort!Slots, made, at, next, read, counts)
      /\ Shares(Sort!N, Sort!num_threads, StartFn, Keyed)
  BY SharesHold DEF CountInv
<1>4. \A u \in 1..NUM_THREADS : at[u] # "locked"
  BY <1>1 DEF Sort!Locked, Sort!Thread
<1>5. next[t] < StartFn[t + 1] /\ Keyed[next[t]] \in Sort!Slots
  BY <1>1, <1>2
<1>6. CountGood(Sort!N, Sort!num_threads, StartFn, Keyed, Sort!Slots, made, [at EXCEPT ![t] = "locked"], next,
                [read EXCEPT ![t] = counts[Keyed[next[t]]]], counts)
  BY <1>1, <1>2, <1>3, <1>4, <1>5, ThreadLocks
<1>7. CountGood(Sort!N, Sort!num_threads, StartFn, Keyed, Sort!Slots, made', at', next', read', counts')
  BY <1>1, <1>2, <1>6
<1> QED
  BY <1>1, <1>2, <1>7, CountGoesOn

LEMMA CountCounts ==
  ASSUME Sort!SortAssumption, SortInput, CountInv, NEW t \in Sort!Thread, Sort!Count(t) PROVE CountInv'
<1>1. /\ at[t] = "locked" /\ at' = [at EXCEPT ![t] = "start"]
      /\ counts' = [counts EXCEPT ![Sort!CountKey(entries[next[t]].key)] = read[t] + 1]
      /\ next' = [next EXCEPT ![t] = @ + 1] /\ read' = [read EXCEPT ![t] = 0]
      /\ UNCHANGED <<column, entries, input, made, result>>
  BY DEF Sort!Count
<1>2. /\ CountGood(Sort!N, Sort!num_threads, StartFn, Keyed, Sort!Slots, made, at, next, read, counts)
      /\ Shares(Sort!N, Sort!num_threads, StartFn, Keyed) /\ t \in 1..NUM_THREADS
  BY SharesHold DEF CountInv, Sort!Thread
<1>3. t <= made /\ t \in 1..made
  <2>1. ~(t > made) /\ made \in Nat
    BY <1>1, <1>2, SortThreads DEF CountGood, ThreadTypes
  <2> QED
    BY <1>2, <2>1
<1>4. Sort!CountSort /\ result = "" /\ entries = input /\ Sort!End(t) = StartFn[t + 1]
  BY <1>1, <1>3, ThreadAtWork
<1>5. next[t] < Sort!End(t)
  BY <1>1, <1>2, <1>3, <1>4 DEF CountGood
<1>6. Sort!CountKey(entries[next[t]].key) = Keyed[next[t]]
  BY <1>1, <1>3, <1>5, ThreadAtWork
<1>7. CountGood(Sort!N, Sort!num_threads, StartFn, Keyed, Sort!Slots, made, [at EXCEPT ![t] = "start"],
                [next EXCEPT ![t] = @ + 1], [read EXCEPT ![t] = 0], [counts EXCEPT ![Keyed[next[t]]] = read[t] + 1])
  BY <1>1, <1>2, ThreadCounts
<1>8. CountGood(Sort!N, Sort!num_threads, StartFn, Keyed, Sort!Slots, made', at', next', read', counts')
  BY <1>1, <1>6, <1>7
<1> QED
  BY <1>1, <1>4, <1>8, CountGoesOn

LEMMA SkipCounts ==
  ASSUME Sort!SortAssumption, SortInput, CountInv, NEW t \in Sort!Thread, Sort!Skip(t) PROVE CountInv'
<1>1. /\ at[t] = "start" /\ t <= made /\ ~Sort!Counts(t)
      /\ UNCHANGED <<column, entries, input, made, read, counts, result>>
  BY DEF Sort!Skip, Sort!MaySkip
<1>2. /\ Sort!CountSort /\ result = "" /\ entries = input /\ t \in 1..NUM_THREADS
      /\ Sort!End(t) = StartFn[t + 1] /\ DOMAIN counts = Sort!Slots
  BY <1>1, ThreadAtWork, ZenonT(40)
<1>3. /\ CountGood(Sort!N, Sort!num_threads, StartFn, Keyed, Sort!Slots, made, at, next, read, counts)
      /\ Shares(Sort!N, Sort!num_threads, StartFn, Keyed)
  BY SharesHold DEF CountInv
<1>4. CASE next[t] < Sort!End(t)
  <2>1. Sort!CountKey(entries[next[t]].key) = Keyed[next[t]]
    BY <1>1, <1>4, ThreadAtWork
  <2>2. Keyed[next[t]] \notin Sort!Slots /\ next[t] < StartFn[t + 1]
    BY <2>1, <1>1, <1>2, <1>4 DEF Sort!Counts
  <2>3. next' = [next EXCEPT ![t] = @ + 1] /\ at' = at
    BY <1>4 DEF Sort!Skip
  <2>4. CountGood(Sort!N, Sort!num_threads, StartFn, Keyed, Sort!Slots, made, at,
                  [next EXCEPT ![t] = @ + 1], read, counts)
    BY <1>1, <1>2, <1>3, <2>2, ThreadSkips
  <2>5. CountGood(Sort!N, Sort!num_threads, StartFn, Keyed, Sort!Slots, made', at', next', read', counts')
    BY <1>1, <2>3, <2>4, SMTT(30)
  <2> QED
    BY <1>1, <1>2, <2>5, CountGoesOn
<1>5. CASE ~(next[t] < Sort!End(t))
  <2>1. ~(next[t] < StartFn[t + 1])
    BY <1>2, <1>5
  <2>2. at' = [at EXCEPT ![t] = "done"] /\ next' = next
    BY <1>5 DEF Sort!Skip
  <2>3. CountGood(Sort!N, Sort!num_threads, StartFn, Keyed, Sort!Slots, made, [at EXCEPT ![t] = "done"],
                  next, read, counts)
    BY <1>1, <1>2, <1>3, <2>1, ThreadEnds
  <2>4. CountGood(Sort!N, Sort!num_threads, StartFn, Keyed, Sort!Slots, made', at', next', read', counts')
    BY <1>1, <2>2, <2>3
  <2> QED
    BY <1>1, <1>2, <2>4, CountGoesOn
<1> QED
  BY <1>4, <1>5


\* The entries that are placed by the cumulated counts.
LEMMA PlacesAre ==
  ASSUME Sort!SortAssumption, SortInput, entries = input, AllCount(Sort!N, Keyed, Sort!Slots, counts),
         counts \in [Sort!Slots -> 0..Sort!N], \A x \in 1..Sort!N : Keyed[x] \in Sort!Slots,
         NEW y \in 1..Sort!N
  PROVE  Sort!Place(y) = Cardinality(Earlier(Sort!N, Keyed, y)) + 1
<1>1. Sort!N \in Nat /\ \A x \in 1..Sort!N : Keyed[x] = Sort!CountKey(entries[x].key) /\ Keyed[x] \in Int
  BY InputIs, KeyedIs
<1>2. IsFiniteSet(Sort!Slots) /\ Sort!Slots \subseteq Int
  BY SlotsAre
<1>3. PICK n, D, K, cs : n = Sort!N /\ D = Sort!Slots /\ K = Keyed /\ cs = counts
  BY <1>1
<1>4. /\ n \in Nat /\ \A x \in 1..n : K[x] \in Int /\ K[x] \in D
      /\ IsFiniteSet(D) /\ D \subseteq Int /\ AllCount(n, K, D, cs) /\ y \in 1..n /\ DOMAIN counts = D
  BY <1>1, <1>2, <1>3
<1>5. Total(cs, UpToKey(D, K[y])) = Cardinality(UpTo(n, K, K[y]))
  <2>1. K[y] \in Int
    BY <1>4
  <2> QED
    BY <2>1, <1>4, CumulatedCounts
<1>6. Sort!Upto(K[y]) = Cardinality(UpTo(n, K, K[y]))
  <2>1. \A f, S : Sort!Total(f, S) = Total(f, S)
    BY DEF Sort!Total, Total, Sort!Things, Things, Sort!Cardinality, Cardinality
  <2>2. Sort!Upto(K[y]) = Sort!Total(cs, UpToKey(D, K[y]))
    BY <1>3, <1>4 DEF Sort!Upto, UpToKey
  <2> QED
    BY <2>1, <2>2, <1>5
<1>7. Sort!Same(y) = {x \in y..n : K[x] = K[y]}
  <2>1. \A x \in y..n : x \in 1..n
    BY <1>4
  <2> QED
    BY <2>1, <1>1, <1>3, <1>4 DEF Sort!Same
<1>8. Sort!CountKey(entries[y].key) = K[y]
  BY <1>1, <1>3
<1>9. \A S : Sort!Cardinality(S) = Cardinality(S)
  BY DEF Sort!Cardinality, Cardinality
<1>10. Sort!Place(y) = Cardinality({x \in 1..n : K[x] <= K[y]}) - Cardinality({x \in y..n : K[x] = K[y]}) + 1
  BY <1>6, <1>7, <1>8, <1>9 DEF Sort!Place, UpTo
<1> QED
  BY <1>3, <1>4, <1>10, PlaceCounts, SMTT(30)

LEMMA FromCountsInOrder ==
  ASSUME Sort!SortAssumption, SortInput, entries = input, AllCount(Sort!N, Keyed, Sort!Slots, counts),
         counts \in [Sort!Slots -> 0..Sort!N], \A x \in 1..Sort!N : Keyed[x] \in Sort!Slots
  PROVE  InOrder(Sort!N, input, Keyed, Sort!FromCounts)
<1>1. Sort!N \in Nat /\ \A x \in 1..Sort!N : Keyed[x] \in Int /\ input[x].n = x
  BY InputIs, KeyedIs
<1>2. PICK n, K, inp, out : n = Sort!N /\ K = Keyed /\ inp = input /\ out = Sort!FromCounts
  BY <1>1
<1>3. PICK r : r = PlaceFn(n, K)
  OBVIOUS
<1>4. /\ r \in [1..n -> 1..n]
      /\ \A x, y \in 1..n : GoesFirst(K, x, y) => r[x] < r[y]
      /\ \A x, y \in 1..n : r[x] = r[y] => x = y
      /\ \A p \in 1..n : \E x \in 1..n : r[x] = p
  <2>1. n \in Nat /\ \A x \in 1..n : K[x] \in Int
    BY <1>1, <1>2
  <2>2. IsPlacing(n, K, r)
    BY <2>1, <1>3, EveryPlaceIsTaken
  <2> QED
    BY <2>2 DEF IsPlacing
<1>5. \A y \in 1..n : Sort!Place(y) = r[y]
  BY <1>2, <1>3, PlacesAre DEF PlaceFn
<1>6. ASSUME NEW x \in 1..n PROVE out[r[x]] = inp[x]
  <2>1. Sort!Placed(r[x]) = {x}
    BY <1>2, <1>4, <1>5 DEF Sort!Placed
  <2>2. Sort!Min({x}) = x
    <3>1. x <= x
      OBVIOUS
    <3> QED
      BY <3>1 DEF Sort!Min
  <2>3. r[x] \in 1..Sort!N /\ Sort!Placed(r[x]) # {}
    BY <2>1, <1>2, <1>4
  <2>4. Sort!FromCounts[r[x]] = entries[Sort!Min(Sort!Placed(r[x]))]
    BY <2>3 DEF Sort!FromCounts
  <2> QED
    BY <1>2, <2>1, <2>2, <2>4
<1>7. DOMAIN out = 1..n /\ out = [p \in 1..n |-> out[p]]
  BY <1>2 DEF Sort!FromCounts
<1>8. \A p \in 1..n : out[p] \in {inp[x] : x \in 1..n}
  <2> TAKE p \in 1..n
  <2>1. PICK x \in 1..n : r[x] = p
    BY <1>4
  <2> QED
    BY <2>1, <1>6
<1>9. out \in [1..n -> {inp[x] : x \in 1..n}]
  BY <1>7, <1>8
<1>10. {out[p] : p \in 1..n} = {inp[x] : x \in 1..n}
  <2>1. \A x \in 1..n : \E p \in 1..n : out[p] = inp[x]
    BY <1>4, <1>6
  <2> QED
    BY <1>8, <2>1
<1>11. ASSUME NEW p \in 1..n, NEW q \in 1..n, p < q PROVE GoesFirst(K, out[p].n, out[q].n)
  <2>1. PICK x \in 1..n, y \in 1..n : r[x] = p /\ r[y] = q
    BY <1>4
  <2>2. x # y /\ ~(r[y] < r[x])
    BY <2>1, <1>11
  <2>3. GoesFirst(K, x, y)
    BY <2>2, <1>1, <1>2, <1>4, FirstIsAnOrder
  <2>4. out[p] = inp[x] /\ out[q] = inp[y] /\ inp[x].n = x /\ inp[y].n = y
    BY <2>1, <1>1, <1>2, <1>6
  <2> QED
    BY <2>3, <2>4
<1>12. InOrder(n, inp, K, out)
  BY <1>9, <1>10, <1>11 DEF InOrder
<1> QED
  BY <1>2, <1>12

LEMMA BubbledInOrder ==
  ASSUME Sort!SortAssumption, SortInput, entries = input, column = "Timestamp"
  PROVE  InOrder(Sort!N, input, Keyed, Sort!Bubbled)
<1>1. /\ Sort!N \in Nat \ {0}
      /\ \A x \in 1..Sort!N : /\ Keyed[x] \in Int /\ input[x].n = x
                              /\ Keyed[x] = Sort!Bucket(input[x].key)
  BY InputIs, KeyedIs DEF Sort!CountKey
<1>2. PICK n, K, inp : n = Sort!N /\ K = Keyed /\ inp = input
  BY <1>1
<1>3. PICK E : E = {inp[x] : x \in 1..n}
  OBVIOUS
<1>n. n \in Nat /\ n \in Nat \ {0}
  BY <1>1, <1>2
<1>4. \A x \in 1..n : inp[x].n = x /\ V(inp[x]) = K[x] /\ K[x] \in Int
  BY <1>1, <1>2 DEF V
<1>5. Stamped(E)
  BY <1>3, <1>4 DEF Stamped
<1>6. OrderedFrom(n, E, inp, n)
  <2>1. inp \in [1..n -> E]
    BY <1>2, <1>3, InputIs DEF Originals
  <2>2. \A x \in 1..n, y \in 1..n : ~(y > n) /\ (x < y => inp[x].n < inp[y].n)
    BY <1>4, <1>n
  <2> QED
    BY <2>1, <2>2, <1>3 DEF OrderedFrom
<1>7. PICK out : out = Sort!Bubbled
  OBVIOUS
<1>8. OrderedFrom(n, E, out, 1)
  <2>1. OrderedFrom(Sort!N, E, entries, Sort!N)
    BY <1>2, <1>6
  <2>2. OrderedFrom(Sort!N, E, Sort!Bubbled, 1)
    BY <2>1, <1>1, <1>5, BubbledOrders
  <2> QED
    BY <2>2, <1>2, <1>7
<1>9. out \in [1..n -> E] /\ {out[x] : x \in 1..n} = E
  BY <1>8 DEF OrderedFrom
<1>10. \A e \in E : e.n \in 1..n /\ V(e) = K[e.n] /\ K[e.n] \in Int
  BY <1>3, <1>4
<1>11. ASSUME NEW x \in 1..n, NEW y \in 1..n, x < y PROVE GoesFirst(K, out[x].n, out[y].n)
  <2>1. V(out[x]) <= V(out[y]) /\ (V(out[x]) = V(out[y]) => out[x].n < out[y].n)
    <3>1. y > 1
      BY <1>11
    <3> QED
      BY <3>1, <1>8, <1>11 DEF OrderedFrom
  <2>2. /\ V(out[x]) = K[out[x].n] /\ V(out[y]) = K[out[y].n]
        /\ K[out[x].n] \in Int /\ K[out[y].n] \in Int
    BY <1>9, <1>10
  <2> QED
    BY <2>1, <2>2 DEF GoesFirst
<1>12. InOrder(n, inp, K, out)
  BY <1>3, <1>9, <1>11 DEF InOrder
<1> QED
  BY <1>2, <1>7, <1>12


LEMMA MadeIs ==
  ASSUME Sort!SortAssumption, SortInput, CountInv
  PROVE  /\ made \in Nat /\ made \in 0..NUM_THREADS /\ (made < Sort!num_threads \/ made = Sort!num_threads)
         /\ \A t \in 1..made : t \in Sort!Thread /\ t <= made
         /\ \A t \in Sort!Thread : t \in 1..NUM_THREADS /\ (t <= made \/ t > made)
<1>1. made \in 0..Sort!num_threads
  BY DEF CountInv, CountGood, ThreadTypes
<1>2. Sort!num_threads \in 1..NUM_THREADS /\ NUM_THREADS \in Nat
  BY SortThreads DEF Sort!SortAssumption
<1>3. PICK m \in 1..NUM_THREADS : m = Sort!num_threads
  BY <1>2
<1>4. made \in 0..m
  BY <1>1, <1>3
<1>5. /\ made \in Nat /\ made \in 0..NUM_THREADS /\ (made < m \/ made = m)
      /\ \A t \in 1..made : t \in 1..NUM_THREADS /\ t <= made
      /\ \A t \in 1..NUM_THREADS : t <= made \/ t > made
  BY <1>2, <1>3, <1>4
<1> QED
  BY <1>3, <1>5 DEF Sort!Thread

LEMMA BuildCounts ==
  ASSUME Sort!SortAssumption, SortInput, CountInv, Sort!Build PROVE CountInv'
<1>1. /\ Sort!CountSort /\ result = "" /\ made = Sort!num_threads /\ Sort!AllCounted /\ entries = input
      /\ UNCHANGED <<column, input, made, at, next, read, counts>>
  BY DEF Sort!Build, Sort!MayBuild, Sort!counting, CountInv
<1>2. /\ CountGood(Sort!N, Sort!num_threads, StartFn, Keyed, Sort!Slots, made, at, next, read, counts)
      /\ Shares(Sort!N, Sort!num_threads, StartFn, Keyed)
  BY SharesHold DEF CountInv
<1>3. AllCount(Sort!N, Keyed, Sort!Slots, counts)
  <2>1. \A t \in 1..Sort!num_threads : at[t] = "done"
    BY <1>1 DEF Sort!AllCounted
  <2> QED
    BY <1>1, <1>2, <2>1, ThreadsCountAll
<1>4. counts \in [Sort!Slots -> 0..Sort!N]
  BY <1>2 DEF CountGood, ThreadTypes
<1>5. /\ result' \in {"success", "undefined"}
      /\ result' = "success" => InOrder(Sort!N, input, Keyed, entries')
      /\ result' # "success" => entries' = input
  <2>1. CASE \A x \in 1..Sort!N : Sort!InArray(entries[x].key)
    <3>1. result' = "success" /\ entries' = IF column = "Timestamp" THEN Sort!Bubbled ELSE Sort!FromCounts
      BY <2>1 DEF Sort!Build
    <3>2. CASE column = "Timestamp"
      BY <3>1, <3>2, <1>1, BubbledInOrder
    <3>3. CASE column # "Timestamp"
      <4>1. \A x \in 1..Sort!N : Keyed[x] \in Sort!Slots
        BY <2>1, <3>3, <1>1, SlotsAre
      <4> QED
        BY <3>1, <3>3, <4>1, <1>1, <1>3, <1>4, FromCountsInOrder
    <3> QED
      BY <3>2, <3>3
  <2>2. CASE ~(\A x \in 1..Sort!N : Sort!InArray(entries[x].key))
    BY <2>2, <1>1 DEF Sort!Build
  <2> QED
    BY <2>1, <2>2
<1>6. Sort!AllCounted'
  BY <1>1 DEF Sort!AllCounted
<1>7. CountGood(Sort!N, Sort!num_threads, StartFn, Keyed, Sort!Slots, made', at', next', read', counts')
  BY <1>1, <1>2
<1> QED
  BY <1>1, <1>5, <1>6, <1>7, SortFixed DEF CountInv

LEMMA CreateFailsCounts ==
  ASSUME Sort!SortAssumption, SortInput, CountInv, Sort!CreateFails PROVE CountInv'
<1>1. /\ Sort!CountSort /\ result = "" /\ Sort!AllCounted /\ entries = input /\ result' = "error"
      /\ UNCHANGED <<column, entries, input, made, at, next, read, counts>>
  BY DEF Sort!CreateFails, Sort!MayCreate, Sort!counting, CountInv
<1>2. Sort!AllCounted'
  BY <1>1 DEF Sort!AllCounted
<1>3. CountGood(Sort!N, Sort!num_threads, StartFn, Keyed, Sort!Slots, made', at', next', read', counts')
  BY <1>1 DEF CountInv
<1> QED
  BY <1>1, <1>2, <1>3, SortFixed DEF CountInv

\* A merge sort leaves the threads of the count sort alone.
LEMMA MergeKeepsCounts ==
  ASSUME CountInv, ~Sort!CountSort, UNCHANGED <<column, input, Sort!counting>> PROVE CountInv'
<1>1. CountGood(Sort!N, Sort!num_threads, StartFn, Keyed, Sort!Slots, made', at', next', read', counts')
  BY DEF CountInv, Sort!counting
<1>2. made' = made /\ column' = column /\ input' = input
  BY DEF Sort!counting
<1> QED
  BY <1>1, <1>2, SortFixed DEF CountInv

CountStep ==
  \/ Sort!Create \/ Sort!CreateFails \/ Sort!Build
  \/ \E t \in Sort!Thread : Sort!Lock(t) \/ Sort!Count(t) \/ Sort!Skip(t)

LEMMA CountStepIs ==
  ASSUME Sort!SortAssumption, SortInput, CountInv, CountStep
  PROVE  CountInv' /\ Sort!CountSort /\ UNCHANGED <<column, input, segment, halves>>
<1>1. CASE Sort!Create
  BY <1>1, CreateCounts DEF Sort!Create, Sort!MayCreate, Sort!merging
<1>2. CASE Sort!CreateFails
  BY <1>2, CreateFailsCounts DEF Sort!CreateFails, Sort!MayCreate, Sort!merging
<1>3. CASE Sort!Build
  BY <1>3, BuildCounts DEF Sort!Build, Sort!MayBuild, Sort!merging
<1>4. ASSUME NEW t \in Sort!Thread, Sort!Lock(t)
      PROVE  CountInv' /\ Sort!CountSort /\ UNCHANGED <<column, input, segment, halves>>
  <2>1. at[t] # "done" /\ t <= made
    BY <1>4 DEF Sort!Lock, Sort!LockWhen, Sort!MayLock, Sort!Counts
  <2> QED
    BY <1>4, <2>1, LockCounts, ThreadAtWork DEF Sort!Lock, Sort!LockWhen, Sort!merging
<1>5. ASSUME NEW t \in Sort!Thread, Sort!Count(t)
      PROVE  CountInv' /\ Sort!CountSort /\ UNCHANGED <<column, input, segment, halves>>
  <2>1. at[t] = "locked"
    BY <1>5 DEF Sort!Count
  <2>2. ~(t > made)
    BY <2>1, MadeIs DEF CountInv, CountGood
  <2>3. t <= made
    BY <2>2, MadeIs
  <2> QED
    BY <1>5, <2>1, <2>3, CountCounts, ThreadAtWork DEF Sort!Count, Sort!merging
<1>6. ASSUME NEW t \in Sort!Thread, Sort!Skip(t)
      PROVE  CountInv' /\ Sort!CountSort /\ UNCHANGED <<column, input, segment, halves>>
  <2>1. at[t] # "done" /\ t <= made
    BY <1>6 DEF Sort!Skip, Sort!MaySkip
  <2> QED
    BY <1>6, <2>1, SkipCounts, ThreadAtWork DEF Sort!Skip, Sort!merging
<1> QED
  BY <1>1, <1>2, <1>3, <1>4, <1>5, <1>6 DEF CountStep

LEMMA CountSorts ==
  ASSUME Sort!SortAssumption, SortInput, CountInv, Sort!CountSort, result = "success"
  PROVE  Sort!IsSort(entries, input, Sort!CountLeq)
<1>1. InOrder(Sort!N, input, Keyed, entries)
  BY DEF CountInv
<1>2. PICK n, inp, out, K : n = Sort!N /\ inp = input /\ out = entries /\ K = Keyed
  OBVIOUS
<1>3. /\ n \in Nat /\ inp \in [1..n -> Originals] /\ Len(inp) = n
      /\ \A x \in 1..n : /\ inp[x].n = x /\ K[x] \in Int /\ K[x] = Sort!CountKey(inp[x].key)
  BY <1>2, InputIs, KeyedIs DEF Sort!N
<1>4. /\ out \in [1..n -> {inp[x] : x \in 1..n}] /\ {out[x] : x \in 1..n} = {inp[x] : x \in 1..n}
      /\ \A x \in 1..n, y \in 1..n : x < y => GoesFirst(K, out[x].n, out[y].n)
  BY <1>1, <1>2 DEF InOrder
<1>5. \A x \in 1..n : out[x].n \in 1..n /\ K[out[x].n] \in Int /\ K[out[x].n] = Sort!CountKey(out[x].key)
  <2> TAKE x \in 1..n
  <2>1. PICK y \in 1..n : out[x] = inp[y]
    BY <1>4
  <2> QED
    BY <2>1, <1>3
<1>6. DOMAIN out = 1..n /\ DOMAIN inp = 1..n
  BY <1>3, <1>4
<1>7. Sort!ToSet(out) = Sort!ToSet(inp)
  BY <1>4, <1>6 DEF Sort!ToSet
<1>8. Len(out) = Len(inp)
  <2>1. out \in Seq({inp[x] : x \in 1..n}) /\ Len(out) = n
    BY <1>3, <1>4, SMTT(30)
  <2> QED
    BY <2>1, <1>3
<1>9. ASSUME NEW x \in 1..n, NEW y \in 1..n, x < y
      PROVE  /\ Sort!CountLeq(out[x].key, out[y].key)
             /\ Sort!CountLeq(out[y].key, out[x].key) => out[x].n < out[y].n
  <2>1. GoesFirst(K, out[x].n, out[y].n)
    BY <1>4, <1>9
  <2> QED
    BY <2>1, <1>5 DEF GoesFirst, Sort!CountLeq
<1> QED
  BY <1>2, <1>6, <1>7, <1>8, <1>9 DEF Sort!IsSort

LEMMA CountRuns ==
  ASSUME Sort!SortAssumption, SortInput, CountInv, Sort!CountSort, result = ""
  PROVE  \/ Sort!MayCreate \/ Sort!MayBuild
         \/ \E t \in Sort!Thread : at[t] = "locked" \/ Sort!MayLock(t, ~Sort!Locked) \/ Sort!MaySkip(t)
<1>2. at \in [1..NUM_THREADS -> {"start", "locked", "done"}]
  BY DEF CountInv, CountGood, ThreadTypes
<1>3. CASE made < Sort!num_threads
  BY <1>3 DEF Sort!MayCreate
<1>4. CASE ~(made < Sort!num_threads) /\ Sort!AllCounted
  <2>1. made = Sort!num_threads
    BY <1>4, MadeIs
  <2> QED
    BY <1>4, <2>1 DEF Sort!MayBuild
<1>5. CASE ~Sort!AllCounted
  <2>1. PICK t \in 1..made : at[t] # "done"
    BY <1>5 DEF Sort!AllCounted
  <2>2. t <= made /\ t \in Sort!Thread
    BY MadeIs
  <2>3. t \in 1..NUM_THREADS
    BY <2>2 DEF Sort!Thread
  <2>4. CASE Sort!Locked
    BY <2>4 DEF Sort!Locked
  <2>5. CASE ~Sort!Locked
    <3>1. at[t] = "start"
      BY <1>2, <2>1, <2>2, <2>3, <2>5 DEF Sort!Locked
    <3> QED
      BY <3>1, <2>2, <2>3, <2>5 DEF Sort!MayLock, Sort!MaySkip
  <2> QED
    BY <2>4, <2>5
<1> QED
  BY <1>3, <1>4, <1>5

CountTypes ==
  /\ made \in 0..NUM_THREADS /\ at \in [Sort!Thread -> {"start", "locked", "done"}]
  /\ \A t \in Sort!Thread : next[t] \in 1..(Sort!N + 1) /\ read[t] \in 0..Sort!N
  /\ \A k \in DOMAIN counts : counts[k] \in 0..Sort!N
  /\ Sort!CountSort => Len(entries) = Sort!N /\ result \in {"", "success", "error", "undefined"}

LEMMA CountTypesHold ==
  ASSUME Sort!SortAssumption, SortInput, CountInv PROVE CountTypes
<1>1. ThreadTypes(Sort!N, Sort!num_threads, Sort!Slots, made, at, next, read, counts)
  BY DEF CountInv, CountGood
<1>2. made \in 0..NUM_THREADS
  BY MadeIs
<1>3. Sort!CountSort => Len(entries) = Sort!N
  <2>1. CASE entries = input
    BY <2>1 DEF Sort!N
  <2>2. CASE InOrder(Sort!N, input, Keyed, entries)
    <3>1. PICK n \in Nat : n = Sort!N
      BY InputIs
    <3>2. entries \in [1..n -> {input[x] : x \in 1..n}]
      BY <2>2, <3>1 DEF InOrder
    <3> QED
      BY <3>1, <3>2
  <2> QED
    BY <2>1, <2>2 DEF CountInv
<1> QED
  BY <1>1, <1>2, <1>3 DEF CountInv, CountTypes, ThreadTypes, Sort!Thread


-----------------------------------------------------------------------------
(* The segments of merge_sort().                                           *)

Within(a, b) == b[1] <= a[1] /\ a[2] <= b[2]
Apart(a, b) == a[2] < b[1] \/ b[2] < a[1]
Half(h, s) == s[1] < s[2] /\ (h = Sort!Left(s) \/ h = Sort!Right(s))
Under(a, b) == \E h \in Sort!Segments : Half(h, b) /\ Within(a, h)
Nested(a, b) == a = b \/ Apart(a, b) \/ Under(a, b) \/ Under(b, a)

LEMMA SegmentIs ==
  ASSUME MaxFiles \in Nat, NEW s \in Sort!Segments
  PROVE  s[1] \in Int /\ s[2] \in Int /\ 1 <= s[1] /\ s[1] <= s[2] /\ s[2] <= MaxFiles /\ s = <<s[1], s[2]>>
BY DEF Sort!Segments

LEMMA HalvesAre ==
  ASSUME MaxFiles \in Nat, NEW s \in Sort!Segments, s[1] < s[2]
  PROVE  /\ Sort!Mid(s) \in Int /\ s[1] <= Sort!Mid(s) /\ Sort!Mid(s) < s[2]
         /\ Sort!Left(s) \in Sort!Segments /\ Sort!Left(s)[1] = s[1] /\ Sort!Left(s)[2] = Sort!Mid(s)
         /\ Sort!Right(s) \in Sort!Segments /\ Sort!Right(s)[1] = Sort!Mid(s) + 1 /\ Sort!Right(s)[2] = s[2]
<1>1. s[1] \in Int /\ s[2] \in Int /\ 1 <= s[1] /\ s[2] <= MaxFiles
  BY SegmentIs
<1>2. Sort!Mid(s) \in Int /\ s[1] <= Sort!Mid(s) /\ Sort!Mid(s) < s[2]
  <2>1. PICK a \in Int, b \in Int : a = s[1] /\ b = s[2]
    BY <1>1
  <2>2. a + ((b - a) \div 2) \in Int /\ a <= a + ((b - a) \div 2) /\ a + ((b - a) \div 2) < b
    BY <2>1
  <2> QED
    BY <2>1, <2>2 DEF Sort!Mid
<1>3. s[1] \in 1..MaxFiles /\ Sort!Mid(s) \in 1..MaxFiles /\ Sort!Mid(s) + 1 \in 1..MaxFiles /\ s[2] \in 1..MaxFiles
  BY <1>1, <1>2
<1>4. Sort!Left(s) = <<s[1], Sort!Mid(s)>> /\ Sort!Right(s) = <<Sort!Mid(s) + 1, s[2]>>
  BY DEF Sort!Left, Sort!Right
<1>5. Sort!Mid(s) + 1 <= s[2]
  BY <1>1, <1>2
<1> QED
  BY <1>2, <1>3, <1>4, <1>5 DEF Sort!Segments

LEMMA HalfIs ==
  ASSUME MaxFiles \in Nat, NEW s \in Sort!Segments, NEW h, Half(h, s)
  PROVE  h \in Sort!Segments /\ Within(h, s) /\ ~Within(s, h) /\ h # s
<1>1. s[1] \in Int /\ s[2] \in Int
  BY SegmentIs
<1>2. /\ Sort!Mid(s) \in Int /\ s[1] <= Sort!Mid(s) /\ Sort!Mid(s) < s[2]
      /\ Sort!Left(s) \in Sort!Segments /\ Sort!Left(s)[1] = s[1] /\ Sort!Left(s)[2] = Sort!Mid(s)
      /\ Sort!Right(s) \in Sort!Segments /\ Sort!Right(s)[1] = Sort!Mid(s) + 1 /\ Sort!Right(s)[2] = s[2]
  BY HalvesAre DEF Half
<1>3. CASE h = Sort!Left(s)
  BY <1>1, <1>2, <1>3 DEF Within
<1>4. CASE h = Sort!Right(s)
  BY <1>1, <1>2, <1>4 DEF Within
<1> QED
  BY <1>3, <1>4 DEF Half

LEMMA TwoHalves ==
  ASSUME MaxFiles \in Nat, NEW s \in Sort!Segments, NEW h, NEW k, Half(h, s), Half(k, s), h # k
  PROVE  Apart(h, k)
<1>1. /\ Sort!Mid(s) \in Int /\ s[1] <= Sort!Mid(s) /\ Sort!Mid(s) < s[2]
      /\ Sort!Left(s) \in Sort!Segments /\ Sort!Left(s)[1] = s[1] /\ Sort!Left(s)[2] = Sort!Mid(s)
      /\ Sort!Right(s) \in Sort!Segments /\ Sort!Right(s)[1] = Sort!Mid(s) + 1 /\ Sort!Right(s)[2] = s[2]
  BY HalvesAre DEF Half
<1>2. (h = Sort!Left(s) /\ k = Sort!Right(s)) \/ (k = Sort!Left(s) /\ h = Sort!Right(s))
  BY DEF Half
<1>3. h[2] < k[1] \/ k[2] < h[1]
  BY <1>1, <1>2
<1> QED
  BY <1>3 DEF Apart

LEMMA WithinIs ==
  ASSUME MaxFiles \in Nat
  PROVE  /\ \A a \in Sort!Segments : Within(a, a) /\ ~Apart(a, a)
         /\ \A a, b, c \in Sort!Segments : Within(a, b) /\ Within(b, c) => Within(a, c)
         /\ \A a, b \in Sort!Segments : Within(a, b) /\ Within(b, a) => a = b
         /\ \A a, b \in Sort!Segments : Apart(a, b) => ~Within(a, b) /\ a # b /\ Apart(b, a)
         /\ \A a, b, c \in Sort!Segments : Apart(a, b) /\ Within(c, a) => Apart(c, b)
<1>1. \A a \in Sort!Segments : a[1] \in Int /\ a[2] \in Int /\ a[1] <= a[2] /\ a = <<a[1], a[2]>>
  BY SegmentIs
<1>2. ASSUME NEW a \in Sort!Segments PROVE Within(a, a) /\ ~Apart(a, a)
  BY <1>1 DEF Within, Apart
<1>3. ASSUME NEW a \in Sort!Segments, NEW b \in Sort!Segments, NEW c \in Sort!Segments,
             Within(a, b), Within(b, c)
      PROVE  Within(a, c)
  BY <1>1, <1>3 DEF Within
<1>4. ASSUME NEW a \in Sort!Segments, NEW b \in Sort!Segments, Within(a, b), Within(b, a) PROVE a = b
  <2>1. a[1] = b[1] /\ a[2] = b[2]
    BY <1>1, <1>4 DEF Within
  <2> QED
    BY <1>1, <2>1
<1>5. ASSUME NEW a \in Sort!Segments, NEW b \in Sort!Segments, Apart(a, b)
      PROVE  ~Within(a, b) /\ a # b /\ Apart(b, a)
  BY <1>1, <1>5 DEF Within, Apart
<1>6. ASSUME NEW a \in Sort!Segments, NEW b \in Sort!Segments, NEW c \in Sort!Segments,
             Apart(a, b), Within(c, a)
      PROVE  Apart(c, b)
  BY <1>1, <1>6 DEF Within, Apart
<1> QED
  BY <1>2, <1>3, <1>4, <1>5, <1>6

\* Segments that are one inside a half of the other, the same, or apart.
Statuses == {"idle", "running", "copied", "done"}
Tree(n, sg) ==
  /\ sg \in [Sort!Segments -> Statuses]
  /\ <<1, n>> \in Sort!Segments /\ sg[<<1, n>>] # "idle"
  /\ \A s \in Sort!Segments : sg[s] # "idle" => s[2] <= n
  /\ \A a, b \in Sort!Segments : sg[a] # "idle" /\ sg[b] # "idle" => Nested(a, b)
  /\ \A p, h, a \in Sort!Segments :
       sg[p] # "idle" /\ Half(h, p) /\ sg[h] = "idle" /\ sg[a] # "idle" => ~Within(a, h)
  /\ \A a, b \in Sort!Segments : sg[b] = "done" /\ sg[a] # "idle" /\ Within(a, b) => sg[a] = "done"
  /\ \A s \in Sort!Segments :
       sg[s] = "copied" => s[1] < s[2] /\ sg[Sort!Left(s)] = "done" /\ sg[Sort!Right(s)] = "done"
  /\ \A s \in Sort!Segments :
       sg[s] # "idle" /\ s # <<1, n>> => \E p \in Sort!Segments : sg[p] # "idle" /\ Half(s, p)

\* The left half is begun first, and both together when they have threads.
InTurnAt(sg, p) ==
  sg[p] # "idle" /\ p[1] < p[2] =>
    /\ sg[Sort!Left(p)] = "idle" => sg[Sort!Right(p)] = "idle"
    /\ Sort!Threaded(p) /\ sg[Sort!Left(p)] # "idle" => sg[Sort!Right(p)] # "idle"
InTurn(sg) == \A p \in Sort!Segments : InTurnAt(sg, p)

LEMMA TreeStarts ==
  ASSUME MaxFiles \in Nat, NEW n \in 1..MaxFiles,
         NEW sg, sg = [s \in Sort!Segments |-> IF s = <<1, n>> THEN "running" ELSE "idle"]
  PROVE  Tree(n, sg) /\ InTurn(sg)
<1>1. PICK r : r = <<1, n>>
  OBVIOUS
<1>2. r \in Sort!Segments /\ r[2] = n /\ n <= n
  BY <1>1 DEF Sort!Segments
<1>3. \A s \in Sort!Segments : sg[s] = IF s = r THEN "running" ELSE "idle"
  BY <1>1
<1>4. sg \in [Sort!Segments -> Statuses]
  BY DEF Statuses
<1>5. \A p, h, a \in Sort!Segments :
        sg[p] # "idle" /\ Half(h, p) /\ sg[h] = "idle" /\ sg[a] # "idle" => ~Within(a, h)
  BY <1>3, HalfIs
<1>6. \A a, b \in Sort!Segments : sg[a] # "idle" /\ sg[b] # "idle" => Nested(a, b)
  BY <1>3 DEF Nested
<1>7. Tree(n, sg)
  BY <1>1, <1>2, <1>3, <1>4, <1>5, <1>6 DEF Tree
<1>8. InTurn(sg)
  <2> SUFFICES ASSUME NEW p \in Sort!Segments, sg[p] # "idle", p[1] < p[2]
               PROVE  sg[Sort!Left(p)] = "idle" /\ sg[Sort!Right(p)] = "idle"
    BY DEF InTurn, InTurnAt
  <2>1. Half(Sort!Left(p), p) /\ Half(Sort!Right(p), p)
    BY DEF Half
  <2> QED
    BY <2>1, <1>3, HalfIs
<1> QED
  BY <1>7, <1>8


LEMMA HalfStarts ==
  ASSUME MaxFiles \in Nat, NEW n, NEW sg, Tree(n, sg), NEW s \in Sort!Segments, sg[s] = "running",
         NEW h, Half(h, s), sg[h] = "idle"
  PROVE  Tree(n, [sg EXCEPT ![h] = "running"])
<1> DEFINE tg == [sg EXCEPT ![h] = "running"]
<1>1. h \in Sort!Segments /\ Within(h, s) /\ ~Within(s, h) /\ h # s
  BY HalfIs
<1>2. sg \in [Sort!Segments -> Statuses]
  BY DEF Tree
<1>3. /\ tg \in [Sort!Segments -> Statuses] /\ tg[h] = "running"
      /\ \A a \in Sort!Segments : a # h => tg[a] = sg[a]
  BY <1>1, <1>2 DEF Statuses
<1> HIDE DEF tg
<1>4. \A a \in Sort!Segments : tg[a] # "idle" <=> a = h \/ sg[a] # "idle"
  BY <1>3
<1>5. \A a \in Sort!Segments : sg[a] # "idle" => ~Within(a, h)
  BY <1>1 DEF Tree
<1>6. <<1, n>> \in Sort!Segments /\ tg[<<1, n>>] # "idle"
  BY <1>4 DEF Tree
<1>7. \A a \in Sort!Segments : tg[a] # "idle" => a[2] <= n
  <2>1. s[2] <= n
    BY DEF Tree
  <2>2. h[2] <= s[2]
    BY <1>1 DEF Within
  <2>3. h[2] \in Int /\ s[2] \in Int /\ n \in Int
    <3>1. <<1, n>> \in Sort!Segments /\ <<1, n>>[2] = n
      BY <1>6
    <3> QED
      BY <1>1, <3>1, SegmentIs
  <2>4. h[2] <= n
    BY <2>1, <2>2, <2>3
  <2> QED
    BY <1>4, <2>4 DEF Tree
<1>8. ASSUME NEW a \in Sort!Segments, sg[a] # "idle" PROVE Nested(h, a) /\ Nested(a, h)
  <2>1. Nested(s, a)
    BY <1>8 DEF Tree
  <2>2. CASE a = s
    BY <2>2, <1>1, WithinIs DEF Nested, Under
  <2>3. CASE Apart(s, a)
    BY <2>3, <1>1, WithinIs DEF Nested
  <2>4. CASE Under(s, a)
    BY <2>4, <1>1, WithinIs DEF Nested, Under
  <2>5. CASE Under(a, s)
    <3>1. PICK k \in Sort!Segments : Half(k, s) /\ Within(a, k)
      BY <2>5 DEF Under
    <3>2. k # h
      BY <3>1, <1>5, <1>8
    <3>3. Apart(k, h)
      BY <3>1, <3>2, TwoHalves
    <3>4. Apart(a, h) /\ Apart(h, a)
      BY <3>1, <3>3, <1>1, WithinIs
    <3> QED
      BY <3>4 DEF Nested
  <2> QED
    BY <2>1, <2>2, <2>3, <2>4, <2>5 DEF Nested
<1>9. \A a, b \in Sort!Segments : tg[a] # "idle" /\ tg[b] # "idle" => Nested(a, b)
  <2>1. Nested(h, h)
    BY DEF Nested
  <2> QED
    BY <2>1, <1>4, <1>8 DEF Tree
<1>10. ASSUME NEW p \in Sort!Segments, NEW k \in Sort!Segments, NEW a \in Sort!Segments,
              tg[p] # "idle", Half(k, p), tg[k] = "idle", tg[a] # "idle", Within(a, k)
       PROVE  FALSE
  <2>1. k # h /\ sg[k] = "idle"
    BY <1>3, <1>10
  <2>2. Within(k, p) /\ ~Within(p, k)
    BY <1>10, HalfIs
  <2>3. CASE p = h
    <3>1. CASE a = h
      BY <3>1, <2>2, <2>3, <1>10
    <3>2. CASE a # h
      <4>1. sg[a] # "idle" /\ Within(a, h)
        BY <3>2, <2>2, <2>3, <1>4, <1>10, WithinIs
      <4> QED
        BY <4>1, <1>5
    <3> QED
      BY <3>1, <3>2
  <2>4. CASE p # h
    <3>1. sg[p] # "idle"
      BY <2>4, <1>4, <1>10
    <3>2. CASE a # h
      <4>1. sg[a] # "idle"
        BY <3>2, <1>4, <1>10
      <4> QED
        BY <4>1, <3>1, <2>1, <1>10 DEF Tree
    <3>3. CASE a = h
      <4>1. Nested(s, p)
        BY <3>1 DEF Tree
      <4>2. CASE s = p
        BY <4>2, <3>3, <2>1, <1>1, <1>10, TwoHalves, WithinIs
      <4>3. CASE Apart(s, p)
        <5>1. Apart(h, p)
          BY <4>3, <1>1, WithinIs
        <5>2. Within(h, p)
          BY <3>3, <2>2, <1>1, <1>10, WithinIs
        <5> QED
          BY <5>1, <5>2, <1>1, WithinIs
      <4>4. CASE Under(s, p)
        <5>1. PICK q \in Sort!Segments : Half(q, p) /\ Within(s, q)
          BY <4>4 DEF Under
        <5>2. CASE q = k
          BY <5>1, <5>2, <3>1, <2>1, <1>10 DEF Tree
        <5>3. CASE q # k
          <6>1. Apart(q, k)
            BY <5>1, <5>3, <1>10, TwoHalves
          <6>2. Within(h, q)
            BY <5>1, <1>1, WithinIs
          <6>3. Apart(h, k)
            BY <6>1, <6>2, <1>1, WithinIs
          <6> QED
            BY <6>3, <3>3, <1>1, <1>10, WithinIs
        <5> QED
          BY <5>2, <5>3
      <4>5. CASE Under(p, s)
        <5>1. PICK q \in Sort!Segments : Half(q, s) /\ Within(p, q)
          BY <4>5 DEF Under
        <5>2. q # h
          BY <5>1, <3>1, <1>5
        <5>3. Apart(q, h)
          BY <5>1, <5>2, TwoHalves
        <5>4. Within(h, q)
          BY <5>1, <3>3, <2>2, <1>1, <1>10, WithinIs
        <5> QED
          BY <5>3, <5>4, <1>1, WithinIs
      <4> QED
        BY <4>1, <4>2, <4>3, <4>4, <4>5 DEF Nested
    <3> QED
      BY <3>2, <3>3
  <2> QED
    BY <2>3, <2>4
<1>11. ASSUME NEW b \in Sort!Segments, sg[b] = "done", Within(h, b) PROVE FALSE
  <2>1. Nested(s, b)
    BY <1>11 DEF Tree
  <2>2. CASE s = b
    BY <2>2, <1>11
  <2>3. CASE Apart(s, b)
    <3>1. Apart(h, b)
      BY <2>3, <1>1, WithinIs
    <3> QED
      BY <3>1, <1>1, <1>11, WithinIs
  <2>4. CASE Under(s, b)
    <3>1. Within(s, b)
      BY <2>4, HalfIs, WithinIs DEF Under
    <3> QED
      BY <3>1, <1>11 DEF Tree
  <2>5. CASE Under(b, s)
    <3>1. PICK q \in Sort!Segments : Half(q, s) /\ Within(b, q)
      BY <2>5 DEF Under
    <3>2. q # h
      BY <3>1, <1>5, <1>11
    <3>3. Apart(q, h)
      BY <3>1, <3>2, TwoHalves
    <3>4. Within(h, q)
      BY <3>1, <1>1, <1>11, WithinIs
    <3> QED
      BY <3>3, <3>4, <1>1, WithinIs
  <2> QED
    BY <2>1, <2>2, <2>3, <2>4, <2>5 DEF Nested
<1>12. \A a, b \in Sort!Segments : tg[b] = "done" /\ tg[a] # "idle" /\ Within(a, b) => tg[a] = "done"
  <2> TAKE a, b \in Sort!Segments
  <2> HAVE tg[b] = "done" /\ tg[a] # "idle" /\ Within(a, b)
  <2>1. sg[b] = "done"
    BY <1>3
  <2>2. a # h
    BY <2>1, <1>11
  <2>3. sg[a] # "idle"
    BY <2>2, <1>4
  <2>4. sg[a] = "done"
    BY <2>1, <2>3 DEF Tree
  <2> QED
    BY <2>2, <2>4, <1>3
<1>13. \A a \in Sort!Segments :
         tg[a] = "copied" => a[1] < a[2] /\ tg[Sort!Left(a)] = "done" /\ tg[Sort!Right(a)] = "done"
  <2> TAKE a \in Sort!Segments
  <2> HAVE tg[a] = "copied"
  <2>1. sg[a] = "copied"
    BY <1>3
  <2>2. a[1] < a[2] /\ sg[Sort!Left(a)] = "done" /\ sg[Sort!Right(a)] = "done"
    BY <2>1 DEF Tree
  <2>3. Sort!Left(a) \in Sort!Segments /\ Sort!Right(a) \in Sort!Segments
    BY <2>2, HalvesAre
  <2>4. Sort!Left(a) # h /\ Sort!Right(a) # h
    BY <2>2
  <2> QED
    BY <2>2, <2>3, <2>4, <1>3
<1>14. \A a \in Sort!Segments :
         tg[a] # "idle" /\ a # <<1, n>> => \E p \in Sort!Segments : tg[p] # "idle" /\ Half(a, p)
  <2> TAKE a \in Sort!Segments
  <2> HAVE tg[a] # "idle" /\ a # <<1, n>>
  <2>1. CASE a = h
    BY <2>1, <1>4
  <2>2. CASE a # h
    <3>1. sg[a] # "idle"
      BY <2>2, <1>4
    <3>2. PICK p \in Sort!Segments : sg[p] # "idle" /\ Half(a, p)
      BY <3>1 DEF Tree
    <3> QED
      BY <3>2, <1>4
  <2> QED
    BY <2>1, <2>2
<1>15. Tree(n, tg)
  BY <1>3, <1>6, <1>7, <1>9, <1>10, <1>12, <1>13, <1>14 DEF Tree
<1> QED
  BY <1>15 DEF tg

LEMMA SegmentCopies ==
  ASSUME MaxFiles \in Nat, NEW n, NEW sg, Tree(n, sg), NEW s \in Sort!Segments, sg[s] = "running",
         s[1] < s[2], sg[Sort!Left(s)] = "done", sg[Sort!Right(s)] = "done"
  PROVE  Tree(n, [sg EXCEPT ![s] = "copied"])
<1> DEFINE tg == [sg EXCEPT ![s] = "copied"]
<1>1. sg \in [Sort!Segments -> Statuses]
  BY DEF Tree
<1>2. /\ tg \in [Sort!Segments -> Statuses] /\ tg[s] = "copied"
      /\ \A a \in Sort!Segments : a # s => tg[a] = sg[a]
  BY <1>1 DEF Statuses
<1> HIDE DEF tg
<1>3. \A a \in Sort!Segments : (tg[a] # "idle" <=> sg[a] # "idle") /\ (tg[a] = "done" <=> sg[a] = "done")
  BY <1>2
<1>4. \A a \in Sort!Segments :
        tg[a] = "copied" => a[1] < a[2] /\ tg[Sort!Left(a)] = "done" /\ tg[Sort!Right(a)] = "done"
  <2> TAKE a \in Sort!Segments
  <2> HAVE tg[a] = "copied"
  <2>1. a[1] < a[2] /\ sg[Sort!Left(a)] = "done" /\ sg[Sort!Right(a)] = "done"
    BY <1>2 DEF Tree
  <2> QED
    BY <2>1, <1>3, HalvesAre
<1>5. <<1, n>> \in Sort!Segments /\ tg[<<1, n>>] # "idle"
  BY <1>3 DEF Tree
<1>6. \A a, b \in Sort!Segments : tg[b] = "done" /\ tg[a] # "idle" /\ Within(a, b) => tg[a] = "done"
  BY <1>3 DEF Tree
<1>7. \A a \in Sort!Segments :
        tg[a] # "idle" /\ a # <<1, n>> => \E p \in Sort!Segments : tg[p] # "idle" /\ Half(a, p)
  BY <1>3 DEF Tree
<1>8. \A p, h, a \in Sort!Segments :
        tg[p] # "idle" /\ Half(h, p) /\ tg[h] = "idle" /\ tg[a] # "idle" => ~Within(a, h)
  BY <1>3 DEF Tree
<1>9. Tree(n, tg)
  BY <1>2, <1>3, <1>4, <1>5, <1>6, <1>7, <1>8 DEF Tree
<1> QED
  BY <1>9 DEF tg

\* What a segment that is copied, or of one entry, has in it is done.
LEMMA InsideIsDone ==
  ASSUME MaxFiles \in Nat, NEW n, NEW sg, Tree(n, sg), NEW s \in Sort!Segments,
         sg[s] = "copied" \/ (sg[s] = "running" /\ s[1] = s[2]),
         NEW a \in Sort!Segments, sg[a] # "idle", Within(a, s), a # s
  PROVE  s[1] < s[2] /\ sg[a] = "done" /\ \E h \in Sort!Segments : Half(h, s) /\ Within(a, h)
<1>1. Nested(a, s)
  BY DEF Tree
<1>2. ~Apart(a, s)
  BY WithinIs
<1>3. ~Under(s, a)
  <2> SUFFICES ASSUME NEW h \in Sort!Segments, Half(h, a), Within(s, h) PROVE FALSE
    BY DEF Under
  <2>1. Within(a, h) /\ ~Within(a, h)
    BY HalfIs, WithinIs
  <2> QED
    BY <2>1
<1>4. PICK h \in Sort!Segments : Half(h, s) /\ Within(a, h)
  BY <1>1, <1>2, <1>3 DEF Nested, Under
<1>5. s[1] < s[2]
  BY <1>4 DEF Half
<1>6. sg[s] = "copied"
  BY <1>5, SegmentIs
<1>7. sg[h] = "done"
  BY <1>4, <1>6 DEF Tree, Half
<1> QED
  BY <1>4, <1>5, <1>7 DEF Tree

LEMMA SegmentEnds ==
  ASSUME MaxFiles \in Nat, NEW n, NEW sg, Tree(n, sg), NEW s \in Sort!Segments,
         sg[s] = "copied" \/ (sg[s] = "running" /\ s[1] = s[2])
  PROVE  Tree(n, [sg EXCEPT ![s] = "done"])
<1> DEFINE tg == [sg EXCEPT ![s] = "done"]
<1>1. sg \in [Sort!Segments -> Statuses]
  BY DEF Tree
<1>2. /\ tg \in [Sort!Segments -> Statuses] /\ tg[s] = "done"
      /\ \A a \in Sort!Segments : a # s => tg[a] = sg[a]
  BY <1>1 DEF Statuses
<1> HIDE DEF tg
<1>3. \A a \in Sort!Segments : (tg[a] # "idle" <=> sg[a] # "idle") /\ (tg[a] = "done" <=> sg[a] = "done" \/ a = s)
  BY <1>2
<1>4. \A a \in Sort!Segments :
        tg[a] = "copied" => a[1] < a[2] /\ tg[Sort!Left(a)] = "done" /\ tg[Sort!Right(a)] = "done"
  <2> TAKE a \in Sort!Segments
  <2> HAVE tg[a] = "copied"
  <2>0. sg[a] = "copied"
    BY <1>2
  <2>1. a[1] < a[2] /\ sg[Sort!Left(a)] = "done" /\ sg[Sort!Right(a)] = "done"
    BY <2>0 DEF Tree
  <2> QED
    BY <2>1, <1>3, HalvesAre
<1>5. <<1, n>> \in Sort!Segments /\ tg[<<1, n>>] # "idle"
  BY <1>3 DEF Tree
<1>6. \A a, b \in Sort!Segments : tg[b] = "done" /\ tg[a] # "idle" /\ Within(a, b) => tg[a] = "done"
  <2> TAKE a, b \in Sort!Segments
  <2> HAVE tg[b] = "done" /\ tg[a] # "idle" /\ Within(a, b)
  <2>1. CASE a = s
    BY <2>1, <1>2
  <2>2. CASE a # s /\ b = s
    <3>1. sg[a] = "done"
      BY <2>2, <1>3, InsideIsDone
    <3> QED
      BY <3>1, <1>3
  <2>3. CASE b # s
    <3>1. sg[b] = "done" /\ sg[a] # "idle"
      BY <2>3, <1>3
    <3>2. sg[a] = "done"
      BY <3>1 DEF Tree
    <3> QED
      BY <3>2, <1>3
  <2> QED
    BY <2>1, <2>2, <2>3
<1>7. \A a \in Sort!Segments :
        tg[a] # "idle" /\ a # <<1, n>> => \E p \in Sort!Segments : tg[p] # "idle" /\ Half(a, p)
  BY <1>3 DEF Tree
<1>8. \A p, h, a \in Sort!Segments :
        tg[p] # "idle" /\ Half(h, p) /\ tg[h] = "idle" /\ tg[a] # "idle" => ~Within(a, h)
  BY <1>3 DEF Tree
<1>9. Tree(n, tg)
  BY <1>2, <1>3, <1>4, <1>5, <1>6, <1>7, <1>8 DEF Tree
<1> QED
  BY <1>9 DEF tg


LEMMA OneParent ==
  ASSUME MaxFiles \in Nat, NEW n, NEW sg, Tree(n, sg), NEW s \in Sort!Segments, sg[s] # "idle",
         NEW p \in Sort!Segments, sg[p] # "idle", NEW h, Half(h, s), Half(h, p)
  PROVE  s = p
<1>1. /\ h \in Sort!Segments /\ Within(h, s) /\ ~Within(s, h) /\ Within(h, p) /\ ~Within(p, h)
  BY HalfIs
<1>2. Nested(s, p)
  BY DEF Tree
<1>3. CASE Apart(s, p)
  BY <1>1, <1>3, WithinIs
<1>4. CASE Under(s, p)
  <2>1. PICK q \in Sort!Segments : Half(q, p) /\ Within(s, q)
    BY <1>4 DEF Under
  <2>2. q # h /\ Within(h, q)
    BY <2>1, <1>1, WithinIs
  <2>3. Apart(q, h)
    BY <2>1, <2>2, TwoHalves
  <2> QED
    BY <2>2, <2>3, <1>1, WithinIs
<1>5. CASE Under(p, s)
  <2>1. PICK q \in Sort!Segments : Half(q, s) /\ Within(p, q)
    BY <1>5 DEF Under
  <2>2. q # h /\ Within(h, q)
    BY <2>1, <1>1, WithinIs
  <2>3. Apart(q, h)
    BY <2>1, <2>2, TwoHalves
  <2> QED
    BY <2>2, <2>3, <1>1, WithinIs
<1> QED
  BY <1>2, <1>3, <1>4, <1>5 DEF Nested

LEMMA OthersInTurn ==
  ASSUME MaxFiles \in Nat, NEW n, NEW sg, Tree(n, sg), NEW s \in Sort!Segments, sg[s] = "running",
         NEW h, Half(h, s), sg[h] = "idle", \A p \in Sort!Segments \ {s} : InTurnAt(sg, p)
  PROVE  \A p \in Sort!Segments \ {s} : InTurnAt([sg EXCEPT ![h] = "running"], p)
<1> DEFINE tg == [sg EXCEPT ![h] = "running"]
<1>1. h \in Sort!Segments /\ Within(h, s) /\ ~Within(s, h) /\ h # s
  BY HalfIs
<1>2. /\ tg[h] = "running" /\ \A a \in Sort!Segments : a # h => tg[a] = sg[a]
  BY <1>1 DEF Tree
<1> HIDE DEF tg
<1>3. ASSUME NEW p \in Sort!Segments, p # s, tg[p] # "idle", p[1] < p[2]
      PROVE  /\ tg[Sort!Left(p)] = "idle" => tg[Sort!Right(p)] = "idle"
             /\ Sort!Threaded(p) /\ tg[Sort!Left(p)] # "idle" => tg[Sort!Right(p)] # "idle"
  <2>1. Half(Sort!Left(p), p) /\ Half(Sort!Right(p), p)
    BY <1>3 DEF Half
  <2>2. Sort!Left(p) \in Sort!Segments /\ Sort!Right(p) \in Sort!Segments
    BY <2>1, HalfIs
  <2>3. CASE p = h
    <3>1. \A k \in Sort!Segments : Half(k, p) => k # h /\ sg[k] = "idle"
      <4> TAKE k \in Sort!Segments
      <4> HAVE Half(k, p)
      <4>1. Within(k, h) /\ k # h
        BY <2>3, HalfIs
      <4> QED
        BY <4>1, <1>1 DEF Tree
    <3> QED
      BY <3>1, <2>1, <2>2, <1>2
  <2>4. CASE p # h
    <3>1. sg[p] # "idle"
      BY <2>4, <1>2, <1>3
    <3>2. Sort!Left(p) # h /\ Sort!Right(p) # h
      BY <2>1, <3>1, <1>3, OneParent
    <3>3. InTurnAt(sg, p)
      BY <1>3
    <3> QED
      BY <2>2, <3>1, <3>2, <3>3, <1>2, <1>3 DEF InTurnAt
  <2> QED
    BY <2>3, <2>4
<1>4. \A p \in Sort!Segments \ {s} : InTurnAt(tg, p)
  BY <1>3 DEF InTurnAt
<1> QED
  BY <1>4 DEF tg

IsSplit(sg, tg, s) ==
  tg = [sg EXCEPT ![Sort!Left(s)] = "running",
                  ![Sort!Right(s)] = IF Sort!Threaded(s) THEN "running" ELSE @]
IsSecond(sg, tg, s) == tg = [sg EXCEPT ![Sort!Right(s)] = "running"]

LEMMA SegmentSplits ==
  ASSUME MaxFiles \in Nat, NEW n, NEW sg, Tree(n, sg), InTurn(sg), NEW s \in Sort!Segments,
         sg[s] = "running", s[1] < s[2], sg[Sort!Left(s)] = "idle",
         NEW tg, IsSplit(sg, tg, s)
  PROVE  /\ Tree(n, tg) /\ InTurn(tg)
         /\ \A a \in Sort!Segments : /\ tg[a] = "done" <=> sg[a] = "done"
                                     /\ tg[a] = "copied" <=> sg[a] = "copied"
<1>1. PICK l, r : l = Sort!Left(s) /\ r = Sort!Right(s)
  OBVIOUS
<1>2. Half(l, s) /\ Half(r, s)
  BY <1>1 DEF Half
<1>3. l \in Sort!Segments /\ r \in Sort!Segments /\ l # s /\ r # s
  BY <1>2, HalfIs
<1>4. l # r
  <2>1. l[2] < r[1] /\ l[1] <= l[2] /\ l[1] \in Int /\ l[2] \in Int /\ r[1] \in Int
    BY <1>1, <1>3, HalvesAre, SegmentIs
  <2> QED
    BY <2>1
<1>5. sg \in [Sort!Segments -> Statuses] /\ sg[l] = "idle" /\ sg[r] = "idle"
  BY <1>1 DEF Tree, InTurn, InTurnAt
<1>6. PICK kg : kg = [sg EXCEPT ![l] = "running"]
  OBVIOUS
<1>7. Tree(n, kg) /\ \A p \in Sort!Segments \ {s} : InTurnAt(kg, p)
  <2>1. \A p \in Sort!Segments \ {s} : InTurnAt(sg, p)
    BY DEF InTurn
  <2> QED
    BY <2>1, <1>2, <1>5, <1>6, HalfStarts, OthersInTurn
<1>8. kg[l] = "running" /\ kg[r] = "idle" /\ kg[s] = "running" /\ \A a \in Sort!Segments : a # l => kg[a] = sg[a]
  BY <1>3, <1>4, <1>5, <1>6
<1>9. CASE Sort!Threaded(s)
  <2>1. tg = [kg EXCEPT ![r] = "running"]
    BY <1>1, <1>3, <1>4, <1>5, <1>6, <1>9 DEF IsSplit
  <2>2. Tree(n, tg) /\ \A p \in Sort!Segments \ {s} : InTurnAt(tg, p)
    <3>1. Tree(n, [kg EXCEPT ![r] = "running"])
      BY <1>2, <1>7, <1>8, HalfStarts
    <3>2. \A p \in Sort!Segments \ {s} : InTurnAt([kg EXCEPT ![r] = "running"], p)
      BY <1>2, <1>7, <1>8, OthersInTurn
    <3> QED
      BY <3>1, <3>2, <2>1
  <2>3. tg[l] = "running" /\ tg[r] = "running" /\ \A a \in Sort!Segments : a # r => tg[a] = kg[a]
    BY <2>1, <1>3, <1>4, <1>7, <1>8 DEF Tree
  <2>4. InTurnAt(tg, s)
    BY <2>3, <1>1 DEF InTurnAt
  <2>5. InTurn(tg)
    BY <2>2, <2>4 DEF InTurn
  <2>6. \A a \in Sort!Segments : /\ tg[a] = "done" <=> sg[a] = "done"
                                 /\ tg[a] = "copied" <=> sg[a] = "copied"
    BY <2>3, <1>5, <1>8
  <2> QED
    BY <2>2, <2>5, <2>6
<1>10. CASE ~Sort!Threaded(s)
  <2>1. tg = kg
    <3>1. \A a \in Sort!Segments : tg[a] = kg[a]
      BY <1>1, <1>3, <1>4, <1>5, <1>8, <1>10 DEF IsSplit
    <3>2. DOMAIN tg = Sort!Segments /\ tg = [a \in Sort!Segments |-> tg[a]]
      BY <1>5 DEF IsSplit
    <3>3. DOMAIN kg = Sort!Segments /\ kg = [a \in Sort!Segments |-> kg[a]]
      BY <1>5, <1>6
    <3> QED
      BY <3>1, <3>2, <3>3
  <2>2. InTurnAt(tg, s)
    BY <2>1, <1>1, <1>8, <1>10 DEF InTurnAt
  <2>3. InTurn(tg)
    BY <2>1, <2>2, <1>7 DEF InTurn
  <2>4. \A a \in Sort!Segments : /\ tg[a] = "done" <=> sg[a] = "done"
                                 /\ tg[a] = "copied" <=> sg[a] = "copied"
    BY <2>1, <1>5, <1>8
  <2> QED
    BY <2>1, <2>3, <2>4, <1>7
<1> QED
  BY <1>9, <1>10

LEMMA SecondHalfStarts ==
  ASSUME MaxFiles \in Nat, NEW n, NEW sg, Tree(n, sg), InTurn(sg), NEW s \in Sort!Segments,
         sg[s] = "running", s[1] < s[2], sg[Sort!Left(s)] = "done", sg[Sort!Right(s)] = "idle",
         NEW tg, IsSecond(sg, tg, s)
  PROVE  /\ Tree(n, tg) /\ InTurn(tg)
         /\ \A a \in Sort!Segments : /\ tg[a] = "done" <=> sg[a] = "done"
                                     /\ tg[a] = "copied" <=> sg[a] = "copied"
<1>1. PICK l, r : l = Sort!Left(s) /\ r = Sort!Right(s)
  OBVIOUS
<1>2. Half(l, s) /\ Half(r, s)
  BY <1>1 DEF Half
<1>3. l \in Sort!Segments /\ r \in Sort!Segments /\ l # r
  BY <1>1, <1>2, HalfIs
<1>4. sg \in [Sort!Segments -> Statuses]
  BY DEF Tree
<1>5. tg[r] = "running" /\ sg[r] = "idle" /\ \A a \in Sort!Segments : a # r => tg[a] = sg[a]
  BY <1>1, <1>3, <1>4 DEF IsSecond
<1>6. Tree(n, tg) /\ \A p \in Sort!Segments \ {s} : InTurnAt(tg, p)
  <2>1. \A p \in Sort!Segments \ {s} : InTurnAt(sg, p)
    BY DEF InTurn
  <2> QED
    BY <2>1, <1>1, <1>2, <1>5, HalfStarts, OthersInTurn DEF IsSecond
<1>7. InTurnAt(tg, s)
  BY <1>1, <1>3, <1>5 DEF InTurnAt
<1>8. InTurn(tg)
  BY <1>6, <1>7 DEF InTurn
<1>9. \A a \in Sort!Segments : /\ tg[a] = "done" <=> sg[a] = "done"
                               /\ tg[a] = "copied" <=> sg[a] = "copied"
  BY <1>5
<1> QED
  BY <1>6, <1>8, <1>9

LEMMA StillInTurn ==
  ASSUME MaxFiles \in Nat, NEW sg, NEW tg, InTurn(sg), \A a \in Sort!Segments : tg[a] = "idle" <=> sg[a] = "idle"
  PROVE  InTurn(tg)
<1> SUFFICES ASSUME NEW p \in Sort!Segments, tg[p] # "idle", p[1] < p[2]
             PROVE  /\ tg[Sort!Left(p)] = "idle" => tg[Sort!Right(p)] = "idle"
                    /\ Sort!Threaded(p) /\ tg[Sort!Left(p)] # "idle" => tg[Sort!Right(p)] # "idle"
  BY DEF InTurn, InTurnAt
<1>1. Sort!Left(p) \in Sort!Segments /\ Sort!Right(p) \in Sort!Segments
  BY HalvesAre
<1> QED
  BY <1>1 DEF InTurn, InTurnAt

\* The shortest segment that is not done can go on.
LEMMA SomeSegmentGoesOn ==
  ASSUME MaxFiles \in Nat, NEW n, NEW sg, Tree(n, sg), InTurn(sg), sg[<<1, n>>] # "done"
  PROVE  \E s \in Sort!Segments :
           \/ sg[s] = "copied"
           \/ sg[s] = "running" /\ s[1] = s[2]
           \/ /\ sg[s] = "running" /\ s[1] < s[2]
              /\ \/ sg[Sort!Left(s)] = "idle"
                 \/ sg[Sort!Left(s)] = "done" /\ sg[Sort!Right(s)] = "idle" /\ ~Sort!Threaded(s)
                 \/ sg[Sort!Left(s)] = "done" /\ sg[Sort!Right(s)] = "done"
<1> DEFINE A == {s \in Sort!Segments : sg[s] # "idle" /\ sg[s] # "done"}
           T == {s[2] - s[1] : s \in A}
<1>1. \A s \in A : s[2] - s[1] \in Nat
  BY SegmentIs
<1>2. <<1, n>> \in A
  BY DEF Tree
<1>3. T \subseteq Nat /\ T # {}
  BY <1>1, <1>2
<1>4. PICK w \in T : \A v \in T : w <= v
  BY <1>3, LeastOne
<1>5. PICK s \in A : w = s[2] - s[1]
  BY <1>4
<1>6. \A a \in A : s[2] - s[1] <= a[2] - a[1]
  BY <1>4, <1>5
<1>7. s \in Sort!Segments /\ sg[s] \in {"running", "copied"}
  BY <1>5 DEF Tree, Statuses
<1>8. s[1] \in Int /\ s[2] \in Int /\ s[1] <= s[2]
  BY <1>7, SegmentIs
<1>9. CASE s[1] < s[2]
  <2>1. /\ Sort!Mid(s) \in Int /\ s[1] <= Sort!Mid(s) /\ Sort!Mid(s) < s[2]
        /\ Sort!Left(s) \in Sort!Segments /\ Sort!Left(s)[1] = s[1] /\ Sort!Left(s)[2] = Sort!Mid(s)
        /\ Sort!Right(s) \in Sort!Segments /\ Sort!Right(s)[1] = Sort!Mid(s) + 1 /\ Sort!Right(s)[2] = s[2]
    BY <1>7, <1>9, HalvesAre
  <2>2. Sort!Left(s) \notin A /\ Sort!Right(s) \notin A
    <3> HIDE DEF A
    <3> QED
      BY <2>1, <1>6, <1>8
  <2>3. sg[Sort!Left(s)] \in {"idle", "done"} /\ sg[Sort!Right(s)] \in {"idle", "done"}
    BY <2>1, <2>2
  <2>4. Sort!Threaded(s) /\ sg[Sort!Left(s)] # "idle" => sg[Sort!Right(s)] # "idle"
    BY <1>7, <1>9 DEF InTurn, InTurnAt
  <2> QED
    BY <2>3, <2>4, <1>7, <1>9
<1>10. CASE s[1] = s[2]
  BY <1>7, <1>10
<1> QED
  BY <1>8, <1>9, <1>10


-----------------------------------------------------------------------------
(* The merge of two halves of a and b entries: tk[k] of the first k are of *)
(* the left one.  P are the places u and j where the left one is taken.    *)

Took(a, b, P, u, k) == IF u + 1 <= a /\ (k - u > b \/ <<u + 1, k - u>> \in P) THEN u + 1 ELSE u
Taking(a, b, P, tk) ==
  /\ tk \in [0..(a + b) -> Nat]
  /\ tk[0] = 0 /\ \A k \in 1..(a + b) : tk[k] = Took(a, b, P, tk[k - 1], k)

LeftGoes(l, r) == {p \in Int \X Int : Sort!Before(l[p[1]].key, r[p[2]].key)}

LEMMA FromLeftTakes ==
  ASSUME NEW l, NEW r, Len(l) \in Nat, Len(r) \in Nat
  PROVE  Taking(Len(l), Len(r), LeftGoes(l, r), Sort!FromLeft(l, r))
<1>1. PICK a \in Nat, b \in Nat : a = Len(l) /\ b = Len(r)
  OBVIOUS
<1>a. PICK P : P = LeftGoes(l, r)
  OBVIOUS
<1>2. PICK w \in Nat : w = a + b
  OBVIOUS
<1> DEFINE F == [k \in 1..w |-> [u \in Nat |-> Took(a, b, P, u, k)]]
           From(t) == [k \in 0..(Len(l) + Len(r)) |->
                         IF k = 0 THEN 0
                         ELSE LET u == t[k - 1]
                              IN IF u + 1 <= Len(l) /\ (k - u > Len(r) \/ Sort!Before(l[u + 1].key, r[k - u].key))
                                 THEN u + 1 ELSE u]
           taken == CHOOSE t : t = From(t)
<1>3. F \in [1..w -> [Nat -> Nat]]
  BY DEF Took
<1>4. PICK t : Run(t, w, Nat, 0, F)
  <2> HIDE DEF F
  <2> QED
    BY <1>3, Iteration
<1>5. t \in [0..w -> Nat] /\ t[0] = 0 /\ \A k \in 1..w : t[k] = Took(a, b, P, t[k - 1], k)
  <2>1. \A k \in 1..w : k - 1 \in 0..w
    OBVIOUS
  <2>2. \A k \in 1..w : t[k - 1] \in Nat
    BY <2>1, <1>4 DEF Run
  <2> QED
    BY <2>2, <1>4 DEF Run
<1>6. \A k \in 1..w, u \in Nat :
        Took(a, b, P, u, k) = IF u + 1 <= a /\ (k - u > b \/ Sort!Before(l[u + 1].key, r[k - u].key)) THEN u + 1 ELSE u
  <2> TAKE k \in 1..w, u \in Nat
  <2>1. <<u + 1, k - u>> \in Int \X Int
    OBVIOUS
  <2>2. <<u + 1, k - u>> \in P <=> Sort!Before(l[u + 1].key, r[k - u].key)
    BY <2>1, <1>a DEF LeftGoes
  <2> QED
    BY <2>2 DEF Took
<1>7. t = [k \in 0..w |->
             IF k = 0 THEN 0
             ELSE LET u == t[k - 1]
                  IN IF u + 1 <= a /\ (k - u > b \/ Sort!Before(l[u + 1].key, r[k - u].key))
                     THEN u + 1 ELSE u]
  <2>1. \A k \in 0..w : k = 0 \/ (k # 0 /\ k \in 1..w /\ k - 1 \in 0..w)
    OBVIOUS
  <2>2. \A k \in 0..w : t[k] = IF k = 0 THEN 0
                               ELSE LET u == t[k - 1]
                                    IN IF u + 1 <= a /\ (k - u > b \/ Sort!Before(l[u + 1].key, r[k - u].key))
                                       THEN u + 1 ELSE u
    <3> TAKE k \in 0..w
    <3>1. CASE k = 0
      BY <3>1, <1>5
    <3>2. CASE k # 0
      <4>1. k \in 1..w /\ k - 1 \in 0..w /\ t[k - 1] \in Nat
        BY <3>2, <2>1, <1>5
      <4> QED
        BY <4>1, <3>2, <1>5, <1>6
    <3> QED
      BY <3>1, <3>2
  <2>3. t = [k \in 0..w |-> t[k]]
    BY <1>5
  <2> QED
    BY <2>2, <2>3
<1>8. taken = From(taken)
  <2>1. t = From(t)
    BY <1>1, <1>2, <1>7, Zenon
  <2> HIDE DEF From
  <2> QED
    BY <2>1, ZenonT(60)
<1>9. Sort!FromLeft(l, r) = taken
  BY Zenon DEF Sort!FromLeft, taken
<1> HIDE DEF taken
<1>10. \A k \in 1..w :
         taken[k] = LET u == taken[k - 1]
                    IN IF u + 1 <= a /\ (k - u > b \/ Sort!Before(l[u + 1].key, r[k - u].key)) THEN u + 1 ELSE u
  <2>1. \A k \in 1..w : k \in 0..w /\ k # 0
    OBVIOUS
  <2> QED
    BY <2>1, <1>1, <1>2, <1>8, ZenonT(40)
<1>11. taken[0] = 0
  <2>1. 0 \in 0..w
    OBVIOUS
  <2> QED
    BY <2>1, <1>1, <1>2, <1>8
<1> DEFINE G == {k \in 0..w : taken[k] \in Nat}
<1>12. 0 \in G
  BY <1>11
<1>13. ASSUME NEW k \in 0..(w - 1), k \in G PROVE k + 1 \in G
  <2>1. k + 1 \in 1..w /\ (k + 1) - 1 = k /\ k + 1 \in 0..w
    OBVIOUS
  <2> QED
    BY <2>1, <1>10, <1>13
<1>14. 0..w \subseteq G
  <2> HIDE DEF G
  <2> QED
    BY <1>12, <1>13, StepByStep
<1>15. taken \in [0..w -> Nat]
  <2>1. \A k \in 0..w : taken[k] \in Nat
    BY <1>14
  <2>2. DOMAIN taken = 0..w /\ taken = [k \in DOMAIN taken |-> taken[k]]
    BY <1>1, <1>2, <1>8
  <2> QED
    BY <2>1, <2>2
<1>16. \A k \in 1..w : taken[k] = Took(a, b, P, taken[k - 1], k)
  <2>1. \A k \in 1..w : k - 1 \in 0..w /\ taken[k - 1] \in Nat
    BY <1>15
  <2> QED
    BY <2>1, <1>6, <1>10
<1>17. Taking(a, b, P, taken)
  BY <1>2, <1>11, <1>15, <1>16 DEF Taking
<1> QED
  BY <1>1, <1>a, <1>9, <1>17

LEMMA TakenIs ==
  ASSUME NEW a \in Nat, NEW b \in Nat, NEW P, NEW tk, Taking(a, b, P, tk)
  PROVE  /\ \A k \in 0..(a + b) : tk[k] \in 0..a /\ k - tk[k] \in 0..b
         /\ \A k \in 1..(a + b) : k - 1 \in 0..(a + b) /\ (tk[k] = tk[k - 1] \/ tk[k] = tk[k - 1] + 1)
         /\ tk[a + b] = a
<1>1. PICK w \in Nat : w = a + b
  OBVIOUS
<1>2. tk \in [0..w -> Nat] /\ tk[0] = 0 /\ \A k \in 1..w : tk[k] = Took(a, b, P, tk[k - 1], k)
  BY <1>1 DEF Taking
<1> DEFINE G == {k \in 0..w : tk[k] \in 0..a /\ k - tk[k] \in 0..b}
<1>3. 0 \in G
  BY <1>2
<1>4. ASSUME NEW k \in 0..(w - 1), k \in G PROVE k + 1 \in G
  <2>1. k + 1 \in 1..w /\ (k + 1) - 1 = k /\ k + 1 \in 0..w
    OBVIOUS
  <2>2. tk[k + 1] = Took(a, b, P, tk[k], k + 1)
    BY <2>1, <1>2
  <2>3. PICK u \in Nat : u = tk[k]
    BY <1>2
  <2>4. u \in 0..a /\ k - u \in 0..b
    BY <2>3, <1>4
  <2>5. CASE tk[k + 1] = u + 1 /\ u + 1 <= a
    <3>1. (k + 1) - (u + 1) = k - u
      OBVIOUS
    <3> QED
      BY <3>1, <2>1, <2>4, <2>5
  <2>6. CASE tk[k + 1] = u /\ (u + 1 > a \/ (k + 1) - u <= b)
    <3>1. (k + 1) - u \in 0..b
      BY <2>4, <2>6, <1>1
    <3> QED
      BY <3>1, <2>1, <2>4, <2>6
  <2> QED
    BY <2>2, <2>3, <2>5, <2>6 DEF Took
<1>5. 0..w \subseteq G
  <2> HIDE DEF G
  <2> QED
    BY <1>3, <1>4, StepByStep
<1>6. \A k \in 0..w : tk[k] \in 0..a /\ k - tk[k] \in 0..b
  BY <1>5
<1>7. ASSUME NEW k \in 1..w PROVE k - 1 \in 0..w /\ (tk[k] = tk[k - 1] \/ tk[k] = tk[k - 1] + 1)
  <2>1. tk[k] = Took(a, b, P, tk[k - 1], k)
    BY <1>2
  <2> QED
    BY <2>1 DEF Took
<1>8. tk[w] = a
  <2>1. tk[w] \in 0..a /\ w - tk[w] \in 0..b
    BY <1>6
  <2>2. PICK x \in Int : x = tk[w]
    BY <2>1
  <2> QED
    BY <2>1, <2>2, <1>1
<1> QED
  BY <1>1, <1>6, <1>7, <1>8

LEMMA TakenGrows ==
  ASSUME NEW a \in Nat, NEW b \in Nat, NEW P, NEW tk, Taking(a, b, P, tk),
         NEW k \in 0..(a + b), NEW j \in 0..k
  PROVE  tk[j] <= tk[k] /\ j - tk[j] <= k - tk[k]
<1>1. PICK w \in Nat : w = a + b
  OBVIOUS
<1>2. \A x \in 0..w : tk[x] \in 0..a /\ tk[x] \in Nat
  BY <1>1, TakenIs
<1>3. \A x \in 1..w : x - 1 \in 0..w /\ (tk[x] = tk[x - 1] \/ tk[x] = tk[x - 1] + 1)
  BY <1>1, TakenIs
<1> DEFINE G == {x \in 0..w : \A y \in 0..x : tk[y] <= tk[x] /\ y - tk[y] <= x - tk[x]}
<1>4. 0 \in G
  <2>1. \A y \in 0..0 : y = 0
    OBVIOUS
  <2>2. 0 \in 0..w /\ tk[0] \in Nat
    BY <1>2
  <2> QED
    BY <2>1, <2>2
<1>5. ASSUME NEW x \in 0..(w - 1), x \in G PROVE x + 1 \in G
  <2>1. x + 1 \in 1..w /\ (x + 1) - 1 = x /\ x + 1 \in 0..w /\ x \in 0..w
    OBVIOUS
  <2>2. tk[x + 1] = tk[x] \/ tk[x + 1] = tk[x] + 1
    BY <2>1, <1>3
  <2>3. ASSUME NEW y \in 0..(x + 1) PROVE tk[y] <= tk[x + 1] /\ y - tk[y] <= (x + 1) - tk[x + 1]
    <3>1. CASE y = x + 1
      BY <3>1, <2>1, <1>2
    <3>2. CASE y # x + 1
      <4>1. y \in 0..x /\ y \in 0..w
        BY <3>2
      <4>2. tk[y] <= tk[x] /\ y - tk[y] <= x - tk[x]
        BY <4>1, <1>5
      <4>3. tk[y] \in Nat /\ tk[x] \in Nat
        BY <4>1, <2>1, <1>2
      <4> QED
        BY <4>2, <4>3, <2>2
    <3> QED
      BY <3>1, <3>2
  <2> QED
    BY <2>1, <2>3
<1>6. 0..w \subseteq G
  <2> HIDE DEF G
  <2> QED
    BY <1>4, <1>5, StepByStep
<1>7. k \in 0..w /\ k \in G
  BY <1>1, <1>6
<1>8. \A y \in 0..k : tk[y] <= tk[k] /\ y - tk[y] <= k - tk[k]
  BY <1>7
<1> QED
  BY <1>8

\* Every entry of both halves is taken, once.
LEMMA EachIsTaken ==
  ASSUME NEW a \in Nat, NEW b \in Nat, NEW P, NEW tk, Taking(a, b, P, tk)
  PROVE  /\ \A u \in 1..a : \E k \in 1..(a + b) : tk[k] = u /\ tk[k] # tk[k - 1]
         /\ \A j \in 1..b : \E k \in 1..(a + b) : k - tk[k] = j /\ tk[k] = tk[k - 1]
<1>1. PICK w \in Nat : w = a + b
  OBVIOUS
<1>2. \A x \in 0..w : tk[x] \in 0..a /\ tk[x] \in Nat
  BY <1>1, TakenIs
<1>3. \A x \in 1..w : x - 1 \in 0..w /\ x \in 0..w /\ (tk[x] = tk[x - 1] \/ tk[x] = tk[x - 1] + 1)
  BY <1>1, TakenIs
<1>4. tk[w] = a /\ tk[0] = 0 /\ w \in 0..w /\ 0 \in 0..w
  <2>1. tk[a + b] = a
    BY TakenIs
  <2>2. tk[0] = 0
    BY DEF Taking
  <2> QED
    BY <2>1, <2>2, <1>1
<1>5. ASSUME NEW u \in 1..a PROVE \E k \in 1..w : tk[k] = u /\ tk[k] # tk[k - 1]
  <2> DEFINE T == {x \in 0..w : tk[x] >= u}
  <2>1. T \subseteq Nat /\ w \in T /\ 0 \notin T
    BY <1>4
  <2>2. PICK k \in T : \A y \in T : k <= y
    <3> HIDE DEF T
    <3> QED
      BY <2>1, LeastOne
  <2>3. k \in 1..w /\ k - 1 \in 0..w /\ k - 1 \notin T
    BY <2>1, <2>2
  <2>4. tk[k] >= u /\ ~(tk[k - 1] >= u) /\ tk[k] \in Nat /\ tk[k - 1] \in Nat
    BY <2>2, <2>3, <1>2
  <2>5. tk[k] = u /\ tk[k] # tk[k - 1]
    BY <2>3, <2>4, <1>3
  <2> QED
    BY <2>3, <2>5
<1>6. ASSUME NEW j \in 1..b PROVE \E k \in 1..w : k - tk[k] = j /\ tk[k] = tk[k - 1]
  <2> DEFINE T == {x \in 0..w : x - tk[x] >= j}
  <2>1. T \subseteq Nat /\ w \in T /\ 0 \notin T
    BY <1>1, <1>4
  <2>2. PICK k \in T : \A y \in T : k <= y
    <3> HIDE DEF T
    <3> QED
      BY <2>1, LeastOne
  <2>3. k \in 1..w /\ k - 1 \in 0..w /\ k - 1 \notin T
    BY <2>1, <2>2
  <2>4. k - tk[k] >= j /\ ~((k - 1) - tk[k - 1] >= j) /\ tk[k] \in Nat /\ tk[k - 1] \in Nat
    BY <2>2, <2>3, <1>2
  <2>5. k - tk[k] = j /\ tk[k] = tk[k - 1]
    BY <2>3, <2>4, <1>3
  <2> QED
    BY <2>3, <2>5
<1> QED
  BY <1>1, <1>5, <1>6

Transitive(ord) == \A x, y, z : <<x, y>> \in ord /\ <<y, z>> \in ord => <<x, z>> \in ord
Rising(s, a, ord) == \A u, j \in 1..a : u < j => <<s[u].n, s[j].n>> \in ord
Picks(a, b, tk, l, r, m) ==
  \A k \in 1..(a + b) : m[k] = IF tk[k] # tk[k - 1] THEN l[tk[k]] ELSE r[k - tk[k]]
Chooses(a, b, P, l, r, ord) ==
  \A u \in 1..a, j \in 1..b : IF <<u, j>> \in P THEN <<l[u].n, r[j].n>> \in ord ELSE <<r[j].n, l[u].n>> \in ord

LEMMA MergeRises ==
  ASSUME NEW a \in Nat, NEW b \in Nat, NEW P, NEW tk, Taking(a, b, P, tk), NEW l, NEW r, NEW m, NEW ord,
         Picks(a, b, tk, l, r, m), Rising(l, a, ord), Rising(r, b, ord), Chooses(a, b, P, l, r, ord),
         Transitive(ord)
  PROVE  Rising(m, a + b, ord)
<1>1. PICK w \in Nat : w = a + b
  OBVIOUS
<1>2. \A x \in 0..w : tk[x] \in 0..a /\ x - tk[x] \in 0..b /\ tk[x] \in Nat
  BY <1>1, TakenIs
<1>3. \A x \in 1..w : x - 1 \in 0..w /\ x \in 0..w /\ (tk[x] = tk[x - 1] \/ tk[x] = tk[x - 1] + 1)
  BY <1>1, TakenIs
<1>4. ASSUME NEW k \in 1..w, NEW q \in 1..w, k < q PROVE <<m[k].n, m[q].n>> \in ord
  <2>1. PICK f \in Nat, g \in Nat, c \in Nat, d \in Nat :
          f = tk[k - 1] /\ g = tk[k] /\ c = tk[q - 1] /\ d = tk[q]
    BY <1>2, <1>3
  <2>2. g <= c /\ k - g <= (q - 1) - c
    <3>1. k \in 0..(q - 1) /\ q - 1 \in 0..(a + b)
      BY <1>1, <1>4
    <3> QED
      BY <3>1, <2>1, TakenGrows
  <2>3. g \in 0..a /\ k - g \in 0..b /\ d \in 0..a /\ q - d \in 0..b
    BY <2>1, <1>2, <1>3
  <2>a. f \in 0..a /\ (k - 1) - f \in 0..b /\ c \in 0..a /\ (q - 1) - c \in 0..b
    BY <2>1, <1>2, <1>3
  <2>4. (g = f \/ g = f + 1) /\ (d = c \/ d = c + 1)
    BY <2>1, <1>3
  <2>5. g = Took(a, b, P, f, k)
    BY <2>1, <1>1 DEF Taking
  <2>6. m[k] = (IF g # f THEN l[g] ELSE r[k - g]) /\ m[q] = (IF d # c THEN l[d] ELSE r[q - d])
    BY <2>1, <1>1 DEF Picks
  <2>7. CASE g = f + 1 /\ d = c + 1
    <3>1. g \in 1..a /\ d \in 1..a /\ g < d
      BY <2>2, <2>3, <2>7
    <3> QED
      BY <3>1, <2>6, <2>7 DEF Rising
  <2>8. CASE g = f + 1 /\ d = c
    <3>1. PICK j \in Int, y \in Int : j = k - f /\ y = q - d
      OBVIOUS
    <3>2. g \in 1..a /\ j \in 1..b /\ y \in 1..b /\ j <= y
      BY <3>1, <2>2, <2>3, <2>a, <2>8
    <3>3. <<g, j>> \in P
      <4>1. f + 1 <= a /\ (k - f > b \/ <<f + 1, k - f>> \in P)
        BY <2>5, <2>8 DEF Took
      <4> QED
        BY <4>1, <3>1, <3>2, <2>8
    <3>4. <<l[g].n, r[j].n>> \in ord
      BY <3>2, <3>3 DEF Chooses
    <3>5. j = y \/ <<r[j].n, r[y].n>> \in ord
      BY <3>2 DEF Rising
    <3>6. <<l[g].n, r[y].n>> \in ord
      BY <3>4, <3>5 DEF Transitive
    <3>7. m[k] = l[g] /\ m[q] = r[y]
      BY <3>1, <2>6, <2>8
    <3> QED
      BY <3>6, <3>7
  <2>9. CASE g = f /\ d = c
    <3>1. PICK j \in Int, y \in Int : j = k - g /\ y = q - d
      OBVIOUS
    <3>2. j \in 1..b /\ y \in 1..b /\ j < y
      BY <3>1, <2>2, <2>3, <2>a, <2>9
    <3>3. m[k] = r[j] /\ m[q] = r[y]
      BY <3>1, <2>6, <2>9
    <3> QED
      BY <3>2, <3>3 DEF Rising
  <2>10. CASE g = f /\ d = c + 1
    <3>1. PICK j \in Int, x \in Int : j = k - f /\ x = f + 1
      OBVIOUS
    <3>2. j \in 1..b /\ x \in 1..a /\ d \in 1..a /\ x <= d
      BY <3>1, <2>2, <2>3, <2>a, <2>10
    <3>3. <<x, j>> \notin P
      <4>1. ~(f + 1 <= a /\ (k - f > b \/ <<f + 1, k - f>> \in P))
        BY <2>5, <2>10 DEF Took
      <4> QED
        BY <4>1, <3>1, <3>2
    <3>4. <<r[j].n, l[x].n>> \in ord
      BY <3>2, <3>3 DEF Chooses
    <3>5. x = d \/ <<l[x].n, l[d].n>> \in ord
      BY <3>2 DEF Rising
    <3>6. <<r[j].n, l[d].n>> \in ord
      BY <3>4, <3>5 DEF Transitive
    <3>7. m[k] = r[j] /\ m[q] = l[d]
      BY <3>1, <2>6, <2>10
    <3> QED
      BY <3>6, <3>7
  <2> QED
    BY <2>4, <2>7, <2>8, <2>9, <2>10
<1> QED
  BY <1>1, <1>4 DEF Rising

LEMMA MergeHasAll ==
  ASSUME NEW a \in Nat, NEW b \in Nat, NEW P, NEW tk, Taking(a, b, P, tk), NEW l, NEW r, NEW m,
         Picks(a, b, tk, l, r, m)
  PROVE  /\ \A k \in 1..(a + b) : (\E u \in 1..a : m[k] = l[u]) \/ (\E j \in 1..b : m[k] = r[j])
         /\ \A u \in 1..a : \E k \in 1..(a + b) : m[k] = l[u]
         /\ \A j \in 1..b : \E k \in 1..(a + b) : m[k] = r[j]
<1>1. PICK w \in Nat : w = a + b
  OBVIOUS
<1>2. \A x \in 0..w : tk[x] \in 0..a /\ x - tk[x] \in 0..b
  BY <1>1, TakenIs
<1>3. \A x \in 1..w : x - 1 \in 0..w /\ x \in 0..w /\ (tk[x] = tk[x - 1] \/ tk[x] = tk[x - 1] + 1)
  BY <1>1, TakenIs
<1>4. \A k \in 1..w : m[k] = IF tk[k] # tk[k - 1] THEN l[tk[k]] ELSE r[k - tk[k]]
  BY <1>1 DEF Picks
<1>5. ASSUME NEW k \in 1..w PROVE (\E u \in 1..a : m[k] = l[u]) \/ (\E j \in 1..b : m[k] = r[j])
  <2>1. PICK f \in Int, g \in Int, j \in Int : f = tk[k - 1] /\ g = tk[k] /\ j = k - g
    BY <1>2, <1>3
  <2>2. f \in 0..a /\ g \in 0..a /\ (k - 1) - f \in 0..b /\ k - g \in 0..b /\ (g = f \/ g = f + 1)
    BY <2>1, <1>2, <1>3
  <2>3. CASE g = f
    <3>1. j \in 1..b
      BY <2>1, <2>2, <2>3
    <3>2. m[k] = r[j]
      BY <2>1, <2>3, <1>4
    <3> QED
      BY <3>1, <3>2
  <2>4. CASE g = f + 1
    <3>1. g \in 1..a /\ g # f
      BY <2>1, <2>2, <2>4
    <3>2. m[k] = l[g]
      BY <2>1, <3>1, <1>4
    <3> QED
      BY <3>1, <3>2
  <2> QED
    BY <2>2, <2>3, <2>4
<1>6. ASSUME NEW u \in 1..a PROVE \E k \in 1..w : m[k] = l[u]
  <2>1. PICK k \in 1..w : tk[k] = u /\ tk[k] # tk[k - 1]
    BY <1>1, EachIsTaken
  <2> QED
    BY <2>1, <1>4
<1>7. ASSUME NEW j \in 1..b PROVE \E k \in 1..w : m[k] = r[j]
  <2>1. PICK k \in 1..w : k - tk[k] = j /\ tk[k] = tk[k - 1]
    BY <1>1, EachIsTaken
  <2> QED
    BY <2>1, <1>4
<1> QED
  BY <1>1, <1>5, <1>6, <1>7


-----------------------------------------------------------------------------
(* What the merge sort has done to the entries en that were read as inp:   *)
(* the longest segments that are done are in the order ord, and what is in *)
(* no such segment is where it was.                                        *)

InSorted(en, inp, ord, s) ==
  /\ \A x \in s[1]..s[2] : en[x].n \in s[1]..s[2] /\ en[x] = inp[en[x].n]
  /\ \A y \in s[1]..s[2] : \E x \in s[1]..s[2] : en[x].n = y
  /\ \A x, y \in s[1]..s[2] : x < y => <<en[x].n, en[y].n>> \in ord

Maximal(sg, s) == sg[s] = "done" /\ \A b \in Sort!Segments : sg[b] = "done" /\ Within(s, b) => b = s
Untouched(sg, x) == \A s \in Sort!Segments : sg[s] = "done" => ~(s[1] <= x /\ x <= s[2])
HalvesOf(en, s) == <<SubSeq(en, s[1], Sort!Mid(s)), SubSeq(en, Sort!Mid(s) + 1, s[2])>>

Data(n, sg, en, hv, inp, ord) ==
  /\ en \in [1..n -> {inp[x] : x \in 1..n}]
  /\ \A x \in 1..n : Untouched(sg, x) => en[x] = inp[x]
  /\ DOMAIN hv = Sort!Segments
  /\ \A s \in Sort!Segments : sg[s] = "copied" => hv[s] = HalvesOf(en, s)
  /\ \A s \in Sort!Segments : Maximal(sg, s) => InSorted(en, inp, ord, s)

\* The order: by the keys, and by the place where they were read.
Ranks(n, inp, ord) ==
  /\ Transitive(ord)
  /\ \A x, y \in 1..n :
       x < y => IF Sort!Before(inp[x].key, inp[y].key) THEN <<x, y>> \in ord ELSE <<y, x>> \in ord

LEMMA SameData ==
  ASSUME NEW n, NEW sg, NEW tg, NEW en, NEW hv, NEW inp, NEW ord, Data(n, sg, en, hv, inp, ord),
         \A a \in Sort!Segments : /\ tg[a] = "done" <=> sg[a] = "done"
                                  /\ tg[a] = "copied" <=> sg[a] = "copied"
  PROVE  Data(n, tg, en, hv, inp, ord)
<1>1. \A s \in Sort!Segments : Maximal(tg, s) <=> Maximal(sg, s)
  BY DEF Maximal
<1>2. \A x : Untouched(tg, x) <=> Untouched(sg, x)
  BY DEF Untouched
<1> QED
  BY <1>1, <1>2 DEF Data

LEMMA SingleData ==
  ASSUME MaxFiles \in Nat, NEW n \in Nat, NEW sg, NEW tg, NEW en, NEW hv, NEW inp, NEW ord,
         Tree(n, sg), Data(n, sg, en, hv, inp, ord), \A x \in 1..n : inp[x].n = x,
         NEW s \in Sort!Segments, sg[s] = "running", s[1] = s[2], tg = [sg EXCEPT ![s] = "done"]
  PROVE  Data(n, tg, en, hv, inp, ord)
<1>1. sg \in [Sort!Segments -> Statuses] /\ s[2] <= n
  BY DEF Tree
<1>2. tg[s] = "done" /\ \A a \in Sort!Segments : a # s => tg[a] = sg[a]
  BY <1>1
<1>3. PICK x \in 1..n : s[1] = x /\ s[2] = x
  BY <1>1, SegmentIs
<1>4. Untouched(sg, x)
  <2> SUFFICES ASSUME NEW c \in Sort!Segments, sg[c] = "done", c[1] <= x, x <= c[2] PROVE FALSE
    BY DEF Untouched
  <2>1. Within(s, c)
    BY <1>3 DEF Within
  <2> QED
    BY <2>1 DEF Tree
<1>5. en[x] = inp[x] /\ en[x].n = x
  BY <1>4 DEF Data
<1>6. \A y \in s[1]..s[2] : y = x
  BY <1>3
<1>7. InSorted(en, inp, ord, s)
  <2>1. x \in s[1]..s[2] /\ ~(x < x)
    BY <1>3
  <2> QED
    BY <2>1, <1>5, <1>6 DEF InSorted
<1>8. \A a \in Sort!Segments : Maximal(tg, a) => a = s \/ Maximal(sg, a)
  <2> SUFFICES ASSUME NEW a \in Sort!Segments, Maximal(tg, a), a # s PROVE Maximal(sg, a)
    OBVIOUS
  <2> QED
    BY <1>2 DEF Maximal
<1>9. \A y : Untouched(tg, y) => Untouched(sg, y)
  BY <1>2 DEF Untouched
<1>10. \A a \in Sort!Segments : tg[a] = "copied" => sg[a] = "copied"
  BY <1>2
<1> QED
  BY <1>7, <1>8, <1>9, <1>10 DEF Data

LEMMA CopyData ==
  ASSUME NEW n, NEW sg, NEW tg, NEW en, NEW hv, NEW hw, NEW inp, NEW ord,
         Tree(n, sg), Data(n, sg, en, hv, inp, ord),
         NEW s \in Sort!Segments, sg[s] = "running", tg = [sg EXCEPT ![s] = "copied"],
         hw = [hv EXCEPT ![s] = HalvesOf(en, s)]
  PROVE  Data(n, tg, en, hw, inp, ord)
<1>1. sg \in [Sort!Segments -> Statuses]
  BY DEF Tree
<1>2. tg[s] = "copied" /\ \A a \in Sort!Segments : a # s => tg[a] = sg[a]
  BY <1>1
<1>3. DOMAIN hw = Sort!Segments /\ hw[s] = HalvesOf(en, s) /\ \A a \in Sort!Segments : a # s => hw[a] = hv[a]
  BY DEF Data
<1>4. \A a \in Sort!Segments : tg[a] = "done" <=> sg[a] = "done"
  BY <1>2
<1>5. \A a \in Sort!Segments : Maximal(tg, a) <=> Maximal(sg, a)
  BY <1>4 DEF Maximal
<1>6. \A x : Untouched(tg, x) <=> Untouched(sg, x)
  BY <1>4 DEF Untouched
<1>7. \A a \in Sort!Segments : tg[a] = "copied" => hw[a] = HalvesOf(en, a)
  BY <1>2, <1>3 DEF Data
<1> QED
  BY <1>3, <1>5, <1>6, <1>7 DEF Data

\* Nothing longer than its halves is done in a segment that is copied.
LEMMA HalvesAreMaximal ==
  ASSUME MaxFiles \in Nat, NEW n, NEW sg, Tree(n, sg), NEW s \in Sort!Segments, sg[s] = "copied",
         NEW h, Half(h, s)
  PROVE  Maximal(sg, h)
<1>1. h \in Sort!Segments /\ Within(h, s) /\ sg[h] = "done"
  BY HalfIs DEF Tree, Half
<1>2. SUFFICES ASSUME NEW c \in Sort!Segments, sg[c] = "done", Within(h, c), c # h PROVE FALSE
  BY <1>1 DEF Maximal
<1>3. Nested(c, s)
  BY <1>2 DEF Tree
<1>4. CASE c = s
  BY <1>4, <1>2
<1>5. CASE Apart(c, s)
  BY <1>5, <1>1, <1>2, WithinIs
<1>6. CASE Under(s, c)
  <2>1. Within(s, c)
    BY <1>6, HalfIs, WithinIs DEF Under
  <2> QED
    BY <2>1, <1>2 DEF Tree
<1>7. CASE Under(c, s)
  <2>1. PICK q \in Sort!Segments : Half(q, s) /\ Within(c, q)
    BY <1>7 DEF Under
  <2>2. CASE q = h
    BY <2>1, <2>2, <1>1, <1>2, WithinIs, SMTT(30)
  <2>3. CASE q # h
    <3>1. Apart(q, h)
      BY <2>1, <2>3, TwoHalves
    <3>2. Within(h, q)
      BY <2>1, <1>1, <1>2, WithinIs
    <3> QED
      BY <3>1, <3>2, <1>1, WithinIs
  <2> QED
    BY <2>2, <2>3
<1> QED
  BY <1>3, <1>4, <1>5, <1>6, <1>7 DEF Nested

LEMMA MergedIs ==
  ASSUME NEW l, NEW r, Len(l) \in Nat, Len(r) \in Nat
  PROVE  Picks(Len(l), Len(r), Sort!FromLeft(l, r), l, r, Sort!Merged(l, r))
BY DEF Picks, Sort!Merged

LEMMA PartIs ==
  ASSUME NEW n \in Nat, NEW E, NEW en \in [1..n -> E], NEW c \in Int, NEW d \in Int, 1 <= c, c <= d, d <= n
  PROVE  /\ Len(SubSeq(en, c, d)) = d - c + 1
         /\ \A u \in 1..(d - c + 1) : SubSeq(en, c, d)[u] = en[c + u - 1] /\ c + u - 1 \in c..d
<1>1. en \in Seq(E) /\ Len(en) = n
  OBVIOUS
<1>2. c \in 1..(Len(en) + 1) /\ d \in (c - 1)..Len(en)
  <2>1. c \in 1..(n + 1) /\ d \in (c - 1)..n
    OBVIOUS
  <2> QED
    BY <2>1, <1>1
<1>3. /\ Len(SubSeq(en, c, d)) = d - c + 1
      /\ \A u \in 1..(d - c + 1) : SubSeq(en, c, d)[u] = en[c + u - 1]
  BY <1>1, <1>2, SubSeqProperties
<1> QED
  BY <1>3

LEMMA SamePart ==
  ASSUME NEW n \in Nat, NEW E, NEW en \in [1..n -> E], NEW out \in [1..n -> E],
         NEW c \in Int, NEW d \in Int, 1 <= c, c <= d, d <= n, \A x \in c..d : out[x] = en[x]
  PROVE  SubSeq(out, c, d) = SubSeq(en, c, d)
<1>1. en \in Seq(E) /\ Len(en) = n /\ out \in Seq(E) /\ Len(out) = n
  OBVIOUS
<1>2. c \in 1..(n + 1) /\ d \in (c - 1)..n
  OBVIOUS
<1>3. SubSeq(en, c, d) \in Seq(E) /\ SubSeq(out, c, d) \in Seq(E)
  BY <1>1, <1>2, SubSeqProperties
<1>4. /\ Len(SubSeq(en, c, d)) = d - c + 1 /\ Len(SubSeq(out, c, d)) = d - c + 1
      /\ \A u \in 1..(d - c + 1) : SubSeq(en, c, d)[u] = en[c + u - 1] /\ SubSeq(out, c, d)[u] = out[c + u - 1]
                                   /\ c + u - 1 \in c..d
  BY PartIs
<1>5. \A u \in 1..(d - c + 1) : SubSeq(out, c, d)[u] = SubSeq(en, c, d)[u]
  BY <1>4
<1> QED
  BY <1>3, <1>4, <1>5, SeqEqual

IsPart(l, en, c, a) == \A u \in 1..a : l[u] = en[c + u - 1]
IsPut(out, m, c, e) == \A x \in c..e : out[x] = m[x - c + 1]

LEMMA MergedInOrder ==
  ASSUME NEW n \in Nat, NEW inp, NEW ord, Ranks(n, inp, ord), NEW en,
         NEW c \in Int, NEW d \in Int, NEW e \in Int, 1 <= c, c <= d, d < e, e <= n,
         InSorted(en, inp, ord, <<c, d>>), InSorted(en, inp, ord, <<d + 1, e>>),
         NEW a \in Nat, NEW b \in Nat, a = d - c + 1, b = e - d,
         NEW l, NEW r, IsPart(l, en, c, a), IsPart(r, en, d + 1, b),
         NEW tk, Taking(a, b, LeftGoes(l, r), tk), NEW m, Picks(a, b, tk, l, r, m),
         NEW out, IsPut(out, m, c, e)
  PROVE  InSorted(out, inp, ord, <<c, e>>)
<1>3. \A u \in 1..a : l[u] = en[c + u - 1] /\ c + u - 1 \in c..d
  BY DEF IsPart
<1>4. \A u \in 1..b : r[u] = en[d + u] /\ d + u \in (d + 1)..e
  <2> TAKE u \in 1..b
  <2>1. d + u \in (d + 1)..e /\ (d + 1) + u - 1 = d + u
    OBVIOUS
  <2>2. r[u] = en[(d + 1) + u - 1]
    BY Zenon DEF IsPart
  <2> QED
    BY <2>1, <2>2, Zenon
<1>5. /\ \A x \in c..d : en[x].n \in c..d /\ en[x] = inp[en[x].n]
      /\ \A y \in c..d : \E x \in c..d : en[x].n = y
      /\ \A x, y \in c..d : x < y => <<en[x].n, en[y].n>> \in ord
  BY DEF InSorted
<1>6. /\ \A x \in (d + 1)..e : en[x].n \in (d + 1)..e /\ en[x] = inp[en[x].n]
      /\ \A y \in (d + 1)..e : \E x \in (d + 1)..e : en[x].n = y
      /\ \A x, y \in (d + 1)..e : x < y => <<en[x].n, en[y].n>> \in ord
  BY DEF InSorted
<1>7. PICK P : P = LeftGoes(l, r)
  OBVIOUS
<1>8. Taking(a, b, P, tk)
  BY <1>7
<1>10. Rising(l, a, ord)
  <2> SUFFICES ASSUME NEW u \in 1..a, NEW j \in 1..a, u < j PROVE <<l[u].n, l[j].n>> \in ord
    BY DEF Rising
  <2>1. PICK x \in c..d, y \in c..d : x = c + u - 1 /\ y = c + j - 1
    BY <1>3
  <2>2. x < y /\ l[u] = en[x] /\ l[j] = en[y]
    BY <2>1, <1>3
  <2> QED
    BY <2>2, <1>5
<1>11. Rising(r, b, ord)
  <2> SUFFICES ASSUME NEW u \in 1..b, NEW j \in 1..b, u < j PROVE <<r[u].n, r[j].n>> \in ord
    BY DEF Rising
  <2>1. PICK x \in (d + 1)..e, y \in (d + 1)..e : x = d + u /\ y = d + j
    BY <1>4
  <2>2. x < y /\ r[u] = en[x] /\ r[j] = en[y]
    BY <2>1, <1>4
  <2> QED
    BY <2>2, <1>6
<1>12. Chooses(a, b, P, l, r, ord)
  <2> SUFFICES ASSUME NEW u \in 1..a, NEW j \in 1..b
               PROVE  IF <<u, j>> \in P THEN <<l[u].n, r[j].n>> \in ord ELSE <<r[j].n, l[u].n>> \in ord
    BY DEF Chooses
  <2>1. PICK x, y : x = l[u].n /\ y = r[j].n
    OBVIOUS
  <2>2. x \in c..d /\ l[u] = inp[x]
    <3>1. PICK f \in c..d : l[u] = en[f]
      BY <1>3
    <3>2. en[f].n \in c..d /\ en[f] = inp[en[f].n]
      BY <1>5
    <3> QED
      BY <3>1, <3>2, <2>1
  <2>3. y \in (d + 1)..e /\ r[j] = inp[y]
    <3>1. PICK f \in (d + 1)..e : r[j] = en[f]
      BY <1>4
    <3>2. en[f].n \in (d + 1)..e /\ en[f] = inp[en[f].n]
      BY <1>6
    <3> QED
      BY <3>1, <3>2, <2>1
  <2>4. x \in 1..n /\ y \in 1..n /\ x < y
    BY <2>2, <2>3
  <2>5. <<u, j>> \in P <=> Sort!Before(inp[x].key, inp[y].key)
    <3>1. <<u, j>> \in Int \X Int /\ <<u, j>>[1] = u /\ <<u, j>>[2] = j
      OBVIOUS
    <3> QED
      BY <3>1, <2>2, <2>3, <1>7 DEF LeftGoes
  <2> QED
    BY <2>1, <2>4, <2>5, SMTT(30) DEF Ranks
<1>13. Rising(m, a + b, ord)
  BY <1>8, <1>10, <1>11, <1>12, MergeRises DEF Ranks
<1>14. /\ \A k \in 1..(a + b) : (\E u \in 1..a : m[k] = l[u]) \/ (\E j \in 1..b : m[k] = r[j])
       /\ \A u \in 1..a : \E k \in 1..(a + b) : m[k] = l[u]
       /\ \A j \in 1..b : \E k \in 1..(a + b) : m[k] = r[j]
  BY <1>8, MergeHasAll, SMTT(30)
<1>15. \A x \in c..e : x - c + 1 \in 1..(a + b) /\ out[x] = m[x - c + 1]
  BY DEF IsPut
<1>16. \A k \in 1..(a + b) : c + k - 1 \in c..e /\ (c + k - 1) - c + 1 = k
  OBVIOUS
<1>17. ASSUME NEW x \in c..e PROVE out[x].n \in c..e /\ out[x] = inp[out[x].n]
  <2>1. PICK k \in 1..(a + b) : out[x] = m[k]
    BY <1>15
  <2>2. CASE \E u \in 1..a : m[k] = l[u]
    <3>1. PICK u \in 1..a : m[k] = l[u]
      BY <2>2
    <3>a. PICK z \in c..d : l[u] = en[z]
      BY <1>3
    <3>2. l[u].n \in c..d /\ l[u] = inp[l[u].n]
      BY <3>a, <1>5
    <3> QED
      BY <3>1, <3>2, <2>1
  <2>3. CASE \E j \in 1..b : m[k] = r[j]
    <3>1. PICK j \in 1..b : m[k] = r[j]
      BY <2>3
    <3>a. PICK z \in (d + 1)..e : r[j] = en[z]
      BY <1>4
    <3>2. r[j].n \in (d + 1)..e /\ r[j] = inp[r[j].n]
      BY <3>a, <1>6
    <3> QED
      BY <3>1, <3>2, <2>1
  <2> QED
    BY <2>2, <2>3, <1>14
<1>18. ASSUME NEW y \in c..e PROVE \E x \in c..e : out[x].n = y
  <2>1. \E k \in 1..(a + b) : m[k].n = y
    <3>2. CASE y <= d
      <4>1. PICK x \in c..d : en[x].n = y
        BY <3>2, <1>5
      <4>2. x - c + 1 \in 1..a /\ c + (x - c + 1) - 1 = x
        OBVIOUS
      <4>3. l[x - c + 1] = en[x]
        BY <4>2, <1>3
      <4>4. PICK k \in 1..(a + b) : m[k] = l[x - c + 1]
        BY <4>2, <1>14
      <4> QED
        BY <4>1, <4>3, <4>4
    <3>3. CASE ~(y <= d)
      <4>1. PICK x \in (d + 1)..e : en[x].n = y
        BY <3>3, <1>6
      <4>2. x - d \in 1..b /\ d + (x - d) = x
        OBVIOUS
      <4>3. r[x - d] = en[x]
        BY <4>2, <1>4
      <4>4. PICK k \in 1..(a + b) : m[k] = r[x - d]
        BY <4>2, <1>14
      <4> QED
        BY <4>1, <4>3, <4>4
    <3> QED
      BY <3>2, <3>3
  <2>2. PICK k \in 1..(a + b) : m[k].n = y
    BY <2>1
  <2>3. PICK x \in c..e : x = c + k - 1
    BY <1>16
  <2>4. out[x] = m[k]
    BY <2>3, <1>15, <1>16
  <2> QED
    BY <2>2, <2>4
<1>19. ASSUME NEW x \in c..e, NEW y \in c..e, x < y PROVE <<out[x].n, out[y].n>> \in ord
  <2>1. x - c + 1 < y - c + 1
    BY <1>19
  <2> QED
    BY <2>1, <1>13, <1>15 DEF Rising
<1> QED
  BY <1>17, <1>18, <1>19 DEF InSorted

IsMergedIn(out, n, s, en, m) ==
  out = [x \in 1..n |-> IF x \in s[1]..s[2] THEN m[x - s[1] + 1] ELSE en[x]]

\* Two halves that are next to each other.
LEMMA MergePuts ==
  ASSUME NEW n \in Nat, NEW inp, NEW ord, Ranks(n, inp, ord), NEW E, NEW en \in [1..n -> E],
         NEW c \in Int, NEW d \in Int, NEW e \in Int, 1 <= c, c <= d, d < e, e <= n,
         InSorted(en, inp, ord, <<c, d>>), InSorted(en, inp, ord, <<d + 1, e>>),
         NEW out, IsPut(out, Sort!Merged(SubSeq(en, c, d), SubSeq(en, d + 1, e)), c, e)
  PROVE  InSorted(out, inp, ord, <<c, e>>)
<1>1. PICK l : l = SubSeq(en, c, d)
  OBVIOUS
<1>2. PICK r : r = SubSeq(en, d + 1, e)
  OBVIOUS
<1>3. PICK a \in Nat, b \in Nat : a = d - c + 1 /\ b = e - d
  OBVIOUS
<1>4. Len(l) = a /\ IsPart(l, en, c, a)
  BY <1>1, <1>3, PartIs DEF IsPart
<1>5. Len(r) = b /\ IsPart(r, en, d + 1, b)
  <2>1. e - (d + 1) + 1 = b /\ d + 1 \in Int /\ 1 <= d + 1 /\ d + 1 <= e
    BY <1>3
  <2> QED
    BY <2>1, <1>2, PartIs DEF IsPart
<1>6. PICK tk : tk = Sort!FromLeft(l, r)
  OBVIOUS
<1>7. PICK m : m = Sort!Merged(l, r)
  OBVIOUS
<1>8. Taking(a, b, LeftGoes(l, r), tk)
  BY <1>4, <1>5, <1>6, FromLeftTakes
<1>9. Picks(a, b, tk, l, r, m)
  BY <1>4, <1>5, <1>6, <1>7, MergedIs
<1>10. IsPut(out, m, c, e)
  BY <1>1, <1>2, <1>7
<1> QED
  BY <1>3, <1>4, <1>5, <1>8, <1>9, <1>10, MergedInOrder

LEMMA MergeData ==
  ASSUME MaxFiles \in Nat, NEW n \in Nat, NEW sg, NEW tg, NEW en, NEW hv, NEW hw, NEW inp, NEW ord, NEW out,
         Tree(n, sg), Data(n, sg, en, hv, inp, ord), Ranks(n, inp, ord),
         NEW s \in Sort!Segments, sg[s] = "copied", tg = [sg EXCEPT ![s] = "done"],
         hw = [hv EXCEPT ![s] = <<>>],
         IsMergedIn(out, n, s, en, Sort!Merged(hv[s][1], hv[s][2]))
  PROVE  Data(n, tg, out, hw, inp, ord)
<1>1. sg \in [Sort!Segments -> Statuses] /\ s[2] <= n /\ s[1] < s[2]
  BY DEF Tree
<1>2. tg[s] = "done" /\ \A a \in Sort!Segments : a # s => tg[a] = sg[a]
  BY <1>1
<1>3. DOMAIN hw = Sort!Segments /\ \A a \in Sort!Segments : a # s => hw[a] = hv[a]
  BY DEF Data
<1>4. PICK c \in Int, d \in Int, e \in Int : c = s[1] /\ d = Sort!Mid(s) /\ e = s[2]
  BY <1>1, SegmentIs, HalvesAre
<1>5. 1 <= c /\ c <= d /\ d < e /\ e <= n /\ s = <<c, e>>
  BY <1>1, <1>4, SegmentIs, HalvesAre
<1>6. Sort!Left(s) = <<c, d>> /\ Sort!Right(s) = <<d + 1, e>>
  BY <1>4 DEF Sort!Left, Sort!Right
<1>7. InSorted(en, inp, ord, <<c, d>>) /\ InSorted(en, inp, ord, <<d + 1, e>>)
  <2>1. Half(<<c, d>>, s) /\ Half(<<d + 1, e>>, s)
    BY <1>1, <1>6 DEF Half
  <2>2. Maximal(sg, <<c, d>>) /\ Maximal(sg, <<d + 1, e>>)
    BY <2>1, HalvesAreMaximal
  <2>3. <<c, d>> \in Sort!Segments /\ <<d + 1, e>> \in Sort!Segments
    BY <2>1, HalfIs
  <2> QED
    BY <2>2, <2>3 DEF Data
<1>8. PICK m : m = Sort!Merged(SubSeq(en, c, d), SubSeq(en, d + 1, e))
  OBVIOUS
<1>9. Sort!Merged(hv[s][1], hv[s][2]) = m
  <2>1. hv[s] = <<SubSeq(en, c, d), SubSeq(en, d + 1, e)>>
    BY <1>4 DEF Data, HalvesOf
  <2> QED
    BY <2>1, <1>8
<1>10. /\ out = [x \in 1..n |-> out[x]]
       /\ \A x \in c..e : x \in 1..n /\ out[x] = m[x - c + 1]
       /\ \A x \in 1..n : x \notin c..e => out[x] = en[x]
  BY <1>4, <1>5, <1>9 DEF IsMergedIn
<1>e. en \in [1..n -> {inp[x] : x \in 1..n}]
  BY DEF Data
<1>11. InSorted(out, inp, ord, s)
  <2>1. IsPut(out, m, c, e)
    BY <1>10 DEF IsPut
  <2> QED
    BY <2>1, <1>5, <1>7, <1>8, <1>e, MergePuts
<1>12. out \in [1..n -> {inp[x] : x \in 1..n}]
  <2>1. \A x \in c..e : out[x].n \in c..e /\ out[x] = inp[out[x].n]
    BY <1>4, <1>11 DEF InSorted
  <2>2. \A x \in c..e : out[x] \in {inp[y] : y \in 1..n}
    BY <2>1, <1>5
  <2>3. \A x \in 1..n : out[x] \in {inp[y] : y \in 1..n}
    BY <2>2, <1>10, <1>e
  <2> QED
    BY <2>3, <1>10
<1>E. PICK E : en \in [1..n -> E] /\ out \in [1..n -> E]
  BY <1>12, <1>e
<1>13. ASSUME NEW x \in 1..n, Untouched(tg, x) PROVE out[x] = inp[x]
  <2>1. x \notin c..e
    BY <1>2, <1>4, <1>13 DEF Untouched
  <2>2. Untouched(sg, x)
    BY <1>2, <1>13 DEF Untouched
  <2> QED
    BY <2>1, <2>2, <1>10 DEF Data
\* What is elsewhere is not touched.
<1>14. ASSUME NEW a \in Sort!Segments, sg[a] # "idle", a[2] <= n, Apart(a, s)
       PROVE  \A x \in a[1]..a[2] : x \in 1..n /\ out[x] = en[x]
  <2>1. a[1] \in Int /\ a[2] \in Int /\ 1 <= a[1]
    BY SegmentIs
  <2>2. a[2] < c \/ e < a[1]
    BY <1>4, <1>14 DEF Apart
  <2> QED
    BY <2>1, <2>2, <1>10, <1>14
<1>15. ASSUME NEW a \in Sort!Segments, tg[a] = "copied" PROVE hw[a] = HalvesOf(out, a)
  <2>1. a # s /\ sg[a] = "copied" /\ hw[a] = HalvesOf(en, a)
    BY <1>2, <1>3, <1>15 DEF Data
  <2>2. Apart(a, s)
    <3>1. Nested(a, s)
      BY <2>1 DEF Tree
    <3>2. ~Under(a, s)
      <4> SUFFICES ASSUME Under(a, s) PROVE FALSE
        OBVIOUS
      <4>1. Within(a, s)
        BY HalfIs, WithinIs DEF Under
      <4> QED
        BY <4>1, <2>1, InsideIsDone
    <3>3. ~Under(s, a)
      <4> SUFFICES ASSUME Under(s, a) PROVE FALSE
        OBVIOUS
      <4>1. Within(s, a)
        BY HalfIs, WithinIs DEF Under
      <4> QED
        BY <4>1, <2>1, InsideIsDone
    <3> QED
      BY <3>1, <3>2, <3>3, <2>1 DEF Nested
  <2>3. a[2] <= n /\ a[1] < a[2]
    BY <2>1 DEF Tree
  <2>4. \A x \in a[1]..a[2] : x \in 1..n /\ out[x] = en[x]
    BY <2>1, <2>2, <2>3, <1>14
  <2>5. PICK f \in Int, g \in Int, h \in Int : f = a[1] /\ g = Sort!Mid(a) /\ h = a[2]
    BY <2>3, SegmentIs, HalvesAre
  <2>6. 1 <= f /\ f <= g /\ g < h /\ h <= n
    BY <2>3, <2>5, SegmentIs, HalvesAre
  <2>7. SubSeq(out, f, g) = SubSeq(en, f, g)
    <3>1. g <= n /\ \A x \in f..g : out[x] = en[x]
      BY <2>4, <2>5, <2>6
    <3> QED
      BY <3>1, <2>6, <1>E, SamePart, SMTT(30)
  <2>8. SubSeq(out, g + 1, h) = SubSeq(en, g + 1, h)
    <3>1. PICK z \in Int : z = g + 1
      OBVIOUS
    <3>2. 1 <= z /\ z <= h /\ \A x \in z..h : out[x] = en[x]
      BY <3>1, <2>4, <2>5, <2>6, SMTT(30)
    <3>3. SubSeq(out, z, h) = SubSeq(en, z, h)
      BY <3>2, <2>6, <1>E, SamePart, SMTT(30)
    <3> QED
      BY <3>1, <3>3
  <2> QED
    BY <2>1, <2>5, <2>7, <2>8 DEF HalvesOf
<1>16. ASSUME NEW a \in Sort!Segments, Maximal(tg, a), a # s PROVE InSorted(out, inp, ord, a)
  <2>1. sg[a] = "done" /\ Maximal(sg, a)
    BY <1>2, <1>16 DEF Maximal
  <2>2. ~Within(a, s)
    BY <1>2, <1>16 DEF Maximal
  <2>3. Apart(a, s)
    <3>1. Nested(a, s)
      BY <2>1 DEF Tree
    <3>2. ~Under(a, s)
      BY <2>2, HalfIs, WithinIs DEF Under
    <3>3. ~Under(s, a)
      <4> SUFFICES ASSUME Under(s, a) PROVE FALSE
        OBVIOUS
      <4>1. Within(s, a)
        BY HalfIs, WithinIs DEF Under
      <4> QED
        BY <4>1, <2>1 DEF Tree
    <3> QED
      BY <3>1, <3>2, <3>3, <1>16 DEF Nested
  <2>4. \A x \in a[1]..a[2] : x \in 1..n /\ out[x] = en[x]
    <3>1. a[2] <= n
      BY <2>1 DEF Tree
    <3> QED
      BY <3>1, <2>1, <2>3, <1>14
  <2>5. InSorted(en, inp, ord, a)
    BY <2>1 DEF Data
  <2> QED
    BY <2>4, <2>5 DEF InSorted
<1>17. \A a \in Sort!Segments : Maximal(tg, a) => InSorted(out, inp, ord, a)
  BY <1>11, <1>16
<1> QED
  BY <1>3, <1>12, <1>13, <1>15, <1>17 DEF Data


-----------------------------------------------------------------------------
(* The order of the entries that were read, when all of them have a key.   *)

BeforeOf(x, y) == Sort!Before(input[x].key, input[y].key)
Ord == {p \in (1..Sort!N) \X (1..Sort!N) : BeforeOf(p[1], p[2]) /\ (BeforeOf(p[2], p[1]) => p[1] < p[2])}

LEMMA BeforeOrders ==
  ASSUME Sort!SortAssumption, column \in DOMAIN Sort!Keys,
         NEW K, \A k \in K : k \in Sort!Keys[column] /\ (column = "Timestamp" => ~k.bad)
  PROVE  /\ \A k, m \in K : Sort!Before(k, m) \/ Sort!Before(m, k)
         /\ \A k, m, z \in K : Sort!Before(k, m) /\ Sort!Before(m, z) => Sort!Before(k, z)
<1>1. CASE column = "ID"
  <2>1. \A k \in K : k.id \in Int
    BY <1>1, Columns DEF Sort!SortAssumption
  <2>2. \A k, m \in K : Sort!Before(k, m) <=> k.id <= m.id
    BY <1>1 DEF Sort!Before
  <2> QED
    BY <2>1, <2>2
<1>2. CASE column = "Name"
  <2>1. \A k \in K : k.first \in Int /\ k.rest \in Int
    <3> TAKE k \in K
    <3>1. k \in [first : Chars, rest : Chars]
      BY <1>2, Columns
    <3> QED
      BY <3>1 DEF Sort!SortAssumption
  <2>2. \A k, m \in K : Sort!Before(k, m) <=> k.first < m.first \/ (k.first = m.first /\ k.rest <= m.rest)
    BY <1>2 DEF Sort!Before
  <2> QED
    BY <2>1, <2>2
<1>3. CASE column = "Timestamp"
  <2>1. \A k \in K : ~k.bad /\ k.time \in Int
    <3> TAKE k \in K
    <3>1. ~k.bad
      BY <1>3
    <3>2. k \in [time : Time, bad : {FALSE}] \/ k = [time |-> 0, bad |-> TRUE]
      BY <1>3, Columns
    <3>a. k # [time |-> 0, bad |-> TRUE]
      <4> SUFFICES ASSUME k = [time |-> 0, bad |-> TRUE] PROVE FALSE
        OBVIOUS
      <4>1. k.bad
        OBVIOUS
      <4> QED
        BY <4>1, <3>1
    <3>3. k \in [time : Time, bad : {FALSE}]
      BY <3>2, <3>a
    <3> QED
      BY <3>1, <3>3 DEF Sort!SortAssumption
  <2>2. \A k, m \in K : Sort!Before(k, m) <=> k.time <= m.time
    BY <1>3, <2>1 DEF Sort!Before
  <2> QED
    BY <2>1, <2>2
<1> QED
  BY <1>1, <1>2, <1>3, Columns

LEMMA OrdRanks ==
  ASSUME Sort!SortAssumption, SortInput, Sort!AllParse
  PROVE  Ranks(Sort!N, input, Ord)
<1>1. PICK n \in Nat : n = Sort!N
  BY InputIs
<1>2. \A x \in 1..n : input[x].key \in Sort!Keys[column] /\ (column = "Timestamp" => ~input[x].key.bad)
  BY <1>1, InputIs DEF Sort!AllParse
<1>3. column \in DOMAIN Sort!Keys
  BY DEF SortInput
<1>4. PICK K : K = {input[x].key : x \in 1..n}
  OBVIOUS
<1>5. /\ \A k, m \in K : Sort!Before(k, m) \/ Sort!Before(m, k)
      /\ \A k, m, z \in K : Sort!Before(k, m) /\ Sort!Before(m, z) => Sort!Before(k, z)
  <2>1. \A k \in K : k \in Sort!Keys[column] /\ (column = "Timestamp" => ~k.bad)
    BY <1>2, <1>4
  <2> QED
    BY <2>1, <1>3, BeforeOrders
<1>6. /\ \A x, y \in 1..n : BeforeOf(x, y) \/ BeforeOf(y, x)
      /\ \A x, y, z \in 1..n : BeforeOf(x, y) /\ BeforeOf(y, z) => BeforeOf(x, z)
  BY <1>4, <1>5 DEF BeforeOf
<1>7. \A x, y : <<x, y>> \in Ord <=> /\ x \in 1..n /\ y \in 1..n
                                     /\ BeforeOf(x, y) /\ (BeforeOf(y, x) => x < y)
  BY <1>1 DEF Ord
<1>8. Transitive(Ord)
  <2> SUFFICES ASSUME NEW x, NEW y, NEW z, <<x, y>> \in Ord, <<y, z>> \in Ord PROVE <<x, z>> \in Ord
    BY DEF Transitive
  <2>1. /\ x \in 1..n /\ y \in 1..n /\ z \in 1..n /\ BeforeOf(x, y) /\ BeforeOf(y, z)
        /\ BeforeOf(y, x) => x < y
        /\ BeforeOf(z, y) => y < z
    BY <1>7
  <2>2. BeforeOf(x, z)
    BY <2>1, <1>6
  <2>3. BeforeOf(z, x) => BeforeOf(y, x) /\ BeforeOf(z, y)
    BY <2>1, <1>6
  <2>4. BeforeOf(z, x) => x < z
    BY <2>1, <2>3
  <2> QED
    BY <2>1, <2>2, <2>4, <1>7
<1>9. \A x, y \in 1..n :
        x < y => IF Sort!Before(input[x].key, input[y].key) THEN <<x, y>> \in Ord ELSE <<y, x>> \in Ord
  <2> TAKE x, y \in 1..n
  <2> HAVE x < y
  <2>1. Sort!Before(input[x].key, input[y].key) <=> BeforeOf(x, y)
    BY DEF BeforeOf
  <2> QED
    BY <2>1, <1>6, <1>7
<1> QED
  BY <1>1, <1>8, <1>9 DEF Ranks

-----------------------------------------------------------------------------
(* The invariant of the merge sort.                                        *)

RootOf(m) == <<1, m>>
MergeInv ==
  /\ Sort!CountSort => segment = [s \in Sort!Segments |-> "idle"]
  /\ ~Sort!CountSort =>
       /\ Tree(Sort!N, segment) /\ InTurn(segment)
       /\ result \in {"", "success"} /\ (result = "success" <=> segment[RootOf(Sort!N)] = "done")
       /\ Len(entries) = Sort!N
       /\ Sort!AllParse => Data(Sort!N, segment, entries, halves, input, Ord)

LEMMA OrdFixed == ASSUME column' = column, input' = input PROVE Ord' = Ord
<1>1. Sort!N' = Sort!N
  BY SortFixed
<1>2. \A x, y : BeforeOf(x, y)' <=> BeforeOf(x, y)
  BY DEF BeforeOf, Sort!Before
<1> QED
  BY <1>1, <1>2 DEF Ord

LEMMA MergeInvIs ==
  ASSUME ~Sort!CountSort, column' = column, input' = input,
         Tree(Sort!N, segment'), InTurn(segment'),
         result' \in {"", "success"}, result' = "success" <=> segment'[RootOf(Sort!N)] = "done",
         Len(entries') = Sort!N,
         Sort!AllParse => Data(Sort!N, segment', entries', halves', input, Ord)
  PROVE  MergeInv'
BY SortFixed, OrdFixed DEF MergeInv

LEMMA MergeInvStarts ==
  ASSUME Sort!SortAssumption, SortInput, Sort!Init PROVE MergeInv
<1>1. /\ entries = input /\ result = "" /\ halves = [s \in Sort!Segments |-> <<>>]
      /\ segment = [s \in Sort!Segments |-> IF ~Sort!CountSort /\ s = <<1, Sort!N>> THEN "running" ELSE "idle"]
  BY DEF Sort!Init
<1>2. CASE Sort!CountSort
  <2>1. segment = [s \in Sort!Segments |-> "idle"]
    BY <1>1, <1>2
  <2> QED
    BY <2>1, <1>2 DEF MergeInv
<1>3. CASE ~Sort!CountSort
  <2>1. PICK n : n = Sort!N
    OBVIOUS
  <2>2. n \in 1..MaxFiles /\ MaxFiles \in Nat
    BY <2>1, InputIs DEF Sort!SortAssumption
  <2>3. segment = [s \in Sort!Segments |-> IF s = <<1, n>> THEN "running" ELSE "idle"]
    BY <1>1, <1>3, <2>1
  <2>4. Tree(n, segment) /\ InTurn(segment)
    BY <2>2, <2>3, TreeStarts
  <2>5. \A s \in Sort!Segments : segment[s] # "done" /\ segment[s] # "copied"
    BY <2>3
  <2>6. segment[RootOf(n)] # "done"
    BY <2>4, <2>5 DEF Tree, RootOf
  <2>7. entries \in [1..n -> {input[x] : x \in 1..n}]
    BY <1>1, <2>1, InputIs DEF Originals
  <2>8. DOMAIN halves = Sort!Segments
    BY <1>1
  <2>9. \A s \in Sort!Segments : ~Maximal(segment, s)
    BY <2>5 DEF Maximal
  <2>10. Data(n, segment, entries, halves, input, Ord)
    BY <1>1, <2>5, <2>7, <2>8, <2>9 DEF Data
  <2>11. Len(entries) = n
    BY <1>1, <2>1 DEF Sort!N
  <2> QED
    BY <1>1, <1>3, <2>1, <2>4, <2>6, <2>10, <2>11 DEF MergeInv
<1> QED
  BY <1>2, <1>3

\* What a segment that is sorted by merge_sort() knows.
LEMMA Merging ==
  ASSUME Sort!SortAssumption, SortInput, MergeInv, NEW s \in Sort!Segments, segment[s] # "idle"
  PROVE  /\ MaxFiles \in Nat /\ Sort!N \in Nat /\ ~Sort!CountSort
         /\ Tree(Sort!N, segment) /\ InTurn(segment)
         /\ result \in {"", "success"} /\ (result = "success" <=> segment[RootOf(Sort!N)] = "done")
         /\ Len(entries) = Sort!N
         /\ Sort!AllParse => Data(Sort!N, segment, entries, halves, input, Ord)
<1>1. ~Sort!CountSort
  BY DEF MergeInv
<1>2. MaxFiles \in Nat
  BY DEF Sort!SortAssumption
<1>3. Sort!N \in Nat
  BY InputIs
<1> QED
  BY <1>1, <1>2, <1>3, ZenonT(40) DEF MergeInv

\* The steps that begin something end nothing.
LEMMA StartsMerge ==
  ASSUME Sort!SortAssumption, SortInput, MergeInv, NEW s \in Sort!Segments, segment[s] # "idle",
         Tree(Sort!N, segment'), InTurn(segment'),
         \A a \in Sort!Segments : /\ segment'[a] = "done" <=> segment[a] = "done"
                                  /\ segment'[a] = "copied" <=> segment[a] = "copied",
         UNCHANGED <<column, entries, input, halves, result>>
  PROVE  MergeInv'
<1>1. /\ ~Sort!CountSort /\ Tree(Sort!N, segment)
      /\ result \in {"", "success"} /\ (result = "success" <=> segment[RootOf(Sort!N)] = "done")
      /\ Len(entries) = Sort!N
      /\ Sort!AllParse => Data(Sort!N, segment, entries, halves, input, Ord)
  BY Merging
<1>2. Sort!AllParse => Data(Sort!N, segment', entries, halves, input, Ord)
  BY <1>1, SameData
<1>3. RootOf(Sort!N) \in Sort!Segments
  BY <1>1 DEF Tree, RootOf
<1>4. result' = "success" <=> segment'[RootOf(Sort!N)] = "done"
  BY <1>1, <1>3
<1>5. /\ column' = column /\ input' = input /\ entries' = entries /\ halves' = halves
      /\ result' \in {"", "success"} /\ Len(entries') = Sort!N
  BY <1>1
<1>6. Sort!AllParse => Data(Sort!N, segment', entries', halves', input, Ord)
  BY <1>2, <1>5
<1> QED
  BY <1>1, <1>4, <1>5, <1>6, MergeInvIs

LEMMA SplitMerges ==
  ASSUME Sort!SortAssumption, SortInput, MergeInv, NEW s \in Sort!Segments, Sort!Split(s)
  PROVE  MergeInv'
<1>1. /\ segment[s] = "running" /\ s[1] < s[2] /\ segment[Sort!Left(s)] = "idle"
      /\ IsSplit(segment, segment', s)
      /\ UNCHANGED <<column, entries, input, halves, result>>
  BY DEF Sort!Split, Sort!MaySplit, IsSplit
<1>2. segment[s] # "idle"
  BY <1>1
<1>3. MaxFiles \in Nat /\ Tree(Sort!N, segment) /\ InTurn(segment)
  BY <1>2, Merging
<1>4. /\ Tree(Sort!N, segment') /\ InTurn(segment')
      /\ \A a \in Sort!Segments : /\ segment'[a] = "done" <=> segment[a] = "done"
                                  /\ segment'[a] = "copied" <=> segment[a] = "copied"
  BY <1>1, <1>3, SegmentSplits
<1> QED
  BY <1>1, <1>2, <1>4, StartsMerge

LEMMA SecondHalfMerges ==
  ASSUME Sort!SortAssumption, SortInput, MergeInv, NEW s \in Sort!Segments, Sort!SecondHalf(s)
  PROVE  MergeInv'
<1>1. /\ segment[s] = "running" /\ s[1] < s[2]
      /\ segment[Sort!Left(s)] = "done" /\ segment[Sort!Right(s)] = "idle"
      /\ IsSecond(segment, segment', s)
      /\ UNCHANGED <<column, entries, input, halves, result>>
  BY DEF Sort!SecondHalf, Sort!MayGoOn, IsSecond
<1>2. segment[s] # "idle"
  BY <1>1, SMTT(30)
<1>3. MaxFiles \in Nat /\ Tree(Sort!N, segment) /\ InTurn(segment)
  BY <1>2, Merging
<1>4. /\ Tree(Sort!N, segment') /\ InTurn(segment')
      /\ \A a \in Sort!Segments : /\ segment'[a] = "done" <=> segment[a] = "done"
                                  /\ segment'[a] = "copied" <=> segment[a] = "copied"
  BY <1>1, <1>3, SecondHalfStarts
<1> QED
  BY <1>1, <1>2, <1>4, StartsMerge

LEMMA SingleMerges ==
  ASSUME Sort!SortAssumption, SortInput, MergeInv, NEW s \in Sort!Segments, Sort!Single(s)
  PROVE  MergeInv'
<1>1. /\ segment[s] = "running" /\ s[1] = s[2] /\ segment' = [segment EXCEPT ![s] = "done"]
      /\ result' = IF s = <<1, Sort!N>> THEN "success" ELSE result
      /\ UNCHANGED <<column, entries, input, halves>>
  BY DEF Sort!Single, Sort!IsSingle
<1>2. segment[s] # "idle"
  BY <1>1
<1>3. /\ MaxFiles \in Nat /\ Sort!N \in Nat /\ ~Sort!CountSort
      /\ Tree(Sort!N, segment) /\ InTurn(segment)
      /\ result \in {"", "success"} /\ (result = "success" <=> segment[RootOf(Sort!N)] = "done")
      /\ Len(entries) = Sort!N
      /\ Sort!AllParse => Data(Sort!N, segment, entries, halves, input, Ord)
  BY <1>2, Merging
<1>4. Tree(Sort!N, segment')
  BY <1>1, <1>3, SegmentEnds
<1>5. /\ result' \in {"", "success"} /\ (result' = "success" <=> segment'[RootOf(Sort!N)] = "done")
  <2>1. RootOf(Sort!N) \in Sort!Segments /\ RootOf(Sort!N) = <<1, Sort!N>>
    BY <1>3 DEF Tree, RootOf
  <2>2. segment'[s] = "done" /\ \A a \in Sort!Segments : a # s => segment'[a] = segment[a]
    BY <1>1, <1>3 DEF Tree
  <2> QED
    BY <2>1, <2>2, <1>1, <1>3
<1>6. InTurn(segment')
  <2>1. \A a \in Sort!Segments : segment'[a] = "idle" <=> segment[a] = "idle"
    BY <1>1, <1>3 DEF Tree
  <2> QED
    BY <2>1, <1>3, StillInTurn
<1>7. Sort!AllParse => Data(Sort!N, segment', entries, halves, input, Ord)
  <2>1. \A x \in 1..Sort!N : input[x].n = x
    BY InputIs
  <2> QED
    BY <2>1, <1>1, <1>3, SingleData
<1>8. Sort!AllParse => Data(Sort!N, segment', entries', halves', input, Ord)
  BY <1>1, <1>7
<1>9. Len(entries') = Sort!N /\ column' = column /\ input' = input
  BY <1>1, <1>3
<1> QED
  BY <1>3, <1>4, <1>5, <1>6, <1>8, <1>9, MergeInvIs

LEMMA CopyMerges ==
  ASSUME Sort!SortAssumption, SortInput, MergeInv, NEW s \in Sort!Segments, Sort!Copy(s)
  PROVE  MergeInv'
<1>1. /\ segment[s] = "running" /\ s[1] < s[2]
      /\ segment[Sort!Left(s)] = "done" /\ segment[Sort!Right(s)] = "done"
      /\ segment' = [segment EXCEPT ![s] = "copied"]
      /\ halves' = [halves EXCEPT ![s] = HalvesOf(entries, s)]
      /\ UNCHANGED <<column, entries, input, result>>
  BY DEF Sort!Copy, Sort!Sorts, Sort!Joined, HalvesOf
<1>2. segment[s] # "idle"
  BY <1>1, SMTT(30)
<1>3. /\ MaxFiles \in Nat /\ Sort!N \in Nat /\ ~Sort!CountSort
      /\ Tree(Sort!N, segment) /\ InTurn(segment)
      /\ result \in {"", "success"} /\ (result = "success" <=> segment[RootOf(Sort!N)] = "done")
      /\ Len(entries) = Sort!N
      /\ Sort!AllParse => Data(Sort!N, segment, entries, halves, input, Ord)
  BY <1>2, Merging
<1>4. Tree(Sort!N, segment')
  BY <1>1, <1>3, SegmentCopies
<1>5. /\ segment'[s] = "copied" /\ \A a \in Sort!Segments : a # s => segment'[a] = segment[a]
      /\ RootOf(Sort!N) \in Sort!Segments
  BY <1>1, <1>3 DEF Tree, RootOf
<1>6. result' \in {"", "success"} /\ (result' = "success" <=> segment'[RootOf(Sort!N)] = "done")
  BY <1>1, <1>3, <1>5, ZenonT(40)
<1>7. InTurn(segment')
  <2>1. \A a \in Sort!Segments : segment'[a] = "idle" <=> segment[a] = "idle"
    BY <1>2, <1>5
  <2> QED
    BY <2>1, <1>3, StillInTurn
<1>8. Sort!AllParse => Data(Sort!N, segment', entries, halves', input, Ord)
  BY <1>1, <1>3, CopyData
<1>9. Sort!AllParse => Data(Sort!N, segment', entries', halves', input, Ord)
  BY <1>1, <1>8
<1>10. Len(entries') = Sort!N /\ column' = column /\ input' = input
  BY <1>1, <1>3
<1> QED
  BY <1>3, <1>4, <1>6, <1>7, <1>9, <1>10, MergeInvIs

LEMMA MergeMerges ==
  ASSUME Sort!SortAssumption, SortInput, MergeInv, NEW s \in Sort!Segments, Sort!Merge(s)
  PROVE  MergeInv'
<1>1. /\ segment[s] = "copied" /\ segment' = [segment EXCEPT ![s] = "done"]
      /\ halves' = [halves EXCEPT ![s] = <<>>]
      /\ result' = IF s = <<1, Sort!N>> THEN "success" ELSE result
      /\ IsMergedIn(entries', Sort!N, s, entries, Sort!Merged(halves[s][1], halves[s][2]))
      /\ UNCHANGED <<column, input>>
  BY DEF Sort!Merge, IsMergedIn
<1>2. segment[s] # "idle"
  BY <1>1, SMTT(30)
<1>3. /\ MaxFiles \in Nat /\ Sort!N \in Nat /\ ~Sort!CountSort
      /\ Tree(Sort!N, segment) /\ InTurn(segment)
      /\ result \in {"", "success"} /\ (result = "success" <=> segment[RootOf(Sort!N)] = "done")
      /\ Len(entries) = Sort!N
      /\ Sort!AllParse => Data(Sort!N, segment, entries, halves, input, Ord)
  BY <1>2, Merging
<1>4. Tree(Sort!N, segment')
  BY <1>1, <1>3, SegmentEnds
<1>5. /\ result' \in {"", "success"} /\ (result' = "success" <=> segment'[RootOf(Sort!N)] = "done")
  <2>1. RootOf(Sort!N) \in Sort!Segments /\ RootOf(Sort!N) = <<1, Sort!N>>
    BY <1>3 DEF Tree, RootOf
  <2>2. segment'[s] = "done" /\ \A a \in Sort!Segments : a # s => segment'[a] = segment[a]
    BY <1>1, <1>3, ZenonT(40) DEF Tree
  <2> QED
    BY <2>1, <2>2, <1>1, <1>3, ZenonT(40)
<1>6. InTurn(segment')
  <2>1. \A a \in Sort!Segments : segment'[a] = "idle" <=> segment[a] = "idle"
    BY <1>1, <1>3 DEF Tree
  <2> QED
    BY <2>1, <1>3, StillInTurn
<1>7. Sort!AllParse => Data(Sort!N, segment', entries', halves', input, Ord)
  BY <1>1, <1>3, OrdRanks, MergeData
<1>8. Len(entries') = Sort!N
  <2>0. PICK n \in Nat : n = Sort!N
    BY <1>3
  <2>1. PICK out : out = entries'
    OBVIOUS
  <2>2. out = [x \in 1..n |-> out[x]]
    BY <2>0, <2>1, <1>1 DEF IsMergedIn
  <2>3. out \in Seq({out[x] : x \in 1..n}) /\ Len(out) = n
    BY <2>2
  <2> QED
    BY <2>0, <2>1, <2>3
<1> QED
  BY <1>1, <1>3, <1>4, <1>5, <1>6, <1>7, <1>8, MergeInvIs


-----------------------------------------------------------------------------
(* The sort keeps both invariants, and they say what it promises.          *)

SortInv == SortInput /\ CountInv /\ MergeInv

LEMMA SortStarts ==
  ASSUME Sort!SortAssumption, Sort!Init PROVE SortInv
<1>1. SortInput
  BY DEF Sort!Init, SortInput, Read
<1> QED
  BY <1>1, CountInvStarts, MergeInvStarts, SMTT(30) DEF SortInv

MergeStep ==
  \E s \in Sort!Segments : Sort!Split(s) \/ Sort!SecondHalf(s) \/ Sort!Single(s) \/ Sort!Copy(s) \/ Sort!Merge(s)

LEMMA MergeStepIs ==
  ASSUME Sort!SortAssumption, SortInput, MergeInv, MergeStep
  PROVE  MergeInv' /\ ~Sort!CountSort /\ UNCHANGED <<column, input, Sort!counting>>
<1>1. PICK s \in Sort!Segments :
        Sort!Split(s) \/ Sort!SecondHalf(s) \/ Sort!Single(s) \/ Sort!Copy(s) \/ Sort!Merge(s)
  BY DEF MergeStep
<1>2. segment[s] # "idle" /\ UNCHANGED <<column, input, Sort!counting>>
  <2>1. CASE Sort!Split(s)
    BY <2>1 DEF Sort!Split, Sort!MaySplit
  <2>2. CASE Sort!SecondHalf(s)
    BY <2>2 DEF Sort!SecondHalf, Sort!MayGoOn
  <2>3. CASE Sort!Single(s)
    BY <2>3 DEF Sort!Single, Sort!IsSingle
  <2>4. CASE Sort!Copy(s)
    BY <2>4 DEF Sort!Copy, Sort!Sorts
  <2>5. CASE Sort!Merge(s)
    BY <2>5 DEF Sort!Merge
  <2> QED
    BY <1>1, <2>1, <2>2, <2>3, <2>4, <2>5
<1>3. MergeInv'
  BY <1>1, SplitMerges, SecondHalfMerges, SingleMerges, CopyMerges, MergeMerges
<1> QED
  BY <1>2, <1>3, Merging

LEMMA SortStep ==
  ASSUME Sort!SortAssumption, SortInv, Sort!Next PROVE SortInv'
<1>1. CountStep \/ MergeStep
  BY DEF Sort!Next, CountStep, MergeStep
<1>2. SortInput /\ CountInv /\ MergeInv
  BY DEF SortInv
<1>3. CASE CountStep
  <2>1. CountInv' /\ Sort!CountSort /\ UNCHANGED <<column, input, segment, halves>>
    BY <1>2, <1>3, CountStepIs
  <2>2. column' = column /\ input' = input /\ segment' = segment
    BY <2>1
  <2>3. SortInput' /\ Sort!CountSort'
    BY <2>1, <2>2, <1>2, SortFixed
  <2>4. segment' = [s \in Sort!Segments |-> "idle"]
    BY <2>1, <2>2, <1>2 DEF MergeInv
  <2>5. MergeInv'
    BY <2>3, <2>4 DEF MergeInv
  <2> QED
    BY <2>1, <2>3, <2>5 DEF SortInv
<1>4. CASE MergeStep
  <2>1. MergeInv' /\ ~Sort!CountSort /\ UNCHANGED <<column, input, Sort!counting>>
    BY <1>2, <1>4, MergeStepIs
  <2>2. CountInv'
    BY <2>1, <1>2, MergeKeepsCounts
  <2>3. SortInput'
    <3>1. column' = column /\ input' = input
      BY <2>1
    <3> QED
      BY <3>1, <1>2, SortFixed
  <2> QED
    BY <2>1, <2>2, <2>3 DEF SortInv
<1> QED
  BY <1>1, <1>3, <1>4

LEMMA SortStays ==
  ASSUME SortInv, UNCHANGED Sort!vars PROVE SortInv'
<1>1. /\ column' = column /\ entries' = entries /\ input' = input /\ made' = made /\ at' = at
      /\ next' = next /\ read' = read /\ counts' = counts /\ segment' = segment /\ halves' = halves
      /\ result' = result
  BY DEF Sort!vars, Sort!counting, Sort!merging
<1>2. SortInput' /\ (Sort!AllCounted' <=> Sort!AllCounted)
  BY <1>1, SortFixed DEF SortInv, Sort!AllCounted
<1>3. CountInv'
  BY <1>1, <1>2, SortFixed DEF SortInv, CountInv
<1>4. MergeInv'
  BY <1>1, SortFixed, OrdFixed DEF SortInv, MergeInv
<1> QED
  BY <1>2, <1>3, <1>4 DEF SortInv

LEMMA SortTypes ==
  ASSUME Sort!SortAssumption, SortInv PROVE Sort!TypeOK
<1>1. SortInput /\ CountInv /\ MergeInv
  BY DEF SortInv
<1>2. CountTypes
  BY <1>1, CountTypesHold
<1>3. Sort!N \in 1..MaxFiles
  BY <1>1, InputIs
<1>4. column \in DOMAIN Sort!Keys
  BY <1>1 DEF SortInput
<1>5. segment \in [Sort!Segments -> Statuses]
  BY <1>1 DEF MergeInv, Tree, Statuses
<1>6. Len(entries) = Sort!N /\ result \in {"", "success", "error", "undefined"}
  BY <1>1, <1>2 DEF MergeInv, CountTypes
<1> QED
  BY <1>2, <1>3, <1>4, <1>5, <1>6 DEF Sort!TypeOK, CountTypes, Statuses

LEMMA SortRuns ==
  ASSUME Sort!SortAssumption, SortInv PROVE Sort!Runs
<1>1. SortInput /\ CountInv /\ MergeInv
  BY DEF SortInv
<1>2. SUFFICES ASSUME result = "" PROVE Sort!Runs
  BY DEF Sort!Runs
<1>3. CASE Sort!CountSort
  BY <1>1, <1>2, <1>3, CountRuns DEF Sort!Runs
<1>4. CASE ~Sort!CountSort
  <2>1. Tree(Sort!N, segment) /\ InTurn(segment) /\ segment[RootOf(Sort!N)] # "done"
    BY <1>1, <1>2, <1>4 DEF MergeInv
  <2>2. MaxFiles \in Nat /\ segment[<<1, Sort!N>>] # "done"
    BY <2>1 DEF RootOf, Sort!SortAssumption
  <2>3. PICK s \in Sort!Segments :
           \/ segment[s] = "copied"
           \/ segment[s] = "running" /\ s[1] = s[2]
           \/ /\ segment[s] = "running" /\ s[1] < s[2]
              /\ \/ segment[Sort!Left(s)] = "idle"
                 \/ segment[Sort!Left(s)] = "done" /\ segment[Sort!Right(s)] = "idle" /\ ~Sort!Threaded(s)
                 \/ segment[Sort!Left(s)] = "done" /\ segment[Sort!Right(s)] = "done"
    BY <2>1, <2>2, SomeSegmentGoesOn
  <2>4. segment[s] = "copied" \/ Sort!MaySplit(s) \/ Sort!MayGoOn(s) \/ Sort!IsSingle(s) \/ (Sort!Sorts(s) /\ Sort!Joined(s))
    BY <2>3 DEF Sort!MaySplit, Sort!MayGoOn, Sort!IsSingle, Sort!Sorts, Sort!Joined
  <2> QED
    BY <2>4 DEF Sort!Runs
<1> QED
  BY <1>3, <1>4

\* A segment that is in order is sorted.
IsMoved(S, en, off, w) == \A x \in 1..w : S[x] = en[off + x]

LEMMA InSortedIsSort ==
  ASSUME NEW n \in Nat, n = Sort!N, \A x \in 1..n : input[x].n = x,
         NEW en, NEW off \in Nat, NEW w \in Nat, off + w <= n,
         InSorted(en, input, Ord, <<off + 1, off + w>>),
         NEW E, NEW S \in [1..w -> E], NEW T \in [1..w -> E],
         IsMoved(S, en, off, w), IsMoved(T, input, off, w)
  PROVE  Sort!IsSort(S, T, Sort!Before)
<1>1. PICK c \in Int, e \in Int : c = off + 1 /\ e = off + w
  OBVIOUS
<1>2. /\ \A x \in c..e : en[x].n \in c..e /\ en[x] = input[en[x].n]
      /\ \A y \in c..e : \E x \in c..e : en[x].n = y
      /\ \A x, y \in c..e : x < y => <<en[x].n, en[y].n>> \in Ord
  BY <1>1 DEF InSorted
<1>3. \A x \in 1..w : off + x \in c..e /\ S[x] = en[off + x] /\ T[x] = input[off + x]
  BY <1>1 DEF IsMoved
<1>4. \A y \in c..e : y \in 1..n /\ y - off \in 1..w /\ off + (y - off) = y
  BY <1>1
<1>5. \A x \in 1..w : \E y \in 1..w : S[x] = T[y]
  <2> TAKE x \in 1..w
  <2>1. PICK f \in c..e : f = off + x /\ S[x] = en[f]
    BY <1>3
  <2>2. PICK y \in c..e : en[f] = input[y]
    BY <1>2
  <2>3. PICK z \in 1..w : off + z = y
    BY <1>4
  <2>4. T[z] = input[y]
    BY <2>3, <1>3
  <2> QED
    BY <2>1, <2>2, <2>4
<1>6. \A y \in 1..w : \E x \in 1..w : S[x] = T[y]
  <2> TAKE y \in 1..w
  <2>1. PICK x \in c..e : en[x].n = off + y
    BY <1>2, <1>3
  <2>2. en[x] = T[y]
    BY <2>1, <1>2, <1>3
  <2>3. PICK z \in 1..w : off + z = x
    BY <1>4
  <2>4. S[z] = en[x]
    BY <2>3, <1>3
  <2> QED
    BY <2>2, <2>4
<1>7. Sort!ToSet(S) = Sort!ToSet(T)
  <2>1. \A v : v \in Sort!ToSet(S) <=> \E x \in 1..w : v = S[x]
    BY DEF Sort!ToSet
  <2>2. \A v : v \in Sort!ToSet(T) <=> \E x \in 1..w : v = T[x]
    BY DEF Sort!ToSet
  <2>3. \A v : (\E x \in 1..w : v = S[x]) <=> (\E x \in 1..w : v = T[x])
    BY <1>5, <1>6
  <2>4. \A v : v \in Sort!ToSet(S) <=> v \in Sort!ToSet(T)
    BY <2>1, <2>2, <2>3, Zenon
  <2> QED
    BY <2>4, Zenon
<1>8. Len(S) = w /\ Len(T) = w /\ DOMAIN S = 1..w
  OBVIOUS
<1>9. ASSUME NEW x \in 1..w, NEW y \in 1..w, x < y
      PROVE  /\ Sort!Before(S[x].key, S[y].key)
             /\ Sort!Before(S[y].key, S[x].key) => S[x].n < S[y].n
  <2>1. PICK f \in c..e, g \in c..e : f = off + x /\ g = off + y
    BY <1>3
  <2>2. f < g /\ S[x] = en[f] /\ S[y] = en[g]
    BY <2>1, <1>3, <1>9, SMTT(30)
  <2>3. <<S[x].n, S[y].n>> \in Ord /\ S[x] = input[S[x].n] /\ S[y] = input[S[y].n]
    BY <2>2, <1>2, ZenonT(40)
  <2>4. BeforeOf(S[x].n, S[y].n) /\ (BeforeOf(S[y].n, S[x].n) => S[x].n < S[y].n)
    BY <2>3 DEF Ord
  <2> QED
    BY <2>3, <2>4 DEF BeforeOf
<1> QED
  BY <1>7, <1>8, <1>9 DEF Sort!IsSort

LEMMA MergeSorts ==
  ASSUME Sort!SortAssumption, SortInv, ~Sort!CountSort, Sort!AllParse, result = "success"
  PROVE  Sort!IsSort(entries, input, Sort!Before)
<1>1. SortInput /\ MergeInv
  BY DEF SortInv
<1>2. PICK n \in Nat : n = Sort!N
  BY <1>1, InputIs
<1>3. Tree(n, segment) /\ segment[<<1, n>>] = "done" /\ Data(n, segment, entries, halves, input, Ord)
  BY <1>1, <1>2 DEF MergeInv, RootOf
<1>4. Maximal(segment, <<1, n>>)
  <2>1. <<1, n>> \in Sort!Segments /\ MaxFiles \in Nat
    BY <1>3 DEF Tree, Sort!SortAssumption
  <2>2. ASSUME NEW b \in Sort!Segments, segment[b] = "done", Within(<<1, n>>, b) PROVE b = <<1, n>>
    <3>1. b[2] <= n
      BY <1>3, <2>2 DEF Tree
    <3>2. b[1] <= 1 /\ n <= b[2] /\ b[1] \in Int /\ b[2] \in Int /\ 1 <= b[1] /\ b = <<b[1], b[2]>>
      BY <2>1, <2>2, SegmentIs DEF Within
    <3>3. b[1] = 1 /\ b[2] = n
      BY <3>1, <3>2
    <3> QED
      BY <3>2, <3>3
  <2> QED
    BY <2>2, <1>3 DEF Maximal
<1>5. InSorted(entries, input, Ord, <<0 + 1, 0 + n>>)
  <2>1. 0 + 1 = 1 /\ 0 + n = n /\ <<1, n>> \in Sort!Segments
    BY <1>3 DEF Tree
  <2> QED
    BY <2>1, <1>3, <1>4 DEF Data
<1>6. PICK E : E = Originals
  OBVIOUS
<1>7. input \in [1..n -> E] /\ entries \in [1..n -> E] /\ \A x \in 1..n : input[x].n = x
  <2>1. entries \in [1..n -> {input[x] : x \in 1..n}]
    BY <1>3 DEF Data
  <2> QED
    BY <2>1, <1>1, <1>2, <1>6, InputIs DEF Originals
<1>8. IsMoved(entries, entries, 0, n) /\ IsMoved(input, input, 0, n)
  BY DEF IsMoved
<1>9. 0 \in Nat /\ 0 + n <= n
  OBVIOUS
<1> QED
  BY <1>2, <1>5, <1>7, <1>8, <1>9, InSortedIsSort

LEMMA SortSorts ==
  ASSUME Sort!SortAssumption, SortInv PROVE Sort!Sorted
<1>1. SortInput /\ CountInv /\ MergeInv
  BY DEF SortInv
<1> QED
  BY <1>1, CountSorts, MergeSorts DEF Sort!Sorted

\* A segment whose parent is not done is in none that is done.
LEMMA DoneIsMaximal ==
  ASSUME MaxFiles \in Nat, NEW n, NEW sg, Tree(n, sg), NEW s \in Sort!Segments, sg[s] = "done",
         \A p \in Sort!Segments : Half(s, p) => sg[p] # "done"
  PROVE  Maximal(sg, s)
<1>1. SUFFICES ASSUME NEW c \in Sort!Segments, sg[c] = "done", Within(s, c), c # s PROVE FALSE
  BY DEF Maximal
<1>2. s # <<1, n>>
  <2> SUFFICES ASSUME s = <<1, n>> PROVE FALSE
    OBVIOUS
  <2>1. c[2] <= n /\ s[1] = 1 /\ s[2] = n
    BY <1>1 DEF Tree
  <2>2. c[1] \in Int /\ c[2] \in Int /\ 1 <= c[1] /\ c = <<c[1], c[2]>> /\ s = <<s[1], s[2]>> /\ s[2] \in Int
    BY SegmentIs
  <2>3. c[1] = s[1] /\ c[2] = s[2]
    BY <2>1, <2>2, <1>1 DEF Within
  <2> QED
    BY <2>2, <2>3, <1>1
<1>3. PICK p \in Sort!Segments : sg[p] # "idle" /\ Half(s, p)
  BY <1>2 DEF Tree
<1>4. sg[p] # "done" /\ Within(s, p)
  BY <1>3, HalfIs
<1>5. Nested(p, c)
  BY <1>1, <1>3 DEF Tree
<1>6. CASE p = c
  BY <1>6, <1>1, <1>4
<1>7. CASE Apart(p, c)
  BY <1>7, <1>1, <1>4, WithinIs
<1>8. CASE Under(p, c)
  <2>1. Within(p, c)
    BY <1>8, HalfIs, WithinIs DEF Under
  <2> QED
    BY <2>1, <1>1, <1>3, <1>4 DEF Tree
<1>9. CASE Under(c, p)
  <2>1. PICK q \in Sort!Segments : Half(q, p) /\ Within(c, q)
    BY <1>9 DEF Under
  <2>2. CASE q = s
    BY <2>1, <2>2, <1>1, WithinIs
  <2>3. CASE q # s
    <3>1. Apart(q, s)
      BY <2>1, <2>3, <1>3, TwoHalves
    <3>2. Within(s, q)
      BY <2>1, <1>1, WithinIs
    <3> QED
      BY <3>1, <3>2, WithinIs
  <2> QED
    BY <2>2, <2>3
<1> QED
  BY <1>5, <1>6, <1>7, <1>8, <1>9 DEF Nested

PartMoved(en, c, e, off, w, E) ==
  SubSeq(en, c, e) \in [1..w -> E] /\ IsMoved(SubSeq(en, c, e), en, off, w)

LEMMA MovedPart ==
  ASSUME NEW n \in Nat, NEW E, NEW en \in [1..n -> E], NEW c \in Int, NEW e \in Int, 1 <= c, c <= e, e <= n,
         NEW off \in Nat, off = c - 1, NEW w \in Nat, w = e - c + 1
  PROVE  PartMoved(en, c, e, off, w, E)
<1> DEFINE S == SubSeq(en, c, e)
<1>1. en \in Seq(E) /\ Len(en) = n /\ c \in 1..(n + 1) /\ e \in (c - 1)..n
  OBVIOUS
<1>2. S \in Seq(E) /\ Len(S) = w
  BY <1>1, SubSeqProperties
<1>4. \A x \in 1..w : S[x] = en[c + x - 1]
  BY PartIs
<1> HIDE DEF S
<1>3. S \in [1..w -> E]
  BY <1>2, LenProperties
<1>5. \A x \in 1..w : c + x - 1 = off + x
  OBVIOUS
<1> QED
  BY <1>3, <1>4, <1>5 DEF IsMoved, S, PartMoved

LEMMA SortSegments ==
  ASSUME Sort!SortAssumption, SortInv PROVE Sort!SegmentsSorted
<1>1. SUFFICES ASSUME ~Sort!CountSort, Sort!AllParse, NEW s \in Sort!Segments, segment[s] = "done",
                      \A p \in Sort!Segments : s \in {Sort!Left(p), Sort!Right(p)} /\ p[1] < p[2] => segment[p] # "done"
               PROVE  Sort!IsSort(SubSeq(entries, s[1], s[2]), SubSeq(input, s[1], s[2]), Sort!Before)
  BY DEF Sort!SegmentsSorted
<1>2. SortInput /\ MergeInv /\ MaxFiles \in Nat
  BY DEF SortInv, Sort!SortAssumption
<1>3. PICK n \in Nat : n = Sort!N
  BY <1>2, InputIs
<1>4. Tree(n, segment) /\ Data(n, segment, entries, halves, input, Ord)
  BY <1>1, <1>2, <1>3 DEF MergeInv
<1>5. Maximal(segment, s)
  <2>1. \A p \in Sort!Segments : Half(s, p) => segment[p] # "done"
    BY <1>1 DEF Half
  <2> QED
    BY <2>1, <1>1, <1>2, <1>4, DoneIsMaximal
<1>6. PICK c \in Int, e \in Int : c = s[1] /\ e = s[2]
  BY <1>2, SegmentIs
<1>7. 1 <= c /\ c <= e /\ e <= n /\ s = <<c, e>>
  BY <1>1, <1>2, <1>4, <1>6, SegmentIs DEF Tree
<1>8. PICK off \in Nat, w \in Nat : off = c - 1 /\ w = e - c + 1
  BY <1>7
<1>9. c = off + 1 /\ e = off + w /\ off + w <= n
  BY <1>7, <1>8
<1>10. InSorted(entries, input, Ord, <<off + 1, off + w>>)
  BY <1>4, <1>5, <1>7, <1>9 DEF Data
<1>11. PICK E : E = Originals
  OBVIOUS
<1>12. input \in [1..n -> E] /\ entries \in [1..n -> E] /\ \A x \in 1..n : input[x].n = x
  <2>1. entries \in [1..n -> {input[x] : x \in 1..n}]
    BY <1>4 DEF Data
  <2> QED
    BY <2>1, <1>2, <1>3, <1>11, InputIs DEF Originals
<1>13. PICK S : S = SubSeq(entries, c, e)
  OBVIOUS
<1>14. PICK T : T = SubSeq(input, c, e)
  OBVIOUS
<1>15. S \in [1..w -> E] /\ IsMoved(S, entries, off, w)
  <2>1. PartMoved(entries, c, e, off, w, E)
    BY <1>7, <1>8, <1>12, MovedPart
  <2> QED
    BY <2>1, <1>13, Zenon DEF PartMoved
<1>16. T \in [1..w -> E] /\ IsMoved(T, input, off, w)
  <2>1. PartMoved(input, c, e, off, w, E)
    BY <1>7, <1>8, <1>12, MovedPart
  <2> QED
    BY <2>1, <1>14, Zenon DEF PartMoved
<1>17. Sort!IsSort(S, T, Sort!Before)
  BY <1>3, <1>9, <1>10, <1>12, <1>15, <1>16, InSortedIsSort
<1> QED
  BY <1>6, <1>13, <1>14, <1>17

(* The sort of lazy_sort.c, for any number of entries, of keys and of      *)
(* threads: whatever order the threads run in, what it knows of the counts *)
(* and of the parts stays so, from the first thread to the last.           *)
THEOREM SortSafety == ASSUME Sort!SortAssumption PROVE Sort!Spec => []SortInv
<1>1. ASSUME Sort!SortAssumption, SortInv, [Sort!Next]_(Sort!vars) PROVE SortInv'
  BY <1>1, SortStep, SortStays
<1> QED
  BY SortStarts, <1>1, PTL DEF Sort!Spec

(* A count sort that has succeeded has made a stable sort by what it       *)
(* counted (lazy_sort.c:380-391), and a merge sort one by the whole key    *)
(* (lazy_sort.c:454), if every timestamp could be parsed.                  *)
THEOREM EntriesAreSorted == ASSUME Sort!SortAssumption PROVE Sort!Spec => []Sort!Sorted
BY SortSafety, SortSorts, PTL

(* A part that merge_sort() has returned from holds what was read into it, *)
(* sorted, until the part it is a half of is merged (lazy_sort.c:425-452): *)
(* no thread ever writes into a part of another.                           *)
THEOREM PartsAreSorted == ASSUME Sort!SortAssumption PROVE Sort!Spec => []Sort!SegmentsSorted
BY SortSafety, SortSegments, PTL

(* The threads of the sort never all wait for each other: for the mutex of *)
(* the counts, or for the thread of a half (lazy_sort.c:251, 376, 432).    *)
THEOREM SortsGoOn == ASSUME Sort!SortAssumption PROVE Sort!Spec => []Sort!Runs
BY SortSafety, SortRuns, PTL

-----------------------------------------------------------------------------
(* The programs together.  Invariant is inductive: whichever program runs, *)
(* it keeps its own invariant, and the variables of the others stay 0.     *)

Invariant ==
  /\ part = "game" => GameInv
  /\ part = "udp" => UdpInv
  /\ part = "history" => HistoryInv
  /\ part = "jobs" => JobsInv
  /\ part = "pipeline" => PipelineInv
  /\ part = "dirs" => DirsInv
  /\ part = "storage" => StorageInv
  /\ part = "sort" => SortInv

LEMMA InitInvariant == Init => Invariant
BY ProgramsAssumption, GameStarts, UdpInit, HistoryInit, JobsInit, PipelineInit, DirsInit, StorageInit,
   SortStarts
   DEF ProgramsAssumption, Init, Invariant

LEMMA NextKeepsInvariant == Invariant /\ [Next]_vars => Invariant'
<1> SUFFICES ASSUME Invariant, [Next]_vars PROVE Invariant'
  OBVIOUS
<1>1. /\ Udp!ChunksAssumption /\ Jobs!JobsAssumption /\ Dirs!DirsAssumption
      /\ Storage!StorageAssumption /\ History!HistoryAssumption /\ Pipeline!PipelineAssumption
      /\ Games!GameAssumption /\ Sort!SortAssumption
  BY ProgramsAssumption DEF ProgramsAssumption
<1>2. part' = part
  BY DEF Next, vars
<1>3. CASE part = "udp"
  <2>1. [Udp!Next]_(Udp!vars)
    BY <1>3 DEF Next, vars, udpOnly, Udp!vars
  <2> QED
    BY <1>1, <1>2, <1>3, <2>1, UdpStep, SMTT(30) DEF Invariant
<1>4. CASE part = "jobs"
  <2>1. [Jobs!Next]_(Jobs!vars)
    BY <1>4 DEF Next, vars, jobsOnly, Jobs!vars
  <2> QED
    BY <1>1, <1>2, <1>4, <2>1, JobsStep DEF Invariant
<1>5. CASE part = "dirs"
  <2>1. [Dirs!Next]_(Dirs!vars)
    BY <1>5 DEF Next, vars, dirsOnly, Dirs!vars, Dirs!dirs
  <2> QED
    BY <1>1, <1>2, <1>5, <2>1, DirsStep, SMTT(30) DEF Invariant
<1>6. CASE part = "storage"
  <2>1. [Storage!Next]_(Storage!vars)
    BY <1>6 DEF Next, vars, storageOnly, Storage!vars
  <2> QED
    BY <1>1, <1>2, <1>6, <2>1, StorageStep DEF Invariant
<1>7. CASE part = "history"
  <2>1. History!Next \/ UNCHANGED History!vars
    BY <1>7 DEF Next, vars, historyOnly, History!vars, History!queue
  <2> QED
    BY <1>1, <1>2, <1>7, <2>1, HistoryStep, HistoryStutter DEF Invariant
<1>8. CASE part = "pipeline"
  <2>1. Pipeline!Next \/ UNCHANGED Pipeline!vars
    BY <1>8 DEF Next, vars, pipelineOnly, Pipeline!vars
  <2> QED
    BY <1>1, <1>2, <1>8, <2>1, PipelineStep, PipelineStutter DEF Invariant
<1>9. CASE part = "game"
  <2>1. Games!Next \/ UNCHANGED Games!vars
    BY <1>9 DEF Next, vars, gameOnly, Games!vars
  <2> QED
    BY <1>1, <1>2, <1>9, <2>1, GameStep, GameStutter DEF Invariant
<1>10. CASE part = "sort"
  <2>1. Sort!Next \/ UNCHANGED Sort!vars
    BY <1>10 DEF Next, vars, sortOnly, Sort!vars, Sort!counting, Sort!merging
  <2> QED
    BY <1>1, <1>2, <1>10, <2>1, SortStep, SortStays DEF Invariant
<1> QED
  BY <1>2, <1>3, <1>4, <1>5, <1>6, <1>7, <1>8, <1>9, <1>10 DEF Invariant

(* Whichever program runs, its inductive invariant holds in every state.   *)
THEOREM Safety == Spec => []Invariant
BY InitInvariant, NextKeepsInvariant, PTL DEF Spec

(* The shell loses none of its processes (sys.c:157-211), and a thread of  *)
(* the storage server waits for its own child and answers its own          *)
(* connection (storage_server.c:141, 244, 316).                            *)
THEOREM SystemIsKnown == Spec => []SystemKnown
<1>1. Invariant => SystemKnown
  BY ProgramsAssumption, OwnChild DEF ProgramsAssumption, Invariant, SystemKnown, JobsInv, StorageInv
<1> QED
  BY Safety, <1>1, PTL

(* Every variable of a program keeps its type; with it the table of a      *)
(* storage server never holds more than MAX_FILES entries                  *)
(* (storage_server.c:42), and its counts and segments stay in the arrays   *)
(* that the sort allocates.                                                *)
THEOREM ProgramsAreTyped == Spec => []TypeOK
<1>1. Invariant => TypeOK
  <2> SUFFICES ASSUME Invariant PROVE TypeOK
    OBVIOUS
  <2>1. CASE part = "storage"
    BY <2>1, StorageIsTyped DEF Invariant, TypeOK
  <2>2. CASE part = "sort"
    BY <2>2, SortTypes, ProgramsAssumption DEF ProgramsAssumption, Invariant, TypeOK
  <2>3. CASE part \notin {"storage", "sort"}
    BY <2>3 DEF Invariant, TypeOK, GameInv, UdpInv, HistoryInv, JobsInv, PipelineInv, DirsInv
  <2> QED
    BY <2>1, <2>2, <2>3
<1> QED
  BY Safety, <1>1, PTL

(* Nobody waits for one that does nothing, in a game (server.c:181-233), a *)
(* pipeline (main.c:530-541), the storage server (storage_server.c:253) or *)
(* the sort (lazy_sort.c:251, 376, 432).                                   *)
THEOREM NobodyIsStuck == Spec => []NobodyStuck
<1>1. Invariant => NobodyStuck
  <2> SUFFICES ASSUME Invariant PROVE NobodyStuck
    OBVIOUS
  <2>1. CASE part = "game"
    BY <2>1, GameHeard, ProgramsAssumption DEF ProgramsAssumption, Invariant, NobodyStuck
  <2>2. CASE part = "pipeline"
    BY <2>2, PipelineMovesOn, ProgramsAssumption DEF ProgramsAssumption, Invariant, NobodyStuck
  <2>3. CASE part = "storage"
    BY <2>3 DEF Invariant, NobodyStuck, StorageInv, StorageTypes, Holder, Storage!LockAccountedFor, InCommand
  <2>4. CASE part = "sort"
    BY <2>4, SortRuns, ProgramsAssumption DEF ProgramsAssumption, Invariant, NobodyStuck
  <2>5. CASE part \notin {"game", "pipeline", "storage", "sort"}
    BY <2>5 DEF NobodyStuck
  <2> QED
    BY <2>1, <2>2, <2>3, <2>4, <2>5
<1> QED
  BY Safety, <1>1, PTL

(* What comes out is right: the board of a game (server.c:83-115), the     *)
(* message of the transport (tcp_stack_server.c:54-84), and the sorted     *)
(* entries with every part of them that is sorted (lazy_sort.c:369-452).   *)
THEOREM ResultsAreRight == Spec => []RightResults
<1>1. Invariant => RightResults
  <2> SUFFICES ASSUME Invariant PROVE RightResults
    OBVIOUS
  <2>1. CASE part = "game"
    BY <2>1, GameIsLegal, ProgramsAssumption DEF ProgramsAssumption, Invariant, RightResults
  <2>2. CASE part = "udp"
    BY <2>2 DEF Invariant, RightResults, UdpInv
  <2>3. CASE part = "sort"
    BY <2>3, SortSorts, SortSegments, ProgramsAssumption DEF ProgramsAssumption, Invariant, RightResults
  <2>4. CASE part \notin {"game", "udp", "sort"}
    BY <2>4 DEF RightResults
  <2> QED
    BY <2>1, <2>2, <2>3, <2>4
<1> QED
  BY Safety, <1>1, PTL

(* hop, after any two arguments, moves the shell's directory where the     *)
(* system's is, and mark keeps one bookmark for a label (hop.c, mark.c).   *)
THEOREM HopFollowsTheSystem == Spec => FollowsDirectory
<1>1. Invariant /\ [Next]_vars => [part = "dirs" => Dirs!Followed]_vars
  <2> SUFFICES ASSUME Invariant, [Next]_vars, part = "dirs" PROVE Dirs!Followed
    OBVIOUS
  <2>1. [Dirs!Next]_(Dirs!vars)
    BY DEF Next, vars, dirsOnly, Dirs!vars, Dirs!dirs
  <2> QED
    BY <2>1, ProgramsAssumption, DirsStep DEF ProgramsAssumption, Invariant
<1> QED
  BY Safety, <1>1, PTL DEF Spec, FollowsDirectory

-----------------------------------------------------------------------------
(* The history implements CommandHistory.                                  *)

LEMMA ListStarts == Init => List!Init
<1> SUFFICES ASSUME Init PROVE List!Init
  OBVIOUS
<1>1. CASE part = "history"
  <2>1. History!Init /\ History!HistoryAssumption
    BY <1>1, ProgramsAssumption DEF Init, ProgramsAssumption
  <2>2. /\ on = FALSE /\ logExec = History!NoLine /\ file = <<>>
        /\ items = [k \in 0..(MAX_SIZE - 1) |-> <<>>] /\ rear = -1 /\ size = 0
    BY <2>1 DEF History!Init, History!InitQueue
  <2>3. History!Contents(History!Queue) = <<>>
    <3>1. Ring(History!Queue) /\ History!Queue.size = 0
      BY <2>1, <2>2, HistoryInit DEF HistoryInv, History!Queue
    <3>2. History!Contents(History!Queue) \in Seq(History!PlainLine) /\ Len(History!Contents(History!Queue)) = 0
      BY <2>1, <3>1, ContentsAre
    <3> QED
      BY <3>2, EmptySeq
  <2>4. History!Latest(History!Queue) = <<>>
    <3>1. MAX_SIZE \in Nat \ {0} /\ -1 + MAX_SIZE \in 0..(MAX_SIZE - 1)
      BY <2>1 DEF History!HistoryAssumption
    <3>2. (rear + MAX_SIZE) % MAX_SIZE \in 0..(MAX_SIZE - 1)
      BY <2>2, <3>1, ModOfSmall
    <3> QED
      BY <2>2, <3>2 DEF History!Latest, History!Queue
  <2> QED
    BY <1>1, <2>2, <2>3, <2>4 DEF List!Init, IsHistory
<1>2. CASE part # "history"
  BY <1>2 DEF List!Init, IsHistory
<1> QED
  BY <1>1, <1>2

LEMMA ListSteps == Invariant /\ [Next]_vars => [List!Next]_(List!vars)
<1> SUFFICES ASSUME Invariant, [Next]_vars PROVE [List!Next]_(List!vars)
  OBVIOUS
<1>1. part' = part
  BY DEF Next, vars
<1>2. CASE part = "history"
  <2>1. HistoryInv /\ History!HistoryAssumption
    BY <1>2, ProgramsAssumption DEF Invariant, ProgramsAssumption
  <2>2. History!Next \/ UNCHANGED History!vars
    BY <1>2 DEF Next, vars, historyOnly, History!vars, History!queue
  <2>3. CASE History!Next
    <3>1. HistoryMove
      BY <2>1, <2>3, HistoryStep
    <3> QED
      BY <1>1, <1>2, <2>1, <3>1, ListMoves
  <2>4. CASE UNCHANGED History!vars
    BY <1>1, <2>4 DEF History!vars, History!queue, History!Queue, History!Contents, History!Latest,
                      List!vars, IsHistory
  <2> QED
    BY <2>2, <2>3, <2>4
<1>3. CASE part # "history"
  BY <1>1, <1>3 DEF List!vars, IsHistory
<1> QED
  BY <1>2, <1>3

(* The ring of slots, with the flag of log execute and the file, is a list *)
(* of the newest lines that survives sessions and crashes, after any       *)
(* number of them and for any number of slots (queue.c, log.c,             *)
(* main.c:419-679).                                                        *)
THEOREM HistoryImplementsAList == Spec => HistoryIsAList
<1>1. Init => List!Init
  BY ListStarts
<1>2. Invariant /\ [Next]_vars => [List!Next]_(List!vars)
  BY ListSteps
<1> QED
  BY <1>1, <1>2, Safety, PTL DEF Spec, HistoryIsAList, List!Spec
=============================================================================
