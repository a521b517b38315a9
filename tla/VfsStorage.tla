------------------------------ MODULE VfsStorage ------------------------------
(***************************************************************************)
(* A storage server (storage_server.c): main() accepts connections and     *)
(* starts a detached thread for each of them; handle_client() reads one    *)
(* request, holds one mutex for all of the command, answers and closes.    *)
(* The thread is given a pointer to main's only client_socket.             *)
(*                                                                         *)
(* Under the mutex a command is one step, but where it waits for the child *)
(* process that does the work (touch, mkdir, rm, rmdir, sh).  What is in   *)
(* the files is left out, so is the flag dir of their entries, and so are  *)
(* the paths with '.', which are treated as those with '~'.  A client is   *)
(* client.c, or the naming server: it sends its request at once, and it    *)
(* goes away when it reads STOP or the end of the stream, never before.    *)
(***************************************************************************)
EXTENDS Naturals, Sequences

CONSTANTS Conn,      \* connections; the thread for c is called c too
          Fd,        \* descriptors that accept() can return
          Path,      \* sequences of names, the first of which may be "~"
          Home,      \* what "~" stands for
          MAX_FILES,
          Nobody

VARIABLES clientSocket, \* client_socket of main(), 0 before the first accept()
          fd,           \* fd[f]: the connection that descriptor f is for
          pc, sock,     \* of each thread; pc is "none" before its creation
          reads,        \* reads[t]: the connection in whose read() t is
          request,      \* request[t]: what t has read
          client,       \* client[c]: "waiting", "stop" (it was told STOP), "closed"
          unread,       \* connections whose request nobody has read
          mutex,        \* mutex
          child,        \* child[t]: the path and the work of the child of t
          table,        \* file_storage[0 .. num_files-1]
          disk,         \* the file system, [Path -> {"none", "file", "dir"}]
          home,         \* HOME is set
          overrun,      \* a thread had not read client_socket when it was overwritten
          up            \* the process is there, with no write outside the table

connections == <<clientSocket, fd, client, unread, overrun>>
files == <<table, disk>>
vars == <<clientSocket, fd, pc, sock, reads, request, client, unread, mutex, child, table, disk,
          home, overrun, up>>

Empty == [op |-> "", kind |-> "", path |-> <<>>]
Unparsed == [op |-> "?", kind |-> "", path |-> <<>>]   \* a request in the buffer
Request ==
  [op : {"CREATE", "DELETE"}, kind : {"FILE", "FOLDER"}, path : Path] \cup
  [op : {"IS_DIR", "COPYSRC", "COPYDEST", "READ", "STAT", "STREAM", "WRITE", "LIST_DIR"},
   kind : {""}, path : Path]
NoWork == [op |-> "", path |-> <<>>]
Work == [op : {"touch", "mkdir", "rm", "rmdir", "sh"}, path : Path] \cup {NoWork}
Entry == [path : Path, live : BOOLEAN, reg : BOOLEAN]

Tilde(p) == Head(p) = "~"
Expand(p) == IF Tilde(p) THEN Home \o Tail(p) ELSE p
StorageAssumption ==
  /\ MAX_FILES \in Nat \ {0} /\ Nobody \notin Conn /\ Fd \subseteq Nat \ {0}
  /\ \A p \in Path : Expand(p) \in Path
Parent(p) == SubSeq(p, 1, Len(p) - 1)
Kind(p) == IF p = <<>> THEN "dir" ELSE IF p \in Path THEN disk[p] ELSE "none"

TypeOK ==
  /\ clientSocket \in Fd \cup {0}
  /\ fd \in [Fd -> Conn \cup {Nobody}]
  /\ pc \in [Conn -> {"none", "start", "call", "read", "lock", "command", "wait", "unlock",
                      "close", "done", "left"}]
  /\ sock \in [Conn -> Fd \cup {0}] /\ reads \in [Conn -> Conn \cup {Nobody}]
  /\ \A t \in Conn : request[t] \in Request \cup {Empty, Unparsed} /\ child[t] \in Work
  /\ client \in [Conn -> {"waiting", "stop", "closed"}] /\ unread \subseteq Conn
  /\ mutex \in Conn \cup {Nobody}
  /\ Len(table) <= MAX_FILES /\ \A i \in DOMAIN table : table[i] \in Entry
  /\ disk \in [Path -> {"none", "file", "dir"}]
  /\ home \in BOOLEAN /\ overrun \in BOOLEAN /\ up \in BOOLEAN

\* extract_and_store_files() lists the paths typed in, be they there or not.
Init ==
  /\ clientSocket = 0 /\ fd = [f \in Fd |-> Nobody]
  /\ pc = [t \in Conn |-> "none"] /\ sock = [t \in Conn |-> 0]
  /\ reads = [t \in Conn |-> Nobody] /\ request = [t \in Conn |-> Empty]
  /\ client = [c \in Conn |-> "waiting"] /\ unread = Conn /\ mutex = Nobody
  /\ child = [t \in Conn |-> NoWork]
  /\ disk \in [Path -> {"none", "file", "dir"}]
  /\ \A p \in Path : /\ disk[p] # "none" => ~Tilde(p) /\ Kind(Parent(p)) = "dir"
                     /\ p = Home => disk[p] = "dir"
  /\ \/ table = <<>>
     \/ \E p \in Path : table = <<[path |-> p, live |-> TRUE, reg |-> TRUE]>>
  /\ home \in BOOLEAN /\ overrun = FALSE /\ up = TRUE

-----------------------------------------------------------------------------
(* main(), and the clients.                                                *)
\* A client has connected and sent its request before it is accepted.
Accept(c) ==
  /\ pc[c] = "none"
  /\ \E f \in Fd :
       /\ fd[f] = Nobody /\ \A g \in Fd : g < f => fd[g] # Nobody
       /\ clientSocket' = f
       /\ fd' = [fd EXCEPT ![f] = c]
  /\ pc' = [pc EXCEPT ![c] = "start"]
  /\ overrun' = (overrun \/ \E t \in Conn : pc[t] = "start")
  /\ UNCHANGED <<sock, reads, request, client, unread, mutex, child, files, home, up>>

\* The server's end is closed when no descriptor and no read() is left of it.
AtEnd(c) == /\ pc[c] # "none"
            /\ \A f \in Fd : fd[f] # c
            /\ \A t \in Conn : reads[t] # c

ClientCloses(c) ==
  /\ client[c] = "stop" \/ (client[c] = "waiting" /\ AtEnd(c))
  /\ client' = [client EXCEPT ![c] = "closed"]
  /\ UNCHANGED <<clientSocket, fd, pc, sock, reads, request, unread, mutex, child, files, home, overrun, up>>

-----------------------------------------------------------------------------
(* handle_client().                                                        *)
\* int sock = *(int*)client_socket
Start(t) ==
  /\ pc[t] = "start"
  /\ sock' = [sock EXCEPT ![t] = clientSocket]
  /\ pc' = [pc EXCEPT ![t] = "call"]
  /\ UNCHANGED <<connections, reads, request, mutex, child, files, home, up>>

\* The call of read(): with a descriptor that is closed it fails at once, and
\* the buffer stays empty.
Call(t) ==
  /\ pc[t] = "call"
  /\ reads' = [reads EXCEPT ![t] = fd[sock[t]]]
  /\ pc' = [pc EXCEPT ![t] = IF fd[sock[t]] = Nobody THEN "lock" ELSE "read"]
  /\ UNCHANGED <<connections, sock, request, mutex, child, files, home, up>>

Read(t) ==
  /\ pc[t] = "read"
  /\ \/ /\ reads[t] \in unread
        /\ request' = [request EXCEPT ![t] = Unparsed]
        /\ unread' = unread \ {reads[t]}
     \/ /\ reads[t] \notin unread /\ client[reads[t]] = "closed"
        /\ UNCHANGED <<request, unread>>
  /\ reads' = [reads EXCEPT ![t] = Nobody]
  /\ pc' = [pc EXCEPT ![t] = "lock"]
  /\ UNCHANGED <<clientSocket, fd, sock, client, mutex, child, files, home, overrun, up>>

\* pthread_mutex_lock(), and the sscanf() of the request.
LockWhen(t, free) ==
  /\ pc[t] = "lock" /\ free
  /\ mutex' = t
  /\ \E r \in (IF request[t] = Unparsed THEN Request ELSE {}) \cup {Empty} :
       request' = [request EXCEPT ![t] = r]
  /\ pc' = [pc EXCEPT ![t] = "command"]
  /\ UNCHANGED <<connections, sock, reads, child, files, home, up>>

\* A bug to be caught: the mutex given back before the child is waited for.
LockEarly(t) == LockWhen(t, \A u \in Conn : mutex = u => pc[u] = "wait")

Lock(t) == LockWhen(t, mutex = Nobody)

\* A command of t that goes on at label l; "left" is a return in the middle of
\* it, with the mutex locked and the socket open.
Command(t, ops, l) ==
  /\ pc[t] = "command" /\ request[t].op \in ops
  /\ pc' = [pc EXCEPT ![t] = l]
  /\ request' = [request EXCEPT ![t] = IF l = "wait" THEN @ ELSE Empty]
  /\ UNCHANGED <<clientSocket, fd, sock, reads, unread, mutex, home, overrun>>

\* The first entry that strcmp() finds.
Found(p) == {i \in DOMAIN table : table[i].live /\ table[i].path = (IF table[i].reg THEN p ELSE Expand(p))}
FirstFound(p) == CHOOSE i \in Found(p) : \A j \in Found(p) : i <= j

\* file_storage[num_files++] = *f: nothing looks at MAX_FILES.
AddEntry(p) ==
  IF Len(table) < MAX_FILES
  THEN /\ table' = Append(table, [path |-> p, live |-> TRUE, reg |-> FALSE])
       /\ UNCHANGED up
  ELSE up' = FALSE /\ UNCHANGED table

\* fork() may fail, and the command goes on.
Fork(t, op, p) == child' = [child EXCEPT ![t] = [op |-> op, path |-> p]]
NoFork == UNCHANGED child

CreateFails(t) ==
  /\ request[t].op = "CREATE" /\ Tilde(request[t].path) /\ ~home
  /\ Command(t, {"CREATE"}, "left")
  /\ UNCHANGED <<client, child, files, up>>

Create(t) ==
  LET r == request[t]
  IN /\ r.op = "CREATE" /\ (Tilde(r.path) => home)
     /\ AddEntry(Expand(r.path))
     /\ \/ r.kind = "FILE" /\ Fork(t, "touch", Expand(r.path)) /\ Command(t, {"CREATE"}, "wait")
        \/ r.kind = "FOLDER" /\ Fork(t, "mkdir", Expand(r.path)) /\ Command(t, {"CREATE"}, "wait")
        \/ NoFork /\ Command(t, {"CREATE"}, "unlock")
     /\ UNCHANGED <<client, disk>>

\* Without HOME, DELETE ends the process.
Delete(t) ==
  LET r == request[t]
  IN /\ r.op = "DELETE"
     /\ up' = (Tilde(r.path) => home)
     /\ IF Found(r.path) = {} \/ (Tilde(r.path) /\ ~home)
        THEN UNCHANGED <<table, child>> /\ Command(t, {"DELETE"}, "unlock")
        ELSE /\ table' = [table EXCEPT ![FirstFound(r.path)].live = FALSE,
                                       ![FirstFound(r.path)].reg = FALSE]
             /\ \/ r.kind = "FILE" /\ Fork(t, "rm", Expand(r.path)) /\ Command(t, {"DELETE"}, "wait")
                \/ r.kind = "FOLDER" /\ Fork(t, "rmdir", Expand(r.path)) /\ Command(t, {"DELETE"}, "wait")
                \/ NoFork /\ Command(t, {"DELETE"}, "unlock")
     /\ UNCHANGED <<client, disk>>

CopyDest(t) ==
  /\ \/ Fork(t, "sh", request[t].path) /\ Command(t, {"COPYDEST"}, "wait")
     \/ NoFork /\ Command(t, {"COPYDEST"}, "unlock")
  /\ UNCHANGED <<client, files, up>>

\* open(), fopen() or stat() fails: an error is sent, and the function returns.
Fails(r) == IF r.op = "WRITE" THEN Kind(r.path) # "file" ELSE Kind(r.path) = "none"

OnFile == {"COPYSRC", "READ", "STAT", "STREAM", "WRITE"}
FileFails(t) ==
  /\ request[t].op \in OnFile
  /\ Fails(request[t]) \/ request[t].op = "WRITE"   \* or the disk is full
  /\ Command(t, OnFile, "left")
  /\ UNCHANGED <<client, child, files, up>>

\* What a file is read for ends with STOP, and client.c with it.
FileServed(t) ==
  /\ request[t].op \in OnFile /\ ~Fails(request[t])
  /\ Command(t, OnFile, "unlock")
  /\ IF request[t].op = "READ" /\ Kind(request[t].path) = "file" /\ fd[sock[t]] # Nobody
     THEN client' = [client EXCEPT ![fd[sock[t]]] = IF @ = "waiting" THEN "stop" ELSE @]
     ELSE UNCHANGED client
  /\ UNCHANGED <<child, files, up>>

\* IS_DIR and LIST_DIR look at the table only; a request that is not known does
\* nothing, nor does an empty buffer.
LookUp(t) ==
  /\ Command(t, {"IS_DIR", "LIST_DIR", ""}, "unlock")
  /\ UNCHANGED <<client, child, files, up>>

\* The child of t does its work, or fails; nobody looks at its status.
Works(w) ==
  \/ w.op \in {"touch", "sh"} /\ Kind(Parent(w.path)) = "dir" /\ Kind(w.path) # "dir"
       /\ disk' = [disk EXCEPT ![w.path] = "file"]
  \/ w.op = "mkdir" /\ Kind(Parent(w.path)) = "dir" /\ Kind(w.path) = "none"
       /\ disk' = [disk EXCEPT ![w.path] = "dir"]
  \/ w.op = "rm" /\ Kind(w.path) = "file" /\ disk' = [disk EXCEPT ![w.path] = "none"]
  \/ w.op = "rmdir" /\ Kind(w.path) = "dir" /\ w.path # Home
       /\ (\A p \in Path : Parent(p) = w.path => disk[p] = "none")
       /\ disk' = [disk EXCEPT ![w.path] = "none"]
  \/ UNCHANGED disk

\* wait(NULL) returns when some child of the process is done; COPYDEST waits
\* for its own with waitpid(), lists the file and answers.
Reaped(t) == IF request[t].op = "COPYDEST" THEN {t} ELSE {u \in Conn : child[u] # NoWork}

Wait(t) ==
  /\ pc[t] = "wait"
  /\ \E u \in Reaped(t) :
       /\ Works(child[u])
       /\ child' = [child EXCEPT ![u] = NoWork]
  /\ LET p == request[t].path
     IN IF request[t].op = "COPYDEST"
        THEN IF Tilde(p) /\ ~home
             THEN pc' = [pc EXCEPT ![t] = "left"] /\ UNCHANGED <<table, up>>
             ELSE pc' = [pc EXCEPT ![t] = "unlock"] /\ AddEntry(Expand(p))
        ELSE pc' = [pc EXCEPT ![t] = "unlock"] /\ UNCHANGED <<table, up>>
  /\ request' = [request EXCEPT ![t] = Empty]
  /\ UNCHANGED <<connections, sock, reads, mutex, home>>

Unlock(t) ==
  /\ pc[t] = "unlock"
  /\ mutex' = Nobody
  /\ pc' = [pc EXCEPT ![t] = "close"]
  /\ UNCHANGED <<connections, sock, reads, request, child, files, home, up>>

CloseOf(t, f) ==
  /\ pc[t] = "close"
  /\ fd' = [fd EXCEPT ![f] = Nobody]
  /\ pc' = [pc EXCEPT ![t] = "done"]
  /\ sock' = [sock EXCEPT ![t] = 0]
  /\ UNCHANGED <<clientSocket, client, unread, overrun, reads, request, mutex, child, files, home, up>>

Close(t) == CloseOf(t, sock[t])

Handle(t) ==
  \/ Start(t) \/ Call(t) \/ Read(t) \/ Lock(t)
  \/ CreateFails(t) \/ Create(t) \/ Delete(t) \/ CopyDest(t) \/ FileFails(t) \/ FileServed(t)
  \/ LookUp(t) \/ Wait(t) \/ Unlock(t) \/ Close(t)

Next == up /\ \E c \in Conn : Accept(c) \/ ClientCloses(c) \/ Handle(c)

Spec == Init /\ [][Next]_vars

-----------------------------------------------------------------------------
\* wait(NULL) (storage_server.c:316, 333, 414, 430) waits for any child of the
\* process: there is one child at a time, that of the thread that has the mutex.
OwnChildren == \A t \in Conn : child[t] # NoWork => mutex = t /\ pc[t] = "wait"

\* A thread waits for the mutex (storage_server.c:253) for one that is at work,
\* or for one that returned from the middle of its command with an error.
LockAccountedFor ==
  mutex # Nobody => pc[mutex] \in {"command", "wait", "unlock", "left"}

\* As long as no connection was accepted before the thread of the last one had
\* read client_socket (storage_server.c:141 and 244), each thread reads, answers
\* and closes the connection it was started for.
AnswersGoHome ==
  ~overrun => \A t \in Conn :
    /\ pc[t] = "start" => fd[clientSocket] = t
    /\ pc[t] \in {"call", "read", "lock", "command", "wait", "unlock", "close", "left"}
         => fd[sock[t]] = t
    /\ reads[t] \in {t, Nobody}
    /\ pc[t] = "done" => \A f \in Fd : fd[f] # t
=============================================================================
