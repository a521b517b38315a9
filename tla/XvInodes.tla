----------------------------- MODULE XvInodes -----------------------------
(***************************************************************************)
(* Inodes, directories and path names of xv6 (kernel/fs.c) under the       *)
(* system calls of kernel/sysfile.c that change them.                      *)
(*                                                                         *)
(* An inode in memory is written through to disk before its sleep-lock is  *)
(* released, so one copy of type, nlink and content stands for both; what  *)
(* only exists in memory is ref, valid and the lock.  A stretch of code    *)
(* under one inode's lock is one step, except where a second inode is      *)
(* locked meanwhile; each iput() is a step, and three when it frees.       *)
(* Calls are inside a transaction throughout (see XvLog).                  *)
(***************************************************************************)
EXTENDS Totals, Integers, Sequences

CONSTANTS
  Proc,
  Inode,   \* inode numbers
  Root,    \* ROOTINO
  None,    \* a null pointer, an empty directory entry, no owner of a lock
  Name,    \* file names
  Paths    \* paths the programs use; whether absolute, and names or ".."

InodeAssumption ==
  /\ Root \in Inode /\ None \notin Inode \cup Proc /\ ".." \notin Name
  /\ IsFiniteSet(Proc) /\ IsFiniteSet(Inode) /\ IsFiniteSet(Name)
PathAssumption ==
  \A s \in Paths : /\ s.absolute \in BOOLEAN /\ s.names # <<>>
                    /\ \A i \in 1 .. Len(s.names) : s.names[i] \in Name \cup {".."}

VARIABLES
  type, nlink,
  entries,            \* content of a directory: name -> inode number
  ref, valid, locker, \* the inode table; locker owns the sleep-lock
  pc, path,           \* the call a process is in, what namex() still walks
  ip, dp, old,        \* its inode pointers; old is link()'s first argument
  puts, freeing,      \* inodes it iput()s before it goes on, and how far
  cwd, open           \* its current directory and its open file

disk == <<type, nlink, entries>>
table == <<ref, valid, locker>>
locals == <<path, ip, dp, old>>
vars == <<disk, table, pc, locals, puts, freeing, cwd, open>>

AllNames == Name \cup {".."}
NoEntries == [n \in AllNames |-> None]
Pointer == Inode \cup {None}
Calls == {"open", "creat", "mkdir", "unlink", "link", "chdir"}
ByParent == {"creat", "mkdir", "unlink", "linkNew"}  \* use nameiparent()
Labels == Calls \cup {"user", "linkNew", "linkUndo", "creatOld", "mkdirOld",
                      "creatNew", "mkdirNew", "unlinkIp"}

TypeOK ==
  /\ type \in [Inode -> {"free", "file", "dir"}] /\ nlink \in [Inode -> Nat]
  /\ entries \in [Inode -> [AllNames -> Pointer]]
  /\ ref \in [Inode -> Nat] /\ valid \in [Inode -> BOOLEAN]
  /\ locker \in [Inode -> Proc \cup {None}]
  /\ pc \in [Proc -> Labels] /\ path \in [Proc -> Seq(AllNames)]
  /\ \A f \in {ip, dp, old, open} : f \in [Proc -> Pointer]
  /\ cwd \in [Proc -> Inode] /\ puts \in [Proc -> Seq(Inode)]
  /\ freeing \in [Proc -> {"no", "free", "drop"}]

Init ==
  /\ type = [i \in Inode |-> IF i = Root THEN "dir" ELSE "free"]
  /\ nlink = [i \in Inode |-> IF i = Root THEN 1 ELSE 0]
  /\ entries = [i \in Inode |-> IF i = Root THEN [NoEntries EXCEPT ![".."] = Root]
                                            ELSE NoEntries]
  /\ ref = [i \in Inode |-> IF i = Root THEN Cardinality(Proc) ELSE 0]
  /\ valid = [i \in Inode |-> i = Root]
  /\ locker = [i \in Inode |-> None]
  /\ pc = [p \in Proc |-> "user"] /\ path = [p \in Proc |-> <<>>]
  /\ ip = [p \in Proc |-> None] /\ dp = [p \in Proc |-> None]
  /\ old = [p \in Proc |-> None] /\ open = [p \in Proc |-> None]
  /\ puts = [p \in Proc |-> <<>>] /\ freeing = [p \in Proc |-> "no"]
  /\ cwd = [p \in Proc |-> Root]

-----------------------------------------------------------------------------
(* The inode table *)

At(p, l) == pc[p] = l /\ puts[p] = <<>>
Goto(p, l) == pc' = [pc EXCEPT ![p] = l]
Lockable(i) == locker[i] = None

\* ilock() reads an inode that is not valid; iget(i) adds a reference.
Locked(f, i) == [f EXCEPT ![i] = TRUE]
Got(i) == ref' = [ref EXCEPT ![i] = @ + 1]

\* Process p calls iput() on these inodes, in this order, and then continues
\* at l; its pointers to them are gone.
Leave(p, s, l) ==
  /\ puts' = [puts EXCEPT ![p] = s]
  /\ Goto(p, l)
  /\ path' = [path EXCEPT ![p] = <<>>]
  /\ ip' = [ip EXCEPT ![p] = None] /\ dp' = [dp EXCEPT ![p] = None]

\* Mutant of Put: an inode without links is freed under the others' references.
PutEager(p) ==
  LET i == Head(puts[p]) IN
  /\ puts[p] # <<>> /\ freeing[p] = "no"
  /\ IF valid[i] /\ nlink[i] = 0
       THEN /\ Lockable(i)
            /\ locker' = [locker EXCEPT ![i] = p]
            /\ freeing' = [freeing EXCEPT ![p] = "free"]
            /\ UNCHANGED <<ref, valid, puts>>
       ELSE /\ ref' = [ref EXCEPT ![i] = @ - 1]
            /\ valid' = [valid EXCEPT ![i] = @ /\ ref[i] > 1]
            /\ puts' = [puts EXCEPT ![p] = Tail(@)]
            /\ UNCHANGED <<locker, freeing>>
  /\ UNCHANGED <<disk, pc, locals, cwd, open>>

\* iput(): drops the reference, or starts to free the inode ...
Put(p) ==
  LET i == Head(puts[p]) IN
  /\ puts[p] # <<>> /\ freeing[p] = "no"
  /\ IF ref[i] = 1 /\ valid[i] /\ nlink[i] = 0
       THEN /\ Lockable(i)
            /\ locker' = [locker EXCEPT ![i] = p]
            /\ freeing' = [freeing EXCEPT ![p] = "free"]
            /\ UNCHANGED <<ref, valid, puts>>
       ELSE /\ ref' = [ref EXCEPT ![i] = @ - 1]
            /\ valid' = [valid EXCEPT ![i] = @ /\ ref[i] > 1]
            /\ puts' = [puts EXCEPT ![p] = Tail(@)]
            /\ UNCHANGED <<locker, freeing>>
  /\ UNCHANGED <<disk, pc, locals, cwd, open>>

\* ... truncates it and marks it free on disk, without itable.lock ...
PutFree(p) ==
  LET i == Head(puts[p]) IN
  /\ freeing[p] = "free"
  /\ type' = [type EXCEPT ![i] = "free"]
  /\ entries' = [entries EXCEPT ![i] = NoEntries]
  /\ valid' = [valid EXCEPT ![i] = FALSE]
  /\ locker' = [locker EXCEPT ![i] = None]
  /\ freeing' = [freeing EXCEPT ![p] = "drop"]
  /\ UNCHANGED <<nlink, ref, pc, locals, puts, cwd, open>>

\* ... and drops the reference.
PutDrop(p) ==
  LET i == Head(puts[p]) IN
  /\ freeing[p] = "drop"
  /\ ref' = [ref EXCEPT ![i] = @ - 1]
  /\ valid' = [valid EXCEPT ![i] = @ /\ ref[i] > 1]
  /\ puts' = [puts EXCEPT ![p] = Tail(@)]
  /\ freeing' = [freeing EXCEPT ![p] = "no"]
  /\ UNCHANGED <<disk, locker, pc, locals, cwd, open>>

\* What ialloc() looks for, and what dirlink() does to a directory.
FreeInodes == {i \in Inode : type[i] = "free"}
DirLink(f, d, n, i) == [f EXCEPT ![d][n] = i]

-----------------------------------------------------------------------------
(* Path names *)

\* Where namex() begins.
Start(p, s) == IF s.absolute THEN Root ELSE cwd[p]

\* A system call starts: namex() takes the root or the current directory.
Begin(p, c) ==
  \E s \in Paths :
    /\ At(p, "user")
    /\ c \in {"open", "creat"} => open[p] = None
    /\ ip' = [ip EXCEPT ![p] = Start(p, s)]
    /\ path' = [path EXCEPT ![p] = s.names]
    /\ Got(Start(p, s))
    /\ Goto(p, c)
    /\ UNCHANGED <<disk, valid, locker, dp, old, puts, freeing, cwd, open>>

WalkFailed(p) == IF pc[p] = "linkNew" THEN "linkUndo" ELSE "user"
AtParent(p) == pc[p] \in ByParent /\ Len(path[p]) = 1

\* One turn of namex()'s loop: lock, look up, unlock; then iput().
Walk(p) ==
  LET i == ip[p]
      next == entries[i][Head(path[p])]
  IN
  /\ pc[p] \in Calls \cup {"linkNew"} /\ puts[p] = <<>>
  /\ i # None /\ path[p] # <<>> /\ Lockable(i)
  /\ \/ /\ type[i] # "dir" \/ (~AtParent(p) /\ next = None)
        /\ valid' = Locked(valid, i)
        /\ Leave(p, <<i>>, WalkFailed(p))
        /\ UNCHANGED ref
     \/ /\ type[i] = "dir" /\ AtParent(p)
        /\ valid' = Locked(valid, i)
        /\ dp' = [dp EXCEPT ![p] = i] /\ ip' = [ip EXCEPT ![p] = None]
        /\ UNCHANGED <<ref, pc, path, puts>>
     \/ /\ type[i] = "dir" /\ ~AtParent(p) /\ next # None
        /\ valid' = Locked(valid, i)
        /\ Got(next)
        /\ puts' = [puts EXCEPT ![p] = <<i>>]
        /\ ip' = [ip EXCEPT ![p] = next]
        /\ path' = [path EXCEPT ![p] = Tail(@)]
        /\ UNCHANGED <<pc, dp>>
  /\ UNCHANGED <<disk, locker, old, freeing, cwd, open>>

\* namei() has returned ip, or nameiparent() dp, and the inode can be locked.
AtInode(p, c) == At(p, c) /\ ip[p] # None /\ path[p] = <<>> /\ Lockable(ip[p])
AtDir(p, c) == At(p, c) /\ dp[p] # None /\ Lockable(dp[p])
Last(p) == Head(path[p])
Child(p) == entries[dp[p]][Last(p)]

-----------------------------------------------------------------------------
(* open(), close(), chdir() *)

\* The inode becomes an open file, or not: the file table or the process'
\* descriptors are full, or a directory is opened for writing.
BecomeOpen(p, s) ==
  \/ /\ open' = [open EXCEPT ![p] = ip[p]]
     /\ Leave(p, s, "user")
  \/ /\ Leave(p, s \o <<ip[p]>>, "user")
     /\ UNCHANGED open

Open(p) ==
  /\ AtInode(p, "open")
  /\ valid' = Locked(valid, ip[p])
  /\ BecomeOpen(p, <<>>)
  /\ UNCHANGED <<disk, ref, locker, old, freeing, cwd>>

Close(p) ==
  /\ At(p, "user") /\ open[p] # None
  /\ Leave(p, <<open[p]>>, "user")
  /\ open' = [open EXCEPT ![p] = None]
  /\ UNCHANGED <<disk, table, old, freeing, cwd>>

Chdir(p) ==
  /\ AtInode(p, "chdir")
  /\ valid' = Locked(valid, ip[p])
  /\ IF type[ip[p]] = "dir"
       THEN /\ cwd' = [cwd EXCEPT ![p] = ip[p]]
            /\ Leave(p, <<cwd[p]>>, "user")
       ELSE /\ Leave(p, <<ip[p]>>, "user")
            /\ UNCHANGED cwd
  /\ UNCHANGED <<disk, ref, locker, old, freeing, open>>

-----------------------------------------------------------------------------
(* create(), for open() and mkdir() *)

\* A directory's lookup or allocation under dp's lock.
Create(p, c) ==
  /\ AtDir(p, c)
  /\ \/ /\ Child(p) # None                             \* it exists already
        /\ Got(Child(p))
        /\ ip' = [ip EXCEPT ![p] = Child(p)]
        /\ puts' = [puts EXCEPT ![p] = <<dp[p]>>]
        /\ dp' = [dp EXCEPT ![p] = None]
        /\ path' = [path EXCEPT ![p] = <<>>]
        /\ Goto(p, IF c = "mkdir" THEN "mkdirOld" ELSE "creatOld")
        /\ UNCHANGED <<disk, locker>>
     \/ /\ Child(p) = None                             \* ialloc() fails
        /\ FreeInodes = {}
        /\ Leave(p, <<dp[p]>>, "user")
        /\ UNCHANGED <<disk, ref, locker>>
     \/ \E i \in FreeInodes :                          \* ialloc()
        /\ Child(p) = None
        /\ type' = [type EXCEPT ![i] = IF c = "mkdir" THEN "dir" ELSE "file"]
        /\ nlink' = [nlink EXCEPT ![i] = 0]
        /\ Got(i)
        /\ ip' = [ip EXCEPT ![p] = i]
        /\ locker' = [locker EXCEPT ![dp[p]] = p]
        /\ Goto(p, IF c = "mkdir" THEN "mkdirNew" ELSE "creatNew")
        /\ UNCHANGED <<entries, dp, path, puts>>
  /\ valid' = Locked(valid, dp[p])
  /\ UNCHANGED <<old, freeing, cwd, open>>

\* The name exists: open() takes a file, everything else fails.
CreateOld(p) ==
  /\ At(p, "creatOld") \/ At(p, "mkdirOld")
  /\ Lockable(ip[p])
  /\ valid' = Locked(valid, ip[p])
  /\ IF pc[p] = "creatOld" /\ type[ip[p]] = "file"
       THEN BecomeOpen(p, <<>>)
       ELSE Leave(p, <<ip[p]>>, "user") /\ UNCHANGED open
  /\ UNCHANGED <<disk, ref, locker, old, freeing, cwd>>

\* The new inode is locked and linked under dp, or the disk is full.
CreateNew(p) ==
  LET i == ip[p]
      isDir == pc[p] = "mkdirNew"
  IN
  /\ At(p, "creatNew") \/ At(p, "mkdirNew")
  /\ Lockable(i)
  /\ valid' = Locked(valid, i)
  /\ locker' = [locker EXCEPT ![dp[p]] = None]
  /\ \/ /\ nlink' = [nlink EXCEPT ![i] = 1, ![dp[p]] = @ + (IF isDir THEN 1 ELSE 0)]
        /\ entries' = DirLink(IF isDir THEN DirLink(entries, i, "..", dp[p]) ELSE entries, dp[p], Last(p), i)
        /\ IF isDir
             THEN Leave(p, <<dp[p], i>>, "user") /\ UNCHANGED open
             ELSE BecomeOpen(p, <<dp[p]>>)
     \/ /\ Leave(p, <<i, dp[p]>>, "user")
        /\ UNCHANGED <<nlink, entries, open>>
  /\ UNCHANGED <<type, ref, old, freeing, cwd>>

-----------------------------------------------------------------------------
(* unlink() and link() *)

Unlink(p) ==
  /\ AtDir(p, "unlink")
  /\ valid' = Locked(valid, dp[p])
  /\ \/ /\ Last(p) = ".." \/ Child(p) = None
        /\ Leave(p, <<dp[p]>>, "user")
        /\ UNCHANGED <<ref, locker>>
     \/ /\ Last(p) # ".." /\ Child(p) # None
        /\ Got(Child(p))
        /\ ip' = [ip EXCEPT ![p] = Child(p)]
        /\ locker' = [locker EXCEPT ![dp[p]] = p]
        /\ Goto(p, "unlinkIp")
        /\ UNCHANGED <<path, dp, puts>>
  /\ UNCHANGED <<disk, old, freeing, cwd, open>>

IsDirEmpty(i) == \A n \in Name : entries[i][n] = None

UnlinkIp(p) ==
  LET i == ip[p] IN
  /\ At(p, "unlinkIp") /\ Lockable(i)
  /\ valid' = Locked(valid, i)
  /\ locker' = [locker EXCEPT ![dp[p]] = None]
  /\ IF type[i] = "dir" /\ ~IsDirEmpty(i)
       THEN /\ Leave(p, <<i, dp[p]>>, "user")
            /\ UNCHANGED <<nlink, entries>>
       ELSE /\ entries' = [entries EXCEPT ![dp[p]][Last(p)] = None]
            /\ nlink' = [nlink EXCEPT ![i] = @ - 1,
                                      ![dp[p]] = @ - (IF type[i] = "dir" THEN 1 ELSE 0)]
            /\ Leave(p, <<dp[p], i>>, "user")
  /\ UNCHANGED <<type, ref, old, freeing, cwd, open>>

\* link(): the count goes up first; then the new name is looked up.
Link(p) ==
  LET i == ip[p] IN
  /\ AtInode(p, "link")
  /\ valid' = Locked(valid, i)
  /\ \/ /\ type[i] = "dir"
        /\ Leave(p, <<i>>, "user")
        /\ UNCHANGED <<nlink, ref, old>>
     \/ \E s \in Paths :
        /\ type[i] # "dir"
        /\ nlink' = [nlink EXCEPT ![i] = @ + 1]
        /\ old' = [old EXCEPT ![p] = i]
        /\ ip' = [ip EXCEPT ![p] = Start(p, s)]
        /\ path' = [path EXCEPT ![p] = s.names]
        /\ Got(Start(p, s))
        /\ Goto(p, "linkNew")
        /\ UNCHANGED <<dp, puts>>
  /\ UNCHANGED <<type, entries, locker, freeing, cwd, open>>

LinkNew(p) ==
  /\ AtDir(p, "linkNew")
  /\ valid' = Locked(valid, dp[p])
  /\ \/ /\ Child(p) = None
        /\ entries' = DirLink(entries, dp[p], Last(p), old[p])
        /\ old' = [old EXCEPT ![p] = None]
        /\ Leave(p, <<dp[p], old[p]>>, "user")
     \/ /\ Leave(p, <<dp[p]>>, "linkUndo")   \* the name exists, or the disk is full
        /\ UNCHANGED <<entries, old>>
  /\ UNCHANGED <<type, nlink, ref, locker, freeing, cwd, open>>

\* Mutant of LinkUndo: the error path of link() forgets iput(ip).
LinkUndoKeeping(p) ==
  LET i == old[p] IN
  /\ At(p, "linkUndo") /\ Lockable(i)
  /\ valid' = Locked(valid, i)
  /\ nlink' = [nlink EXCEPT ![i] = @ - 1]
  /\ old' = [old EXCEPT ![p] = None]
  /\ Leave(p, <<>>, "user")
  /\ UNCHANGED <<type, entries, ref, locker, freeing, cwd, open>>

LinkUndo(p) ==
  LET i == old[p] IN
  /\ At(p, "linkUndo") /\ Lockable(i)
  /\ valid' = Locked(valid, i)
  /\ nlink' = [nlink EXCEPT ![i] = @ - 1]
  /\ old' = [old EXCEPT ![p] = None]
  /\ Leave(p, <<i>>, "user")
  /\ UNCHANGED <<type, entries, ref, locker, freeing, cwd, open>>

-----------------------------------------------------------------------------
Next ==
  \E p \in Proc :
    \/ Put(p) \/ PutFree(p) \/ PutDrop(p)
    \/ Walk(p) \/ Open(p) \/ Close(p) \/ Chdir(p)
    \/ CreateOld(p) \/ CreateNew(p)
    \/ Unlink(p) \/ UnlinkIp(p) \/ Link(p) \/ LinkNew(p) \/ LinkUndo(p)
    \/ \E c \in Calls : Begin(p, c)
    \/ \E c \in {"creat", "mkdir"} : Create(p, c)

Spec == Init /\ [][Next]_vars

-----------------------------------------------------------------------------
(* Properties *)

Pointers(p, i) ==
  Cardinality({f \in {"ip", "dp", "old", "cwd", "open"} :
                 [ip |-> ip, dp |-> dp, old |-> old, cwd |-> cwd, open |-> open][f][p] = i})
  + Cardinality({k \in 1 .. Len(puts[p]) : puts[p][k] = i})

\* "ip->ref tracks the number of in-memory pointers to the entry" (fs.c:134):
\* no path through a call, successful or not, forgets or repeats an iput().
RefsCounted == \A i \in Inode : ref[i] = Total([p \in Proc |-> Pointers(p, i)], Proc)

\* What a process points to, or a directory names, is an allocated inode: it
\* cannot be freed under the one nor disappear from under the other, so that
\* ilock() never panics with "no type" (fs.c:315).
NothingDangles ==
  /\ \A p \in Proc : {ip[p], dp[p], old[p], cwd[p], open[p]} \subseteq
                     {i \in Inode : type[i] # "free"} \cup {None}
  /\ \A i \in Inode, n \in Name :
       entries[i][n] # None => type[entries[i][n]] # "free"

\* An inode has at least one link for every name it has.
LinksCover ==
  \A i \in Inode :
    Cardinality({e \in Inode \X Name : entries[e[1]][e[2]] = i}) <= nlink[i]
=============================================================================
