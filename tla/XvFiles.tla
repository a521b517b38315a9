------------------------------ MODULE XvFiles ------------------------------
(***************************************************************************)
(* The open files of xv6: the file table (kernel/file.c), the descriptors  *)
(* of each process, and the system calls of kernel/sysfile.c, fork() and   *)
(* exit() that share files between processes.  What ftable.lock covers is  *)
(* one step, together with what the process does to its own descriptors,   *)
(* which no other process looks at.                                        *)
(***************************************************************************)
EXTENDS Totals, Sequences, FiniteSetsExt

CONSTANTS
  Proc,
  First,    \* the process that runs at the start
  NumFile,  \* NFILE
  NumFd,    \* NOFILE
  Pipe,     \* pages that kalloc() may hand out for a pipe
  None

FileAssumption ==
  /\ IsFiniteSet(Proc) /\ First \in Proc /\ NumFile \in Nat /\ NumFd \in Nat \ {0}
  /\ None \notin 1 .. NumFile

VARIABLES
  ref, type,    \* struct file
  ofile,        \* the descriptors of a process
  readopen, writeopen,  \* pipes whose end is open
  inodes,       \* references to inodes that open files and open() hold
  pc, arg,      \* the call a process is in, and a file or a process it is about
  toClose,      \* files it is going to call fileclose() on
  release       \* what its fileclose() is going to release

pipes == <<readopen, writeopen>>
vars == <<ref, type, ofile, pipes, inodes, pc, arg, toClose, release>>

File == 1 .. NumFile
Fd == 0 .. NumFd - 1
Ends == {"r", "w"} \X Pipe
Types == {<<"none">>, <<"inode">>} \cup Ends

TypeOK ==
  /\ ref \in [File -> Nat] /\ type \in [File -> Types]
  /\ ofile \in [Proc -> [Fd -> File \cup {None}]]
  /\ readopen \subseteq Pipe /\ writeopen \subseteq Pipe /\ inodes \in Nat
  /\ pc \in [Proc -> {"unused", "user", "open", "pipe", "dup", "fork", "exit"}]
  /\ arg \in [Proc -> File \cup Proc \cup {None}]
  /\ toClose \in [Proc -> Seq(File)] /\ release \in [Proc -> Types]

Init ==
  /\ ref = [f \in File |-> 0] /\ type = [f \in File |-> <<"none">>]
  /\ ofile = [p \in Proc |-> [d \in Fd |-> None]]
  /\ readopen = {} /\ writeopen = {} /\ inodes = 0
  /\ pc = [p \in Proc |-> IF p = First THEN "user" ELSE "unused"]
  /\ arg = [p \in Proc |-> None]
  /\ toClose = [p \in Proc |-> <<>>] /\ release = [p \in Proc |-> <<"none">>]

\* p has nothing left to close and is at l.
At(p, l) == pc[p] = l /\ toClose[p] = <<>> /\ release[p] = <<"none">>
Goto(p, l) == pc' = [pc EXCEPT ![p] = l]
Then(p, s) == toClose' = [toClose EXCEPT ![p] = s]

FreeFiles == {f \in File : ref[f] = 0}
FreeFds(p) == {d \in Fd : ofile[p][d] = None}

-----------------------------------------------------------------------------
(* fileclose() *)

FileClose(p) ==
  LET f == Head(toClose[p]) IN
  /\ toClose[p] # <<>> /\ release[p] = <<"none">>
  /\ ref' = [ref EXCEPT ![f] = @ - 1]
  /\ IF ref[f] = 1
       THEN /\ type' = [type EXCEPT ![f] = <<"none">>]
            /\ release' = [release EXCEPT ![p] = type[f]]
       ELSE UNCHANGED <<type, release>>
  /\ Then(p, Tail(toClose[p]))
  /\ UNCHANGED <<ofile, pipes, inodes, pc, arg>>

\* pipeclose() or iput()
Release(p) ==
  LET t == release[p] IN
  /\ t # <<"none">>
  /\ IF t = <<"inode">>
       THEN inodes' = inodes - 1 /\ UNCHANGED pipes
       ELSE /\ readopen' = IF t[1] = "r" THEN readopen \ {t[2]} ELSE readopen
            /\ writeopen' = IF t[1] = "w" THEN writeopen \ {t[2]} ELSE writeopen
            /\ UNCHANGED inodes
  /\ release' = [release EXCEPT ![p] = <<"none">>]
  /\ UNCHANGED <<ref, type, ofile, pc, arg, toClose>>

-----------------------------------------------------------------------------
(* open() and close() *)

\* namei() or create() returns an inode.
Open(p) ==
  /\ At(p, "user")
  /\ inodes' = inodes + 1
  /\ Goto(p, "open")
  /\ UNCHANGED <<ref, type, ofile, pipes, arg, toClose, release>>

\* Mutant of OpenFile: the file has its inode before there is a descriptor.
OpenFileTyped(p) ==
  /\ At(p, "open") /\ FreeFiles # {}
  /\ LET f == Min(FreeFiles) IN
       /\ ref' = [ref EXCEPT ![f] = 1]
       /\ type' = [type EXCEPT ![f] = <<"inode">>]
       /\ IF FreeFds(p) # {}
            THEN /\ ofile' = [ofile EXCEPT ![p][Min(FreeFds(p))] = f]
                 /\ UNCHANGED <<inodes, toClose>>
            ELSE /\ Then(p, <<f>>)
                 /\ inodes' = inodes - 1
                 /\ UNCHANGED ofile
  /\ Goto(p, "user")
  /\ UNCHANGED <<pipes, arg, release>>

\* filealloc() and fdalloc()
OpenFile(p) ==
  /\ At(p, "open") /\ FreeFiles # {}
  /\ LET f == Min(FreeFiles) IN
       /\ ref' = [ref EXCEPT ![f] = 1]
       /\ IF FreeFds(p) # {}
            THEN /\ ofile' = [ofile EXCEPT ![p][Min(FreeFds(p))] = f]
                 /\ type' = [type EXCEPT ![f] = <<"inode">>]
                 /\ UNCHANGED <<inodes, toClose>>
            ELSE /\ Then(p, <<f>>)
                 /\ inodes' = inodes - 1
                 /\ UNCHANGED <<ofile, type>>
  /\ Goto(p, "user")
  /\ UNCHANGED <<pipes, arg, release>>

OpenNoFile(p) ==
  /\ At(p, "open") /\ FreeFiles = {}
  /\ inodes' = inodes - 1
  /\ Goto(p, "user")
  /\ UNCHANGED <<ref, type, ofile, pipes, arg, toClose, release>>

Close(p, d) ==
  /\ At(p, "user") /\ ofile[p][d] # None
  /\ ofile' = [ofile EXCEPT ![p][d] = None]
  /\ Then(p, <<ofile[p][d]>>)
  /\ UNCHANGED <<ref, type, pipes, inodes, pc, arg, release>>

-----------------------------------------------------------------------------
(* pipe() *)

\* pipealloc() gets its first file ...
PipeFirst(p) ==
  /\ At(p, "user") /\ FreeFiles # {}
  /\ ref' = [ref EXCEPT ![Min(FreeFiles)] = 1]
  /\ arg' = [arg EXCEPT ![p] = Min(FreeFiles)]
  /\ Goto(p, "pipe")
  /\ UNCHANGED <<type, ofile, pipes, inodes, toClose, release>>

FreePipes == Pipe \ (readopen \cup writeopen)

\* ... but no second one, or no page for the pipe.
PipeFails(p) ==
  LET f0 == arg[p] IN
  /\ At(p, "pipe")
  /\ \/ /\ FreeFiles = {}
        /\ Then(p, <<f0>>)
        /\ UNCHANGED ref
     \/ /\ FreeFiles # {} /\ FreePipes = {}
        /\ ref' = [ref EXCEPT ![Min(FreeFiles)] = 1]
        /\ Then(p, <<f0, Min(FreeFiles)>>)
  /\ arg' = [arg EXCEPT ![p] = None]
  /\ Goto(p, "user")
  /\ UNCHANGED <<type, ofile, pipes, inodes, release>>

\* The pipe exists; without two free descriptors, or when copyout() of their
\* numbers fails, both ends are closed again.
PipeMake(p) ==
  LET f0 == arg[p]
      f1 == Min(FreeFiles)
      q == CHOOSE q \in FreePipes : TRUE
      d0 == Min(FreeFds(p))
      d1 == Min(FreeFds(p) \ {d0})
  IN
  /\ At(p, "pipe") /\ FreeFiles # {} /\ FreePipes # {}
  /\ ref' = [ref EXCEPT ![f1] = 1]
  /\ type' = [type EXCEPT ![f0] = <<"r", q>>, ![f1] = <<"w", q>>]
  /\ readopen' = readopen \cup {q} /\ writeopen' = writeopen \cup {q}
  /\ \/ /\ Cardinality(FreeFds(p)) >= 2
        /\ ofile' = [ofile EXCEPT ![p][d0] = f0, ![p][d1] = f1]
        /\ UNCHANGED toClose
     \/ Then(p, <<f0, f1>>) /\ UNCHANGED ofile
  /\ arg' = [arg EXCEPT ![p] = None]
  /\ Goto(p, "user")
  /\ UNCHANGED <<inodes, release>>

-----------------------------------------------------------------------------
(* dup(), fork(), exit() *)

\* The descriptor comes first, the reference second.
Dup(p, d) ==
  /\ At(p, "user") /\ ofile[p][d] # None /\ FreeFds(p) # {}
  /\ ofile' = [ofile EXCEPT ![p][Min(FreeFds(p))] = ofile[p][d]]
  /\ arg' = [arg EXCEPT ![p] = ofile[p][d]]
  /\ Goto(p, "dup")
  /\ UNCHANGED <<ref, type, pipes, inodes, toClose, release>>

FileDup(p) ==
  /\ At(p, "dup")
  /\ ref' = [ref EXCEPT ![arg[p]] = @ + 1]
  /\ arg' = [arg EXCEPT ![p] = None]
  /\ Goto(p, "user")
  /\ UNCHANGED <<type, ofile, pipes, inodes, toClose, release>>

Fork(p, q) ==
  /\ At(p, "user") /\ pc[q] = "unused" /\ \A o \in Proc : arg[o] # q
  /\ arg' = [arg EXCEPT ![p] = q]
  /\ Goto(p, "fork")
  /\ UNCHANGED <<ref, type, ofile, pipes, inodes, toClose, release>>

NotCopied(p) == {d \in Fd : ofile[p][d] # ofile[arg[p]][d]}

ForkDup(p) ==
  LET d == Min(NotCopied(p))
      f == ofile[p][d]
  IN
  /\ At(p, "fork") /\ NotCopied(p) # {}
  /\ ref' = [ref EXCEPT ![f] = @ + 1]
  /\ ofile' = [ofile EXCEPT ![arg[p]][d] = f]
  /\ UNCHANGED <<type, pipes, inodes, pc, arg, toClose, release>>

ForkEnd(p) ==
  /\ At(p, "fork") /\ NotCopied(p) = {}
  /\ pc' = [pc EXCEPT ![p] = "user", ![arg[p]] = "user"]
  /\ arg' = [arg EXCEPT ![p] = None]
  /\ UNCHANGED <<ref, type, ofile, pipes, inodes, toClose, release>>

Exit(p) ==
  /\ At(p, "user") /\ p # First
  /\ Goto(p, "exit")
  /\ UNCHANGED <<ref, type, ofile, pipes, inodes, arg, toClose, release>>

Used(p) == Fd \ FreeFds(p)

ExitClose(p) ==
  /\ At(p, "exit") /\ Used(p) # {}
  /\ Then(p, <<ofile[p][Min(Used(p))]>>)
  /\ ofile' = [ofile EXCEPT ![p][Min(Used(p))] = None]
  /\ UNCHANGED <<ref, type, pipes, inodes, pc, arg, release>>

ExitEnd(p) ==
  /\ At(p, "exit") /\ Used(p) = {}
  /\ Goto(p, "unused")
  /\ UNCHANGED <<ref, type, ofile, pipes, inodes, arg, toClose, release>>

-----------------------------------------------------------------------------
Next ==
  \E p \in Proc :
    \/ FileClose(p) \/ Release(p)
    \/ Open(p) \/ OpenFile(p) \/ OpenNoFile(p)
    \/ PipeFirst(p) \/ PipeFails(p) \/ PipeMake(p)
    \/ FileDup(p) \/ ForkDup(p) \/ ForkEnd(p) \/ Exit(p) \/ ExitClose(p) \/ ExitEnd(p)
    \/ \E d \in Fd : Close(p, d) \/ Dup(p, d)
    \/ \E q \in Proc : Fork(p, q)

Spec == Init /\ [][Next]_vars

-----------------------------------------------------------------------------
(* Properties *)

Slots(f) == Cardinality({s \in Proc \X Fd : ofile[s[1]][s[2]] = f})
Closes(f) == [p \in Proc |-> Cardinality({k \in 1 .. Len(toClose[p]) : toClose[p][k] = f})]
InHand(f) == Cardinality({p \in Proc : pc[p] = "pipe" /\ arg[p] = f}) + Total(Closes(f), Proc)
DupsToCome(f) == Cardinality({p \in Proc : pc[p] = "dup" /\ arg[p] = f})

\* A file has one reference per descriptor and per call that has it in hand,
\* on every failing path of open(), pipe() and fork() and while others close
\* the same file (file.c:64).
FilesCounted == \A f \in File : ref[f] + DupsToCome(f) = Slots(f) + InHand(f)

Releasing(t) == Cardinality({p \in Proc : release[p] = t})
OfType(t) == Cardinality({f \in File : type[f] = t})

\* What a file stands for is released once, by the last fileclose(): an end of
\* a pipe is open, and an inode referenced, exactly as often as a file in use
\* or a fileclose() under way says.
ObjectsReleasedOnce ==
  /\ \A q \in Pipe :
       /\ OfType(<<"r", q>>) + Releasing(<<"r", q>>) = (IF q \in readopen THEN 1 ELSE 0)
       /\ OfType(<<"w", q>>) + Releasing(<<"w", q>>) = (IF q \in writeopen THEN 1 ELSE 0)
  /\ inodes = OfType(<<"inode">>) + Releasing(<<"inode">>)
              + Cardinality({p \in Proc : pc[p] = "open"})
=============================================================================
