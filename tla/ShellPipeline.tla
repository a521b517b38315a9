--------------------------- MODULE ShellPipeline ---------------------------
(***************************************************************************)
(* A pipeline of external commands in c_shell: shell_loop() makes all the  *)
(* pipes (main.c), then handle_sys() forks one stage after the other and   *)
(* waits for each before it goes on to the next (sys.c).  Ends of pipes    *)
(* are held by the shell and inherited by the stages.                      *)
(***************************************************************************)
EXTENDS Naturals, FiniteSets

CONSTANTS
  Stages,    \* of the pipeline
  PipeSize,  \* of the system's pipes
  MaxOut     \* bound on what a stage writes

PipelineAssumption == Stages \in Nat \ {0} /\ PipeSize \in Nat \ {0} /\ MaxOut \in Nat

Stage == 1..Stages
PipeNo == 1..(Stages - 1)   \* pipe k leads from stage k to stage k + 1
Ends == PipeNo \X {"r", "w"}
Shell == 0

VARIABLES
  counter,   \* pipe_counter: stages forked
  waiting,   \* the shell is in waitpid()
  stage,     \* "none", "running", "stopped" or "ended"
  holds,     \* the ends that the shell and each stage have open
  toWrite,   \* what a stage has still to write
  amount,    \* what it writes in all
  filled     \* what each pipe contains

vars == <<counter, waiting, stage, holds, toWrite, amount, filled>>

TypeOK ==
  /\ counter \in 0..Stages
  /\ waiting \in BOOLEAN
  /\ stage \in [Stage -> {"none", "running", "stopped", "ended"}]
  /\ holds \in [Stage \cup {Shell} -> SUBSET Ends]
  /\ toWrite \in [Stage -> 0..MaxOut] /\ amount \in [Stage -> 0..MaxOut]
  /\ filled \in [PipeNo -> 0..PipeSize]

\* pipe() for every pipe, before the first stage.
Init ==
  /\ counter = 0 /\ waiting = FALSE
  /\ stage = [k \in Stage |-> "none"]
  /\ holds = [x \in Stage \cup {Shell} |-> IF x = Shell THEN Ends ELSE {}]
  /\ amount \in [Stage -> 0..MaxOut]
  /\ toWrite = amount
  /\ filled = [k \in PipeNo |-> 0]

\* The child: input and output are dup2()ed, the other two ends closed.
StageCloses(k) == {<<k - 1, "w">>, <<k, "r">>}
\* The shell, after fork().
ShellCloses(k) == {<<k - 1, "r">>, <<k - 1, "w">>, <<k, "w">>}

Fork ==
  /\ ~waiting /\ counter < Stages
  /\ LET k == counter + 1 IN
     /\ stage' = [stage EXCEPT ![k] = "running"]
     /\ holds' = [holds EXCEPT ![k] = holds[Shell] \ StageCloses(k),
                               ![Shell] = @ \ ShellCloses(k)]
     /\ counter' = k
  /\ waiting' = TRUE
  /\ UNCHANGED <<toWrite, amount, filled>>

\* waitpid(pid, WUNTRACED): also when the stage was stopped.
Wait ==
  /\ waiting
  /\ stage[counter] \in {"stopped", "ended"}
  /\ waiting' = FALSE
  /\ UNCHANGED <<counter, stage, holds, toWrite, amount, filled>>

-----------------------------------------------------------------------------
(* The stages.  A program reads its input to the end and writes.           *)

Held(e) == \E x \in Stage \cup {Shell} : e \in holds[x]
EndOfFile(k) == k > 1 => filled[k - 1] = 0 /\ ~Held(<<k - 1, "w">>)

Write(k) ==
  /\ stage[k] = "running" /\ toWrite[k] > 0
  /\ k < Stages => filled[k] < PipeSize /\ Held(<<k, "r">>)
  /\ toWrite' = [toWrite EXCEPT ![k] = @ - 1]
  /\ filled' = IF k < Stages THEN [filled EXCEPT ![k] = @ + 1] ELSE filled
  /\ UNCHANGED <<counter, waiting, stage, holds, amount>>

Read(k) ==
  /\ stage[k] = "running" /\ k > 1
  /\ filled[k - 1] > 0
  /\ filled' = [filled EXCEPT ![k - 1] = @ - 1]
  /\ UNCHANGED <<counter, waiting, stage, holds, toWrite, amount>>

\* At the end of its work, or by SIGPIPE when nobody can read what it writes.
End(k) ==
  /\ stage[k] = "running"
  /\ \/ toWrite[k] = 0 /\ EndOfFile(k)
     \/ k < Stages /\ toWrite[k] > 0 /\ ~Held(<<k, "r">>)
  /\ stage' = [stage EXCEPT ![k] = "ended"]
  /\ holds' = [holds EXCEPT ![k] = {}]
  /\ UNCHANGED <<counter, waiting, toWrite, amount, filled>>

\* Control-Z and fg or bg.
Stop(k) ==
  /\ stage[k] = "running" /\ waiting /\ counter = k
  /\ stage' = [stage EXCEPT ![k] = "stopped"]
  /\ UNCHANGED <<counter, waiting, holds, toWrite, amount, filled>>

Resume(k) ==
  /\ stage[k] = "stopped" /\ ~waiting /\ counter = Stages
  /\ stage' = [stage EXCEPT ![k] = "running"]
  /\ UNCHANGED <<counter, waiting, holds, toWrite, amount, filled>>

Next ==
  \/ Fork \/ Wait
  \/ \E k \in Stage : Write(k) \/ Read(k) \/ End(k) \/ Stop(k) \/ Resume(k)

Spec == Init /\ [][Next]_vars

-----------------------------------------------------------------------------
CanMove(k) ==
  \/ toWrite[k] = 0 /\ EndOfFile(k)
  \/ k > 1 /\ filled[k - 1] > 0
  \/ toWrite[k] > 0 /\ (k < Stages => filled[k] < PipeSize /\ Held(<<k, "r">>))

\* The stage that the shell waits for gets on, unless it writes more than a
\* pipe holds or an earlier stage is stopped: every write end that would keep
\* it from its end of file is closed, although the shell and all stages
\* inherit every pipe of the line (sys.c:126, 164).  When the last stage has
\* been forked the shell has no end left open.
PipelineMoves ==
  /\ waiting /\ stage[counter] = "running" =>
       \/ CanMove(counter)
       \/ amount[counter] > PipeSize
       \/ \E k \in 1..(counter - 1) : stage[k] = "stopped"
  /\ counter = Stages => holds[Shell] = {}
=============================================================================
