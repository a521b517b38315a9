----------------------------- MODULE ShellJobs -----------------------------
(***************************************************************************)
(* The child processes of c_shell: external commands in the foreground and *)
(* in the background (sys.c), the SIGCHLD handler of main.c, which may run *)
(* between any two statements of the shell, fg, bg and ping (signals.c).   *)
(* The system may use a pid again once its process was waited for.         *)
(***************************************************************************)
EXTENDS Naturals, FiniteSets

CONSTANTS
  Pid,
  None,
  MaxSpawn   \* bound on the processes the shell starts

JobsAssumption == None \notin Pid /\ MaxSpawn \in Nat

VARIABLES
  os,          \* what the system knows of a pid
  spawned,     \* pids in spawned_processes
  background,  \* pids in background_processes
  fgProc,      \* current_fg_proc
  at,          \* where the shell is
  cur, bg,     \* the process that handle_sys() or handle_fg() is busy with
  pending,     \* SIGCHLD is pending
  handling,    \* sigchld_handler() runs
  starts

vars == <<os, spawned, background, fgProc, at, cur, bg, pending, handling, starts>>

Mine == {"running", "stopped", "zombie"}  \* a child of the shell
Free == {"unused", "stranger"}            \* waited for, or another program's
Places == {"prompt", "forked", "started", "waiting", "resumed", "over", "crashed"}

TypeOK ==
  /\ os \in [Pid -> Mine \cup Free]
  /\ spawned \subseteq Pid /\ background \subseteq Pid
  /\ fgProc \in Pid \cup {None} /\ cur \in Pid \cup {None}
  /\ at \in Places
  /\ bg \in BOOLEAN /\ pending \in BOOLEAN /\ handling \in BOOLEAN
  /\ starts \in 0..MaxSpawn

Init ==
  /\ os = [p \in Pid |-> "unused"]
  /\ spawned = {} /\ background = {}
  /\ fgProc = None /\ cur = None
  /\ at = "prompt"
  /\ bg = FALSE /\ pending = FALSE /\ handling = FALSE
  /\ starts = 0

\* A child changes its state and the system sends SIGCHLD.
Becomes(p, state) == os' = [os EXCEPT ![p] = state] /\ pending' = TRUE

-----------------------------------------------------------------------------
(* handle_sys().  Its statements run only while the handler does not.      *)

Fork(p) ==
  /\ at = "prompt" /\ ~handling
  /\ os[p] = "unused" /\ starts < MaxSpawn
  /\ starts' = starts + 1
  /\ os' = [os EXCEPT ![p] = "running"]
  /\ cur' = p
  /\ bg' \in BOOLEAN
  /\ at' = "forked"
  /\ UNCHANGED <<spawned, background, fgProc, pending, handling>>

RecordSpawned ==
  /\ at = "forked" /\ ~handling
  /\ spawned' = spawned \cup {cur}
  /\ fgProc' = IF bg THEN fgProc ELSE cur
  /\ at' = "started"
  /\ UNCHANGED <<os, background, cur, bg, pending, handling, starts>>

ToPrompt ==
  /\ at' = "prompt" /\ cur' = None /\ bg' = FALSE
  /\ fgProc' = None

RecordBackground ==
  /\ at = "started" /\ bg /\ ~handling
  /\ background' = background \cup {cur}
  /\ ToPrompt
  /\ UNCHANGED <<os, spawned, pending, handling, starts>>

\* waitpid(pid, WUNTRACED | WCONTINUED) blocks, and returns when the child has
\* ended or was stopped; also when the handler has waited for it, and then
\* proc_status was never written.
Block ==
  /\ at = "started" /\ ~bg /\ ~handling
  /\ os[cur] = "running"
  /\ at' = "waiting"
  /\ UNCHANGED <<os, spawned, background, fgProc, cur, bg, pending, handling, starts>>

RecordStopped == background' = background \cup {cur}

Waited ==
  /\ at \in {"started", "waiting"} /\ ~bg /\ ~handling
  /\ \/ /\ os[cur] = "zombie"
        /\ os' = [os EXCEPT ![cur] = "unused"]
        /\ UNCHANGED background
     \/ /\ os[cur] = "stopped"
        /\ RecordStopped
        /\ UNCHANGED os
     \/ /\ os[cur] \in Free
        /\ background' \in {background, background \cup {cur}}
        /\ UNCHANGED os
  /\ ToPrompt
  /\ UNCHANGED <<spawned, pending, handling, starts>>

-----------------------------------------------------------------------------
(* fg, bg, ping and the end of the shell.                                  *)

\* kill(pid, SIGCONT) makes a stopped child run again.
Continue(p) ==
  IF os[p] = "stopped" THEN Becomes(p, "running") ELSE UNCHANGED <<os, pending>>

HandleFg(p) ==
  /\ at = "prompt" /\ ~handling
  /\ os[p] # "unused"
  /\ Continue(p)
  /\ cur' = p
  /\ at' = "resumed"
  /\ UNCHANGED <<spawned, background, fgProc, bg, handling, starts>>

\* waitpid(pid, WUNTRACED) of handle_fg().
FgWaited ==
  /\ at = "resumed" /\ ~handling
  /\ os[cur] # "running"
  /\ os' = IF os[cur] = "zombie" THEN [os EXCEPT ![cur] = "unused"] ELSE os
  /\ ToPrompt
  /\ UNCHANGED <<spawned, background, pending, handling, starts>>

HandleBg(p) ==
  /\ at = "prompt" /\ ~handling
  /\ os[p] = "stopped"
  /\ Continue(p)
  /\ UNCHANGED <<spawned, background, fgProc, at, cur, bg, handling, starts>>

\* ping with SIGKILL or SIGSTOP; other signals end or leave a child.
HandleSignals(p) ==
  /\ at = "prompt" /\ ~handling
  /\ \/ os[p] \in {"running", "stopped"} /\ Becomes(p, "zombie")
     \/ os[p] = "running" /\ Becomes(p, "stopped")
  /\ UNCHANGED <<spawned, background, fgProc, at, cur, bg, handling, starts>>

\* log_out() kills every pid in spawned_processes, whoever has it by now;
\* the built-in exit kills nobody.
LogOut ==
  /\ at = "prompt" /\ ~handling
  /\ os' \in {[p \in Pid |-> IF p \in spawned THEN "unused" ELSE os[p]], os}
  /\ at' = "over"
  /\ UNCHANGED <<spawned, background, fgProc, cur, bg, pending, handling, starts>>

-----------------------------------------------------------------------------
(* sigchld_handler().  A blocked waitpid() that finds its child returns    *)
(* before the handler starts.                                              *)

Alive == at \notin {"over", "crashed"}

Deliver ==
  /\ Alive /\ pending /\ ~handling
  /\ ~(at \in {"waiting", "resumed"} /\ os[cur] = "zombie")
  /\ handling' = TRUE
  /\ UNCHANGED <<os, spawned, background, fgProc, at, cur, bg, pending, starts>>

\* The scan for the pid has no end test: for a child that is not in
\* background_processes it leaves the table, and crashes or happens to stop.
Reap(p) ==
  /\ Alive /\ handling /\ os[p] = "zombie"
  /\ os' = [os EXCEPT ![p] = "unused"]
  /\ at' \in IF p \in background THEN {at} ELSE {at, "crashed"}
  /\ UNCHANGED <<spawned, background, fgProc, cur, bg, pending, handling, starts>>

HandlerReturns ==
  /\ Alive /\ handling
  /\ \A p \in Pid : os[p] # "zombie"
  /\ handling' = FALSE /\ pending' = FALSE
  /\ UNCHANGED <<os, spawned, background, fgProc, at, cur, bg, starts>>

-----------------------------------------------------------------------------
(* The system and the user.                                                *)

ChildEnds(p) ==
  /\ Alive /\ os[p] = "running"
  /\ Becomes(p, "zombie")
  /\ UNCHANGED <<spawned, background, fgProc, at, cur, bg, handling, starts>>

\* Control-Z: handle_sigtstp() stops current_fg_proc; a job that fg resumed
\* may be in the terminal's process group.
Suspend ==
  /\ \E p \in {fgProc} \cup (IF at = "resumed" THEN {cur} ELSE {}) :
       p # None /\ os[p] = "running" /\ Becomes(p, "stopped")
  /\ Alive
  /\ UNCHANGED <<spawned, background, fgProc, at, cur, bg, handling, starts>>

Reuse(p) ==
  /\ os[p] \in Free
  /\ os' = [os EXCEPT ![p] = IF @ = "unused" THEN "stranger" ELSE "unused"]
  /\ UNCHANGED <<spawned, background, fgProc, at, cur, bg, pending, handling, starts>>

Next ==
  \/ RecordSpawned \/ RecordBackground \/ Block \/ Waited \/ FgWaited \/ LogOut
  \/ Deliver \/ HandlerReturns \/ Suspend
  \/ \E p \in Pid : \/ Fork(p) \/ HandleFg(p) \/ HandleBg(p) \/ HandleSignals(p)
                    \/ Reap(p) \/ ChildEnds(p) \/ Reuse(p)

Spec == Init /\ [][Next]_vars

-----------------------------------------------------------------------------
\* Every child that still runs, is stopped or is a zombie is listed in
\* background_processes, where sigchld_handler() looks it up, or is the very
\* process that handle_sys() is starting or waiting for: through stops, fg, bg
\* and reuse of pids no job gets lost, and the handler's scan leaves the table
\* only for that one process (sys.c:182, main.c:85).
JobsKnown ==
  \A p \in Pid : os[p] \in Mine /\ at # "over" =>
    \/ p \in background
    \/ p = cur /\ at \in {"forked", "started", "waiting", "crashed"}
=============================================================================
