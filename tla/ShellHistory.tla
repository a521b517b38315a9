---------------------------- MODULE ShellHistory ----------------------------
(***************************************************************************)
(* The command history of c_shell: the ring of queue.c, the built-in log   *)
(* of log.c, the loop of main.c that records lines, and the file between   *)
(* two sessions.  A line is a sequence of commands; aliases are expanded.  *)
(***************************************************************************)
EXTENDS Integers, Sequences

CONSTANTS
  MAX_SIZE,   \* slots of the ring
  Programs    \* bound: programs that a line may name

HistoryAssumption == MAX_SIZE \in Nat \ {0} /\ Programs \in Nat

Command(does, n) == [does |-> does, n |-> n]
Exit == Command("exit", 0)
Plain == {Command("run", n) : n \in 1..Programs} \cup {Exit}
LogCommand ==
  {Command("log", 0), Command("purge", 0)} \cup {Command("execute", n) : n \in 1..MAX_SIZE}
NoLine == <<Command("none", 0)>>

PlainLine == {<<>>} \cup {<<c>> : c \in Plain}
Line == PlainLine \cup {<<c>> : c \in LogCommand} \cup {<<c, Exit>> : c \in LogCommand}

VARIABLES
  items, front, rear, size,  \* the queue q
  logExec,                   \* log_exec while log_exec_flag is set, else NoLine
  on,                        \* the shell is running
  file                       \* log_commands_shell.txt

Queue == [items |-> items, front |-> front, rear |-> rear, size |-> size]
queue == <<items, front, rear, size>>
vars == <<queue, logExec, on, file>>

TypeOK ==
  /\ items \in [0..(MAX_SIZE - 1) -> PlainLine]
  /\ front \in 0..(MAX_SIZE - 1)
  /\ rear \in -1..(MAX_SIZE - 1)
  /\ size \in 0..MAX_SIZE
  /\ logExec \in PlainLine \cup {NoLine}
  /\ on \in BOOLEAN
  /\ file \in Seq(PlainLine) /\ Len(file) <= MAX_SIZE

-----------------------------------------------------------------------------
(* queue.c, from a queue to a queue.                                       *)

InitQueue == [items |-> [k \in 0..(MAX_SIZE - 1) |-> <<>>], front |-> 0, rear |-> -1, size |-> 0]
IsFull(q) == q.size = MAX_SIZE

\* Mutant of Dequeue: front does not wrap around.
DequeueStraight(q) == [q EXCEPT !.front = @ + 1, !.size = @ - 1]

Dequeue(q) == [q EXCEPT !.front = (@ + 1) % MAX_SIZE, !.size = @ - 1]
EnqueueOver(q, line) ==
  LET at == (q.rear + 1) % MAX_SIZE IN
  [q EXCEPT !.items[at] = line, !.rear = at, !.size = IF IsFull(q) THEN @ ELSE @ + 1]
Enqueue(q, line) ==
  LET room == IF IsFull(q) THEN Dequeue(q) ELSE q
      at == (room.rear + 1) % MAX_SIZE
  IN [room EXCEPT !.items[at] = line, !.rear = at, !.size = @ + 1]
EnqueueAll(q, lines) ==
  LET after[n \in 0..Len(lines)] == IF n = 0 THEN q ELSE Enqueue(after[n - 1], lines[n])
  IN after[Len(lines)]
Latest(q) == q.items[(q.rear + MAX_SIZE) % MAX_SIZE]

Contents(q) == [k \in 1..q.size |-> q.items[(q.front + k - 1) % MAX_SIZE]]

-----------------------------------------------------------------------------
\* What is left of the loop's state after one command of a line; s.logged is
\* log_, s.status the loop's condition.
RunCommand(s, c) ==
  CASE c.does = "exit" -> [s EXCEPT !.status = FALSE]
    [] c.does = "log" -> [s EXCEPT !.logged = TRUE]
    [] c.does = "purge" ->
         [s EXCEPT !.logged = TRUE, !.q.front = (@ + s.q.size) % MAX_SIZE, !.q.size = 0]
    [] c.does = "execute" ->
         IF s.q.size < c.n THEN [s EXCEPT !.logged = TRUE]
         ELSE [s EXCEPT !.logged = TRUE, !.status = FALSE,
                        !.exec = s.q.items[(s.q.rear - c.n + 1 + MAX_SIZE) % MAX_SIZE]]
    [] OTHER -> s

RunAll(s, line) ==
  LET after[n \in 0..Len(line)] == IF n = 0 THEN s ELSE RunCommand(after[n - 1], line[n])
  IN after[Len(line)]

\* shell_loop(): the commands of a line are run, then the line is recorded
\* unless it used log or is the latest; main() enters the loop again while
\* there is a line to execute, and saves the queue when the loop ends.
Record(s, line) == IF ~s.logged /\ line # Latest(s.q) THEN Enqueue(s.q, line) ELSE s.q

HandleLine(line) ==
  LET s == RunAll([q |-> Queue, logged |-> FALSE, status |-> TRUE, exec |-> NoLine], line)
      end == Record(s, line)
  IN /\ items' = end.items /\ front' = end.front /\ rear' = end.rear /\ size' = end.size
     /\ logExec' = s.exec
     /\ on' = (s.status \/ s.exec # NoLine)
     /\ file' = IF on' THEN file ELSE Contents(end)

Init ==
  /\ items = InitQueue.items /\ front = 0 /\ rear = -1 /\ size = 0
  /\ logExec = NoLine
  /\ on = FALSE
  /\ file = <<>>

\* main(): a new process; read_lines() enqueues the lines of the file.
Start ==
  /\ ~on
  /\ LET q == EnqueueAll(InitQueue, file)
     IN items' = q.items /\ front' = q.front /\ rear' = q.rear /\ size' = q.size
  /\ on' = TRUE
  /\ UNCHANGED <<logExec, file>>

ReadLine == on /\ logExec = NoLine /\ \E line \in Line : HandleLine(line)
RunLogged == on /\ logExec # NoLine /\ HandleLine(logExec)

\* Control-D: log_out().
EndOfInput ==
  /\ on /\ logExec = NoLine
  /\ on' = FALSE
  /\ file' = Contents(Queue)
  /\ UNCHANGED <<queue, logExec>>

\* The shell is killed, or dies in atoi(NULL) of "log execute" (log.c:125).
Crash ==
  /\ on
  /\ on' = FALSE
  /\ logExec' = NoLine
  /\ UNCHANGED <<queue, file>>

Next == Start \/ ReadLine \/ RunLogged \/ EndOfInput \/ Crash

Spec == Init /\ [][Next]_vars
=============================================================================
