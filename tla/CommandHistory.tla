--------------------------- MODULE CommandHistory ---------------------------
(***************************************************************************)
(* What the user of c_shell's history may rely on: the newest Capacity     *)
(* lines, oldest first, without repetitions of the line recorded last,     *)
(* kept in a file from one session to the next.                            *)
(***************************************************************************)
EXTENDS Naturals, Sequences

CONSTANTS Capacity, Line, NoLine

VARIABLES
  on,       \* a session is running
  hist,     \* the lines
  last,     \* the line recorded last, even if it has been purged
  pending,  \* the line that log execute has chosen to run next
  saved     \* the file

vars == <<on, hist, last, pending, saved>>

Newest(s) == IF Len(s) <= Capacity THEN s ELSE Tail(s)

Init == on = FALSE /\ hist = <<>> /\ last = <<>> /\ pending = NoLine /\ saved = <<>>

\* The session goes on or ends, and is saved when it ends.
GoOn == saved' = IF on' THEN saved ELSE hist'

Start ==
  /\ ~on /\ on'
  /\ hist' = saved
  /\ last' = IF saved = <<>> THEN <<>> ELSE saved[Len(saved)]
  /\ pending' = NoLine
  /\ UNCHANGED saved

Record(line) ==
  /\ on
  /\ pending \in {NoLine, line}
  /\ pending' = NoLine
  /\ hist' = IF line = last THEN hist ELSE Newest(Append(hist, line))
  /\ last' = line
  /\ GoOn

Look == on /\ pending = NoLine /\ UNCHANGED <<hist, last, pending>> /\ GoOn
Purge == on /\ pending = NoLine /\ hist' = <<>> /\ UNCHANGED <<last, pending>> /\ GoOn

Execute(n) ==
  /\ on /\ on'
  /\ pending = NoLine
  /\ n <= Len(hist)
  /\ pending' = hist[Len(hist) + 1 - n]
  /\ UNCHANGED <<hist, last, saved>>

Crash == on /\ ~on' /\ pending' = NoLine /\ UNCHANGED <<hist, last, saved>>

Next ==
  \/ Start \/ Look \/ Purge \/ Crash
  \/ \E line \in Line : Record(line)
  \/ \E n \in 1..Capacity : Execute(n)

Spec == Init /\ [][Next]_vars
=============================================================================
