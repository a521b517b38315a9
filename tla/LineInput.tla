----------------------------- MODULE LineInput -----------------------------
(***************************************************************************)
(* What the console promises to those who read it: a line can be edited    *)
(* until it is complete, and the characters of complete lines are read in  *)
(* the order they were typed, each once.                                   *)
(***************************************************************************)
EXTENDS Naturals, Sequences

CONSTANTS Char, EndOfLine, EndOfFile, Capacity

VARIABLES
  complete,  \* characters that may be read, oldest first
  line       \* the line that is being typed

Init == complete = <<>> /\ line = <<>>

Type(c) ==
  /\ Len(complete) + Len(line) < Capacity
  /\ IF c \in {EndOfLine, EndOfFile} \/ Len(complete) + Len(line) + 1 = Capacity
       THEN complete' = complete \o line \o <<c>> /\ line' = <<>>
       ELSE line' = Append(line, c) /\ UNCHANGED complete

Erase == line # <<>> /\ line' = SubSeq(line, 1, Len(line) - 1) /\ UNCHANGED complete

EraseLine == line' = <<>> /\ UNCHANGED complete

Read == complete # <<>> /\ complete' = Tail(complete) /\ UNCHANGED line

Next == Erase \/ EraseLine \/ Read \/ \E c \in Char : Type(c)

Spec == Init /\ [][Next]_<<complete, line>>
=============================================================================
