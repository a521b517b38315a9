----------------------------- MODULE XvConsole -----------------------------
(***************************************************************************)
(* Console input of xv6 (kernel/console.c): the interrupt handler edits    *)
(* the line in cons.buf, read() waits for a whole one.  cons.lock is held  *)
(* except while a reader sleeps.  cons.r <= cons.w <= cons.e are unsigned  *)
(* and wrap around.                                                        *)
(***************************************************************************)
EXTENDS Naturals, Sequences

CONSTANTS
  Proc,
  Nobody,     \* no owner of cons.lock
  EndOfLine,  \* newline, or a return that becomes one
  EndOfFile,  \* control-D
  Char,       \* what can be typed, these two included
  BufSize,    \* INPUT_BUF_SIZE
  Wrap,       \* the indices count modulo this (2^32 in the code)
  MaxN        \* bound: the largest n of one read()

CharAssumption == {EndOfLine, EndOfFile} \subseteq Char /\ Nobody \notin Proc
BufAssumption ==
  /\ BufSize \in Nat \ {0} /\ Wrap \in Nat /\ MaxN \in Nat
  /\ Wrap % BufSize = 0 /\ Wrap > BufSize

VARIABLES
  buf, r, w, e,   \* cons
  lock,           \* owner of cons.lock
  pc,             \* "user" or in consoleread(): "wait" (awake) or "asleep"
  left, target    \* of consoleread()

vars == <<buf, r, w, e, lock, pc, left, target>>

Counter == 0 .. Wrap - 1

TypeOK ==
  /\ buf \in [0 .. BufSize - 1 -> Char]
  /\ {r, w, e} \subseteq Counter /\ lock \in Proc \cup {Nobody}
  /\ pc \in [Proc -> {"user", "wait", "asleep"}]
  /\ left \in [Proc -> 0 .. MaxN] /\ target \in [Proc -> 0 .. MaxN]

Init ==
  /\ buf = [k \in 0 .. BufSize - 1 |-> EndOfLine]
  /\ r = 0 /\ w = 0 /\ e = 0 /\ lock = Nobody
  /\ pc = [p \in Proc |-> "user"]
  /\ left = [p \in Proc |-> 0] /\ target = [p \in Proc |-> 0]

Minus(a, b) == (a + Wrap - b) % Wrap
At(k) == buf[k % BufSize]
WakeReaders == pc' = [p \in Proc |-> IF pc[p] = "asleep" THEN "wait" ELSE pc[p]]

-----------------------------------------------------------------------------
(* consoleintr() *)

\* Mutant of Type: the room is counted from w instead of r.
TypeOverUnread(c) ==
  /\ lock = Nobody /\ Minus(e, w) < BufSize
  /\ buf' = [buf EXCEPT ![e % BufSize] = c]
  /\ e' = (e + 1) % Wrap
  /\ IF c \in {EndOfLine, EndOfFile} \/ Minus(e', w) = BufSize
       THEN w' = e' /\ WakeReaders
       ELSE UNCHANGED <<w, pc>>
  /\ UNCHANGED <<r, lock, left, target>>

Type(c) ==
  /\ lock = Nobody /\ Minus(e, r) < BufSize
  /\ buf' = [buf EXCEPT ![e % BufSize] = c]
  /\ e' = (e + 1) % Wrap
  /\ IF c \in {EndOfLine, EndOfFile} \/ Minus(e', r) = BufSize
       THEN w' = e' /\ WakeReaders
       ELSE UNCHANGED <<w, pc>>
  /\ UNCHANGED <<r, lock, left, target>>

\* Control-H
Backspace ==
  /\ lock = Nobody /\ e # w
  /\ e' = Minus(e, 1)
  /\ UNCHANGED <<buf, r, w, lock, pc, left, target>>

\* Control-U: back to w or to a newline.
KillLine ==
  /\ lock = Nobody
  /\ \E k \in 0 .. Minus(e, w) :
       /\ \A j \in 1 .. k : At(Minus(e, j)) # EndOfLine
       /\ k = Minus(e, w) \/ At(Minus(e, k + 1)) = EndOfLine
       /\ e' = Minus(e, k)
  /\ UNCHANGED <<buf, r, w, lock, pc, left, target>>

-----------------------------------------------------------------------------
(* consoleread() *)

Call(p) ==
  \E n \in 1 .. MaxN :
    /\ pc[p] = "user"
    /\ pc' = [pc EXCEPT ![p] = "wait"]
    /\ left' = [left EXCEPT ![p] = n] /\ target' = [target EXCEPT ![p] = n]
    /\ UNCHANGED <<buf, r, w, e, lock>>

Reading(p) == pc[p] = "wait" /\ lock \in {Nobody, p}

Return(p) ==
  /\ lock' = Nobody
  /\ pc' = [pc EXCEPT ![p] = "user"]
  /\ left' = [left EXCEPT ![p] = 0] /\ target' = [target EXCEPT ![p] = 0]

\* There is nothing: sleep, or return since the process is killed.
Wait(p) ==
  /\ Reading(p) /\ left[p] > 0 /\ r = w
  /\ \/ /\ pc' = [pc EXCEPT ![p] = "asleep"]
        /\ lock' = Nobody
        /\ UNCHANGED <<left, target>>
     \/ Return(p)
  /\ UNCHANGED <<buf, r, w, e>>

\* A control-D ends the read; after some characters it is left for the next.
ReadEof(p) ==
  /\ Reading(p) /\ left[p] > 0 /\ r # w /\ At(r) = EndOfFile
  /\ r' = IF left[p] < target[p] THEN r ELSE (r + 1) % Wrap
  /\ Return(p)
  /\ UNCHANGED <<buf, w, e>>

\* A character is taken; a newline or a failed copy ends the read.
ReadChar(p) ==
  /\ Reading(p) /\ left[p] > 0 /\ r # w /\ At(r) # EndOfFile
  /\ r' = (r + 1) % Wrap
  /\ \/ Return(p)
     \/ /\ At(r) # EndOfLine
        /\ left' = [left EXCEPT ![p] = @ - 1]
        /\ lock' = p
        /\ UNCHANGED <<pc, target>>
  /\ UNCHANGED <<buf, w, e>>

ReadEnd(p) ==
  /\ Reading(p) /\ left[p] = 0
  /\ Return(p)
  /\ UNCHANGED <<buf, r, w, e>>

\* kill() wakes a sleeping reader.
Killed(p) ==
  /\ pc[p] = "asleep"
  /\ pc' = [pc EXCEPT ![p] = "wait"]
  /\ UNCHANGED <<buf, r, w, e, lock, left, target>>

-----------------------------------------------------------------------------
Next ==
  \/ \E c \in Char : Type(c)
  \/ Backspace \/ KillLine
  \/ \E p \in Proc :
       Call(p) \/ Wait(p) \/ ReadEof(p) \/ ReadChar(p) \/ ReadEnd(p) \/ Killed(p)

Spec == Init /\ [][Next]_vars

-----------------------------------------------------------------------------
(* Properties *)

\* A reader sleeps only while no complete line is in the buffer.
ReadersAwake == \A p \in Proc : lock = Nobody /\ pc[p] = "asleep" => r = w

Stretch(from, to) == [i \in 1 .. Minus(to, from) |-> At(from + i - 1)]
\* Characters of complete lines, and those of the line that is being typed.
Complete == Stretch(r, w)
Line == Stretch(w, e)
=============================================================================
