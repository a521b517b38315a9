----------------------------- MODULE ShellDirs -----------------------------
(***************************************************************************)
(* Where c_shell is: the built-ins hop (hop.c) and mark (mark.c), which    *)
(* keep the shell's own idea of its directory beside the system's.  A      *)
(* directory is the sequence of names on its path; others may remove or    *)
(* make directories meanwhile.                                             *)
(***************************************************************************)
EXTENDS Naturals, Sequences, SequencesExt

CONSTANTS
  Directory,   \* paths that may exist, with all their prefixes
  Home,
  Fragile,     \* directories that come and go, none a prefix of another
  Arg,         \* of hop: [kind, path]; kind is what its test in hop() finds
  Label,       \* names of bookmarks
  MARK_MAX     \* bound on the bookmarks (256 in the code)

DirsAssumption ==
  /\ Home \in Directory \ Fragile /\ Fragile \subseteq Directory
  /\ \A d \in Directory : d # <<>> => Front(d) \in Directory \ Fragile
  /\ \A a \in Arg : a.kind \in {".", "~", "-", "..", "absolute", "relative"}
  /\ MARK_MAX \in Nat

VARIABLES
  exists,              \* the directories there are
  cwd,                 \* the shell's directory, as the system has it
  currentDir, prevDir, \* as the shell has it
  error,               \* of the last command
  marks,               \* the file of bookmarks: [name, path] line by line
  on

dirs == <<cwd, currentDir, prevDir, error>>
vars == <<exists, dirs, marks, on>>

Path == Directory \cup {Append(d, a.path[1]) : d \in Directory, a \in {b \in Arg : b.path # <<>>}}
Mark == [name: Label, path: Path]

TypeOK ==
  /\ exists \subseteq Directory
  /\ cwd \in Directory
  /\ currentDir \in Path /\ prevDir \in Path
  /\ error \in BOOLEAN /\ on \in BOOLEAN
  /\ marks \in Seq(Mark) /\ Len(marks) <= MARK_MAX

Init ==
  /\ exists = Directory
  /\ cwd = Home /\ currentDir = Home /\ prevDir = Home
  /\ error = FALSE
  /\ marks = <<>>
  /\ on = TRUE

-----------------------------------------------------------------------------
(* hop, one argument after the other.  s is the state that the arguments   *)
(* so far have left; s.moved is abs || dot.                                *)

Parent(d) == IF d = <<>> THEN d ELSE Front(d)

\* chdir(path); the shell's directories follow only if nothing has failed yet.
Change(s, path) ==
  LET t == IF path \in exists THEN [s EXCEPT !.cwd = path] ELSE [s EXCEPT !.error = TRUE]
  IN IF t.moved /\ ~t.error
     THEN [t EXCEPT !.prev = t.current, !.current = path, !.moved = FALSE]
     ELSE t

\* Without the flag dot: below the root nothing else would be done.
HopUpUnflagged(s) ==
  Change([s EXCEPT !.prev = s.current,
                   !.current = IF Len(s.cwd) > 1 THEN Parent(s.cwd) ELSE s.cwd],
         Parent(s.cwd))

\* ".." takes the parent from getcwd() and cuts currentDir itself, except
\* below the root, before Change() copies it to prevDir.
HopUp(s) ==
  Change([s EXCEPT !.moved = TRUE, !.prev = s.current,
                   !.current = IF Len(s.cwd) > 1 THEN Parent(s.cwd) ELSE s.cwd],
         Parent(s.cwd))

HopArg(s, a) ==
  IF s.gone THEN s
  ELSE CASE a.kind = "." -> s
         [] a.kind = "~" -> Change([s EXCEPT !.prev = s.current, !.current = Home], Home)
         [] a.kind = "-" -> Change([s EXCEPT !.prev = s.current, !.current = s.prev], s.prev)
         [] a.kind = ".." -> IF s.cwd \in exists THEN HopUp(s) ELSE [s EXCEPT !.gone = TRUE]
         [] a.kind = "absolute" -> Change([s EXCEPT !.moved = TRUE], a.path)
         [] a.kind = "relative" -> Change([s EXCEPT !.moved = TRUE], s.current \o a.path)

At(s) == cwd' = s.cwd /\ currentDir' = s.current /\ prevDir' = s.prev /\ error' = s.error
Here == [cwd |-> cwd, current |-> currentDir, prev |-> prevDir, error |-> FALSE, moved |-> FALSE,
         gone |-> FALSE]  \* getcwd() has failed: exit(1)

\* One or two arguments: the second may be missing, which is as good as ".".
\* Without any, hop goes home.
NoArg == [kind |-> ".", path |-> <<>>]
GoHome == [kind |-> "~", path |-> <<>>]

HandleHop ==
  /\ on
  /\ \E first \in Arg \cup {GoHome}, second \in Arg \cup {NoArg} :
       LET s == HopArg(HopArg(Here, first), second) IN At(s) /\ on' = ~s.gone
  /\ UNCHANGED <<exists, marks>>

-----------------------------------------------------------------------------
(* mark: the file is read before and written after each change.            *)

Named(n) == {k \in 1..Len(marks) : marks[k].name = n}

AddMark ==
  /\ on
  /\ \E n \in Label :
       IF Named(n) # {}
       THEN /\ marks' = [marks EXCEPT ![CHOOSE k \in Named(n) : TRUE].path = currentDir]
            /\ error' = FALSE
       ELSE IF Len(marks) < MARK_MAX
       THEN marks' = Append(marks, [name |-> n, path |-> currentDir]) /\ error' = FALSE
       ELSE error' = TRUE /\ UNCHANGED marks
  /\ UNCHANGED <<exists, cwd, currentDir, prevDir, on>>

GoToMark ==
  /\ on
  /\ \E n \in Label :
       IF \E k \in Named(n) : marks[k].path \in exists
       THEN At([cwd |-> marks[CHOOSE k \in Named(n) : TRUE].path,
                current |-> marks[CHOOSE k \in Named(n) : TRUE].path,
                prev |-> currentDir, error |-> FALSE])
       ELSE error' = TRUE /\ UNCHANGED <<cwd, currentDir, prevDir>>
  /\ UNCHANGED <<exists, marks, on>>

DeleteMark ==
  /\ on
  /\ \E n \in Label :
       IF Named(n) # {}
       THEN marks' = RemoveAt(marks, CHOOSE k \in Named(n) : TRUE) /\ error' = FALSE
       ELSE error' = TRUE /\ UNCHANGED marks
  /\ UNCHANGED <<exists, cwd, currentDir, prevDir, on>>

Others ==
  /\ \E d \in Fragile : exists' = IF d \in exists THEN exists \ {d} ELSE exists \cup {d}
  /\ UNCHANGED <<dirs, marks, on>>

Next == HandleHop \/ AddMark \/ GoToMark \/ DeleteMark \/ Others

Spec == Init /\ [][Next]_vars

-----------------------------------------------------------------------------
\* A command none of whose steps failed leaves the shell's idea of its
\* directory right if it was, whatever mixture of "..", "~", "-" and paths it
\* went through (hop.c:161, mark.c:144); and a label has one bookmark.
Followed ==
  /\ ~error' /\ currentDir = cwd => currentDir' = cwd'
  /\ \A j, k \in 1..Len(marks') : marks'[j].name = marks'[k].name => j = k

FollowsDirectory == [][Followed]_vars
=============================================================================
