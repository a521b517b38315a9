---------------------------- MODULE NameDirectory ----------------------------
(***************************************************************************)
(* What the naming server's hash map and LRU cache promise the handlers of *)
(* requests: a path may have several owners, the newest first; the cache   *)
(* may hold one owner of a path, that it has had since it was the newest,  *)
(* and forgets it at any time but at the latest when the path is deleted.  *)
(* So the cache may answer with an older owner than the map does, and a    *)
(* deleted path may still have an owner; it never answers with a server    *)
(* that the map does not list for the path.                                *)
(***************************************************************************)
EXTENDS Integers, Sequences

CONSTANTS Path, Owner, None

VARIABLES owners,  \* owners[p]: the servers entered for p, the newest first
          recent   \* recent[p]: the server the cache holds for p, or None

vars == <<owners, recent>>

Init ==
  /\ owners = [p \in Path |-> <<>>]
  /\ recent = [p \in Path |-> None]

Newest(p) == IF owners[p] = <<>> THEN None ELSE Head(owners[p])

(* What the cache may hold for p after a step.                             *)
Cached(p) == recent'[p] \in {recent[p], None, Newest(p)'}

(* `longer' is `shorter' with newer owners in front.                       *)
Extends(longer, shorter) ==
  \E n \in 0..Len(longer) : shorter = SubSeq(longer, n + 1, Len(longer))

(* A lookup, or a request that enters owners for some paths.               *)
Enter ==
  /\ owners' \in [Path -> Seq(Owner)]
  /\ recent' \in [Path -> Owner \cup {None}]
  /\ \A p \in Path : Extends(owners'[p], owners[p]) /\ Cached(p)

(* The newest owner of p goes, and whatever the cache has for p.           *)
Delete(p) ==
  /\ owners' = [owners EXCEPT ![p] = IF @ = <<>> THEN @ ELSE Tail(@)]
  /\ recent' \in [Path -> Owner \cup {None}]
  /\ recent'[p] = None
  /\ \A q \in Path \ {p} : Cached(q)

Next == Enter \/ \E p \in Path : Delete(p)

Spec == Init /\ [][Next]_vars
=============================================================================
