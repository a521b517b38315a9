------------------------------- MODULE Totals -------------------------------
(***************************************************************************)
(* Sums of what every member of a set counts, as the number of the things  *)
(* that are counted.                                                       *)
(***************************************************************************)
EXTENDS Naturals, FiniteSets

\* What the members of S have, f[s] things each.
Things(f, S) == UNION {{s} \X (1..f[s]) : s \in S}

Total(f, S) == Cardinality(Things(f, S))
=============================================================================
