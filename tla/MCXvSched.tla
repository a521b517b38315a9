------------------------------ MODULE MCXvSched ------------------------------
(* Time slices for the runs of XvSched: short ones, so that every queue is *)
(* reached between two boosts, and the ones of proc.c:119, 645-653.        *)
EXTENDS XvSched

ShortSlice == [q \in 0..3 |-> IF q = 0 THEN 1 ELSE 2]
CodeSlice == [q \in 0..3 |-> CASE q = 0 -> 1 [] q = 1 -> 4 [] q = 2 -> 8 [] q = 3 -> 16]
=============================================================================
