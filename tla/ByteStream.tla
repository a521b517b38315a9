---------------------------- MODULE ByteStream ----------------------------
(***************************************************************************)
(* What a pipe promises to the programs at its two ends: at most Capacity  *)
(* bytes wait in it, and they come out in the order in which they went in, *)
(* each of them once.                                                      *)
(***************************************************************************)
EXTENDS Naturals, Sequences

CONSTANTS Bytes, Capacity

VARIABLE stream  \* the bytes written and not yet read, oldest first

Init == stream = <<>>

Put(b) == Len(stream) < Capacity /\ stream' = Append(stream, b)

Get == stream # <<>> /\ stream' = Tail(stream)

Next == Get \/ \E b \in Bytes : Put(b)

Spec == Init /\ [][Next]_stream
=============================================================================
