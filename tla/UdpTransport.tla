---------------------------- MODULE UdpTransport ----------------------------
(***************************************************************************)
(* A message in chunks over UDP: tcp_stack_client.c sends one chunk at a   *)
(* time and waits 100 ms for an acknowledgement, tcp_stack_server.c stores *)
(* chunks and acknowledges each.  Datagrams are lost, delayed, duplicated  *)
(* and overtake each other.  The message of the program fits one chunk;    *)
(* the model takes any number of chunks.                                   *)
(***************************************************************************)
EXTENDS Integers, FiniteSets

CONSTANTS
  MAX_CHUNKS, \* slots of received_data
  MaxTotal    \* bound on the chunks of a message

ChunksAssumption == MAX_CHUNKS \in Nat \ {0} /\ MaxTotal \in Nat \ {0}

VARIABLES
  total,      \* total_chunks
  i,          \* the chunk the client is at
  client,     \* "send", "wait" for the acknowledgement, "done"
  packets,    \* chunks on their way to the server
  acks,       \* acknowledgements on their way to the client
  received,   \* the slots of received_data that are not NULL
  receivedChunks,
  running,    \* the server has not ended
  early       \* chunks the client left before they were acknowledged

vars == <<total, i, client, packets, acks, received, receivedChunks, running, early>>

Chunk == 0..(MaxTotal - 1)

TypeOK ==
  /\ total \in 1..MaxTotal
  /\ i \in 0..total
  /\ client \in {"send", "wait", "done"}
  /\ packets \subseteq 0..(total - 1)
  /\ acks \subseteq 0..(total - 1)
  /\ received \subseteq 0..(total - 1)
  /\ receivedChunks \in 0..total
  /\ running \in BOOLEAN
  /\ early \subseteq 0..(total - 1)

Init ==
  /\ total \in 1..MaxTotal
  /\ i = 0
  /\ client = "send"
  /\ packets = {} /\ acks = {}
  /\ received = {} /\ receivedChunks = 0
  /\ running = TRUE
  /\ early = {}

Send ==
  /\ client = "send"
  /\ packets' = packets \cup {i}
  /\ client' = "wait"
  /\ UNCHANGED <<total, i, acks, received, receivedChunks, running, early>>

\* No acknowledgement within 100 ms: i-- and i++ send the chunk again.
Timeout ==
  /\ client = "wait"
  /\ client' = "send"
  /\ UNCHANGED <<total, i, packets, acks, received, receivedChunks, running, early>>

\* Whichever acknowledgement comes, the client goes on to the next chunk.
Acknowledged(k) ==
  /\ client = "wait" /\ k \in acks
  /\ acks' \in {acks, acks \ {k}}
  /\ early' = IF k = i THEN early ELSE early \cup {i}
  /\ i' = i + 1
  /\ client' = IF i + 1 < total THEN "send" ELSE "done"
  /\ UNCHANGED <<total, packets, received, receivedChunks, running>>

Store(k) ==
  /\ received' = received \cup {k}
  /\ receivedChunks' = receivedChunks + (IF k \in received THEN 0 ELSE 1)
Complete == receivedChunks' = total

Receive(k) ==
  /\ running /\ k \in packets
  /\ packets' \in {packets, packets \ {k}}
  /\ IF k >= MAX_CHUNKS THEN UNCHANGED <<acks, received, receivedChunks, running>>
     ELSE /\ Store(k)
          /\ acks' = acks \cup {k}
          /\ running' = ~Complete
  /\ UNCHANGED <<total, i, client, early>>

Lose ==
  /\ \/ \E k \in packets : packets' = packets \ {k} /\ UNCHANGED acks
     \/ \E k \in acks : acks' = acks \ {k} /\ UNCHANGED packets
  /\ UNCHANGED <<total, i, client, received, receivedChunks, running, early>>

Next == Send \/ Timeout \/ Lose \/ \E k \in Chunk : Acknowledged(k) \/ Receive(k)

Spec == Init /\ [][Next]_vars

-----------------------------------------------------------------------------
\* The server ends only when every slot of the message is filled, for it
\* counts a chunk once however often it arrives (tcp_stack_server.c:64); and
\* the client has left behind only chunks that the server has stored, except
\* those it gave up on for a late acknowledgement of another chunk
\* (tcp_stack_client.c:68).
Delivered ==
  /\ receivedChunks = Cardinality(received)
  /\ ~running => received = 0..(total - 1)
  /\ \A k \in 0..(i - 1) : k \in received \/ k \in early
=============================================================================
