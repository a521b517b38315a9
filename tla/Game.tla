-------------------------------- MODULE Game --------------------------------
(***************************************************************************)
(* Tic-tac-toe over TCP (server.c with two client.c) and over UDP          *)
(* (server_udp.c with two client_udp.c).  A server step is all that the    *)
(* server does from one recv() to the next.  All programs run on one host, *)
(* so messages stay in order; a TCP client reads any number of the waiting *)
(* messages with one recv(), a UDP client one; a datagram may be dropped.  *)
(* Messages that no client looks at (the board, "Waiting for opponent",    *)
(* "Both players agreed") are left out.                                    *)
(***************************************************************************)
EXTENDS Naturals, FiniteSets, Sequences, SequencesExt

CONSTANTS
  Size,       \* of the board, 3 in the code
  MaxLosses,  \* datagrams that are dropped
  MaxLeaves   \* clients that are interrupted

GameAssumption == Size \in Nat \ {0} /\ MaxLosses \in Nat /\ MaxLeaves \in Nat

Player == 1..2
Cell == (1..Size) \X (1..Size)
Empty == 0
OffBoard == <<0, 0>>
Nonsense == <<>>
Yes == <<"yes">>
No == <<"no">>

VARIABLES
  udp,        \* which pair of programs
  board, currentPlayer,
  asked,      \* the question the server waits for an answer to
  replay1,    \* player 1's answer
  addr,       \* UDP: player1_addr and player2_addr
  inbox,      \* messages for each client
  outbox,     \* answers for the server, with their senders; TCP: per connection
  client,     \* where each client is
  gone,       \* clients that were interrupted
  losses

vars == <<udp, board, currentPlayer, asked, replay1, addr, inbox, outbox, client, gone, losses>>

Result == {"1 wins", "2 wins", "draw"}
Message == {"turn", "again", "closing", "game over"} \cup Result
Wins(p) == IF p = 1 THEN "1 wins" ELSE "2 wins"
ClientPlaces == {"reading", "moving", "result", "choosing", "ended"}
Question == {"move", "again1", "again2", "over", "killed"}
Text == Cell \cup {OffBoard, Nonsense, Yes, No}
Answer == [from: Player, text: Text]

TypeOK ==
  /\ udp \in BOOLEAN
  /\ board \in [Cell -> Player \cup {Empty}]
  /\ currentPlayer \in Player
  /\ asked \in Question
  /\ replay1 \in BOOLEAN
  /\ addr \in [Player -> Player]
  /\ inbox \in [Player -> Seq(Message)]
  /\ outbox \in Seq(Answer)
  /\ client \in [Player -> ClientPlaces]
  /\ gone \subseteq Player
  /\ losses \in 0..MaxLosses

Other(p) == 3 - p
InitializeBoard == [c \in Cell |-> Empty]
Rows  == {{<<i, j>> : j \in 1..Size} : i \in 1..Size}
Columns == {{<<i, j>> : i \in 1..Size} : j \in 1..Size}
Diagonals == {{<<i, i>> : i \in 1..Size}, {<<i, Size + 1 - i>> : i \in 1..Size}}
Complete(b, p) == \E line \in Rows \cup Columns \cup Diagonals : \A c \in line : b[c] = p
CheckWin(b) == \E p \in Player : Complete(b, p)
CheckDraw(b) == \A c \in Cell : b[c] # Empty
IsValidMove(c) == c \in Cell /\ board[c] = Empty

\* Who the server's current question is for.
Asked == CASE asked = "again1" -> 1 [] asked = "again2" -> 2 [] OTHER -> currentPlayer

\* What the server sends, player by player, to the player's address (over TCP
\* addr is constant); what goes to a client that has left is lost.
Send(to1, to2) ==
  inbox' = [q \in Player |-> IF q \in gone THEN <<>>
                             ELSE inbox[q] \o (IF addr[1] = q THEN to1 ELSE <<>>)
                                          \o (IF addr[2] = q THEN to2 ELSE <<>>)]
ToPlayer(p, ms) == IF p = 1 THEN Send(ms, <<>>) ELSE Send(<<>>, ms)

Init ==
  /\ udp \in BOOLEAN
  /\ board = InitializeBoard
  /\ currentPlayer = 1
  /\ asked = "move"
  /\ replay1 = FALSE
  /\ addr = [p \in Player |-> p]
  /\ inbox = [p \in Player |-> IF p = 1 THEN <<"turn">> ELSE <<>>]
  /\ outbox = <<>>
  /\ client = [p \in Player |-> "reading"]
  /\ gone = {}
  /\ losses = 0

-----------------------------------------------------------------------------
(* The server.                                                             *)

\* recv() returns: over TCP an answer on the connection asked, over UDP the
\* next datagram, whoever sent it, and his address becomes the player's.
Receive(a) ==
  \/ /\ udp
     /\ outbox # <<>>
     /\ a = Head(outbox)
     /\ outbox' = Tail(outbox)
     /\ addr' = [addr EXCEPT ![Asked] = a.from]
  \/ /\ ~udp
     /\ \E i \in 1..Len(outbox) :
          /\ outbox[i].from = Asked
          /\ \A k \in 1..(i - 1) : outbox[k].from # Asked
          /\ a = outbox[i]
          /\ outbox' = RemoveAt(outbox, i)
     /\ UNCHANGED addr
  \* The connection asked is closed: recv() returns 0 and the buffer is empty.
  \/ /\ ~udp
     /\ Asked \in gone
     /\ \A i \in 1..Len(outbox) : outbox[i].from # Asked
     /\ a = [from |-> Asked, text |-> Nonsense]
     /\ UNCHANGED <<addr, outbox>>

EndPlay(result) ==
  /\ Send(<<result, "again">>, <<result>>)
  /\ asked' = "again1"
  /\ UNCHANGED currentPlayer
PassTurn ==
  /\ currentPlayer' = Other(currentPlayer)
  /\ ToPlayer(Other(currentPlayer), <<"turn">>)
  /\ UNCHANGED asked

HandleMove ==
  /\ asked = "move"
  /\ \E a \in Answer :
       /\ Receive(a)
       /\ \/ /\ ~IsValidMove(a.text)
             /\ ToPlayer(currentPlayer, <<"turn">>)
             /\ UNCHANGED <<board, currentPlayer, asked>>
          \/ /\ IsValidMove(a.text)
             /\ board' = [board EXCEPT ![a.text] = currentPlayer]
             /\ IF CheckWin(board') THEN EndPlay(Wins(currentPlayer))
                ELSE IF CheckDraw(board') THEN EndPlay("draw")
                ELSE PassTurn
  /\ UNCHANGED <<udp, replay1, client, gone, losses>>

PromptReplay1 ==
  /\ asked = "again1"
  /\ \E a \in Answer : Receive(a) /\ replay1' = (a.text = Yes)
  /\ asked' = "again2"
  /\ ToPlayer(2, <<"again">>)
  /\ UNCHANGED <<udp, board, currentPlayer, client, gone, losses>>

PromptReplay2 ==
  /\ asked = "again2"
  /\ \E a \in Answer :
       /\ Receive(a)
       /\ IF replay1 /\ a.text = Yes
          THEN /\ board' = InitializeBoard
               /\ currentPlayer' = 1
               /\ asked' = "move"
               /\ ToPlayer(1, <<"turn">>)
          ELSE /\ asked' = "over"
               /\ LET bye == IF udp THEN <<"game over">> ELSE <<"closing">> IN Send(bye, bye)
               /\ UNCHANGED <<board, currentPlayer>>
  /\ replay1' = FALSE
  /\ UNCHANGED <<udp, client, gone, losses>>

\* SIGPIPE: the server sends again on a connection that its client has closed.
BrokenPipe ==
  /\ ~udp
  /\ gone # {}
  /\ asked \notin {"over", "killed"}
  /\ Asked \in gone \/ \E i \in 1..Len(outbox) : outbox[i].from = Asked
  /\ asked' = "killed"
  /\ UNCHANGED <<udp, board, currentPlayer, replay1, addr, inbox, outbox, client, gone, losses>>

-----------------------------------------------------------------------------
(* The clients.                                                            *)

\* What client.c does with what one recv() has got, in the order of its tests.
\* In the mutant it does not look for its turn.
HeardNoTurn(got) ==
  IF "closing" \in got THEN "ended"
  ELSE IF got \cap Result = {} /\ "again" \in got THEN "choosing" ELSE "reading"

Heard(got) ==
  IF "closing" \in got THEN "ended"
  ELSE IF got \cap Result # {} THEN "reading"
  ELSE IF "again" \in got THEN "choosing"
  ELSE IF "turn" \in got THEN "moving"
  ELSE "reading"

\* client.c: one recv() of the first n messages.
ReadStream(p) ==
  /\ ~udp
  /\ client[p] = "reading"
  /\ \E n \in 1..Len(inbox[p]) :
       /\ inbox' = [inbox EXCEPT ![p] = SubSeq(@, n + 1, Len(@))]
       /\ client' = [client EXCEPT ![p] = Heard({inbox[p][i] : i \in 1..n})]
  /\ UNCHANGED <<udp, board, currentPlayer, asked, replay1, addr, outbox, gone, losses>>

\* client_udp.c: after a result the next datagram, whatever it says, is taken
\* for the question whether to play again.
ReadDatagram(p) ==
  /\ udp
  /\ client[p] \in {"reading", "result"}
  /\ inbox[p] # <<>>
  /\ LET m == Head(inbox[p]) IN
     client' = [client EXCEPT ![p] =
       IF @ = "result" THEN "choosing"
       ELSE IF m = "turn" THEN "moving"
       ELSE IF m \in Result THEN "result"
       ELSE "reading"]
  /\ inbox' = [inbox EXCEPT ![p] = Tail(@)]
  /\ UNCHANGED <<udp, board, currentPlayer, asked, replay1, addr, outbox, gone, losses>>

\* The user types: numbers over TCP (scanf), any line over UDP (fgets).
Type(p) ==
  /\ \E text \in Text :
       /\ client[p] = "moving" => text \notin {Yes, No} /\ (text = Nonsense => udp)
       /\ client[p] = "choosing" => text \in {Yes, No}
       /\ outbox' = Append(outbox, [from |-> p, text |-> text])
  /\ client[p] \in {"moving", "choosing"}
  /\ client' = [client EXCEPT ![p] = "reading"]
  /\ UNCHANGED <<udp, board, currentPlayer, asked, replay1, addr, inbox, gone, losses>>

\* Over UDP nobody learns that a client has left.
Leave(p) ==
  /\ ~udp
  /\ client[p] # "ended" /\ Cardinality(gone) < MaxLeaves
  /\ gone' = gone \cup {p}
  /\ inbox' = [inbox EXCEPT ![p] = <<>>]
  /\ client' = [client EXCEPT ![p] = "ended"]
  /\ UNCHANGED <<udp, board, currentPlayer, asked, replay1, addr, outbox, losses>>

LoseDatagram ==
  /\ udp /\ losses < MaxLosses
  /\ losses' = losses + 1
  /\ \/ /\ outbox # <<>>
        /\ outbox' = Tail(outbox)
        /\ UNCHANGED inbox
     \/ /\ \E p \in Player : inbox[p] # <<>> /\ inbox' = [inbox EXCEPT ![p] = Tail(@)]
        /\ UNCHANGED outbox
  /\ UNCHANGED <<udp, board, currentPlayer, asked, replay1, addr, client, gone>>

Next ==
  \/ HandleMove \/ PromptReplay1 \/ PromptReplay2 \/ BrokenPipe \/ LoseDatagram
  \/ \E p \in Player : ReadStream(p) \/ ReadDatagram(p) \/ Type(p) \/ Leave(p)

Spec == Init /\ [][Next]_vars

-----------------------------------------------------------------------------
Marks(p) == Cardinality({c \in Cell : board[c] = p})
Announced == Result \cap UNION {Range(inbox[p]) : p \in Player}

\* Whoever moves, the board is that of a legal game: marks alternate from X on,
\* play stops at the first complete line, and what is announced is true
\* (server.c:185, server_udp.c:168).
GameLegal ==
  /\ asked = "move" =>
       /\ Marks(1) = Marks(2) + (IF currentPlayer = 2 THEN 1 ELSE 0)
       /\ ~CheckWin(board) /\ ~CheckDraw(board)
  /\ asked \in {"again1", "again2"} =>
       /\ \A m \in Announced : m = IF CheckWin(board) THEN Wins(currentPlayer) ELSE "draw"
       /\ ~Complete(board, Other(currentPlayer))

\* While the server waits for a player, somebody is about to act: the question
\* is on its way, the player is answering, or the answer is there.  It may be
\* stuck only if a datagram was lost, the player left, or a TCP client has read
\* the question whether to play again together with the result (client.c:53).
\* An answer is always from the player who was asked, although the UDP server
\* takes any datagram and answers to its sender (server_udp.c:96, 123).
ServerHeard ==
  LET p == Asked IN
  asked \notin {"over", "killed"} =>
    /\ \/ \E i \in 1..Len(outbox) : outbox[i].from = p
       \/ client[p] \in {"moving", "choosing"}
       \/ \E i \in 1..Len(inbox[p]) : inbox[p][i] \in {"turn", "again"}
       \/ losses > 0
       \/ p \in gone
       \/ ~udp /\ asked \in {"again1", "again2"}
    /\ udp => addr[p] = p /\ \A i \in 1..Len(outbox) : outbox[i].from = p
=============================================================================
