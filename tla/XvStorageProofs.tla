--------------------------- MODULE XvStorageProofs ---------------------------
(***************************************************************************)
(* The inodes and directories, the blocks of files, the buffer cache, open *)
(* files and pipes of xv6, for every set of processes, any number of       *)
(* inodes, names, files, blocks, buffers, values and descriptors, every    *)
(* PIPESIZE and every width of the counters.  Each part has an inductive   *)
(* invariant, lemmas that it holds at first and after each step of the     *)
(* part, and one that it says what the part promises; the last section     *)
(* puts the parts together.                                                *)
(***************************************************************************)
EXTENDS MCXvStorage, CountingLemmas, SequenceTheorems, TLAPS

-----------------------------------------------------------------------------
(* Pipes: an end is open while a process has it, until its close is        *)
(* through; who sleeps sleeps for a reason, or the process with the lock   *)
(* owes a wakeup; and between the counters lie the bytes that were written *)
(* and not yet read.                                                       *)

PipeTypes ==
  /\ lock \in Proc \cup {None}
  /\ holds \in [Proc -> SUBSET Pipes!Ends]
  /\ pc \in [Proc -> {"unborn", "user"} \cup Pipes!InCall \cup Pipes!Closing]
  /\ chan \in [Proc -> {"none", "nread", "nwrite"}]
  /\ killed \in [Proc -> BOOLEAN]

(* An end is open while a process has it, until the last one's close is    *)
(* through.                                                                *)
OpenEnds ==
  /\ allocated <=> readopen \/ writeopen
  /\ \A p \in Proc :
       /\ "r" \in holds[p] \/ pc[p] = "closeR" => readopen
       /\ "w" \in holds[p] \/ pc[p] = "closeW" => writeopen
       /\ pc[p] = "closeR" => \A q \in Proc : "r" \notin holds[q] /\ (pc[q] = "closeR" => q = p)
       /\ pc[p] = "closeW" => \A q \in Proc : "w" \notin holds[q] /\ (pc[q] = "closeW" => q = p)

CallsHold ==
  \A p \in Proc :
    /\ pc[p] \in {"write", "writeSleep"} => "w" \in holds[p]
    /\ pc[p] \in {"read", "readSleep"} => "r" \in holds[p]
    /\ chan[p] = "nread" => pc[p] = "read"
    /\ chan[p] = "nwrite" => pc[p] = "write"

LockHeld ==
  /\ \A p \in Proc : lock = p => pc[p] \in Pipes!InCall /\ chan[p] = "none"
  /\ \A p \in Proc : pc[p] \in {"writeSleep", "readSleep"} => lock = p

(* The process at l has the lock.                                          *)
Has(l) == \E q \in Proc : lock = q /\ pc[q] = l

(* A writer with the lock may owe the readers a wakeup, and a reader the   *)
(* writers; none is owed at the sleep().                                   *)
Sleepers ==
  /\ \A p \in Proc :
       /\ chan[p] = "nread" =>
            writeopen /\ (Has("write") \/ Pipes!Empty \/ \E q \in Proc : killed[q])
       /\ chan[p] = "nwrite" => readopen /\ (Has("read") \/ Pipes!Full)
  /\ Has("writeSleep") => Pipes!Full /\ readopen /\ \A p \in Proc : chan[p] # "nread"
  /\ Has("readSleep") => Pipes!Empty /\ writeopen

PipeInv == PipeTypes /\ OpenEnds /\ CallsHold /\ LockHeld /\ Sleepers

-----------------------------------------------------------------------------
LEMMA PipeInit == ASSUME Pipes!ProcAssumption, Pipes!Init PROVE PipeInv
BY DEF Pipes!ProcAssumption, Pipes!Init, PipeInv, PipeTypes, OpenEnds, CallsHold, LockHeld, Has, Sleepers, Pipes!Ends, Pipes!InCall, Pipes!Closing

LEMMA PipeTypesStep ==
  ASSUME Pipes!ProcAssumption, PipeInv, NEW p \in Proc, Pipes!InPipe(p) \/ Pipes!Programs(p)
  PROVE  PipeTypes'
<1> USE DEF Pipes!ProcAssumption, PipeInv, PipeTypes, Pipes!At, Pipes!Goto, Pipes!Return, Pipes!Wakeup, Pipes!Ends, Pipes!InCall, Pipes!Closing
<1>1. CASE Pipes!WriteRefused(p)
  BY <1>1 DEF Pipes!WriteRefused
<1>2. CASE Pipes!WriteFull(p)
  BY <1>2 DEF Pipes!WriteFull
<1>3. CASE Pipes!WriteSleep(p)
  BY <1>3 DEF Pipes!WriteSleep
<1>4. CASE Pipes!WriteByte(p)
  BY <1>4 DEF Pipes!WriteByte
<1>5. CASE Pipes!WriteEnd(p)
  BY <1>5 DEF Pipes!WriteEnd
<1>6. CASE Pipes!ReadRefused(p)
  BY <1>6 DEF Pipes!ReadRefused
<1>7. CASE Pipes!ReadEmpty(p)
  BY <1>7 DEF Pipes!ReadEmpty
<1>8. CASE Pipes!ReadSleep(p)
  BY <1>8 DEF Pipes!ReadSleep
<1>9. CASE Pipes!ReadByte(p)
  BY <1>9 DEF Pipes!ReadByte
<1>10. CASE Pipes!ReadFault(p)
  BY <1>10 DEF Pipes!ReadFault
<1>11. CASE Pipes!ReadEnd(p)
  BY <1>11 DEF Pipes!ReadEnd
<1>12. CASE Pipes!PipeClose(p)
  BY <1>12 DEF Pipes!PipeClose
<1>13. CASE Pipes!BeginWrite(p)
  BY <1>13 DEF Pipes!BeginWrite
<1>14. CASE Pipes!BeginRead(p)
  BY <1>14 DEF Pipes!BeginRead
<1>15. CASE Pipes!Kill(p)
  BY <1>15 DEF Pipes!Kill
<1>16. ASSUME NEW q \in Proc, Pipes!Fork(p, q) PROVE PipeTypes'
  BY <1>16 DEF Pipes!Fork
<1>17. ASSUME NEW e \in Pipes!Ends, Pipes!Close(p, e) PROVE PipeTypes'
  BY <1>17 DEF Pipes!Close, Pipes!LastHolder
<1> QED
  BY <1>1, <1>2, <1>3, <1>4, <1>5, <1>6, <1>7, <1>8, <1>9, <1>10, <1>11, <1>12, <1>13, <1>14, <1>15, <1>16, <1>17 DEF Pipes!InPipe, Pipes!Programs

LEMMA OpenEndsStep ==
  ASSUME Pipes!ProcAssumption, PipeInv, NEW p \in Proc, Pipes!InPipe(p) \/ Pipes!Programs(p)
  PROVE  OpenEnds'
<1> USE DEF Pipes!ProcAssumption, PipeInv, PipeTypes, Pipes!At, Pipes!Goto, Pipes!Return, Pipes!Wakeup, Pipes!Ends, Pipes!InCall, Pipes!Closing, OpenEnds, CallsHold, Pipes!ends
<1>1. CASE Pipes!WriteRefused(p)
  BY <1>1 DEF Pipes!WriteRefused
<1>2. CASE Pipes!WriteFull(p)
  BY <1>2 DEF Pipes!WriteFull
<1>3. CASE Pipes!WriteSleep(p)
  BY <1>3 DEF Pipes!WriteSleep
<1>4. CASE Pipes!WriteByte(p)
  BY <1>4 DEF Pipes!WriteByte
<1>5. CASE Pipes!WriteEnd(p)
  BY <1>5 DEF Pipes!WriteEnd
<1>6. CASE Pipes!ReadRefused(p)
  BY <1>6 DEF Pipes!ReadRefused
<1>7. CASE Pipes!ReadEmpty(p)
  BY <1>7 DEF Pipes!ReadEmpty
<1>8. CASE Pipes!ReadSleep(p)
  BY <1>8 DEF Pipes!ReadSleep
<1>9. CASE Pipes!ReadByte(p)
  BY <1>9 DEF Pipes!ReadByte
<1>10. CASE Pipes!ReadFault(p)
  BY <1>10 DEF Pipes!ReadFault
<1>11. CASE Pipes!ReadEnd(p)
  BY <1>11 DEF Pipes!ReadEnd
<1>12. CASE Pipes!PipeClose(p)
  <2>1. readopen' = (readopen /\ pc[p] # "closeR") /\ writeopen' = (writeopen /\ pc[p] # "closeW")
    BY <1>12 DEF Pipes!PipeClose
  <2>2. allocated' = (readopen' \/ writeopen')
    BY <1>12 DEF Pipes!PipeClose
  <2>3. holds' = holds /\ pc' = [pc EXCEPT ![p] = "user"] /\ pc[p] \in Pipes!Closing
    BY <1>12 DEF Pipes!PipeClose
  <2>4. /\ pc'[p] = "user"
        /\ \A q \in Proc : q # p => pc'[q] = pc[q]
    BY <2>3
  <2>5. ASSUME NEW q \in Proc
        PROVE  /\ "r" \in holds'[q] \/ pc'[q] = "closeR" => readopen'
               /\ "w" \in holds'[q] \/ pc'[q] = "closeW" => writeopen'
    <3>1. "r" \in holds[q] \/ pc'[q] = "closeR" => readopen /\ pc[p] # "closeR"
      BY <2>4
    <3>2. "w" \in holds[q] \/ pc'[q] = "closeW" => writeopen /\ pc[p] # "closeW"
      BY <2>4
    <3> QED
      BY <2>1, <2>3, <3>1, <3>2, Zenon
  <2>6. \A q, v \in Proc :
          /\ pc'[q] = "closeR" => "r" \notin holds'[v] /\ (pc'[v] = "closeR" => v = q)
          /\ pc'[q] = "closeW" => "w" \notin holds'[v] /\ (pc'[v] = "closeW" => v = q)
    BY <2>3, <2>4
  <2> QED
    BY <2>2, <2>5, <2>6
<1>13. CASE Pipes!BeginWrite(p)
  BY <1>13 DEF Pipes!BeginWrite
<1>14. CASE Pipes!BeginRead(p)
  BY <1>14 DEF Pipes!BeginRead
<1>15. CASE Pipes!Kill(p)
  BY <1>15 DEF Pipes!Kill
<1>16. ASSUME NEW q \in Proc, Pipes!Fork(p, q) PROVE OpenEnds'
  BY <1>16 DEF Pipes!Fork
<1>17. ASSUME NEW e \in Pipes!Ends, Pipes!Close(p, e) PROVE OpenEnds'
  BY <1>17 DEF Pipes!Close, Pipes!LastHolder
<1> QED
  BY <1>1, <1>2, <1>3, <1>4, <1>5, <1>6, <1>7, <1>8, <1>9, <1>10, <1>11, <1>12, <1>13, <1>14, <1>15, <1>16, <1>17 DEF Pipes!InPipe, Pipes!Programs

LEMMA CallsHoldStep ==
  ASSUME Pipes!ProcAssumption, PipeInv, NEW p \in Proc, Pipes!InPipe(p) \/ Pipes!Programs(p)
  PROVE  CallsHold'
<1> USE DEF Pipes!ProcAssumption, PipeInv, PipeTypes, Pipes!At, Pipes!Goto, Pipes!Return, Pipes!Wakeup, Pipes!Ends, Pipes!InCall, Pipes!Closing, CallsHold, LockHeld
<1>1. CASE Pipes!WriteRefused(p)
  BY <1>1 DEF Pipes!WriteRefused
<1>2. CASE Pipes!WriteFull(p)
  BY <1>2 DEF Pipes!WriteFull
<1>3. CASE Pipes!WriteSleep(p)
  BY <1>3 DEF Pipes!WriteSleep
<1>4. CASE Pipes!WriteByte(p)
  BY <1>4 DEF Pipes!WriteByte
<1>5. CASE Pipes!WriteEnd(p)
  BY <1>5 DEF Pipes!WriteEnd
<1>6. CASE Pipes!ReadRefused(p)
  BY <1>6 DEF Pipes!ReadRefused
<1>7. CASE Pipes!ReadEmpty(p)
  BY <1>7 DEF Pipes!ReadEmpty
<1>8. CASE Pipes!ReadSleep(p)
  BY <1>8 DEF Pipes!ReadSleep
<1>9. CASE Pipes!ReadByte(p)
  BY <1>9 DEF Pipes!ReadByte
<1>10. CASE Pipes!ReadFault(p)
  BY <1>10 DEF Pipes!ReadFault
<1>11. CASE Pipes!ReadEnd(p)
  BY <1>11 DEF Pipes!ReadEnd
<1>12. CASE Pipes!PipeClose(p)
  BY <1>12 DEF Pipes!PipeClose
<1>13. CASE Pipes!BeginWrite(p)
  BY <1>13 DEF Pipes!BeginWrite
<1>14. CASE Pipes!BeginRead(p)
  BY <1>14 DEF Pipes!BeginRead
<1>15. CASE Pipes!Kill(p)
  BY <1>15 DEF Pipes!Kill
<1>16. ASSUME NEW q \in Proc, Pipes!Fork(p, q) PROVE CallsHold'
  BY <1>16 DEF Pipes!Fork
<1>17. ASSUME NEW e \in Pipes!Ends, Pipes!Close(p, e) PROVE CallsHold'
  BY <1>17 DEF Pipes!Close, Pipes!LastHolder
<1> QED
  BY <1>1, <1>2, <1>3, <1>4, <1>5, <1>6, <1>7, <1>8, <1>9, <1>10, <1>11, <1>12, <1>13, <1>14, <1>15, <1>16, <1>17 DEF Pipes!InPipe, Pipes!Programs

LEMMA LockHeldStep ==
  ASSUME Pipes!ProcAssumption, PipeInv, NEW p \in Proc, Pipes!InPipe(p) \/ Pipes!Programs(p)
  PROVE  LockHeld'
<1> USE DEF Pipes!ProcAssumption, PipeInv, PipeTypes, Pipes!At, Pipes!Goto, Pipes!Return, Pipes!Wakeup, Pipes!Ends, Pipes!InCall, Pipes!Closing, CallsHold, LockHeld, Pipes!MustWait
<1>1. CASE Pipes!WriteRefused(p)
  BY <1>1 DEF Pipes!WriteRefused
<1>2. CASE Pipes!WriteFull(p)
  BY <1>2 DEF Pipes!WriteFull
<1>3. CASE Pipes!WriteSleep(p)
  BY <1>3 DEF Pipes!WriteSleep
<1>4. CASE Pipes!WriteByte(p)
  BY <1>4 DEF Pipes!WriteByte
<1>5. CASE Pipes!WriteEnd(p)
  BY <1>5 DEF Pipes!WriteEnd
<1>6. CASE Pipes!ReadRefused(p)
  BY <1>6 DEF Pipes!ReadRefused
<1>7. CASE Pipes!ReadEmpty(p)
  BY <1>7 DEF Pipes!ReadEmpty
<1>8. CASE Pipes!ReadSleep(p)
  BY <1>8 DEF Pipes!ReadSleep
<1>9. CASE Pipes!ReadByte(p)
  BY <1>9 DEF Pipes!ReadByte
<1>10. CASE Pipes!ReadFault(p)
  BY <1>10 DEF Pipes!ReadFault
<1>11. CASE Pipes!ReadEnd(p)
  BY <1>11 DEF Pipes!ReadEnd
<1>12. CASE Pipes!PipeClose(p)
  BY <1>12 DEF Pipes!PipeClose
<1>13. CASE Pipes!BeginWrite(p)
  BY <1>13 DEF Pipes!BeginWrite
<1>14. CASE Pipes!BeginRead(p)
  BY <1>14 DEF Pipes!BeginRead
<1>15. CASE Pipes!Kill(p)
  BY <1>15 DEF Pipes!Kill
<1>16. ASSUME NEW q \in Proc, Pipes!Fork(p, q) PROVE LockHeld'
  BY <1>16 DEF Pipes!Fork
<1>17. ASSUME NEW e \in Pipes!Ends, Pipes!Close(p, e) PROVE LockHeld'
  BY <1>17 DEF Pipes!Close, Pipes!LastHolder
<1> QED
  BY <1>1, <1>2, <1>3, <1>4, <1>5, <1>6, <1>7, <1>8, <1>9, <1>10, <1>11, <1>12, <1>13, <1>14, <1>15, <1>16, <1>17 DEF Pipes!InPipe, Pipes!Programs

LEMMA SleepersStep ==
  ASSUME Pipes!ProcAssumption, PipeInv, NEW p \in Proc, Pipes!InPipe(p) \/ Pipes!Programs(p)
  PROVE  Sleepers'
<1> USE DEF Pipes!ProcAssumption, PipeInv, PipeTypes, Pipes!At, Pipes!Goto, Pipes!Return, Pipes!Wakeup, Pipes!Ends, Pipes!InCall, Pipes!Closing, OpenEnds, CallsHold, LockHeld, Sleepers, Has, Pipes!Full, Pipes!Empty, Pipes!ring, Pipes!ends, Pipes!MustWait
<1>1. CASE Pipes!WriteRefused(p)
  BY <1>1 DEF Pipes!WriteRefused
<1>2. CASE Pipes!WriteFull(p)
  BY <1>2 DEF Pipes!WriteFull
<1>3. CASE Pipes!WriteSleep(p)
  BY <1>3 DEF Pipes!WriteSleep
<1>4. CASE Pipes!WriteByte(p)
  BY <1>4 DEF Pipes!WriteByte
<1>5. CASE Pipes!WriteEnd(p)
  BY <1>5 DEF Pipes!WriteEnd
<1>6. CASE Pipes!ReadRefused(p)
  BY <1>6 DEF Pipes!ReadRefused
<1>7. CASE Pipes!ReadEmpty(p)
  BY <1>7 DEF Pipes!ReadEmpty
<1>8. CASE Pipes!ReadSleep(p)
  BY <1>8 DEF Pipes!ReadSleep
<1>9. CASE Pipes!ReadByte(p)
  BY <1>9 DEF Pipes!ReadByte
<1>10. CASE Pipes!ReadFault(p)
  BY <1>10 DEF Pipes!ReadFault
<1>11. CASE Pipes!ReadEnd(p)
  BY <1>11 DEF Pipes!ReadEnd
<1>12. CASE Pipes!PipeClose(p)
  BY <1>12 DEF Pipes!PipeClose
<1>13. CASE Pipes!BeginWrite(p)
  BY <1>13 DEF Pipes!BeginWrite
<1>14. CASE Pipes!BeginRead(p)
  BY <1>14 DEF Pipes!BeginRead
<1>15. CASE Pipes!Kill(p)
  BY <1>15 DEF Pipes!Kill
<1>16. ASSUME NEW q \in Proc, Pipes!Fork(p, q) PROVE Sleepers'
  BY <1>16 DEF Pipes!Fork
<1>17. ASSUME NEW e \in Pipes!Ends, Pipes!Close(p, e) PROVE Sleepers'
  BY <1>17 DEF Pipes!Close, Pipes!LastHolder
<1> QED
  BY <1>1, <1>2, <1>3, <1>4, <1>5, <1>6, <1>7, <1>8, <1>9, <1>10, <1>11, <1>12, <1>13, <1>14, <1>15, <1>16, <1>17 DEF Pipes!InPipe, Pipes!Programs

LEMMA PipeStutter == PipeInv /\ UNCHANGED Pipes!vars => PipeInv'
BY DEF PipeInv, PipeTypes, OpenEnds, CallsHold, LockHeld, Has, Sleepers, Pipes!Full, Pipes!Empty, Pipes!vars, Pipes!ring, Pipes!ends

Ahead(k, d) == (k + d) % Wrap
Place(k) == k % PipeSize

LEMMA RingNumbers ==
  ASSUME PartsAssumption
  PROVE  /\ PipeSize \in Nat \ {0} /\ Wrap \in Nat \ {0} /\ Wrap % PipeSize = 0 /\ PipeSize < Wrap
         /\ MaxN \in Nat /\ None \notin Proc /\ Bytes # {} /\ Pipes!Counter = 0 .. Wrap - 1
         /\ Pipes!ProcAssumption
BY DEF PartsAssumption, Pipes!SizeAssumption, Pipes!ProcAssumption, Pipes!Counter

LEMMA AheadIsCounter ==
  ASSUME PartsAssumption, NEW k \in Int, NEW d \in Int
  PROVE  Ahead(k, d) \in Pipes!Counter /\ Ahead(k, d) \in Int
<1>1. PICK x \in Int : x = k + d
  OBVIOUS
<1>2. x % Wrap \in 0 .. (Wrap - 1)
  BY RingNumbers, ModIsRest
<1> QED
  BY <1>1, <1>2, RingNumbers DEF Ahead, Pipes!Counter

LEMMA AheadTwice ==
  ASSUME PartsAssumption, NEW k \in Int, NEW c \in Int, NEW d \in Int
  PROVE  Ahead(Ahead(k, c), d) = Ahead(k, c + d)
<1>1. PICK x \in Int : x = k + c
  OBVIOUS
<1>2. ((x % Wrap) + d) % Wrap = (x + d) % Wrap
  BY RingNumbers, ModOfWhole, ModOfSum
<1> QED
  BY <1>1, <1>2 DEF Ahead

LEMMA AheadOfNothing ==
  ASSUME PartsAssumption, NEW k \in Pipes!Counter PROVE Ahead(k, 0) = k
BY RingNumbers, ModOfSmall DEF Ahead, Pipes!Counter

Minus(j, k) == (j + Wrap - k) % Wrap

LEMMA MinusIsDistance ==
  ASSUME PartsAssumption, NEW k \in Pipes!Counter, NEW d \in Nat, d <= PipeSize
  PROVE  Minus(Ahead(k, d), k) = d
<1>1. d \in 0 .. (Wrap - 1) /\ k \in 0 .. (Wrap - 1)
  BY RingNumbers DEF Pipes!Counter
<1>2. (((k + d) % Wrap) + Wrap - k) % Wrap = d
  BY <1>1, RingNumbers, DistanceIs, SMTT(30)
<1> QED
  BY <1>2 DEF Ahead, Minus

LEMMA PlaceIsIndex ==
  ASSUME PartsAssumption, NEW k \in Int PROVE Place(k) \in 0 .. PipeSize - 1
BY RingNumbers, ModIsRest DEF Place

LEMMA PlaceOfAhead ==
  ASSUME PartsAssumption, NEW k \in Int, NEW c \in Int, NEW d \in Int
  PROVE  Place(Ahead(k, c) + d) = Place(k + c + d)
<1>1. PICK x \in Int : x = k + c
  OBVIOUS
<1>2. ((x % Wrap) + d) % PipeSize = (x + d) % PipeSize
  BY RingNumbers, ModOfSum
<1> QED
  BY <1>1, <1>2 DEF Ahead, Place

LEMMA PlacesDiffer ==
  ASSUME PartsAssumption, NEW x \in Int, NEW y \in Int, x < y, y < x + PipeSize
  PROVE  Place(x) # Place(y)
BY RingNumbers, SlotsDiffer DEF Place

-----------------------------------------------------------------------------
\* len bytes of the ring b, from its index from on.
Text(b, from, len) == [i \in 1 .. len |-> b[Place(from + i - 1)]]

Ring == [0 .. PipeSize - 1 -> Bytes]

LEMMA TextIsLong ==
  ASSUME PartsAssumption, NEW b \in Ring, NEW f \in Int, NEW n \in Nat
  PROVE  /\ Text(b, f, n) \in Seq(Bytes) /\ Len(Text(b, f, n)) = n
         /\ \A i \in 1 .. n : Text(b, f, n)[i] = b[Place(f + i - 1)]
<1>1. \A i \in 1 .. n : b[Place(f + i - 1)] \in Bytes
  BY PlaceIsIndex DEF Ring
<1> QED
  BY <1>1 DEF Text

LEMMA TextFromAhead ==
  ASSUME PartsAssumption, NEW b, NEW k \in Int, NEW c \in Int, NEW n \in Nat
  PROVE  Text(b, Ahead(k, c), n) = Text(b, k + c, n)
<1>1. ASSUME NEW i \in 1 .. n PROVE Place(Ahead(k, c) + i - 1) = Place(k + c + i - 1)
  <2>1. PICK d \in Int : d = i - 1
    OBVIOUS
  <2>2. Place(Ahead(k, c) + d) = Place(k + c + d)
    BY PlaceOfAhead
  <2>3. Ahead(k, c) \in Int
    BY AheadIsCounter
  <2>4. Ahead(k, c) + i - 1 = Ahead(k, c) + d /\ k + c + i - 1 = k + c + d
    BY <2>1, <2>3
  <2> QED
    BY <2>2, <2>4
<1> QED
  BY <1>1 DEF Text

\* The ring ring is b with c at end.
Stored(b, end, c, ring) ==
  /\ ring \in Ring /\ ring[Place(end)] = c
  /\ \A k \in 0 .. PipeSize - 1 : k # Place(end) => ring[k] = b[k]

LEMMA PlacesKept ==
  ASSUME PartsAssumption, NEW b \in Ring, NEW end \in Int, NEW c,
         NEW ring, Stored(b, end, c, ring)
  PROVE  /\ ring \in Ring /\ ring[Place(end)] = c
         /\ \A k \in Int : end < k + PipeSize /\ k < end => ring[Place(k)] = b[Place(k)]
<1>1. ring \in Ring /\ ring[Place(end)] = c
  BY DEF Stored
<1>2. ASSUME NEW k \in Int, end < k + PipeSize, k < end PROVE ring[Place(k)] = b[Place(k)]
  <2>1. Place(k) # Place(end)
    BY <1>2, RingNumbers, PlacesDiffer
  <2>2. Place(k) \in 0 .. PipeSize - 1
    BY PlaceIsIndex
  <2> QED
    BY <2>1, <2>2 DEF Stored
<1> QED
  BY <1>1, <1>2

\* The text of m bytes from g on ends before end, with one more it has l.
EndsAt(end, g, m, l) == end < g + PipeSize /\ g + m = end /\ l = m + 1

LEMMA TextTyped ==
  ASSUME PartsAssumption, NEW b \in Ring, NEW end \in Int, NEW c,
         NEW ring, Stored(b, end, c, ring),
         NEW g \in Int, NEW m \in Nat, NEW l \in Nat, EndsAt(end, g, m, l)
  PROVE  Text(ring, g, l) = Append(Text(b, g, m), c)
<1> DEFINE x == Text(b, g, m)
           y == Text(ring, g, m + 1)
<1> USE DEF EndsAt
<1>1. ring \in Ring /\ ring[Place(end)] = c
  BY PlacesKept
<1>2. x \in Seq(Bytes) /\ Len(x) = m /\ \A i \in 1 .. m : x[i] = b[Place(g + i - 1)]
  BY TextIsLong
<1>3. y \in Seq(Bytes) /\ Len(y) = m + 1 /\ \A i \in 1 .. m + 1 : y[i] = ring[Place(g + i - 1)]
  <2>1. PICK j \in Nat : j = m + 1
    OBVIOUS
  <2> QED
    BY <1>1, <2>1, TextIsLong
<1>4. ASSUME NEW i \in 1 .. m PROVE ring[Place(g + i - 1)] = b[Place(g + i - 1)]
  <2>1. PICK k \in Int : k = g + i - 1
    OBVIOUS
  <2>2. end < k + PipeSize /\ k < end
    BY <2>1, RingNumbers
  <2>3. ring[Place(k)] = b[Place(k)]
    BY <2>2, PlacesKept
  <2> QED
    BY <2>1, <2>3
<1> HIDE DEF x, y
<1>5. y[m + 1] = c
  <2>1. m + 1 \in 1 .. m + 1 /\ g + (m + 1) - 1 = end
    OBVIOUS
  <2>2. y[m + 1] = ring[Place(g + (m + 1) - 1)]
    BY <1>3, <2>1
  <2> QED
    BY <1>1, <2>1, <2>2
<1>6. ASSUME NEW i \in 1 .. m PROVE y[i] = x[i]
  <2>1. i \in 1 .. m + 1
    OBVIOUS
  <2> QED
    BY <1>2, <1>3, <1>4, <2>1
<1>7. y = Append(x, c)
  BY <1>2, <1>3, <1>5, <1>6
<1> QED
  BY <1>7 DEF x, y

LEMMA TextWithoutHead ==
  ASSUME PartsAssumption, NEW b \in Ring, NEW f \in Int, NEW n \in Nat
  PROVE  Tail(Text(b, f, n + 1)) = Text(b, f + 1, n) /\ Text(b, f, n + 1) # <<>>
<1> DEFINE x == Text(b, f, n + 1)
           z == Text(b, f + 1, n)
<1>1. x \in Seq(Bytes) /\ Len(x) = n + 1 /\ \A i \in 1 .. n + 1 : x[i] = b[Place(f + i - 1)]
  <2>1. PICK j \in Nat : j = n + 1
    OBVIOUS
  <2> QED
    BY <2>1, TextIsLong
<1>3. z \in Seq(Bytes) /\ Len(z) = n /\ \A i \in 1 .. n : z[i] = b[Place(f + 1 + i - 1)]
  <2>1. PICK g \in Int : g = f + 1
    OBVIOUS
  <2> QED
    BY <2>1, TextIsLong
<1>4. ASSUME NEW i \in 1 .. n PROVE z[i] = x[i + 1]
  <2>1. i + 1 \in 1 .. n + 1 /\ f + (i + 1) - 1 = f + 1 + i - 1
    OBVIOUS
  <2>2. x[i + 1] = b[Place(f + (i + 1) - 1)]
    BY <1>1, <2>1
  <2> QED
    BY <1>3, <2>1, <2>2
<1> HIDE DEF x, z
<1>6. Tail(x) = z
  BY <1>1, <1>3, <1>4
<1>7. x # <<>>
  BY <1>1
<1> QED
  BY <1>6, <1>7 DEF x, z

\* n bytes are between the counters.
RingAt(n) == nwrite = Ahead(nread, n)

RingInv ==
  /\ data \in Ring /\ nread \in Pipes!Counter /\ left \in [Proc -> 0 .. MaxN]
  /\ {readopen, writeopen, allocated} \subseteq BOOLEAN
  /\ \E n \in 0 .. PipeSize : RingAt(n)

LEMMA ContentsAre ==
  ASSUME PartsAssumption, NEW n \in 0 .. PipeSize, RingAt(n), nread \in Pipes!Counter
  PROVE  Pipes!Contents = Text(data, nread, n)
<1>1. n \in Nat /\ n <= PipeSize
  BY RingNumbers
<1>2. Minus(nwrite, nread) = n
  BY <1>1, MinusIsDistance DEF RingAt
<1> QED
  BY <1>2 DEF Pipes!Contents, Text, Place, Minus

LEMMA ContentsWillBe ==
  ASSUME PartsAssumption, NEW n \in 0 .. PipeSize, nwrite' = Ahead(nread', n), nread' \in Pipes!Counter
  PROVE  Pipes!Contents' = Text(data', nread', n)
<1>1. n \in Nat /\ n <= PipeSize
  BY RingNumbers
<1>2. Minus(nwrite', nread') = n
  BY <1>1, MinusIsDistance
<1> QED
  BY <1>2 DEF Pipes!Contents, Text, Place, Minus

\* The bytes of the pipe as what ByteStream says of them.
Poured == INSTANCE ByteStream WITH Capacity <- PipeSize, stream <- Pipes!Contents

LEMMA RingInit == ASSUME PartsAssumption, Pipes!Init PROVE RingInv /\ Poured!Init
<1>0. PICK b \in Bytes : b = CHOOSE x \in Bytes : TRUE
  BY RingNumbers
<1>1. nread = 0 /\ nwrite = 0 /\ 0 \in Pipes!Counter /\ 0 \in 0 .. PipeSize
  BY RingNumbers DEF Pipes!Init
<1>2. RingAt(0)
  BY <1>1, AheadOfNothing DEF RingAt
<1>3. data \in Ring
  <2>1. data \in [Pipes!Slots -> {b}]
    BY <1>0 DEF Pipes!Init
  <2> QED
    BY <2>1 DEF Ring, Pipes!Slots
<1>4. Pipes!Contents = <<>>
  <2>1. Pipes!Contents = Text(data, nread, 0)
    BY <1>1, <1>2, ContentsAre
  <2> QED
    BY <2>1 DEF Text
<1>5. left \in [Proc -> 0 .. MaxN] /\ {readopen, writeopen, allocated} \subseteq BOOLEAN
  BY RingNumbers DEF Pipes!Init
<1> QED
  BY <1>1, <1>2, <1>3, <1>4, <1>5 DEF RingInv, Poured!Init

LEMMA RingStep ==
  ASSUME PartsAssumption, RingInv, [Pipes!Next]_(Pipes!vars)
  PROVE  RingInv' /\ [Poured!Next]_(Pipes!Contents)
<1>n. /\ PipeSize \in Nat \ {0} /\ MaxN \in Nat
  BY RingNumbers
<1>t. /\ data \in Ring /\ nread \in Pipes!Counter /\ nread \in Int /\ left \in [Proc -> 0 .. MaxN]
      /\ {readopen, writeopen, allocated} \subseteq BOOLEAN
  BY RingNumbers DEF RingInv
<1>c. PICK n \in 0 .. PipeSize : RingAt(n)
  BY DEF RingInv
<1>v. /\ nwrite = Ahead(nread, n) /\ n \in Nat /\ n <= PipeSize
      /\ Pipes!Contents = Text(data, nread, n)
  BY <1>c, <1>n, <1>t, ContentsAre DEF RingAt
<1>1. ASSUME UNCHANGED <<data, nread, nwrite>>, left' \in [Proc -> 0 .. MaxN],
             {readopen', writeopen', allocated'} \subseteq BOOLEAN
      PROVE  RingInv' /\ UNCHANGED Pipes!Contents
  <2>1. nwrite' = Ahead(nread', n)
    BY <1>1, <1>v
  <2>2. UNCHANGED Pipes!Contents
    BY <1>1 DEF Pipes!Contents
  <2> QED
    BY <1>1, <1>t, <2>1, <2>2 DEF RingInv, RingAt
<1>2. ASSUME NEW p \in Proc,
             \/ Pipes!WriteRefused(p) \/ Pipes!WriteFull(p) \/ Pipes!WriteSleep(p) \/ Pipes!WriteEnd(p)
             \/ Pipes!ReadRefused(p) \/ Pipes!ReadEmpty(p) \/ Pipes!ReadSleep(p) \/ Pipes!ReadEnd(p)
      PROVE  RingInv' /\ UNCHANGED Pipes!Contents
  <2>1. UNCHANGED <<data, nread, nwrite, readopen, writeopen, allocated>>
    BY <1>2 DEF Pipes!WriteRefused, Pipes!WriteFull, Pipes!WriteSleep, Pipes!WriteEnd, Pipes!ReadRefused,
                Pipes!ReadEmpty, Pipes!ReadSleep, Pipes!ReadEnd, Pipes!ring, Pipes!ends
  <2>2. left' = left \/ left' = [left EXCEPT ![p] = 0]
    BY <1>2 DEF Pipes!WriteRefused, Pipes!WriteFull, Pipes!WriteSleep, Pipes!WriteEnd, Pipes!ReadRefused,
                Pipes!ReadEmpty, Pipes!ReadSleep, Pipes!ReadEnd, Pipes!Return
  <2>3. left' \in [Proc -> 0 .. MaxN]
    BY <1>n, <1>t, <2>2
  <2> QED
    BY <1>1, <1>t, <2>1, <2>3
<1>3. ASSUME NEW p \in Proc,
             \/ Pipes!BeginWrite(p) \/ Pipes!BeginRead(p) \/ Pipes!Kill(p)
             \/ (\E q \in Proc : Pipes!Fork(p, q)) \/ \E x \in Pipes!Ends : Pipes!Close(p, x)
      PROVE  RingInv' /\ UNCHANGED Pipes!Contents
  <2>1. UNCHANGED <<data, nread, nwrite, readopen, writeopen, allocated>>
    BY <1>3 DEF Pipes!BeginWrite, Pipes!BeginRead, Pipes!Kill, Pipes!Fork, Pipes!Close, Pipes!ring, Pipes!ends
  <2>2. left' = left \/ \E m \in 1 .. MaxN : left' = [left EXCEPT ![p] = m]
    BY <1>3 DEF Pipes!BeginWrite, Pipes!BeginRead, Pipes!Kill, Pipes!Fork, Pipes!Close
  <2>3. left' \in [Proc -> 0 .. MaxN]
    BY <1>n, <1>t, <2>2
  <2> QED
    BY <1>1, <1>t, <2>1, <2>3
<1>4. ASSUME NEW p \in Proc, Pipes!PipeClose(p) PROVE RingInv' /\ UNCHANGED Pipes!Contents
  <2>1. UNCHANGED <<data, nread, nwrite, left>>
    BY <1>4 DEF Pipes!PipeClose, Pipes!ring
  <2>2. readopen' \in BOOLEAN /\ writeopen' \in BOOLEAN /\ allocated' \in BOOLEAN
    BY <1>4, Zenon DEF Pipes!PipeClose
  <2> QED
    BY <1>1, <1>t, <2>1, <2>2
<1>5. ASSUME NEW p \in Proc, left[p] > 0, left' = [left EXCEPT ![p] = @ - 1] PROVE left' \in [Proc -> 0 .. MaxN]
  BY <1>5, <1>t, <1>n
<1>6. ASSUME NEW p \in Proc, Pipes!WriteByte(p) PROVE RingInv' /\ Poured!Next
  <2>1. PICK b \in Bytes :
          /\ left[p] > 0 /\ ~Pipes!Full
          /\ data' = [data EXCEPT ![nwrite % PipeSize] = b] /\ nwrite' = (nwrite + 1) % Wrap
          /\ left' = [left EXCEPT ![p] = @ - 1]
          /\ UNCHANGED <<nread, readopen, writeopen, allocated>>
    BY <1>6 DEF Pipes!WriteByte, Pipes!ends
  <2>2. n # PipeSize
    BY <1>v, <2>1 DEF Pipes!Full, Ahead
  <2>3. PICK l \in 0 .. PipeSize : l = n + 1
    BY <1>n, <1>v, <2>2
  <2>4. nwrite' = Ahead(nread', l)
    <3>1. Ahead(Ahead(nread, n), 1) = Ahead(nread, n + 1)
      BY <1>t, <1>v, AheadTwice
    <3> QED
      BY <1>v, <2>1, <2>3, <3>1 DEF Ahead
  <2>5. PICK end \in Int : end = nread + n
    BY <1>t, <1>v
  <2>6. Place(nwrite) = Place(end)
    <3>1. Place(Ahead(nread, n) + 0) = Place(nread + n + 0)
      BY <1>t, <1>v, PlaceOfAhead
    <3>2. Ahead(nread, n) + 0 = Ahead(nread, n) /\ nread + n + 0 = end
      BY <1>t, <1>v, <2>5, AheadIsCounter
    <3> QED
      BY <1>v, <3>1, <3>2
  <2>7. Stored(data, end, b, data')
    <3>1. Place(end) \in 0 .. PipeSize - 1
      BY PlaceIsIndex
    <3>2. data' = [data EXCEPT ![Place(end)] = b]
      BY <2>1, <2>6 DEF Place
    <3> QED
      BY <1>t, <3>1, <3>2 DEF Stored, Ring
  <2>8. EndsAt(end, nread, n, l)
    <3>1. n < PipeSize
      BY <1>n, <1>v, <2>2
    <3> QED
      BY <1>n, <1>t, <1>v, <2>3, <2>5, <3>1 DEF EndsAt
  <2>9. Text(data', nread, l) = Append(Text(data, nread, n), b)
    <3>1. l \in Nat
      BY <1>n
    <3> QED
      BY <1>t, <1>v, <2>7, <2>8, <3>1, TextTyped
  <2>10. Pipes!Contents' = Text(data', nread', l)
    BY <1>t, <2>1, <2>4, ContentsWillBe
  <2>11. Len(Pipes!Contents) < PipeSize
    <3>1. Len(Text(data, nread, n)) = n
      BY <1>t, <1>v, TextIsLong
    <3> QED
      BY <1>n, <1>v, <2>2, <3>1
  <2>12. Pipes!Contents' = Append(Pipes!Contents, b)
    BY <1>v, <2>1, <2>9, <2>10
  <2>13. RingInv'
    BY <1>5, <1>t, <2>1, <2>4, <2>7 DEF RingInv, RingAt, Stored
  <2> QED
    BY <2>11, <2>12, <2>13 DEF Poured!Next, Poured!Put
<1>7. ASSUME NEW p \in Proc, Pipes!ReadByte(p) \/ Pipes!ReadFault(p) PROVE RingInv' /\ Poured!Next
  <2>1. /\ ~Pipes!Empty /\ nread' = (nread + 1) % Wrap
        /\ UNCHANGED <<data, nwrite, readopen, writeopen, allocated>>
    BY <1>7 DEF Pipes!ReadByte, Pipes!ReadFault, Pipes!ends
  <2>2. left' \in [Proc -> 0 .. MaxN]
    <3>1. CASE Pipes!ReadByte(p)
      BY <1>5, <3>1 DEF Pipes!ReadByte
    <3>2. CASE Pipes!ReadFault(p)
      BY <1>n, <1>t, <3>2 DEF Pipes!ReadFault, Pipes!Return
    <3> QED
      BY <1>7, <3>1, <3>2
  <2>3. n # 0
    BY <1>t, <1>v, <2>1, AheadOfNothing DEF Pipes!Empty
  <2>4. PICK l \in 0 .. PipeSize : n = l + 1
    BY <1>n, <1>v, <2>3
  <2>5. nread' = Ahead(nread, 1) /\ nread' \in Pipes!Counter
    BY <1>t, <2>1, AheadIsCounter DEF Ahead
  <2>6. nwrite' = Ahead(nread', l)
    <3>1. Ahead(Ahead(nread, 1), l) = Ahead(nread, 1 + l)
      BY <1>t, AheadTwice
    <3>2. 1 + l = n
      BY <2>4
    <3> QED
      BY <1>v, <2>1, <2>5, <3>1, <3>2
  <2>7. Pipes!Contents' = Text(data', nread', l)
    BY <2>5, <2>6, ContentsWillBe
  <2>8. l \in Nat
    BY <1>n
  <2>9. Text(data, Ahead(nread, 1), l) = Text(data, nread + 1, l)
    BY <1>t, <2>8, TextFromAhead
  <2>10. Tail(Text(data, nread, l + 1)) = Text(data, nread + 1, l) /\ Text(data, nread, l + 1) # <<>>
    BY <1>t, <2>8, TextWithoutHead
  <2>11. Pipes!Contents' = Tail(Pipes!Contents) /\ Pipes!Contents # <<>>
    BY <1>v, <2>1, <2>4, <2>5, <2>7, <2>9, <2>10
  <2>12. RingInv'
    BY <1>t, <2>1, <2>2, <2>5, <2>6 DEF RingInv, RingAt
  <2> QED
    BY <2>11, <2>12 DEF Poured!Next, Poured!Get
<1>8. CASE UNCHANGED Pipes!vars
  BY <1>1, <1>8, <1>t DEF Pipes!vars, Pipes!ring, Pipes!ends
<1>9. CASE Pipes!Next
  <2>1. PICK p \in Proc : Pipes!InPipe(p) \/ Pipes!Programs(p)
    BY <1>9 DEF Pipes!Next
  <2> QED
    BY <2>1, <1>2, <1>3, <1>4, <1>6, <1>7 DEF Pipes!InPipe, Pipes!Programs
<1> QED
  BY <1>8, <1>9

-----------------------------------------------------------------------------
(* Buffers: a valid buffer shows what was last stored in its block, which  *)
(* is pinned until the disk has it, and every reference is somebody's.     *)

AllBlocks == SomeBlocks \cup {OtherBlock}

BufTypes ==
  /\ blockno \in [Buf -> AllBlocks \cup {None}] /\ valid \in [Buf -> BOOLEAN]
  /\ refcnt \in [Buf -> Nat] /\ owner \in [Buf -> Worker \cup {None}]
  /\ data \in [Buf -> Value] /\ disk \in [AllBlocks -> Value] /\ latest \in [AllBlocks -> Value]
  /\ pc \in [Worker -> Buffers!Labels] /\ want \in [Worker -> AllBlocks \cup {None}]
  /\ buf \in [Worker -> Buf \cup {None}] /\ asleep \subseteq Worker /\ logged \subseteq Buf

\* Every buffer is on the list, once.
EachOnce(s) ==
  /\ s \in Seq(Buf) /\ Len(s) = Cardinality(Buf)
  /\ \A b \in Buf : \E k \in 1 .. Len(s) : s[k] = b

\* What a process with a call under way has.
Caller(p) ==
  /\ pc[p] = "user" <=> buf[p] = None
  /\ buf[p] # None => want[p] # None /\ blockno[buf[p]] = want[p]
  /\ pc[p] \in {"read", "hold"} => owner[buf[p]] = p
  /\ pc[p] = "hold" => valid[buf[p]]
  /\ pc[p] = "read" => ~valid[buf[p]]
  /\ p \in asleep => pc[p] = "acquire" /\ owner[buf[p]] # None

\* A valid buffer shows what its block should hold; no other buffer is for the
\* block; who has it locked is at work in it; and it stays as long as it is pinned.
Shows(b) ==
  /\ owner[b] # None => buf[owner[b]] = b /\ pc[owner[b]] \in {"read", "hold"}
  /\ valid[b] => blockno[b] # None /\ data[b] = latest[blockno[b]]
  /\ b \in logged => valid[b]
  /\ blockno[b] # None => \A c \in Buf : blockno[c] = blockno[b] => c = b

\* Who has a reference to a buffer.
Users(b) == {q \in Worker : buf[q] = b}
Pinned(b) == IF b \in logged THEN 1 ELSE 0
Counted(b) == refcnt[b] = Cardinality(Users(b)) + Pinned(b)

\* What was stored last is on the disk or pinned.
Stays(n) == disk[n] = latest[n] \/ \E b \in logged : blockno[b] = n

BufInv ==
  /\ BufTypes /\ EachOnce(lru)
  /\ \A p \in Worker : Caller(p)
  /\ \A b \in Buf : Shows(b)
  /\ \A b \in Buf : Counted(b)
  /\ \A n \in AllBlocks : Stays(n)
  /\ Cardinality(logged) <= MaxPins

LEMMA BufFacts ==
  ASSUME PartsAssumption
  PROVE  /\ IsFiniteSet(Worker) /\ IsFiniteSet(Buf) /\ MaxPins \in Nat /\ Value # {}
         /\ MaxPins + Cardinality(Worker) <= Cardinality(Buf)
         /\ None \notin Worker /\ None \notin Buf /\ None \notin AllBlocks
<1>1. \A S : Buffers!IsFiniteSet(S) <=> IsFiniteSet(S)
  BY DEF Buffers!IsFiniteSet, IsFiniteSet
<1>2. \A S : Buffers!Cardinality(S) = Cardinality(S)
  BY DEF Buffers!Cardinality, Cardinality, Buffers!IsFiniteSet, IsFiniteSet
<1> QED
  BY <1>1, <1>2 DEF PartsAssumption, Buffers!NoneAssumption, Buffers!RoomAssumption, AllBlocks

LEMMA BufCounts == \A S : Buffers!Cardinality(S) = Cardinality(S)
BY DEF Buffers!Cardinality, Cardinality, Buffers!IsFiniteSet, IsFiniteSet

LEMMA UsersAreFinite ==
  ASSUME PartsAssumption, NEW b
  PROVE  IsFiniteSet(Users(b)) /\ Cardinality(Users(b)) \in Nat
<1>1. IsFiniteSet(Worker) /\ Users(b) \in SUBSET Worker
  BY BufFacts DEF Users
<1> QED
  BY <1>1, FS_Subset, FS_CardinalityType

Listing(S) == CHOOSE f \in [1 .. Cardinality(S) -> S] : Buffers!IsInjective(f)

LEMMA SeqOfSet ==
  ASSUME NEW S, IsFiniteSet(S)
  PROVE  LET s == Listing(S) IN
           /\ s \in Seq(S) /\ Len(s) = Cardinality(S)
           /\ \A b \in S : \E k \in 1 .. Len(s) : s[k] = b
<1> DEFINE s == Listing(S)
<1>1. Cardinality(S) \in Nat /\ ExistsBijection(1 .. Cardinality(S), S)
  BY FS_CardinalityType
<1>2. PICK f \in Bijection(1 .. Cardinality(S), S) : TRUE
  BY <1>1 DEF ExistsBijection
<1>3. f \in [1 .. Cardinality(S) -> S] /\ Buffers!IsInjective(f)
  BY <1>2 DEF Bijection, Injection, IsInjective, Buffers!IsInjective
<1>4. s \in [1 .. Cardinality(S) -> S] /\ Buffers!IsInjective(s)
  BY <1>3 DEF Listing
<1> HIDE DEF s
<1>5. s \in Injection(1 .. Cardinality(S), S)
  BY <1>4 DEF Injection, IsInjective, Buffers!IsInjective
<1>6. Cardinality(1 .. Cardinality(S)) = Cardinality(S)
  BY <1>1, FS_Interval
<1>7. s \in Surjection(1 .. Cardinality(S), S)
  BY <1>5, <1>6, FS_Injection
<1>8. s \in Seq(S) /\ Len(s) = Cardinality(S)
  BY <1>1, <1>4
<1> QED
  BY <1>7, <1>8 DEF Surjection, s

\* binit()
LEMMA BufInit == ASSUME PartsAssumption, Buffers!Init PROVE BufInv
<1>1. EachOnce(lru)
  <2>1. lru = Listing(Buf)
    BY BufCounts DEF Buffers!Init, Buffers!SetToSeq, Listing
  <2> QED
    <3>1. IsFiniteSet(Buf)
      BY BufFacts
    <3>2. /\ lru \in Seq(Buf) /\ Len(lru) = Cardinality(Buf)
          /\ \A b \in Buf : \E k \in 1 .. Len(lru) : lru[k] = b
      BY <2>1, <3>1, SeqOfSet
    <3> QED
      BY <3>2 DEF EachOnce
<1>2. Buffers!AnyValue \in Value
  BY BufFacts DEF Buffers!AnyValue
<1>3. BufTypes
  BY <1>2, BufFacts DEF BufTypes, Buffers!Init, Buffers!Labels, AllBlocks
<1>4. \A p \in Worker : Caller(p)
  BY BufFacts DEF Caller, Buffers!Init
<1>5. \A b \in Buf : Shows(b)
  BY BufFacts DEF Shows, Buffers!Init
<1>6. ASSUME NEW b \in Buf PROVE Counted(b)
  <2>1. Users(b) = {} /\ Pinned(b) = 0 /\ refcnt[b] = 0
    BY BufFacts DEF Users, Pinned, Buffers!Init
  <2> QED
    BY <2>1, FS_EmptySet DEF Counted
<1>7. \A n \in AllBlocks : Stays(n)
  BY DEF Stays, Buffers!Init
<1>8. Cardinality(logged) <= MaxPins
  BY BufFacts, FS_EmptySet DEF Buffers!Init
<1> QED
  BY <1>1, <1>3, <1>4, <1>5, <1>6, <1>7, <1>8 DEF BufInv

-----------------------------------------------------------------------------
(* Each action keeps it.  What is not counted comes first. *)

BufShape ==
  /\ BufTypes
  /\ \A p \in Worker : Caller(p)
  /\ \A b \in Buf : Shows(b)
  /\ \A n \in AllBlocks : Stays(n)

LEMMA CachedIsFree ==
  ASSUME PartsAssumption, BufShape, NEW p \in Worker, NEW n \in AllBlocks, Buffers!GetCached(p, n)
  PROVE  BufShape'
<1>1. PICK b \in Buf : blockno[b] = n /\ pc[p] = "user" /\ Buffers!Use(p, b, n)
  BY DEF Buffers!GetCached, Buffers!Cached
<1>2. UNCHANGED <<lru, blockno, valid, data, owner, logged, disk, asleep, latest>>
  BY DEF Buffers!GetCached
<1>3. BufTypes'
  BY <1>1, <1>2 DEF BufShape, BufTypes, Buffers!Use, Buffers!Goto, Buffers!Labels
<1>4. \A q \in Worker : /\ pc'[q] = IF q = p THEN "acquire" ELSE pc[q]
                        /\ want'[q] = IF q = p THEN n ELSE want[q]
                        /\ buf'[q] = IF q = p THEN b ELSE buf[q]
  BY <1>1 DEF BufShape, BufTypes, Buffers!Use, Buffers!Goto
<1>5. ASSUME NEW q \in Worker PROVE Caller(q)'
  BY <1>1, <1>2, <1>4, BufFacts DEF BufShape, Caller
<1>6. ASSUME NEW c \in Buf PROVE Shows(c)'
  <2>1. Shows(c) /\ (owner[c] = None \/ owner[c] \in Worker)
    BY DEF BufShape, BufTypes
  <2> QED
    BY <1>1, <1>2, <1>4, <2>1 DEF Shows
<1>7. ASSUME NEW m \in AllBlocks PROVE Stays(m)'
  BY <1>2 DEF BufShape, Stays
<1> QED
  BY <1>3, <1>5, <1>6, <1>7 DEF BufShape

LEMMA RecycledIsFree ==
  ASSUME PartsAssumption, BufShape, \A b \in Buf : Counted(b), EachOnce(lru),
         NEW p \in Worker, NEW n \in AllBlocks, Buffers!Recycle(p, n)
  PROVE  BufShape'
<1>1. PICK k \in 1 .. Len(lru) :
        /\ refcnt[lru[k]] = 0 /\ pc[p] = "user" /\ Buffers!Cached(n) = {}
        /\ Buffers!Use(p, lru[k], n)
        /\ blockno' = [blockno EXCEPT ![lru[k]] = n]
        /\ valid' = [valid EXCEPT ![lru[k]] = FALSE]
  BY DEF Buffers!Recycle, Buffers!Unused
<1>2. UNCHANGED <<lru, data, owner, logged, disk, asleep, latest>>
  BY DEF Buffers!Recycle
<1>3. PICK b \in Buf : b = lru[k]
  BY DEF EachOnce
<1>4. Users(b) = {} /\ b \notin logged
  <2>1. Cardinality(Users(b)) + Pinned(b) = 0
    BY <1>1, <1>3 DEF Counted
  <2>2. Cardinality(Users(b)) = 0 /\ Pinned(b) = 0
    BY <2>1, UsersAreFinite DEF Pinned
  <2> QED
    BY <2>2, UsersAreFinite, FS_EmptySet DEF Pinned
<1>5. BufTypes'
  BY <1>1, <1>2, <1>3 DEF BufShape, BufTypes, Buffers!Use, Buffers!Goto, Buffers!Labels
<1>6. \A q \in Worker : /\ pc'[q] = IF q = p THEN "acquire" ELSE pc[q]
                        /\ want'[q] = IF q = p THEN n ELSE want[q]
                        /\ buf'[q] = IF q = p THEN b ELSE buf[q]
  BY <1>1, <1>3 DEF BufShape, BufTypes, Buffers!Use, Buffers!Goto
<1>7. \A c \in Buf : /\ blockno'[c] = IF c = b THEN n ELSE blockno[c]
                     /\ valid'[c] <=> c # b /\ valid[c]
  BY <1>1, <1>3 DEF BufShape, BufTypes
<1>8. \A q \in Worker : buf[q] # b
  BY <1>4 DEF Users
<1>9. \A c \in Buf : blockno[c] # n
  BY <1>1 DEF Buffers!Cached
<1>10. owner[b] = None
  BY <1>8 DEF BufShape, BufTypes, Shows
<1>11. ASSUME NEW q \in Worker PROVE Caller(q)'
  <2>1. Caller(q) /\ (buf[q] = None \/ buf[q] \in Buf)
    BY DEF BufShape, BufTypes
  <2>2. CASE q = p
    BY <1>1, <1>2, <1>6, <1>7, <2>1, <2>2, BufFacts DEF Caller
  <2>3. CASE q # p
    BY <1>2, <1>6, <1>7, <1>8, <2>1, <2>3, BufFacts DEF Caller
  <2> QED
    BY <2>2, <2>3
<1>12. ASSUME NEW c \in Buf PROVE Shows(c)'
  <2>1. Shows(c) /\ (owner[c] = None \/ owner[c] \in Worker)
    BY DEF BufShape, BufTypes
  <2>2. CASE c = b
    BY <1>2, <1>4, <1>7, <1>9, <1>10, <2>2 DEF Shows
  <2>3. CASE c # b
    BY <1>1, <1>2, <1>6, <1>7, <1>9, <2>1, <2>3 DEF Shows
  <2> QED
    BY <2>2, <2>3
<1>13. ASSUME NEW m \in AllBlocks PROVE Stays(m)'
  BY <1>2, <1>4, <1>7 DEF BufShape, BufTypes, Stays
<1> QED
  BY <1>5, <1>11, <1>12, <1>13 DEF BufShape

LEMMA AcquireIsKept ==
  ASSUME PartsAssumption, BufShape, NEW p \in Worker, Buffers!Acquire(p)
  PROVE  BufShape'
<1>1. /\ pc[p] = "acquire" /\ p \notin asleep
      /\ UNCHANGED <<lru, blockno, valid, refcnt, data, logged, disk, want, buf, latest>>
  BY DEF Buffers!Acquire
<1>2. PICK b \in Buf : b = buf[p]
  BY <1>1 DEF BufShape, BufTypes, Caller
<1>3. CASE owner[b] = None
  <2>1. /\ owner' = [owner EXCEPT ![b] = p] /\ asleep' = asleep
        /\ pc' = [pc EXCEPT ![p] = IF valid[b] THEN "hold" ELSE "read"]
    BY <1>2, <1>3 DEF Buffers!Acquire, Buffers!Goto
  <2>2. BufTypes'
    BY <1>1, <1>2, <2>1 DEF BufShape, BufTypes, Buffers!Labels
  <2>3. \A q \in Worker : pc'[q] = IF q # p THEN pc[q] ELSE IF valid[b] THEN "hold" ELSE "read"
    BY <2>1 DEF BufShape, BufTypes
  <2>4. \A c \in Buf : owner'[c] = IF c = b THEN p ELSE owner[c]
    BY <2>1 DEF BufShape, BufTypes
  <2>5. ASSUME NEW q \in Worker PROVE Caller(q)'
    <3>1. Caller(q) /\ (buf[q] = None \/ buf[q] \in Buf)
      BY DEF BufShape, BufTypes
    <3>2. CASE q = p
      BY <1>1, <1>2, <2>1, <2>3, <2>4, <3>1, <3>2, BufFacts DEF Caller
    <3>3. CASE q # p
      BY <1>1, <1>3, <2>1, <2>3, <2>4, <3>1, <3>3, BufFacts DEF Caller
    <3> QED
      BY <3>2, <3>3
  <2>6. ASSUME NEW c \in Buf PROVE Shows(c)'
    <3>1. Shows(c) /\ (owner[c] = None \/ owner[c] \in Worker)
      BY DEF BufShape, BufTypes
    <3> QED
      BY <1>1, <1>2, <2>3, <2>4, <3>1 DEF Shows
  <2>7. ASSUME NEW m \in AllBlocks PROVE Stays(m)'
    BY <1>1 DEF BufShape, Stays
  <2> QED
    BY <2>2, <2>5, <2>6, <2>7 DEF BufShape
<1>4. CASE owner[b] # None
  <2>1. owner' = owner /\ pc' = pc /\ asleep' = asleep \cup {p}
    BY <1>2, <1>4 DEF Buffers!Acquire
  <2>2. BufTypes'
    BY <1>1, <2>1 DEF BufShape, BufTypes
  <2>3. ASSUME NEW q \in Worker PROVE Caller(q)'
    BY <1>1, <1>2, <1>4, <2>1 DEF BufShape, Caller
  <2>4. ASSUME NEW c \in Buf PROVE Shows(c)'
    BY <1>1, <2>1 DEF BufShape, Shows
  <2>5. ASSUME NEW m \in AllBlocks PROVE Stays(m)'
    BY <1>1 DEF BufShape, Stays
  <2> QED
    BY <2>2, <2>3, <2>4, <2>5 DEF BufShape
<1> QED
  BY <1>3, <1>4

LEMMA DiskReadIsKept ==
  ASSUME PartsAssumption, BufShape, NEW p \in Worker, Buffers!DiskRead(p)
  PROVE  BufShape'
<1>1. pc[p] = "read" /\ pc' = [pc EXCEPT ![p] = "hold"]
      /\ UNCHANGED <<lru, blockno, refcnt, owner, logged, disk, want, buf, asleep, latest>>
  BY DEF Buffers!DiskRead, Buffers!Goto
<1>2. PICK b \in Buf : b = buf[p]
  BY <1>1 DEF BufShape, BufTypes, Caller
<1>3. PICK n \in AllBlocks : n = blockno[b] /\ n = want[p]
  BY <1>1, <1>2, BufFacts DEF BufShape, BufTypes, Caller
<1>4. data' = [data EXCEPT ![b] = disk[n]] /\ valid' = [valid EXCEPT ![b] = TRUE]
  BY <1>2, <1>3 DEF Buffers!DiskRead
<1>5. owner[b] = p /\ ~valid[b] /\ b \notin logged
  BY <1>1, <1>2 DEF BufShape, Caller, Shows
<1>6. disk[n] = latest[n]
  <2>1. ASSUME NEW c \in logged, blockno[c] = n PROVE FALSE
    <3>1. c \in Buf /\ c # b /\ blockno[c] = blockno[b] /\ blockno[c] # None
      BY <1>3, <1>5, <2>1, BufFacts DEF BufShape, BufTypes
    <3>2. Shows(c)
      BY <3>1 DEF BufShape
    <3> QED
      BY <3>1, <3>2 DEF Shows
  <2> QED
    BY <2>1 DEF BufShape, Stays
<1>7. BufTypes'
  BY <1>1, <1>2, <1>4 DEF BufShape, BufTypes, Buffers!Labels
<1>8. \A q \in Worker : pc'[q] = IF q = p THEN "hold" ELSE pc[q]
  BY <1>1 DEF BufShape, BufTypes
<1>9. \A c \in Buf : data'[c] = (IF c = b THEN disk[n] ELSE data[c]) /\ (valid'[c] <=> c = b \/ valid[c])
  BY <1>4 DEF BufShape, BufTypes
<1>10. ASSUME NEW q \in Worker PROVE Caller(q)'
  <2>1. Caller(q) /\ (buf[q] = None \/ buf[q] \in Buf)
    BY DEF BufShape, BufTypes
  <2>2. CASE q = p
    BY <1>1, <1>2, <1>5, <1>8, <1>9, <2>1, <2>2, BufFacts DEF Caller
  <2>3. CASE q # p
    BY <1>1, <1>2, <1>5, <1>8, <1>9, <2>1, <2>3, BufFacts DEF Caller
  <2> QED
    BY <2>2, <2>3
<1>11. ASSUME NEW c \in Buf PROVE Shows(c)'
  <2>1. Shows(c) /\ (owner[c] = None \/ owner[c] \in Worker)
    BY DEF BufShape, BufTypes
  <2>2. CASE c = b
    BY <1>1, <1>2, <1>3, <1>5, <1>6, <1>8, <1>9, <2>1, <2>2, BufFacts, ZenonT(40) DEF Shows
  <2>3. CASE c # b
    BY <1>1, <1>8, <1>9, <2>1, <2>3 DEF Shows
  <2> QED
    BY <2>2, <2>3
<1>12. ASSUME NEW m \in AllBlocks PROVE Stays(m)'
  BY <1>1 DEF BufShape, Stays
<1> QED
  BY <1>7, <1>10, <1>11, <1>12 DEF BufShape

\* Who holds a buffer holds the only copy of the block it wants.
LEMMA HolderHas ==
  ASSUME PartsAssumption, BufShape, NEW p \in Worker, pc[p] = "hold"
  PROVE  \E b \in Buf : \E n \in AllBlocks :
           /\ b = buf[p] /\ n = want[p] /\ n = blockno[b] /\ owner[b] = p /\ valid[b]
           /\ data[b] = latest[n]
           /\ \A c \in Buf : blockno[c] = n => c = b
<1>1. PICK b \in Buf : b = buf[p]
  BY DEF BufShape, BufTypes, Caller
<1>2. owner[b] = p /\ valid[b] /\ want[p] # None /\ blockno[b] = want[p]
  BY <1>1, BufFacts DEF BufShape, Caller
<1>3. PICK n \in AllBlocks : n = want[p]
  BY <1>2 DEF BufShape, BufTypes
<1>4. data[b] = latest[n] /\ \A c \in Buf : blockno[c] = n => c = b
  BY <1>2, <1>3 DEF BufShape, Shows
<1> QED
  BY <1>1, <1>2, <1>3, <1>4

LEMMA StoreIsKept ==
  ASSUME PartsAssumption, BufShape, NEW p \in Worker, NEW v \in Value, Buffers!Store(p, v)
  PROVE  BufShape'
<1>1. /\ pc[p] = "hold"
      /\ UNCHANGED <<lru, blockno, valid, owner, disk, pc, want, buf, asleep>>
  BY DEF Buffers!Store
<1>2. PICK b \in Buf : \E n \in AllBlocks :
           /\ b = buf[p] /\ n = want[p] /\ n = blockno[b] /\ owner[b] = p /\ valid[b]
           /\ data[b] = latest[n]
           /\ \A c \in Buf : blockno[c] = n => c = b
  BY <1>1, HolderHas
<1>3. PICK n \in AllBlocks : 
           /\ b = buf[p] /\ n = want[p] /\ n = blockno[b] /\ owner[b] = p /\ valid[b]
           /\ data[b] = latest[n]
           /\ \A c \in Buf : blockno[c] = n => c = b
  BY <1>2
<1>4. /\ data' = [data EXCEPT ![b] = v] /\ latest' = [latest EXCEPT ![n] = v]
      /\ logged' = logged \cup {b}
  BY <1>3 DEF Buffers!Store
<1>5. refcnt' \in [Buf -> Nat]
  BY <1>3 DEF Buffers!Store, BufShape, BufTypes
<1>6. BufTypes'
  BY <1>1, <1>4, <1>5 DEF BufShape, BufTypes
<1>7. \A c \in Buf : data'[c] = IF c = b THEN v ELSE data[c]
  BY <1>4 DEF BufShape, BufTypes
<1>8. \A m \in AllBlocks : latest'[m] = IF m = n THEN v ELSE latest[m]
  BY <1>4 DEF BufShape, BufTypes
<1>9. ASSUME NEW q \in Worker PROVE Caller(q)'
  BY <1>1 DEF BufShape, Caller
<1>10. ASSUME NEW c \in Buf PROVE Shows(c)'
  <2>1. Shows(c) /\ (blockno[c] = None \/ blockno[c] \in AllBlocks)
    BY DEF BufShape, BufTypes
  <2> QED
    BY <1>1, <1>3, <1>4, <1>7, <1>8, <2>1 DEF Shows
<1>11. ASSUME NEW m \in AllBlocks PROVE Stays(m)'
  BY <1>1, <1>3, <1>4, <1>8 DEF BufShape, Stays
<1> QED
  BY <1>6, <1>9, <1>10, <1>11 DEF BufShape

LEMMA WriteHomeIsKept ==
  ASSUME PartsAssumption, BufShape, \A b \in Buf : Counted(b), NEW p \in Worker, Buffers!WriteHome(p)
  PROVE  BufShape'
<1>1. /\ pc[p] = "hold" /\ buf[p] \in logged
      /\ UNCHANGED <<lru, blockno, valid, data, owner, pc, want, buf, asleep, latest>>
  BY DEF Buffers!WriteHome
<1>2. PICK b \in Buf : \E n \in AllBlocks :
           /\ b = buf[p] /\ n = want[p] /\ n = blockno[b] /\ owner[b] = p /\ valid[b]
           /\ data[b] = latest[n]
           /\ \A c \in Buf : blockno[c] = n => c = b
  BY <1>1, HolderHas
<1>3. PICK n \in AllBlocks : 
           /\ b = buf[p] /\ n = want[p] /\ n = blockno[b] /\ owner[b] = p /\ valid[b]
           /\ data[b] = latest[n]
           /\ \A c \in Buf : blockno[c] = n => c = b
  BY <1>2
<1>4. /\ disk' = [disk EXCEPT ![n] = data[b]] /\ logged' = logged \ {b}
      /\ refcnt' = [refcnt EXCEPT ![b] = @ - 1]
  BY <1>3 DEF Buffers!WriteHome
<1>5. refcnt' \in [Buf -> Nat]
  <2>1. refcnt[b] = Cardinality(Users(b)) + 1 /\ Cardinality(Users(b)) \in Nat
    BY <1>1, <1>3, UsersAreFinite DEF Counted, Pinned
  <2>2. refcnt[b] - 1 \in Nat
    BY <2>1
  <2> QED
    BY <1>4, <2>2 DEF BufShape, BufTypes
<1>6. BufTypes'
  BY <1>1, <1>4, <1>5 DEF BufShape, BufTypes
<1>7. \A m \in AllBlocks : disk'[m] = IF m = n THEN data[b] ELSE disk[m]
  BY <1>4 DEF BufShape, BufTypes
<1>8. ASSUME NEW q \in Worker PROVE Caller(q)'
  BY <1>1 DEF BufShape, Caller
<1>9. ASSUME NEW c \in Buf PROVE Shows(c)'
  BY <1>1, <1>4 DEF BufShape, Shows
<1>10. ASSUME NEW m \in AllBlocks PROVE Stays(m)'
  BY <1>1, <1>3, <1>4, <1>7 DEF BufShape, Stays
<1> QED
  BY <1>6, <1>8, <1>9, <1>10 DEF BufShape

LEMMA ReleaseIsKept ==
  ASSUME PartsAssumption, BufShape, NEW p \in Worker, Buffers!ReleaseSleep(p)
  PROVE  BufShape'
<1>1. /\ pc[p] = "hold" /\ pc' = [pc EXCEPT ![p] = "unref"]
      /\ UNCHANGED <<lru, blockno, valid, refcnt, data, logged, disk, want, buf, latest>>
  BY DEF Buffers!ReleaseSleep, Buffers!Goto
<1>2. PICK b \in Buf : b = buf[p] /\ owner[b] = p
  BY <1>1 DEF BufShape, BufTypes, Caller
<1>3. owner' = [owner EXCEPT ![b] = None] /\ asleep' = {q \in asleep : buf[q] # b}
  BY <1>2 DEF Buffers!ReleaseSleep
<1>4. BufTypes'
  BY <1>1, <1>3 DEF BufShape, BufTypes, Buffers!Labels
<1>5. \A q \in Worker : pc'[q] = IF q = p THEN "unref" ELSE pc[q]
  BY <1>1 DEF BufShape, BufTypes
<1>6. \A c \in Buf : owner'[c] = IF c = b THEN None ELSE owner[c]
  BY <1>3 DEF BufShape, BufTypes
<1>7. ASSUME NEW q \in Worker PROVE Caller(q)'
  <2>1. Caller(q) /\ (buf[q] = None \/ buf[q] \in Buf)
    BY DEF BufShape, BufTypes
  <2>2. CASE q = p
    BY <1>1, <1>2, <1>3, <1>5, <1>6, <2>1, <2>2, BufFacts DEF Caller
  <2>3. CASE q # p
    BY <1>1, <1>2, <1>3, <1>5, <1>6, <2>1, <2>3, BufFacts DEF Caller
  <2> QED
    BY <2>2, <2>3
<1>8. ASSUME NEW c \in Buf PROVE Shows(c)'
  <2>1. Shows(c) /\ (owner[c] = None \/ owner[c] \in Worker)
    BY DEF BufShape, BufTypes
  <2> QED
    BY <1>1, <1>2, <1>5, <1>6, <2>1 DEF Shows
<1>9. ASSUME NEW m \in AllBlocks PROVE Stays(m)'
  BY <1>1 DEF BufShape, Stays
<1> QED
  BY <1>4, <1>7, <1>8, <1>9 DEF BufShape

LEMMA UnrefIsKept ==
  ASSUME PartsAssumption, BufShape, \A b \in Buf : Counted(b), NEW p \in Worker, Buffers!Unref(p)
  PROVE  BufShape'
<1>1. /\ pc[p] = "unref" /\ pc' = [pc EXCEPT ![p] = "user"]
      /\ want' = [want EXCEPT ![p] = None] /\ buf' = [buf EXCEPT ![p] = None]
      /\ UNCHANGED <<blockno, valid, data, owner, logged, disk, asleep, latest>>
  BY DEF Buffers!Unref, Buffers!Goto
<1>2. PICK b \in Buf : b = buf[p]
  BY <1>1 DEF BufShape, BufTypes, Caller
<1>3. refcnt' = [refcnt EXCEPT ![b] = @ - 1]
  BY <1>2 DEF Buffers!Unref
<1>4. refcnt' \in [Buf -> Nat]
  <2>1. p \in Users(b) /\ refcnt[b] = Cardinality(Users(b)) + Pinned(b)
    BY <1>2 DEF Counted, Users
  <2>2. Cardinality(Users(b)) \in Nat /\ Cardinality(Users(b)) # 0
    BY <2>1, UsersAreFinite, FS_EmptySet
  <2>3. refcnt[b] - 1 \in Nat
    BY <2>1, <2>2 DEF Pinned
  <2> QED
    BY <1>3, <2>3 DEF BufShape, BufTypes
<1>5. BufTypes'
  BY <1>1, <1>4 DEF BufShape, BufTypes, Buffers!Labels
<1>6. \A q \in Worker : /\ pc'[q] = IF q = p THEN "user" ELSE pc[q]
                        /\ want'[q] = IF q = p THEN None ELSE want[q]
                        /\ buf'[q] = IF q = p THEN None ELSE buf[q]
  BY <1>1 DEF BufShape, BufTypes
<1>7. ASSUME NEW q \in Worker PROVE Caller(q)'
  <2>1. Caller(q) /\ (buf[q] = None \/ buf[q] \in Buf)
    BY DEF BufShape, BufTypes
  <2>2. CASE q = p
    BY <1>1, <1>6, <2>1, <2>2, BufFacts DEF Caller
  <2>3. CASE q # p
    BY <1>1, <1>6, <2>1, <2>3, BufFacts DEF Caller
  <2> QED
    BY <2>2, <2>3
<1>8. ASSUME NEW c \in Buf PROVE Shows(c)'
  <2>1. Shows(c) /\ (owner[c] = None \/ owner[c] \in Worker)
    BY DEF BufShape, BufTypes
  <2> QED
    BY <1>1, <1>6, <2>1 DEF Shows
<1>9. ASSUME NEW m \in AllBlocks PROVE Stays(m)'
  BY <1>1 DEF BufShape, Stays
<1> QED
  BY <1>5, <1>7, <1>8, <1>9 DEF BufShape

-----------------------------------------------------------------------------
(* The references, and the list of buffers *)

LEMMA OneUserMore ==
  ASSUME PartsAssumption, BufTypes, NEW p \in Worker, buf[p] = None, NEW b \in Buf,
         buf' = [buf EXCEPT ![p] = b], NEW c \in Buf
  PROVE  Cardinality(Users(c)') = Cardinality(Users(c)) + IF c = b THEN 1 ELSE 0
<1>1. \A q \in Worker : buf'[q] = IF q = p THEN b ELSE buf[q]
  BY DEF BufTypes
<1>2. IsFiniteSet(Users(c)) /\ Cardinality(Users(c)) \in Nat /\ p \notin Users(c)
  BY UsersAreFinite, BufFacts DEF Users
<1>3. CASE c = b
  <2>1. Users(c)' = Users(c) \cup {p}
    BY <1>1, <1>3 DEF Users
  <2> QED
    BY <1>2, <1>3, <2>1, FS_AddElement
<1>4. CASE c # b
  <2>1. Users(c)' = Users(c)
    BY <1>1, <1>2, <1>4 DEF Users
  <2> QED
    BY <1>2, <1>4, <2>1
<1> QED
  BY <1>3, <1>4

LEMMA OneUserLess ==
  ASSUME PartsAssumption, BufTypes, NEW p \in Worker, NEW b \in Buf, buf[p] = b,
         buf' = [buf EXCEPT ![p] = None], NEW c \in Buf
  PROVE  Cardinality(Users(c)') = Cardinality(Users(c)) - IF c = b THEN 1 ELSE 0
<1>1. \A q \in Worker : buf'[q] = IF q = p THEN None ELSE buf[q]
  BY DEF BufTypes
<1>2. IsFiniteSet(Users(c)) /\ Cardinality(Users(c)) \in Nat
  BY UsersAreFinite
<1>3. CASE c = b
  <2>1. Users(c)' = Users(c) \ {p} /\ p \in Users(c)
    BY <1>1, <1>3, BufFacts DEF Users
  <2> QED
    BY <1>2, <1>3, <2>1, FS_RemoveElement, SMTT(30)
<1>4. CASE c # b
  <2>1. Users(c)' = Users(c)
    BY <1>1, <1>4, BufFacts DEF Users
  <2> QED
    BY <1>2, <1>4, <2>1
<1> QED
  BY <1>3, <1>4

LEMMA UseIsCounted ==
  ASSUME PartsAssumption, BufTypes, \A b \in Buf : Counted(b), NEW p \in Worker, buf[p] = None,
         NEW b \in Buf, NEW n, Buffers!Use(p, b, n), logged' = logged
  PROVE  \A c \in Buf : Counted(c)'
<1> SUFFICES ASSUME NEW c \in Buf PROVE Counted(c)'
  OBVIOUS
<1>1. buf' = [buf EXCEPT ![p] = b] /\ refcnt' = [refcnt EXCEPT ![b] = @ + 1]
  BY DEF Buffers!Use
<1>2. refcnt[c] \in Nat /\ refcnt'[c] = IF c = b THEN refcnt[c] + 1 ELSE refcnt[c]
  BY <1>1 DEF BufTypes
<1>3. Cardinality(Users(c)') = Cardinality(Users(c)) + IF c = b THEN 1 ELSE 0
  BY <1>1, OneUserMore
<1>4. refcnt[c] = Cardinality(Users(c)) + Pinned(c) /\ Pinned(c)' = Pinned(c) /\ Pinned(c) \in Nat
  BY DEF Counted, Pinned
<1>5. refcnt'[c] = Cardinality(Users(c)') + Pinned(c)'
  BY <1>2, <1>3, <1>4, UsersAreFinite
<1> QED
  BY <1>5 DEF Counted

LEMMA StoreIsCounted ==
  ASSUME PartsAssumption, BufTypes, \A b \in Buf : Counted(b), Cardinality(logged) <= MaxPins,
         NEW p \in Worker, NEW v, Buffers!Store(p, v), NEW b \in Buf, b = buf[p]
  PROVE  (\A c \in Buf : Counted(c)') /\ Cardinality(logged') <= MaxPins
<1>1. /\ logged' = logged \cup {b} /\ buf' = buf
      /\ b \in logged \/ Cardinality(logged) < MaxPins
      /\ refcnt' = [refcnt EXCEPT ![b] = @ + (IF b \in logged THEN 0 ELSE 1)]
  BY BufCounts DEF Buffers!Store
<1>2. ASSUME NEW c \in Buf PROVE Counted(c)'
  <2>1. /\ refcnt[c] \in Nat
        /\ refcnt'[c] = IF c = b /\ b \notin logged THEN refcnt[c] + 1 ELSE refcnt[c]
    BY <1>1 DEF BufTypes
  <2>2. refcnt[c] = Cardinality(Users(c)) + Pinned(c)
    BY DEF Counted
  <2>3. Pinned(c)' = Pinned(c) + (IF c = b /\ b \notin logged THEN 1 ELSE 0) /\ Pinned(c) \in Nat
    BY <1>1 DEF Pinned
  <2>4. Users(c)' = Users(c)
    BY <1>1 DEF Users
  <2>5. refcnt'[c] = Cardinality(Users(c)') + Pinned(c)'
    BY <2>1, <2>2, <2>3, <2>4, UsersAreFinite
  <2> QED
    BY <2>5 DEF Counted
<1>3. Cardinality(logged') <= MaxPins
  <2>1. IsFiniteSet(logged) /\ Cardinality(logged) \in Nat
    BY BufFacts, FS_Subset, FS_CardinalityType DEF BufTypes
  <2>2. Cardinality(logged \cup {b}) = IF b \in logged THEN Cardinality(logged) ELSE Cardinality(logged) + 1
    BY <2>1, FS_AddElement
  <2> QED
    BY <1>1, <2>1, <2>2, BufFacts
<1> QED
  BY <1>2, <1>3

LEMMA WriteIsCounted ==
  ASSUME PartsAssumption, BufTypes, \A b \in Buf : Counted(b), Cardinality(logged) <= MaxPins,
         NEW p \in Worker, Buffers!WriteHome(p), NEW b \in Buf, b = buf[p]
  PROVE  (\A c \in Buf : Counted(c)') /\ Cardinality(logged') <= MaxPins
<1>1. /\ logged' = logged \ {b} /\ buf' = buf /\ b \in logged
      /\ refcnt' = [refcnt EXCEPT ![b] = @ - 1]
  BY DEF Buffers!WriteHome
<1>2. ASSUME NEW c \in Buf PROVE Counted(c)'
  <2>1. refcnt[c] \in Nat /\ refcnt'[c] = IF c = b THEN refcnt[c] - 1 ELSE refcnt[c]
    BY <1>1 DEF BufTypes
  <2>2. refcnt[c] = Cardinality(Users(c)) + Pinned(c)
    BY DEF Counted
  <2>3. Pinned(c)' = Pinned(c) - (IF c = b THEN 1 ELSE 0) /\ Pinned(c) \in Nat
    BY <1>1 DEF Pinned
  <2>4. Users(c)' = Users(c)
    BY <1>1 DEF Users
  <2>5. refcnt'[c] = Cardinality(Users(c)') + Pinned(c)'
    BY <2>1, <2>2, <2>3, <2>4, UsersAreFinite
  <2> QED
    BY <2>5 DEF Counted
<1>3. Cardinality(logged') <= MaxPins
  <2>1. IsFiniteSet(logged) /\ Cardinality(logged) \in Nat
    BY BufFacts, FS_Subset, FS_CardinalityType DEF BufTypes
  <2>2. Cardinality(logged \ {b}) = Cardinality(logged) - 1
    BY <1>1, <2>1, FS_RemoveElement
  <2> QED
    BY <1>1, <2>1, <2>2, BufFacts
<1> QED
  BY <1>2, <1>3

LEMMA UnrefIsCounted ==
  ASSUME PartsAssumption, BufTypes, \A b \in Buf : Counted(b),
         NEW p \in Worker, Buffers!Unref(p), NEW b \in Buf, b = buf[p]
  PROVE  \A c \in Buf : Counted(c)'
<1> SUFFICES ASSUME NEW c \in Buf PROVE Counted(c)'
  OBVIOUS
<1>1. buf' = [buf EXCEPT ![p] = None] /\ refcnt' = [refcnt EXCEPT ![b] = @ - 1] /\ logged' = logged
  BY DEF Buffers!Unref
<1>2. refcnt[c] \in Nat /\ refcnt'[c] = IF c = b THEN refcnt[c] - 1 ELSE refcnt[c]
  BY <1>1 DEF BufTypes
<1>3. Cardinality(Users(c)') = Cardinality(Users(c)) - IF c = b THEN 1 ELSE 0
  BY <1>1, OneUserLess
<1>4. refcnt[c] = Cardinality(Users(c)) + Pinned(c) /\ Pinned(c)' = Pinned(c) /\ Pinned(c) \in Nat
  BY <1>1 DEF Counted, Pinned
<1>5. refcnt'[c] = Cardinality(Users(c)') + Pinned(c)'
  BY <1>2, <1>3, <1>4, UsersAreFinite
<1> QED
  BY <1>5 DEF Counted

\* An element of a sequence moves to its front.
Fronted(s, k) == <<s[k]>> \o (SubSeq(s, 1, k - 1) \o SubSeq(s, k + 1, Len(s)))

LEMMA ToTheFront ==
  ASSUME NEW S, NEW s \in Seq(S), NEW k \in 1 .. Len(s)
  PROVE  /\ Fronted(s, k) \in Seq(S) /\ Len(Fronted(s, k)) = Len(s)
         /\ \A i \in 1 .. Len(s) : \E j \in 1 .. Len(s) : Fronted(s, k)[j] = s[i]
<1>1. PICK l \in Nat : l = Len(s)
  OBVIOUS
<1>2. PICK u : u = SubSeq(s, 1, k - 1)
  OBVIOUS
<1>3. u \in Seq(S) /\ Len(u) = k - 1 /\ \A i \in 1 .. k - 1 : u[i] = s[i]
  BY <1>2, SubSeqProperties
<1>4. PICK v : v = SubSeq(s, k + 1, Len(s))
  OBVIOUS
<1>5. v \in Seq(S) /\ Len(v) = l - k /\ \A i \in 1 .. l - k : v[i] = s[k + i]
  BY <1>1, <1>4, SubSeqProperties
<1>6. PICK h : h = <<s[k]>>
  OBVIOUS
<1>7. h \in Seq(S) /\ Len(h) = 1 /\ h[1] = s[k]
  BY <1>6
<1>8. PICK w : w = u \o v
  OBVIOUS
<1>9. /\ w \in Seq(S) /\ Len(w) = l - 1
      /\ \A i \in 1 .. l - 1 : w[i] = IF i < k THEN s[i] ELSE s[i + 1]
  <2>1. /\ w \in Seq(S) /\ Len(w) = Len(u) + Len(v)
        /\ \A i \in 1 .. Len(u) + Len(v) : w[i] = IF i <= Len(u) THEN u[i] ELSE v[i - Len(u)]
    BY <1>3, <1>5, <1>8, ConcatProperties
  <2>2. Len(u) + Len(v) = l - 1
    BY <1>1, <1>3, <1>5
  <2>3. ASSUME NEW i \in 1 .. l - 1 PROVE w[i] = IF i < k THEN s[i] ELSE s[i + 1]
    <3>1. w[i] = IF i <= k - 1 THEN u[i] ELSE v[i - (k - 1)]
      BY <1>3, <2>1, <2>2
    <3>2. CASE i < k
      BY <1>1, <1>3, <3>1, <3>2
    <3>3. CASE ~(i < k)
      <4>1. PICK j \in 1 .. l - k : j = i - (k - 1)
        BY <1>1, <3>3
      <4>2. w[i] = v[j] /\ v[j] = s[k + j] /\ k + j = i + 1
        BY <1>1, <1>5, <3>1, <3>3, <4>1
      <4> QED
        BY <3>3, <4>2
    <3> QED
      BY <3>2, <3>3
  <2> QED
    BY <2>1, <2>2, <2>3
<1>10. PICK t : t = h \o w
  OBVIOUS
<1>11. t = Fronted(s, k)
  BY <1>2, <1>4, <1>6, <1>8, <1>10, ZenonT(40) DEF Fronted
<1>12. /\ t \in Seq(S) /\ Len(t) = l
       /\ \A i \in 1 .. l : t[i] = IF i = 1 THEN s[k] ELSE w[i - 1]
  <2>1. /\ t \in Seq(S) /\ Len(t) = Len(h) + Len(w)
        /\ \A i \in 1 .. Len(h) + Len(w) : t[i] = IF i <= Len(h) THEN h[i] ELSE w[i - Len(h)]
    <3>1. h \in Seq(S) /\ w \in Seq(S)
      BY <1>7, <1>9
    <3> QED
      BY <3>1, <1>10, ConcatProperties, ZenonT(40)
  <2>2. Len(h) + Len(w) = l
    BY <1>1, <1>7, <1>9
  <2>3. ASSUME NEW i \in 1 .. l PROVE t[i] = IF i = 1 THEN s[k] ELSE w[i - 1]
    <3>1. t[i] = IF i <= 1 THEN h[i] ELSE w[i - 1]
      BY <1>7, <2>1, <2>2
    <3> QED
      BY <1>7, <3>1
  <2> QED
    BY <2>1, <2>2, <2>3
<1>13. ASSUME NEW i \in 1 .. l PROVE \E j \in 1 .. l : t[j] = s[i]
  <2>1. CASE i = k
    BY <1>1, <1>12, <2>1
  <2>2. CASE i < k
    <3>1. PICK j \in 1 .. l : j = i + 1
      BY <1>1, <2>2
    <3>2. i \in 1 .. l - 1 /\ j # 1 /\ j - 1 = i
      BY <1>1, <2>2, <3>1
    <3>3. t[j] = w[i] /\ w[i] = s[i]
      BY <1>9, <1>12, <2>2, <3>2
    <3> QED
      BY <3>3
  <2>3. CASE i > k
    <3>1. PICK j \in 1 .. l - 1 : j = i - 1
      BY <1>1, <2>3
    <3>2. i # 1 /\ ~(j < k) /\ j + 1 = i
      BY <1>1, <2>3, <3>1
    <3>3. t[i] = w[j] /\ w[j] = s[i]
      BY <1>9, <1>12, <3>1, <3>2
    <3> QED
      BY <3>3
  <2> QED
    BY <1>1, <2>1, <2>2, <2>3
<1> QED
  BY <1>1, <1>11, <1>12, <1>13

LEMMA ListIsKept ==
  ASSUME EachOnce(lru), NEW p \in Worker, Buffers!Unref(p)
  PROVE  EachOnce(lru')
<1>1. PICK k \in 1 .. Len(lru) :
        lru[k] = buf[p] /\ lru' = IF refcnt[buf[p]] = 1 THEN <<buf[p]>> \o Buffers!RemoveAt(lru, k) ELSE lru
  BY DEF Buffers!Unref
<1>2. CASE refcnt[buf[p]] = 1
  <2>1. lru' = Fronted(lru, k)
    BY <1>1, <1>2 DEF Buffers!RemoveAt, Fronted
  <2>2. /\ lru' \in Seq(Buf) /\ Len(lru') = Len(lru)
        /\ \A i \in 1 .. Len(lru) : \E j \in 1 .. Len(lru') : lru'[j] = lru[i]
    <3>1. lru \in Seq(Buf) /\ k \in 1 .. Len(lru)
      BY DEF EachOnce
    <3>2. /\ Fronted(lru, k) \in Seq(Buf) /\ Len(Fronted(lru, k)) = Len(lru)
          /\ \A i \in 1 .. Len(lru) : \E j \in 1 .. Len(lru) : Fronted(lru, k)[j] = lru[i]
      BY <3>1, ToTheFront
    <3> QED
      BY <2>1, <3>2
  <2> QED
    BY <2>2 DEF EachOnce
<1>3. CASE refcnt[buf[p]] # 1
  BY <1>1, <1>3
<1> QED
  BY <1>2, <1>3

-----------------------------------------------------------------------------
(* Together, and what follows *)

LEMMA BufStep ==
  ASSUME PartsAssumption, BufInv, [Buffers!Next]_(Buffers!vars)
  PROVE  BufInv'
<1>1. BufShape /\ BufTypes /\ EachOnce(lru) /\ Cardinality(logged) <= MaxPins
  BY DEF BufInv, BufShape
<1>2. \A b \in Buf : Counted(b)
  BY DEF BufInv
<1>3. CASE UNCHANGED Buffers!vars
  <2>1. UNCHANGED <<lru, blockno, valid, refcnt, data, owner, logged>>
    BY <1>3 DEF Buffers!vars, Buffers!cache
  <2>2. UNCHANGED <<disk, pc, want, buf, asleep, latest>>
    BY <1>3 DEF Buffers!vars
  <2>3. BufTypes'
    BY <2>1, <2>2, <1>1 DEF BufTypes
  <2>4. \A p \in Worker : Caller(p)'
    BY <2>1, <2>2, <1>1 DEF BufShape, Caller
  <2>5. \A b \in Buf : Shows(b)'
    BY <2>1, <2>2, <1>1 DEF BufShape, Shows
  <2>6. \A b \in Buf : Counted(b)'
    BY <2>1, <2>2, <1>2 DEF Counted, Users, Pinned
  <2>7. \A n \in AllBlocks : Stays(n)'
    BY <2>1, <2>2, <1>1 DEF BufShape, Stays
  <2> QED
    BY <1>1, <2>1, <2>3, <2>4, <2>5, <2>6, <2>7 DEF BufInv
<1>4. ASSUME NEW p \in Worker, NEW n \in AllBlocks, Buffers!GetCached(p, n) PROVE BufInv'
  <2>1. BufShape'
    BY <1>1, <1>4, CachedIsFree
  <2>2. PICK b \in Buf : pc[p] = "user" /\ Buffers!Use(p, b, n)
    BY <1>4 DEF Buffers!GetCached, Buffers!Cached
  <2>3. lru' = lru /\ logged' = logged /\ buf[p] = None
    BY <1>1, <1>4, <2>2 DEF Buffers!GetCached, BufShape, Caller
  <2>4. \A c \in Buf : Counted(c)'
    BY <1>1, <1>2, <2>2, <2>3, UseIsCounted
  <2> QED
    BY <1>1, <2>1, <2>3, <2>4 DEF BufInv, BufShape
<1>5. ASSUME NEW p \in Worker, NEW n \in AllBlocks, Buffers!Recycle(p, n) PROVE BufInv'
  <2>1. BufShape'
    BY <1>1, <1>2, <1>5, RecycledIsFree
  <2>2. PICK b \in Buf : pc[p] = "user" /\ Buffers!Use(p, b, n)
    <3>1. PICK k \in 1 .. Len(lru) : pc[p] = "user" /\ Buffers!Use(p, lru[k], n)
      BY <1>5 DEF Buffers!Recycle, Buffers!Unused
    <3>2. lru[k] \in Buf
      BY <1>1 DEF EachOnce
    <3> QED
      BY <3>1, <3>2
  <2>3. lru' = lru /\ logged' = logged /\ buf[p] = None
    BY <1>1, <1>5, <2>2 DEF Buffers!Recycle, BufShape, Caller
  <2>4. \A c \in Buf : Counted(c)'
    BY <1>1, <1>2, <2>2, <2>3, UseIsCounted
  <2> QED
    BY <1>1, <2>1, <2>3, <2>4 DEF BufInv, BufShape
<1>6. ASSUME NEW p \in Worker, UNCHANGED <<lru, refcnt, logged, buf>> PROVE
        EachOnce(lru') /\ (\A b \in Buf : Counted(b)') /\ Cardinality(logged') <= MaxPins
  BY <1>1, <1>2, <1>6 DEF Counted, Users, Pinned
<1>7. ASSUME NEW p \in Worker, Buffers!Acquire(p) PROVE BufInv'
  <2>1. UNCHANGED <<lru, refcnt, logged, buf>>
    BY <1>7 DEF Buffers!Acquire
  <2> QED
    BY <1>1, <1>6, <1>7, <2>1, AcquireIsKept DEF BufInv, BufShape
<1>8. ASSUME NEW p \in Worker, Buffers!DiskRead(p) PROVE BufInv'
  <2>1. UNCHANGED <<lru, refcnt, logged, buf>>
    BY <1>8 DEF Buffers!DiskRead
  <2> QED
    BY <1>1, <1>6, <1>8, <2>1, DiskReadIsKept DEF BufInv, BufShape
<1>9. ASSUME NEW p \in Worker, Buffers!ReleaseSleep(p) PROVE BufInv'
  <2>1. UNCHANGED <<lru, refcnt, logged, buf>>
    BY <1>9 DEF Buffers!ReleaseSleep
  <2> QED
    BY <1>1, <1>6, <1>9, <2>1, ReleaseIsKept DEF BufInv, BufShape
<1>10. ASSUME NEW p \in Worker, pc[p] # "user" PROVE buf[p] \in Buf
  BY <1>1, <1>10 DEF BufShape, BufTypes, Caller
<1>11. ASSUME NEW p \in Worker, NEW v \in Value, Buffers!Store(p, v) PROVE BufInv'
  <2>1. buf[p] \in Buf /\ lru' = lru
    BY <1>10, <1>11 DEF Buffers!Store
  <2>2. (\A c \in Buf : Counted(c)') /\ Cardinality(logged') <= MaxPins
    BY <1>1, <1>2, <1>11, <2>1, StoreIsCounted
  <2> QED
    BY <1>1, <1>11, <2>1, <2>2, StoreIsKept DEF BufInv, BufShape
<1>12. ASSUME NEW p \in Worker, Buffers!WriteHome(p) PROVE BufInv'
  <2>1. buf[p] \in Buf /\ lru' = lru
    BY <1>10, <1>12 DEF Buffers!WriteHome
  <2>2. (\A c \in Buf : Counted(c)') /\ Cardinality(logged') <= MaxPins
    BY <1>1, <1>2, <1>12, <2>1, WriteIsCounted
  <2> QED
    BY <1>1, <1>2, <1>12, <2>1, <2>2, WriteHomeIsKept DEF BufInv, BufShape
<1>13. ASSUME NEW p \in Worker, Buffers!Unref(p) PROVE BufInv'
  <2>1. buf[p] \in Buf /\ logged' = logged
    BY <1>10, <1>13 DEF Buffers!Unref
  <2>2. \A c \in Buf : Counted(c)'
    BY <1>1, <1>2, <1>13, <2>1, UnrefIsCounted
  <2>3. EachOnce(lru')
    BY <1>1, <1>13, ListIsKept
  <2> QED
    BY <1>1, <1>2, <1>13, <2>1, <2>2, <2>3, UnrefIsKept DEF BufInv, BufShape
<1> QED
  BY <1>3, <1>4, <1>5, <1>7, <1>8, <1>9, <1>11, <1>12, <1>13 DEF Buffers!Next, AllBlocks

\* There is a buffer to recycle for everybody who may call bget().
LEMMA BufferToRecycle ==
  ASSUME PartsAssumption, BufInv, NEW p \in Worker, pc[p] = "user"
  PROVE  Buffers!Unused # {}
<1> SUFFICES ASSUME Buffers!Unused = {} PROVE FALSE
  OBVIOUS
<1> DEFINE W == Worker \ {p}
           f == [q \in W |-> buf[q]]
           T == {buf[q] : q \in W}
<1>1. IsFiniteSet(W) /\ Cardinality(W) = Cardinality(Worker) - 1 /\ Cardinality(Worker) \in Nat
  BY BufFacts, FS_RemoveElement, FS_CardinalityType
<1>2. f \in Surjection(W, T)
  BY DEF Surjection
<1>3. IsFiniteSet(T) /\ Cardinality(T) <= Cardinality(W)
  BY <1>1, <1>2, FS_Surjection
<1>4. IsFiniteSet(logged) /\ Cardinality(logged) \in Nat /\ Cardinality(logged) <= MaxPins
  BY BufFacts, FS_Subset, FS_CardinalityType DEF BufInv, BufTypes
<1>5. buf[p] = None
  BY DEF BufInv, Caller
<1>6. ASSUME NEW b \in Buf, b \notin logged PROVE b \in T
  <2>1. PICK k \in 1 .. Len(lru) : lru[k] = b
    BY DEF BufInv, EachOnce
  <2>2. refcnt[b] # 0
    BY <2>1 DEF Buffers!Unused
  <2>3. refcnt[b] = Cardinality(Users(b))
    BY <1>6, UsersAreFinite DEF BufInv, Counted, Pinned
  <2>4. Users(b) # {}
    BY <2>2, <2>3, FS_EmptySet
  <2> QED
    BY <1>5, <2>4, BufFacts DEF Users
<1> HIDE DEF T, W
<1>7. Buf \subseteq logged \cup T
  BY <1>6
<1>8. /\ IsFiniteSet(logged \cup T)
      /\ Cardinality(logged \cup T) = Cardinality(logged) + Cardinality(T) - Cardinality(logged \cap T)
  BY <1>3, <1>4, FS_Union
<1>9. Cardinality(logged \cap T) \in Nat /\ Cardinality(T) \in Nat
  BY <1>3, <1>4, FS_Intersection, FS_CardinalityType
<1>10. Cardinality(Buf) <= Cardinality(logged \cup T) /\ Cardinality(Buf) \in Nat
  BY <1>7, <1>8, BufFacts, FS_Subset, FS_CardinalityType
<1> QED
  BY <1>1, <1>3, <1>4, <1>8, <1>9, <1>10, BufFacts

LEMMA BufSafety ==
  ASSUME PartsAssumption, BufInv
  PROVE  Buffers!TypeOK /\ Buffers!ReadsSeeStores /\ Buffers!BuffersCounted /\ Buffers!NoLostWakeup
<1>1. Buffers!TypeOK
  <2>1. Len(lru) = Buffers!Cardinality(Buf)
    BY BufCounts DEF BufInv, EachOnce
  <2>2. Buffers!ToSet(lru) = Buf
    <3>1. lru \in Seq(Buf) /\ DOMAIN lru = 1 .. Len(lru)
      BY DEF BufInv, EachOnce
    <3> QED
      BY <3>1 DEF BufInv, EachOnce, Buffers!ToSet
  <2> QED
    BY <2>1, <2>2 DEF BufInv, BufTypes, Buffers!TypeOK, AllBlocks
<1>2. Buffers!ReadsSeeStores
  <2>1. ASSUME NEW n \in AllBlocks PROVE Buffers!Cardinality(Buffers!Cached(n)) <= 1
    <3>1. CASE Buffers!Cached(n) = {}
      BY <3>1, BufCounts, FS_EmptySet
    <3>2. CASE Buffers!Cached(n) # {}
      <4>1. PICK b \in Buf : blockno[b] = n
        BY <3>2 DEF Buffers!Cached
      <4>2. Buffers!Cached(n) = {b}
        BY <4>1, BufFacts DEF BufInv, Shows, Buffers!Cached
      <4> QED
        BY <4>2, BufCounts, FS_Singleton, SMTT(30)
    <3> QED
      BY <3>1, <3>2
  <2>2. ASSUME NEW p \in Worker, pc[p] = "hold"
        PROVE  owner[buf[p]] = p /\ blockno[buf[p]] = want[p] /\ data[buf[p]] = latest[want[p]]
    <3>1. BufShape
      BY DEF BufInv, BufShape
    <3> QED
      BY <2>2, <3>1, HolderHas
  <2> QED
    BY <2>1, <2>2 DEF Buffers!ReadsSeeStores, AllBlocks
<1>3. Buffers!BuffersCounted
  <2>1. \A b \in Buf : refcnt[b] = Buffers!Cardinality({q \in Worker : buf[q] = b})
                                   + (IF b \in logged THEN 1 ELSE 0)
    BY BufCounts DEF BufInv, Counted, Users, Pinned
  <2> QED
    BY <2>1, BufferToRecycle DEF Buffers!BuffersCounted
<1>4. Buffers!NoLostWakeup
  BY DEF BufInv, BufTypes, Caller, Buffers!NoLostWakeup
<1> QED
  BY <1>1, <1>2, <1>3, <1>4

-----------------------------------------------------------------------------
(* Open files: whoever is between two steps of a call has what the call    *)
(* has taken, and each reference is somebody's.                            *)

ShortSeq(S) == {<<>>} \cup {<<f>> : f \in S} \cup {<<f, g>> : f \in S, g \in S}

FileTypes ==
  /\ ref \in [Files!File -> Nat] /\ type \in [Files!File -> Files!Types]
  /\ ofile \in [Pair -> [Files!Fd -> Files!File \cup {None}]]
  /\ readopen \subseteq Pipe /\ writeopen \subseteq Pipe /\ inodes \in Nat
  /\ pc \in [Pair -> {"unused", "user", "open", "pipe", "dup", "fork", "exit"}]
  /\ arg \in [Pair -> Files!File \cup Pair \cup {None}]
  /\ toClose \in [Pair -> ShortSeq(Files!File)] /\ release \in [Pair -> Files!Types]

\* What a process in the middle of a call has; a slot of the table that no
\* fork() is filling has no open file.
FileCaller(p) ==
  /\ pc[p] = "pipe" => /\ arg[p] \in Files!File /\ type[arg[p]] = <<"none">>
                       /\ \A q \in Pair : pc[q] = "pipe" /\ arg[q] = arg[p] => q = p
  /\ pc[p] = "dup" => arg[p] \in Files!File /\ \E d \in Files!Fd : ofile[p][d] = arg[p]
  /\ pc[p] = "fork" =>
       /\ arg[p] \in Pair /\ pc[arg[p]] = "unused"
       /\ \A q \in Pair : pc[q] = "fork" /\ arg[q] = arg[p] => q = p
       /\ \A d \in Files!Fd : ofile[arg[p]][d] \in {None, ofile[p][d]}
  /\ pc[p] = "unused" /\ (\A q \in Pair : pc[q] = "fork" => arg[q] # p) =>
       \A d \in Files!Fd : ofile[p][d] = None

FreeIsUntyped == \A f \in Files!File : ref[f] = 0 => type[f] = <<"none">>

\* The descriptors for f, and the calls that have it in hand.
SlotsFor(f) == {s \in Pair \X Files!Fd : ofile[s[1]][s[2]] = f}
PipesWith(f) == {p \in Pair : pc[p] = "pipe" /\ arg[p] = f}
DupsOf(f) == {p \in Pair : pc[p] = "dup" /\ arg[p] = f}
Copies(s, f) == Cardinality({k \in 1 .. Len(s) : s[k] = f})
Closing(f) == [p \in Pair |-> Copies(toClose[p], f)]

FileCounted(f) ==
  ref[f] + Cardinality(DupsOf(f))
    = Cardinality(SlotsFor(f)) + (Cardinality(PipesWith(f)) + Total(Closing(f), Pair))

\* What is of some type, and who is about to release it.
ReleasersOf(t) == {p \in Pair : release[p] = t}
FilesOf(t) == {f \in Files!File : type[f] = t}
Opening == {p \in Pair : pc[p] = "open"}

EndIsCounted(t, isOpen) ==
  Cardinality(FilesOf(t)) + Cardinality(ReleasersOf(t)) = (IF isOpen THEN 1 ELSE 0)
EndsCounted ==
  \A q \in Pipe : EndIsCounted(<<"r", q>>, q \in readopen) /\ EndIsCounted(<<"w", q>>, q \in writeopen)
InodesCounted ==
  inodes = Cardinality(FilesOf(<<"inode">>)) + Cardinality(ReleasersOf(<<"inode">>))
             + Cardinality(Opening)

FileInv ==
  /\ FileTypes
  /\ \A p \in Pair : FileCaller(p)
  /\ FreeIsUntyped
  /\ \A f \in Files!File : FileCounted(f)
  /\ EndsCounted /\ InodesCounted

LEMMA FileFacts ==
  ASSUME PartsAssumption
  PROVE  /\ IsFiniteSet(Pair) /\ IsFiniteSet(Files!File) /\ IsFiniteSet(Files!Fd)
         /\ Files!File \subseteq Nat /\ Files!Fd \subseteq Nat /\ None \notin Files!File
<1>1. \A S : Files!IsFiniteSet(S) <=> IsFiniteSet(S)
  BY DEF Files!IsFiniteSet, IsFiniteSet
<1>2. NumFile \in Nat /\ NumFd \in Nat \ {0} /\ IsFiniteSet(Pair) /\ None \notin 1 .. NumFile
  BY <1>1 DEF PartsAssumption, Files!FileAssumption
<1>3. /\ NumFile \in Int /\ NumFd - 1 \in Int /\ 0 \in Int /\ 1 \in Int
  BY <1>2
<1>4. IsFiniteSet(1 .. NumFile) /\ IsFiniteSet(0 .. NumFd - 1)
  BY <1>3, FS_Interval
<1> QED
  BY <1>2, <1>4 DEF Files!File, Files!Fd

LEMMA FileCounts == \A S : Files!Cardinality(S) = Cardinality(S)
BY DEF Files!Cardinality, Cardinality, Files!IsFiniteSet, IsFiniteSet

LEMMA FileTotals == ASSUME NEW f, NEW S PROVE Files!Total(f, S) = Total(f, S)
BY DEF Files!Total, Total, Files!Things, Things, Files!Cardinality, Cardinality, Files!IsFiniteSet, IsFiniteSet

LEMMA LeastOf == ASSUME NEW S, S \subseteq Nat, S # {} PROVE Files!Min(S) \in S
BY LeastOne DEF Files!Min

\* The table and the descriptors have their free entries first.
LEMMA LowestFree ==
  ASSUME PartsAssumption, FileTypes, NEW p \in Pair
  PROVE  /\ Files!FreeFiles # {} =>
              Files!Min(Files!FreeFiles) \in Files!File /\ ref[Files!Min(Files!FreeFiles)] = 0
         /\ Files!FreeFds(p) # {} =>
              Files!Min(Files!FreeFds(p)) \in Files!Fd /\ ofile[p][Files!Min(Files!FreeFds(p))] = None
         /\ Files!Used(p) # {} =>
              Files!Min(Files!Used(p)) \in Files!Fd /\ ofile[p][Files!Min(Files!Used(p))] # None
<1>1. Files!FreeFiles \subseteq Nat /\ Files!FreeFds(p) \subseteq Nat /\ Files!Used(p) \subseteq Nat
  BY FileFacts DEF Files!FreeFiles, Files!FreeFds, Files!Used
<1>2. Files!FreeFiles # {} => Files!Min(Files!FreeFiles) \in Files!FreeFiles
  BY <1>1, LeastOf
<1>3. Files!FreeFds(p) # {} => Files!Min(Files!FreeFds(p)) \in Files!FreeFds(p)
  BY <1>1, LeastOf
<1>4. Files!Used(p) # {} => Files!Min(Files!Used(p)) \in Files!Used(p)
  BY <1>1, LeastOf
<1> QED
  BY <1>2, <1>3, <1>4 DEF Files!FreeFiles, Files!FreeFds, Files!Used

-----------------------------------------------------------------------------
(* Sequences of at most two files.                                         *)

LEMMA CopiesOfFew ==
  ASSUME NEW f
  PROVE  /\ Copies(<<>>, f) = 0
         /\ \A g : Copies(<<g>>, f) = IF g = f THEN 1 ELSE 0
         /\ \A g, h : Copies(<<g, h>>, f)
                        = (IF g = f THEN 1 ELSE 0) + (IF h = f THEN 1 ELSE 0)
<1>1. Copies(<<>>, f) = 0
  <2>1. {k \in 1 .. Len(<<>>) : <<>>[k] = f} = {}
    OBVIOUS
  <2> QED
    BY <2>1, FS_EmptySet DEF Copies
<1>2. ASSUME NEW g PROVE Copies(<<g>>, f) = IF g = f THEN 1 ELSE 0
  <2>1. {k \in 1 .. Len(<<g>>) : <<g>>[k] = f} = IF g = f THEN {1} ELSE {}
    OBVIOUS
  <2> QED
    BY <2>1, FS_EmptySet, FS_Singleton DEF Copies
<1>3. ASSUME NEW g, NEW h
      PROVE  Copies(<<g, h>>, f) = (IF g = f THEN 1 ELSE 0) + (IF h = f THEN 1 ELSE 0)
  <2> DEFINE A == {k \in 1 .. Len(<<g, h>>) : <<g, h>>[k] = f}
  <2>1. \A k : k \in A <=> (k = 1 /\ g = f) \/ (k = 2 /\ h = f)
    <3>1. Len(<<g, h>>) = 2 /\ <<g, h>>[1] = g /\ <<g, h>>[2] = h /\ 1 .. 2 = {1, 2}
      OBVIOUS
    <3>2. A = {k \in {1, 2} : <<g, h>>[k] = f}
      BY <3>1
    <3> QED
      BY <3>1, <3>2
  <2> HIDE DEF A
  <2>2. g = f /\ h = f => A = 1 .. 2
    <3>1. \A k : k \in 1 .. 2 <=> k = 1 \/ k = 2
      OBVIOUS
    <3>2. g = f /\ h = f => \A k : k \in A <=> k \in 1 .. 2
      BY <2>1, <3>1, Zenon
    <3> QED
      BY <3>2, Zenon
  <2>5. g = f /\ h # f => A = {1}
    BY <2>1
  <2>6. g # f /\ h = f => A = {2}
    BY <2>1
  <2>7. g # f /\ h # f => A = {}
    BY <2>1
  <2>3. Cardinality(1 .. 2) = 2
    <3>1. PICK m \in Int, n \in Int : m = 1 /\ n = 2
      OBVIOUS
    <3>2. Cardinality(m .. n) = IF m > n THEN 0 ELSE n - m + 1
      BY FS_Interval
    <3>3. Cardinality(m .. n) = 2
      BY <3>1, <3>2
    <3> QED
      BY <3>1, <3>3
  <2>8. Cardinality({1}) = 1 /\ Cardinality({2}) = 1
    BY FS_Singleton
  <2>4. Cardinality(A) = (IF g = f THEN 1 ELSE 0) + (IF h = f THEN 1 ELSE 0)
    BY <2>2, <2>3, <2>5, <2>6, <2>7, <2>8, FS_EmptySet
  <2> QED
    BY <2>4 DEF Copies, A
<1> QED
  BY <1>1, <1>2, <1>3

LEMMA FirstOfFew ==
  ASSUME NEW S, NEW s \in ShortSeq(S), s # <<>>
  PROVE  /\ Head(s) \in S /\ Tail(s) \in ShortSeq(S)
         /\ \A f : Copies(s, f) = Copies(Tail(s), f) + (IF Head(s) = f THEN 1 ELSE 0)
<1>1. CASE \E g \in S : s = <<g>>
  <2>1. PICK g \in S : s = <<g>>
    BY <1>1
  <2>2. Head(s) = g /\ Tail(s) = <<>>
    BY <2>1
  <2>3. \A f : Copies(s, f) = Copies(Tail(s), f) + (IF g = f THEN 1 ELSE 0)
    BY <2>1, <2>2, CopiesOfFew
  <2> QED
    BY <2>2, <2>3 DEF ShortSeq
<1>2. CASE \E g, h \in S : s = <<g, h>>
  <2>1. PICK g \in S, h \in S : s = <<g, h>>
    BY <1>2
  <2>2. Head(s) = g /\ Tail(s) = <<h>>
    BY <2>1
  <2>3. \A f : Copies(s, f) = Copies(Tail(s), f) + (IF g = f THEN 1 ELSE 0)
    <3> TAKE f
    <3>1. /\ Copies(s, f) = (IF g = f THEN 1 ELSE 0) + (IF h = f THEN 1 ELSE 0)
          /\ Copies(Tail(s), f) = IF h = f THEN 1 ELSE 0
      BY <2>1, <2>2, CopiesOfFew
    <3> QED
      BY <3>1
  <2> QED
    BY <2>2, <2>3 DEF ShortSeq
<1> QED
  BY <1>1, <1>2 DEF ShortSeq

LEMMA CopiesAreNat == ASSUME NEW S, NEW s \in ShortSeq(S), NEW f PROVE Copies(s, f) \in Nat
<1>1. CASE s = <<>>
  BY <1>1, CopiesOfFew
<1>2. CASE \E g \in S : s = <<g>>
  <2>1. PICK g \in S : s = <<g>>
    BY <1>2
  <2>2. \A h : Copies(<<h>>, f) = IF h = f THEN 1 ELSE 0
    BY CopiesOfFew, Zenon
  <2>3. Copies(s, f) = IF g = f THEN 1 ELSE 0
    BY <2>1, <2>2
  <2> QED
    BY <2>3
<1>3. CASE \E g, h \in S : s = <<g, h>>
  <2>1. PICK g \in S, h \in S : s = <<g, h>>
    BY <1>3
  <2>2. Copies(s, f) = (IF g = f THEN 1 ELSE 0) + (IF h = f THEN 1 ELSE 0)
    BY <2>1, CopiesOfFew
  <2> QED
    BY <2>2
<1> QED
  BY <1>1, <1>2, <1>3 DEF ShortSeq

-----------------------------------------------------------------------------
(* The counts are numbers, and a file in hand is not free.                 *)

LEMMA FileNumbers ==
  ASSUME PartsAssumption, FileTypes, NEW f \in Files!File
  PROVE  /\ Cardinality(SlotsFor(f)) \in Nat /\ Cardinality(PipesWith(f)) \in Nat
         /\ Cardinality(DupsOf(f)) \in Nat /\ Total(Closing(f), Pair) \in Nat
         /\ ref[f] \in Nat
<1>1. IsFiniteSet(Pair \X Files!Fd) /\ IsFiniteSet(Pair)
  BY FileFacts, FS_Product
<1>2. SlotsFor(f) \subseteq Pair \X Files!Fd /\ PipesWith(f) \subseteq Pair /\ DupsOf(f) \subseteq Pair
  BY DEF SlotsFor, PipesWith, DupsOf
<1>3. \A p \in Pair : Closing(f)[p] \in Nat
  BY CopiesAreNat DEF Closing, FileTypes
<1>4. Total(Closing(f), Pair) \in Nat
  BY <1>1, <1>3, ThingsAreFinite
<1>5. Cardinality(SlotsFor(f)) \in Nat /\ Cardinality(PipesWith(f)) \in Nat
      /\ Cardinality(DupsOf(f)) \in Nat
  BY <1>1, <1>2, CountIsNat
<1> QED
  BY <1>4, <1>5 DEF FileTypes

LEMMA DupsHaveSlots ==
  ASSUME PartsAssumption, FileTypes, \A p \in Pair : FileCaller(p), NEW f \in Files!File
  PROVE  Cardinality(DupsOf(f)) <= Cardinality(SlotsFor(f))
<1> DEFINE w == [p \in DupsOf(f) |-> <<p, CHOOSE d \in Files!Fd : ofile[p][d] = f>>]
<1>1. ASSUME NEW p \in DupsOf(f) PROVE w[p] \in SlotsFor(f) /\ w[p][1] = p
  <2>1. p \in Pair /\ \E d \in Files!Fd : ofile[p][d] = f
    BY DEF DupsOf, FileCaller
  <2>2. PICK e : e = CHOOSE d \in Files!Fd : ofile[p][d] = f
    OBVIOUS
  <2>3. e \in Files!Fd /\ ofile[p][e] = f
    BY <2>1, <2>2
  <2>4. w[p] = <<p, e>>
    BY <2>2
  <2> QED
    BY <2>1, <2>3, <2>4 DEF SlotsFor
<1> HIDE DEF w
<1>2. w \in [DupsOf(f) -> SlotsFor(f)]
  <2>1. w = [p \in DupsOf(f) |-> w[p]]
    BY DEF w
  <2> QED
    BY <1>1, <2>1
<1>3. \A p, q \in DupsOf(f) : w[p] = w[q] => p = q
  BY <1>1
<1>4. IsFiniteSet(SlotsFor(f))
  <2>1. IsFiniteSet(Pair \X Files!Fd) /\ SlotsFor(f) \subseteq Pair \X Files!Fd
    BY FileFacts, FS_Product DEF SlotsFor
  <2> QED
    BY <2>1, CountIsNat
<1> QED
  BY <1>2, <1>3, <1>4, NoMoreThan

LEMMA HeldIsCounted ==
  ASSUME PartsAssumption, FileInv, NEW f \in Files!File
  PROVE  /\ Cardinality(PipesWith(f)) + Total(Closing(f), Pair) <= ref[f]
         /\ \A p \in Pair : toClose[p] # <<>> /\ Head(toClose[p]) = f => ref[f] >= 1
         /\ \A p \in Pair : pc[p] = "pipe" /\ arg[p] = f => ref[f] >= 1
<1>1. FileTypes /\ (\A p \in Pair : FileCaller(p)) /\ FileCounted(f)
  BY DEF FileInv
<1>2. /\ Cardinality(SlotsFor(f)) \in Nat /\ Cardinality(PipesWith(f)) \in Nat
      /\ Cardinality(DupsOf(f)) \in Nat /\ Total(Closing(f), Pair) \in Nat
      /\ ref[f] \in Nat /\ Cardinality(DupsOf(f)) <= Cardinality(SlotsFor(f))
  BY <1>1, FileNumbers, DupsHaveSlots
<1>3. Cardinality(PipesWith(f)) + Total(Closing(f), Pair) <= ref[f]
  BY <1>1, <1>2 DEF FileCounted
<1>4. ASSUME NEW p \in Pair, toClose[p] # <<>>, Head(toClose[p]) = f
      PROVE  Total(Closing(f), Pair) >= 1
  <2>1. Closing(f)[p] >= 1
    <3>1. toClose[p] \in ShortSeq(Files!File)
      BY <1>1 DEF FileTypes
    <3>2. Copies(toClose[p], f) = Copies(Tail(toClose[p]), f) + 1 /\ Copies(Tail(toClose[p]), f) \in Nat
      BY <1>4, <3>1, FirstOfFew, CopiesAreNat
    <3> QED
      BY <3>2 DEF Closing
  <2>2. \A q \in Pair : Closing(f)[q] \in Nat
    BY <1>1, CopiesAreNat DEF Closing, FileTypes
  <2>3. Closing(f)[p] <= Total(Closing(f), Pair)
    BY <2>2, FileFacts, TotalRemoves
  <2> QED
    BY <1>2, <2>1, <2>2, <2>3
<1>5. ASSUME NEW p \in Pair, pc[p] = "pipe", arg[p] = f PROVE Cardinality(PipesWith(f)) >= 1
  <2>1. p \in PipesWith(f) /\ PipesWith(f) \subseteq Pair
    BY <1>5 DEF PipesWith
  <2>2. IsFiniteSet(PipesWith(f)) /\ PipesWith(f) # {}
    BY <2>1, FileFacts, CountIsNat
  <2>3. Cardinality(PipesWith(f)) # 0
    BY <2>2, FS_EmptySet
  <2> QED
    BY <1>2, <2>3
<1> QED
  BY <1>2, <1>3, <1>4, <1>5

-----------------------------------------------------------------------------
(* What the counts become when one process or one file changes.            *)

NSlots(f) == Cardinality(SlotsFor(f))
NPipes(f) == Cardinality(PipesWith(f))
NDups(f) == Cardinality(DupsOf(f))
NClosing(f) == Total(Closing(f), Pair)
NFiles(t) == Cardinality(FilesOf(t))
NReleasers(t) == Cardinality(ReleasersOf(t))
NOpening == Cardinality(Opening)
One(b) == IF b THEN 1 ELSE 0

LEMMA OneIs == ASSUME NEW b \in BOOLEAN PROVE One(b) \in {0, 1} /\ (b => One(b) = 1) /\ (~b => One(b) = 0)
BY DEF One

LEMMA CountsAreNat ==
  ASSUME PartsAssumption, FileTypes, NEW f \in Files!File
  PROVE  NSlots(f) \in Nat /\ NPipes(f) \in Nat /\ NDups(f) \in Nat /\ NClosing(f) \in Nat
BY FileNumbers DEF NSlots, NPipes, NDups, NClosing

LEMMA SlotsMove ==
  ASSUME PartsAssumption, NEW p \in Pair, NEW d \in Files!Fd, NEW f,
         \A q \in Pair, e \in Files!Fd : q # p \/ e # d => ofile'[q][e] = ofile[q][e]
  PROVE  /\ NSlots(f)' + One(ofile[p][d] = f) = NSlots(f) + One(ofile'[p][d] = f)
         /\ NSlots(f) \in Nat /\ NSlots(f)' \in Nat
<1>1. IsFiniteSet(Pair \X Files!Fd)
  BY FileFacts, FS_Product
<1>2. SlotsFor(f) \subseteq Pair \X Files!Fd /\ SlotsFor(f)' \subseteq Pair \X Files!Fd
  BY DEF SlotsFor, Files!Fd
<1>3. \A s \in Pair \X Files!Fd : s # <<p, d>> => (s \in SlotsFor(f) <=> s \in SlotsFor(f)')
  BY DEF SlotsFor, Files!Fd
<1>4. /\ Cardinality(SlotsFor(f)') + Among(<<p, d>>, SlotsFor(f))
           = Cardinality(SlotsFor(f)) + Among(<<p, d>>, SlotsFor(f)')
      /\ Cardinality(SlotsFor(f)) \in Nat /\ Cardinality(SlotsFor(f)') \in Nat
  BY <1>1, <1>2, <1>3, CountChanges
<1>5. /\ Among(<<p, d>>, SlotsFor(f)) = One(ofile[p][d] = f)
      /\ Among(<<p, d>>, SlotsFor(f)') = One(ofile'[p][d] = f)
  BY DEF Among, SlotsFor, One, Files!Fd
<1> QED
  BY <1>4, <1>5 DEF NSlots

LEMMA SlotsStay == ASSUME UNCHANGED ofile, NEW f PROVE NSlots(f)' = NSlots(f)
BY DEF NSlots, SlotsFor, Files!Fd

LEMMA CallsMove ==
  ASSUME PartsAssumption, NEW p \in Pair,
         \A q \in Pair : q # p => pc'[q] = pc[q] /\ arg'[q] = arg[q]
  PROVE  /\ \A f : /\ NPipes(f)' + One(pc[p] = "pipe" /\ arg[p] = f)
                        = NPipes(f) + One(pc'[p] = "pipe" /\ arg'[p] = f)
                   /\ NPipes(f) \in Nat /\ NPipes(f)' \in Nat
         /\ \A f : /\ NDups(f)' + One(pc[p] = "dup" /\ arg[p] = f)
                        = NDups(f) + One(pc'[p] = "dup" /\ arg'[p] = f)
                   /\ NDups(f) \in Nat /\ NDups(f)' \in Nat
         /\ NOpening' + One(pc[p] = "open") = NOpening + One(pc'[p] = "open")
         /\ NOpening \in Nat /\ NOpening' \in Nat
<1>0. IsFiniteSet(Pair)
  BY FileFacts
<1>1. ASSUME NEW f
      PROVE  /\ NPipes(f)' + One(pc[p] = "pipe" /\ arg[p] = f)
                  = NPipes(f) + One(pc'[p] = "pipe" /\ arg'[p] = f)
             /\ NPipes(f) \in Nat /\ NPipes(f)' \in Nat
  <2>1. PipesWith(f) \subseteq Pair /\ PipesWith(f)' \subseteq Pair
    BY DEF PipesWith
  <2>2. \A q \in Pair : q # p => (q \in PipesWith(f) <=> q \in PipesWith(f)')
    BY DEF PipesWith
  <2>3. /\ Cardinality(PipesWith(f)') + Among(p, PipesWith(f))
             = Cardinality(PipesWith(f)) + Among(p, PipesWith(f)')
        /\ Cardinality(PipesWith(f)) \in Nat /\ Cardinality(PipesWith(f)') \in Nat
    BY <1>0, <2>1, <2>2, CountChanges
  <2>4. /\ Among(p, PipesWith(f)) = One(pc[p] = "pipe" /\ arg[p] = f)
        /\ Among(p, PipesWith(f)') = One(pc'[p] = "pipe" /\ arg'[p] = f)
    BY DEF Among, PipesWith, One
  <2> QED
    BY <2>3, <2>4 DEF NPipes
<1>2. ASSUME NEW f
      PROVE  /\ NDups(f)' + One(pc[p] = "dup" /\ arg[p] = f)
                  = NDups(f) + One(pc'[p] = "dup" /\ arg'[p] = f)
             /\ NDups(f) \in Nat /\ NDups(f)' \in Nat
  <2>1. DupsOf(f) \subseteq Pair /\ DupsOf(f)' \subseteq Pair
    BY DEF DupsOf
  <2>2. \A q \in Pair : q # p => (q \in DupsOf(f) <=> q \in DupsOf(f)')
    BY DEF DupsOf
  <2>3. /\ Cardinality(DupsOf(f)') + Among(p, DupsOf(f))
             = Cardinality(DupsOf(f)) + Among(p, DupsOf(f)')
        /\ Cardinality(DupsOf(f)) \in Nat /\ Cardinality(DupsOf(f)') \in Nat
    BY <1>0, <2>1, <2>2, CountChanges
  <2>4. /\ Among(p, DupsOf(f)) = One(pc[p] = "dup" /\ arg[p] = f)
        /\ Among(p, DupsOf(f)') = One(pc'[p] = "dup" /\ arg'[p] = f)
    BY DEF Among, DupsOf, One
  <2> QED
    BY <2>3, <2>4 DEF NDups
<1>3. /\ NOpening' + One(pc[p] = "open") = NOpening + One(pc'[p] = "open")
      /\ NOpening \in Nat /\ NOpening' \in Nat
  <2>1. Opening \subseteq Pair /\ Opening' \subseteq Pair
    BY DEF Opening
  <2>2. \A q \in Pair : q # p => (q \in Opening <=> q \in Opening')
    BY DEF Opening
  <2>3. /\ Cardinality(Opening') + Among(p, Opening) = Cardinality(Opening) + Among(p, Opening')
        /\ Cardinality(Opening) \in Nat /\ Cardinality(Opening') \in Nat
    BY <1>0, <2>1, <2>2, CountChanges
  <2>4. Among(p, Opening) = One(pc[p] = "open") /\ Among(p, Opening') = One(pc'[p] = "open")
    BY DEF Among, Opening, One
  <2> QED
    BY <2>3, <2>4 DEF NOpening
<1> QED
  BY <1>1, <1>2, <1>3

LEMMA CallsStay ==
  ASSUME UNCHANGED <<pc, arg>>
  PROVE  (\A f : NPipes(f)' = NPipes(f) /\ NDups(f)' = NDups(f)) /\ NOpening' = NOpening
BY DEF NPipes, PipesWith, NDups, DupsOf, NOpening, Opening

LEMMA ClosingMoves ==
  ASSUME PartsAssumption, FileTypes, FileTypes', NEW p \in Pair,
         \A q \in Pair : q # p => toClose'[q] = toClose[q], NEW f
  PROVE  /\ NClosing(f)' + Copies(toClose[p], f) = NClosing(f) + Copies(toClose'[p], f)
         /\ NClosing(f) \in Nat /\ NClosing(f)' \in Nat
         /\ Copies(toClose[p], f) \in Nat /\ Copies(toClose'[p], f) \in Nat
<1>1. \A q \in Pair : Closing(f)[q] = Copies(toClose[q], f) /\ Closing(f)'[q] = Copies(toClose'[q], f)
  BY DEF Closing
<1>2. \A q \in Pair : Copies(toClose[q], f) \in Nat /\ Copies(toClose'[q], f) \in Nat
  BY CopiesAreNat DEF FileTypes, Files!File
<1>3. \A q \in Pair : Closing(f)[q] \in Nat /\ Closing(f)'[q] \in Nat
  BY <1>1, <1>2
<1>4. \A q \in Pair \ {p} : Closing(f)'[q] = Closing(f)[q]
  BY <1>1
<1>5. Total(Closing(f)', Pair) = Total(Closing(f), Pair) + Closing(f)'[p] - Closing(f)[p]
  BY <1>3, <1>4, FileFacts, TotalChanges
<1>6. Total(Closing(f), Pair) \in Nat /\ Total(Closing(f)', Pair) \in Nat
  BY <1>3, FileFacts, ThingsAreFinite
<1>7. /\ NClosing(f) = Total(Closing(f), Pair) /\ NClosing(f)' = Total(Closing(f)', Pair)
  BY DEF NClosing, Total, Things
<1> QED
  BY <1>1, <1>2, <1>5, <1>6, <1>7

LEMMA ClosingStays == ASSUME UNCHANGED toClose, NEW f PROVE NClosing(f)' = NClosing(f)
<1>1. Closing(f)' = Closing(f)
  BY DEF Closing
<1>2. NClosing(f) = Total(Closing(f), Pair) /\ NClosing(f)' = Total(Closing(f)', Pair)
  BY DEF NClosing, Total, Things
<1> QED
  BY <1>1, <1>2

LEMMA FilesMove ==
  ASSUME PartsAssumption, NEW f \in Files!File,
         \A g \in Files!File : g # f => type'[g] = type[g], NEW t
  PROVE  /\ NFiles(t)' + One(type[f] = t) = NFiles(t) + One(type'[f] = t)
         /\ NFiles(t) \in Nat /\ NFiles(t)' \in Nat
<1>1. FilesOf(t) \subseteq Files!File /\ FilesOf(t)' \subseteq Files!File
  BY DEF FilesOf, Files!File
<1>2. \A g \in Files!File : g # f => (g \in FilesOf(t) <=> g \in FilesOf(t)')
  BY DEF FilesOf, Files!File
<1>3. /\ Cardinality(FilesOf(t)') + Among(f, FilesOf(t)) = Cardinality(FilesOf(t)) + Among(f, FilesOf(t)')
      /\ Cardinality(FilesOf(t)) \in Nat /\ Cardinality(FilesOf(t)') \in Nat
  BY <1>1, <1>2, FileFacts, CountChanges
<1>4. Among(f, FilesOf(t)) = One(type[f] = t) /\ Among(f, FilesOf(t)') = One(type'[f] = t)
  BY DEF Among, FilesOf, One, Files!File
<1> QED
  BY <1>3, <1>4 DEF NFiles

LEMMA FilesMoveTwice ==
  ASSUME PartsAssumption, NEW f \in Files!File, NEW g \in Files!File, f # g,
         \A h \in Files!File : h # f /\ h # g => type'[h] = type[h], NEW t
  PROVE  /\ NFiles(t)' + One(type[f] = t) + One(type[g] = t)
              = NFiles(t) + One(type'[f] = t) + One(type'[g] = t)
         /\ NFiles(t) \in Nat /\ NFiles(t)' \in Nat
<1>1. FilesOf(t) \subseteq Files!File /\ FilesOf(t)' \subseteq Files!File
  BY DEF FilesOf, Files!File
<1>2. \A h \in Files!File : h # f /\ h # g => (h \in FilesOf(t) <=> h \in FilesOf(t)')
  BY DEF FilesOf, Files!File
<1>3. /\ Cardinality(FilesOf(t)') + Among(f, FilesOf(t)) + Among(g, FilesOf(t))
           = Cardinality(FilesOf(t)) + Among(f, FilesOf(t)') + Among(g, FilesOf(t)')
      /\ Cardinality(FilesOf(t)) \in Nat /\ Cardinality(FilesOf(t)') \in Nat
  <2>1. PICK A, B, S : A = FilesOf(t) /\ B = FilesOf(t)' /\ S = Files!File
    OBVIOUS
  <2>2. IsFiniteSet(S) /\ A \subseteq S /\ B \subseteq S /\ f \in S /\ g \in S /\ f # g
    BY <1>1, <2>1, FileFacts
  <2>3. \A s \in S \ {f, g} : s \in A <=> s \in B
    BY <1>2, <2>1
  <2>4. Cardinality(B) + Among(f, A) + Among(g, A) = Cardinality(A) + Among(f, B) + Among(g, B)
    BY <2>2, <2>3, CountOfTwo
  <2>5. Cardinality(A) \in Nat /\ Cardinality(B) \in Nat
    BY <2>2, CountIsNat
  <2> QED
    BY <2>1, <2>4, <2>5
<1>4. /\ Among(f, FilesOf(t)) = One(type[f] = t) /\ Among(f, FilesOf(t)') = One(type'[f] = t)
      /\ Among(g, FilesOf(t)) = One(type[g] = t) /\ Among(g, FilesOf(t)') = One(type'[g] = t)
  BY DEF Among, FilesOf, One, Files!File
<1> QED
  BY <1>3, <1>4 DEF NFiles

LEMMA FilesStay == ASSUME UNCHANGED type, NEW t PROVE NFiles(t)' = NFiles(t)
BY DEF NFiles, FilesOf, Files!File

LEMMA ReleasersMove ==
  ASSUME PartsAssumption, NEW p \in Pair,
         \A q \in Pair : q # p => release'[q] = release[q], NEW t
  PROVE  /\ NReleasers(t)' + One(release[p] = t) = NReleasers(t) + One(release'[p] = t)
         /\ NReleasers(t) \in Nat /\ NReleasers(t)' \in Nat
<1>1. ReleasersOf(t) \subseteq Pair /\ ReleasersOf(t)' \subseteq Pair
  BY DEF ReleasersOf
<1>2. \A q \in Pair : q # p => (q \in ReleasersOf(t) <=> q \in ReleasersOf(t)')
  BY DEF ReleasersOf
<1>3. /\ Cardinality(ReleasersOf(t)') + Among(p, ReleasersOf(t))
           = Cardinality(ReleasersOf(t)) + Among(p, ReleasersOf(t)')
      /\ Cardinality(ReleasersOf(t)) \in Nat /\ Cardinality(ReleasersOf(t)') \in Nat
  BY <1>1, <1>2, FileFacts, CountChanges
<1>4. Among(p, ReleasersOf(t)) = One(release[p] = t) /\ Among(p, ReleasersOf(t)') = One(release'[p] = t)
  BY DEF Among, ReleasersOf, One
<1> QED
  BY <1>3, <1>4 DEF NReleasers

LEMMA ReleasersStay == ASSUME UNCHANGED release, NEW t PROVE NReleasers(t)' = NReleasers(t)
BY DEF NReleasers, ReleasersOf

LEMMA ReleaseNumbers ==
  ASSUME PartsAssumption
  PROVE  (\A t : NFiles(t) \in Nat /\ NReleasers(t) \in Nat) /\ NOpening \in Nat
<1>1. /\ \A t : FilesOf(t) \subseteq Files!File /\ ReleasersOf(t) \subseteq Pair
      /\ Opening \subseteq Pair
  BY DEF FilesOf, ReleasersOf, Opening
<1>2. IsFiniteSet(Pair) /\ IsFiniteSet(Files!File)
  BY FileFacts
<1>3. \A t : Cardinality(FilesOf(t)) \in Nat
  BY <1>1, <1>2, CountIsNat
<1>4. \A t : Cardinality(ReleasersOf(t)) \in Nat
  BY <1>1, <1>2, CountIsNat
<1>5. Cardinality(Opening) \in Nat
  BY <1>1, <1>2, CountIsNat
<1> QED
  BY <1>3, <1>4, <1>5 DEF NFiles, NReleasers, NOpening

-----------------------------------------------------------------------------
(* Each action keeps the invariant.                                        *)

LEMMA CountedAs ==
  ASSUME NEW f \in Files!File
  PROVE  /\ FileCounted(f) <=> ref[f] + NDups(f) = NSlots(f) + (NPipes(f) + NClosing(f))
         /\ FileCounted(f)' <=> ref'[f] + NDups(f)' = NSlots(f)' + (NPipes(f)' + NClosing(f)')
BY DEF FileCounted, NDups, NSlots, NPipes, NClosing

LEMMA ReleasedAs ==
  /\ EndsCounted <=> \A q \in Pipe :
       /\ NFiles(<<"r", q>>) + NReleasers(<<"r", q>>) = One(q \in readopen)
       /\ NFiles(<<"w", q>>) + NReleasers(<<"w", q>>) = One(q \in writeopen)
  /\ EndsCounted' <=> \A q \in Pipe :
       /\ NFiles(<<"r", q>>)' + NReleasers(<<"r", q>>)' = One(q \in readopen')
       /\ NFiles(<<"w", q>>)' + NReleasers(<<"w", q>>)' = One(q \in writeopen')
  /\ InodesCounted <=> inodes = NFiles(<<"inode">>) + NReleasers(<<"inode">>) + NOpening
  /\ InodesCounted' <=> inodes' = NFiles(<<"inode">>)' + NReleasers(<<"inode">>)' + NOpening'
BY DEF EndsCounted, EndIsCounted, InodesCounted, NFiles, NReleasers, NOpening, One

\* A step that changes no type, no release and no pipe.
LEMMA EndsStay ==
  ASSUME EndsCounted, UNCHANGED <<type, release, readopen, writeopen>>
  PROVE  EndsCounted'
BY FilesStay, ReleasersStay, ReleasedAs

LEMMA InodesStay ==
  ASSUME InodesCounted, UNCHANGED <<type, release, inodes>>, NOpening' = NOpening
  PROVE  InodesCounted'
BY FilesStay, ReleasersStay, ReleasedAs

LEMMA EndTypes == /\ \A q \in Pipe : <<"r", q>> # <<"none">> /\ <<"w", q>> # <<"none">>
                  /\ \A q \in Pipe : <<"r", q>> # <<"inode">> /\ <<"w", q>> # <<"inode">>
                  /\ \A q, s \in Pipe : <<"r", q>> # <<"w", s>>
                  /\ <<"inode">> # <<"none">>
OBVIOUS

\* What one process gains and loses for a file is what the file's count gains.
LEMMA CountMoves ==
  ASSUME PartsAssumption, FileTypes, FileTypes', NEW g \in Files!File, FileCounted(g),
         NEW p \in Pair, NEW o \in Pair, NEW d \in Files!Fd,
         \A q \in Pair : q # p => pc'[q] = pc[q] /\ arg'[q] = arg[q],
         \A q \in Pair : q # p => toClose'[q] = toClose[q],
         \A q \in Pair, e \in Files!Fd : q # o \/ e # d => ofile'[q][e] = ofile[q][e],
         ref'[g] + One(pc'[p] = "dup" /\ arg'[p] = g) + One(ofile[o][d] = g)
           + One(pc[p] = "pipe" /\ arg[p] = g) + Copies(toClose[p], g)
         = ref[g] + One(pc[p] = "dup" /\ arg[p] = g) + One(ofile'[o][d] = g)
           + One(pc'[p] = "pipe" /\ arg'[p] = g) + Copies(toClose'[p], g)
  PROVE  FileCounted(g)'
<1>1. ref[g] + NDups(g) = NSlots(g) + (NPipes(g) + NClosing(g))
  BY CountedAs
<1>2. /\ NSlots(g)' + One(ofile[o][d] = g) = NSlots(g) + One(ofile'[o][d] = g)
      /\ NSlots(g) \in Nat /\ NSlots(g)' \in Nat
  BY SlotsMove
<1>3. /\ NPipes(g)' + One(pc[p] = "pipe" /\ arg[p] = g) = NPipes(g) + One(pc'[p] = "pipe" /\ arg'[p] = g)
      /\ NDups(g)' + One(pc[p] = "dup" /\ arg[p] = g) = NDups(g) + One(pc'[p] = "dup" /\ arg'[p] = g)
      /\ NPipes(g) \in Nat /\ NPipes(g)' \in Nat /\ NDups(g) \in Nat /\ NDups(g)' \in Nat
  BY CallsMove
<1>4. /\ NClosing(g)' + Copies(toClose[p], g) = NClosing(g) + Copies(toClose'[p], g)
      /\ NClosing(g) \in Nat /\ NClosing(g)' \in Nat
      /\ Copies(toClose[p], g) \in Nat /\ Copies(toClose'[p], g) \in Nat
  BY ClosingMoves
<1>5. ref[g] \in Nat /\ ref'[g] \in Nat
  BY DEF FileTypes, Files!File
<1>6. /\ One(pc'[p] = "dup" /\ arg'[p] = g) \in Nat /\ One(pc[p] = "dup" /\ arg[p] = g) \in Nat
      /\ One(pc'[p] = "pipe" /\ arg'[p] = g) \in Nat /\ One(pc[p] = "pipe" /\ arg[p] = g) \in Nat
      /\ One(ofile[o][d] = g) \in Nat /\ One(ofile'[o][d] = g) \in Nat
  BY DEF One
<1>7. PICK d1 \in Nat, d2 \in Nat, p1 \in Nat, p2 \in Nat, s1 \in Nat, s2 \in Nat :
        /\ d1 = One(pc[p] = "dup" /\ arg[p] = g) /\ d2 = One(pc'[p] = "dup" /\ arg'[p] = g)
        /\ p1 = One(pc[p] = "pipe" /\ arg[p] = g) /\ p2 = One(pc'[p] = "pipe" /\ arg'[p] = g)
        /\ s1 = One(ofile[o][d] = g) /\ s2 = One(ofile'[o][d] = g)
  BY <1>6, SMTT(30)
<1>8. PICK c1 \in Nat, c2 \in Nat : c1 = Copies(toClose[p], g) /\ c2 = Copies(toClose'[p], g)
  BY <1>4
<1>9. /\ NSlots(g)' + s1 = NSlots(g) + s2 /\ NPipes(g)' + p1 = NPipes(g) + p2
      /\ NDups(g)' + d1 = NDups(g) + d2 /\ NClosing(g)' + c1 = NClosing(g) + c2
      /\ ref'[g] + d2 + s1 + p1 + c1 = ref[g] + d1 + s2 + p2 + c2
  BY <1>2, <1>3, <1>4, <1>7, <1>8
<1>10. PICK S1 \in Nat, S2 \in Nat, P1 \in Nat, P2 \in Nat, D1 \in Nat, D2 \in Nat,
            C1 \in Nat, C2 \in Nat, r1 \in Nat, r2 \in Nat :
         /\ S1 = NSlots(g) /\ S2 = NSlots(g)' /\ P1 = NPipes(g) /\ P2 = NPipes(g)'
         /\ D1 = NDups(g) /\ D2 = NDups(g)' /\ C1 = NClosing(g) /\ C2 = NClosing(g)'
         /\ r1 = ref[g] /\ r2 = ref'[g]
  BY <1>2, <1>3, <1>4, <1>5
<1>11. /\ S2 + s1 = S1 + s2 /\ P2 + p1 = P1 + p2 /\ D2 + d1 = D1 + d2 /\ C2 + c1 = C1 + c2
       /\ r2 + d2 + s1 + p1 + c1 = r1 + d1 + s2 + p2 + c2 /\ r1 + D1 = S1 + (P1 + C1)
  BY <1>1, <1>9, <1>10
<1>12. r2 + D2 = S2 + (P2 + C2)
  BY <1>11
<1> QED
  BY <1>10, <1>12, CountedAs

\* The steps of a call that touch no file.
LEMMA CountStays ==
  ASSUME NEW g \in Files!File, FileCounted(g), UNCHANGED <<ref, ofile, toClose>>,
         NPipes(g)' = NPipes(g), NDups(g)' = NDups(g)
  PROVE  FileCounted(g)'
BY CountedAs, SlotsStay, ClosingStays

LEMMA FileCloseIsKept ==
  ASSUME PartsAssumption, FileInv, NEW p \in Pair, Files!FileClose(p)
  PROVE  FileInv'
<1> DEFINE f == Head(toClose[p])
<1>0. /\ FileTypes /\ (\A q \in Pair : FileCaller(q)) /\ FreeIsUntyped
      /\ (\A g \in Files!File : FileCounted(g)) /\ EndsCounted /\ InodesCounted
  BY DEF FileInv
<1>1. /\ toClose[p] # <<>> /\ release[p] = <<"none">>
      /\ UNCHANGED <<ofile, readopen, writeopen, inodes, pc, arg>>
  BY DEF Files!FileClose, Files!pipes
<1>2. /\ f \in Files!File /\ Tail(toClose[p]) \in ShortSeq(Files!File)
      /\ \A g : Copies(toClose[p], g) = Copies(Tail(toClose[p]), g) + (IF f = g THEN 1 ELSE 0)
  <2>1. toClose[p] \in ShortSeq(Files!File)
    BY <1>0 DEF FileTypes
  <2> QED
    BY <1>1, <2>1, FirstOfFew
<1>3. ref[f] \in Nat /\ ref[f] >= 1
  BY <1>0, <1>1, <1>2, HeldIsCounted DEF FileTypes
<1> HIDE DEF f
<1>4. /\ ref' = [ref EXCEPT ![f] = @ - 1]
      /\ IF ref[f] = 1
           THEN type' = [type EXCEPT ![f] = <<"none">>] /\ release' = [release EXCEPT ![p] = type[f]]
           ELSE UNCHANGED <<type, release>>
      /\ toClose' = [toClose EXCEPT ![p] = Tail(toClose[p])]
  BY DEF Files!FileClose, Files!Then, f
<1>5. FileTypes'
  <2>1. ref' \in [Files!File -> Nat] /\ toClose' \in [Pair -> ShortSeq(Files!File)]
    BY <1>0, <1>2, <1>3, <1>4 DEF FileTypes
  <2>2. type' \in [Files!File -> Files!Types] /\ release' \in [Pair -> Files!Types]
    BY <1>0, <1>2, <1>4 DEF FileTypes, Files!Types
  <2> QED
    BY <1>0, <1>1, <2>1, <2>2 DEF FileTypes, Files!File, Files!Fd, Files!Types, Files!Ends
<1>6. \A g \in Files!File : /\ ref'[g] = IF g = f THEN ref[f] - 1 ELSE ref[g]
                            /\ type'[g] = IF g = f /\ ref[f] = 1 THEN <<"none">> ELSE type[g]
  BY <1>0, <1>4 DEF FileTypes
<1>7. \A q \in Pair : /\ toClose'[q] = IF q = p THEN Tail(toClose[p]) ELSE toClose[q]
                      /\ release'[q] = IF q = p /\ ref[f] = 1 THEN type[f] ELSE release[q]
  BY <1>0, <1>4 DEF FileTypes
<1>8. ASSUME NEW q \in Pair PROVE FileCaller(q)'
  <2>1. FileCaller(q)
    BY <1>0
  <2>2. pc' = pc /\ arg' = arg /\ ofile' = ofile
    BY <1>1
  <2>3. \A g \in Files!File : type[g] = <<"none">> => type'[g] = <<"none">>
    BY <1>6
  <2> QED
    BY <2>1, <2>2, <2>3, Zenon DEF FileCaller
<1>9. FreeIsUntyped'
  BY <1>0, <1>3, <1>6 DEF FreeIsUntyped, FileTypes, Files!File
<1>10. ASSUME NEW g \in Files!File PROVE FileCounted(g)'
  <2>1. NSlots(g)' = NSlots(g) /\ NPipes(g)' = NPipes(g) /\ NDups(g)' = NDups(g)
    BY <1>1, SlotsStay, CallsStay
  <2>2. /\ NClosing(g)' + Copies(toClose[p], g) = NClosing(g) + Copies(toClose'[p], g)
        /\ NClosing(g) \in Nat /\ NClosing(g)' \in Nat /\ Copies(toClose'[p], g) \in Nat
    BY <1>0, <1>5, <1>7, ClosingMoves
  <2>3. Copies(toClose[p], g) = Copies(toClose'[p], g) + (IF f = g THEN 1 ELSE 0)
    BY <1>2, <1>7
  <2>4. NSlots(g) \in Nat /\ NPipes(g) \in Nat /\ NDups(g) \in Nat /\ ref[g] \in Nat
    BY <1>0, CountsAreNat DEF FileTypes
  <2>5. NClosing(g)' = NClosing(g) - (IF f = g THEN 1 ELSE 0)
    BY <2>2, <2>3
  <2>6. ref[g] + NDups(g) = NSlots(g) + (NPipes(g) + NClosing(g))
    BY <1>0, CountedAs
  <2>7. ref'[g] + NDups(g)' = NSlots(g)' + (NPipes(g)' + NClosing(g)')
    BY <1>3, <1>6, <2>1, <2>2, <2>4, <2>5, <2>6
  <2> QED
    BY <2>7, CountedAs
<1>11. ASSUME NEW t, t # <<"none">>
       PROVE  NFiles(t)' + NReleasers(t)' = NFiles(t) + NReleasers(t)
  <2>1. /\ NFiles(t)' + One(type[f] = t) = NFiles(t) + One(type'[f] = t)
        /\ NFiles(t) \in Nat /\ NFiles(t)' \in Nat
    BY <1>2, <1>6, FilesMove
  <2>2. /\ NReleasers(t)' + One(release[p] = t) = NReleasers(t) + One(release'[p] = t)
        /\ NReleasers(t) \in Nat /\ NReleasers(t)' \in Nat
    BY <1>7, ReleasersMove
  <2>3. CASE ref[f] = 1
    <3>1. type'[f] = <<"none">> /\ release'[p] = type[f] /\ release[p] = <<"none">>
      BY <1>1, <1>2, <1>6, <1>7, <2>3
    <3>2. One(type'[f] = t) = 0 /\ One(release[p] = t) = 0 /\ One(release'[p] = t) = One(type[f] = t)
      BY <1>11, <3>1 DEF One
    <3>3. One(type[f] = t) \in {0, 1}
      BY DEF One
    <3> QED
      BY <2>1, <2>2, <3>2, <3>3
  <2>4. CASE ref[f] # 1
    BY <1>4, <2>4, FilesStay, ReleasersStay
  <2> QED
    BY <2>3, <2>4
<1>12. EndsCounted'
  BY <1>0, <1>1, <1>11, EndTypes, ReleasedAs
<1>13. InodesCounted'
  <2>1. NFiles(<<"inode">>)' + NReleasers(<<"inode">>)' = NFiles(<<"inode">>) + NReleasers(<<"inode">>)
    BY <1>11, EndTypes
  <2>2. NOpening' = NOpening
    BY <1>1, CallsStay
  <2> QED
    BY <1>0, <1>1, <2>1, <2>2, ReleasedAs
<1> QED
  BY <1>5, <1>8, <1>9, <1>10, <1>12, <1>13 DEF FileInv, Files!File

LEMMA FileReleaseIsKept ==
  ASSUME PartsAssumption, FileInv, NEW p \in Pair, Files!Release(p)
  PROVE  FileInv'
<1>0. /\ FileTypes /\ (\A q \in Pair : FileCaller(q)) /\ FreeIsUntyped
      /\ (\A g \in Files!File : FileCounted(g)) /\ EndsCounted /\ InodesCounted
  BY DEF FileInv
<1>t. PICK t : t = release[p]
  OBVIOUS
<1>1. /\ t # <<"none">> /\ t \in Files!Types
      /\ release' = [release EXCEPT ![p] = <<"none">>]
      /\ UNCHANGED <<ref, type, ofile, pc, arg, toClose>>
      /\ t = <<"inode">> => inodes' = inodes - 1 /\ UNCHANGED <<readopen, writeopen>>
      /\ t # <<"inode">> =>
           /\ readopen' = IF t[1] = "r" THEN readopen \ {t[2]} ELSE readopen
           /\ writeopen' = IF t[1] = "w" THEN writeopen \ {t[2]} ELSE writeopen
           /\ UNCHANGED inodes
  BY <1>0, <1>t DEF Files!Release, Files!pipes, FileTypes
<1>2. \A q \in Pair : release'[q] = IF q = p THEN <<"none">> ELSE release[q]
  BY <1>0, <1>1 DEF FileTypes
<1>3. \A u : /\ NReleasers(u)' + One(release[p] = u) = NReleasers(u) + One(release'[p] = u)
             /\ NReleasers(u) \in Nat /\ NReleasers(u)' \in Nat /\ NFiles(u) \in Nat
             /\ NFiles(u)' = NFiles(u)
  BY <1>1, <1>2, ReleasersMove, FilesStay, ReleaseNumbers
<1>4. release[p] = t /\ release'[p] = <<"none">>
  BY <1>2, <1>t
<1>5. \A u : u # t /\ u # <<"none">> => NReleasers(u)' = NReleasers(u)
  BY <1>3, <1>4 DEF One
<1>6. NReleasers(t)' + 1 = NReleasers(t)
  <2>1. One(release[p] = t) = 1 /\ One(release'[p] = t) = 0
    BY <1>1, <1>4 DEF One
  <2> QED
    BY <1>3, <2>1
<1>7. NOpening' = NOpening /\ NOpening \in Nat
  BY <1>1, CallsStay, ReleaseNumbers
<1>8. /\ \A q \in Pipe : NFiles(<<"r", q>>) + NReleasers(<<"r", q>>) = One(q \in readopen)
      /\ \A q \in Pipe : NFiles(<<"w", q>>) + NReleasers(<<"w", q>>) = One(q \in writeopen)
      /\ inodes = NFiles(<<"inode">>) + NReleasers(<<"inode">>) + NOpening
  BY <1>0, ReleasedAs
<1>9. ASSUME t = <<"inode">> PROVE FileTypes' /\ EndsCounted' /\ InodesCounted'
  <2>1. UNCHANGED <<readopen, writeopen>> /\ inodes' = inodes - 1
    BY <1>1, <1>9
  <2>2. \A q \in Pipe : NReleasers(<<"r", q>>)' = NReleasers(<<"r", q>>)
                        /\ NReleasers(<<"w", q>>)' = NReleasers(<<"w", q>>)
    BY <1>5, <1>9, EndTypes
  <2>3. EndsCounted'
    BY <1>3, <1>8, <2>1, <2>2, ReleasedAs
  <2>4. NReleasers(<<"inode">>)' + 1 = NReleasers(<<"inode">>)
    BY <1>6, <1>9
  <2>5. inodes' = NFiles(<<"inode">>)' + NReleasers(<<"inode">>)' + NOpening' /\ inodes' \in Nat
    BY <1>3, <1>7, <1>8, <2>1, <2>4
  <2>6. FileTypes'
    BY <1>0, <1>1, <2>1, <2>5 DEF FileTypes, Files!File, Files!Fd, Files!Types, Files!Ends
  <2> QED
    BY <2>3, <2>5, <2>6, ReleasedAs
<1>10. ASSUME t # <<"inode">> PROVE FileTypes' /\ EndsCounted' /\ InodesCounted'
  <2>1. PICK e \in {"r", "w"}, s \in Pipe : t = <<e, s>>
    BY <1>1, <1>10 DEF Files!Types, Files!Ends
  <2>2. /\ e = "r" => readopen' = readopen \ {s} /\ writeopen' = writeopen
        /\ e = "w" => writeopen' = writeopen \ {s} /\ readopen' = readopen
        /\ inodes' = inodes
    BY <1>1, <1>10, <2>1
  <2>3. FileTypes'
    BY <1>0, <1>1, <2>1, <2>2 DEF FileTypes, Files!File, Files!Fd, Files!Types, Files!Ends
  <2>4. InodesCounted'
    <3>1. NReleasers(<<"inode">>)' = NReleasers(<<"inode">>)
      BY <1>5, <1>10, EndTypes
    <3> QED
      BY <1>3, <1>7, <1>8, <2>2, <3>1, ReleasedAs
  <2>5. ASSUME NEW q \in Pipe
        PROVE  NFiles(<<"r", q>>)' + NReleasers(<<"r", q>>)' = One(q \in readopen')
    <3>1. CASE <<"r", q>> = t
      <4>1. e = "r" /\ q = s /\ q \notin readopen'
        BY <2>1, <2>2, <3>1
      <4>2. NReleasers(<<"r", q>>)' + 1 = NReleasers(<<"r", q>>)
        BY <1>6, <3>1
      <4>3. One(q \in readopen) \in {0, 1} /\ One(q \in readopen') = 0
        BY <4>1 DEF One
      <4> QED
        BY <1>3, <1>8, <4>2, <4>3
    <3>2. CASE <<"r", q>> # t
      <4>1. NReleasers(<<"r", q>>)' = NReleasers(<<"r", q>>)
        BY <1>5, <3>2, EndTypes
      <4>2. q \in readopen' <=> q \in readopen
        BY <2>1, <2>2, <3>2
      <4> QED
        BY <1>3, <1>8, <4>1, <4>2 DEF One
    <3> QED
      BY <3>1, <3>2
  <2>6. ASSUME NEW q \in Pipe
        PROVE  NFiles(<<"w", q>>)' + NReleasers(<<"w", q>>)' = One(q \in writeopen')
    <3>1. CASE <<"w", q>> = t
      <4>1. e = "w" /\ q = s /\ q \notin writeopen'
        BY <2>1, <2>2, <3>1
      <4>2. NReleasers(<<"w", q>>)' + 1 = NReleasers(<<"w", q>>)
        BY <1>6, <3>1
      <4>3. One(q \in writeopen) \in {0, 1} /\ One(q \in writeopen') = 0
        BY <4>1 DEF One
      <4> QED
        BY <1>3, <1>8, <4>2, <4>3
    <3>2. CASE <<"w", q>> # t
      <4>1. NReleasers(<<"w", q>>)' = NReleasers(<<"w", q>>)
        BY <1>5, <3>2, EndTypes
      <4>2. q \in writeopen' <=> q \in writeopen
        BY <2>1, <2>2, <3>2
      <4> QED
        BY <1>3, <1>8, <4>1, <4>2 DEF One
    <3> QED
      BY <3>1, <3>2
  <2> QED
    BY <2>3, <2>4, <2>5, <2>6, ReleasedAs
<1>11. FileTypes' /\ EndsCounted' /\ InodesCounted'
  BY <1>9, <1>10
<1>12. \A q \in Pair : FileCaller(q)'
  BY <1>0, <1>1 DEF FileCaller, Files!File, Files!Fd
<1>13. FreeIsUntyped'
  BY <1>0, <1>1 DEF FreeIsUntyped, Files!File
<1>14. \A g \in Files!File : FileCounted(g)'
  BY <1>0, <1>1, CallsStay, CountStays
<1> QED
  BY <1>11, <1>12, <1>13, <1>14 DEF FileInv, Files!File

LEMMA OpenIsKept ==
  ASSUME PartsAssumption, FileInv, NEW p \in Pair, Files!Open(p) \/ Files!OpenNoFile(p)
  PROVE  FileInv'
<1>0. /\ FileTypes /\ (\A q \in Pair : FileCaller(q)) /\ FreeIsUntyped
      /\ (\A g \in Files!File : FileCounted(g)) /\ EndsCounted /\ InodesCounted
  BY DEF FileInv
<1>1. /\ \/ pc[p] = "user" /\ pc' = [pc EXCEPT ![p] = "open"] /\ inodes' = inodes + 1
         \/ pc[p] = "open" /\ pc' = [pc EXCEPT ![p] = "user"] /\ inodes' = inodes - 1
      /\ UNCHANGED <<ref, type, ofile, readopen, writeopen, arg, toClose, release>>
  BY DEF Files!Open, Files!OpenNoFile, Files!At, Files!Goto, Files!pipes
<1>2. /\ \A q \in Pair : pc'[q] = IF q = p THEN pc'[p] ELSE pc[q]
      /\ pc'[p] \in {"user", "open"} /\ pc[p] \in {"user", "open"}
      /\ pc[p] = "open" <=> pc'[p] = "user"
  BY <1>0, <1>1 DEF FileTypes
<1>3. /\ \A f : NPipes(f)' = NPipes(f) /\ NDups(f)' = NDups(f)
      /\ NOpening' + One(pc[p] = "open") = NOpening + One(pc'[p] = "open")
      /\ NOpening \in Nat /\ NOpening' \in Nat
  <2>1. \A q \in Pair : q # p => pc'[q] = pc[q] /\ arg'[q] = arg[q]
    BY <1>1, <1>2
  <2>2. \A f : /\ One(pc[p] = "pipe" /\ arg[p] = f) = 0 /\ One(pc'[p] = "pipe" /\ arg'[p] = f) = 0
               /\ One(pc[p] = "dup" /\ arg[p] = f) = 0 /\ One(pc'[p] = "dup" /\ arg'[p] = f) = 0
    BY <1>2 DEF One
  <2>3. \A f : /\ NPipes(f) \in Nat /\ NPipes(f)' \in Nat /\ NPipes(f)' + 0 = NPipes(f) + 0
               /\ NDups(f) \in Nat /\ NDups(f)' \in Nat /\ NDups(f)' + 0 = NDups(f) + 0
    BY <2>1, <2>2, CallsMove
  <2>4. \A f : NPipes(f)' = NPipes(f) /\ NDups(f)' = NDups(f)
    BY <2>3
  <2> QED
    BY <2>1, <2>4, CallsMove
<1>4. InodesCounted' /\ inodes' \in Nat
  <2>1. inodes = NFiles(<<"inode">>) + NReleasers(<<"inode">>) + NOpening
    BY <1>0, ReleasedAs
  <2>2. /\ NFiles(<<"inode">>)' = NFiles(<<"inode">>) /\ NReleasers(<<"inode">>)' = NReleasers(<<"inode">>)
        /\ NFiles(<<"inode">>) \in Nat /\ NReleasers(<<"inode">>) \in Nat
    BY <1>1, FilesStay, ReleasersStay, ReleaseNumbers
  <2>3. CASE pc[p] = "user"
    <3>1. inodes' = inodes + 1 /\ One(pc[p] = "open") = 0 /\ One(pc'[p] = "open") = 1
      BY <1>1, <1>2, <2>3 DEF One
    <3>2. inodes' = NFiles(<<"inode">>)' + NReleasers(<<"inode">>)' + NOpening' /\ inodes' \in Nat
      BY <1>3, <2>1, <2>2, <3>1
    <3> QED
      BY <3>2, ReleasedAs
  <2>4. CASE pc[p] = "open"
    <3>1. inodes' = inodes - 1 /\ One(pc[p] = "open") = 1 /\ One(pc'[p] = "open") = 0
      BY <1>1, <1>2, <2>4 DEF One
    <3>2. inodes' = NFiles(<<"inode">>)' + NReleasers(<<"inode">>)' + NOpening' /\ inodes' \in Nat
      BY <1>3, <2>1, <2>2, <3>1
    <3> QED
      BY <3>2, ReleasedAs
  <2> QED
    BY <1>2, <2>3, <2>4
<1>5. FileTypes'
  BY <1>0, <1>1, <1>4 DEF FileTypes, Files!File, Files!Fd, Files!Types, Files!Ends
<1>6. ASSUME NEW q \in Pair PROVE FileCaller(q)'
  <2>1. UNCHANGED <<ref, type, ofile, arg>>
    BY <1>1
  <2>2. FileCaller(q) /\ (pc[q] = "fork" => pc[arg[q]] = "unused" /\ arg[q] \in Pair)
    BY <1>0 DEF FileCaller
  <2>3. pc'[q] # "fork" => FileCaller(q)'
    BY <1>2, <2>1, <2>2 DEF FileCaller, Files!File, Files!Fd
  <2>4. pc'[q] = "fork" => FileCaller(q)'
    BY <1>2, <2>1, <2>2 DEF FileCaller, Files!File, Files!Fd
  <2> QED
    BY <2>3, <2>4
<1>7. FreeIsUntyped' /\ EndsCounted'
  BY <1>0, <1>1, EndsStay DEF FreeIsUntyped, Files!File
<1>8. \A g \in Files!File : FileCounted(g)'
  BY <1>0, <1>1, <1>3, CountStays
<1> QED
  BY <1>4, <1>5, <1>6, <1>7, <1>8 DEF FileInv, Files!File

LEMMA ExitIsKept ==
  ASSUME PartsAssumption, FileInv, NEW p \in Pair,
         Files!Exit(p) \/ Files!ExitEnd(p) \/ \E r \in Pair : Files!Fork(p, r)
  PROVE  FileInv'
<1>0. /\ FileTypes /\ (\A q \in Pair : FileCaller(q)) /\ FreeIsUntyped
      /\ (\A g \in Files!File : FileCounted(g)) /\ EndsCounted /\ InodesCounted
  BY DEF FileInv
<1>1. /\ UNCHANGED <<ref, type, ofile, readopen, writeopen, toClose, release, inodes>>
      /\ \/ pc[p] = "user" /\ pc' = [pc EXCEPT ![p] = "exit"] /\ arg' = arg
         \/ /\ pc[p] = "exit" /\ pc' = [pc EXCEPT ![p] = "unused"] /\ arg' = arg
            /\ \A d \in Files!Fd : ofile[p][d] = None
         \/ \E r \in Pair : /\ pc[p] = "user" /\ pc[r] = "unused" /\ \A o \in Pair : arg[o] # r
                            /\ arg' = [arg EXCEPT ![p] = r] /\ pc' = [pc EXCEPT ![p] = "fork"]
  BY DEF Files!Exit, Files!ExitEnd, Files!Fork, Files!At, Files!Goto, Files!pipes, Files!Used, Files!FreeFds
<1>2. /\ \A q \in Pair : q # p => pc'[q] = pc[q] /\ arg'[q] = arg[q]
      /\ pc'[p] \in {"exit", "unused", "fork"} /\ pc[p] \in {"user", "exit"}
      /\ pc'[p] = "unused" => \A d \in Files!Fd : ofile[p][d] = None
      /\ pc'[p] = "fork" => /\ arg'[p] \in Pair /\ pc[arg'[p]] = "unused"
                            /\ \A o \in Pair : arg[o] # arg'[p]
      /\ pc' \in [Pair -> {"unused", "user", "open", "pipe", "dup", "fork", "exit"}]
      /\ arg' \in [Pair -> Files!File \cup Pair \cup {None}]
  <2>1. CASE \E r \in Pair : /\ pc[p] = "user" /\ pc[r] = "unused" /\ \A o \in Pair : arg[o] # r
                             /\ arg' = [arg EXCEPT ![p] = r] /\ pc' = [pc EXCEPT ![p] = "fork"]
    BY <1>0, <2>1 DEF FileTypes
  <2>2. CASE ~ \E r \in Pair : /\ pc[p] = "user" /\ pc[r] = "unused" /\ \A o \in Pair : arg[o] # r
                               /\ arg' = [arg EXCEPT ![p] = r] /\ pc' = [pc EXCEPT ![p] = "fork"]
    BY <1>0, <1>1, <2>2 DEF FileTypes
  <2> QED
    BY <2>1, <2>2
<1>3. FileTypes'
  BY <1>0, <1>1, <1>2 DEF FileTypes, Files!File, Files!Fd, Files!Types, Files!Ends
<1>4. (\A f : NPipes(f)' = NPipes(f) /\ NDups(f)' = NDups(f)) /\ NOpening' = NOpening
  <2>1. \A f : /\ One(pc[p] = "pipe" /\ arg[p] = f) = 0 /\ One(pc'[p] = "pipe" /\ arg'[p] = f) = 0
               /\ One(pc[p] = "dup" /\ arg[p] = f) = 0 /\ One(pc'[p] = "dup" /\ arg'[p] = f) = 0
    BY <1>2 DEF One
  <2>2. One(pc[p] = "open") = 0 /\ One(pc'[p] = "open") = 0
    BY <1>2 DEF One
  <2>3. \A f : /\ NPipes(f) \in Nat /\ NPipes(f)' \in Nat /\ NPipes(f)' + 0 = NPipes(f) + 0
               /\ NDups(f) \in Nat /\ NDups(f)' \in Nat /\ NDups(f)' + 0 = NDups(f) + 0
    BY <1>2, <2>1, CallsMove
  <2>4. NOpening' + One(pc[p] = "open") = NOpening + One(pc'[p] = "open")
        /\ NOpening \in Nat /\ NOpening' \in Nat
    BY <1>2, CallsMove
  <2>5. \A f : NPipes(f)' = NPipes(f) /\ NDups(f)' = NDups(f)
    BY <2>3
  <2>6. NOpening' = NOpening
    BY <2>2, <2>4
  <2> QED
    BY <2>5, <2>6
<1>5. ASSUME NEW q \in Pair PROVE FileCaller(q)'
  <2>1. FileCaller(q) /\ FileCaller(p)
    BY <1>0
  <2> QED
    BY <1>0, <1>1, <1>2, <2>1 DEF FileCaller, Files!File, Files!Fd
<1>6. FreeIsUntyped' /\ EndsCounted' /\ InodesCounted'
  BY <1>0, <1>1, <1>4, EndsStay, InodesStay DEF FreeIsUntyped, Files!File
<1>7. \A g \in Files!File : FileCounted(g)'
  BY <1>0, <1>1, <1>4, CountStays
<1> QED
  BY <1>3, <1>5, <1>6, <1>7 DEF FileInv, Files!File

LEMMA OpenFileIsKept ==
  ASSUME PartsAssumption, FileInv, NEW p \in Pair, Files!OpenFile(p)
  PROVE  FileInv'
<1>0. /\ FileTypes /\ (\A q \in Pair : FileCaller(q)) /\ FreeIsUntyped
      /\ (\A g \in Files!File : FileCounted(g)) /\ EndsCounted /\ InodesCounted
  BY DEF FileInv
<1>f. PICK f \in Files!File : f = Files!Min(Files!FreeFiles) /\ ref[f] = 0
  BY <1>0, LowestFree DEF Files!OpenFile
<1>1. /\ pc[p] = "open" /\ toClose[p] = <<>> /\ pc' = [pc EXCEPT ![p] = "user"]
      /\ ref' = [ref EXCEPT ![f] = 1]
      /\ UNCHANGED <<readopen, writeopen, arg, release>>
  BY <1>f DEF Files!OpenFile, Files!At, Files!Goto, Files!pipes
<1>2. \/ \E d \in Files!Fd :
           /\ ofile[p][d] = None /\ ofile' = [ofile EXCEPT ![p][d] = f]
           /\ type' = [type EXCEPT ![f] = <<"inode">>] /\ UNCHANGED <<inodes, toClose>>
      \/ /\ toClose' = [toClose EXCEPT ![p] = <<f>>] /\ inodes' = inodes - 1
         /\ UNCHANGED <<ofile, type>>
  <2>1. CASE Files!FreeFds(p) # {}
    <3>1. PICK d \in Files!Fd : d = Files!Min(Files!FreeFds(p)) /\ ofile[p][d] = None
      BY <1>0, <2>1, LowestFree
    <3> QED
      BY <1>f, <2>1, <3>1 DEF Files!OpenFile
  <2>2. CASE Files!FreeFds(p) = {}
    BY <1>f, <2>2 DEF Files!OpenFile, Files!Then
  <2> QED
    BY <2>1, <2>2
<1>3. /\ \A g \in Files!File : ref'[g] = IF g = f THEN 1 ELSE ref[g]
      /\ \A q \in Pair : pc'[q] = IF q = p THEN "user" ELSE pc[q]
      /\ ref' \in [Files!File -> Nat]
      /\ pc' \in [Pair -> {"unused", "user", "open", "pipe", "dup", "fork", "exit"}]
  BY <1>0, <1>1 DEF FileTypes
<1>4. type[f] = <<"none">>
  BY <1>0, <1>f DEF FreeIsUntyped
<1>5. \A q \in Pair : pc[q] = "pipe" => arg[q] # f
  BY <1>f, HeldIsCounted
<1>6. \A g : /\ One(pc[p] = "pipe" /\ arg[p] = g) = 0 /\ One(pc'[p] = "pipe" /\ arg'[p] = g) = 0
             /\ One(pc[p] = "dup" /\ arg[p] = g) = 0 /\ One(pc'[p] = "dup" /\ arg'[p] = g) = 0
  BY <1>1, <1>3 DEF One
<1>7. \A q \in Pair : q # p => pc'[q] = pc[q] /\ arg'[q] = arg[q]
  BY <1>1, <1>3
<1>8. /\ NOpening' + 1 = NOpening /\ NOpening' \in Nat /\ NOpening \in Nat
  <2>1. One(pc[p] = "open") = 1 /\ One(pc'[p] = "open") = 0
    BY <1>1, <1>3 DEF One
  <2>2. NOpening' + One(pc[p] = "open") = NOpening + One(pc'[p] = "open")
    BY <1>7, CallsMove
  <2>3. NOpening \in Nat /\ NOpening' \in Nat
    BY <1>7, CallsMove
  <2>4. PICK a \in Nat, b \in Nat : a = NOpening /\ b = NOpening'
    BY <2>3
  <2>6. PICK m \in Nat, n \in Nat :
          m = 1 /\ n = 0 /\ m = One(pc[p] = "open") /\ n = One(pc'[p] = "open")
    BY <2>1
  <2>7. b + m = a + n
    BY <2>2, <2>4, <2>6
  <2>5. b + 1 = a
    BY <2>6, <2>7
  <2> QED
    BY <2>4, <2>5
<1>9. inodes = NFiles(<<"inode">>) + NReleasers(<<"inode">>) + NOpening
      /\ NFiles(<<"inode">>) \in Nat /\ NReleasers(<<"inode">>) \in Nat
  BY <1>0, ReleasedAs, ReleaseNumbers
<1>10. \A t : NReleasers(t)' = NReleasers(t)
  BY <1>1, ReleasersStay
<1>11. Copies(<<>>, f) = 0 /\ (\A g : Copies(<<>>, g) = 0 /\ Copies(<<f>>, g) = IF f = g THEN 1 ELSE 0)
  BY CopiesOfFew
<1>12. ASSUME NEW d \in Files!Fd,
              ofile[p][d] = None, ofile' = [ofile EXCEPT ![p][d] = f],
              type' = [type EXCEPT ![f] = <<"inode">>], UNCHANGED <<inodes, toClose>>
       PROVE  FileInv'
  <2>1. /\ \A q \in Pair, e \in Files!Fd : ofile'[q][e] = IF q = p /\ e = d THEN f ELSE ofile[q][e]
        /\ \A g \in Files!File : type'[g] = IF g = f THEN <<"inode">> ELSE type[g]
    BY <1>0, <1>12 DEF FileTypes
  <2>2. FileTypes'
    <3>1. ofile' \in [Pair -> [Files!Fd -> Files!File \cup {None}]] /\ type' \in [Files!File -> Files!Types]
      BY <1>0, <1>12 DEF FileTypes, Files!Types
    <3> QED
      BY <1>0, <1>1, <1>3, <1>12, <3>1 DEF FileTypes, Files!File, Files!Fd, Files!Types, Files!Ends
  <2>3. ASSUME NEW q \in Pair PROVE FileCaller(q)'
    <3>1. FileCaller(q) /\ (pc[q] = "fork" => pc[arg[q]] = "unused" /\ arg[q] \in Pair)
          /\ (pc[q] = "pipe" => arg[q] \in Files!File)
      BY <1>0 DEF FileCaller
    <3>2. pc'[q] # "fork" => FileCaller(q)'
      BY <1>1, <1>3, <1>5, <2>1, <3>1 DEF FileCaller, Files!File, Files!Fd
    <3>3. pc'[q] = "fork" => FileCaller(q)'
      BY <1>1, <1>3, <1>5, <2>1, <3>1 DEF FileCaller, Files!File, Files!Fd
    <3> QED
      BY <3>2, <3>3
  <2>4. FreeIsUntyped'
    BY <1>0, <1>3, <2>1 DEF FreeIsUntyped, Files!File
  <2>5. ASSUME NEW g \in Files!File PROVE FileCounted(g)'
    <3>1. /\ One(ofile[p][d] = g) = 0 /\ One(ofile'[p][d] = g) = (IF g = f THEN 1 ELSE 0)
      BY <1>12, <2>1, FileFacts DEF One
    <3>2. ref'[g] = ref[g] + (IF g = f THEN 1 ELSE 0) /\ ref[g] \in Nat
      BY <1>0, <1>f, <1>3 DEF FileTypes
    <3>3. Copies(toClose[p], g) = 0 /\ Copies(toClose'[p], g) = 0
      BY <1>1, <1>11, <1>12
    <3>4. \A q \in Pair, e \in Files!Fd : q # p \/ e # d => ofile'[q][e] = ofile[q][e]
      BY <2>1
    <3>5. \A q \in Pair : q # p => toClose'[q] = toClose[q]
      BY <1>12
    <3>6. ref'[g] + One(pc'[p] = "dup" /\ arg'[p] = g) + One(ofile[p][d] = g)
            + One(pc[p] = "pipe" /\ arg[p] = g) + Copies(toClose[p], g)
          = ref[g] + One(pc[p] = "dup" /\ arg[p] = g) + One(ofile'[p][d] = g)
            + One(pc'[p] = "pipe" /\ arg'[p] = g) + Copies(toClose'[p], g)
      BY <1>6, <3>1, <3>2, <3>3
    <3> QED
      BY <1>0, <1>7, <2>2, <3>4, <3>5, <3>6, CountMoves
  <2>6. ASSUME NEW t PROVE NFiles(t)' + One(<<"none">> = t) = NFiles(t) + One(<<"inode">> = t)
                           /\ NFiles(t)' \in Nat /\ NFiles(t) \in Nat
    BY <1>4, <2>1, FilesMove
  <2>7. \A t : t # <<"none">> /\ t # <<"inode">> => NFiles(t)' = NFiles(t)
    BY <2>6 DEF One
  <2>8. EndsCounted'
    BY <1>0, <1>1, <1>10, <2>7, EndTypes, ReleasedAs
  <2>9. NFiles(<<"inode">>)' = NFiles(<<"inode">>) + 1
    <3>1. One(<<"none">> = <<"inode">>) = 0 /\ One(<<"inode">> = <<"inode">>) = 1
      BY EndTypes DEF One
    <3> QED
      BY <2>6, <3>1
  <2>10. inodes' = NFiles(<<"inode">>)' + NReleasers(<<"inode">>)' + NOpening'
    BY <1>8, <1>9, <1>10, <1>12, <2>9
  <2> QED
    BY <2>2, <2>3, <2>4, <2>5, <2>8, <2>10, ReleasedAs DEF FileInv, Files!File
<1>13. ASSUME toClose' = [toClose EXCEPT ![p] = <<f>>], inodes' = inodes - 1, UNCHANGED <<ofile, type>>
       PROVE  FileInv'
  <2>1. \A q \in Pair : toClose'[q] = IF q = p THEN <<f>> ELSE toClose[q]
    BY <1>0, <1>13 DEF FileTypes
  <2>2. inodes' = NFiles(<<"inode">>)' + NReleasers(<<"inode">>)' + NOpening' /\ inodes' \in Nat
    <3>1. NFiles(<<"inode">>)' = NFiles(<<"inode">>)
      BY <1>13, FilesStay
    <3>2. PICK a \in Nat, b \in Nat, c \in Nat, e \in Nat :
            /\ a = NFiles(<<"inode">>) /\ b = NReleasers(<<"inode">>)
            /\ c = NOpening /\ e = NOpening'
      BY <1>8, <1>9
    <3>3. inodes = a + b + c /\ e + 1 = c /\ inodes' = inodes - 1
      BY <1>8, <1>9, <1>13, <3>2
    <3>4. inodes' = a + b + e /\ a + b + e \in Nat
      BY <3>3
    <3>5. a = NFiles(<<"inode">>)' /\ b = NReleasers(<<"inode">>)' /\ e = NOpening'
      BY <1>10, <3>1, <3>2
    <3> QED
      BY <3>4, <3>5
  <2>3. FileTypes'
    <3>1. toClose' \in [Pair -> ShortSeq(Files!File)]
      BY <1>0, <1>13 DEF FileTypes, ShortSeq
    <3>2. ofile' \in [Pair -> [Files!Fd -> Files!File \cup {None}]] /\ type' \in [Files!File -> Files!Types]
      BY <1>0, <1>13 DEF FileTypes
    <3>3. /\ readopen' \subseteq Pipe /\ writeopen' \subseteq Pipe
          /\ arg' \in [Pair -> Files!File \cup Pair \cup {None}] /\ release' \in [Pair -> Files!Types]
      BY <1>0, <1>1 DEF FileTypes
    <3>4. inodes' \in Nat
      BY <2>2
    <3> QED
      BY <1>3, <3>1, <3>2, <3>3, <3>4 DEF FileTypes, Files!File, Files!Fd, Files!Types, Files!Ends
  <2>4. ASSUME NEW q \in Pair PROVE FileCaller(q)'
    <3>1. FileCaller(q) /\ (pc[q] = "fork" => pc[arg[q]] = "unused" /\ arg[q] \in Pair)
          /\ (pc[q] = "pipe" => arg[q] \in Files!File)
      BY <1>0 DEF FileCaller
    <3>2. pc'[q] # "fork" => FileCaller(q)'
      BY <1>1, <1>3, <1>13, <3>1 DEF FileCaller, Files!File, Files!Fd
    <3>3. pc'[q] = "fork" => FileCaller(q)'
      BY <1>1, <1>3, <1>13, <3>1 DEF FileCaller, Files!File, Files!Fd
    <3> QED
      BY <3>2, <3>3
  <2>5. FreeIsUntyped' /\ EndsCounted'
    BY <1>0, <1>1, <1>3, <1>13, EndsStay DEF FreeIsUntyped, Files!File
  <2>6. ASSUME NEW g \in Files!File PROVE FileCounted(g)'
    <3>0. PICK d \in Files!Fd : TRUE
      BY DEF PartsAssumption, Files!FileAssumption, Files!Fd
    <3>2. ref'[g] = ref[g] + (IF g = f THEN 1 ELSE 0) /\ ref[g] \in Nat
      BY <1>0, <1>f, <1>3 DEF FileTypes
    <3>3. Copies(toClose[p], g) = 0 /\ Copies(toClose'[p], g) = IF g = f THEN 1 ELSE 0
      BY <1>1, <1>11, <2>1
    <3>4. /\ \A q \in Pair, e \in Files!Fd : q # p \/ e # d => ofile'[q][e] = ofile[q][e]
          /\ ofile'[p][d] = ofile[p][d]
      BY <1>13
    <3>5. \A q \in Pair : q # p => toClose'[q] = toClose[q]
      BY <2>1
    <3>6. ref'[g] + One(pc'[p] = "dup" /\ arg'[p] = g) + One(ofile[p][d] = g)
            + One(pc[p] = "pipe" /\ arg[p] = g) + Copies(toClose[p], g)
          = ref[g] + One(pc[p] = "dup" /\ arg[p] = g) + One(ofile'[p][d] = g)
            + One(pc'[p] = "pipe" /\ arg'[p] = g) + Copies(toClose'[p], g)
      <4>1. PICK n \in Nat : n = One(ofile[p][d] = g) /\ n = One(ofile'[p][d] = g)
        BY <3>4 DEF One
      <4> QED
        BY <1>6, <3>2, <3>3, <4>1, SMTT(30)
    <3> QED
      BY <1>0, <1>7, <2>3, <3>4, <3>5, <3>6, CountMoves
  <2> QED
    BY <2>2, <2>3, <2>4, <2>5, <2>6, ReleasedAs DEF FileInv, Files!File
<1> QED
  BY <1>2, <1>12, <1>13

LEMMA CloseIsKept ==
  ASSUME PartsAssumption, FileInv, NEW p \in Pair,
         Files!ExitClose(p) \/ \E d \in Files!Fd : Files!Close(p, d)
  PROVE  FileInv'
<1>0. /\ FileTypes /\ (\A q \in Pair : FileCaller(q)) /\ FreeIsUntyped
      /\ (\A g \in Files!File : FileCounted(g)) /\ EndsCounted /\ InodesCounted
  BY DEF FileInv
<1>1. /\ pc[p] \in {"user", "exit"} /\ toClose[p] = <<>>
      /\ UNCHANGED <<ref, type, readopen, writeopen, inodes, pc, arg, release>>
  BY DEF Files!Close, Files!ExitClose, Files!At, Files!pipes
<1>2. PICK d \in Files!Fd : /\ ofile[p][d] # None
                            /\ ofile' = [ofile EXCEPT ![p][d] = None]
                            /\ toClose' = [toClose EXCEPT ![p] = <<ofile[p][d]>>]
  <2>1. CASE Files!ExitClose(p)
    <3>1. PICK d \in Files!Fd : d = Files!Min(Files!Used(p)) /\ ofile[p][d] # None
      BY <1>0, <2>1, LowestFree DEF Files!ExitClose
    <3> QED
      BY <2>1, <3>1 DEF Files!ExitClose, Files!Then
  <2>2. CASE \E d \in Files!Fd : Files!Close(p, d)
    BY <2>2 DEF Files!Close, Files!Then
  <2> QED
    BY <2>1, <2>2
<1>f. PICK f \in Files!File : f = ofile[p][d]
  BY <1>0, <1>2 DEF FileTypes
<1>3. /\ \A q \in Pair, e \in Files!Fd : ofile'[q][e] = IF q = p /\ e = d THEN None ELSE ofile[q][e]
      /\ \A q \in Pair : toClose'[q] = IF q = p THEN <<f>> ELSE toClose[q]
  BY <1>0, <1>2, <1>f DEF FileTypes
<1>4. FileTypes'
  <2>1. ofile' \in [Pair -> [Files!Fd -> Files!File \cup {None}]]
    BY <1>0, <1>2 DEF FileTypes
  <2>2. toClose' \in [Pair -> ShortSeq(Files!File)]
    BY <1>0, <1>2, <1>f DEF FileTypes, ShortSeq
  <2>3. /\ ref' \in [Files!File -> Nat] /\ type' \in [Files!File -> Files!Types]
        /\ readopen' \subseteq Pipe /\ writeopen' \subseteq Pipe /\ inodes' \in Nat
        /\ pc' \in [Pair -> {"unused", "user", "open", "pipe", "dup", "fork", "exit"}]
        /\ arg' \in [Pair -> Files!File \cup Pair \cup {None}] /\ release' \in [Pair -> Files!Types]
    BY <1>0, <1>1 DEF FileTypes
  <2> QED
    BY <2>1, <2>2, <2>3 DEF FileTypes, Files!File, Files!Fd, Files!Types, Files!Ends
<1>5. ASSUME NEW q \in Pair PROVE FileCaller(q)'
  <2>1. FileCaller(q) /\ (pc[q] = "fork" => pc[arg[q]] = "unused" /\ arg[q] \in Pair)
    BY <1>0 DEF FileCaller
  <2>2. pc'[q] # "fork" => FileCaller(q)'
    BY <1>1, <1>3, <2>1 DEF FileCaller, Files!File, Files!Fd
  <2>3. pc'[q] = "fork" => FileCaller(q)'
    BY <1>1, <1>3, <2>1 DEF FileCaller, Files!File, Files!Fd
  <2> QED
    BY <2>2, <2>3
<1>6. FreeIsUntyped' /\ EndsCounted' /\ InodesCounted'
  <2>1. NOpening' = NOpening
    BY <1>1, CallsStay
  <2> QED
    BY <1>0, <1>1, <2>1, EndsStay, InodesStay DEF FreeIsUntyped, Files!File
<1>7. ASSUME NEW g \in Files!File PROVE FileCounted(g)'
  <2>1. \A q \in Pair, e \in Files!Fd : q # p \/ e # d => ofile'[q][e] = ofile[q][e]
    BY <1>3
  <2>2. /\ \A q \in Pair : q # p => pc'[q] = pc[q] /\ arg'[q] = arg[q]
        /\ \A q \in Pair : q # p => toClose'[q] = toClose[q]
    BY <1>1, <1>3
  <2>3. PICK n \in Nat : n = Copies(<<f>>, g) /\ n = One(ofile[p][d] = g)
    <3>1. Copies(<<f>>, g) = IF f = g THEN 1 ELSE 0
      BY CopiesOfFew
    <3> QED
      BY <1>f, <3>1 DEF One
  <2>4. One(ofile'[p][d] = g) = 0 /\ Copies(toClose[p], g) = 0 /\ Copies(toClose'[p], g) = n
    BY <1>1, <1>3, <2>3, FileFacts, CopiesOfFew DEF One
  <2>5. PICK r \in Nat, a \in Nat, b \in Nat :
          /\ r = ref[g] /\ r = ref'[g]
          /\ a = One(pc[p] = "dup" /\ arg[p] = g) /\ a = One(pc'[p] = "dup" /\ arg'[p] = g)
          /\ b = One(pc[p] = "pipe" /\ arg[p] = g) /\ b = One(pc'[p] = "pipe" /\ arg'[p] = g)
    BY <1>0, <1>1 DEF One, FileTypes
  <2>6. ref'[g] + One(pc'[p] = "dup" /\ arg'[p] = g) + One(ofile[p][d] = g)
          + One(pc[p] = "pipe" /\ arg[p] = g) + Copies(toClose[p], g)
        = ref[g] + One(pc[p] = "dup" /\ arg[p] = g) + One(ofile'[p][d] = g)
          + One(pc'[p] = "pipe" /\ arg'[p] = g) + Copies(toClose'[p], g)
    <3>1. r + a + n + b + 0 = r + a + 0 + b + n
      OBVIOUS
    <3> QED
      BY <2>3, <2>4, <2>5, <3>1
  <2> QED
    BY <1>0, <1>4, <2>1, <2>2, <2>6, CountMoves
<1> QED
  BY <1>4, <1>5, <1>6, <1>7 DEF FileInv, Files!File

LEMMA DupIsKept ==
  ASSUME PartsAssumption, FileInv, NEW p \in Pair, NEW c \in Files!Fd, Files!Dup(p, c)
  PROVE  FileInv'
<1>0. /\ FileTypes /\ (\A q \in Pair : FileCaller(q)) /\ FreeIsUntyped
      /\ (\A g \in Files!File : FileCounted(g)) /\ EndsCounted /\ InodesCounted
  BY DEF FileInv
<1>f. PICK f \in Files!File : f = ofile[p][c]
  BY <1>0 DEF FileTypes, Files!Dup
<1>d. PICK d \in Files!Fd : d = Files!Min(Files!FreeFds(p)) /\ ofile[p][d] = None
  BY <1>0, LowestFree DEF Files!Dup
<1>1. /\ pc[p] = "user"
      /\ ofile' = [ofile EXCEPT ![p][d] = f]
      /\ pc' = [pc EXCEPT ![p] = "dup"] /\ arg' = [arg EXCEPT ![p] = f]
      /\ UNCHANGED <<ref, type, readopen, writeopen, inodes, toClose, release>>
  BY <1>f, <1>d DEF Files!Dup, Files!At, Files!Goto, Files!pipes
<1>2. /\ \A q \in Pair, e \in Files!Fd : ofile'[q][e] = IF q = p /\ e = d THEN f ELSE ofile[q][e]
      /\ \A q \in Pair : pc'[q] = (IF q = p THEN "dup" ELSE pc[q]) /\ arg'[q] = IF q = p THEN f ELSE arg[q]
  BY <1>0, <1>1 DEF FileTypes
<1>3. \A q \in Pair : q # p => pc'[q] = pc[q] /\ arg'[q] = arg[q]
  BY <1>2
<1>4. FileTypes'
  <2>1. ofile' \in [Pair -> [Files!Fd -> Files!File \cup {None}]]
    BY <1>0, <1>1 DEF FileTypes
  <2>2. /\ pc' \in [Pair -> {"unused", "user", "open", "pipe", "dup", "fork", "exit"}]
        /\ arg' \in [Pair -> Files!File \cup Pair \cup {None}]
    BY <1>0, <1>1 DEF FileTypes
  <2>3. /\ ref' \in [Files!File -> Nat] /\ type' \in [Files!File -> Files!Types]
        /\ readopen' \subseteq Pipe /\ writeopen' \subseteq Pipe /\ inodes' \in Nat
        /\ toClose' \in [Pair -> ShortSeq(Files!File)] /\ release' \in [Pair -> Files!Types]
    BY <1>0, <1>1 DEF FileTypes
  <2> QED
    BY <2>1, <2>2, <2>3 DEF FileTypes, Files!File, Files!Fd, Files!Types, Files!Ends
<1>5. ASSUME NEW q \in Pair PROVE FileCaller(q)'
  <2>1. FileCaller(q) /\ (pc[q] = "fork" => pc[arg[q]] = "unused" /\ arg[q] \in Pair)
    BY <1>0 DEF FileCaller
  <2>2. pc'[q] \notin {"fork", "unused"} => FileCaller(q)'
    BY <1>1, <1>2, <2>1 DEF FileCaller, Files!File, Files!Fd
  <2>3. pc'[q] = "fork" => FileCaller(q)'
    BY <1>1, <1>2, <2>1 DEF FileCaller, Files!File, Files!Fd
  <2>4. pc'[q] = "unused" => FileCaller(q)'
    BY <1>1, <1>2, <2>1 DEF FileCaller, Files!File, Files!Fd
  <2> QED
    BY <2>2, <2>3, <2>4
<1>6. NOpening' = NOpening
  <2>1. NOpening \in Nat /\ NOpening' \in Nat
        /\ NOpening' + One(pc[p] = "open") = NOpening + One(pc'[p] = "open")
    BY <1>3, CallsMove
  <2>2. One(pc[p] = "open") = 0 /\ One(pc'[p] = "open") = 0
    BY <1>1, <1>2 DEF One
  <2> QED
    BY <2>1, <2>2
<1>7. FreeIsUntyped' /\ EndsCounted' /\ InodesCounted'
  BY <1>0, <1>1, <1>6, EndsStay, InodesStay DEF FreeIsUntyped, Files!File
<1>8. ASSUME NEW g \in Files!File PROVE FileCounted(g)'
  <2>1. \A q \in Pair, e \in Files!Fd : q # p \/ e # d => ofile'[q][e] = ofile[q][e]
    BY <1>2
  <2>2. \A q \in Pair : q # p => toClose'[q] = toClose[q]
    BY <1>1
  <2>3. PICK n \in Nat : n = One(ofile'[p][d] = g) /\ n = One(pc'[p] = "dup" /\ arg'[p] = g)
    BY <1>2 DEF One
  <2>4. /\ One(ofile[p][d] = g) = 0 /\ One(pc[p] = "dup" /\ arg[p] = g) = 0
        /\ One(pc[p] = "pipe" /\ arg[p] = g) = 0 /\ One(pc'[p] = "pipe" /\ arg'[p] = g) = 0
    BY <1>1, <1>2, <1>d, FileFacts DEF One
  <2>5. PICK r \in Nat, a \in Nat :
          r = ref[g] /\ r = ref'[g] /\ a = Copies(toClose[p], g) /\ a = Copies(toClose'[p], g)
    <3>1. Copies(toClose[p], g) \in Nat
      BY <1>0, CopiesAreNat DEF FileTypes
    <3> QED
      BY <1>0, <1>1, <3>1 DEF FileTypes
  <2>6. ref'[g] + One(pc'[p] = "dup" /\ arg'[p] = g) + One(ofile[p][d] = g)
          + One(pc[p] = "pipe" /\ arg[p] = g) + Copies(toClose[p], g)
        = ref[g] + One(pc[p] = "dup" /\ arg[p] = g) + One(ofile'[p][d] = g)
          + One(pc'[p] = "pipe" /\ arg'[p] = g) + Copies(toClose'[p], g)
    <3>1. r + n + 0 + 0 + a = r + 0 + n + 0 + a
      OBVIOUS
    <3> QED
      BY <2>3, <2>4, <2>5, <3>1
  <2> QED
    BY <1>0, <1>3, <1>4, <2>1, <2>2, <2>6, CountMoves
<1> QED
  BY <1>4, <1>5, <1>7, <1>8 DEF FileInv, Files!File

LEMMA FileDupIsKept ==
  ASSUME PartsAssumption, FileInv, NEW p \in Pair, Files!FileDup(p)
  PROVE  FileInv'
<1>0. /\ FileTypes /\ (\A q \in Pair : FileCaller(q)) /\ FreeIsUntyped
      /\ (\A g \in Files!File : FileCounted(g)) /\ EndsCounted /\ InodesCounted
  BY DEF FileInv
<1>f. PICK f \in Files!File : f = arg[p]
  BY <1>0 DEF FileCaller, Files!FileDup, Files!At
<1>1. /\ pc[p] = "dup"
      /\ ref' = [ref EXCEPT ![f] = @ + 1]
      /\ pc' = [pc EXCEPT ![p] = "user"] /\ arg' = [arg EXCEPT ![p] = None]
      /\ UNCHANGED <<ofile, type, readopen, writeopen, inodes, toClose, release>>
  BY <1>f DEF Files!FileDup, Files!At, Files!Goto, Files!pipes
<1>2. /\ \A g \in Files!File : ref'[g] = (IF g = f THEN ref[f] + 1 ELSE ref[g]) /\ ref[g] \in Nat
      /\ \A q \in Pair : pc'[q] = (IF q = p THEN "user" ELSE pc[q]) /\ arg'[q] = IF q = p THEN None ELSE arg[q]
  BY <1>0, <1>1 DEF FileTypes
<1>3. \A q \in Pair : q # p => pc'[q] = pc[q] /\ arg'[q] = arg[q]
  BY <1>2
<1>4. FileTypes'
  <2>2. /\ ref' \in [Files!File -> Nat]
        /\ pc' \in [Pair -> {"unused", "user", "open", "pipe", "dup", "fork", "exit"}]
        /\ arg' \in [Pair -> Files!File \cup Pair \cup {None}]
    BY <1>0, <1>1 DEF FileTypes
  <2>3. /\ ofile' \in [Pair -> [Files!Fd -> Files!File \cup {None}]] /\ type' \in [Files!File -> Files!Types]
        /\ readopen' \subseteq Pipe /\ writeopen' \subseteq Pipe /\ inodes' \in Nat
        /\ toClose' \in [Pair -> ShortSeq(Files!File)] /\ release' \in [Pair -> Files!Types]
    BY <1>0, <1>1 DEF FileTypes
  <2> QED
    BY <2>2, <2>3 DEF FileTypes, Files!File, Files!Fd, Files!Types, Files!Ends
<1>5. ASSUME NEW q \in Pair PROVE FileCaller(q)'
  <2>1. FileCaller(q) /\ (pc[q] = "fork" => pc[arg[q]] = "unused" /\ arg[q] \in Pair)
    BY <1>0 DEF FileCaller
  <2>2. pc'[q] \notin {"fork", "unused"} => FileCaller(q)'
    BY <1>1, <1>2, <2>1 DEF FileCaller, Files!File, Files!Fd
  <2>3. pc'[q] = "fork" => FileCaller(q)'
    BY <1>1, <1>2, <2>1 DEF FileCaller, Files!File, Files!Fd
  <2>4. pc'[q] = "unused" => FileCaller(q)'
    BY <1>1, <1>2, <2>1 DEF FileCaller, Files!File, Files!Fd
  <2> QED
    BY <2>2, <2>3, <2>4
<1>6. NOpening' = NOpening
  <2>1. NOpening \in Nat /\ NOpening' \in Nat
        /\ NOpening' + One(pc[p] = "open") = NOpening + One(pc'[p] = "open")
    BY <1>3, CallsMove
  <2>2. One(pc[p] = "open") = 0 /\ One(pc'[p] = "open") = 0
    BY <1>1, <1>2 DEF One
  <2> QED
    BY <2>1, <2>2
<1>7. EndsCounted' /\ InodesCounted'
  BY <1>0, <1>1, <1>6, EndsStay, InodesStay
<1>9. FreeIsUntyped'
  BY <1>0, <1>1, <1>2 DEF FreeIsUntyped, Files!File
<1>8. ASSUME NEW g \in Files!File PROVE FileCounted(g)'
  <2>0. PICK d \in Files!Fd : TRUE
    BY DEF PartsAssumption, Files!FileAssumption, Files!Fd
  <2>1. \A q \in Pair, e \in Files!Fd : q # p \/ e # d => ofile'[q][e] = ofile[q][e]
    BY <1>1
  <2>2. \A q \in Pair : q # p => toClose'[q] = toClose[q]
    BY <1>1
  <2>3. PICK n \in Nat, r \in Nat : n = One(pc[p] = "dup" /\ arg[p] = g) /\ r = ref[g] /\ ref'[g] = r + n
    BY <1>1, <1>2, <1>f DEF One
  <2>4. /\ One(pc'[p] = "dup" /\ arg'[p] = g) = 0
        /\ One(pc[p] = "pipe" /\ arg[p] = g) = 0 /\ One(pc'[p] = "pipe" /\ arg'[p] = g) = 0
    BY <1>1, <1>2 DEF One
  <2>5. PICK b \in Nat, a \in Nat :
          /\ b = One(ofile[p][d] = g) /\ b = One(ofile'[p][d] = g)
          /\ a = Copies(toClose[p], g) /\ a = Copies(toClose'[p], g)
    <3>1. Copies(toClose[p], g) \in Nat
      BY <1>0, CopiesAreNat DEF FileTypes
    <3> QED
      BY <1>1, <3>1 DEF One
  <2>6. ref'[g] + One(pc'[p] = "dup" /\ arg'[p] = g) + One(ofile[p][d] = g)
          + One(pc[p] = "pipe" /\ arg[p] = g) + Copies(toClose[p], g)
        = ref[g] + One(pc[p] = "dup" /\ arg[p] = g) + One(ofile'[p][d] = g)
          + One(pc'[p] = "pipe" /\ arg'[p] = g) + Copies(toClose'[p], g)
    <3>1. (r + n) + 0 + b + 0 + a = r + n + b + 0 + a
      OBVIOUS
    <3> QED
      BY <2>3, <2>4, <2>5, <3>1
  <2> QED
    BY <1>0, <1>3, <1>4, <2>1, <2>2, <2>6, CountMoves
<1> QED
  BY <1>4, <1>5, <1>7, <1>8, <1>9 DEF FileInv, Files!File

LEMMA PipeFirstIsKept ==
  ASSUME PartsAssumption, FileInv, NEW p \in Pair, Files!PipeFirst(p)
  PROVE  FileInv'
<1>0. /\ FileTypes /\ (\A q \in Pair : FileCaller(q)) /\ FreeIsUntyped
      /\ (\A g \in Files!File : FileCounted(g)) /\ EndsCounted /\ InodesCounted
  BY DEF FileInv
<1>f. PICK f \in Files!File : f = Files!Min(Files!FreeFiles) /\ ref[f] = 0
  BY <1>0, LowestFree DEF Files!PipeFirst
<1>1. /\ pc[p] = "user" /\ type[f] = <<"none">>
      /\ ref' = [ref EXCEPT ![f] = 1]
      /\ pc' = [pc EXCEPT ![p] = "pipe"] /\ arg' = [arg EXCEPT ![p] = f]
      /\ UNCHANGED <<ofile, type, readopen, writeopen, inodes, toClose, release>>
  BY <1>0, <1>f DEF Files!PipeFirst, Files!At, Files!Goto, Files!pipes, FreeIsUntyped
<1>2. /\ \A g \in Files!File : ref'[g] = (IF g = f THEN 1 ELSE ref[g]) /\ ref[g] \in Nat
      /\ \A q \in Pair : pc'[q] = (IF q = p THEN "pipe" ELSE pc[q]) /\ arg'[q] = IF q = p THEN f ELSE arg[q]
  BY <1>0, <1>1 DEF FileTypes
<1>3. \A q \in Pair : q # p => pc'[q] = pc[q] /\ arg'[q] = arg[q]
  BY <1>2
<1>9. \A q \in Pair : pc[q] = "pipe" => arg[q] # f
  BY <1>f, HeldIsCounted
<1>4. FileTypes'
  <2>2. /\ ref' \in [Files!File -> Nat]
        /\ pc' \in [Pair -> {"unused", "user", "open", "pipe", "dup", "fork", "exit"}]
        /\ arg' \in [Pair -> Files!File \cup Pair \cup {None}]
    BY <1>0, <1>1 DEF FileTypes
  <2>3. /\ ofile' \in [Pair -> [Files!Fd -> Files!File \cup {None}]] /\ type' \in [Files!File -> Files!Types]
        /\ readopen' \subseteq Pipe /\ writeopen' \subseteq Pipe /\ inodes' \in Nat
        /\ toClose' \in [Pair -> ShortSeq(Files!File)] /\ release' \in [Pair -> Files!Types]
    BY <1>0, <1>1 DEF FileTypes
  <2> QED
    BY <2>2, <2>3 DEF FileTypes, Files!File, Files!Fd, Files!Types, Files!Ends
<1>5. ASSUME NEW q \in Pair PROVE FileCaller(q)'
  <2>1. FileCaller(q) /\ (pc[q] = "fork" => pc[arg[q]] = "unused" /\ arg[q] \in Pair)
    BY <1>0 DEF FileCaller
  <2>2. pc'[q] \notin {"fork", "unused"} => FileCaller(q)'
    BY <1>1, <1>2, <1>9, <2>1 DEF FileCaller, Files!File, Files!Fd
  <2>3. pc'[q] = "fork" => FileCaller(q)'
    BY <1>1, <1>2, <2>1 DEF FileCaller, Files!File, Files!Fd
  <2>4. pc'[q] = "unused" => FileCaller(q)'
    BY <1>1, <1>2, <2>1 DEF FileCaller, Files!File, Files!Fd
  <2> QED
    BY <2>2, <2>3, <2>4
<1>6. NOpening' = NOpening
  <2>1. NOpening \in Nat /\ NOpening' \in Nat
        /\ NOpening' + One(pc[p] = "open") = NOpening + One(pc'[p] = "open")
    BY <1>3, CallsMove
  <2>2. One(pc[p] = "open") = 0 /\ One(pc'[p] = "open") = 0
    BY <1>1, <1>2 DEF One
  <2> QED
    BY <2>1, <2>2
<1>7. FreeIsUntyped' /\ EndsCounted' /\ InodesCounted'
  BY <1>0, <1>1, <1>2, <1>6, EndsStay, InodesStay DEF FreeIsUntyped, Files!File
<1>8. ASSUME NEW g \in Files!File PROVE FileCounted(g)'
  <2>0. PICK d \in Files!Fd : TRUE
    BY DEF PartsAssumption, Files!FileAssumption, Files!Fd
  <2>1. \A q \in Pair, e \in Files!Fd : q # p \/ e # d => ofile'[q][e] = ofile[q][e]
    BY <1>1
  <2>2. \A q \in Pair : q # p => toClose'[q] = toClose[q]
    BY <1>1
  <2>3. PICK n \in Nat, r \in Nat : n = One(pc'[p] = "pipe" /\ arg'[p] = g) /\ r = ref[g] /\ ref'[g] = r + n
    BY <1>1, <1>2, <1>f DEF One
  <2>4. /\ One(pc[p] = "dup" /\ arg[p] = g) = 0 /\ One(pc'[p] = "dup" /\ arg'[p] = g) = 0
        /\ One(pc[p] = "pipe" /\ arg[p] = g) = 0
    BY <1>1, <1>2 DEF One
  <2>5. PICK b \in Nat, a \in Nat :
          /\ b = One(ofile[p][d] = g) /\ b = One(ofile'[p][d] = g)
          /\ a = Copies(toClose[p], g) /\ a = Copies(toClose'[p], g)
    <3>1. Copies(toClose[p], g) \in Nat
      BY <1>0, CopiesAreNat DEF FileTypes
    <3> QED
      BY <1>1, <3>1 DEF One
  <2>6. ref'[g] + One(pc'[p] = "dup" /\ arg'[p] = g) + One(ofile[p][d] = g)
          + One(pc[p] = "pipe" /\ arg[p] = g) + Copies(toClose[p], g)
        = ref[g] + One(pc[p] = "dup" /\ arg[p] = g) + One(ofile'[p][d] = g)
          + One(pc'[p] = "pipe" /\ arg'[p] = g) + Copies(toClose'[p], g)
    <3>1. (r + n) + 0 + b + 0 + a = r + 0 + b + n + a
      OBVIOUS
    <3> QED
      BY <2>3, <2>4, <2>5, <3>1
  <2> QED
    BY <1>0, <1>3, <1>4, <2>1, <2>2, <2>6, CountMoves
<1> QED
  BY <1>4, <1>5, <1>7, <1>8 DEF FileInv, Files!File

LEMMA PipeFailsIsKept ==
  ASSUME PartsAssumption, FileInv, NEW p \in Pair, Files!PipeFails(p)
  PROVE  FileInv'
<1>0. /\ FileTypes /\ (\A q \in Pair : FileCaller(q)) /\ FreeIsUntyped
      /\ (\A g \in Files!File : FileCounted(g)) /\ EndsCounted /\ InodesCounted
  BY DEF FileInv
<1>f. PICK f \in Files!File : f = arg[p] /\ ref[f] >= 1 /\ ref[f] \in Nat
  BY <1>0, HeldIsCounted DEF FileCaller, Files!PipeFails, Files!At, FileTypes
<1>1. /\ pc[p] = "pipe" /\ toClose[p] = <<>>
      /\ pc' = [pc EXCEPT ![p] = "user"] /\ arg' = [arg EXCEPT ![p] = None]
      /\ UNCHANGED <<ofile, type, readopen, writeopen, inodes, release>>
  BY DEF Files!PipeFails, Files!At, Files!Goto, Files!pipes
<1>2. \A q \in Pair : pc'[q] = (IF q = p THEN "user" ELSE pc[q]) /\ arg'[q] = IF q = p THEN None ELSE arg[q]
  BY <1>0, <1>1 DEF FileTypes
<1>3. \A q \in Pair : q # p => pc'[q] = pc[q] /\ arg'[q] = arg[q]
  BY <1>2
\* What is closed: the first file, or that one and a second one.
<1>c. /\ ref' \in [Files!File -> Nat] /\ toClose' \in [Pair -> ShortSeq(Files!File)]
      /\ \A q \in Pair : q # p => toClose'[q] = toClose[q]
      /\ \A g \in Files!File : /\ ref[g] \in Nat /\ (ref'[g] = 0 => ref[g] = 0)
                               /\ ref'[g] + One(g = f) = ref[g] + Copies(toClose'[p], g)
  <2>1. ASSUME UNCHANGED ref, toClose' = [toClose EXCEPT ![p] = <<f>>] PROVE <1>c!:
    <3>1. \A q \in Pair : toClose'[q] = IF q = p THEN <<f>> ELSE toClose[q]
      BY <1>0, <2>1 DEF FileTypes
    <3>2. /\ ref' \in [Files!File -> Nat] /\ toClose' \in [Pair -> ShortSeq(Files!File)]
      BY <1>0, <2>1 DEF FileTypes, ShortSeq
    <3>3. ASSUME NEW g \in Files!File
          PROVE  ref[g] \in Nat /\ ref'[g] = ref[g] /\ One(g = f) = Copies(toClose'[p], g)
      <4>1. Copies(<<f>>, g) = IF f = g THEN 1 ELSE 0
        BY CopiesOfFew
      <4> QED
        BY <1>0, <2>1, <3>1, <4>1 DEF One, FileTypes
    <3> QED
      BY <3>1, <3>2, <3>3
  <2>2. ASSUME NEW h \in Files!File, ref[h] = 0, ref' = [ref EXCEPT ![h] = 1],
               toClose' = [toClose EXCEPT ![p] = <<f, h>>]
        PROVE <1>c!:
    <3>0. h # f
      BY <1>f, <2>2
    <3>1. \A q \in Pair : toClose'[q] = IF q = p THEN <<f, h>> ELSE toClose[q]
      BY <1>0, <2>2 DEF FileTypes
    <3>2. /\ ref' \in [Files!File -> Nat] /\ toClose' \in [Pair -> ShortSeq(Files!File)]
      BY <1>0, <2>2 DEF FileTypes, ShortSeq
    <3>3. ASSUME NEW g \in Files!File
          PROVE  /\ ref[g] \in Nat /\ ref'[g] = (IF g = h THEN 1 ELSE ref[g])
                 /\ ref'[g] + One(g = f) = ref[g] + Copies(toClose'[p], g)
      <4>1. Copies(<<f, h>>, g) = (IF f = g THEN 1 ELSE 0) + (IF h = g THEN 1 ELSE 0)
        BY CopiesOfFew
      <4>2. toClose'[p] = <<f, h>>
        BY <3>1
      <4>3. ref[g] \in Nat /\ ref'[g] = (IF g = h THEN 1 ELSE ref[g])
        BY <1>0, <2>2 DEF FileTypes
      <4>4. ref'[g] + One(g = f) = ref[g] + Copies(<<f, h>>, g)
        BY <2>2, <3>0, <4>1, <4>3 DEF One
      <4> QED
        BY <4>2, <4>3, <4>4
    <3> QED
      BY <3>1, <3>2, <3>3
  <2>3. CASE Files!FreeFiles = {}
    BY <1>f, <2>1, <2>3 DEF Files!PipeFails, Files!Then
  <2>4. CASE Files!FreeFiles # {}
    <3>1. PICK h \in Files!File : h = Files!Min(Files!FreeFiles) /\ ref[h] = 0
      BY <1>0, <2>4, LowestFree
    <3>2. ref' = [ref EXCEPT ![h] = 1] /\ toClose' = [toClose EXCEPT ![p] = <<f, h>>]
      BY <1>f, <2>4, <3>1 DEF Files!PipeFails, Files!Then
    <3> QED
      BY <2>2, <3>1, <3>2
  <2> QED
    BY <2>3, <2>4
<1>4. FileTypes'
  <2>2. /\ pc' \in [Pair -> {"unused", "user", "open", "pipe", "dup", "fork", "exit"}]
        /\ arg' \in [Pair -> Files!File \cup Pair \cup {None}]
    BY <1>0, <1>1 DEF FileTypes
  <2>3. /\ ofile' \in [Pair -> [Files!Fd -> Files!File \cup {None}]] /\ type' \in [Files!File -> Files!Types]
        /\ readopen' \subseteq Pipe /\ writeopen' \subseteq Pipe /\ inodes' \in Nat
        /\ release' \in [Pair -> Files!Types]
    BY <1>0, <1>1 DEF FileTypes
  <2> QED
    BY <1>c, <2>2, <2>3 DEF FileTypes, Files!File, Files!Fd, Files!Types, Files!Ends
<1>5. ASSUME NEW q \in Pair PROVE FileCaller(q)'
  <2>1. FileCaller(q) /\ (pc[q] = "fork" => pc[arg[q]] = "unused" /\ arg[q] \in Pair)
    BY <1>0 DEF FileCaller
  <2>2. pc'[q] \notin {"fork", "unused"} => FileCaller(q)'
    BY <1>1, <1>2, <2>1 DEF FileCaller, Files!File, Files!Fd
  <2>3. pc'[q] = "fork" => FileCaller(q)'
    BY <1>1, <1>2, <2>1 DEF FileCaller, Files!File, Files!Fd
  <2>4. pc'[q] = "unused" => FileCaller(q)'
    BY <1>1, <1>2, <2>1 DEF FileCaller, Files!File, Files!Fd
  <2> QED
    BY <2>2, <2>3, <2>4
<1>6. NOpening' = NOpening
  <2>1. NOpening \in Nat /\ NOpening' \in Nat
        /\ NOpening' + One(pc[p] = "open") = NOpening + One(pc'[p] = "open")
    BY <1>3, CallsMove
  <2>2. One(pc[p] = "open") = 0 /\ One(pc'[p] = "open") = 0
    BY <1>1, <1>2 DEF One
  <2> QED
    BY <2>1, <2>2
<1>7. EndsCounted' /\ InodesCounted'
  BY <1>0, <1>1, <1>6, EndsStay, InodesStay
<1>9. FreeIsUntyped'
  BY <1>0, <1>1, <1>c DEF FreeIsUntyped, Files!File
<1>8. ASSUME NEW g \in Files!File PROVE FileCounted(g)'
  <2>0. PICK d \in Files!Fd : TRUE
    BY DEF PartsAssumption, Files!FileAssumption, Files!Fd
  <2>1. \A q \in Pair, e \in Files!Fd : q # p \/ e # d => ofile'[q][e] = ofile[q][e]
    BY <1>1
  <2>3. PICK n \in Nat, r \in Nat, s \in Nat, a \in Nat :
          /\ n = One(pc[p] = "pipe" /\ arg[p] = g) /\ n = One(g = f)
          /\ r = ref[g] /\ s = ref'[g] /\ a = Copies(toClose'[p], g)
    <3>1. Copies(toClose'[p], g) \in Nat
      BY <1>c, CopiesAreNat
    <3>2. One(pc[p] = "pipe" /\ arg[p] = g) = One(g = f) /\ One(g = f) \in Nat
      BY <1>1, <1>f DEF One
    <3>3. ref'[g] \in Nat /\ ref[g] \in Nat
      BY <1>c
    <3> QED
      BY <3>1, <3>2, <3>3
  <2>4. /\ One(pc[p] = "dup" /\ arg[p] = g) = 0 /\ One(pc'[p] = "dup" /\ arg'[p] = g) = 0
        /\ One(pc'[p] = "pipe" /\ arg'[p] = g) = 0
    BY <1>1, <1>2 DEF One
  <2>5. PICK b \in Nat : b = One(ofile[p][d] = g) /\ b = One(ofile'[p][d] = g)
    BY <1>1 DEF One
  <2>7. Copies(toClose[p], g) = 0
    BY <1>1, CopiesOfFew
  <2>8. s + n = r + a
    BY <1>c, <2>3
  <2>6. ref'[g] + One(pc'[p] = "dup" /\ arg'[p] = g) + One(ofile[p][d] = g)
          + One(pc[p] = "pipe" /\ arg[p] = g) + Copies(toClose[p], g)
        = ref[g] + One(pc[p] = "dup" /\ arg[p] = g) + One(ofile'[p][d] = g)
          + One(pc'[p] = "pipe" /\ arg'[p] = g) + Copies(toClose'[p], g)
    <3>1. s + 0 + b + n + 0 = r + 0 + b + 0 + a
      BY <2>8
    <3> QED
      BY <2>3, <2>4, <2>5, <2>7, <3>1
  <2> QED
    BY <1>0, <1>3, <1>4, <1>c, <2>1, <2>6, CountMoves
<1> QED
  BY <1>4, <1>5, <1>7, <1>8, <1>9 DEF FileInv, Files!File

LEMMA ForkDupIsKept ==
  ASSUME PartsAssumption, FileInv, NEW p \in Pair, Files!ForkDup(p)
  PROVE  FileInv'
<1>0. /\ FileTypes /\ (\A q \in Pair : FileCaller(q)) /\ FreeIsUntyped
      /\ (\A g \in Files!File : FileCounted(g)) /\ EndsCounted /\ InodesCounted
  BY DEF FileInv
<1>o. PICK o \in Pair : o = arg[p] /\ pc[o] = "unused" /\ o # p
  BY <1>0 DEF FileCaller, Files!ForkDup, Files!At
<1>d. PICK d \in Files!Fd : d = Files!Min(Files!NotCopied(p)) /\ ofile[p][d] # ofile[o][d]
  <2>1. Files!NotCopied(p) \subseteq Nat /\ Files!NotCopied(p) # {}
    BY FileFacts DEF Files!NotCopied, Files!ForkDup
  <2>2. Files!Min(Files!NotCopied(p)) \in Files!NotCopied(p)
    BY <2>1, LeastOf
  <2> QED
    BY <1>o, <2>2 DEF Files!NotCopied
<1>f. PICK f \in Files!File : f = ofile[p][d] /\ ofile[o][d] = None
  <2>1. pc[p] = "fork" /\ ofile[o][d] \in {None, ofile[p][d]}
    BY <1>0, <1>o DEF FileCaller, Files!ForkDup, Files!At
  <2> QED
    BY <1>0, <1>d, <2>1 DEF FileTypes
<1>1. /\ pc[p] = "fork"
      /\ ref' = [ref EXCEPT ![f] = @ + 1]
      /\ ofile' = [ofile EXCEPT ![o][d] = f]
      /\ UNCHANGED <<type, readopen, writeopen, inodes, pc, arg, toClose, release>>
  BY <1>o, <1>d, <1>f DEF Files!ForkDup, Files!At, Files!pipes
<1>2. /\ \A g \in Files!File : ref'[g] = (IF g = f THEN ref[f] + 1 ELSE ref[g]) /\ ref[g] \in Nat
      /\ \A q \in Pair, e \in Files!Fd : ofile'[q][e] = IF q = o /\ e = d THEN f ELSE ofile[q][e]
  BY <1>0, <1>1 DEF FileTypes
<1>4. FileTypes'
  <2>2. ref' \in [Files!File -> Nat] /\ ofile' \in [Pair -> [Files!Fd -> Files!File \cup {None}]]
    BY <1>0, <1>1 DEF FileTypes
  <2>3. /\ type' \in [Files!File -> Files!Types]
        /\ readopen' \subseteq Pipe /\ writeopen' \subseteq Pipe /\ inodes' \in Nat
        /\ pc' \in [Pair -> {"unused", "user", "open", "pipe", "dup", "fork", "exit"}]
        /\ arg' \in [Pair -> Files!File \cup Pair \cup {None}]
        /\ toClose' \in [Pair -> ShortSeq(Files!File)] /\ release' \in [Pair -> Files!Types]
    BY <1>0, <1>1 DEF FileTypes
  <2> QED
    BY <2>2, <2>3 DEF FileTypes, Files!File, Files!Fd, Files!Types, Files!Ends
<1>5. ASSUME NEW q \in Pair PROVE FileCaller(q)'
  <2>1. FileCaller(q) /\ (pc[q] = "fork" => pc[arg[q]] = "unused" /\ arg[q] \in Pair)
    BY <1>0 DEF FileCaller
  <2>2. pc'[q] \notin {"fork", "unused"} => FileCaller(q)'
    BY <1>1, <1>2, <1>o, <2>1 DEF FileCaller, Files!File, Files!Fd
  <2>3. pc'[q] = "fork" => FileCaller(q)'
    BY <1>1, <1>2, <1>o, <1>f, <2>1 DEF FileCaller, Files!File, Files!Fd
  <2>4. pc'[q] = "unused" => FileCaller(q)'
    BY <1>1, <1>2, <1>o, <2>1 DEF FileCaller, Files!File, Files!Fd
  <2> QED
    BY <2>2, <2>3, <2>4
<1>7. EndsCounted' /\ InodesCounted'
  <2>1. NOpening' = NOpening
    BY <1>1, CallsStay
  <2> QED
    BY <1>0, <1>1, <2>1, EndsStay, InodesStay
<1>9. FreeIsUntyped'
  BY <1>0, <1>1, <1>2 DEF FreeIsUntyped, Files!File
<1>8. ASSUME NEW g \in Files!File PROVE FileCounted(g)'
  <2>1. \A q \in Pair, e \in Files!Fd : q # o \/ e # d => ofile'[q][e] = ofile[q][e]
    BY <1>2
  <2>2. /\ \A q \in Pair : q # p => toClose'[q] = toClose[q]
        /\ \A q \in Pair : q # p => pc'[q] = pc[q] /\ arg'[q] = arg[q]
    BY <1>1
  <2>3. PICK n \in Nat, r \in Nat : n = One(ofile'[o][d] = g) /\ r = ref[g] /\ ref'[g] = r + n
    BY <1>1, <1>2, <1>f DEF One
  <2>4. /\ One(pc[p] = "dup" /\ arg[p] = g) = 0 /\ One(pc'[p] = "dup" /\ arg'[p] = g) = 0
        /\ One(pc[p] = "pipe" /\ arg[p] = g) = 0 /\ One(pc'[p] = "pipe" /\ arg'[p] = g) = 0
        /\ One(ofile[o][d] = g) = 0
    BY <1>1, <1>f, FileFacts DEF One
  <2>5. PICK a \in Nat : a = Copies(toClose[p], g) /\ a = Copies(toClose'[p], g)
    <3>1. Copies(toClose[p], g) \in Nat
      BY <1>0, CopiesAreNat DEF FileTypes
    <3> QED
      BY <1>1, <3>1
  <2>6. ref'[g] + One(pc'[p] = "dup" /\ arg'[p] = g) + One(ofile[o][d] = g)
          + One(pc[p] = "pipe" /\ arg[p] = g) + Copies(toClose[p], g)
        = ref[g] + One(pc[p] = "dup" /\ arg[p] = g) + One(ofile'[o][d] = g)
          + One(pc'[p] = "pipe" /\ arg'[p] = g) + Copies(toClose'[p], g)
    <3>1. (r + n) + 0 + 0 + 0 + a = r + 0 + n + 0 + a
      OBVIOUS
    <3> QED
      BY <2>3, <2>4, <2>5, <3>1
  <2> QED
    BY <1>0, <1>4, <2>1, <2>2, <2>6, CountMoves
<1> QED
  BY <1>4, <1>5, <1>7, <1>8, <1>9 DEF FileInv, Files!File

LEMMA ForkEndIsKept ==
  ASSUME PartsAssumption, FileInv, NEW p \in Pair, Files!ForkEnd(p)
  PROVE  FileInv'
<1>0. /\ FileTypes /\ (\A q \in Pair : FileCaller(q)) /\ FreeIsUntyped
      /\ (\A g \in Files!File : FileCounted(g)) /\ EndsCounted /\ InodesCounted
  BY DEF FileInv
<1>o. PICK o \in Pair : o = arg[p] /\ pc[o] = "unused" /\ o # p
  BY <1>0 DEF FileCaller, Files!ForkEnd, Files!At
<1>1. /\ pc[p] = "fork"
      /\ UNCHANGED <<ref, ofile, type, readopen, writeopen, inodes, toClose, release>>
  BY DEF Files!ForkEnd, Files!At, Files!pipes
<1>e. pc' = [pc EXCEPT ![p] = "user", ![o] = "user"] /\ arg' = [arg EXCEPT ![p] = None]
  BY <1>o DEF Files!ForkEnd
<1>2. \A q \in Pair : /\ pc'[q] = IF q = p \/ q = o THEN "user" ELSE pc[q]
                      /\ arg'[q] = IF q = p THEN None ELSE arg[q]
  BY <1>0, <1>e DEF FileTypes
<1>3. (\A f : NPipes(f)' = NPipes(f) /\ NDups(f)' = NDups(f)) /\ NOpening' = NOpening
  <2>1. ASSUME NEW f PROVE PipesWith(f)' = PipesWith(f)
    BY <1>1, <1>2, <1>o DEF PipesWith
  <2>2. ASSUME NEW f PROVE DupsOf(f)' = DupsOf(f)
    BY <1>1, <1>2, <1>o DEF DupsOf
  <2>3. Opening' = Opening
    BY <1>1, <1>2, <1>o DEF Opening
  <2> QED
    BY <2>1, <2>2, <2>3 DEF NPipes, NDups, NOpening
<1>4. FileTypes'
  <2>2. /\ pc' \in [Pair -> {"unused", "user", "open", "pipe", "dup", "fork", "exit"}]
        /\ arg' \in [Pair -> Files!File \cup Pair \cup {None}]
    BY <1>0, <1>e DEF FileTypes
  <2>3. /\ ref' \in [Files!File -> Nat] /\ type' \in [Files!File -> Files!Types]
        /\ ofile' \in [Pair -> [Files!Fd -> Files!File \cup {None}]]
        /\ readopen' \subseteq Pipe /\ writeopen' \subseteq Pipe /\ inodes' \in Nat
        /\ toClose' \in [Pair -> ShortSeq(Files!File)] /\ release' \in [Pair -> Files!Types]
    BY <1>0, <1>1 DEF FileTypes
  <2> QED
    BY <2>2, <2>3 DEF FileTypes, Files!File, Files!Fd, Files!Types, Files!Ends
<1>5. ASSUME NEW q \in Pair PROVE FileCaller(q)'
  <2>1. /\ FileCaller(q) /\ (pc[q] = "fork" => pc[arg[q]] = "unused" /\ arg[q] \in Pair)
        /\ (pc[q] = "fork" /\ arg[q] = o => q = p)
    BY <1>0, <1>1, <1>o DEF FileCaller
  <2>2. pc'[q] \notin {"fork", "unused"} => FileCaller(q)'
    BY <1>1, <1>2, <1>o, <2>1 DEF FileCaller, Files!File, Files!Fd
  <2>3. pc'[q] = "fork" => FileCaller(q)'
    BY <1>1, <1>2, <1>o, <2>1 DEF FileCaller, Files!File, Files!Fd
  <2>4. pc'[q] = "unused" => FileCaller(q)'
    BY <1>1, <1>2, <1>o, <2>1 DEF FileCaller, Files!File, Files!Fd
  <2> QED
    BY <2>2, <2>3, <2>4
<1>6. FreeIsUntyped' /\ EndsCounted' /\ InodesCounted'
  BY <1>0, <1>1, <1>3, EndsStay, InodesStay DEF FreeIsUntyped, Files!File
<1>7. \A g \in Files!File : FileCounted(g)'
  BY <1>0, <1>1, <1>3, CountStays
<1> QED
  BY <1>4, <1>5, <1>6, <1>7 DEF FileInv, Files!File

\* The two descriptors of a pipe.
OnlySlots(p, d, c) ==
  \A q \in Pair, e \in Files!Fd : q # p \/ (e # d /\ e # c) => ofile'[q][e] = ofile[q][e]

LEMMA SlotsMoveTwice ==
  ASSUME PartsAssumption, NEW p \in Pair, NEW d \in Files!Fd, NEW c \in Files!Fd, d # c, NEW f,
         OnlySlots(p, d, c)
  PROVE  /\ NSlots(f)' + One(ofile[p][d] = f) + One(ofile[p][c] = f)
              = NSlots(f) + One(ofile'[p][d] = f) + One(ofile'[p][c] = f)
         /\ NSlots(f) \in Nat /\ NSlots(f)' \in Nat
<1>1. PICK A, B, S, x, y : A = SlotsFor(f) /\ B = SlotsFor(f)' /\ S = Pair \X Files!Fd
                           /\ x = <<p, d>> /\ y = <<p, c>>
  OBVIOUS
<1>2. IsFiniteSet(S) /\ A \subseteq S /\ B \subseteq S /\ x \in S /\ y \in S /\ x # y
  BY <1>1, FileFacts, FS_Product DEF SlotsFor, Files!Fd
<1>3. \A s \in S \ {x, y} : s \in A <=> s \in B
  <2> TAKE s \in S \ {x, y}
  <2>1. PICK q \in Pair, e \in Files!Fd : s = <<q, e>>
    BY <1>1
  <2>2. ofile'[q][e] = ofile[q][e]
    BY <1>1, <2>1 DEF OnlySlots
  <2>3. (s \in SlotsFor(f) <=> ofile[q][e] = f) /\ (s \in SlotsFor(f)' <=> ofile'[q][e] = f)
    BY <2>1 DEF SlotsFor, Files!Fd
  <2>4. s \in SlotsFor(f) <=> s \in SlotsFor(f)'
    BY <2>2, <2>3
  <2>5. A = SlotsFor(f) /\ B = SlotsFor(f)'
    BY <1>1
  <2> QED
    BY <2>4, <2>5, Zenon
<1>4. Cardinality(B) + Among(x, A) + Among(y, A) = Cardinality(A) + Among(x, B) + Among(y, B)
  BY <1>2, <1>3, CountOfTwo
<1>5. Cardinality(A) \in Nat /\ Cardinality(B) \in Nat
  BY <1>2, CountIsNat
<1>6. /\ Among(x, A) = One(ofile[p][d] = f) /\ Among(x, B) = One(ofile'[p][d] = f)
      /\ Among(y, A) = One(ofile[p][c] = f) /\ Among(y, B) = One(ofile'[p][c] = f)
  BY <1>1 DEF Among, SlotsFor, One, Files!Fd
<1> QED
  BY <1>1, <1>4, <1>5, <1>6 DEF NSlots

LEMMA PipeMakeIsKept ==
  ASSUME PartsAssumption, FileInv, NEW p \in Pair, Files!PipeMake(p)
  PROVE  FileInv'
<1>0. /\ FileTypes /\ (\A q \in Pair : FileCaller(q)) /\ FreeIsUntyped
      /\ (\A g \in Files!File : FileCounted(g)) /\ EndsCounted /\ InodesCounted
  BY DEF FileInv
<1>f. PICK f \in Files!File : f = arg[p] /\ ref[f] >= 1 /\ type[f] = <<"none">>
  BY <1>0, HeldIsCounted DEF FileCaller, Files!PipeMake, Files!At, FileTypes
<1>h. PICK h \in Files!File : h = Files!Min(Files!FreeFiles) /\ ref[h] = 0
  BY <1>0, LowestFree DEF Files!PipeMake
<1>q. PICK z \in Pipe : z = (CHOOSE s \in Files!FreePipes : TRUE) /\ z \notin readopen /\ z \notin writeopen
  BY DEF Files!PipeMake, Files!FreePipes
<1>1. /\ pc[p] = "pipe" /\ toClose[p] = <<>> /\ type[h] = <<"none">>
      /\ ref' = [ref EXCEPT ![h] = 1]
      /\ readopen' = readopen \cup {z} /\ writeopen' = writeopen \cup {z}
      /\ pc' = [pc EXCEPT ![p] = "user"] /\ arg' = [arg EXCEPT ![p] = None]
      /\ UNCHANGED <<inodes, release>>
  BY <1>0, <1>f, <1>h, <1>q DEF Files!PipeMake, Files!At, Files!Goto, FreeIsUntyped
<1>fh. f # h
  BY <1>f, <1>h
<1>t. type' = [type EXCEPT ![f] = <<"r", z>>, ![h] = <<"w", z>>]
  BY <1>f, <1>h, <1>q DEF Files!PipeMake
<1>2. /\ \A q \in Pair : pc'[q] = (IF q = p THEN "user" ELSE pc[q]) /\ arg'[q] = IF q = p THEN None ELSE arg[q]
      /\ \A g \in Files!File : /\ ref'[g] = (IF g = h THEN 1 ELSE ref[g]) /\ ref[g] \in Nat
                               /\ type'[g] = IF g = f THEN <<"r", z>> ELSE IF g = h THEN <<"w", z>> ELSE type[g]
  BY <1>0, <1>1, <1>fh, <1>t DEF FileTypes
<1>3. \A q \in Pair : q # p => pc'[q] = pc[q] /\ arg'[q] = arg[q]
  BY <1>2
<1>9. \A q \in Pair : pc[q] = "pipe" => arg[q] # h
  BY <1>h, HeldIsCounted
\* The files go to two descriptors, or back.
<1>c. \/ \E d, e \in Files!Fd : /\ d # e /\ ofile[p][d] = None /\ ofile[p][e] = None
                                /\ ofile' = [ofile EXCEPT ![p][d] = f, ![p][e] = h] /\ UNCHANGED toClose
      \/ toClose' = [toClose EXCEPT ![p] = <<f, h>>] /\ UNCHANGED ofile
  <2>1. CASE toClose' = [toClose EXCEPT ![p] = <<f, h>>] /\ UNCHANGED ofile
    BY <2>1
  <2>2. CASE ~ (toClose' = [toClose EXCEPT ![p] = <<f, h>>] /\ UNCHANGED ofile)
    <3> DEFINE d == Files!Min(Files!FreeFds(p))
               e == Files!Min(Files!FreeFds(p) \ {d})
    <3>1. /\ Files!Cardinality(Files!FreeFds(p)) >= 2
          /\ ofile' = [ofile EXCEPT ![p][d] = f, ![p][e] = h] /\ UNCHANGED toClose
      BY <1>f, <1>h, <2>2 DEF Files!PipeMake, Files!Then
    <3>2. Files!FreeFds(p) \subseteq Files!Fd /\ IsFiniteSet(Files!Fd) /\ Files!Fd \subseteq Nat
      BY FileFacts DEF Files!FreeFds
    <3>3. Cardinality(Files!FreeFds(p)) >= 2
      BY <3>1, FileCounts
    <3>4. Files!FreeFds(p) # {}
      BY <3>3, FS_EmptySet
    <3>5. d \in Files!FreeFds(p)
      BY <3>2, <3>4, LeastOf
    <3> HIDE DEF d
    <3>6. Files!FreeFds(p) \ {d} # {}
      <4>1. ASSUME Files!FreeFds(p) \ {d} = {} PROVE FALSE
        <5>1. Files!FreeFds(p) = {d}
          BY <3>5, <4>1
        <5>2. Cardinality(Files!FreeFds(p)) = 1
          BY <5>1, FS_Singleton
        <5> QED
          BY <3>3, <5>2
      <4> QED
        BY <4>1
    <3>7. e \in Files!FreeFds(p) \ {d}
      <4>1. Files!FreeFds(p) \ {d} \subseteq Nat
        BY <3>2
      <4> QED
        BY <3>6, <4>1, LeastOf
    <3> HIDE DEF e
    <3>8. d \in Files!Fd /\ e \in Files!Fd /\ d # e /\ ofile[p][d] = None /\ ofile[p][e] = None
      BY <3>5, <3>7 DEF Files!FreeFds
    <3> QED
      BY <3>1, <3>8
  <2> QED
    BY <2>1, <2>2
<1>4. FileTypes'
  <2>1. ref' \in [Files!File -> Nat] /\ type' \in [Files!File -> Files!Types]
    <3>1. <<"r", z>> \in Files!Types /\ <<"w", z>> \in Files!Types
      BY DEF Files!Types, Files!Ends
    <3> QED
      BY <1>0, <1>1, <1>t, <3>1 DEF FileTypes
  <2>2. /\ pc' \in [Pair -> {"unused", "user", "open", "pipe", "dup", "fork", "exit"}]
        /\ arg' \in [Pair -> Files!File \cup Pair \cup {None}]
    BY <1>0, <1>1 DEF FileTypes
  <2>3. /\ readopen' \subseteq Pipe /\ writeopen' \subseteq Pipe /\ inodes' \in Nat
        /\ release' \in [Pair -> Files!Types]
    BY <1>0, <1>1 DEF FileTypes
  <2>4. ofile' \in [Pair -> [Files!Fd -> Files!File \cup {None}]] /\ toClose' \in [Pair -> ShortSeq(Files!File)]
    <3>1. CASE toClose' = [toClose EXCEPT ![p] = <<f, h>>] /\ UNCHANGED ofile
      BY <1>0, <3>1 DEF FileTypes, ShortSeq
    <3>2. CASE ~ (toClose' = [toClose EXCEPT ![p] = <<f, h>>] /\ UNCHANGED ofile)
      <4>1. PICK d \in Files!Fd, e \in Files!Fd :
              ofile' = [ofile EXCEPT ![p][d] = f, ![p][e] = h] /\ UNCHANGED toClose
        BY <1>c, <3>2
      <4> QED
        BY <1>0, <4>1 DEF FileTypes
    <3> QED
      BY <3>1, <3>2
  <2> QED
    BY <2>1, <2>2, <2>3, <2>4 DEF FileTypes, Files!File, Files!Fd, Files!Types, Files!Ends
<1>g. \A q \in Pair : q # p => \A e \in Files!Fd : ofile'[q][e] = ofile[q][e]
  <2>1. CASE toClose' = [toClose EXCEPT ![p] = <<f, h>>] /\ UNCHANGED ofile
    BY <2>1
  <2>2. CASE ~ (toClose' = [toClose EXCEPT ![p] = <<f, h>>] /\ UNCHANGED ofile)
    BY <1>0, <1>c, <2>2 DEF FileTypes
  <2> QED
    BY <2>1, <2>2
<1>5. ASSUME NEW q \in Pair PROVE FileCaller(q)'
  <2>1. /\ FileCaller(q) /\ (pc[q] = "fork" => pc[arg[q]] = "unused" /\ arg[q] \in Pair)
        /\ (pc[q] = "pipe" /\ arg[q] = f => q = p)
    BY <1>0, <1>1, <1>f DEF FileCaller
  <2>2. pc'[q] \notin {"fork", "unused"} => FileCaller(q)'
    BY <1>1, <1>2, <1>9, <1>g, <2>1 DEF FileCaller, Files!File, Files!Fd
  <2>3. pc'[q] = "fork" => FileCaller(q)'
    BY <1>1, <1>2, <1>g, <2>1 DEF FileCaller, Files!File, Files!Fd
  <2>4. pc'[q] = "unused" => FileCaller(q)'
    BY <1>1, <1>2, <1>g, <2>1 DEF FileCaller, Files!File, Files!Fd
  <2> QED
    BY <2>2, <2>3, <2>4
<1>6. NOpening' = NOpening
  <2>1. NOpening \in Nat /\ NOpening' \in Nat
        /\ NOpening' + One(pc[p] = "open") = NOpening + One(pc'[p] = "open")
    BY <1>3, CallsMove
  <2>2. One(pc[p] = "open") = 0 /\ One(pc'[p] = "open") = 0
    BY <1>1, <1>2 DEF One
  <2> QED
    BY <2>1, <2>2
<1>7. FreeIsUntyped'
  BY <1>0, <1>f, <1>2 DEF FreeIsUntyped, Files!File
<1>8. \A t : NReleasers(t)' = NReleasers(t) /\ NReleasers(t) \in Nat /\ NFiles(t) \in Nat
  BY <1>1, ReleasersStay, ReleaseNumbers
<1>10. ASSUME NEW t, t # <<"none">>
       PROVE  /\ NFiles(t)' = NFiles(t) + One(t = <<"r", z>>) + One(t = <<"w", z>>)
  <2>1. /\ NFiles(t)' + One(type[f] = t) + One(type[h] = t) = NFiles(t) + One(type'[f] = t) + One(type'[h] = t)
        /\ NFiles(t) \in Nat /\ NFiles(t)' \in Nat
    BY <1>2, <1>fh, FilesMoveTwice
  <2>2. /\ One(type[f] = t) = 0 /\ One(type[h] = t) = 0
        /\ One(type'[f] = t) = One(t = <<"r", z>>) /\ One(type'[h] = t) = One(t = <<"w", z>>)
    BY <1>1, <1>2, <1>f, <1>fh, <1>10 DEF One
  <2>3. One(t = <<"r", z>>) \in Nat /\ One(t = <<"w", z>>) \in Nat
    BY DEF One
  <2>4. PICK a \in Nat, b \in Nat, m \in Nat, n \in Nat :
          a = NFiles(t) /\ b = NFiles(t)' /\ m = One(t = <<"r", z>>) /\ n = One(t = <<"w", z>>)
    BY <2>1, <2>3
  <2>5. b + 0 + 0 = a + m + n
    BY <2>1, <2>2, <2>4
  <2>6. b = a + m + n
    BY <2>5
  <2> QED
    BY <2>4, <2>6
<1>11. EndsCounted'
  <2>1. ASSUME NEW q \in Pipe PROVE NFiles(<<"r", q>>)' + NReleasers(<<"r", q>>)' = One(q \in readopen')
    <3>1. NFiles(<<"r", q>>) + NReleasers(<<"r", q>>) = One(q \in readopen)
      BY <1>0, ReleasedAs
    <3>2. One(<<"r", q>> = <<"w", z>>) = 0 /\ One(<<"r", q>> = <<"r", z>>) = One(q = z)
      BY DEF One
    <3>3. NFiles(<<"r", q>>)' = NFiles(<<"r", q>>) + One(q = z)
      <4>1. NFiles(<<"r", q>>)' = NFiles(<<"r", q>>) + One(q = z) + 0
        BY <1>10, <3>2, EndTypes
      <4>2. PICK m \in Nat, a \in Nat : m = One(q = z) /\ a = NFiles(<<"r", q>>)
        BY <1>8 DEF One
      <4>3. NFiles(<<"r", q>>)' = a + m + 0
        BY <4>1, <4>2
      <4>4. a + m + 0 = a + m
        OBVIOUS
      <4> QED
        BY <4>2, <4>3, <4>4
    <3>4. One(q \in readopen') = One(q \in readopen) + One(q = z) /\ One(q \in readopen) \in Nat /\ One(q = z) \in Nat
      <4>1. CASE q = z
        <5>1. q \in readopen' /\ q \notin readopen
          BY <1>1, <1>q, <4>1
        <5>2. One(q \in readopen') = 1 /\ One(q \in readopen) = 0 /\ One(q = z) = 1
          BY <4>1, <5>1 DEF One
        <5> QED
          BY <5>2
      <4>2. CASE q # z
        <5>1. q \in readopen' <=> q \in readopen
          BY <1>1, <4>2
        <5>2. One(q \in readopen') = One(q \in readopen) /\ One(q \in readopen) \in Nat /\ One(q = z) = 0
          BY <4>2, <5>1 DEF One
        <5> QED
          BY <5>2
      <4> QED
        BY <4>1, <4>2
    <3>5. PICK a \in Nat, b \in Nat, m \in Nat, n \in Nat :
            a = NFiles(<<"r", q>>) /\ b = NReleasers(<<"r", q>>) /\ m = One(q = z) /\ n = One(q \in readopen)
      BY <1>8, <3>4
    <3>6. a + b = n
      BY <3>1, <3>5
    <3>7. (a + m) + b = n + m
      BY <3>6
    <3>8. NFiles(<<"r", q>>)' = a + m /\ NReleasers(<<"r", q>>)' = b /\ One(q \in readopen') = n + m
      BY <1>8, <3>3, <3>4, <3>5
    <3> QED
      BY <3>7, <3>8
  <2>2. ASSUME NEW q \in Pipe PROVE NFiles(<<"w", q>>)' + NReleasers(<<"w", q>>)' = One(q \in writeopen')
    <3>1. NFiles(<<"w", q>>) + NReleasers(<<"w", q>>) = One(q \in writeopen)
      BY <1>0, ReleasedAs
    <3>2. One(<<"w", q>> = <<"r", z>>) = 0 /\ One(<<"w", q>> = <<"w", z>>) = One(q = z)
      BY DEF One
    <3>3. NFiles(<<"w", q>>)' = NFiles(<<"w", q>>) + One(q = z)
      <4>1. NFiles(<<"w", q>>)' = NFiles(<<"w", q>>) + 0 + One(q = z)
        BY <1>10, <3>2, EndTypes
      <4>2. PICK m \in Nat, a \in Nat : m = One(q = z) /\ a = NFiles(<<"w", q>>)
        BY <1>8 DEF One
      <4>3. NFiles(<<"w", q>>)' = a + 0 + m
        BY <4>1, <4>2
      <4>4. a + 0 + m = a + m
        OBVIOUS
      <4> QED
        BY <4>2, <4>3, <4>4
    <3>4. One(q \in writeopen') = One(q \in writeopen) + One(q = z) /\ One(q \in writeopen) \in Nat /\ One(q = z) \in Nat
      <4>1. CASE q = z
        <5>1. q \in writeopen' /\ q \notin writeopen
          BY <1>1, <1>q, <4>1
        <5>2. One(q \in writeopen') = 1 /\ One(q \in writeopen) = 0 /\ One(q = z) = 1
          BY <4>1, <5>1 DEF One
        <5> QED
          BY <5>2
      <4>2. CASE q # z
        <5>1. q \in writeopen' <=> q \in writeopen
          BY <1>1, <4>2
        <5>2. One(q \in writeopen') = One(q \in writeopen) /\ One(q \in writeopen) \in Nat /\ One(q = z) = 0
          BY <4>2, <5>1 DEF One
        <5> QED
          BY <5>2
      <4> QED
        BY <4>1, <4>2
    <3>5. PICK a \in Nat, b \in Nat, m \in Nat, n \in Nat :
            a = NFiles(<<"w", q>>) /\ b = NReleasers(<<"w", q>>) /\ m = One(q = z) /\ n = One(q \in writeopen)
      BY <1>8, <3>4
    <3>6. a + b = n
      BY <3>1, <3>5
    <3>7. (a + m) + b = n + m
      BY <3>6
    <3>8. NFiles(<<"w", q>>)' = a + m /\ NReleasers(<<"w", q>>)' = b /\ One(q \in writeopen') = n + m
      BY <1>8, <3>3, <3>4, <3>5
    <3> QED
      BY <3>7, <3>8
  <2> QED
    BY <2>1, <2>2, ReleasedAs
<1>12. InodesCounted'
  <2>1. One(<<"inode">> = <<"r", z>>) = 0 /\ One(<<"inode">> = <<"w", z>>) = 0
    BY EndTypes DEF One
  <2>2. NFiles(<<"inode">>)' = NFiles(<<"inode">>) + 0 + 0
    BY <1>10, <2>1, EndTypes
  <2>3. NFiles(<<"inode">>)' = NFiles(<<"inode">>)
    BY <1>8, <2>2
  <2> QED
    BY <1>0, <1>1, <1>6, <1>8, <2>3, ReleasedAs
<1>13. ASSUME NEW g \in Files!File, toClose' = [toClose EXCEPT ![p] = <<f, h>>], UNCHANGED ofile
       PROVE  FileCounted(g)'
  <2>0. PICK d \in Files!Fd : TRUE
    BY DEF PartsAssumption, Files!FileAssumption, Files!Fd
  <2>1. /\ \A q \in Pair, e \in Files!Fd : q # p \/ e # d => ofile'[q][e] = ofile[q][e]
        /\ ofile'[p][d] = ofile[p][d]
    BY <1>13
  <2>2. \A q \in Pair : toClose'[q] = IF q = p THEN <<f, h>> ELSE toClose[q]
    BY <1>0, <1>13 DEF FileTypes
  <2>3. PICK n \in Nat, m \in Nat, r \in Nat, b \in Nat :
          /\ n = One(pc[p] = "pipe" /\ arg[p] = g) /\ n = (IF f = g THEN 1 ELSE 0)
          /\ m = (IF h = g THEN 1 ELSE 0) /\ r = ref[g] /\ ref'[g] = r + m
          /\ b = One(ofile[p][d] = g) /\ b = One(ofile'[p][d] = g)
    <3>1. One(pc[p] = "pipe" /\ arg[p] = g) = (IF f = g THEN 1 ELSE 0)
      BY <1>1, <1>f DEF One
    <3>2. ref'[g] = ref[g] + (IF h = g THEN 1 ELSE 0) /\ ref[g] \in Nat
      BY <1>2, <1>h
    <3>3. One(ofile[p][d] = g) \in Nat /\ One(ofile'[p][d] = g) = One(ofile[p][d] = g)
      BY <2>1 DEF One
    <3>4. PICK n \in Nat, m \in Nat : n = (IF f = g THEN 1 ELSE 0) /\ m = (IF h = g THEN 1 ELSE 0)
      OBVIOUS
    <3>5. PICK r \in Nat, b \in Nat : r = ref[g] /\ b = One(ofile[p][d] = g)
      BY <3>2, <3>3
    <3>6. n = One(pc[p] = "pipe" /\ arg[p] = g)
      BY <3>1, <3>4
    <3>7. ref'[g] = r + m
      BY <3>2, <3>4, <3>5
    <3> QED
      BY <3>3, <3>4, <3>5, <3>6, <3>7
  <2>4. /\ One(pc[p] = "dup" /\ arg[p] = g) = 0 /\ One(pc'[p] = "dup" /\ arg'[p] = g) = 0
        /\ One(pc'[p] = "pipe" /\ arg'[p] = g) = 0
    BY <1>1, <1>2 DEF One
  <2>7. Copies(toClose[p], g) = 0
    BY <1>1, CopiesOfFew
  <2>8. Copies(toClose'[p], g) = n + m
    <3>1. Copies(<<f, h>>, g) = (IF f = g THEN 1 ELSE 0) + (IF h = g THEN 1 ELSE 0)
      BY CopiesOfFew
    <3> QED
      BY <2>2, <2>3, <3>1
  <2>6. ref'[g] + One(pc'[p] = "dup" /\ arg'[p] = g) + One(ofile[p][d] = g)
          + One(pc[p] = "pipe" /\ arg[p] = g) + Copies(toClose[p], g)
        = ref[g] + One(pc[p] = "dup" /\ arg[p] = g) + One(ofile'[p][d] = g)
          + One(pc'[p] = "pipe" /\ arg'[p] = g) + Copies(toClose'[p], g)
    <3>1. (r + m) + 0 + b + n + 0 = r + 0 + b + 0 + (n + m)
      OBVIOUS
    <3> QED
      BY <2>3, <2>4, <2>7, <2>8, <3>1
  <2>9. \A q \in Pair : q # p => toClose'[q] = toClose[q]
    BY <2>2
  <2> QED
    BY <1>0, <1>3, <1>4, <2>1, <2>6, <2>9, CountMoves
<1>14. ASSUME NEW g \in Files!File, NEW d \in Files!Fd, NEW e \in Files!Fd, d # e,
              ofile[p][d] = None, ofile[p][e] = None,
              ofile' = [ofile EXCEPT ![p][d] = f, ![p][e] = h], UNCHANGED toClose
       PROVE  FileCounted(g)'
  <2>1. /\ \A q \in Pair, i \in Files!Fd : q # p \/ (i # d /\ i # e) => ofile'[q][i] = ofile[q][i]
        /\ ofile'[p][d] = f /\ ofile'[p][e] = h
    BY <1>0, <1>14 DEF FileTypes
  <2>2. /\ NSlots(g)' + One(ofile[p][d] = g) + One(ofile[p][e] = g)
             = NSlots(g) + One(ofile'[p][d] = g) + One(ofile'[p][e] = g)
        /\ NSlots(g) \in Nat /\ NSlots(g)' \in Nat
    <3>1. d # e /\ OnlySlots(p, d, e)
      BY <1>14, <2>1 DEF OnlySlots
    <3> QED
      BY <2>1, <3>1, SlotsMoveTwice
  <2>3. One(ofile[p][d] = g) = 0 /\ One(ofile[p][e] = g) = 0
    BY <1>14, FileFacts DEF One
  <2>4. /\ One(ofile'[p][d] = g) = One(f = g) /\ One(ofile'[p][e] = g) = One(h = g)
        /\ One(pc[p] = "pipe" /\ arg[p] = g) = One(f = g) /\ One(pc'[p] = "pipe" /\ arg'[p] = g) = 0
        /\ One(f = g) \in Nat /\ One(h = g) \in Nat
    BY <1>1, <1>2, <1>f, <2>1 DEF One
  <2>5. /\ NPipes(g)' + One(pc[p] = "pipe" /\ arg[p] = g) = NPipes(g) + One(pc'[p] = "pipe" /\ arg'[p] = g)
        /\ NPipes(g) \in Nat /\ NPipes(g)' \in Nat
    BY <1>3, CallsMove
  <2>6. NDups(g)' = NDups(g) /\ NDups(g) \in Nat
    <3>1. /\ NDups(g)' + One(pc[p] = "dup" /\ arg[p] = g) = NDups(g) + One(pc'[p] = "dup" /\ arg'[p] = g)
          /\ NDups(g) \in Nat /\ NDups(g)' \in Nat
      BY <1>3, CallsMove
    <3>2. One(pc[p] = "dup" /\ arg[p] = g) = 0 /\ One(pc'[p] = "dup" /\ arg'[p] = g) = 0
      BY <1>1, <1>2 DEF One
    <3> QED
      BY <3>1, <3>2
  <2>7. NClosing(g)' = NClosing(g) /\ NClosing(g) \in Nat
    BY <1>0, <1>14, ClosingStays, CountsAreNat
  <2>8. ref'[g] = ref[g] + One(h = g) /\ ref[g] \in Nat
    BY <1>2, <1>h DEF One
  <2>9. ref[g] + NDups(g) = NSlots(g) + (NPipes(g) + NClosing(g))
    BY <1>0, CountedAs
  <2>10. PICK m \in Nat, n \in Nat, r \in Nat, u \in Nat, s1 \in Nat, s2 \in Nat, p1 \in Nat, p2 \in Nat, c \in Nat :
           /\ m = One(f = g) /\ n = One(h = g) /\ r = ref[g] /\ u = NDups(g)
           /\ s1 = NSlots(g) /\ s2 = NSlots(g)' /\ p1 = NPipes(g) /\ p2 = NPipes(g)' /\ c = NClosing(g)
    BY <2>2, <2>4, <2>5, <2>6, <2>7, <2>8
  <2>11. s2 + 0 + 0 = s1 + m + n
    BY <2>2, <2>3, <2>4, <2>10
  <2>12. p2 + m = p1 + 0
    BY <2>4, <2>5, <2>10
  <2>13. r + u = s1 + (p1 + c)
    BY <2>9, <2>10
  <2>14. (r + n) + u = s2 + (p2 + c)
    BY <2>11, <2>12, <2>13
  <2>15. ref'[g] + NDups(g)' = NSlots(g)' + (NPipes(g)' + NClosing(g)')
    BY <2>6, <2>7, <2>8, <2>10, <2>14
  <2> QED
    BY <2>15, CountedAs
<1>15. \A g \in Files!File : FileCounted(g)'
  BY <1>c, <1>13, <1>14
<1> QED
  BY <1>4, <1>5, <1>7, <1>11, <1>12, <1>15 DEF FileInv, Files!File

LEMMA FileInit == ASSUME PartsAssumption, Files!Init PROVE FileInv
<1>0. IsFiniteSet(Pair) /\ IsFiniteSet(Pair \X Files!Fd) /\ IsFiniteSet(Files!File)
  BY FileFacts, FS_Product
<1>1. /\ \A f \in Files!File : ref[f] = 0 /\ type[f] = <<"none">>
      /\ \A p \in Pair : /\ \A d \in Files!Fd : ofile[p][d] = None
                         /\ pc[p] \in {"user", "unused"} /\ arg[p] = None
                         /\ toClose[p] = <<>> /\ release[p] = <<"none">>
      /\ readopen = {} /\ writeopen = {} /\ inodes = 0
  BY DEF Files!Init
<1>2. FileTypes
  BY <1>1 DEF Files!Init, FileTypes, Files!Types, ShortSeq
<1>3. \A p \in Pair : FileCaller(p)
  BY <1>1 DEF FileCaller
<1>4. FreeIsUntyped
  BY <1>1 DEF FreeIsUntyped
<1>5. ASSUME NEW f \in Files!File PROVE FileCounted(f)
  <2>1. SlotsFor(f) = {} /\ PipesWith(f) = {} /\ DupsOf(f) = {}
    BY <1>1, FileFacts DEF SlotsFor, PipesWith, DupsOf
  <2>2. \A p \in Pair : Closing(f)[p] = 0
    BY <1>1, CopiesOfFew DEF Closing
  <2>3. Total(Closing(f), Pair) = 0
    BY <2>2, TotalOfNothing
  <2> QED
    BY <1>1, <2>1, <2>3, FS_EmptySet DEF FileCounted
<1>6. ASSUME NEW t, t # <<"none">> PROVE NFiles(t) = 0 /\ NReleasers(t) = 0
  <2>1. FilesOf(t) = {} /\ ReleasersOf(t) = {}
    BY <1>1, <1>6 DEF FilesOf, ReleasersOf
  <2> QED
    BY <2>1, FS_EmptySet DEF NFiles, NReleasers
<1>7. NOpening = 0
  <2>1. Opening = {}
    BY <1>1 DEF Opening
  <2> QED
    BY <2>1, FS_EmptySet DEF NOpening
<1>8. EndsCounted
  <2>1. \A q : One(q \in readopen) = 0 /\ One(q \in writeopen) = 0
    BY <1>1 DEF One
  <2> QED
    BY <1>6, <2>1, EndTypes, ReleasedAs
<1>9. InodesCounted
  BY <1>1, <1>6, <1>7, EndTypes, ReleasedAs
<1> QED
  BY <1>2, <1>3, <1>4, <1>5, <1>8, <1>9 DEF FileInv

LEMMA FileStep ==
  ASSUME PartsAssumption, FileInv, [Files!Next]_(Files!vars)
  PROVE  FileInv'
<1>1. CASE Files!Next
  <2>1. PICK p \in Pair :
          \/ Files!FileClose(p) \/ Files!Release(p)
          \/ Files!Open(p) \/ Files!OpenFile(p) \/ Files!OpenNoFile(p)
          \/ Files!PipeFirst(p) \/ Files!PipeFails(p) \/ Files!PipeMake(p)
          \/ Files!FileDup(p) \/ Files!ForkDup(p) \/ Files!ForkEnd(p) \/ Files!Exit(p)
          \/ Files!ExitClose(p) \/ Files!ExitEnd(p)
          \/ \E d \in Files!Fd : Files!Close(p, d) \/ Files!Dup(p, d)
          \/ \E q \in Pair : Files!Fork(p, q)
    BY <1>1 DEF Files!Next
  <2>2. CASE Files!FileClose(p) \/ Files!Release(p) \/ Files!OpenFile(p)
    BY <2>2, FileCloseIsKept, FileReleaseIsKept, OpenFileIsKept
  <2>3. CASE Files!Open(p) \/ Files!OpenNoFile(p)
    BY <2>3, OpenIsKept
  <2>4. CASE Files!PipeFirst(p) \/ Files!PipeFails(p) \/ Files!PipeMake(p)
    BY <2>4, PipeFirstIsKept, PipeFailsIsKept, PipeMakeIsKept
  <2>5. CASE Files!FileDup(p) \/ Files!ForkDup(p) \/ Files!ForkEnd(p)
    BY <2>5, FileDupIsKept, ForkDupIsKept, ForkEndIsKept
  <2>6. CASE Files!Exit(p) \/ Files!ExitEnd(p) \/ \E q \in Pair : Files!Fork(p, q)
    BY <2>6, ExitIsKept
  <2>7. CASE Files!ExitClose(p) \/ \E d \in Files!Fd : Files!Close(p, d)
    BY <2>7, CloseIsKept
  <2>8. CASE \E d \in Files!Fd : Files!Dup(p, d)
    BY <2>8, DupIsKept
  <2> QED
    BY <2>1, <2>2, <2>3, <2>4, <2>5, <2>6, <2>7, <2>8
<1>2. CASE UNCHANGED Files!vars
  <2>1. UNCHANGED <<ref, type, ofile, readopen, writeopen, inodes, pc, arg, toClose, release>>
    BY <1>2 DEF Files!vars, Files!pipes
  <2>2. \A f : PipesWith(f)' = PipesWith(f) /\ DupsOf(f)' = DupsOf(f)
    BY <2>1 DEF PipesWith, DupsOf
  <2>3. \A f : NPipes(f)' = NPipes(f) /\ NDups(f)' = NDups(f)
    BY <2>2 DEF NPipes, NDups
  <2>4. \A g \in Files!File : FileCounted(g)'
    BY <2>1, <2>3, CountStays DEF FileInv
  <2>5. EndsCounted' /\ InodesCounted'
    BY <2>1, EndsStay, InodesStay, CallsStay DEF FileInv
  <2>6. FileTypes' /\ FreeIsUntyped'
    BY <2>1 DEF FileInv, FileTypes, FreeIsUntyped, Files!File, Files!Fd, Files!Types, Files!Ends
  <2>7. \A p \in Pair : FileCaller(p)'
    BY <2>1 DEF FileInv, FileCaller, Files!File, Files!Fd
  <2> QED
    BY <2>4, <2>5, <2>6, <2>7 DEF FileInv, Files!File
<1> QED
  BY <1>1, <1>2

LEMMA FewFilesAreASeq == ASSUME NEW S PROVE ShortSeq(S) \subseteq Seq(S)
<1>1. /\ <<>> \in Seq(S) /\ \A f \in S : <<f>> \in Seq(S)
      /\ \A f, g \in S : <<f, g>> \in Seq(S)
  OBVIOUS
<1>2. ASSUME NEW s \in ShortSeq(S) PROVE s \in Seq(S)
  <2>1. CASE s = <<>>
    BY <1>1, <2>1
  <2>2. CASE \E f \in S : s = <<f>>
    BY <1>1, <2>2
  <2>3. CASE \E f, g \in S : s = <<f, g>>
    BY <1>1, <2>3
  <2> QED
    BY <2>1, <2>2, <2>3 DEF ShortSeq
<1> QED
  BY <1>2

LEMMA FileSafety ==
  ASSUME PartsAssumption, FileInv
  PROVE  Files!TypeOK /\ Files!FilesCounted /\ Files!ObjectsReleasedOnce
<1>1. Files!TypeOK
  <2>1. toClose \in [Pair -> Seq(Files!File)]
    BY FewFilesAreASeq DEF FileInv, FileTypes
  <2> QED
    BY <2>1 DEF FileInv, FileTypes, Files!TypeOK
<1>2. ASSUME NEW f \in Files!File
      PROVE  ref[f] + Files!DupsToCome(f) = Files!Slots(f) + Files!InHand(f)
  <2>1. /\ Files!DupsToCome(f) = Cardinality(DupsOf(f))
        /\ Files!Slots(f) = Cardinality(SlotsFor(f))
    BY FileCounts DEF Files!DupsToCome, Files!Slots, DupsOf, SlotsFor
  <2>2. Files!InHand(f) = Cardinality(PipesWith(f)) + Total(Closing(f), Pair)
    <3>1. Files!Closes(f) = Closing(f)
      BY FileCounts DEF Files!Closes, Closing, Copies
    <3> QED
      BY <3>1, FileCounts, FileTotals DEF Files!InHand, PipesWith
  <2> QED
    BY <2>1, <2>2 DEF FileInv, FileCounted
<1>3. Files!FilesCounted
  BY <1>2 DEF Files!FilesCounted
<1>4. Files!ObjectsReleasedOnce
  <2>1. \A t : Files!OfType(t) = Cardinality(FilesOf(t)) /\ Files!Releasing(t) = Cardinality(ReleasersOf(t))
    BY FileCounts DEF Files!OfType, Files!Releasing, FilesOf, ReleasersOf
  <2>2. Files!Cardinality({p \in Pair : pc[p] = "open"}) = Cardinality(Opening)
    BY FileCounts DEF Opening
  <2>3. EndsCounted /\ InodesCounted
    BY DEF FileInv
  <2> QED
    BY <2>1, <2>2, <2>3 DEF Files!ObjectsReleasedOnce, EndsCounted, EndIsCounted, InodesCounted
<1> QED
  BY <1>1, <1>3, <1>4

-----------------------------------------------------------------------------
(* Blocks: every pointer of every file leads to a block of its own, and    *)
(* the blocks that pointers lead to are the ones that are marked.          *)

PointerBlock(f) == addrs[f][NDirect]

\* The pointers of f: those in the inode, and those in its pointer block that
\* itrunc() has not yet come to.
Slot == 0 .. NDirect + NIndirect
To(f, i) ==
  IF i <= NDirect THEN addrs[f][i]
  ELSE IF PointerBlock(f) # 0 /\ (pc[f] = "trunc" => i - NDirect - 1 >= pos[f])
       THEN content[PointerBlock(f)][i - NDirect - 1]
       ELSE 0

\* The slot of the bn-th piece.
SlotOf(bn) == IF bn < NDirect THEN bn ELSE bn + 1

\* mkfs marks the blocks at the end.
Marked == IF phase = "mkfs" THEN 1 .. freeblock ELSE bitmap

BlockTypes ==
  /\ phase \in {"mkfs", "running"} /\ freeblock \in Blocks!Pointer /\ bitmap \subseteq Blocks!Block
  /\ addrs \in [OneFile -> [0 .. NDirect -> Blocks!Pointer]]
  /\ content \in [Blocks!Block -> [0 .. NIndirect - 1 -> Blocks!Pointer]]
  /\ size \in [OneFile -> 0 .. Blocks!MaxBytes]
  /\ pc \in [OneFile -> {"idle", "write", "trunc"}]
  /\ pos \in [OneFile -> 0 .. Blocks!MaxBytes] /\ left \in [OneFile -> 0 .. MaxN]

PointersDiffer ==
  \A f, g \in OneFile, i, j \in Slot : To(f, i) = To(g, j) /\ To(f, i) # 0 => f = g /\ i = j
PointersMarked ==
  \A b \in Blocks!Block : b \in Marked <=> \E f \in OneFile, i \in Slot : To(f, i) = b

\* The first n bytes of f have blocks.
HasBlocks(f, n) == \A bn \in 0 .. NDirect + NIndirect - 1 : bn * BSize < n => To(f, SlotOf(bn)) # 0

BlockCall(f) ==
  /\ phase = "mkfs" => pc[f] = "idle"
  /\ pc[f] = "idle" => pos[f] = 0
  /\ pc[f] # "write" => left[f] = 0
  /\ pc[f] = "write" => pos[f] + left[f] <= Blocks!MaxBytes /\ HasBlocks(f, pos[f])
  /\ pc[f] # "trunc" => HasBlocks(f, size[f])

BlockInv ==
  /\ BlockTypes /\ PointersDiffer /\ PointersMarked
  /\ \A f \in OneFile : BlockCall(f)

-----------------------------------------------------------------------------
(* Pieces of BSIZE bytes.                                                  *)

LEMMA ProductIsNat == ASSUME NEW a \in Nat, NEW b \in Nat PROVE a * b \in Nat
OBVIOUS

LEMMA PiecesGrow ==
  ASSUME NEW B \in Nat \ {0}, NEW a \in Int, NEW b \in Int, a < b
  PROVE  a * B + B <= b * B /\ a * B \in Int /\ b * B \in Int
<1>1. PICK c \in Nat : b = (a + 1) + c
  <2>1. b - a - 1 \in Nat /\ b = (a + 1) + (b - a - 1)
    OBVIOUS
  <2> QED
    BY <2>1
<1>2. B * ((a + 1) + c) = B * (a + 1) + B * c
  BY ProductDistributes
<1>3. B * (a + 1) = B * a + B * 1
  BY ProductDistributes
<1>4. c * B \in Nat /\ B * c = c * B
  BY ProductIsNat
<1>5. B * b = b * B /\ B * a = a * B /\ a * B \in Int /\ B * 1 = B
  OBVIOUS
<1>6. PICK x \in Int, y \in Nat, z \in Int : x = a * B /\ y = B * c /\ z = b * B
  BY <1>4
<1>7. z = (x + B) + y
  BY <1>1, <1>2, <1>3, <1>5, <1>6
<1> QED
  BY <1>6, <1>7

LEMMA PieceOf ==
  ASSUME NEW B \in Nat \ {0}, NEW s \in Nat
  PROVE  /\ s \div B \in Nat /\ s % B \in 0 .. B - 1
         /\ (s \div B) * B \in Nat /\ s = (s \div B) * B + (s % B)
         /\ ((s \div B) + 1) * B = (s \div B) * B + B
<1>1. s % B \in 0 .. (B - 1) /\ s \div B \in Int /\ s = B * (s \div B) + (s % B)
  BY ModIsRest
<1>2. PICK q \in Int, r \in 0 .. (B - 1) : q = s \div B /\ r = s % B
  BY <1>1
<1>3. s = B * q + r /\ B * q = q * B /\ q * B \in Int
  BY <1>1, <1>2
<1>4. q >= 0
  <2>1. ASSUME q < 0 PROVE FALSE
    <3>1. q * B + B <= 0 * B
      BY <2>1, PiecesGrow
    <3>2. 0 * B = 0
      OBVIOUS
    <3> QED
      BY <1>3, <3>1, <3>2
  <2> QED
    BY <2>1
<1>5. (q + 1) * B = q * B + B
  BY <1>3
<1>6. q \in Nat /\ q * B \in Nat
  BY <1>4, ProductIsNat
<1> QED
  BY <1>2, <1>3, <1>5, <1>6

\* What lies below the end of the piece in which s lies.
LEMMA PiecesBelow ==
  ASSUME NEW B \in Nat \ {0}, NEW s \in Nat, NEW n \in Nat, (s % B) + n <= B,
         NEW bn \in Nat, bn * B < s + n
  PROVE  bn = s \div B \/ bn * B < s
<1>1. PICK q \in Nat : q = s \div B
  BY PieceOf
<1>2. PICK r \in 0 .. B - 1, x \in Nat : r = s % B /\ x = q * B /\ s = x + r
  BY <1>1, PieceOf
<1>3. bn * B < x + B
  <2>1. PICK y \in Nat : y = bn * B
    BY ProductIsNat
  <2>2. y < (x + r) + n /\ r + n <= B
    BY <1>2, <2>1
  <2> QED
    BY <2>1, <2>2
<1>4. CASE bn < q
  <2>1. bn * B + B <= x /\ bn * B \in Int
    BY <1>2, <1>4, PiecesGrow
  <2>2. PICK y \in Int : y = bn * B
    BY <2>1
  <2>3. y < s
    BY <1>2, <2>1, <2>2
  <2> QED
    BY <2>2, <2>3
<1>5. CASE bn > q
  <2>1. x + B <= bn * B /\ bn * B \in Int
    BY <1>2, <1>5, PiecesGrow
  <2>2. PICK y \in Int : y = bn * B
    BY <2>1
  <2>3. FALSE
    BY <1>2, <1>3, <2>1, <2>2
  <2> QED
    BY <2>3
<1> QED
  BY <1>1, <1>4, <1>5

\* The piece of a byte that is inside of N pieces is one of them.
LEMMA PieceInside ==
  ASSUME NEW B \in Nat \ {0}, NEW N \in Nat, NEW s \in Nat
  PROVE  s < N * B => s \div B \in 0 .. N - 1
<1>1. PICK q \in Nat : q = s \div B
  BY PieceOf
<1>2. PICK r \in 0 .. B - 1, x \in Nat : r = s % B /\ x = q * B /\ s = x + r
  <2>1. s % B \in 0 .. B - 1 /\ q * B \in Nat /\ s = q * B + (s % B)
    BY <1>1, PieceOf
  <2>2. PICK x \in Nat : x = q * B
    BY <2>1
  <2>3. PICK r \in 0 .. B - 1 : r = s % B
    BY <2>1
  <2> QED
    BY <2>1, <2>2, <2>3
<1>3. PICK z \in Nat : z = N * B
  BY ProductIsNat
<1>4. ASSUME s < z PROVE q < N
  <2>1. CASE q = N
    BY <1>2, <1>3, <1>4, <2>1
  <2>2. CASE q > N
    <3>1. z + B <= x
      BY <1>2, <1>3, <2>2, PiecesGrow
    <3>2. FALSE
      BY <1>2, <1>4, <3>1
    <3> QED
      BY <3>2
  <2> QED
    BY <2>1, <2>2
<1> QED
  BY <1>1, <1>3, <1>4

-----------------------------------------------------------------------------
LEMMA BlockFacts ==
  ASSUME PartsAssumption
  PROVE  /\ RootDir \in OneFile /\ NumBlocks \in Nat /\ NDirect \in Nat
         /\ NIndirect \in Nat \ {0} /\ BSize \in Nat \ {0} /\ MaxN \in Nat \ {0}
         /\ Blocks!MaxBytes \in Nat /\ NIndirect <= Blocks!MaxBytes
<1>1. /\ RootDir \in OneFile /\ NumBlocks \in Nat /\ NDirect \in Nat
      /\ NIndirect \in Nat \ {0} /\ BSize \in Nat \ {0} /\ MaxN \in Nat \ {0}
  BY DEF PartsAssumption, Blocks!BlockAssumption
<1>2. PICK n \in Nat : n = NDirect + NIndirect /\ n > 0 /\ n >= NIndirect
  BY <1>1
<1>3. 0 * BSize + BSize <= n * BSize /\ n * BSize \in Nat
  BY <1>1, <1>2, PiecesGrow, ProductIsNat
<1>4. n <= n * BSize
  <2>1. PICK c \in Nat : BSize = c + 1
    <3>1. BSize - 1 \in Nat /\ BSize = (BSize - 1) + 1
      BY <1>1
    <3> QED
      BY <3>1
  <2>2. n * (c + 1) = n * c + n * 1
    BY ProductDistributes
  <2>3. n * c \in Nat
    BY ProductIsNat
  <2>4. n * 1 = n
    OBVIOUS
  <2> QED
    BY <2>1, <2>2, <2>3, <2>4
<1> QED
  BY <1>1, <1>2, <1>3, <1>4 DEF Blocks!MaxBytes

LEMMA LeastBlock == ASSUME NEW S, S \subseteq Nat, S # {} PROVE Blocks!Min(S) \in S /\ \A x \in S : Blocks!Min(S) <= x
BY LeastOne DEF Blocks!Min

LEMMA GreaterOne == ASSUME NEW a \in Nat, NEW b \in Nat PROVE Blocks!Max({a, b}) \in {a, b}
<1>1. \E x \in {a, b} : \A y \in {a, b} : x >= y
  OBVIOUS
<1> QED
  BY <1>1 DEF Blocks!Max

LEMMA NothingBelow == PartsAssumption => \A bn \in 0 .. NDirect + NIndirect - 1 : ~ (bn * BSize < 0)
<1> SUFFICES ASSUME PartsAssumption, NEW bn \in 0 .. NDirect + NIndirect - 1 PROVE ~ (bn * BSize < 0)
  OBVIOUS
<1>1. BSize \in Nat /\ bn \in Nat
  BY BlockFacts
<1>2. PICK x \in Nat : x = bn * BSize
  BY <1>1, ProductIsNat
<1> QED
  BY <1>2

LEMMA PointersAre ==
  ASSUME PartsAssumption, BlockTypes, NEW f \in OneFile
  PROVE  /\ \A i \in 0 .. NDirect : i \in Slot /\ To(f, i) = addrs[f][i] /\ addrs[f][i] \in Blocks!Pointer
         /\ PointerBlock(f) = To(f, NDirect) /\ PointerBlock(f) \in Blocks!Pointer
         /\ \A i \in Slot : To(f, i) \in Blocks!Pointer
         /\ \A bn \in 0 .. NDirect + NIndirect - 1 : SlotOf(bn) \in Slot /\ SlotOf(bn) # NDirect
         /\ \A bn, b2 \in 0 .. NDirect + NIndirect - 1 : SlotOf(bn) = SlotOf(b2) => bn = b2
         /\ pc[f] # "trunc" => \A bn \in 0 .. NDirect + NIndirect - 1 : Blocks!Mapped(f, bn) = To(f, SlotOf(bn))
<1>1. NDirect \in Nat /\ NIndirect \in Nat \ {0} /\ NumBlocks \in Nat
  BY BlockFacts
<1>2. \A i \in 0 .. NDirect : i \in Slot /\ To(f, i) = addrs[f][i] /\ addrs[f][i] \in Blocks!Pointer
  BY <1>1 DEF Slot, To, BlockTypes
<1>3. PointerBlock(f) = To(f, NDirect) /\ PointerBlock(f) \in Blocks!Pointer
  BY <1>1, <1>2 DEF PointerBlock
<1>4. ASSUME NEW i \in Slot PROVE To(f, i) \in Blocks!Pointer
  <2>1. CASE i <= NDirect
    BY <1>1, <1>2, <2>1 DEF Slot
  <2>2. CASE i > NDirect
    <3>1. i - NDirect - 1 \in 0 .. NIndirect - 1 /\ 0 \in Blocks!Pointer
      BY <1>1, <2>2 DEF Slot, Blocks!Pointer
    <3>2. PointerBlock(f) # 0 => PointerBlock(f) \in Blocks!Block
      BY <1>1, <1>3 DEF Blocks!Pointer, Blocks!Block
    <3>3. PointerBlock(f) # 0 => content[PointerBlock(f)][i - NDirect - 1] \in Blocks!Pointer
      BY <3>1, <3>2, ZenonT(40) DEF BlockTypes
    <3>4. ~ (i <= NDirect)
      BY <1>1, <2>2 DEF Slot
    <3> QED
      BY <3>1, <3>3, <3>4 DEF To
  <2> QED
    BY <1>1, <2>1, <2>2 DEF Slot
<1>5. \A bn \in 0 .. NDirect + NIndirect - 1 : SlotOf(bn) \in Slot /\ SlotOf(bn) # NDirect
  BY <1>1 DEF SlotOf, Slot
<1>6. \A bn, b2 \in 0 .. NDirect + NIndirect - 1 : SlotOf(bn) = SlotOf(b2) => bn = b2
  BY <1>1 DEF SlotOf
<1>7. ASSUME pc[f] # "trunc", NEW bn \in 0 .. NDirect + NIndirect - 1
      PROVE  Blocks!Mapped(f, bn) = To(f, SlotOf(bn))
  <2>1. CASE bn < NDirect
    BY <1>1, <2>1 DEF Blocks!Mapped, To, SlotOf
  <2>2. CASE ~ (bn < NDirect)
    <3>1. ~ (bn + 1 <= NDirect) /\ bn + 1 - NDirect - 1 = bn - NDirect /\ SlotOf(bn) = bn + 1
      BY <1>1, <2>2 DEF SlotOf
    <3>2. PICK k : k = bn + 1
      OBVIOUS
    <3>3. k - NDirect - 1 = bn - NDirect /\ SlotOf(bn) = k
      BY <1>1, <3>1, <3>2
    <3>4. To(f, k) = IF PointerBlock(f) # 0 THEN content[PointerBlock(f)][k - NDirect - 1] ELSE 0
      BY <1>7, <3>1, <3>2 DEF To
    <3>5. Blocks!Mapped(f, bn) = IF PointerBlock(f) = 0 THEN 0 ELSE content[PointerBlock(f)][bn - NDirect]
      BY <2>2 DEF Blocks!Mapped, Blocks!Indirect, PointerBlock
    <3> QED
      BY <3>3, <3>4, <3>5
  <2> QED
    BY <2>1, <2>2
<1> QED
  BY <1>2, <1>3, <1>4, <1>5, <1>6, <1>7

-----------------------------------------------------------------------------
(* One pointer at a time.                                                  *)

\* Slot s of f leads to b, the others stay.
PointerSet(f, s, b) ==
  \A g \in OneFile, i \in Slot : To(g, i)' = IF g = f /\ i = s THEN b ELSE To(g, i)
PointersStay == \A g \in OneFile, i \in Slot : To(g, i)' = To(g, i)

LEMMA TakesABlock ==
  ASSUME PartsAssumption, PointersDiffer, PointersMarked, NEW f \in OneFile, NEW s \in Slot,
         NEW b \in Blocks!Block, b \notin Marked, To(f, s) = 0, PointerSet(f, s, b),
         Marked' = Marked \cup {b}
  PROVE  PointersDiffer' /\ PointersMarked'
<1>1. \A g \in OneFile, i \in Slot : To(g, i) # b
  BY DEF PointersMarked
<1>2. NumBlocks \in Nat /\ b # 0 /\ 0 \notin Blocks!Block
  BY BlockFacts DEF Blocks!Block
<1>3. PointersDiffer'
  <2> SUFFICES ASSUME NEW g \in OneFile, NEW h \in OneFile, NEW i \in Slot, NEW j \in Slot,
                      To(g, i)' = To(h, j)', To(g, i)' # 0
               PROVE  g = h /\ i = j
    BY DEF PointersDiffer, Slot
  <2>1. /\ To(g, i)' = IF g = f /\ i = s THEN b ELSE To(g, i)
        /\ To(h, j)' = IF h = f /\ j = s THEN b ELSE To(h, j)
    BY DEF PointerSet
  <2>2. To(g, i) = To(h, j) /\ To(g, i) # 0 => g = h /\ i = j
    BY DEF PointersDiffer
  <2>3. CASE g = f /\ i = s
    BY <1>1, <2>1, <2>2, <2>3
  <2>4. CASE ~ (g = f /\ i = s)
    BY <1>1, <2>1, <2>2, <2>4
  <2> QED
    BY <2>3, <2>4
<1>4. PointersMarked'
  <2> SUFFICES ASSUME NEW c \in Blocks!Block
               PROVE  c \in Marked' <=> \E g \in OneFile, i \in Slot : To(g, i)' = c
    BY DEF PointersMarked, Slot, Blocks!Block
  <2>1. To(f, s)' = b
    BY DEF PointerSet
  <2>2. CASE c = b
    BY <2>1, <2>2
  <2>3. CASE c # b
    <3>1. c \in Marked' <=> \E g \in OneFile, i \in Slot : To(g, i) = c
      BY <2>3 DEF PointersMarked
    <3>2. c # 0
      BY <1>2
    <3> QED
      BY <2>3, <3>1, <3>2 DEF PointerSet
  <2> QED
    BY <2>2, <2>3
<1> QED
  BY <1>3, <1>4

LEMMA FreesABlock ==
  ASSUME PartsAssumption, PointersDiffer, PointersMarked, NEW f \in OneFile, NEW s \in Slot,
         PointerSet(f, s, 0), Marked' = Marked \ {To(f, s)}
  PROVE  PointersDiffer' /\ PointersMarked'
<1>1. NumBlocks \in Nat /\ 0 \notin Blocks!Block
  BY BlockFacts DEF Blocks!Block
<1>2. PointersDiffer'
  <2> SUFFICES ASSUME NEW g \in OneFile, NEW h \in OneFile, NEW i \in Slot, NEW j \in Slot,
                      To(g, i)' = To(h, j)', To(g, i)' # 0
               PROVE  g = h /\ i = j
    BY DEF PointersDiffer, Slot
  <2>1. /\ To(g, i)' = IF g = f /\ i = s THEN 0 ELSE To(g, i)
        /\ To(h, j)' = IF h = f /\ j = s THEN 0 ELSE To(h, j)
    BY DEF PointerSet
  <2>2. To(g, i) = To(h, j) /\ To(g, i) # 0 => g = h /\ i = j
    BY DEF PointersDiffer
  <2>3. CASE g = f /\ i = s
    BY <2>1, <2>2, <2>3
  <2>4. CASE ~ (g = f /\ i = s)
    BY <2>1, <2>2, <2>4
  <2> QED
    BY <2>3, <2>4
<1>3. PointersMarked'
  <2> SUFFICES ASSUME NEW c \in Blocks!Block
               PROVE  c \in Marked' <=> \E g \in OneFile, i \in Slot : To(g, i)' = c
    BY DEF PointersMarked, Slot, Blocks!Block
  <2>1. c # 0 /\ (c \in Marked <=> \E g \in OneFile, i \in Slot : To(g, i) = c)
    BY <1>1 DEF PointersMarked
  <2>2. CASE c = To(f, s)
    <3>1. \A g \in OneFile, i \in Slot : To(g, i) = c => g = f /\ i = s
      BY <2>1, <2>2 DEF PointersDiffer
    <3>2. \A g \in OneFile, i \in Slot : To(g, i)' # c
      BY <2>1, <3>1 DEF PointerSet
    <3> QED
      BY <2>2, <3>2
  <2>3. CASE c # To(f, s)
    <3>1. c \in Marked' <=> \E g \in OneFile, i \in Slot : To(g, i) = c
      BY <2>1, <2>3
    <3>2. \A g \in OneFile, i \in Slot : To(g, i)' = c <=> To(g, i) = c
      BY <2>1, <2>3 DEF PointerSet
    <3> QED
      BY <3>1, <3>2
  <2> QED
    BY <2>2, <2>3
<1> QED
  BY <1>2, <1>3

LEMMA NoBlockMoves ==
  ASSUME PartsAssumption, PointersDiffer, PointersMarked, PointersStay, Marked' = Marked
  PROVE  PointersDiffer' /\ PointersMarked'
<1>1. PointersDiffer'
  <2> SUFFICES ASSUME NEW g \in OneFile, NEW h \in OneFile, NEW i \in Slot, NEW j \in Slot,
                      To(g, i)' = To(h, j)', To(g, i)' # 0
               PROVE  g = h /\ i = j
    BY DEF PointersDiffer, Slot
  <2>1. To(g, i)' = To(g, i) /\ To(h, j)' = To(h, j)
    BY DEF PointersStay
  <2>2. To(g, i) = To(h, j) /\ To(g, i) # 0
    BY <2>1
  <2> QED
    BY <2>2 DEF PointersDiffer
<1>2. PointersMarked'
  <2> SUFFICES ASSUME NEW c \in Blocks!Block
               PROVE  c \in Marked' <=> \E g \in OneFile, i \in Slot : To(g, i)' = c
    BY DEF PointersMarked, Slot, Blocks!Block
  <2>1. c \in Marked' <=> \E g \in OneFile, i \in Slot : To(g, i) = c
    BY DEF PointersMarked
  <2> QED
    BY <2>1 DEF PointersStay
<1> QED
  BY <1>1, <1>2

\* A file has the blocks it had, unless one of its pointers is cleared.
LEMMA BlocksStay ==
  ASSUME PartsAssumption, BlockTypes, NEW f \in OneFile, NEW n, HasBlocks(f, n),
         \A i \in Slot : To(f, i) # 0 => To(f, i)' # 0
  PROVE  \A bn \in 0 .. NDirect + NIndirect - 1 : bn * BSize < n => To(f, SlotOf(bn))' # 0
<1> TAKE bn \in 0 .. NDirect + NIndirect - 1
<1> HAVE bn * BSize < n
<1>1. SlotOf(bn) \in Slot /\ To(f, SlotOf(bn)) # 0
  BY PointersAre DEF HasBlocks
<1>2. SlotOf(bn)' = SlotOf(bn)
  BY DEF SlotOf
<1> QED
  BY <1>1, <1>2

LEMMA PieceInFile ==
  ASSUME PartsAssumption, NEW s \in Nat
  PROVE  s < Blocks!MaxBytes => s \div BSize \in 0 .. NDirect + NIndirect - 1
<1>1. NDirect \in Nat /\ NIndirect \in Nat /\ BSize \in Nat \ {0}
  BY BlockFacts
<1>2. NDirect + NIndirect \in Nat
  BY <1>1
<1>3. PICK N \in Nat : N = NDirect + NIndirect
  BY <1>2
<1>4. s < N * BSize => s \div BSize \in 0 .. N - 1
  BY <1>1, PieceInside
<1>5. Blocks!MaxBytes = N * BSize
  BY <1>3 DEF Blocks!MaxBytes
<1>6. s < Blocks!MaxBytes => s \div BSize \in 0 .. N - 1
  BY <1>4, <1>5
<1>7. 0 .. N - 1 = 0 .. NDirect + NIndirect - 1
  BY <1>1, <1>3
<1> QED
  BY <1>6, <1>7

-----------------------------------------------------------------------------
(* Where a block is attached.                                              *)

LEMMA PointersOfOthers ==
  ASSUME PartsAssumption, BlockTypes, NEW g \in OneFile, pc' = pc,
         pc[g] = "trunc" => pos'[g] = pos[g], addrs'[g] = addrs[g],
         PointerBlock(g) # 0 => content'[PointerBlock(g)] = content[PointerBlock(g)]
  PROVE  \A i \in Slot : To(g, i)' = To(g, i)
<1>1. PointerBlock(g)' = PointerBlock(g)
  BY DEF PointerBlock
<1> QED
  BY <1>1 DEF To

LEMMA Attaches ==
  ASSUME PartsAssumption, BlockTypes, PointersDiffer, PointersMarked, NEW f \in OneFile,
         NEW bn \in 0 .. NDirect + NIndirect - 1, pc[f] # "trunc", NEW b \in Blocks!Block,
         b \notin Marked, Blocks!Mapped(f, bn) = 0, Blocks!Attach(f, bn, b), pc' = pc, pos' = pos
  PROVE  /\ addrs' \in [OneFile -> [0 .. NDirect -> Blocks!Pointer]]
         /\ content' \in [Blocks!Block -> [0 .. NIndirect - 1 -> Blocks!Pointer]]
         /\ \E s \in Slot : To(f, s) = 0 /\ PointerSet(f, s, b)
<1>1. NDirect \in Nat /\ NIndirect \in Nat \ {0} /\ NumBlocks \in Nat
  BY BlockFacts
<1>2. b \in Blocks!Pointer /\ b # 0 /\ 0 \in Blocks!Pointer
  BY <1>1 DEF Blocks!Block, Blocks!Pointer
<1>3. \A g \in OneFile : PointerBlock(g) # b /\ PointerBlock(g) \in Blocks!Pointer
  <2> TAKE g \in OneFile
  <2>1. PointerBlock(g) = To(g, NDirect) /\ NDirect \in Slot /\ PointerBlock(g) \in Blocks!Pointer
    BY <1>1, PointersAre
  <2> QED
    BY <2>1 DEF PointersMarked
<1>4. Blocks!Zeroes \in [0 .. NIndirect - 1 -> Blocks!Pointer]
  BY <1>2 DEF Blocks!Zeroes
<1>5. \A g \in OneFile : PointerBlock(g) # 0 => PointerBlock(g) \in Blocks!Block
  BY <1>1, <1>3 DEF Blocks!Block, Blocks!Pointer
<1>6. addrs \in [OneFile -> [0 .. NDirect -> Blocks!Pointer]]
      /\ content \in [Blocks!Block -> [0 .. NIndirect - 1 -> Blocks!Pointer]]
  BY DEF BlockTypes
<1>7. CASE /\ bn < NDirect \/ PointerBlock(f) = 0
           /\ addrs' = [addrs EXCEPT ![f][IF bn < NDirect THEN bn ELSE NDirect] = b]
           /\ content' = [content EXCEPT ![b] = Blocks!Zeroes]
  <2>1. PICK s \in 0 .. NDirect : s = IF bn < NDirect THEN bn ELSE NDirect
    BY <1>1
  <2>2. addrs' = [addrs EXCEPT ![f] = [addrs[f] EXCEPT ![s] = b]]
    BY <1>6, <1>7, <2>1
  <2>3. addrs' \in [OneFile -> [0 .. NDirect -> Blocks!Pointer]]
    BY <1>2, <1>6, <2>2
  <2>4. content' \in [Blocks!Block -> [0 .. NIndirect - 1 -> Blocks!Pointer]]
    BY <1>4, <1>6, <1>7
  <2>5. s \in Slot /\ To(f, s) = 0
    <3>1. s \in Slot /\ To(f, s) = addrs[f][s]
      BY PointersAre
    <3> QED
      BY <1>7, <2>1, <3>1 DEF Blocks!Mapped, PointerBlock
  <2>6. \A g \in OneFile : PointerBlock(g) # 0 => content'[PointerBlock(g)] = content[PointerBlock(g)]
    BY <1>3, <1>5, <1>6, <1>7
  <2>7. ASSUME NEW g \in OneFile, NEW i \in Slot PROVE To(g, i)' = IF g = f /\ i = s THEN b ELSE To(g, i)
    <3>1. CASE g # f
      <4>1. addrs'[g] = addrs[g]
        BY <1>6, <2>2, <3>1
      <4> QED
        BY <2>6, <3>1, <4>1, PointersOfOthers
    <3>2. CASE g = f
      <4>1. \A j \in 0 .. NDirect : addrs'[f][j] = IF j = s THEN b ELSE addrs[f][j]
        BY <1>6, <2>2
      <4>2. CASE i <= NDirect
        <5>1. i \in 0 .. NDirect
          BY <1>1, <4>2 DEF Slot
        <5> QED
          BY <3>2, <4>1, <4>2, <5>1 DEF To
      <4>3. CASE ~ (i <= NDirect)
        <5>1. i # s
          BY <1>1, <2>1, <4>3
        <5>2. CASE s = NDirect
          <6>1. PointerBlock(f) = 0 /\ PointerBlock(f)' = b
            BY <1>7, <2>1, <4>1, <5>2, <1>1 DEF PointerBlock
          <6>2. i - NDirect - 1 \in 0 .. NIndirect - 1
            BY <1>1, <4>3 DEF Slot
          <6>3. content'[b][i - NDirect - 1] = 0
            BY <1>6, <1>7, <6>2 DEF Blocks!Zeroes
          <6> QED
            BY <3>2, <4>3, <5>1, <6>1, <6>3 DEF To
        <5>3. CASE s # NDirect
          <6>1. PointerBlock(f)' = PointerBlock(f)
            BY <1>1, <4>1, <5>3 DEF PointerBlock
          <6> QED
            BY <2>6, <3>2, <4>3, <5>1, <6>1 DEF To
        <5> QED
          BY <5>2, <5>3
      <4> QED
        BY <4>2, <4>3
    <3> QED
      BY <3>1, <3>2
  <2> QED
    BY <2>3, <2>4, <2>5, <2>7 DEF PointerSet
<1>8. CASE /\ bn >= NDirect /\ PointerBlock(f) # 0
           /\ content' = [content EXCEPT ![b] = Blocks!Zeroes, ![PointerBlock(f)][bn - NDirect] = b]
           /\ addrs' = addrs
  <2>1. PICK k \in 0 .. NIndirect - 1 : k = bn - NDirect
    BY <1>1, <1>8
  <2>2. PICK P \in Blocks!Block : P = PointerBlock(f) /\ P # b
    BY <1>3, <1>5, <1>8
  <2>3. content' = [content EXCEPT ![b] = Blocks!Zeroes, ![P] = [content[P] EXCEPT ![k] = b]]
    BY <1>6, <1>8, <2>1, <2>2
  <2>4. /\ content' \in [Blocks!Block -> [0 .. NIndirect - 1 -> Blocks!Pointer]]
        /\ \A c \in Blocks!Block : c # b /\ c # P => content'[c] = content[c]
        /\ \A j \in 0 .. NIndirect - 1 : content'[P][j] = IF j = k THEN b ELSE content[P][j]
    BY <1>2, <1>4, <1>6, <2>2, <2>3
  <2>5. PICK s \in Slot : s = bn + 1 /\ ~ (s <= NDirect) /\ s - NDirect - 1 = k
    BY <1>1, <1>8, <2>1 DEF Slot
  <2>6. To(f, s) = 0
    <3>1. SlotOf(bn) = s
      BY <1>1, <1>8, <2>5 DEF SlotOf
    <3>2. Blocks!Mapped(f, bn) = To(f, SlotOf(bn))
      BY PointersAre
    <3> QED
      BY <3>1, <3>2
  <2>7. ASSUME NEW g \in OneFile, NEW i \in Slot PROVE To(g, i)' = IF g = f /\ i = s THEN b ELSE To(g, i)
    <3>1. CASE g # f
      <4>1. PointerBlock(g) # 0 => PointerBlock(g) # P
        <5>1. PointerBlock(g) = To(g, NDirect) /\ P = To(f, NDirect) /\ NDirect \in Slot
          BY <1>1, <2>2, PointersAre
        <5> QED
          BY <3>1, <5>1 DEF PointersDiffer
      <4>2. PointerBlock(g) # 0 => content'[PointerBlock(g)] = content[PointerBlock(g)]
        BY <1>3, <1>5, <2>4, <4>1
      <4> QED
        BY <1>8, <3>1, <4>2, PointersOfOthers
    <3>2. CASE g = f
      <4>1. CASE i <= NDirect
        BY <1>8, <2>5, <3>2, <4>1 DEF To
      <4>2. CASE ~ (i <= NDirect)
        <5>1. PICK j \in 0 .. NIndirect - 1 : j = i - NDirect - 1
          BY <1>1, <4>2 DEF Slot
        <5>2. i = s <=> j = k
          BY <1>1, <2>5, <5>1 DEF Slot
        <5>3. PointerBlock(f)' = P /\ P # 0
          BY <1>8, <2>2 DEF PointerBlock
        <5>4. To(f, i)' = content'[P][j]
          BY <1>8, <4>2, <5>1, <5>3 DEF To
        <5>5. To(f, i) = content[P][j]
          BY <1>8, <2>2, <4>2, <5>1 DEF To
        <5> QED
          BY <2>4, <3>2, <5>2, <5>4, <5>5
      <4> QED
        BY <4>1, <4>2
    <3> QED
      BY <3>1, <3>2
  <2> QED
    BY <1>6, <1>8, <2>4, <2>6, <2>7 DEF PointerSet
<1> QED
  BY <1>7, <1>8 DEF Blocks!Attach, Blocks!Indirect, PointerBlock

\* A block is filled that no pointer block is.
LEMMA Fills ==
  ASSUME PartsAssumption, BlockTypes, PointersDiffer, NEW f \in OneFile,
         NEW bn \in 0 .. NDirect + NIndirect - 1, pc[f] # "trunc", Blocks!Mapped(f, bn) # 0,
         content' = [content EXCEPT ![Blocks!Mapped(f, bn)] = Blocks!Data],
         addrs' = addrs, pc' = pc, \A g \in OneFile : pc[g] = "trunc" => pos'[g] = pos[g]
  PROVE  PointersStay /\ content' \in [Blocks!Block -> [0 .. NIndirect - 1 -> Blocks!Pointer]]
<1>1. NDirect \in Nat /\ NIndirect \in Nat \ {0} /\ NumBlocks \in Nat
  BY BlockFacts
<1>2. PICK b : b = Blocks!Mapped(f, bn)
  OBVIOUS
<1>3. b = To(f, SlotOf(bn)) /\ SlotOf(bn) \in Slot /\ SlotOf(bn) # NDirect /\ b \in Blocks!Pointer
  BY <1>2, PointersAre
<1>4. b \in Blocks!Block /\ b # 0 /\ 1 \in Blocks!Pointer
  BY <1>1, <1>2, <1>3 DEF Blocks!Pointer, Blocks!Block
<1>5. Blocks!Data \in [0 .. NIndirect - 1 -> Blocks!Pointer]
  BY <1>4 DEF Blocks!Data
<1>6. content' = [content EXCEPT ![b] = Blocks!Data]
  BY <1>2
<1>7. content' \in [Blocks!Block -> [0 .. NIndirect - 1 -> Blocks!Pointer]]
  BY <1>5, <1>6 DEF BlockTypes
<1>8. ASSUME NEW g \in OneFile, NEW i \in Slot PROVE To(g, i)' = To(g, i)
  <2>1. NDirect \in Slot /\ PointerBlock(g) = To(g, NDirect) /\ PointerBlock(g) \in Blocks!Pointer
    BY <1>1, PointersAre
  <2>2. PointerBlock(g) # b
    BY <1>3, <1>4, <2>1 DEF PointersDiffer
  <2>3. PointerBlock(g) # 0 => PointerBlock(g) \in Blocks!Block
    BY <1>1, <2>1 DEF Blocks!Pointer, Blocks!Block
  <2>4. PointerBlock(g) # 0 => content'[PointerBlock(g)] = content[PointerBlock(g)]
    BY <1>6, <2>2, <2>3 DEF BlockTypes
  <2> QED
    BY <2>4, PointersOfOthers
<1> QED
  BY <1>7, <1>8 DEF PointersStay

-----------------------------------------------------------------------------
(* The steps.                                                              *)

LEMMA BlockCallOf ==
  ASSUME PartsAssumption, BlockTypes, NEW f \in OneFile, BlockCall(f), phase' = phase,
         pc'[f] = pc[f], pos'[f] = pos[f], left'[f] = left[f], size'[f] = size[f],
         \A i \in Slot : To(f, i) # 0 => To(f, i)' # 0
  PROVE  BlockCall(f)'
<1>1. HasBlocks(f, pos[f]) => HasBlocks(f, pos[f])'
  BY BlocksStay DEF HasBlocks
<1>2. HasBlocks(f, size[f]) => HasBlocks(f, size[f])'
  BY BlocksStay DEF HasBlocks
<1> QED
  BY <1>1, <1>2 DEF BlockCall, Blocks!MaxBytes

LEMMA BlockInit == ASSUME PartsAssumption, Blocks!Init PROVE BlockInv
<1>1. /\ NDirect \in Nat /\ NIndirect \in Nat \ {0} /\ NumBlocks \in Nat /\ MaxN \in Nat
      /\ BSize \in Nat /\ Blocks!MaxBytes \in Nat
  BY BlockFacts
<1>2. Blocks!Zeroes \in [0 .. NIndirect - 1 -> Blocks!Pointer]
  BY <1>1 DEF Blocks!Zeroes, Blocks!Pointer
<1>3. BlockTypes
  BY <1>1, <1>2 DEF Blocks!Init, BlockTypes, Blocks!Pointer
<1>4. \A f \in OneFile, i \in Slot : To(f, i) = 0
  BY <1>1 DEF Blocks!Init, To, Slot, PointerBlock
<1>5. PointersDiffer
  BY <1>4 DEF PointersDiffer
<1>6. PointersMarked
  BY <1>1, <1>4 DEF PointersMarked, Marked, Blocks!Init, Blocks!Block
<1>7. ASSUME NEW f \in OneFile PROVE BlockCall(f)
  <2>1. pc[f] = "idle" /\ pos[f] = 0 /\ left[f] = 0 /\ size[f] = 0
    BY DEF Blocks!Init
  <2>2. HasBlocks(f, 0)
    BY NothingBelow DEF HasBlocks
  <2> QED
    BY <2>1, <2>2 DEF BlockCall
<1> QED
  BY <1>3, <1>5, <1>6, <1>7 DEF BlockInv

LEMMA BlockStutter == ASSUME BlockInv, UNCHANGED Blocks!vars PROVE BlockInv'
<1>1. BlockTypes'
  BY DEF BlockInv, BlockTypes, Blocks!vars, Blocks!Pointer, Blocks!Block, Blocks!MaxBytes
<1>2. \A f, i : To(f, i)' = To(f, i)
  BY DEF Blocks!vars, To, PointerBlock
<1>3. PointersDiffer'
  BY <1>2 DEF BlockInv, PointersDiffer, Slot
<1>4. PointersMarked'
  BY <1>2 DEF BlockInv, PointersMarked, Slot, Marked, Blocks!vars, Blocks!Block
<1>5. \A f \in OneFile : BlockCall(f)'
  BY <1>2 DEF BlockInv, BlockCall, HasBlocks, SlotOf, Blocks!vars, Blocks!MaxBytes
<1> QED
  BY <1>1, <1>3, <1>4, <1>5 DEF BlockInv

LEMMA BlockAppend ==
  ASSUME PartsAssumption, BlockInv, NEW f \in OneFile, NEW n \in 1 .. BSize, Blocks!Append(f, n)
  PROVE  BlockInv'
<1>1. /\ NDirect \in Nat /\ NIndirect \in Nat \ {0} /\ NumBlocks \in Nat /\ MaxN \in Nat
      /\ BSize \in Nat \ {0} /\ Blocks!MaxBytes \in Nat
  BY BlockFacts
<1>2. /\ phase = "mkfs" /\ phase' = phase /\ bitmap' = bitmap /\ pc' = pc /\ pos' = pos /\ left' = left
      /\ size[f] + n <= Blocks!MaxBytes /\ (size[f] % BSize) + n <= BSize
  BY DEF Blocks!Append
<1>3. size[f] \in Nat /\ BlockTypes /\ PointersDiffer /\ PointersMarked
      /\ \A g \in OneFile : BlockCall(g) /\ pc[g] = "idle"
  BY <1>1, <1>2 DEF BlockInv, BlockTypes, BlockCall
<1>4. PICK bn \in 0 .. NDirect + NIndirect - 1 : bn = size[f] \div BSize
  <2>1. size[f] < Blocks!MaxBytes
    BY <1>1, <1>2, <1>3
  <2>2. size[f] \div BSize \in 0 .. NDirect + NIndirect - 1
    BY <1>3, <2>1, PieceInFile
  <2> QED
    BY <2>2
<1>5. Marked = 1 .. freeblock /\ Marked' = 1 .. freeblock' /\ freeblock \in 0 .. NumBlocks
  BY <1>2, <1>3 DEF Marked, BlockTypes, Blocks!Pointer
<1>6. CASE Blocks!Mapped(f, bn) = 0
  <2>1. /\ freeblock < NumBlocks /\ freeblock' = freeblock + 1 /\ size' = size
        /\ Blocks!Attach(f, bn, freeblock + 1)
    BY <1>4, <1>6 DEF Blocks!Append
  <2>2. PICK b \in Blocks!Block : b = freeblock + 1 /\ b \notin Marked /\ Marked' = Marked \cup {b}
    BY <1>1, <1>5, <2>1 DEF Blocks!Block
  <2>3. pc[f] # "trunc"
    BY <1>3
  <2>4. /\ addrs' \in [OneFile -> [0 .. NDirect -> Blocks!Pointer]]
        /\ content' \in [Blocks!Block -> [0 .. NIndirect - 1 -> Blocks!Pointer]]
        /\ \E s \in Slot : To(f, s) = 0 /\ PointerSet(f, s, b)
    BY <1>2, <1>3, <1>6, <2>1, <2>2, <2>3, Attaches
  <2>5. PICK s \in Slot : To(f, s) = 0 /\ PointerSet(f, s, b)
    BY <2>4
  <2>6. PointersDiffer' /\ PointersMarked'
    BY <1>3, <2>2, <2>5, TakesABlock
  <2>7. freeblock' \in Blocks!Pointer
    BY <1>1, <1>5, <2>1 DEF Blocks!Pointer
  <2>8. BlockTypes'
    BY <1>2, <1>3, <2>1, <2>4, <2>7 DEF BlockTypes, Blocks!Pointer, Blocks!Block, Blocks!MaxBytes
  <2>9. ASSUME NEW g \in OneFile PROVE BlockCall(g)'
    <3>1. b # 0
      BY <1>1 DEF Blocks!Block
    <3>2. \A i \in Slot : To(g, i) # 0 => To(g, i)' # 0
      BY <2>5, <3>1 DEF PointerSet
    <3> QED
      BY <1>2, <1>3, <2>1, <3>2, BlockCallOf
  <2> QED
    BY <2>6, <2>8, <2>9 DEF BlockInv
<1>7. CASE Blocks!Mapped(f, bn) # 0
  <2>1. /\ freeblock' = freeblock /\ addrs' = addrs
        /\ size' = [size EXCEPT ![f] = @ + n]
        /\ content' = [content EXCEPT ![Blocks!Mapped(f, bn)] = Blocks!Data]
    BY <1>4, <1>7 DEF Blocks!Append
  <2>2. PointersStay /\ content' \in [Blocks!Block -> [0 .. NIndirect - 1 -> Blocks!Pointer]]
    BY <1>2, <1>3, <1>7, <2>1, Fills
  <2>3. PointersDiffer' /\ PointersMarked'
    BY <1>3, <1>5, <2>1, <2>2, NoBlockMoves
  <2>4. size' \in [OneFile -> 0 .. Blocks!MaxBytes] /\ size'[f] = size[f] + n
    <3>1. size[f] + n \in 0 .. Blocks!MaxBytes
      BY <1>1, <1>2, <1>3
    <3> QED
      BY <1>3, <2>1, <3>1 DEF BlockTypes
  <2>5. BlockTypes'
    BY <1>2, <1>3, <2>1, <2>2, <2>4 DEF BlockTypes, Blocks!Pointer, Blocks!Block, Blocks!MaxBytes
  <2>6. ASSUME NEW g \in OneFile PROVE BlockCall(g)'
    <3>1. \A i \in Slot : To(g, i)' = To(g, i)
      BY <2>2 DEF PointersStay
    <3>2. CASE g # f
      <4>1. size'[g] = size[g]
        BY <1>3, <2>1, <3>2 DEF BlockTypes
      <4> QED
        BY <1>2, <1>3, <3>1, <4>1, BlockCallOf
    <3>3. CASE g = f
      <4>1. HasBlocks(f, size[f])
        BY <1>3 DEF BlockCall
      <4>2. ASSUME NEW c \in 0 .. NDirect + NIndirect - 1, c * BSize < size[f] + n
            PROVE  To(f, SlotOf(c))' # 0
        <5>1. c = bn \/ c * BSize < size[f]
          <6>1. c \in Nat /\ n \in Nat
            BY <1>1
          <6> QED
            BY <1>1, <1>2, <1>3, <1>4, <4>2, <6>1, PiecesBelow
        <5>2. c * BSize < size[f] => To(f, SlotOf(c)) # 0
          BY <4>1 DEF HasBlocks
        <5>3. To(f, SlotOf(bn)) # 0 /\ SlotOf(c) \in Slot
          BY <1>3, <1>7, PointersAre
        <5>4. SlotOf(c)' = SlotOf(c)
          BY DEF SlotOf
        <5> QED
          BY <3>1, <3>3, <5>1, <5>2, <5>3, <5>4
      <4>3. HasBlocks(f, size[f])'
        BY <2>4, <4>2 DEF HasBlocks
      <4> QED
        BY <1>2, <1>3, <3>3, <4>3 DEF BlockCall
    <3> QED
      BY <3>2, <3>3
  <2> QED
    BY <2>3, <2>5, <2>6 DEF BlockInv
<1> QED
  BY <1>6, <1>7

LEMMA BlockWrite ==
  ASSUME PartsAssumption, BlockInv, NEW f \in OneFile, NEW off \in 0 .. Blocks!MaxBytes,
         NEW n \in 1 .. MaxN, Blocks!Write(f, off, n)
  PROVE  BlockInv'
<1>1. BlockTypes /\ PointersDiffer /\ PointersMarked /\ BlockCall(f) /\ Blocks!MaxBytes \in Nat
      /\ MaxN \in Nat /\ BSize \in Nat /\ NDirect \in Nat /\ NIndirect \in Nat
  BY BlockFacts DEF BlockInv
<1>2. /\ phase = "running" /\ pc[f] = "idle" /\ off <= size[f] /\ off + n <= Blocks!MaxBytes
      /\ pc' = [pc EXCEPT ![f] = "write"] /\ pos' = [pos EXCEPT ![f] = off]
      /\ left' = [left EXCEPT ![f] = n]
      /\ phase' = phase /\ freeblock' = freeblock /\ bitmap' = bitmap /\ addrs' = addrs
      /\ content' = content /\ size' = size
  BY DEF Blocks!Write
<1>3. \A g \in OneFile : /\ pc'[g] = IF g = f THEN "write" ELSE pc[g]
                         /\ pos'[g] = IF g = f THEN off ELSE pos[g]
                         /\ left'[g] = IF g = f THEN n ELSE left[g]
  BY <1>1, <1>2 DEF BlockTypes
<1>4. BlockTypes'
  <2>1. pos' \in [OneFile -> 0 .. Blocks!MaxBytes] /\ left' \in [OneFile -> 0 .. MaxN]
        /\ pc' \in [OneFile -> {"idle", "write", "trunc"}]
    BY <1>1, <1>2 DEF BlockTypes
  <2> QED
    BY <1>1, <1>2, <2>1 DEF BlockTypes, Blocks!Pointer, Blocks!Block, Blocks!MaxBytes
<1>5. PointersStay
  BY <1>2, <1>3 DEF PointersStay, To, PointerBlock
<1>6. PointersDiffer' /\ PointersMarked'
  BY <1>1, <1>2, <1>5, NoBlockMoves DEF Marked
<1>7. ASSUME NEW g \in OneFile PROVE BlockCall(g)'
  <2>1. \A i \in Slot : To(g, i)' = To(g, i)
    BY <1>5 DEF PointersStay
  <2>2. CASE g # f
    BY <1>1, <1>2, <1>3, <2>1, <2>2, BlockCallOf DEF BlockInv
  <2>3. CASE g = f
    <3>1. HasBlocks(f, size[f]) /\ size[f] \in Nat
      BY <1>1, <1>2 DEF BlockCall, BlockTypes
    <3>2. HasBlocks(f, off)
      <4> SUFFICES ASSUME NEW c \in 0 .. NDirect + NIndirect - 1, c * BSize < off
                   PROVE  c * BSize < size[f]
        BY <3>1 DEF HasBlocks
      <4>1. c \in Nat
        BY <1>1
      <4>2. PICK x \in Nat : x = c * BSize
        BY <1>1, <4>1, ProductIsNat
      <4> QED
        BY <1>2, <3>1, <4>2
    <3>3. HasBlocks(f, size[f])'
      BY <1>1, <1>2, <2>1, <2>3, <3>1, BlocksStay DEF HasBlocks
    <3>4. HasBlocks(f, pos[f])'
      <4>1. \A c \in 0 .. NDirect + NIndirect - 1 : c * BSize < off => To(f, SlotOf(c))' # 0
        BY <1>1, <2>1, <2>3, <3>2, BlocksStay
      <4> QED
        BY <1>3, <4>1 DEF HasBlocks
    <3> QED
      BY <1>2, <1>3, <2>3, <3>3, <3>4 DEF BlockCall, Blocks!MaxBytes
  <2> QED
    BY <2>2, <2>3
<1> QED
  BY <1>4, <1>6, <1>7 DEF BlockInv

LEMMA WritingFacts ==
  ASSUME PartsAssumption, BlockInv, NEW f \in OneFile, Blocks!Writing(f)
  PROVE  /\ phase = "running" /\ pc[f] = "write" /\ pos[f] \in Nat /\ left[f] \in Nat \ {0}
         /\ pos[f] + left[f] <= Blocks!MaxBytes
         /\ HasBlocks(f, pos[f]) /\ HasBlocks(f, size[f])
         /\ Blocks!Piece(f) \in 0 .. NDirect + NIndirect - 1
<1>1. BlockTypes /\ BlockCall(f) /\ Blocks!MaxBytes \in Nat /\ MaxN \in Nat
  BY BlockFacts DEF BlockInv
<1>2. pc[f] = "write" /\ pos[f] \in Nat /\ left[f] \in Nat \ {0} /\ pos[f] + left[f] <= Blocks!MaxBytes
  BY <1>1 DEF Blocks!Writing, BlockTypes, BlockCall
<1>3. pos[f] < Blocks!MaxBytes
  BY <1>1, <1>2
<1>4. Blocks!Piece(f) \in 0 .. NDirect + NIndirect - 1
  BY <1>2, <1>3, PieceInFile DEF Blocks!Piece
<1> QED
  BY <1>1, <1>2, <1>4 DEF BlockCall, BlockTypes

LEMMA BlockAllocate ==
  ASSUME PartsAssumption, BlockInv, NEW f \in OneFile, Blocks!Allocate(f)
  PROVE  BlockInv'
<1>1. NDirect \in Nat /\ NIndirect \in Nat \ {0} /\ NumBlocks \in Nat
  BY BlockFacts
<1>2. Blocks!Writing(f)
  BY DEF Blocks!Allocate
<1>3. PICK bn \in 0 .. NDirect + NIndirect - 1 : bn = Blocks!Piece(f)
  BY <1>2, WritingFacts
<1>4. phase = "running" /\ pc[f] = "write"
  BY <1>2, WritingFacts
<1>5. BlockTypes /\ PointersDiffer /\ PointersMarked /\ \A g \in OneFile : BlockCall(g)
  BY DEF BlockInv
<1>6. PICK b : b = Blocks!Min(Blocks!Block \ bitmap)
  OBVIOUS
<1>7. /\ Blocks!Mapped(f, bn) = 0 /\ bitmap # Blocks!Block /\ bitmap' = bitmap \cup {b}
      /\ Blocks!Attach(f, bn, b) /\ phase' = phase /\ freeblock' = freeblock /\ size' = size
      /\ pc' = pc /\ pos' = pos /\ left' = left
  BY <1>3, <1>6 DEF Blocks!Allocate
<1>8. b \in Blocks!Block /\ b \notin bitmap /\ b # 0
  <2>1. Blocks!Block \ bitmap \subseteq Nat /\ Blocks!Block \ bitmap # {}
    <3>1. bitmap \subseteq Blocks!Block
      BY <1>5 DEF BlockTypes
    <3>2. Blocks!Block \subseteq Nat
      BY <1>1 DEF Blocks!Block
    <3> QED
      BY <1>7, <3>1, <3>2
  <2>2. b \in Blocks!Block \ bitmap
    BY <1>6, <2>1, LeastBlock
  <2> QED
    BY <1>1, <2>2 DEF Blocks!Block
<1>9. Marked = bitmap /\ Marked' = Marked \cup {b}
  BY <1>4, <1>7 DEF Marked
<1>10. /\ addrs' \in [OneFile -> [0 .. NDirect -> Blocks!Pointer]]
       /\ content' \in [Blocks!Block -> [0 .. NIndirect - 1 -> Blocks!Pointer]]
       /\ \E s \in Slot : To(f, s) = 0 /\ PointerSet(f, s, b)
  BY <1>4, <1>5, <1>7, <1>8, <1>9, Attaches
<1>11. PICK s \in Slot : To(f, s) = 0 /\ PointerSet(f, s, b)
  BY <1>10
<1>12. PointersDiffer' /\ PointersMarked'
  BY <1>5, <1>8, <1>9, <1>11, TakesABlock
<1>13. BlockTypes'
  BY <1>5, <1>7, <1>8, <1>10 DEF BlockTypes, Blocks!Pointer, Blocks!Block, Blocks!MaxBytes
<1>14. ASSUME NEW g \in OneFile PROVE BlockCall(g)'
  <2>1. \A i \in Slot : To(g, i) # 0 => To(g, i)' # 0
    BY <1>8, <1>11 DEF PointerSet
  <2> QED
    BY <1>5, <1>7, <2>1, BlockCallOf
<1> QED
  BY <1>12, <1>13, <1>14 DEF BlockInv

\* What Copy copies: at least a byte, at most what is left and what fits.
LEMMA PieceIsShort ==
  ASSUME NEW a \in Nat \ {0}, NEW b \in Nat \ {0}, NEW m, m = Blocks!Min({a, b})
  PROVE  m \in Nat \ {0} /\ m <= a /\ m <= b
<1>1. {a, b} \subseteq Nat /\ {a, b} # {}
  OBVIOUS
<1>2. m \in {a, b} /\ \A x \in {a, b} : m <= x
  BY <1>1, LeastBlock
<1> QED
  BY <1>2

LEMMA BlockCopy ==
  ASSUME PartsAssumption, BlockInv, NEW f \in OneFile, Blocks!Copy(f)
  PROVE  BlockInv'
<1>1. BSize \in Nat \ {0} /\ Blocks!MaxBytes \in Nat /\ MaxN \in Nat /\ NDirect \in Nat /\ NIndirect \in Nat
  BY BlockFacts
<1>2. Blocks!Writing(f)
  BY DEF Blocks!Copy
<1>3. PICK bn \in 0 .. NDirect + NIndirect - 1 : bn = Blocks!Piece(f)
  BY <1>2, WritingFacts
<1>4. /\ phase = "running" /\ pc[f] = "write" /\ pos[f] + left[f] <= Blocks!MaxBytes
      /\ pos[f] \in Nat /\ left[f] \in Nat \ {0} /\ HasBlocks(f, pos[f]) /\ HasBlocks(f, size[f])
  BY <1>2, WritingFacts
<1>5. BlockTypes /\ PointersDiffer /\ PointersMarked /\ \A g \in OneFile : BlockCall(g)
  BY DEF BlockInv
<1>6. PICK m : m = Blocks!Min({left[f], BSize - (pos[f] % BSize)})
  OBVIOUS
<1>7. /\ Blocks!Mapped(f, bn) # 0
      /\ content' = [content EXCEPT ![Blocks!Mapped(f, bn)] = Blocks!Data]
      /\ pos' = [pos EXCEPT ![f] = @ + m] /\ left' = [left EXCEPT ![f] = @ - m]
      /\ phase' = phase /\ freeblock' = freeblock /\ bitmap' = bitmap /\ addrs' = addrs
      /\ size' = size /\ pc' = pc
  BY <1>3, <1>6 DEF Blocks!Copy
<1>8. m \in Nat \ {0} /\ m <= left[f] /\ (pos[f] % BSize) + m <= BSize
  <2>1. pos[f] % BSize \in 0 .. BSize - 1
    BY <1>1, <1>4, PieceOf
  <2>2. PICK r \in 0 .. BSize - 1 : r = pos[f] % BSize
    BY <2>1
  <2>3. BSize - r \in Nat \ {0}
    BY <1>1
  <2>4. m \in Nat \ {0} /\ m <= left[f] /\ m <= BSize - r
    BY <1>4, <1>6, <2>2, <2>3, PieceIsShort
  <2>5. r + m <= BSize
    BY <1>1, <2>4
  <2> QED
    BY <2>2, <2>4, <2>5
<1>9. /\ pos' \in [OneFile -> 0 .. Blocks!MaxBytes] /\ left' \in [OneFile -> 0 .. MaxN]
      /\ \A g \in OneFile : /\ pos'[g] = IF g = f THEN pos[f] + m ELSE pos[g]
                            /\ left'[g] = IF g = f THEN left[f] - m ELSE left[g]
  <2>1. pos[f] + m \in 0 .. Blocks!MaxBytes /\ left[f] - m \in 0 .. MaxN
    BY <1>1, <1>4, <1>5, <1>8, SMTT(30) DEF BlockTypes
  <2>2. pos \in [OneFile -> 0 .. Blocks!MaxBytes] /\ left \in [OneFile -> 0 .. MaxN]
    BY <1>5 DEF BlockTypes
  <2> QED
    BY <1>7, <2>1, <2>2
<1>10. PointersStay /\ content' \in [Blocks!Block -> [0 .. NIndirect - 1 -> Blocks!Pointer]]
  <2>1. \A g \in OneFile : pc[g] = "trunc" => pos'[g] = pos[g]
    BY <1>4, <1>9
  <2> QED
    BY <1>4, <1>5, <1>7, <2>1, Fills
<1>11. PointersDiffer' /\ PointersMarked'
  BY <1>5, <1>7, <1>10, NoBlockMoves DEF Marked
<1>12. BlockTypes'
  BY <1>5, <1>7, <1>9, <1>10 DEF BlockTypes, Blocks!Pointer, Blocks!Block, Blocks!MaxBytes
<1>13. ASSUME NEW g \in OneFile PROVE BlockCall(g)'
  <2>1. \A i \in Slot : To(g, i)' = To(g, i)
    BY <1>10 DEF PointersStay
  <2>2. CASE g # f
    BY <1>5, <1>7, <1>9, <2>1, <2>2, BlockCallOf
  <2>3. CASE g = f
    <3>1. HasBlocks(f, size[f])'
      BY <1>4, <1>5, <1>7, <2>1, <2>3, BlocksStay DEF HasBlocks
    <3>2. ASSUME NEW c \in 0 .. NDirect + NIndirect - 1, c * BSize < pos[f] + m
          PROVE  To(f, SlotOf(c))' # 0
      <4>1. c \in Nat /\ m \in Nat
        BY <1>1, <1>8
      <4>2. c = bn \/ c * BSize < pos[f]
        BY <1>1, <1>3, <1>4, <1>8, <3>2, <4>1, PiecesBelow DEF Blocks!Piece
      <4>3. c * BSize < pos[f] => To(f, SlotOf(c)) # 0
        BY <1>4 DEF HasBlocks
      <4>4. To(f, SlotOf(bn)) # 0 /\ SlotOf(c) \in Slot
        BY <1>4, <1>5, <1>7, PointersAre
      <4>5. SlotOf(c)' = SlotOf(c)
        BY DEF SlotOf
      <4> QED
        BY <2>1, <2>3, <4>2, <4>3, <4>4, <4>5
    <3>3. HasBlocks(f, pos[f])'
      BY <1>9, <3>2 DEF HasBlocks
    <3>4. pos'[f] + left'[f] <= Blocks!MaxBytes
      BY <1>1, <1>4, <1>8, <1>9
    <3> QED
      BY <1>4, <1>7, <2>3, <3>1, <3>3, <3>4 DEF BlockCall, Blocks!MaxBytes
  <2> QED
    BY <2>2, <2>3
<1> QED
  BY <1>11, <1>12, <1>13 DEF BlockInv

LEMMA BlockWriteEnd ==
  ASSUME PartsAssumption, BlockInv, NEW f \in OneFile, Blocks!WriteEnd(f)
  PROVE  BlockInv'
<1>1. BSize \in Nat \ {0} /\ Blocks!MaxBytes \in Nat /\ MaxN \in Nat /\ NDirect \in Nat /\ NIndirect \in Nat
  BY BlockFacts
<1>2. BlockTypes /\ PointersDiffer /\ PointersMarked /\ \A g \in OneFile : BlockCall(g)
  BY DEF BlockInv
<1>3. /\ pc[f] = "write" /\ HasBlocks(f, pos[f]) /\ HasBlocks(f, size[f]) /\ phase # "mkfs"
      /\ pos[f] \in 0 .. Blocks!MaxBytes /\ size[f] \in 0 .. Blocks!MaxBytes
  BY <1>2 DEF Blocks!WriteEnd, BlockCall, BlockTypes
<1>4. PICK n : n = Blocks!Max({size[f], pos[f]})
  OBVIOUS
<1>5. /\ size' = [size EXCEPT ![f] = n] /\ pc' = [pc EXCEPT ![f] = "idle"]
      /\ pos' = [pos EXCEPT ![f] = 0] /\ left' = [left EXCEPT ![f] = 0]
      /\ phase' = phase /\ freeblock' = freeblock /\ bitmap' = bitmap /\ addrs' = addrs
      /\ content' = content
  BY <1>4 DEF Blocks!WriteEnd
<1>6. n \in {size[f], pos[f]}
  BY <1>1, <1>3, <1>4, GreaterOne
<1>7. /\ size' \in [OneFile -> 0 .. Blocks!MaxBytes] /\ pos' \in [OneFile -> 0 .. Blocks!MaxBytes]
      /\ left' \in [OneFile -> 0 .. MaxN] /\ pc' \in [OneFile -> {"idle", "write", "trunc"}]
      /\ \A g \in OneFile : /\ pc'[g] = IF g = f THEN "idle" ELSE pc[g]
                            /\ pos'[g] = IF g = f THEN 0 ELSE pos[g]
                            /\ left'[g] = IF g = f THEN 0 ELSE left[g]
                            /\ size'[g] = IF g = f THEN n ELSE size[g]
  <2>1. /\ size \in [OneFile -> 0 .. Blocks!MaxBytes] /\ pos \in [OneFile -> 0 .. Blocks!MaxBytes]
        /\ left \in [OneFile -> 0 .. MaxN] /\ pc \in [OneFile -> {"idle", "write", "trunc"}]
    BY <1>2 DEF BlockTypes
  <2>2. n \in 0 .. Blocks!MaxBytes /\ 0 \in 0 .. Blocks!MaxBytes /\ 0 \in 0 .. MaxN
    BY <1>1, <1>3, <1>6
  <2> QED
    BY <1>5, <2>1, <2>2
<1>8. BlockTypes'
  BY <1>2, <1>5, <1>7 DEF BlockTypes, Blocks!Pointer, Blocks!Block, Blocks!MaxBytes
<1>9. PointersStay
  BY <1>3, <1>5, <1>7 DEF PointersStay, To, PointerBlock
<1>10. PointersDiffer' /\ PointersMarked'
  BY <1>2, <1>5, <1>9, NoBlockMoves DEF Marked
<1>11. ASSUME NEW g \in OneFile PROVE BlockCall(g)'
  <2>1. \A i \in Slot : To(g, i)' = To(g, i)
    BY <1>9 DEF PointersStay
  <2>2. CASE g # f
    BY <1>2, <1>5, <1>7, <2>1, <2>2, BlockCallOf
  <2>3. CASE g = f
    <3>1. HasBlocks(f, n)
      BY <1>3, <1>6
    <3>2. \A c \in 0 .. NDirect + NIndirect - 1 : c * BSize < n => To(f, SlotOf(c))' # 0
      BY <1>2, <2>1, <2>3, <3>1, BlocksStay
    <3>3. HasBlocks(f, size[f])'
      BY <1>7, <3>2 DEF HasBlocks
    <3> QED
      BY <1>3, <1>5, <1>7, <2>3, <3>3 DEF BlockCall
  <2> QED
    BY <2>2, <2>3
<1> QED
  BY <1>8, <1>10, <1>11 DEF BlockInv

LEMMA BlockTrunc ==
  ASSUME PartsAssumption, BlockInv, NEW f \in OneFile, Blocks!Trunc(f)
  PROVE  BlockInv'
<1>1. BlockTypes /\ PointersDiffer /\ PointersMarked /\ \A g \in OneFile : BlockCall(g)
  BY DEF BlockInv
<1>2. /\ phase = "running" /\ pc[f] = "idle" /\ pc' = [pc EXCEPT ![f] = "trunc"]
      /\ phase' = phase /\ freeblock' = freeblock /\ bitmap' = bitmap /\ addrs' = addrs
      /\ content' = content /\ size' = size /\ pos' = pos /\ left' = left
  BY DEF Blocks!Trunc
<1>3. \A g \in OneFile : pc'[g] = IF g = f THEN "trunc" ELSE pc[g]
  BY <1>1, <1>2 DEF BlockTypes
<1>4. BlockTypes'
  BY <1>1, <1>2 DEF BlockTypes, Blocks!Pointer, Blocks!Block, Blocks!MaxBytes
<1>5. pos[f] = 0 /\ left[f] = 0
  BY <1>1, <1>2 DEF BlockCall
<1>6. ASSUME NEW g \in OneFile, NEW i \in Slot PROVE To(g, i)' = To(g, i)
  <2>1. CASE g # f
    BY <1>2, <1>3, <2>1 DEF To, PointerBlock
  <2>2. CASE g = f
    <3>1. ~ (i <= NDirect) => i - NDirect - 1 >= 0
      BY BlockFacts DEF Slot
    <3> QED
      BY <1>2, <1>3, <1>5, <2>2, <3>1 DEF To, PointerBlock
  <2> QED
    BY <2>1, <2>2
<1>7. PointersStay
  BY <1>6 DEF PointersStay
<1>8. PointersDiffer' /\ PointersMarked'
  BY <1>1, <1>2, <1>7, NoBlockMoves DEF Marked
<1>9. ASSUME NEW g \in OneFile PROVE BlockCall(g)'
  <2>1. CASE g # f
    BY <1>1, <1>2, <1>3, <1>6, <2>1, BlockCallOf
  <2>2. CASE g = f
    BY <1>2, <1>3, <1>5, <2>2 DEF BlockCall
  <2> QED
    BY <2>1, <2>2
<1> QED
  BY <1>4, <1>8, <1>9 DEF BlockInv

\* What the steps of a truncation have in common.
LEMMA TruncFacts ==
  ASSUME BlockInv, NEW f \in OneFile, pc[f] = "trunc"
  PROVE  /\ BlockTypes /\ PointersDiffer /\ PointersMarked /\ \A g \in OneFile : BlockCall(g)
         /\ phase = "running" /\ Marked = bitmap /\ left[f] = 0
  BY DEF BlockInv, BlockCall, BlockTypes, Marked

LEMMA OthersKeepTheirCalls ==
  ASSUME PartsAssumption, BlockTypes, NEW f \in OneFile, NEW s \in Slot, PointerSet(f, s, 0),
         NEW g \in OneFile, g # f, BlockCall(g), phase' = phase,
         pc'[g] = pc[g], pos'[g] = pos[g], left'[g] = left[g], size'[g] = size[g]
  PROVE  BlockCall(g)'
<1>1. \A i \in Slot : To(g, i) # 0 => To(g, i)' # 0
  BY DEF PointerSet
<1> QED
  BY <1>1, BlockCallOf

LEMMA BlockFreeDirect ==
  ASSUME PartsAssumption, BlockInv, NEW f \in OneFile, Blocks!FreeDirect(f)
  PROVE  BlockInv'
<1>1. NDirect \in Nat /\ NIndirect \in Nat \ {0} /\ NumBlocks \in Nat
  BY BlockFacts
<1>2. pc[f] = "trunc"
  BY DEF Blocks!FreeDirect
<1>3. /\ BlockTypes /\ PointersDiffer /\ PointersMarked /\ \A g \in OneFile : BlockCall(g)
      /\ phase = "running" /\ Marked = bitmap /\ left[f] = 0
  BY <1>2, TruncFacts
<1>4. PICK s : s = Blocks!Min(Blocks!DirectLeft(f))
  OBVIOUS
<1>5. /\ Blocks!DirectLeft(f) # {} /\ bitmap' = bitmap \ {addrs[f][s]}
      /\ addrs' = [addrs EXCEPT ![f][s] = 0]
      /\ phase' = phase /\ freeblock' = freeblock /\ content' = content /\ size' = size
      /\ pc' = pc /\ pos' = pos /\ left' = left
  BY <1>4 DEF Blocks!FreeDirect
<1>6. s \in 0 .. NDirect - 1
  <2>1. Blocks!DirectLeft(f) \subseteq 0 .. NDirect - 1 /\ 0 .. NDirect - 1 \subseteq Nat
    BY <1>1 DEF Blocks!DirectLeft
  <2>2. Blocks!DirectLeft(f) \subseteq Nat
    BY <2>1
  <2>3. s \in Blocks!DirectLeft(f)
    BY <1>4, <1>5, <2>2, LeastBlock
  <2> QED
    BY <2>1, <2>3
<1>7. s \in 0 .. NDirect /\ s \in Slot /\ s <= NDirect /\ s # NDirect /\ To(f, s) = addrs[f][s]
  BY <1>1, <1>6 DEF Slot, To
<1>8. /\ addrs' \in [OneFile -> [0 .. NDirect -> Blocks!Pointer]]
      /\ \A g \in OneFile, i \in 0 .. NDirect : addrs'[g][i] = IF g = f /\ i = s THEN 0 ELSE addrs[g][i]
  <2>1. addrs \in [OneFile -> [0 .. NDirect -> Blocks!Pointer]] /\ 0 \in Blocks!Pointer
    BY <1>1, <1>3 DEF BlockTypes, Blocks!Pointer
  <2> QED
    BY <1>5, <1>7, <2>1
<1>9. ASSUME NEW g \in OneFile, NEW i \in Slot PROVE To(g, i)' = IF g = f /\ i = s THEN 0 ELSE To(g, i)
  <2>1. PointerBlock(g)' = PointerBlock(g)
    BY <1>1, <1>7, <1>8 DEF PointerBlock
  <2>2. CASE i <= NDirect
    <3>1. i \in 0 .. NDirect
      BY <1>1, <2>2 DEF Slot
    <3> QED
      BY <1>8, <2>2, <3>1 DEF To
  <2>3. CASE ~ (i <= NDirect)
    BY <1>5, <1>7, <2>1, <2>3 DEF To
  <2> QED
    BY <2>2, <2>3
<1>10. PointerSet(f, s, 0)
  BY <1>9 DEF PointerSet
<1>11. PointersDiffer' /\ PointersMarked'
  BY <1>3, <1>5, <1>7, <1>10, FreesABlock DEF Marked
<1>12. BlockTypes'
  BY <1>3, <1>5, <1>8 DEF BlockTypes, Blocks!Pointer, Blocks!Block, Blocks!MaxBytes
<1>13. ASSUME NEW g \in OneFile PROVE BlockCall(g)'
  <2>1. CASE g # f
    BY <1>3, <1>5, <1>7, <1>10, <2>1, OthersKeepTheirCalls
  <2>2. CASE g = f
    BY <1>2, <1>3, <1>5, <2>2 DEF BlockCall
  <2> QED
    BY <2>1, <2>2
<1> QED
  BY <1>11, <1>12, <1>13 DEF BlockInv

LEMMA BlockFreeThroughIndirect ==
  ASSUME PartsAssumption, BlockInv, NEW f \in OneFile, Blocks!FreeThroughIndirect(f)
  PROVE  BlockInv'
<1>1. /\ NDirect \in Nat /\ NIndirect \in Nat \ {0} /\ NumBlocks \in Nat
      /\ Blocks!MaxBytes \in Nat /\ NIndirect <= Blocks!MaxBytes
  BY BlockFacts
<1>2. pc[f] = "trunc"
  BY DEF Blocks!FreeThroughIndirect
<1>3. /\ BlockTypes /\ PointersDiffer /\ PointersMarked /\ \A g \in OneFile : BlockCall(g)
      /\ phase = "running" /\ Marked = bitmap /\ left[f] = 0
  BY <1>2, TruncFacts
<1>4. PICK j : j = pos[f]
  OBVIOUS
<1>5. /\ PointerBlock(f) # 0 /\ j < NIndirect
      /\ bitmap' = bitmap \ {content[PointerBlock(f)][j]} /\ pos' = [pos EXCEPT ![f] = @ + 1]
      /\ phase' = phase /\ freeblock' = freeblock /\ addrs' = addrs /\ content' = content
      /\ size' = size /\ pc' = pc /\ left' = left
  BY <1>4 DEF Blocks!FreeThroughIndirect, Blocks!Indirect, PointerBlock
<1>6. j \in Nat /\ pos[f] = j
  BY <1>1, <1>3, <1>4 DEF BlockTypes
<1>7. /\ pos' \in [OneFile -> 0 .. Blocks!MaxBytes]
      /\ \A g \in OneFile : pos'[g] = IF g = f THEN j + 1 ELSE pos[g]
  <2>1. j + 1 \in 0 .. Blocks!MaxBytes
    BY <1>1, <1>5, <1>6
  <2> QED
    BY <1>3, <1>5, <1>6, <2>1 DEF BlockTypes
<1>8. PICK s \in Slot : s = NDirect + 1 + j /\ ~ (s <= NDirect) /\ s - NDirect - 1 = j
  BY <1>1, <1>5, <1>6 DEF Slot
<1>9. To(f, s) = content[PointerBlock(f)][j]
  <2>1. s - NDirect - 1 >= pos[f]
    BY <1>6, <1>8
  <2> QED
    BY <1>5, <1>8, <2>1 DEF To
<1>10. ASSUME NEW g \in OneFile, NEW i \in Slot PROVE To(g, i)' = IF g = f /\ i = s THEN 0 ELSE To(g, i)
  <2>1. PointerBlock(g)' = PointerBlock(g)
    BY <1>5 DEF PointerBlock
  <2>2. CASE g # f
    BY <1>5, <1>7, <2>1, <2>2 DEF To
  <2>3. CASE g = f
    <3>1. CASE i <= NDirect
      BY <1>5, <1>8, <2>3, <3>1 DEF To
    <3>2. CASE ~ (i <= NDirect)
      <4>1. PICK k \in 0 .. NIndirect - 1 : k = i - NDirect - 1
        BY <1>1, <3>2 DEF Slot
      <4>2. i = s <=> k = j
        BY <1>1, <1>6, <1>8, <4>1 DEF Slot
      <4>3. To(f, i)' = IF k >= j + 1 THEN content[PointerBlock(f)][k] ELSE 0
        BY <1>2, <1>5, <1>7, <2>1, <2>3, <3>2, <4>1 DEF To
      <4>4. To(f, i) = IF k >= j THEN content[PointerBlock(f)][k] ELSE 0
        BY <1>2, <1>5, <1>6, <3>2, <4>1 DEF To
      <4>5. k >= j + 1 <=> k >= j /\ k # j
        BY <1>1, <1>6
      <4> QED
        BY <2>3, <4>2, <4>3, <4>4, <4>5
    <3> QED
      BY <3>1, <3>2
  <2> QED
    BY <2>2, <2>3
<1>11. PointerSet(f, s, 0)
  BY <1>10 DEF PointerSet
<1>12. PointersDiffer' /\ PointersMarked'
  BY <1>3, <1>5, <1>9, <1>11, FreesABlock DEF Marked
<1>13. BlockTypes'
  BY <1>3, <1>5, <1>7 DEF BlockTypes, Blocks!Pointer, Blocks!Block, Blocks!MaxBytes
<1>14. ASSUME NEW g \in OneFile PROVE BlockCall(g)'
  <2>1. CASE g # f
    BY <1>3, <1>5, <1>7, <1>11, <2>1, OthersKeepTheirCalls
  <2>2. CASE g = f
    BY <1>2, <1>3, <1>5, <2>2 DEF BlockCall
  <2> QED
    BY <2>1, <2>2
<1> QED
  BY <1>12, <1>13, <1>14 DEF BlockInv

LEMMA BlockTruncEnd ==
  ASSUME PartsAssumption, BlockInv, NEW f \in OneFile, Blocks!TruncEnd(f)
  PROVE  BlockInv'
<1>1. /\ NDirect \in Nat /\ NIndirect \in Nat \ {0} /\ NumBlocks \in Nat
      /\ Blocks!MaxBytes \in Nat
  BY BlockFacts
<1>2. pc[f] = "trunc"
  BY DEF Blocks!TruncEnd
<1>3. /\ BlockTypes /\ PointersDiffer /\ PointersMarked /\ \A g \in OneFile : BlockCall(g)
      /\ phase = "running" /\ Marked = bitmap /\ left[f] = 0
  BY <1>2, TruncFacts
<1>4. /\ PointerBlock(f) = 0 \/ pos[f] = NIndirect
      /\ bitmap' = bitmap \ {PointerBlock(f)} /\ addrs' = [addrs EXCEPT ![f][NDirect] = 0]
      /\ size' = [size EXCEPT ![f] = 0] /\ pos' = [pos EXCEPT ![f] = 0]
      /\ pc' = [pc EXCEPT ![f] = "idle"]
      /\ phase' = phase /\ freeblock' = freeblock /\ content' = content /\ left' = left
  BY DEF Blocks!TruncEnd, Blocks!Indirect, PointerBlock
<1>5. /\ addrs' \in [OneFile -> [0 .. NDirect -> Blocks!Pointer]]
      /\ \A g \in OneFile, i \in 0 .. NDirect :
           addrs'[g][i] = IF g = f /\ i = NDirect THEN 0 ELSE addrs[g][i]
  <2>1. addrs \in [OneFile -> [0 .. NDirect -> Blocks!Pointer]] /\ 0 \in Blocks!Pointer
        /\ NDirect \in 0 .. NDirect
    BY <1>1, <1>3 DEF BlockTypes, Blocks!Pointer
  <2> QED
    BY <1>4, <2>1
<1>6. /\ size' \in [OneFile -> 0 .. Blocks!MaxBytes] /\ pos' \in [OneFile -> 0 .. Blocks!MaxBytes]
      /\ pc' \in [OneFile -> {"idle", "write", "trunc"}]
      /\ \A g \in OneFile : /\ pc'[g] = IF g = f THEN "idle" ELSE pc[g]
                            /\ pos'[g] = IF g = f THEN 0 ELSE pos[g]
                            /\ size'[g] = IF g = f THEN 0 ELSE size[g]
  <2>1. /\ size \in [OneFile -> 0 .. Blocks!MaxBytes] /\ pos \in [OneFile -> 0 .. Blocks!MaxBytes]
        /\ pc \in [OneFile -> {"idle", "write", "trunc"}] /\ 0 \in 0 .. Blocks!MaxBytes
    BY <1>1, <1>3 DEF BlockTypes
  <2> QED
    BY <1>4, <2>1
<1>7. NDirect \in Slot /\ NDirect \in 0 .. NDirect /\ To(f, NDirect) = PointerBlock(f)
  BY <1>1 DEF Slot, To, PointerBlock
<1>8. ASSUME NEW g \in OneFile, NEW i \in Slot
      PROVE  To(g, i)' = IF g = f /\ i = NDirect THEN 0 ELSE To(g, i)
  <2>1. PointerBlock(g)' = IF g = f THEN 0 ELSE PointerBlock(g)
    BY <1>5, <1>7 DEF PointerBlock
  <2>2. CASE i <= NDirect
    <3>1. i \in 0 .. NDirect
      BY <1>1, <2>2 DEF Slot
    <3> QED
      BY <1>5, <2>2, <3>1 DEF To
  <2>3. CASE ~ (i <= NDirect)
    <3>1. CASE g # f
      BY <1>4, <1>6, <2>1, <2>3, <3>1 DEF To
    <3>2. CASE g = f
      <4>1. To(f, i)' = 0
        BY <2>1, <2>3, <3>2 DEF To
      <4>2. i - NDirect - 1 < NIndirect
        BY <1>1 DEF Slot
      <4>3. To(f, i) = 0
        <5>1. CASE PointerBlock(f) = 0
          BY <2>3, <5>1 DEF To
        <5>2. CASE pos[f] = NIndirect
          <6>1. ~ (i - NDirect - 1 >= pos[f])
            BY <1>1, <4>2, <5>2 DEF Slot
          <6> QED
            BY <1>2, <2>3, <6>1 DEF To
        <5> QED
          BY <1>4, <5>1, <5>2
      <4> QED
        BY <3>2, <4>1, <4>3
    <3> QED
      BY <3>1, <3>2
  <2> QED
    BY <2>2, <2>3
<1>9. PointerSet(f, NDirect, 0)
  BY <1>8 DEF PointerSet
<1>10. PointersDiffer' /\ PointersMarked'
  BY <1>3, <1>4, <1>7, <1>9, FreesABlock DEF Marked
<1>11. BlockTypes'
  BY <1>3, <1>4, <1>5, <1>6 DEF BlockTypes, Blocks!Pointer, Blocks!Block, Blocks!MaxBytes
<1>12. ASSUME NEW g \in OneFile PROVE BlockCall(g)'
  <2>1. CASE g # f
    BY <1>3, <1>4, <1>6, <1>7, <1>9, <2>1, OthersKeepTheirCalls
  <2>2. CASE g = f
    <3>1. HasBlocks(f, size[f])'
      BY <1>6, NothingBelow DEF HasBlocks
    <3> QED
      BY <1>3, <1>4, <1>6, <2>2, <3>1 DEF BlockCall
  <2> QED
    BY <2>1, <2>2
<1> QED
  BY <1>10, <1>11, <1>12 DEF BlockInv

LEMMA BlockMkfsEnd ==
  ASSUME PartsAssumption, BlockInv, Blocks!MkfsEnd
  PROVE  BlockInv'
<1>1. /\ RootDir \in OneFile /\ NumBlocks \in Nat /\ NDirect \in Nat /\ NIndirect \in Nat \ {0}
      /\ BSize \in Nat \ {0} /\ Blocks!MaxBytes \in Nat
  BY BlockFacts
<1>2. BlockTypes /\ PointersDiffer /\ PointersMarked /\ \A g \in OneFile : BlockCall(g)
  BY DEF BlockInv
<1>3. /\ phase = "mkfs" /\ size[RootDir] % BSize # 0 /\ phase' = "running"
      /\ size' = [size EXCEPT ![RootDir] = (@ \div BSize + 1) * BSize]
      /\ bitmap' = 1 .. freeblock
      /\ freeblock' = freeblock /\ addrs' = addrs /\ content' = content /\ pc' = pc
      /\ pos' = pos /\ left' = left
  BY DEF Blocks!MkfsEnd
<1>4. Marked' = Marked /\ bitmap' \subseteq Blocks!Block
  BY <1>1, <1>2, <1>3 DEF Marked, BlockTypes, Blocks!Block, Blocks!Pointer
<1>5. PICK s \in Nat : s = size[RootDir] /\ s <= Blocks!MaxBytes
  BY <1>1, <1>2 DEF BlockTypes
<1>6. PICK q \in Nat, r \in 1 .. BSize - 1, x \in Nat :
        q = s \div BSize /\ r = s % BSize /\ x = q * BSize /\ s = x + r /\ (q + 1) * BSize = x + BSize
  <2>1. s \div BSize \in Nat /\ s % BSize \in 0 .. BSize - 1 /\ (s \div BSize) * BSize \in Nat
        /\ s = (s \div BSize) * BSize + (s % BSize)
        /\ ((s \div BSize) + 1) * BSize = (s \div BSize) * BSize + BSize
    BY <1>1, PieceOf
  <2>2. PICK q \in Nat : q = s \div BSize
    BY <2>1
  <2>3. PICK r \in 0 .. BSize - 1 : r = s % BSize
    BY <2>1
  <2>4. PICK x \in Nat : x = q * BSize
    BY <2>1, <2>2
  <2>5. r \in 1 .. BSize - 1
    BY <1>1, <1>3, <1>5, <2>3
  <2>6. s = x + r /\ (q + 1) * BSize = x + BSize
    BY <2>1, <2>2, <2>3, <2>4
  <2> QED
    BY <2>2, <2>3, <2>4, <2>5, <2>6
<1>7. x + BSize \in 0 .. Blocks!MaxBytes
  <2>1. PICK N \in Nat : N = NDirect + NIndirect
    BY <1>1
  <2>2. PICK m \in Nat : m = N * BSize /\ m = Blocks!MaxBytes
    BY <1>1, <2>1 DEF Blocks!MaxBytes
  <2>3. q < N
    <3>1. CASE q = N
      BY <1>5, <1>6, <2>2, <3>1
    <3>2. CASE q > N
      <4>1. m + BSize <= x
        BY <1>1, <1>6, <2>2, <3>2, PiecesGrow
      <4> QED
        BY <1>1, <1>5, <1>6, <2>2, <4>1
    <3> QED
      BY <3>1, <3>2
  <2>4. x + BSize <= m
    BY <1>1, <1>6, <2>2, <2>3, PiecesGrow
  <2> QED
    BY <1>1, <1>6, <2>2, <2>4
<1>8. /\ size' \in [OneFile -> 0 .. Blocks!MaxBytes]
      /\ \A g \in OneFile : size'[g] = IF g = RootDir THEN x + BSize ELSE size[g]
  <2>1. size' = [size EXCEPT ![RootDir] = x + BSize]
    BY <1>3, <1>5, <1>6
  <2> QED
    BY <1>1, <1>2, <1>7, <2>1 DEF BlockTypes
<1>9. BlockTypes'
  BY <1>2, <1>3, <1>4, <1>8 DEF BlockTypes, Blocks!Pointer, Blocks!Block, Blocks!MaxBytes
<1>10. \A f \in OneFile, i \in Slot : To(f, i)' = To(f, i)
  BY <1>3 DEF To, PointerBlock
<1>11. PointersDiffer' /\ PointersMarked'
  BY <1>2, <1>4, <1>10, NoBlockMoves DEF PointersStay
<1>12. ASSUME NEW g \in OneFile PROVE BlockCall(g)'
  <2>1. pc[g] = "idle" /\ HasBlocks(g, size[g])
    BY <1>2, <1>3 DEF BlockCall
  <2>2. HasBlocks(g, size'[g])
    <3>1. CASE g # RootDir
      BY <1>8, <2>1, <3>1
    <3>2. CASE g = RootDir
      <4>1. ASSUME NEW c \in 0 .. NDirect + NIndirect - 1, c * BSize < x + BSize
            PROVE  To(g, SlotOf(c)) # 0
        <5>1. c \in Nat /\ BSize - r \in Nat /\ r + (BSize - r) <= BSize /\ s + (BSize - r) = x + BSize
          BY <1>1, <1>6
        <5>2. PICK n \in Nat : n = BSize - r /\ r + n <= BSize /\ s + n = x + BSize
          BY <5>1
        <5>3. c = q \/ c * BSize < s
          BY <1>1, <1>6, <4>1, <5>1, <5>2, PiecesBelow
        <5>4. q * BSize < s
          BY <1>6
        <5> QED
          BY <1>5, <2>1, <3>2, <5>3, <5>4 DEF HasBlocks
      <4> QED
        BY <1>1, <1>8, <3>2, <4>1 DEF HasBlocks
    <3> QED
      BY <3>1, <3>2
  <2>3. HasBlocks(g, size[g])'
    <3>1. \A c \in 0 .. NDirect + NIndirect - 1 : c * BSize < size'[g] => To(g, SlotOf(c))' # 0
      BY <1>2, <1>10, <2>2, BlocksStay
    <3> QED
      BY <3>1 DEF HasBlocks
  <2> QED
    BY <1>2, <1>3, <2>1, <2>3 DEF BlockCall
<1> QED
  BY <1>9, <1>11, <1>12 DEF BlockInv

LEMMA BlockStep == ASSUME PartsAssumption, BlockInv, [Blocks!Next]_(Blocks!vars) PROVE BlockInv'
BY BlockStutter, BlockMkfsEnd, BlockAllocate, BlockCopy, BlockWriteEnd, BlockTrunc, BlockFreeDirect,
   BlockFreeThroughIndirect, BlockTruncEnd, BlockAppend, BlockWrite DEF Blocks!Next

-----------------------------------------------------------------------------
(* What follows.                                                           *)

LEMMA BlocksTyped == BlockInv => Blocks!TypeOK
BY DEF BlockInv, BlockTypes, Blocks!TypeOK

LEMMA NoHolesHere == PartsAssumption /\ BlockInv => Blocks!NoHoles
BY PointersAre DEF BlockInv, BlockCall, HasBlocks, Blocks!NoHoles

\* The pointers to b, in the inodes and in the pointer blocks.
InInodes(b) == {s \in OneFile \X (0 .. NDirect) : addrs[s[1]][s[2]] = b}
InBlocks(b) ==
  {s \in OneFile \X (0 .. NIndirect - 1) :
     /\ PointerBlock(s[1]) # 0 /\ content[PointerBlock(s[1])][s[2]] = b
     /\ pc[s[1]] = "trunc" => s[2] >= pos[s[1]]}

LEMMA EmptyOrOne ==
  ASSUME NEW S, NEW x, S = {} \/ S = {x}
  PROVE  Blocks!Cardinality(S) = IF x \in S THEN 1 ELSE 0
<1>1. Blocks!Cardinality(S) = Cardinality(S)
  BY DEF Blocks!Cardinality, Cardinality
<1>2. Cardinality({x}) = 1
  BY FS_Singleton
<1> QED
  BY <1>1, <1>2, FS_EmptySet

LEMMA BitmapExactHere == PartsAssumption /\ BlockInv => Blocks!BitmapExact
<1> SUFFICES ASSUME PartsAssumption, BlockInv, phase = "running", NEW b \in Blocks!Block
             PROVE  Blocks!DirectRefs(b) + Blocks!IndirectRefs(b) = IF b \in bitmap THEN 1 ELSE 0
  BY DEF Blocks!BitmapExact
<1>1. NDirect \in Nat /\ NIndirect \in Nat \ {0} /\ NumBlocks \in Nat /\ b # 0
  BY BlockFacts DEF Blocks!Block
<1>2. BlockTypes /\ PointersDiffer /\ PointersMarked /\ Marked = bitmap
  BY DEF BlockInv, Marked
<1>3. Blocks!DirectRefs(b) = Blocks!Cardinality(InInodes(b))
      /\ Blocks!IndirectRefs(b) = Blocks!Cardinality(InBlocks(b))
  BY DEF Blocks!DirectRefs, Blocks!IndirectRefs, InInodes, InBlocks, PointerBlock, Blocks!Indirect
<1>4. \A f \in OneFile, i \in 0 .. NDirect : i \in Slot /\ (<<f, i>> \in InInodes(b) <=> To(f, i) = b)
  BY <1>2, PointersAre DEF InInodes
<1>5. ASSUME NEW f \in OneFile, NEW k \in 0 .. NIndirect - 1
      PROVE  NDirect + 1 + k \in Slot /\ (<<f, k>> \in InBlocks(b) <=> To(f, NDirect + 1 + k) = b)
  <2>1. PICK i \in Slot : i = NDirect + 1 + k /\ ~ (i <= NDirect) /\ i - NDirect - 1 = k
    BY <1>1 DEF Slot
  <2>2. To(f, i) = IF PointerBlock(f) # 0 /\ (pc[f] = "trunc" => k >= pos[f])
                     THEN content[PointerBlock(f)][k] ELSE 0
    BY <2>1 DEF To
  <2>3. <<f, k>> \in InBlocks(b) <=>
          PointerBlock(f) # 0 /\ content[PointerBlock(f)][k] = b /\ (pc[f] = "trunc" => k >= pos[f])
    BY DEF InBlocks
  <2> QED
    BY <1>1, <2>1, <2>2, <2>3
<1>6. InInodes(b) \subseteq OneFile \X (0 .. NDirect)
      /\ InBlocks(b) \subseteq OneFile \X (0 .. NIndirect - 1)
  BY DEF InInodes, InBlocks
<1>7. \A i \in Slot : i \in 0 .. NDirect \/ \E k \in 0 .. NIndirect - 1 : i = NDirect + 1 + k
  <2> TAKE i \in Slot
  <2>1. i \in 0 .. NDirect \/ (i - NDirect - 1 \in 0 .. NIndirect - 1 /\ i = NDirect + 1 + (i - NDirect - 1))
    BY <1>1 DEF Slot
  <2> QED
    BY <2>1
<1>8. CASE b \notin bitmap
  <2>1. \A f \in OneFile, i \in Slot : To(f, i) # b
    BY <1>2, <1>8 DEF PointersMarked
  <2>2. InInodes(b) = {} /\ InBlocks(b) = {}
    BY <1>4, <1>5, <1>6, <2>1
  <2>3. Blocks!Cardinality(InInodes(b)) = 0 /\ Blocks!Cardinality(InBlocks(b)) = 0
    BY <2>2, EmptyOrOne
  <2> QED
    BY <1>3, <1>8, <2>3
<1>9. CASE b \in bitmap
  <2>1. PICK f \in OneFile, i \in Slot : To(f, i) = b
    BY <1>2, <1>9 DEF PointersMarked
  <2>2. \A g \in OneFile, j \in Slot : To(g, j) = b => g = f /\ j = i
    BY <1>1, <1>2, <2>1 DEF PointersDiffer
  <2>3. CASE i \in 0 .. NDirect
    <3>1. InInodes(b) = {<<f, i>>}
      BY <1>4, <1>6, <2>1, <2>2, <2>3
    <3>2. \A k \in 0 .. NIndirect - 1 : NDirect + 1 + k # i
      BY <1>1, <2>3
    <3>3. InBlocks(b) = {}
      BY <1>5, <1>6, <2>2, <3>2
    <3>4. Blocks!Cardinality(InInodes(b)) = 1 /\ Blocks!Cardinality(InBlocks(b)) = 0
      BY <3>1, <3>3, EmptyOrOne
    <3> QED
      BY <1>3, <1>9, <3>4
  <2>4. ASSUME NEW k \in 0 .. NIndirect - 1, i = NDirect + 1 + k
        PROVE  Blocks!DirectRefs(b) + Blocks!IndirectRefs(b) = IF b \in bitmap THEN 1 ELSE 0
    <3>1. \A j \in 0 .. NDirect : j # i
      BY <1>1, <2>4
    <3>2. InInodes(b) = {}
      BY <1>4, <1>6, <2>2, <3>1
    <3>3. \A l \in 0 .. NIndirect - 1 : NDirect + 1 + l = i => l = k
      BY <1>1, <2>4
    <3>4. InBlocks(b) = {<<f, k>>}
      <4>1. <<f, k>> \in InBlocks(b)
        BY <1>5, <2>1, <2>4
      <4>2. ASSUME NEW g \in OneFile, NEW l \in 0 .. NIndirect - 1, <<g, l>> \in InBlocks(b)
            PROVE  g = f /\ l = k
        <5>1. NDirect + 1 + l \in Slot /\ To(g, NDirect + 1 + l) = b
          BY <1>5, <4>2
        <5> QED
          BY <2>2, <3>3, <5>1
      <4> QED
        BY <1>6, <4>1, <4>2
    <3>5. Blocks!Cardinality(InInodes(b)) = 0 /\ Blocks!Cardinality(InBlocks(b)) = 1
      BY <3>2, <3>4, EmptyOrOne
    <3> QED
      BY <1>3, <1>9, <3>5
  <2> QED
    BY <1>7, <2>3, <2>4
<1> QED
  BY <1>8, <1>9

-----------------------------------------------------------------------------
(* Inodes: every reference is somebody's, an inode that is being freed is  *)
(* nobody else's, and names and links lead to inodes in use.               *)

Fresh == {"creatNew", "mkdirNew"}
\* Who has a second inode in hand under the lock of a directory.
Second == Fresh \cup {"unlinkIp"}

InodeTypes ==
  /\ type \in [Inode -> {"free", "file", "dir"}] /\ nlink \in [Inode -> Nat]
  /\ entries \in [Inode -> [Inodes!AllNames -> Inodes!Pointer]]
  /\ ref \in [Inode -> Nat] /\ valid \in [Inode -> BOOLEAN]
  /\ locker \in [Inode -> Worker \cup {None}]
  /\ pc \in [Worker -> Inodes!Labels] /\ path \in [Worker -> Seq(Name)]
  /\ ip \in [Worker -> Inodes!Pointer] /\ dp \in [Worker -> Inodes!Pointer]
  /\ old \in [Worker -> Inodes!Pointer] /\ open \in [Worker -> Inodes!Pointer]
  /\ cwd \in [Worker -> Inode] /\ puts \in [Worker -> ShortSeq(Inode)]
  /\ freeing \in [Worker -> {"no", "free", "drop"}]

\* What a process in the middle of a call has.
InodeCaller(p) ==
  /\ old[p] # None <=> pc[p] \in {"linkNew", "linkUndo"}
  /\ pc[p] \in {"user", "linkUndo"} => ip[p] = None /\ dp[p] = None
  /\ pc[p] \in {"creatOld", "mkdirOld"} => ip[p] # None /\ dp[p] = None
  /\ pc[p] \in Inodes!Calls \cup {"linkNew"} => (ip[p] = None <=> dp[p] # None)
  /\ dp[p] # None => type[dp[p]] = "dir" /\ path[p] # <<>>
  /\ old[p] # None => type[old[p]] # "dir"
  /\ pc[p] \in {"open", "creat", "creatOld", "creatNew"} => open[p] = None
  /\ pc[p] \in Second => /\ ip[p] # None /\ dp[p] # None /\ ip[p] # dp[p]
                         /\ puts[p] = <<>> /\ locker[dp[p]] = p
  /\ pc[p] = "unlinkIp" => entries[dp[p]][Head(path[p])] = ip[p]
  /\ pc[p] \in Fresh => /\ entries[dp[p]][Head(path[p])] = None /\ nlink[ip[p]] = 0
                        /\ type[ip[p]] = IF pc[p] = "mkdirNew" THEN "dir" ELSE "file"
                        /\ \A q \in Worker \ {p} : ip[p] \notin {ip[q], dp[q], cwd[q]}

\* Who frees an inode has the last reference to it.
InodePuts(p) ==
  /\ freeing[p] # "no" => puts[p] # <<>>
  /\ freeing[p] = "free" => ref[Head(puts[p])] = 1 /\ nlink[Head(puts[p])] = 0

Live(i) == i # None => type[i] # "free"
PointersLive(p) ==
  /\ Live(ip[p]) /\ Live(dp[p]) /\ Live(old[p]) /\ Live(cwd[p]) /\ Live(open[p])
  /\ puts[p] # <<>> => /\ freeing[p] # "drop" => Live(Head(puts[p]))
                       /\ Tail(puts[p]) # <<>> => Live(Head(Tail(puts[p])))

NamesLive ==
  \A d \in Inode, n \in Name :
    entries[d][n] # None => type[d] = "dir" /\ entries[d][n] # d /\ type[entries[d][n]] # "free"

\* The pointers of p to i.
Claims(p, i) ==
  One(ip[p] = i) + One(dp[p] = i) + One(old[p] = i) + One(cwd[p] = i) + One(open[p] = i)
    + Copies(puts[p], i)
RefsAre == \A i \in Inode : ref[i] = Total([p \in Worker |-> Claims(p, i)], Worker)

\* The links of i: its names, the directories in it, and who is about to name it.
NamesOf(i) == {e \in Inode \X Name : entries[e[1]][e[2]] = i}
SubDirs(i) == {n \in Name : entries[i][n] # None /\ type[entries[i][n]] = "dir"}
Linkers(i) == {p \in Worker : old[p] = i}
NNames(i) == Cardinality(NamesOf(i))
NSubDirs(i) == Cardinality(SubDirs(i))
NLinkers(i) == Cardinality(Linkers(i))
Linked == \A i \in Inode : NNames(i) + NSubDirs(i) + NLinkers(i) + One(i = Root) <= nlink[i]

InodeInv ==
  /\ InodeTypes /\ RefsAre /\ NamesLive /\ Linked /\ type[Root] = "dir"
  /\ \A p \in Worker : InodeCaller(p) /\ InodePuts(p) /\ PointersLive(p)

-----------------------------------------------------------------------------
(* Claims and references.                                                  *)

LEMMA InodeFacts ==
  ASSUME PartsAssumption
  PROVE  /\ Root \in Inode /\ None \notin Inode /\ None \notin Worker /\ ".." \notin Name
         /\ IsFiniteSet(Worker) /\ IsFiniteSet(Inode) /\ IsFiniteSet(Name)
<1>1. \A S : Inodes!IsFiniteSet(S) <=> IsFiniteSet(S)
  BY DEF Inodes!IsFiniteSet, IsFiniteSet
<1> QED
  BY <1>1 DEF PartsAssumption, Inodes!InodeAssumption

LEMMA CopiesOfFirst ==
  ASSUME InodeTypes, NEW p \in Worker, puts[p] # <<>>
  PROVE  /\ Head(puts[p]) \in Inode /\ Tail(puts[p]) \in ShortSeq(Inode)
         /\ \A i : Copies(puts[p], i) = Copies(Tail(puts[p]), i) + One(Head(puts[p]) = i)
<1>1. puts[p] \in ShortSeq(Inode)
  BY DEF InodeTypes
<1>2. /\ Head(puts[p]) \in Inode /\ Tail(puts[p]) \in ShortSeq(Inode)
      /\ \A i : Copies(puts[p], i) = Copies(Tail(puts[p]), i) + (IF Head(puts[p]) = i THEN 1 ELSE 0)
  BY <1>1, FirstOfFew
<1> QED
  BY <1>2 DEF One

LEMMA ClaimsAreNat ==
  ASSUME InodeTypes, NEW p \in Worker, NEW i
  PROVE  Claims(p, i) \in Nat /\ Copies(puts[p], i) \in Nat
<1>1. Copies(puts[p], i) \in Nat
  BY CopiesAreNat DEF InodeTypes
<1>2. One(ip[p] = i) \in Nat /\ One(dp[p] = i) \in Nat /\ One(old[p] = i) \in Nat
      /\ One(cwd[p] = i) \in Nat /\ One(open[p] = i) \in Nat
  BY DEF One
<1> QED
  BY <1>1, <1>2 DEF Claims

\* Who has a pointer to an inode has a claim.
LEMMA PointersClaim ==
  ASSUME InodeTypes, NEW p \in Worker, NEW i
  PROVE  /\ i \in {ip[p], dp[p], old[p], cwd[p], open[p]} => Claims(p, i) >= 1
         /\ puts[p] # <<>> /\ i = Head(puts[p]) => Claims(p, i) >= 1
         /\ puts[p] # <<>> /\ Tail(puts[p]) # <<>> /\ i = Head(Tail(puts[p])) => Claims(p, i) >= 1
<1>1. Copies(puts[p], i) \in Nat
  BY ClaimsAreNat
<1>2. /\ One(ip[p] = i) \in {0, 1} /\ One(dp[p] = i) \in {0, 1} /\ One(old[p] = i) \in {0, 1}
      /\ One(cwd[p] = i) \in {0, 1} /\ One(open[p] = i) \in {0, 1}
  BY DEF One
<1>3. i \in {ip[p], dp[p], old[p], cwd[p], open[p]} => Claims(p, i) >= 1
  BY <1>1, <1>2 DEF Claims, One
<1>4. Copies(puts[p], i) >= 1 => Claims(p, i) >= 1
  BY <1>1, <1>2 DEF Claims
<1>5. ASSUME puts[p] # <<>>
      PROVE  /\ i = Head(puts[p]) => Copies(puts[p], i) >= 1
             /\ Tail(puts[p]) # <<>> /\ i = Head(Tail(puts[p])) => Copies(puts[p], i) >= 1
  <2>1. /\ Tail(puts[p]) \in ShortSeq(Inode)
        /\ Copies(puts[p], i) = Copies(Tail(puts[p]), i) + One(Head(puts[p]) = i)
    BY <1>5, CopiesOfFirst
  <2>2. Copies(Tail(puts[p]), i) \in Nat /\ One(Head(puts[p]) = i) \in Nat
    BY <2>1, CopiesAreNat DEF One
  <2>3. ASSUME Tail(puts[p]) # <<>>, i = Head(Tail(puts[p])) PROVE Copies(Tail(puts[p]), i) >= 1
    <3>1. /\ Tail(Tail(puts[p])) \in ShortSeq(Inode)
          /\ Copies(Tail(puts[p]), i) = Copies(Tail(Tail(puts[p])), i) + 1
      BY <2>1, <2>3, FirstOfFew
    <3>2. Copies(Tail(Tail(puts[p])), i) \in Nat
      BY <3>1, CopiesAreNat
    <3> QED
      BY <3>1, <3>2
  <2>4. i = Head(puts[p]) => One(Head(puts[p]) = i) = 1
    BY DEF One
  <2> QED
    BY <2>1, <2>2, <2>3, <2>4
<1> QED
  BY <1>3, <1>4, <1>5

\* A reference is not more than all references, and the last one is the only one.
LEMMA LastReference ==
  ASSUME PartsAssumption, InodeTypes, RefsAre, NEW i \in Inode, NEW p \in Worker
  PROVE  /\ ref[i] \in Nat /\ Claims(p, i) <= ref[i]
         /\ ref[i] = 1 /\ Claims(p, i) >= 1 =>
              Claims(p, i) = 1 /\ \A q \in Worker \ {p} : Claims(q, i) = 0
<1> DEFINE f == [q \in Worker |-> Claims(q, i)]
<1>1. \A q \in Worker : f[q] = Claims(q, i) /\ f[q] \in Nat
  BY ClaimsAreNat
<1>2. ref[i] = Total(f, Worker)
  BY DEF RefsAre
<1> HIDE DEF f
<1>3. /\ IsFiniteSet(Worker \ {p}) /\ Total(f, Worker) = Total(f, Worker \ {p}) + f[p]
      /\ Total(f, Worker \ {p}) \in Nat /\ Total(f, Worker) \in Nat /\ f[p] <= Total(f, Worker)
  BY <1>1, InodeFacts, TotalRemoves
<1>4. \A q \in Worker \ {p} : f[q] <= Total(f, Worker \ {p})
  BY <1>1, <1>3, TotalRemoves
<1>5. ASSUME ref[i] = 1, f[p] >= 1 PROVE f[p] = 1 /\ \A q \in Worker \ {p} : f[q] = 0
  <2>1. f[p] \in Nat
    BY <1>1
  <2>2. f[p] = 1 /\ Total(f, Worker \ {p}) = 0
    BY <1>2, <1>3, <1>5, <2>1
  <2> QED
    BY <1>1, <1>4, <2>2
<1> QED
  BY <1>1, <1>2, <1>3, <1>5

\* Only p's own state changes.
OthersStay(p) ==
  \A q \in Worker \ {p} :
    /\ pc'[q] = pc[q] /\ path'[q] = path[q] /\ ip'[q] = ip[q] /\ dp'[q] = dp[q]
    /\ old'[q] = old[q] /\ cwd'[q] = cwd[q] /\ open'[q] = open[q]
    /\ puts'[q] = puts[q] /\ freeing'[q] = freeing[q]

\* A step that takes and drops references where it takes and drops pointers.
LEMMA RefsFollow ==
  ASSUME PartsAssumption, InodeTypes, InodeTypes', RefsAre, NEW p \in Worker, OthersStay(p),
         \A i \in Inode : ref'[i] + Claims(p, i) = ref[i] + Claims(p, i)'
  PROVE  RefsAre'
<1> SUFFICES ASSUME NEW i \in Inode
             PROVE  ref'[i] = Total([q \in Worker |-> Claims(q, i)'], Worker)
  BY DEF RefsAre
<1> DEFINE f == [q \in Worker |-> Claims(q, i)]
           g == [q \in Worker |-> Claims(q, i)']
<1>1. \A q \in Worker : f[q] = Claims(q, i) /\ f[q] \in Nat
  BY ClaimsAreNat
<1>2. \A q \in Worker : Claims(q, i)' \in Nat
  <2> TAKE q \in Worker
  <2>1. Copies(puts'[q], i) \in Nat
    BY CopiesAreNat DEF InodeTypes
  <2>2. One(ip'[q] = i) \in Nat /\ One(dp'[q] = i) \in Nat /\ One(old'[q] = i) \in Nat
        /\ One(cwd'[q] = i) \in Nat /\ One(open'[q] = i) \in Nat
    BY DEF One
  <2> QED
    BY <2>1, <2>2 DEF Claims
<1>3. \A q \in Worker : g[q] = Claims(q, i)' /\ g[q] \in Nat
  BY <1>2
<1>4. \A q \in Worker \ {p} : g[q] = f[q]
  BY DEF OthersStay, Claims
<1>5. ref[i] = Total(f, Worker)
  BY DEF RefsAre
<1> HIDE DEF f, g
<1>6. Total(g, Worker) = Total(f, Worker) + g[p] - f[p]
  BY <1>1, <1>3, <1>4, InodeFacts, TotalChanges
<1>7. ref'[i] \in Nat /\ ref[i] \in Nat
  BY DEF InodeTypes
<1>8. ref'[i] + f[p] = ref[i] + g[p]
  BY <1>1, <1>3
<1>9. ref'[i] = Total(g, Worker)
  BY <1>1, <1>3, <1>5, <1>6, <1>7, <1>8
<1> QED
  BY <1>9 DEF g

LEMMA HeadOfPath ==
  ASSUME InodeTypes, NEW p \in Worker, path[p] # <<>>
  PROVE  Head(path[p]) \in Name /\ Tail(path[p]) \in Seq(Name)
<1>1. path[p] \in Seq(Name)
  BY DEF InodeTypes
<1> QED
  BY <1>1

-----------------------------------------------------------------------------
(* What a step of p leaves alone.                                          *)

FreedBy(p, i) == freeing[p] = "free" /\ i = Head(puts[p])
Named(i) == \E d \in Inode, n \in Name : entries[d][n] = i
Away(p, i) == i # Root /\ ~ Named(i) /\ type[i] # "free" /\ i \notin {ip[p], dp[p], old[p], cwd[p]}

TypesMove(p) == \A i \in Inode : type'[i] # type[i] => type[i] = "free" \/ FreedBy(p, i)
LocksMove(p) ==
  \A i \in Inode : locker'[i] # locker[i] => locker[i] = None \/ locker[i] = p \/ FreedBy(p, i)
EntriesMove(p) ==
  \A d \in Inode, n \in Name :
    entries'[d][n] # entries[d][n] => locker[d] = None \/ locker[d] = p \/ FreedBy(p, d)
LinksMove(p) ==
  \A i \in Inode : Away(p, i) => nlink'[i] = nlink[i] /\ i \notin {ip'[p], dp'[p], cwd'[p]}
RefsMove(p) ==
  \A i \in Inode : Away(p, i) /\ Claims(p, i) = 0 => ref'[i] = ref[i]

Moves(p) ==
  /\ OthersStay(p) /\ TypesMove(p) /\ LocksMove(p) /\ EntriesMove(p)
  /\ LinksMove(p) /\ RefsMove(p)

LEMMA LinksAreNat ==
  ASSUME PartsAssumption, NEW i \in Inode
  PROVE  /\ IsFiniteSet(NamesOf(i)) /\ IsFiniteSet(SubDirs(i)) /\ IsFiniteSet(Linkers(i))
         /\ NNames(i) \in Nat /\ NSubDirs(i) \in Nat /\ NLinkers(i) \in Nat
<1>1. IsFiniteSet(Inode \X Name) /\ IsFiniteSet(Name) /\ IsFiniteSet(Worker)
  BY InodeFacts, FS_Product
<1>2. NamesOf(i) \subseteq Inode \X Name /\ SubDirs(i) \subseteq Name /\ Linkers(i) \subseteq Worker
  BY DEF NamesOf, SubDirs, Linkers
<1> QED
  BY <1>1, <1>2, CountIsNat DEF NNames, NSubDirs, NLinkers

\* An inode without links has no name and is not the root.
LEMMA NoLinks ==
  ASSUME PartsAssumption, InodeInv, NEW i \in Inode, nlink[i] = 0
  PROVE  ~ Named(i) /\ i # Root /\ \A p \in Worker : old[p] # i
<1>3. /\ IsFiniteSet(NamesOf(i)) /\ IsFiniteSet(SubDirs(i)) /\ IsFiniteSet(Linkers(i))
      /\ NNames(i) \in Nat /\ NSubDirs(i) \in Nat /\ NLinkers(i) \in Nat
  BY LinksAreNat
<1>4. NNames(i) + NSubDirs(i) + NLinkers(i) + One(i = Root) <= 0
  BY DEF InodeInv, Linked
<1>5. One(i = Root) \in Nat
  BY DEF One
<1>6. NNames(i) = 0 /\ NLinkers(i) = 0 /\ One(i = Root) = 0
  BY <1>3, <1>4, <1>5
<1>7. NamesOf(i) = {} /\ Linkers(i) = {} /\ i # Root
  BY <1>3, <1>6, FS_EmptySet DEF NNames, NLinkers, One
<1>8. ~ Named(i)
  <2> SUFFICES ASSUME NEW d \in Inode, NEW n \in Name, entries[d][n] = i PROVE FALSE
    BY DEF Named
  <2>1. <<d, n>> \in NamesOf(i)
    BY DEF NamesOf
  <2> QED
    BY <1>7, <2>1
<1> QED
  BY <1>7, <1>8 DEF Linkers

\* Nobody else has a pointer to an inode that is being freed.
LEMMA FreedIsNobodys ==
  ASSUME PartsAssumption, InodeInv, NEW p \in Worker, NEW i \in Inode, FreedBy(p, i)
  PROVE  /\ puts[p] # <<>> /\ ref[i] = 1 /\ nlink[i] = 0 /\ type[i] # "free" /\ Claims(p, i) = 1
         /\ i \notin {ip[p], dp[p], old[p], cwd[p], open[p]}
         /\ Tail(puts[p]) # <<>> => Head(Tail(puts[p])) # i
         /\ \A q \in Worker \ {p} :
              /\ Claims(q, i) = 0 /\ i \notin {ip[q], dp[q], old[q], cwd[q], open[q]}
              /\ puts[q] # <<>> => Head(puts[q]) # i
              /\ puts[q] # <<>> /\ Tail(puts[q]) # <<>> => Head(Tail(puts[q])) # i
<1>1. InodeTypes /\ RefsAre /\ None \notin Inode
  BY InodeFacts DEF InodeInv
<1>2. puts[p] # <<>> /\ ref[i] = 1 /\ nlink[i] = 0 /\ i = Head(puts[p])
  BY DEF InodeInv, InodePuts, FreedBy
<1>3. type[i] # "free"
  BY <1>1, <1>2 DEF InodeInv, PointersLive, Live, FreedBy
<1>4. Claims(p, i) = 1 /\ \A q \in Worker \ {p} : Claims(q, i) = 0
  BY <1>1, <1>2, LastReference, PointersClaim
<1>5. \A q \in Worker \ {p} :
        /\ i \notin {ip[q], dp[q], old[q], cwd[q], open[q]}
        /\ puts[q] # <<>> => Head(puts[q]) # i
        /\ puts[q] # <<>> /\ Tail(puts[q]) # <<>> => Head(Tail(puts[q])) # i
  <2> TAKE q \in Worker \ {p}
  <2>1. ~ (Claims(q, i) >= 1)
    BY <1>4
  <2> QED
    BY <1>1, <2>1, PointersClaim
<1>6. Copies(puts[p], i) = Copies(Tail(puts[p]), i) + 1 /\ Tail(puts[p]) \in ShortSeq(Inode)
  BY <1>1, <1>2, CopiesOfFirst DEF One
<1>7. Copies(Tail(puts[p]), i) \in Nat
  BY <1>6, CopiesAreNat
<1>8. PICK a \in Nat, b \in Nat, c \in Nat, d \in Nat, e \in Nat :
        /\ a = One(ip[p] = i) /\ b = One(dp[p] = i) /\ c = One(old[p] = i)
        /\ d = One(cwd[p] = i) /\ e = One(open[p] = i)
  BY DEF One
<1>9. PICK m \in Nat : m = Copies(Tail(puts[p]), i)
  BY <1>7
<1>10. a + b + c + d + e + (m + 1) = 1
  BY <1>4, <1>6, <1>8, <1>9 DEF Claims
<1>11. a = 0 /\ b = 0 /\ c = 0 /\ d = 0 /\ e = 0 /\ m = 0
  BY <1>10
<1>12. i \notin {ip[p], dp[p], old[p], cwd[p], open[p]}
  BY <1>8, <1>11 DEF One
<1>13. ASSUME Tail(puts[p]) # <<>> PROVE Head(Tail(puts[p])) # i
  <2>1. /\ Copies(Tail(puts[p]), i) = Copies(Tail(Tail(puts[p])), i)
                                        + (IF Head(Tail(puts[p])) = i THEN 1 ELSE 0)
        /\ Tail(Tail(puts[p])) \in ShortSeq(Inode)
    BY <1>6, <1>13, FirstOfFew
  <2>2. Copies(Tail(Tail(puts[p])), i) \in Nat
    BY <2>1, CopiesAreNat
  <2>3. PICK n \in Nat : n = Copies(Tail(Tail(puts[p])), i)
    BY <2>2
  <2>4. SUFFICES ASSUME Head(Tail(puts[p])) = i PROVE FALSE
    OBVIOUS
  <2>5. m = n + 1
    BY <1>9, <2>1, <2>3, <2>4
  <2> QED
    BY <1>11, <2>5
<1> QED
  BY <1>2, <1>3, <1>4, <1>5, <1>12, <1>13

\* The others' state is as they left it.
LEMMA OthersKeep ==
  ASSUME PartsAssumption, InodeInv, InodeTypes', NEW p \in Worker, Moves(p),
         NEW q \in Worker, q # p
  PROVE  InodeCaller(q)' /\ InodePuts(q)' /\ PointersLive(q)'
<1>1. InodeTypes /\ RefsAre /\ NamesLive /\ InodeCaller(q) /\ InodePuts(q) /\ PointersLive(q)
      /\ None \notin Inode /\ None \notin Worker
  BY InodeFacts DEF InodeInv
<1>2. /\ pc'[q] = pc[q] /\ path'[q] = path[q] /\ ip'[q] = ip[q] /\ dp'[q] = dp[q]
      /\ old'[q] = old[q] /\ cwd'[q] = cwd[q] /\ open'[q] = open[q]
      /\ puts'[q] = puts[q] /\ freeing'[q] = freeing[q]
  BY DEF Moves, OthersStay
<1>3. ip[q] \in Inode \cup {None} /\ dp[q] \in Inode \cup {None} /\ old[q] \in Inode \cup {None}
      /\ cwd[q] \in Inode /\ open[q] \in Inode \cup {None}
  BY <1>1 DEF InodeTypes, Inodes!Pointer
<1>4. puts[q] # <<>> => /\ Head(puts[q]) \in Inode
                        /\ Tail(puts[q]) # <<>> => Head(Tail(puts[q])) \in Inode
  BY <1>1, CopiesOfFirst, FirstOfFew
<1>5. ASSUME NEW i \in Inode, Claims(q, i) # 0 PROVE ~ FreedBy(p, i)
  BY <1>5, FreedIsNobodys
<1>6. ASSUME NEW i \in Inode, type[i] # "free",
             \/ i \in {ip[q], dp[q], old[q], cwd[q], open[q]}
             \/ puts[q] # <<>> /\ i = Head(puts[q])
             \/ puts[q] # <<>> /\ Tail(puts[q]) # <<>> /\ i = Head(Tail(puts[q]))
      PROVE  type'[i] = type[i] /\ ~ FreedBy(p, i)
  <2>1. ~ FreedBy(p, i)
    BY <1>6, FreedIsNobodys
  <2> QED
    BY <1>6, <2>1 DEF Moves, TypesMove
<1>7. PointersLive(q)'
  BY <1>1, <1>2, <1>3, <1>4, <1>6 DEF PointersLive, Live
<1>8. InodePuts(q)'
  <2>1. ASSUME freeing[q] = "free"
        PROVE  ref'[Head(puts[q])] = 1 /\ nlink'[Head(puts[q])] = 0
    <3>1. PICK i \in Inode : i = Head(puts[q]) /\ FreedBy(q, i)
      BY <1>1, <1>4, <2>1 DEF InodePuts, FreedBy
    <3>2. ref[i] = 1 /\ nlink[i] = 0 /\ type[i] # "free"
          /\ Claims(p, i) = 0 /\ i \notin {ip[p], dp[p], old[p], cwd[p]}
      BY <3>1, FreedIsNobodys
    <3>3. Away(p, i)
      BY <3>2, NoLinks DEF Away
    <3> QED
      BY <3>1, <3>2, <3>3 DEF Moves, LinksMove, RefsMove
  <2> QED
    BY <1>1, <1>2, <2>1 DEF InodePuts
<1>9. InodeCaller(q)'
  <2>1. dp[q] # None => type'[dp[q]] = type[dp[q]]
    BY <1>1, <1>3, <1>6 DEF PointersLive, Live
  <2>2. old[q] # None => type'[old[q]] = type[old[q]]
    BY <1>1, <1>3, <1>6 DEF PointersLive, Live
  <2>3. ASSUME pc[q] \in Second
        PROVE  /\ dp[q] \in Inode /\ ip[q] \in Inode /\ locker'[dp[q]] = locker[dp[q]]
               /\ type'[ip[q]] = type[ip[q]]
               /\ entries'[dp[q]][Head(path[q])] = entries[dp[q]][Head(path[q])]
    <3>1. dp[q] \in Inode /\ ip[q] \in Inode /\ locker[dp[q]] = q /\ path[q] # <<>>
      BY <1>1, <1>3, <2>3 DEF InodeCaller
    <3>2. type[dp[q]] # "free" /\ type[ip[q]] # "free"
      BY <1>1, <3>1 DEF PointersLive, Live
    <3>3. ~ FreedBy(p, dp[q]) /\ type'[ip[q]] = type[ip[q]]
      BY <1>6, <3>1, <3>2
    <3>4. locker[dp[q]] # None /\ locker[dp[q]] # p
      BY <1>1, <3>1
    <3>5. Head(path[q]) \in Name
      BY <1>1, <3>1, HeadOfPath
    <3> QED
      BY <3>1, <3>3, <3>4, <3>5 DEF Moves, LocksMove, EntriesMove
  <2>4. ASSUME pc[q] \in Fresh
        PROVE  /\ nlink'[ip[q]] = 0
               /\ \A r \in Worker \ {q} : ip[q] \notin {ip'[r], dp'[r], cwd'[r]}
    <3>1. /\ pc[q] \in Second /\ nlink[ip[q]] = 0
          /\ \A r \in Worker \ {q} : ip[q] \notin {ip[r], dp[r], cwd[r]}
      BY <1>1, <2>4 DEF InodeCaller, Second
    <3>2. PICK i \in Inode : i = ip[q] /\ type[i] # "free"
      BY <1>1, <2>3, <3>1 DEF PointersLive, Live
    <3>3. Away(p, i)
      BY <3>1, <3>2, NoLinks DEF Away
    <3>4. nlink'[i] = 0 /\ i \notin {ip'[p], dp'[p], cwd'[p]}
      BY <3>1, <3>2, <3>3 DEF Moves, LinksMove
    <3>5. \A r \in Worker \ {q} : r # p => ip'[r] = ip[r] /\ dp'[r] = dp[r] /\ cwd'[r] = cwd[r]
      BY DEF Moves, OthersStay
    <3> QED
      BY <3>1, <3>2, <3>4, <3>5
  <2>5. /\ old'[q] # None <=> pc'[q] \in {"linkNew", "linkUndo"}
        /\ pc'[q] \in {"user", "linkUndo"} => ip'[q] = None /\ dp'[q] = None
        /\ pc'[q] \in {"creatOld", "mkdirOld"} => ip'[q] # None /\ dp'[q] = None
        /\ pc'[q] \in Inodes!Calls \cup {"linkNew"} => (ip'[q] = None <=> dp'[q] # None)
        /\ dp'[q] # None => type'[dp'[q]] = "dir" /\ path'[q] # <<>>
        /\ old'[q] # None => type'[old'[q]] # "dir"
        /\ pc'[q] \in {"open", "creat", "creatOld", "creatNew"} => open'[q] = None
    BY <1>1, <1>2, <2>1, <2>2 DEF InodeCaller
  <2>6. pc'[q] \in Second => /\ ip'[q] # None /\ dp'[q] # None /\ ip'[q] # dp'[q]
                             /\ puts'[q] = <<>> /\ locker'[dp'[q]] = q
    BY <1>1, <1>2, <2>3 DEF InodeCaller
  <2>7. pc'[q] = "unlinkIp" => entries'[dp'[q]][Head(path'[q])] = ip'[q]
    BY <1>1, <1>2, <2>3 DEF InodeCaller, Second
  <2>8. pc'[q] \in Fresh =>
          /\ entries'[dp'[q]][Head(path'[q])] = None /\ nlink'[ip'[q]] = 0
          /\ type'[ip'[q]] = IF pc'[q] = "mkdirNew" THEN "dir" ELSE "file"
          /\ \A r \in Worker \ {q} : ip'[q] \notin {ip'[r], dp'[r], cwd'[r]}
    BY <1>1, <1>2, <2>3, <2>4 DEF InodeCaller, Second
  <2> QED
    BY <2>5, <2>6, <2>7, <2>8 DEF InodeCaller, Inodes!Calls
<1> QED
  BY <1>7, <1>8, <1>9

\* A step that moves what it may and leaves p's own state in order.
LEMMA StepKeepsInodes ==
  ASSUME PartsAssumption, InodeInv, InodeTypes', NEW p \in Worker, Moves(p),
         \A i \in Inode : ref'[i] + Claims(p, i) = ref[i] + Claims(p, i)',
         InodeCaller(p)', InodePuts(p)', PointersLive(p)',
         NamesLive', Linked', type'[Root] = "dir"
  PROVE  InodeInv'
<1>1. RefsAre'
  BY RefsFollow DEF InodeInv, Moves
<1>2. \A q \in Worker : InodeCaller(q)' /\ InodePuts(q)' /\ PointersLive(q)'
  BY OthersKeep
<1> QED
  BY <1>1, <1>2 DEF InodeInv

\* What is known of p before its step.
LEMMA InodesHere ==
  ASSUME PartsAssumption, InodeInv, NEW p \in Worker
  PROVE  /\ InodeTypes /\ RefsAre /\ NamesLive /\ Linked /\ type[Root] = "dir"
         /\ InodeCaller(p) /\ InodePuts(p) /\ PointersLive(p)
         /\ Root \in Inode /\ None \notin Inode /\ None \notin Worker
         /\ ip[p] \in Inode \cup {None} /\ dp[p] \in Inode \cup {None}
         /\ old[p] \in Inode \cup {None} /\ open[p] \in Inode \cup {None} /\ cwd[p] \in Inode
         /\ puts[p] = <<>> => freeing[p] = "no" /\ \A i : Copies(puts[p], i) = 0
<1>1. InodeTypes /\ InodePuts(p)
  BY DEF InodeInv
<1>2. puts[p] = <<>> => freeing[p] = "no" /\ \A i : Copies(puts[p], i) = 0
  BY <1>1, CopiesOfFew DEF InodePuts
<1>3. /\ ip[p] \in Inode \cup {None} /\ dp[p] \in Inode \cup {None}
      /\ old[p] \in Inode \cup {None} /\ open[p] \in Inode \cup {None} /\ cwd[p] \in Inode
  BY <1>1 DEF InodeTypes, Inodes!Pointer
<1> QED
  BY <1>2, <1>3, InodeFacts DEF InodeInv

\* Only p's value of f changes, to v.
Sets(f, g, p, v) == \A q \in Worker : g[q] = IF q = p THEN v ELSE f[q]

LEMMA LeaveIs ==
  ASSUME PartsAssumption, InodeTypes, NEW p \in Worker, NEW s \in ShortSeq(Inode),
         NEW l \in {"user", "linkUndo"}, Inodes!Leave(p, s, l)
  PROVE  /\ Sets(pc, pc', p, l) /\ Sets(path, path', p, <<>>) /\ Sets(puts, puts', p, s)
         /\ Sets(ip, ip', p, None) /\ Sets(dp, dp', p, None)
         /\ pc' \in [Worker -> Inodes!Labels] /\ path' \in [Worker -> Seq(Name)]
         /\ ip' \in [Worker -> Inodes!Pointer] /\ dp' \in [Worker -> Inodes!Pointer]
         /\ puts' \in [Worker -> ShortSeq(Inode)]
<1>1. Sets(pc, pc', p, l) /\ pc' \in [Worker -> Inodes!Labels]
  BY DEF Sets, InodeTypes, Inodes!Leave, Inodes!Goto, Inodes!Labels
<1>2. Sets(path, path', p, <<>>) /\ path' \in [Worker -> Seq(Name)]
  BY DEF Sets, InodeTypes, Inodes!Leave
<1>3. Sets(puts, puts', p, s) /\ puts' \in [Worker -> ShortSeq(Inode)]
  BY DEF Sets, InodeTypes, Inodes!Leave
<1>4. /\ Sets(ip, ip', p, None) /\ Sets(dp, dp', p, None)
      /\ ip' \in [Worker -> Inodes!Pointer] /\ dp' \in [Worker -> Inodes!Pointer]
  BY DEF Sets, InodeTypes, Inodes!Leave, Inodes!Pointer
<1> QED
  BY <1>1, <1>2, <1>3, <1>4

\* What is still reachable for p counts as near.
Near(p, i) == i \in {None, Root, ip[p], dp[p], old[p], cwd[p]} \/ Named(i) \/ type[i] = "free"

LEMMA NearIsNotAway ==
  ASSUME PartsAssumption, NEW p, NEW i \in Inode, Away(p, i) PROVE ~ Near(p, i)
<1>1. None \notin Inode
  BY InodeFacts
<1> QED
  BY <1>1 DEF Away, Near

\* Leaving the disk alone keeps what is said of it.
LEMMA DiskStays ==
  ASSUME InodeInv, NEW p \in Worker, UNCHANGED <<type, nlink, entries, old>>
  PROVE  /\ NamesLive' /\ Linked' /\ type'[Root] = "dir"
         /\ TypesMove(p) /\ EntriesMove(p)
         /\ \A i \in Inode : nlink'[i] = nlink[i]
<1>1. NamesLive'
  BY DEF InodeInv, NamesLive
<1>2. Linked'
  <2>1. \A i : NamesOf(i)' = NamesOf(i) /\ SubDirs(i)' = SubDirs(i) /\ Linkers(i)' = Linkers(i)
    BY DEF NamesOf, SubDirs, Linkers
  <2> QED
    BY <2>1 DEF InodeInv, Linked, NNames, NSubDirs, NLinkers
<1> QED
  BY <1>1, <1>2 DEF InodeInv, TypesMove, EntriesMove

LinksStay(p) == \A i \in Inode : Away(p, i) => nlink'[i] = nlink[i]
Exchanged(p, s) ==
  \A i \in Inode :
    One(old'[p] = i) + One(cwd'[p] = i) + One(open'[p] = i) + Copies(s, i)
      = One(ip[p] = i) + One(dp[p] = i) + One(old[p] = i) + One(cwd[p] = i) + One(open[p] = i)
StaySame(p) ==
  \A q \in Worker \ {p} : old'[q] = old[q] /\ cwd'[q] = cwd[q] /\ open'[q] = open[q]
TableTypes ==
  /\ nlink' \in [Inode -> Nat] /\ entries' \in [Inode -> [Inodes!AllNames -> Inodes!Pointer]]
  /\ valid' \in [Inode -> BOOLEAN] /\ locker' \in [Inode -> Worker \cup {None}]
  /\ old' \in [Worker -> Inodes!Pointer] /\ open' \in [Worker -> Inodes!Pointer]
  /\ cwd' \in [Worker -> Inode]

\* A step of p that ends with the inodes s to put.
LEMMA LeaveStep ==
  ASSUME PartsAssumption, InodeInv, NEW p \in Worker, puts[p] = <<>>,
         NEW s \in ShortSeq(Inode), NEW l \in {"user", "linkUndo"}, Inodes!Leave(p, s, l),
         UNCHANGED <<type, ref, freeing>>, TableTypes, StaySame(p), LocksMove(p), EntriesMove(p),
         LinksStay(p), NamesLive', Linked', Exchanged(p, s),
         old'[p] \in {None, old[p]}, l = "linkUndo" <=> old'[p] # None,
         cwd'[p] \in {cwd[p], ip[p]}, open'[p] \in {None, open[p], ip[p]},
         s # <<>> => Live(Head(s)) /\ (Tail(s) # <<>> => Live(Head(Tail(s))))
  PROVE  InodeInv'
<1>1. /\ InodeTypes /\ InodeCaller(p) /\ PointersLive(p) /\ None \notin Inode
      /\ freeing[p] = "no" /\ type[Root] = "dir" /\ \A i : Copies(puts[p], i) = 0
  BY InodesHere
<1>2. /\ Sets(pc, pc', p, l) /\ Sets(path, path', p, <<>>) /\ Sets(puts, puts', p, s)
      /\ Sets(ip, ip', p, None) /\ Sets(dp, dp', p, None)
      /\ pc' \in [Worker -> Inodes!Labels] /\ path' \in [Worker -> Seq(Name)]
      /\ ip' \in [Worker -> Inodes!Pointer] /\ dp' \in [Worker -> Inodes!Pointer]
      /\ puts' \in [Worker -> ShortSeq(Inode)]
  BY <1>1, LeaveIs
<1>3. InodeTypes'
  BY <1>1, <1>2 DEF InodeTypes, TableTypes
<1>4. OthersStay(p)
  BY <1>2 DEF OthersStay, Sets, StaySame
<1>5. pc'[p] = l /\ path'[p] = <<>> /\ puts'[p] = s /\ ip'[p] = None /\ dp'[p] = None
  BY <1>2 DEF Sets
<1>6. LinksMove(p)
  <2> SUFFICES ASSUME NEW i \in Inode, Away(p, i)
               PROVE  nlink'[i] = nlink[i] /\ i \notin {ip'[p], dp'[p], cwd'[p]}
    BY DEF LinksMove
  <2>1. i \notin {None, cwd[p], ip[p]}
    BY <1>1 DEF Away
  <2> QED
    BY <1>5, <2>1 DEF LinksStay
<1>7. Moves(p)
  BY <1>4, <1>6 DEF Moves, TypesMove, RefsMove
<1>8. ASSUME NEW i \in Inode PROVE ref'[i] + Claims(p, i) = ref[i] + Claims(p, i)'
  <2>1. One(ip'[p] = i) = 0 /\ One(dp'[p] = i) = 0 /\ Copies(puts[p], i) = 0
    BY <1>1, <1>5 DEF One
  <2>2. PICK a \in Nat, b \in Nat, c \in Nat, d \in Nat, e \in Nat :
          /\ a = One(ip[p] = i) /\ b = One(dp[p] = i) /\ c = One(old[p] = i)
          /\ d = One(cwd[p] = i) /\ e = One(open[p] = i)
    BY DEF One
  <2>3. PICK x \in Nat, y \in Nat, z \in Nat :
          x = One(old'[p] = i) /\ y = One(cwd'[p] = i) /\ z = One(open'[p] = i)
    BY DEF One
  <2>4. PICK m \in Nat : m = Copies(s, i)
    BY CopiesAreNat
  <2>5. Claims(p, i) = a + b + c + d + e
    BY <2>1, <2>2, SMTT(30) DEF Claims
  <2>6. Claims(p, i)' = x + y + z + m
    BY <1>5, <2>1, <2>3, <2>4 DEF Claims
  <2>7. x + y + z + m = a + b + c + d + e
    BY <2>2, <2>3, <2>4 DEF Exchanged
  <2> QED
    BY <2>5, <2>6, <2>7
<1>9. InodeCaller(p)'
  <2>1. old'[p] # None => type'[old'[p]] # "dir"
    BY <1>1 DEF InodeCaller
  <2> QED
    BY <1>5, <2>1 DEF InodeCaller, Second, Fresh, Inodes!Calls
<1>10. InodePuts(p)'
  BY <1>1 DEF InodePuts
<1>11. PointersLive(p)'
  BY <1>1, <1>5 DEF PointersLive, Live
<1> QED
  BY <1>1, <1>3, <1>7, <1>8, <1>9, <1>10, <1>11, StepKeepsInodes

\* The same, on a disk it leaves alone.
LEMMA QuietLeave ==
  ASSUME PartsAssumption, InodeInv, NEW p \in Worker, puts[p] = <<>>,
         NEW s \in ShortSeq(Inode), NEW l \in {"user", "linkUndo"}, Inodes!Leave(p, s, l),
         UNCHANGED <<type, nlink, entries, old, ref, freeing>>,
         valid' \in [Inode -> BOOLEAN], locker' \in [Inode -> Worker \cup {None}], LocksMove(p),
         cwd' \in [Worker -> Inode], open' \in [Worker -> Inodes!Pointer],
         StaySame(p), Exchanged(p, s), l = "linkUndo" <=> old[p] # None,
         cwd'[p] \in {cwd[p], ip[p]}, open'[p] \in {None, open[p], ip[p]},
         s # <<>> => Live(Head(s)) /\ (Tail(s) # <<>> => Live(Head(Tail(s))))
  PROVE  InodeInv'
<1>1. NamesLive' /\ Linked' /\ EntriesMove(p) /\ LinksStay(p)
  BY DiskStays DEF LinksStay
<1>2. TableTypes
  BY InodesHere DEF InodeTypes, TableTypes
<1> QED
  BY <1>1, <1>2, LeaveStep

\* Short sequences of inodes.
LEMMA Shorts ==
  ASSUME NEW i \in Inode, NEW j \in Inode
  PROVE  /\ <<>> \in ShortSeq(Inode) /\ <<i>> \in ShortSeq(Inode) /\ <<i, j>> \in ShortSeq(Inode)
         /\ <<>> \o <<i>> = <<i>> /\ <<j>> \o <<i>> = <<j, i>>
         /\ Live(i) => Live(Head(<<i>>)) /\ Tail(<<i>>) = <<>>
         /\ Live(i) /\ Live(j) => Live(Head(<<i, j>>)) /\ Live(Head(Tail(<<i, j>>)))
         /\ \A k : Copies(<<>>, k) = 0 /\ Copies(<<i>>, k) = One(i = k)
                   /\ Copies(<<i, j>>, k) = One(i = k) + One(j = k)
<1>1. <<>> \o <<i>> = <<i>> /\ <<j>> \o <<i>> = <<j, i>>
  <2>1. <<>> \o <<i>> = <<i>>
    BY <<i>> \in Seq(Inode), ConcatEmptySeq
  <2>2. <<j>> \o <<i>> = <<j, i>>
    <3>1. <<i>> \in Seq(Inode) /\ <<j>> \in Seq(Inode) /\ <<j, i>> \in Seq(Inode)
      OBVIOUS
    <3>2. /\ <<j>> \o <<i>> \in Seq(Inode) /\ Len(<<j>> \o <<i>>) = 2
          /\ \A k \in 1 .. 2 : (<<j>> \o <<i>>)[k] = IF k <= 1 THEN j ELSE i
      <4>1. Len(<<j>>) = 1 /\ Len(<<i>>) = 1 /\ <<j>>[1] = j /\ <<i>>[1] = i
        OBVIOUS
      <4>2. /\ <<j>> \o <<i>> \in Seq(Inode) /\ Len(<<j>> \o <<i>>) = 1 + 1
            /\ \A k \in 1 .. 1 + 1 : (<<j>> \o <<i>>)[k] = IF k <= 1 THEN <<j>>[k] ELSE <<i>>[k - 1]
        BY <3>1, <4>1, ConcatProperties
      <4> QED
        BY <4>1, <4>2
    <3>3. Len(<<j, i>>) = 2 /\ \A k \in 1 .. 2 : <<j, i>>[k] = IF k <= 1 THEN j ELSE i
      OBVIOUS
    <3> DEFINE t == <<j>> \o <<i>>
    <3>4. t \in Seq(Inode) /\ Len(t) = 2 /\ \A k \in 1 .. 2 : t[k] = IF k <= 1 THEN j ELSE i
      BY <3>2
    <3> HIDE DEF t
    <3>5. Len(t) = Len(<<j, i>>) /\ \A k \in 1 .. Len(t) : t[k] = <<j, i>>[k]
      BY <3>3, <3>4
    <3>6. t = <<j, i>>
      BY <3>1, <3>4, <3>5, SeqEqual
    <3> QED
      BY <3>6 DEF t
  <2> QED
    BY <2>1, <2>2
<1>2. Head(<<i>>) = i /\ Tail(<<i>>) = <<>> /\ Head(<<i, j>>) = i /\ Tail(<<i, j>>) = <<j>>
      /\ Head(<<j>>) = j
  OBVIOUS
<1>3. \A k : Copies(<<>>, k) = 0 /\ Copies(<<i>>, k) = One(i = k)
             /\ Copies(<<i, j>>, k) = One(i = k) + One(j = k)
  BY CopiesOfFew DEF One
<1> QED
  BY <1>1, <1>2, <1>3 DEF ShortSeq

LEMMA ExchangedIs ==
  ASSUME NEW p, NEW s, old'[p] = old[p], cwd'[p] = cwd[p], open'[p] = open[p],
         \A i \in Inode : Copies(s, i) = One(ip[p] = i) + One(dp[p] = i)
  PROVE  Exchanged(p, s)
<1> SUFFICES ASSUME NEW i \in Inode
             PROVE  One(old'[p] = i) + One(cwd'[p] = i) + One(open'[p] = i) + Copies(s, i)
                      = One(ip[p] = i) + One(dp[p] = i) + One(old[p] = i) + One(cwd[p] = i)
                          + One(open[p] = i)
  BY DEF Exchanged
<1>1. Copies(s, i) = One(ip[p] = i) + One(dp[p] = i)
  OBVIOUS
<1> QED
  BY <1>1 DEF One

\* A process that puts back what it has, and nothing else.
LEMMA PutsBack ==
  ASSUME PartsAssumption, InodeInv, NEW p \in Worker, puts[p] = <<>>,
         NEW s \in ShortSeq(Inode), NEW l \in {"user", "linkUndo"}, Inodes!Leave(p, s, l),
         UNCHANGED <<type, nlink, entries, old, ref, freeing, cwd, open>>,
         valid' \in [Inode -> BOOLEAN], locker' \in [Inode -> Worker \cup {None}], LocksMove(p),
         l = "linkUndo" <=> old[p] # None,
         \/ s = <<ip[p]>> /\ dp[p] = None
         \/ s = <<dp[p]>> /\ ip[p] = None
         \/ s = <<ip[p], dp[p]>>
  PROVE  InodeInv'
<1>1. /\ InodeTypes /\ PointersLive(p) /\ None \notin Inode
      /\ ip[p] \in Inode \cup {None} /\ dp[p] \in Inode \cup {None}
  BY InodesHere
<1>2. ip[p] # None => ip[p] \in Inode
  BY <1>1
<1>3. dp[p] # None => dp[p] \in Inode
  BY <1>1
<1>4. cwd' \in [Worker -> Inode] /\ open' \in [Worker -> Inodes!Pointer] /\ StaySame(p)
  BY <1>1 DEF InodeTypes, StaySame
<1>5. old'[p] = old[p] /\ cwd'[p] = cwd[p] /\ open'[p] = open[p]
  OBVIOUS
<1>6. CASE s = <<ip[p]>> /\ dp[p] = None
  <2>1. ip[p] \in Inode
    BY <1>1, <1>6 DEF ShortSeq
  <2>2. \A i \in Inode : Copies(s, i) = One(ip[p] = i) + One(dp[p] = i)
    <3> TAKE i \in Inode
    <3>1. Copies(s, i) = One(ip[p] = i)
      BY <1>6, <2>1, Shorts DEF One
    <3> QED
      BY <1>1, <1>6, <3>1 DEF One
  <2>4. Exchanged(p, s)
    BY <1>5, <2>2, ExchangedIs
  <2>3. s # <<>> => Live(Head(s)) /\ (Tail(s) # <<>> => Live(Head(Tail(s))))
    BY <1>1, <1>6, <2>1, Shorts DEF PointersLive
  <2> QED
    BY <1>4, <2>3, <2>4, QuietLeave
<1>7. CASE s = <<dp[p]>> /\ ip[p] = None
  <2>1. dp[p] \in Inode
    BY <1>1, <1>7 DEF ShortSeq
  <2>2. \A i \in Inode : Copies(s, i) = One(ip[p] = i) + One(dp[p] = i)
    <3> TAKE i \in Inode
    <3>1. Copies(s, i) = One(dp[p] = i)
      BY <1>7, <2>1, Shorts DEF One
    <3> QED
      BY <1>1, <1>7, <3>1 DEF One
  <2>4. Exchanged(p, s)
    BY <1>5, <2>2, ExchangedIs
  <2>3. s # <<>> => Live(Head(s)) /\ (Tail(s) # <<>> => Live(Head(Tail(s))))
    BY <1>1, <1>7, <2>1, Shorts DEF PointersLive
  <2> QED
    BY <1>4, <2>3, <2>4, QuietLeave
<1>8. CASE s = <<ip[p], dp[p]>>
  <2>1. ip[p] \in Inode /\ dp[p] \in Inode
    BY <1>1, <1>8 DEF ShortSeq
  <2>2. \A i \in Inode : Copies(s, i) = One(ip[p] = i) + One(dp[p] = i)
    <3> TAKE i \in Inode
    <3>1. Copies(s, i) = (IF ip[p] = i THEN 1 ELSE 0) + (IF dp[p] = i THEN 1 ELSE 0)
      BY <1>8, CopiesOfFew
    <3> QED
      BY <3>1 DEF One
  <2>4. Exchanged(p, s)
    BY <1>5, <2>2, ExchangedIs
  <2>3. s # <<>> => Live(Head(s)) /\ (Tail(s) # <<>> => Live(Head(Tail(s))))
    BY <1>1, <1>8, <2>1, Shorts DEF PointersLive
  <2> QED
    BY <1>4, <2>3, <2>4, QuietLeave
<1> QED
  BY <1>6, <1>7, <1>8

\* ilock() has made an inode valid and the lock is as it was.
LEMMA TableStays ==
  ASSUME PartsAssumption, InodeInv, NEW p \in Worker, NEW i, valid' = Inodes!Locked(valid, i)
  PROVE  /\ valid' \in [Inode -> BOOLEAN]
         /\ UNCHANGED locker => locker' \in [Inode -> Worker \cup {None}] /\ LocksMove(p)
<1>1. InodeTypes
  BY DEF InodeInv
<1> QED
  BY <1>1 DEF InodeTypes, Inodes!Locked, LocksMove

-----------------------------------------------------------------------------
(* Calls that end without changing the disk.                               *)

LEMMA BecomeOpenStep ==
  ASSUME PartsAssumption, InodeInv, NEW p \in Worker, puts[p] = <<>>,
         ip[p] # None, dp[p] = None, old[p] = None, open[p] = None,
         valid' = Inodes!Locked(valid, ip[p]), Inodes!BecomeOpen(p, <<>>),
         UNCHANGED <<type, nlink, entries, ref, locker, old, freeing, cwd>>
  PROVE  InodeInv'
<1>1. InodeTypes /\ PointersLive(p) /\ None \notin Inode /\ ip[p] \in Inode
  BY InodesHere
<1>2. valid' \in [Inode -> BOOLEAN] /\ locker' \in [Inode -> Worker \cup {None}] /\ LocksMove(p)
  BY TableStays
<1>3. CASE open' = [open EXCEPT ![p] = ip[p]] /\ Inodes!Leave(p, <<>>, "user")
  <2>1. open'[p] = ip[p] /\ open' \in [Worker -> Inodes!Pointer] /\ StaySame(p)
    BY <1>1, <1>3 DEF InodeTypes, Inodes!Pointer, StaySame
  <2>2. cwd' \in [Worker -> Inode] /\ cwd'[p] = cwd[p]
    BY <1>1 DEF InodeTypes
  <2>4. Exchanged(p, <<>>)
    <3> SUFFICES ASSUME NEW i \in Inode
                 PROVE  One(old'[p] = i) + One(cwd'[p] = i) + One(open'[p] = i) + Copies(<<>>, i)
                          = One(ip[p] = i) + One(dp[p] = i) + One(old[p] = i) + One(cwd[p] = i)
                              + One(open[p] = i)
      BY DEF Exchanged
    <3>1. Copies(<<>>, i) = 0
      BY Shorts
    <3> QED
      BY <1>1, <2>1, <2>2, <3>1 DEF One
  <2> QED
    BY <1>1, <1>2, <1>3, <2>1, <2>2, <2>4, Shorts, QuietLeave
<1>4. CASE Inodes!Leave(p, <<>> \o <<ip[p]>>, "user") /\ UNCHANGED open
  <2>1. <<>> \o <<ip[p]>> = <<ip[p]>> /\ <<ip[p]>> \in ShortSeq(Inode)
    BY <1>1, Shorts
  <2>2. Inodes!Leave(p, <<ip[p]>>, "user")
    BY <1>4, <2>1
  <2> QED
    BY <1>2, <1>4, <2>1, <2>2, PutsBack
<1> QED
  BY <1>3, <1>4 DEF Inodes!BecomeOpen

LEMMA OpenStep ==
  ASSUME PartsAssumption, InodeInv, NEW p \in Worker, Inodes!Open(p) PROVE InodeInv'
<1>1. InodeTypes /\ InodeCaller(p) /\ None \notin Inode
  BY InodesHere
<1>2. pc[p] = "open" /\ puts[p] = <<>> /\ ip[p] # None
  BY DEF Inodes!Open, Inodes!AtInode, Inodes!At
<1>3. dp[p] = None /\ old[p] = None /\ open[p] = None
  BY <1>1, <1>2 DEF InodeCaller, Inodes!Calls
<1> QED
  BY <1>2, <1>3, BecomeOpenStep DEF Inodes!Open, Inodes!disk

LEMMA CreateOldStep ==
  ASSUME PartsAssumption, InodeInv, NEW p \in Worker, Inodes!CreateOld(p) PROVE InodeInv'
<1>1. InodeTypes /\ InodeCaller(p) /\ None \notin Inode /\ ip[p] \in Inode \cup {None}
  BY InodesHere
<1>2. pc[p] \in {"creatOld", "mkdirOld"} /\ puts[p] = <<>>
      /\ valid' = Inodes!Locked(valid, ip[p])
      /\ UNCHANGED <<type, nlink, entries, ref, locker, old, freeing, cwd>>
  BY DEF Inodes!CreateOld, Inodes!At, Inodes!disk
<1>3. ip[p] # None /\ dp[p] = None /\ old[p] = None
  BY <1>1, <1>2 DEF InodeCaller
<1>4. CASE pc[p] = "creatOld" /\ Inodes!BecomeOpen(p, <<>>)
  <2>1. open[p] = None
    BY <1>1, <1>4 DEF InodeCaller
  <2> QED
    BY <1>2, <1>3, <1>4, <2>1, BecomeOpenStep
<1>5. CASE Inodes!Leave(p, <<ip[p]>>, "user") /\ UNCHANGED open
  <2>1. valid' \in [Inode -> BOOLEAN] /\ locker' \in [Inode -> Worker \cup {None}] /\ LocksMove(p)
    BY <1>2, TableStays
  <2>2. <<ip[p]>> \in ShortSeq(Inode)
    BY <1>1, <1>3, Shorts
  <2> QED
    BY <1>2, <1>3, <1>5, <2>1, <2>2, PutsBack
<1> QED
  BY <1>4, <1>5 DEF Inodes!CreateOld

LEMMA CloseStep ==
  ASSUME PartsAssumption, InodeInv, NEW p \in Worker, Inodes!Close(p) PROVE InodeInv'
<1>1. InodeTypes /\ InodeCaller(p) /\ PointersLive(p) /\ None \notin Inode
      /\ open[p] \in Inode \cup {None}
  BY InodesHere
<1>2. /\ pc[p] = "user" /\ puts[p] = <<>> /\ open[p] # None
      /\ Inodes!Leave(p, <<open[p]>>, "user") /\ open' = [open EXCEPT ![p] = None]
      /\ UNCHANGED <<type, nlink, entries, ref, valid, locker, old, freeing, cwd>>
  BY DEF Inodes!Close, Inodes!At, Inodes!disk, Inodes!table
<1>3. ip[p] = None /\ dp[p] = None /\ old[p] = None /\ open[p] \in Inode
  BY <1>1, <1>2 DEF InodeCaller
<1>4. valid' \in [Inode -> BOOLEAN] /\ locker' \in [Inode -> Worker \cup {None}] /\ LocksMove(p)
  BY <1>1, <1>2 DEF InodeTypes, LocksMove
<1>5. /\ open'[p] = None /\ open' \in [Worker -> Inodes!Pointer] /\ StaySame(p)
      /\ cwd' \in [Worker -> Inode] /\ cwd'[p] = cwd[p]
  BY <1>1, <1>2 DEF InodeTypes, Inodes!Pointer, StaySame
<1>7. Exchanged(p, <<open[p]>>)
  <2> SUFFICES ASSUME NEW i \in Inode
               PROVE  One(old'[p] = i) + One(cwd'[p] = i) + One(open'[p] = i) + Copies(<<open[p]>>, i)
                        = One(ip[p] = i) + One(dp[p] = i) + One(old[p] = i) + One(cwd[p] = i)
                            + One(open[p] = i)
    BY DEF Exchanged
  <2>1. Copies(<<open[p]>>, i) = One(open[p] = i)
    BY <1>3, Shorts DEF One
  <2> QED
    BY <1>1, <1>2, <1>3, <1>5, <2>1 DEF One
<1>8. <<open[p]>> \in ShortSeq(Inode) /\ Live(Head(<<open[p]>>)) /\ Tail(<<open[p]>>) = <<>>
  BY <1>1, <1>3, Shorts DEF PointersLive
<1> QED
  BY <1>2, <1>3, <1>4, <1>5, <1>7, <1>8, QuietLeave

LEMMA ChdirStep ==
  ASSUME PartsAssumption, InodeInv, NEW p \in Worker, Inodes!Chdir(p) PROVE InodeInv'
<1>1. InodeTypes /\ InodeCaller(p) /\ PointersLive(p) /\ None \notin Inode
      /\ ip[p] \in Inode \cup {None} /\ cwd[p] \in Inode
  BY InodesHere
<1>2. /\ pc[p] = "chdir" /\ puts[p] = <<>> /\ ip[p] # None
      /\ valid' = Inodes!Locked(valid, ip[p])
      /\ UNCHANGED <<type, nlink, entries, ref, locker, old, freeing, open>>
  BY DEF Inodes!Chdir, Inodes!AtInode, Inodes!At, Inodes!disk
<1>3. dp[p] = None /\ old[p] = None /\ ip[p] \in Inode
  BY <1>1, <1>2 DEF InodeCaller, Inodes!Calls
<1>4. valid' \in [Inode -> BOOLEAN] /\ locker' \in [Inode -> Worker \cup {None}] /\ LocksMove(p)
  BY <1>2, TableStays
<1>5. CASE cwd' = [cwd EXCEPT ![p] = ip[p]] /\ Inodes!Leave(p, <<cwd[p]>>, "user")
  <2>1. /\ cwd'[p] = ip[p] /\ cwd' \in [Worker -> Inode] /\ StaySame(p)
        /\ open' \in [Worker -> Inodes!Pointer] /\ open'[p] = open[p]
    BY <1>1, <1>2, <1>3, <1>5 DEF InodeTypes, StaySame
  <2>3. Exchanged(p, <<cwd[p]>>)
    <3> SUFFICES ASSUME NEW i \in Inode
                 PROVE  One(old'[p] = i) + One(cwd'[p] = i) + One(open'[p] = i) + Copies(<<cwd[p]>>, i)
                          = One(ip[p] = i) + One(dp[p] = i) + One(old[p] = i) + One(cwd[p] = i)
                              + One(open[p] = i)
      BY DEF Exchanged
    <3>1. Copies(<<cwd[p]>>, i) = One(cwd[p] = i)
      BY <1>1, Shorts DEF One
    <3> QED
      BY <1>1, <1>2, <1>3, <2>1, <3>1 DEF One
  <2>4. <<cwd[p]>> \in ShortSeq(Inode) /\ Live(Head(<<cwd[p]>>)) /\ Tail(<<cwd[p]>>) = <<>>
    BY <1>1, Shorts DEF PointersLive
  <2> QED
    BY <1>2, <1>3, <1>4, <1>5, <2>1, <2>3, <2>4, QuietLeave
<1>6. CASE Inodes!Leave(p, <<ip[p]>>, "user") /\ UNCHANGED cwd
  <2>1. <<ip[p]>> \in ShortSeq(Inode)
    BY <1>3, Shorts
  <2> QED
    BY <1>2, <1>3, <1>4, <1>6, <2>1, PutsBack
<1> QED
  BY <1>5, <1>6 DEF Inodes!Chdir

LEMMA WalkFailsStep ==
  ASSUME PartsAssumption, InodeInv, NEW p \in Worker, puts[p] = <<>>, ip[p] # None,
         pc[p] \in Inodes!Calls \cup {"linkNew"}, valid' = Inodes!Locked(valid, ip[p]),
         Inodes!Leave(p, <<ip[p]>>, Inodes!WalkFailed(p)),
         UNCHANGED <<type, nlink, entries, ref, locker, old, freeing, cwd, open>>
  PROVE  InodeInv'
<1>1. InodeTypes /\ InodeCaller(p) /\ None \notin Inode /\ ip[p] \in Inode
  BY InodesHere
<1>2. dp[p] = None
  BY <1>1 DEF InodeCaller
<1>3. /\ Inodes!WalkFailed(p) \in {"user", "linkUndo"}
      /\ Inodes!WalkFailed(p) = "linkUndo" <=> old[p] # None
  BY <1>1 DEF Inodes!WalkFailed, InodeCaller, Inodes!Calls
<1>4. valid' \in [Inode -> BOOLEAN] /\ locker' \in [Inode -> Worker \cup {None}] /\ LocksMove(p)
  BY TableStays
<1>5. <<ip[p]>> \in ShortSeq(Inode)
  BY <1>1, Shorts
<1> QED
  BY <1>2, <1>3, <1>4, <1>5, PutsBack

\* A call that gives back the directory it has.
LEMMA LeavesDirStep ==
  ASSUME PartsAssumption, InodeInv, NEW p \in Worker, puts[p] = <<>>, dp[p] # None,
         NEW l \in {"user", "linkUndo"}, Inodes!Leave(p, <<dp[p]>>, l),
         pc[p] \in {"creat", "mkdir", "unlink", "linkNew"}, l = "linkUndo" <=> pc[p] = "linkNew",
         valid' = Inodes!Locked(valid, dp[p]),
         UNCHANGED <<type, nlink, entries, ref, locker, old, freeing, cwd, open>>
  PROVE  InodeInv'
<1>1. InodeTypes /\ InodeCaller(p) /\ None \notin Inode /\ dp[p] \in Inode
  BY InodesHere
<1>2. ip[p] = None /\ (l = "linkUndo" <=> old[p] # None)
  BY <1>1 DEF InodeCaller, Inodes!Calls
<1>4. valid' \in [Inode -> BOOLEAN] /\ locker' \in [Inode -> Worker \cup {None}] /\ LocksMove(p)
  BY TableStays
<1>5. <<dp[p]>> \in ShortSeq(Inode)
  BY <1>1, Shorts
<1> QED
  BY <1>2, <1>4, <1>5, PutsBack

\* A call that gives back its inode and the directory, which it unlocks.
LEMMA LeavesBothStep ==
  ASSUME PartsAssumption, InodeInv, NEW p \in Worker, pc[p] \in Second,
         Inodes!Leave(p, <<ip[p], dp[p]>>, "user"),
         valid' = Inodes!Locked(valid, ip[p]), locker' = [locker EXCEPT ![dp[p]] = None],
         UNCHANGED <<type, nlink, entries, ref, old, freeing, cwd, open>>
  PROVE  InodeInv'
<1>1. InodeTypes /\ InodeCaller(p) /\ None \notin Inode
      /\ dp[p] \in Inode \cup {None} /\ ip[p] \in Inode \cup {None}
  BY InodesHere
<1>2. ip[p] \in Inode /\ dp[p] \in Inode /\ puts[p] = <<>> /\ locker[dp[p]] = p /\ old[p] = None
  BY <1>1 DEF InodeCaller, Second, Fresh
<1>3. valid' \in [Inode -> BOOLEAN]
  BY TableStays
<1>4. locker' \in [Inode -> Worker \cup {None}] /\ LocksMove(p)
  BY <1>1, <1>2 DEF InodeTypes, LocksMove
<1>5. <<ip[p], dp[p]>> \in ShortSeq(Inode)
  BY <1>2, Shorts
<1> QED
  BY <1>2, <1>3, <1>4, <1>5, PutsBack

LEMMA LinkDirStep ==
  ASSUME PartsAssumption, InodeInv, NEW p \in Worker, puts[p] = <<>>, ip[p] # None,
         pc[p] = "link", Inodes!Leave(p, <<ip[p]>>, "user"), valid' = Inodes!Locked(valid, ip[p]),
         UNCHANGED <<type, nlink, entries, ref, locker, old, freeing, cwd, open>>
  PROVE  InodeInv'
<1>1. Inodes!WalkFailed(p) = "user" /\ pc[p] \in Inodes!Calls
  BY DEF Inodes!WalkFailed, Inodes!Calls
<1> QED
  BY <1>1, WalkFailsStep

-----------------------------------------------------------------------------
(* iput().                                                                 *)

\* A reference is dropped.
LEMMA DropStep ==
  ASSUME PartsAssumption, InodeInv, NEW p \in Worker, puts[p] # <<>>,
         ref' = [ref EXCEPT ![Head(puts[p])] = @ - 1],
         valid' = [valid EXCEPT ![Head(puts[p])] = @ /\ ref[Head(puts[p])] > 1],
         puts' = [puts EXCEPT ![p] = Tail(@)],
         freeing' = [freeing EXCEPT ![p] = "no"],
         UNCHANGED <<type, nlink, entries, locker, pc, path, ip, dp, old, cwd, open>>
  PROVE  InodeInv'
<1>1. /\ InodeTypes /\ RefsAre /\ InodeCaller(p) /\ PointersLive(p) /\ None \notin Inode
  BY InodesHere
<1>2. PICK j \in Inode : j = Head(puts[p])
  BY <1>1, CopiesOfFirst
<1>3. /\ Tail(puts[p]) \in ShortSeq(Inode)
      /\ \A i : Copies(puts[p], i) = Copies(Tail(puts[p]), i) + One(j = i)
  BY <1>1, <1>2, CopiesOfFirst, SMTT(30)
<1>4. ref[j] \in Nat /\ ref[j] - 1 \in Nat
  <2>1. Claims(p, j) >= 1 /\ Claims(p, j) <= ref[j] /\ ref[j] \in Nat /\ Claims(p, j) \in Nat
    BY <1>1, <1>2, LastReference, PointersClaim, ClaimsAreNat
  <2> QED
    BY <2>1
<1>5. InodeTypes'
  <2>1. ref' \in [Inode -> Nat]
    BY <1>1, <1>2, <1>4 DEF InodeTypes
  <2>2. valid' \in [Inode -> BOOLEAN]
    BY <1>1, <1>2 DEF InodeTypes
  <2>3. puts' \in [Worker -> ShortSeq(Inode)] /\ freeing' \in [Worker -> {"no", "free", "drop"}]
    BY <1>1, <1>3 DEF InodeTypes
  <2> QED
    BY <1>1, <2>1, <2>2, <2>3 DEF InodeTypes
<1>6. puts'[p] = Tail(puts[p]) /\ freeing'[p] = "no" /\ OthersStay(p)
  BY <1>1 DEF InodeTypes, OthersStay
<1>7. \A i \in Inode : ref'[i] = IF i = j THEN ref[i] - 1 ELSE ref[i]
  BY <1>1, <1>2 DEF InodeTypes
<1>8. /\ NamesLive' /\ Linked' /\ type'[Root] = "dir" /\ TypesMove(p) /\ EntriesMove(p)
      /\ \A i \in Inode : nlink'[i] = nlink[i]
  BY DiskStays
<1>9. Moves(p)
  <2>1. LinksMove(p)
    BY <1>1, <1>8 DEF LinksMove, Away
  <2>2. RefsMove(p)
    <3> SUFFICES ASSUME NEW i \in Inode, Claims(p, i) = 0 PROVE ref'[i] = ref[i]
      BY DEF RefsMove
    <3>1. i # j
      BY <1>1, <1>2, PointersClaim
    <3> QED
      BY <1>7, <3>1
  <2> QED
    BY <1>6, <1>8, <2>1, <2>2 DEF Moves, LocksMove
<1>10. ASSUME NEW i \in Inode PROVE ref'[i] + Claims(p, i) = ref[i] + Claims(p, i)'
  <2>1. PICK m \in Nat : m = Copies(Tail(puts[p]), i)
    BY <1>3, CopiesAreNat
  <2>2. Copies(puts[p], i) = m + One(j = i) /\ Copies(puts'[p], i) = m
    BY <1>3, <1>6, <2>1
  <2>3. PICK a \in Nat : a = One(ip[p] = i) + One(dp[p] = i) + One(old[p] = i) + One(cwd[p] = i)
                               + One(open[p] = i)
    BY DEF One
  <2>4. Claims(p, i) = a + (m + One(j = i))
    BY <2>2, <2>3 DEF Claims
  <2>5. Claims(p, i)' = a + m
    BY <2>2, <2>3 DEF Claims
  <2>6. ref[i] \in Nat
    BY <1>1 DEF InodeTypes
  <2> QED
    BY <1>7, <2>4, <2>5, <2>6 DEF One
<1>11. InodeCaller(p)' /\ InodePuts(p)'
  BY <1>1, <1>6 DEF InodeCaller, InodePuts, Second, Fresh
<1>12. PointersLive(p)'
  <2>1. ASSUME Tail(puts[p]) # <<>> PROVE Tail(Tail(puts[p])) = <<>>
    <3>1. puts[p] \in ShortSeq(Inode)
      BY <1>1 DEF InodeTypes
    <3>2. CASE \E g \in Inode : puts[p] = <<g>>
      BY <2>1, <3>2
    <3>3. CASE \E g, h \in Inode : puts[p] = <<g, h>>
      <4>1. PICK g \in Inode, h \in Inode : puts[p] = <<g, h>>
        BY <3>3
      <4>2. Tail(puts[p]) = <<h>> /\ Tail(<<h>>) = <<>>
        BY <4>1
      <4> QED
        BY <4>2
    <3> QED
      BY <3>1, <3>2, <3>3 DEF ShortSeq
  <2> QED
    BY <1>1, <1>6, <2>1 DEF PointersLive, Live
<1> QED
  BY <1>1, <1>5, <1>8, <1>9, <1>10, <1>11, <1>12, StepKeepsInodes

\* The last reference to an inode without links: it is locked to be freed.
LEMMA FreesStep ==
  ASSUME PartsAssumption, InodeInv, NEW p \in Worker, puts[p] # <<>>,
         ref[Head(puts[p])] = 1, nlink[Head(puts[p])] = 0, locker[Head(puts[p])] = None,
         freeing[p] = "no",
         locker' = [locker EXCEPT ![Head(puts[p])] = p],
         freeing' = [freeing EXCEPT ![p] = "free"],
         UNCHANGED <<type, nlink, entries, ref, valid, puts, pc, path, ip, dp, old, cwd, open>>
  PROVE  InodeInv'
<1>1. /\ InodeTypes /\ InodeCaller(p) /\ PointersLive(p) /\ None \notin Inode
  BY InodesHere
<1>2. Head(puts[p]) \in Inode
  BY <1>1, CopiesOfFirst
<1>3. InodeTypes'
  BY <1>1, <1>2 DEF InodeTypes
<1>4. OthersStay(p) /\ freeing'[p] = "free"
  BY <1>1 DEF InodeTypes, OthersStay
<1>5. /\ NamesLive' /\ Linked' /\ type'[Root] = "dir" /\ TypesMove(p) /\ EntriesMove(p)
  BY DiskStays
<1>6. Moves(p)
  <2>1. LinksMove(p) /\ RefsMove(p) /\ LocksMove(p)
    BY <1>1, <1>2 DEF LinksMove, RefsMove, LocksMove, Away, InodeTypes
  <2> QED
    BY <1>4, <1>5, <2>1 DEF Moves
<1>7. ASSUME NEW i \in Inode PROVE ref'[i] + Claims(p, i) = ref[i] + Claims(p, i)'
  BY DEF Claims
<1>8. InodeCaller(p)' /\ InodePuts(p)' /\ PointersLive(p)'
  <2>1. InodeCaller(p)'
    BY <1>1 DEF InodeCaller, Second, Fresh
  <2>2. InodePuts(p)' /\ PointersLive(p)'
    BY <1>1, <1>4 DEF InodePuts, PointersLive, Live
  <2> QED
    BY <2>1, <2>2
<1> QED
  BY <1>3, <1>5, <1>6, <1>7, <1>8, StepKeepsInodes

LEMMA PutStep ==
  ASSUME PartsAssumption, InodeInv, NEW p \in Worker, Inodes!Put(p) PROVE InodeInv'
<1>1. /\ puts[p] # <<>> /\ freeing[p] = "no"
      /\ UNCHANGED <<type, nlink, entries, pc, path, ip, dp, old, cwd, open>>
  BY DEF Inodes!Put, Inodes!disk, Inodes!locals
<1>2. CASE ref[Head(puts[p])] = 1 /\ valid[Head(puts[p])] /\ nlink[Head(puts[p])] = 0
  BY <1>1, <1>2, FreesStep DEF Inodes!Put, Inodes!Lockable
<1>3. CASE ~ (ref[Head(puts[p])] = 1 /\ valid[Head(puts[p])] /\ nlink[Head(puts[p])] = 0)
  <2>1. freeing' = [freeing EXCEPT ![p] = "no"]
    <3>1. freeing' = freeing /\ freeing \in [Worker -> {"no", "free", "drop"}]
      BY <1>3 DEF Inodes!Put, InodeInv, InodeTypes
    <3> QED
      BY <1>1, <3>1
  <2> QED
    BY <1>1, <1>3, <2>1, DropStep DEF Inodes!Put
<1> QED
  BY <1>2, <1>3

LEMMA PutDropStep ==
  ASSUME PartsAssumption, InodeInv, NEW p \in Worker, Inodes!PutDrop(p) PROVE InodeInv'
<1>1. puts[p] # <<>>
  BY DEF InodeInv, InodePuts, Inodes!PutDrop
<1> QED
  BY <1>1, DropStep DEF Inodes!PutDrop, Inodes!disk, Inodes!locals

\* The inode is truncated and marked free.
LEMMA PutFreeStep ==
  ASSUME PartsAssumption, InodeInv, NEW p \in Worker, Inodes!PutFree(p) PROVE InodeInv'
<1>1. /\ InodeTypes /\ InodeCaller(p) /\ InodePuts(p) /\ PointersLive(p) /\ NamesLive /\ Linked
      /\ type[Root] = "dir" /\ None \notin Inode /\ Root \in Inode
  BY InodesHere
<1>2. puts[p] # <<>> /\ freeing[p] = "free"
  BY <1>1 DEF InodePuts, Inodes!PutFree
<1>3. PICK j \in Inode : j = Head(puts[p]) /\ FreedBy(p, j)
  BY <1>1, <1>2, CopiesOfFirst DEF FreedBy
<1>4. /\ j \notin {ip[p], dp[p], old[p], cwd[p], open[p]}
      /\ Tail(puts[p]) # <<>> => Head(Tail(puts[p])) # j
  BY <1>3, FreedIsNobodys
<1>5. ~ Named(j) /\ j # Root
  BY <1>3, FreedIsNobodys, NoLinks
<1>6. /\ type' = [type EXCEPT ![j] = "free"] /\ entries' = [entries EXCEPT ![j] = Inodes!NoEntries]
      /\ valid' = [valid EXCEPT ![j] = FALSE] /\ locker' = [locker EXCEPT ![j] = None]
      /\ freeing' = [freeing EXCEPT ![p] = "drop"]
      /\ UNCHANGED <<nlink, ref, pc, path, ip, dp, old, puts, cwd, open>>
  BY <1>3 DEF Inodes!PutFree, Inodes!locals
<1>7. InodeTypes'
  <2>1. entries' \in [Inode -> [Inodes!AllNames -> Inodes!Pointer]]
    BY <1>1, <1>6 DEF InodeTypes, Inodes!NoEntries, Inodes!Pointer
  <2>2. /\ type' \in [Inode -> {"free", "file", "dir"}] /\ valid' \in [Inode -> BOOLEAN]
        /\ locker' \in [Inode -> Worker \cup {None}]
        /\ freeing' \in [Worker -> {"no", "free", "drop"}]
    BY <1>1, <1>6 DEF InodeTypes
  <2> QED
    BY <1>1, <1>6, <2>1, <2>2 DEF InodeTypes
<1>8. /\ \A i \in Inode : type'[i] = IF i = j THEN "free" ELSE type[i]
      /\ \A i \in Inode : i # j => locker'[i] = locker[i]
      /\ freeing'[p] = "drop"
  BY <1>1, <1>6 DEF InodeTypes
<1>9. \A d \in Inode, n \in Name : entries'[d][n] = IF d = j THEN None ELSE entries[d][n]
  BY <1>1, <1>6 DEF InodeTypes, Inodes!NoEntries, Inodes!AllNames
<1>10. Moves(p)
  <2>1. OthersStay(p)
    BY <1>1, <1>6 DEF OthersStay, InodeTypes
  <2>2. TypesMove(p) /\ LocksMove(p)
    BY <1>3, <1>8 DEF TypesMove, LocksMove
  <2>3. EntriesMove(p)
    BY <1>3, <1>9 DEF EntriesMove
  <2>4. LinksMove(p) /\ RefsMove(p)
    BY <1>6 DEF LinksMove, RefsMove, Away
  <2> QED
    BY <2>1, <2>2, <2>3, <2>4 DEF Moves
<1>11. ASSUME NEW i \in Inode PROVE ref'[i] + Claims(p, i) = ref[i] + Claims(p, i)'
  BY <1>6 DEF Claims
<1>12. InodeCaller(p)'
  <2>1. dp[p] # None => type'[dp[p]] = type[dp[p]]
    BY <1>1, <1>4, <1>8, InodesHere
  <2>2. old[p] # None => type'[old[p]] = type[old[p]]
    BY <1>1, <1>4, <1>8, InodesHere
  <2>3. pc[p] \notin Second
    BY <1>1, <1>2 DEF InodeCaller
  <2> QED
    BY <1>1, <1>6, <2>1, <2>2, <2>3 DEF InodeCaller, Second, Fresh
<1>13. InodePuts(p)'
  BY <1>2, <1>6, <1>8 DEF InodePuts
<1>14. PointersLive(p)'
  <2>1. \A i \in Inode : i # j => (Live(i) => Live(i)')
    BY <1>8 DEF Live
  <2>2. Live(ip[p])' /\ Live(dp[p])' /\ Live(old[p])' /\ Live(cwd[p])' /\ Live(open[p])'
    <3>1. /\ ip[p] \in Inode \cup {None} /\ dp[p] \in Inode \cup {None}
          /\ old[p] \in Inode \cup {None} /\ open[p] \in Inode \cup {None} /\ cwd[p] \in Inode
      BY InodesHere
    <3> QED
      BY <1>1, <1>4, <1>6, <1>8, <3>1 DEF PointersLive, Live
  <2>3. Tail(puts[p]) # <<>> => Live(Head(Tail(puts[p])))'
    <3> SUFFICES ASSUME Tail(puts[p]) # <<>> PROVE Live(Head(Tail(puts[p])))'
      OBVIOUS
    <3>1. Head(Tail(puts[p])) \in Inode
      BY <1>1, <1>2, CopiesOfFirst, FirstOfFew
    <3> QED
      BY <1>1, <1>2, <1>4, <1>6, <1>8, <3>1 DEF PointersLive, Live
  <2> QED
    BY <1>6, <1>8, <2>2, <2>3 DEF PointersLive, Live
<1>15. NamesLive'
  <2> SUFFICES ASSUME NEW d \in Inode, NEW n \in Name, entries'[d][n] # None
               PROVE  /\ type'[d] = "dir" /\ entries'[d][n] # d
                      /\ type'[entries'[d][n]] # "free"
    BY DEF NamesLive
  <2>1. d # j /\ entries'[d][n] = entries[d][n]
    BY <1>9
  <2>2. entries[d][n] \in Inode
    BY <1>1, <2>1 DEF InodeTypes, Inodes!AllNames, Inodes!Pointer
  <2>3. entries[d][n] # j
    BY <1>5 DEF Named
  <2>4. type[d] = "dir" /\ entries[d][n] # d /\ type[entries[d][n]] # "free"
    BY <1>1, <2>1 DEF NamesLive
  <2> QED
    BY <1>8, <2>1, <2>2, <2>3, <2>4
<1>16. Linked'
  <2> SUFFICES ASSUME NEW i \in Inode
               PROVE  NNames(i)' + NSubDirs(i)' + NLinkers(i)' + One(i = Root) <= nlink'[i]
    BY DEF Linked
  <2>1. NamesOf(i)' \subseteq NamesOf(i)
    BY <1>1, <1>9 DEF NamesOf
  <2>2. SubDirs(i)' \subseteq SubDirs(i)
    <3> SUFFICES ASSUME NEW n \in Name, entries'[i][n] # None, type'[entries'[i][n]] = "dir"
                 PROVE  entries[i][n] # None /\ type[entries[i][n]] = "dir"
      BY DEF SubDirs
    <3>1. entries'[i][n] = entries[i][n]
      BY <1>9
    <3>2. entries[i][n] \in Inode
      BY <1>1, <3>1 DEF InodeTypes, Inodes!AllNames, Inodes!Pointer
    <3> QED
      BY <1>8, <3>1, <3>2
  <2>3. NLinkers(i)' = NLinkers(i) /\ nlink'[i] = nlink[i]
    BY <1>6 DEF NLinkers, Linkers
  <2>4. /\ NNames(i) \in Nat /\ NSubDirs(i) \in Nat /\ NLinkers(i) \in Nat
        /\ IsFiniteSet(NamesOf(i)) /\ IsFiniteSet(SubDirs(i))
    BY LinksAreNat
  <2>5. NNames(i)' \in Nat /\ NSubDirs(i)' \in Nat /\ NNames(i)' <= NNames(i) /\ NSubDirs(i)' <= NSubDirs(i)
    <3>1. IsFiniteSet(NamesOf(i)') /\ Cardinality(NamesOf(i)') <= Cardinality(NamesOf(i))
      BY <2>1, <2>4, FS_Subset
    <3>2. IsFiniteSet(SubDirs(i)') /\ Cardinality(SubDirs(i)') <= Cardinality(SubDirs(i))
      BY <2>2, <2>4, FS_Subset
    <3> QED
      BY <3>1, <3>2, FS_CardinalityType DEF NNames, NSubDirs
  <2>6. NNames(i) + NSubDirs(i) + NLinkers(i) + One(i = Root) <= nlink[i]
    BY <1>1 DEF Linked
  <2>7. nlink[i] \in Nat
    BY <1>1 DEF InodeTypes
  <2>8. PICK b \in Nat : b = One(i = Root)
    BY DEF One
  <2> QED
    BY <2>3, <2>4, <2>5, <2>6, <2>7, <2>8
<1>17. type'[Root] = "dir"
  BY <1>1, <1>5, <1>8
<1> QED
  BY <1>1, <1>7, <1>10, <1>11, <1>12, <1>13, <1>14, <1>15, <1>16, <1>17, StepKeepsInodes

-----------------------------------------------------------------------------
(* A changed entry of a directory, and the links it makes or takes.        *)

EntrySet(d, n, v) ==
  \A e \in Inode, m \in Name : entries'[e][m] = IF e = d /\ m = n THEN v ELSE entries[e][m]
IsDir(e) == e # None /\ type[e] = "dir"

LEMMA NamesCount ==
  ASSUME PartsAssumption, NEW d \in Inode, NEW n \in Name, NEW v, EntrySet(d, n, v),
         NEW i \in Inode
  PROVE  /\ NNames(i) \in Nat /\ NNames(i)' \in Nat
         /\ NNames(i)' + One(entries[d][n] = i) = NNames(i) + One(v = i)
<1> DEFINE A == NamesOf(i)
           B == NamesOf(i)'
           x == <<d, n>>
<1>1. IsFiniteSet(Inode \X Name)
  BY InodeFacts, FS_Product
<1>2. A \subseteq Inode \X Name /\ B \subseteq Inode \X Name
  BY DEF NamesOf
<1>3. \A s \in Inode \X Name : s # x => (s \in A <=> s \in B)
  <2> SUFFICES ASSUME NEW e \in Inode, NEW m \in Name, <<e, m>> # x
               PROVE  <<e, m>> \in A <=> <<e, m>> \in B
    OBVIOUS
  <2>1. entries'[e][m] = entries[e][m]
    BY DEF EntrySet
  <2> QED
    BY <2>1 DEF NamesOf
<1>4. (x \in A <=> entries[d][n] = i) /\ (x \in B <=> v = i)
  BY DEF NamesOf, EntrySet
<1>5. A = NamesOf(i) /\ B = NamesOf(i)'
  OBVIOUS
<1> HIDE DEF A, B, x
<1>6. /\ Cardinality(A) \in Nat /\ Cardinality(B) \in Nat
      /\ Cardinality(B) + Among(x, A) = Cardinality(A) + Among(x, B)
  BY <1>1, <1>2, <1>3, CountChanges
<1>7. Among(x, A) = One(entries[d][n] = i) /\ Among(x, B) = One(v = i)
  BY <1>4 DEF Among, One
<1> QED
  BY <1>5, <1>6, <1>7 DEF NNames

LEMMA SubDirsCount ==
  ASSUME PartsAssumption, NEW d \in Inode, NEW n \in Name, NEW v, EntrySet(d, n, v), type' = type,
         NEW i \in Inode
  PROVE  /\ NSubDirs(i) \in Nat /\ NSubDirs(i)' \in Nat
         /\ NSubDirs(i)' + One(i = d /\ IsDir(entries[d][n])) = NSubDirs(i) + One(i = d /\ IsDir(v))
<1> DEFINE A == SubDirs(i)
           B == SubDirs(i)'
<1>1. IsFiniteSet(Name)
  BY InodeFacts
<1>2. A \subseteq Name /\ B \subseteq Name
  BY DEF SubDirs
<1>3. \A s \in Name : s # n => (s \in A <=> s \in B)
  <2> SUFFICES ASSUME NEW s \in Name, s # n PROVE s \in A <=> s \in B
    OBVIOUS
  <2>1. entries'[i][s] = entries[i][s]
    BY DEF EntrySet
  <2> QED
    BY <2>1 DEF SubDirs
<1>4. i = d => (n \in A <=> IsDir(entries[d][n])) /\ (n \in B <=> IsDir(v))
  BY DEF SubDirs, EntrySet, IsDir
<1>5. i # d => (n \in A <=> n \in B)
  <2> SUFFICES ASSUME i # d PROVE n \in A <=> n \in B
    OBVIOUS
  <2>1. entries'[i][n] = entries[i][n]
    BY DEF EntrySet
  <2> QED
    BY <2>1 DEF SubDirs
<1>6. A = SubDirs(i) /\ B = SubDirs(i)'
  OBVIOUS
<1> HIDE DEF A, B
<1>7. /\ Cardinality(A) \in Nat /\ Cardinality(B) \in Nat
      /\ Cardinality(B) + Among(n, A) = Cardinality(A) + Among(n, B)
  BY <1>1, <1>2, <1>3, CountChanges
<1>8. CASE i = d
  <2>1. Among(n, A) = One(i = d /\ IsDir(entries[d][n])) /\ Among(n, B) = One(i = d /\ IsDir(v))
    BY <1>4, <1>8 DEF Among, One
  <2> QED
    BY <1>6, <1>7, <2>1 DEF NSubDirs
<1>9. CASE i # d
  <2>1. Among(n, A) = Among(n, B) /\ Among(n, A) \in Nat
    BY <1>5, <1>9 DEF Among
  <2>2. One(i = d /\ IsDir(entries[d][n])) = 0 /\ One(i = d /\ IsDir(v)) = 0
    BY <1>9 DEF One
  <2> QED
    BY <1>6, <1>7, <2>1, <2>2 DEF NSubDirs
<1> QED
  BY <1>8, <1>9

LEMMA LinkersCount ==
  ASSUME PartsAssumption, NEW p \in Worker, StaySame(p), NEW i \in Inode
  PROVE  /\ NLinkers(i) \in Nat /\ NLinkers(i)' \in Nat
         /\ NLinkers(i)' + One(old[p] = i) = NLinkers(i) + One(old'[p] = i)
<1> DEFINE A == Linkers(i)
           B == Linkers(i)'
<1>1. IsFiniteSet(Worker)
  BY InodeFacts
<1>2. A \subseteq Worker /\ B \subseteq Worker
  BY DEF Linkers
<1>3. \A s \in Worker : s # p => (s \in A <=> s \in B)
  BY DEF Linkers, StaySame
<1>4. (p \in A <=> old[p] = i) /\ (p \in B <=> old'[p] = i)
  BY DEF Linkers
<1>6. A = Linkers(i) /\ B = Linkers(i)'
  OBVIOUS
<1> HIDE DEF A, B
<1>7. /\ Cardinality(A) \in Nat /\ Cardinality(B) \in Nat
      /\ Cardinality(B) + Among(p, A) = Cardinality(A) + Among(p, B)
  BY <1>1, <1>2, <1>3, CountChanges
<1>8. Among(p, A) = One(old[p] = i) /\ Among(p, B) = One(old'[p] = i)
  BY <1>4 DEF Among, One
<1> QED
  BY <1>6, <1>7, <1>8 DEF NLinkers

\* dirlink() and unlink() change one entry of a directory.
LEMMA EntryChanges ==
  ASSUME PartsAssumption, InodeInv, NEW d \in Inode, NEW n \in Name, NEW v \in Inode \cup {None},
         entries' = Inodes!DirLink(entries, d, n, v)
  PROVE  EntrySet(d, n, v) /\ entries' \in [Inode -> [Inodes!AllNames -> Inodes!Pointer]]
<1>1. entries \in [Inode -> [Inodes!AllNames -> Inodes!Pointer]]
  BY DEF InodeInv, InodeTypes
<1>2. EntrySet(d, n, v)
  BY <1>1 DEF EntrySet, Inodes!AllNames, Inodes!DirLink
<1>3. [entries[d] EXCEPT ![n] = v] \in [Inodes!AllNames -> Inodes!Pointer]
  BY <1>1 DEF Inodes!Pointer
<1>4. entries' = [entries EXCEPT ![d] = [entries[d] EXCEPT ![n] = v]]
  BY DEF Inodes!DirLink
<1>5. entries' \in [Inode -> [Inodes!AllNames -> Inodes!Pointer]]
  BY <1>1, <1>3, <1>4
<1> QED
  BY <1>2, <1>5

\* A new entry of a directory leads to an inode in use, or nowhere.
LEMMA NamesStayLive ==
  ASSUME InodeInv, NEW d \in Inode, NEW n \in Name, NEW v, EntrySet(d, n, v), type' = type,
         v # None => type[d] = "dir" /\ v # d /\ type[v] # "free"
  PROVE  NamesLive'
<1> SUFFICES ASSUME NEW e \in Inode, NEW m \in Name, entries'[e][m] # None
             PROVE  /\ type[e] = "dir" /\ entries'[e][m] # e
                    /\ type[entries'[e][m]] # "free"
  BY DEF NamesLive
<1>1. CASE e = d /\ m = n
  <2>1. entries'[e][m] = v
    BY <1>1 DEF EntrySet
  <2> QED
    BY <1>1, <2>1
<1>2. CASE ~ (e = d /\ m = n)
  <2>1. entries'[e][m] = entries[e][m]
    BY <1>2 DEF EntrySet
  <2> QED
    BY <2>1 DEF InodeInv, NamesLive
<1> QED
  BY <1>1, <1>2

LEMMA EntrySetMoves ==
  ASSUME NEW p, NEW d \in Inode, NEW n \in Name, NEW v, EntrySet(d, n, v),
         locker[d] = None \/ locker[d] = p
  PROVE  EntriesMove(p)
<1> SUFFICES ASSUME NEW e \in Inode, NEW m \in Name, entries'[e][m] # entries[e][m]
             PROVE  locker[e] = None \/ locker[e] = p
  BY DEF EntriesMove
<1>1. e = d
  BY DEF EntrySet
<1> QED
  BY <1>1

-----------------------------------------------------------------------------
(* link(), unlink() and create().                                          *)

LEMMA LinkedToStep ==
  ASSUME PartsAssumption, InodeInv, NEW p \in Worker, puts[p] = <<>>, dp[p] # None,
         pc[p] = "linkNew", locker[dp[p]] = None, valid' = Inodes!Locked(valid, dp[p]),
         entries[dp[p]][Head(path[p])] = None,
         entries' = Inodes!DirLink(entries, dp[p], Head(path[p]), old[p]),
         old' = [old EXCEPT ![p] = None], Inodes!Leave(p, <<dp[p], old[p]>>, "user"),
         UNCHANGED <<type, nlink, ref, locker, freeing, cwd, open>>
  PROVE  InodeInv'
<1>1. /\ InodeTypes /\ InodeCaller(p) /\ PointersLive(p) /\ NamesLive /\ Linked
      /\ type[Root] = "dir" /\ None \notin Inode /\ Root \in Inode
      /\ dp[p] \in Inode /\ old[p] \in Inode \cup {None}
  BY InodesHere
<1>2. /\ old[p] # None /\ ip[p] = None /\ path[p] # <<>> /\ type[dp[p]] = "dir" /\ type[old[p]] # "dir"
      /\ old[p] \in Inode
  BY <1>1 DEF InodeCaller
<1>3. PICK d \in Inode, n \in Name, i \in Inode : d = dp[p] /\ n = Head(path[p]) /\ i = old[p]
  BY <1>1, <1>2, HeadOfPath
<1>4. /\ entries' = Inodes!DirLink(entries, d, n, i) /\ entries[d][n] = None
      /\ type[d] = "dir" /\ type[i] # "dir" /\ locker[d] = None
  BY <1>2, <1>3
<1>5. EntrySet(d, n, i) /\ entries' \in [Inode -> [Inodes!AllNames -> Inodes!Pointer]]
  BY <1>4, EntryChanges
<1>6. NamesLive' /\ EntriesMove(p)
  <2>1. type[i] # "free"
    BY <1>1, <1>2, <1>3 DEF PointersLive, Live
  <2> QED
    BY <1>4, <1>5, <2>1, NamesStayLive, EntrySetMoves
<1>7. old'[p] = None /\ old' \in [Worker -> Inodes!Pointer] /\ StaySame(p)
  BY <1>1 DEF InodeTypes, Inodes!Pointer, StaySame
<1>8. Linked'
  <2> SUFFICES ASSUME NEW k \in Inode
               PROVE  NNames(k)' + NSubDirs(k)' + NLinkers(k)' + One(k = Root) <= nlink'[k]
    BY DEF Linked
  <2>1. /\ NNames(k) \in Nat /\ NNames(k)' \in Nat
        /\ NNames(k)' + One(entries[d][n] = k) = NNames(k) + One(i = k)
    BY <1>5, NamesCount
  <2>2. /\ NSubDirs(k) \in Nat /\ NSubDirs(k)' \in Nat
        /\ NSubDirs(k)' + One(k = d /\ IsDir(entries[d][n])) = NSubDirs(k) + One(k = d /\ IsDir(i))
    BY <1>5, SubDirsCount
  <2>3. /\ NLinkers(k) \in Nat /\ NLinkers(k)' \in Nat
        /\ NLinkers(k)' + One(old[p] = k) = NLinkers(k) + One(old'[p] = k)
    BY <1>7, LinkersCount
  <2>4. NNames(k) + NSubDirs(k) + NLinkers(k) + One(k = Root) <= nlink[k] /\ nlink[k] \in Nat
    BY <1>1 DEF Linked, InodeTypes
  <2>5. One(entries[d][n] = k) = 0 /\ One(old'[p] = k) = 0
    BY <1>1, <1>4, <1>7 DEF One
  <2>6. One(k = d /\ IsDir(entries[d][n])) = 0 /\ One(k = d /\ IsDir(i)) = 0
    BY <1>4 DEF One, IsDir
  <2>7. PICK a \in Nat : a = One(i = k) /\ a = One(old[p] = k)
    BY <1>3 DEF One
  <2>8. PICK b \in Nat : b = One(k = Root)
    BY DEF One
  <2>9. NNames(k)' = NNames(k) + a
    BY <2>1, <2>5, <2>7
  <2>10. NSubDirs(k)' = NSubDirs(k)
    BY <2>2, <2>6
  <2>11. NLinkers(k)' + a = NLinkers(k)
    BY <2>3, <2>5, <2>7
  <2> QED
    BY <2>1, <2>2, <2>3, <2>4, <2>8, <2>9, <2>10, <2>11
<1>9. Exchanged(p, <<dp[p], old[p]>>)
  <2> SUFFICES ASSUME NEW k \in Inode
               PROVE  One(old'[p] = k) + One(cwd'[p] = k) + One(open'[p] = k) + Copies(<<dp[p], old[p]>>, k)
                        = One(ip[p] = k) + One(dp[p] = k) + One(old[p] = k) + One(cwd[p] = k)
                            + One(open[p] = k)
    BY DEF Exchanged
  <2>1. Copies(<<dp[p], old[p]>>, k) = (IF dp[p] = k THEN 1 ELSE 0) + (IF old[p] = k THEN 1 ELSE 0)
    BY CopiesOfFew, ZenonT(40)
  <2> QED
    BY <1>1, <1>2, <1>7, <2>1 DEF One
<1>10. /\ <<dp[p], old[p]>> \in ShortSeq(Inode) /\ Live(Head(<<dp[p], old[p]>>))
       /\ Live(Head(Tail(<<dp[p], old[p]>>)))
  BY <1>1, <1>2, Shorts DEF PointersLive
<1>11. TableTypes /\ LocksMove(p) /\ LinksStay(p)
  <2>1. valid' \in [Inode -> BOOLEAN] /\ locker' \in [Inode -> Worker \cup {None}] /\ LocksMove(p)
    BY TableStays
  <2> QED
    BY <1>1, <1>5, <1>7, <2>1 DEF TableTypes, InodeTypes, LinksStay
<1> QED
  BY <1>6, <1>7, <1>8, <1>9, <1>10, <1>11, LeaveStep

-----------------------------------------------------------------------------
(* Counts of links that change.                                            *)

LEMMA OneLess ==
  ASSUME NEW S, NEW f \in [S -> Nat], NEW i \in S, NEW g, g = [f EXCEPT ![i] = @ - 1]
  PROVE  /\ (\A k \in S : g[k] \in Nat) => g \in [S -> Nat]
         /\ \A k \in S : g[k] = IF k = i THEN f[k] - 1 ELSE f[k]
OBVIOUS

TwoFewer(f, i, j, x) == [f EXCEPT ![i] = @ - 1, ![j] = @ - x]

LEMMA TwoLess ==
  ASSUME NEW S, NEW f \in [S -> Nat], NEW i \in S, NEW j \in S, i # j, NEW x \in Nat,
         NEW g, g = TwoFewer(f, i, j, x)
  PROVE  /\ (\A k \in S : g[k] \in Nat) => g \in [S -> Nat]
         /\ \A k \in S : g[k] = IF k = j THEN f[k] - x ELSE IF k = i THEN f[k] - 1 ELSE f[k]
<1>1. PICK h : h = [f EXCEPT ![i] = f[i] - 1]
  OBVIOUS
<1>2. DOMAIN h = S /\ \A k \in S : h[k] = IF k = i THEN f[k] - 1 ELSE f[k]
  BY <1>1
<1>3. g = [h EXCEPT ![j] = h[j] - x]
  BY <1>1, Zenon DEF TwoFewer
<1> QED
  BY <1>2, <1>3

LEMMA OneMore ==
  ASSUME NEW S, NEW f \in [S -> Nat], NEW i \in S, NEW j \in S, i # j, NEW x \in Nat,
         NEW g, g = [f EXCEPT ![i] = 1, ![j] = @ + x]
  PROVE  /\ g \in [S -> Nat]
         /\ \A k \in S : g[k] = IF k = j THEN f[k] + x ELSE IF k = i THEN 1 ELSE f[k]
<1>1. PICK h : h = [f EXCEPT ![i] = 1]
  OBVIOUS
<1>2. h \in [S -> Nat] /\ \A k \in S : h[k] = IF k = i THEN 1 ELSE f[k]
  BY <1>1
<1>3. g = [h EXCEPT ![j] = h[j] + x]
  BY <1>1, Zenon
<1> QED
  BY <1>2, <1>3

LEMMA UnlinkCounts ==
  ASSUME NEW f \in [Inode -> Nat], NEW i \in Inode, NEW d \in Inode, i # d, NEW b \in BOOLEAN,
         NEW g, g = TwoFewer(f, i, d, IF b THEN 1 ELSE 0)
  PROVE  /\ (\A k \in Inode : g[k] \in Nat) => g \in [Inode -> Nat]
         /\ \A k \in Inode : g[k] = IF k = d THEN f[k] - (IF b THEN 1 ELSE 0)
                                     ELSE IF k = i THEN f[k] - 1 ELSE f[k]
<1>1. PICK x \in Nat : x = IF b THEN 1 ELSE 0
  OBVIOUS
<1>2. g = TwoFewer(f, i, d, x)
  BY <1>1
<1>3. /\ (\A k \in Inode : g[k] \in Nat) => g \in [Inode -> Nat]
      /\ \A k \in Inode : g[k] = IF k = d THEN f[k] - x ELSE IF k = i THEN f[k] - 1 ELSE f[k]
  BY <1>2, TwoLess
<1> QED
  BY <1>1, <1>3

\* unlink() takes the entry and the links it made.
LEMMA UnlinksStep ==
  ASSUME PartsAssumption, InodeInv, NEW p \in Worker, pc[p] = "unlinkIp",
         valid' = Inodes!Locked(valid, ip[p]), locker' = [locker EXCEPT ![dp[p]] = None],
         entries' = Inodes!DirLink(entries, dp[p], Head(path[p]), None),
         nlink' = TwoFewer(nlink, ip[p], dp[p], IF type[ip[p]] = "dir" THEN 1 ELSE 0),
         Inodes!Leave(p, <<dp[p], ip[p]>>, "user"),
         UNCHANGED <<type, ref, old, freeing, cwd, open>>
  PROVE  InodeInv'
<1>1. /\ InodeTypes /\ InodeCaller(p) /\ PointersLive(p) /\ NamesLive /\ Linked
      /\ type[Root] = "dir" /\ None \notin Inode /\ Root \in Inode
      /\ dp[p] \in Inode \cup {None} /\ ip[p] \in Inode \cup {None}
  BY InodesHere
<1>2. /\ ip[p] \in Inode /\ dp[p] \in Inode /\ ip[p] # dp[p] /\ puts[p] = <<>> /\ locker[dp[p]] = p
      /\ old[p] = None /\ path[p] # <<>> /\ type[dp[p]] = "dir"
      /\ entries[dp[p]][Head(path[p])] = ip[p]
  BY <1>1 DEF InodeCaller, Second, Fresh
<1>3. PICK d \in Inode, n \in Name, i \in Inode : d = dp[p] /\ n = Head(path[p]) /\ i = ip[p]
  BY <1>1, <1>2, HeadOfPath
<1>4. /\ entries' = Inodes!DirLink(entries, d, n, None) /\ entries[d][n] = i /\ i # d
      /\ locker[d] = p
  BY <1>2, <1>3
<1>15. /\ (\A k \in Inode : nlink'[k] \in Nat) => nlink' \in [Inode -> Nat]
       /\ \A k \in Inode : nlink'[k] = IF k = d THEN nlink[k] - (IF type[i] = "dir" THEN 1 ELSE 0)
                                        ELSE IF k = i THEN nlink[k] - 1 ELSE nlink[k]
  <2>1. PICK b \in BOOLEAN : b = (type[i] = "dir")
    OBVIOUS
  <2>2. nlink' = TwoFewer(nlink, i, d, IF b THEN 1 ELSE 0)
    BY <1>3, <2>1
  <2>3. nlink \in [Inode -> Nat]
    BY <1>1 DEF InodeTypes
  <2>4. /\ (\A k \in Inode : nlink'[k] \in Nat) => nlink' \in [Inode -> Nat]
        /\ \A k \in Inode : nlink'[k] = IF k = d THEN nlink[k] - (IF b THEN 1 ELSE 0)
                                         ELSE IF k = i THEN nlink[k] - 1 ELSE nlink[k]
    BY <1>4, <2>2, <2>3, UnlinkCounts
  <2> QED
    BY <2>1, <2>4
<1>5. EntrySet(d, n, None) /\ entries' \in [Inode -> [Inodes!AllNames -> Inodes!Pointer]]
  BY <1>4, EntryChanges
<1>6. NamesLive' /\ EntriesMove(p)
  BY <1>4, <1>5, NamesStayLive, EntrySetMoves
<1>7. old'[p] = None /\ StaySame(p)
  BY <1>2 DEF StaySame
<1>8. ASSUME NEW k \in Inode
      PROVE  /\ nlink[k] \in Nat
             /\ nlink'[k] = nlink[k] - One(k = i) - One(k = d /\ IsDir(i))
             /\ One(k = i) + One(k = d /\ IsDir(i)) <= nlink[k]
             /\ NNames(k)' + NSubDirs(k)' + NLinkers(k)' + One(k = Root) <= nlink'[k]
  <2>1. /\ NNames(k) \in Nat /\ NNames(k)' \in Nat
        /\ NNames(k)' + One(entries[d][n] = k) = NNames(k) + One(None = k)
    BY <1>5, NamesCount
  <2>2. /\ NSubDirs(k) \in Nat /\ NSubDirs(k)' \in Nat
        /\ NSubDirs(k)' + One(k = d /\ IsDir(entries[d][n])) = NSubDirs(k) + One(k = d /\ IsDir(None))
    BY <1>5, SubDirsCount
  <2>3. /\ NLinkers(k) \in Nat /\ NLinkers(k)' = NLinkers(k)
    BY LinksAreNat DEF NLinkers, Linkers
  <2>4. NNames(k) + NSubDirs(k) + NLinkers(k) + One(k = Root) <= nlink[k] /\ nlink[k] \in Nat
    BY <1>1 DEF Linked, InodeTypes
  <2>5. One(None = k) = 0 /\ One(k = d /\ IsDir(None)) = 0
    BY <1>1 DEF One, IsDir
  <2>6. PICK a \in Nat : a = One(entries[d][n] = k) /\ a = One(k = i)
    BY <1>4 DEF One
  <2>7. PICK b \in Nat : b = One(k = d /\ IsDir(entries[d][n])) /\ b = One(k = d /\ IsDir(i))
    BY <1>4 DEF One
  <2>8. PICK c \in Nat : c = One(k = Root)
    BY DEF One
  <2>9. NNames(k)' + a = NNames(k) /\ NSubDirs(k)' + b = NSubDirs(k)
    BY <2>1, <2>2, <2>5, <2>6, <2>7
  <2>10. nlink'[k] = nlink[k] - a - b
    <3>1. a = IF k = i THEN 1 ELSE 0
      BY <2>6 DEF One
    <3>2. b = IF k = d /\ type[i] = "dir" THEN 1 ELSE 0
      BY <1>1, <2>7 DEF One, IsDir
    <3>3. nlink'[k] = IF k = d THEN nlink[k] - (IF type[i] = "dir" THEN 1 ELSE 0)
                      ELSE IF k = i THEN nlink[k] - 1 ELSE nlink[k]
      BY <1>15
    <3> QED
      BY <1>4, <2>4, <3>1, <3>2, <3>3
  <2>11. NNames(k)' + NSubDirs(k)' + NLinkers(k)' + c <= nlink'[k] /\ a + b <= nlink[k]
    BY <2>1, <2>2, <2>3, <2>4, <2>8, <2>9, <2>10
  <2> QED
    BY <2>4, <2>6, <2>7, <2>8, <2>10, <2>11
<1>9. Linked'
  BY <1>8 DEF Linked
<1>10. nlink' \in [Inode -> Nat]
  <2>2. ASSUME NEW k \in Inode PROVE nlink'[k] \in Nat
    <3>1. PICK a \in Nat, b \in Nat : a = One(k = i) /\ b = One(k = d /\ IsDir(i))
      BY DEF One
    <3>2. nlink[k] \in Nat /\ nlink'[k] = nlink[k] - a - b /\ a + b <= nlink[k]
      BY <1>8, <3>1
    <3> QED
      BY <3>2
  <2> QED
    BY <1>15, <2>2
<1>11. Exchanged(p, <<dp[p], ip[p]>>)
  <2>1. ASSUME NEW k \in Inode PROVE Copies(<<dp[p], ip[p]>>, k) = One(ip[p] = k) + One(dp[p] = k)
    <3>1. Copies(<<dp[p], ip[p]>>, k) = (IF dp[p] = k THEN 1 ELSE 0) + (IF ip[p] = k THEN 1 ELSE 0)
      BY CopiesOfFew, ZenonT(40)
    <3> QED
      BY <3>1 DEF One
  <2>2. old'[p] = old[p] /\ cwd'[p] = cwd[p] /\ open'[p] = open[p]
    OBVIOUS
  <2> QED
    BY <2>1, <2>2, ExchangedIs
<1>12. /\ <<dp[p], ip[p]>> \in ShortSeq(Inode) /\ Live(Head(<<dp[p], ip[p]>>))
       /\ Live(Head(Tail(<<dp[p], ip[p]>>)))
  BY <1>1, <1>2, Shorts DEF PointersLive
<1>13. TableTypes /\ LocksMove(p) /\ LinksStay(p)
  <2>1. valid' \in [Inode -> BOOLEAN]
    BY TableStays
  <2>2. locker' \in [Inode -> Worker \cup {None}] /\ LocksMove(p)
    BY <1>1, <1>2 DEF InodeTypes, LocksMove
  <2>3. TableTypes
    BY <1>1, <1>5, <1>10, <2>1, <2>2 DEF TableTypes, InodeTypes
  <2>4. LinksStay(p)
    BY <1>3, <1>15 DEF LinksStay, Away
  <2> QED
    BY <2>2, <2>3, <2>4
<1> QED
  BY <1>2, <1>6, <1>7, <1>9, <1>11, <1>12, <1>13, LeaveStep

\* create() links the new inode.
LEMMA CreatesStep ==
  ASSUME PartsAssumption, InodeInv, NEW p \in Worker, pc[p] \in Fresh,
         valid' = Inodes!Locked(valid, ip[p]), locker' = [locker EXCEPT ![dp[p]] = None],
         nlink' = [nlink EXCEPT ![ip[p]] = 1, ![dp[p]] = @ + (IF pc[p] = "mkdirNew" THEN 1 ELSE 0)],
         entries' = Inodes!DirLink(IF pc[p] = "mkdirNew"
                                     THEN Inodes!DirLink(entries, ip[p], "..", dp[p]) ELSE entries,
                                   dp[p], Head(path[p]), ip[p]),
         \/ pc[p] = "mkdirNew" /\ Inodes!Leave(p, <<dp[p], ip[p]>>, "user") /\ UNCHANGED open
         \/ pc[p] # "mkdirNew" /\ Inodes!BecomeOpen(p, <<dp[p]>>),
         UNCHANGED <<type, ref, old, freeing, cwd>>
  PROVE  InodeInv'
<1>1. /\ InodeTypes /\ InodeCaller(p) /\ PointersLive(p) /\ NamesLive /\ Linked
      /\ type[Root] = "dir" /\ None \notin Inode /\ Root \in Inode /\ ".." \notin Name
      /\ dp[p] \in Inode \cup {None} /\ ip[p] \in Inode \cup {None}
      /\ open[p] \in Inode \cup {None} /\ cwd[p] \in Inode
  BY InodesHere, InodeFacts
<1>2. /\ ip[p] \in Inode /\ dp[p] \in Inode /\ ip[p] # dp[p] /\ puts[p] = <<>> /\ locker[dp[p]] = p
      /\ old[p] = None /\ path[p] # <<>> /\ type[dp[p]] = "dir" /\ nlink[ip[p]] = 0
      /\ entries[dp[p]][Head(path[p])] = None
      /\ type[ip[p]] = IF pc[p] = "mkdirNew" THEN "dir" ELSE "file"
      /\ pc[p] # "mkdirNew" => open[p] = None
  BY <1>1 DEF InodeCaller, Second, Fresh
<1>3. PICK d \in Inode, n \in Name, i \in Inode : d = dp[p] /\ n = Head(path[p]) /\ i = ip[p]
  BY <1>1, <1>2, HeadOfPath
<1>4. /\ entries[d][n] = None /\ i # d /\ nlink[i] = 0 /\ locker[d] = p /\ type[d] = "dir"
  BY <1>2, <1>3
<1>15. /\ nlink' \in [Inode -> Nat]
       /\ \A k \in Inode : nlink'[k] = IF k = d THEN nlink[k] + (IF type[i] = "dir" THEN 1 ELSE 0)
                                        ELSE IF k = i THEN 1 ELSE nlink[k]
  <2>1. PICK x \in Nat : x = IF pc[p] = "mkdirNew" THEN 1 ELSE 0
    OBVIOUS
  <2>2. nlink' = [nlink EXCEPT ![ip[p]] = 1, ![dp[p]] = @ + x]
    BY <2>1
  <2>3. nlink \in [Inode -> Nat]
    BY <1>1 DEF InodeTypes
  <2>4. /\ nlink' \in [Inode -> Nat]
        /\ \A k \in Inode : nlink'[k] = IF k = dp[p] THEN nlink[k] + x
                                         ELSE IF k = ip[p] THEN 1 ELSE nlink[k]
    BY <1>2, <2>2, <2>3, OneMore
  <2>5. x = IF type[i] = "dir" THEN 1 ELSE 0
    BY <1>2, <1>3, <2>1
  <2> QED
    BY <1>3, <2>4, <2>5
<1>5. EntrySet(d, n, i) /\ entries' \in [Inode -> [Inodes!AllNames -> Inodes!Pointer]]
  <2>1. PICK e : e = IF pc[p] = "mkdirNew" THEN Inodes!DirLink(entries, ip[p], "..", dp[p]) ELSE entries
    OBVIOUS
  <2>2. /\ e \in [Inode -> [Inodes!AllNames -> Inodes!Pointer]]
        /\ \A c \in Inode, m \in Name : e[c][m] = entries[c][m]
    <3>1. entries \in [Inode -> [Inodes!AllNames -> Inodes!Pointer]]
      BY <1>1 DEF InodeTypes
    <3>2. CASE pc[p] = "mkdirNew"
      <4>1. e = [entries EXCEPT ![i] = [entries[i] EXCEPT ![".."] = d]]
        BY <1>3, <2>1, <3>2 DEF Inodes!DirLink
      <4>2. /\ [entries[i] EXCEPT ![".."] = d] \in [Inodes!AllNames -> Inodes!Pointer]
            /\ \A m \in Name : [entries[i] EXCEPT ![".."] = d][m] = entries[i][m]
        BY <1>1, <3>1 DEF Inodes!Pointer, Inodes!AllNames
      <4> QED
        BY <3>1, <4>1, <4>2
    <3>3. CASE pc[p] # "mkdirNew"
      BY <2>1, <3>1, <3>3
    <3> QED
      BY <3>2, <3>3
  <2>3. entries' = [e EXCEPT ![d] = [e[d] EXCEPT ![n] = i]]
    BY <1>3, <2>1 DEF Inodes!DirLink
  <2>4. /\ [e[d] EXCEPT ![n] = i] \in [Inodes!AllNames -> Inodes!Pointer]
        /\ \A m \in Name : [e[d] EXCEPT ![n] = i][m] = IF m = n THEN i ELSE entries[d][m]
    BY <2>2 DEF Inodes!Pointer, Inodes!AllNames
  <2>5. entries' \in [Inode -> [Inodes!AllNames -> Inodes!Pointer]]
    BY <2>2, <2>3, <2>4, SMTT(30)
  <2>6. EntrySet(d, n, i)
    <3>1. ASSUME NEW c \in Inode, NEW m \in Name
          PROVE  entries'[c][m] = IF c = d /\ m = n THEN i ELSE entries[c][m]
      <4>1. CASE c = d
        <5>1. entries'[c] = [e[d] EXCEPT ![n] = i]
          BY <4>1, <2>2, <2>3
        <5> QED
          BY <4>1, <5>1, <2>4
      <4>2. CASE c # d
        <5>1. entries'[c] = e[c]
          BY <4>2, <2>2, <2>3
        <5> QED
          BY <4>2, <5>1, <2>2
      <4> QED
        BY <4>1, <4>2
    <3> QED
      BY <3>1, Zenon DEF EntrySet
  <2> QED
    BY <2>5, <2>6
<1>6. NamesLive' /\ EntriesMove(p)
  <2>1. type[i] # "free"
    BY <1>1, <1>2, <1>3 DEF PointersLive, Live
  <2> QED
    BY <1>4, <1>5, <2>1, NamesStayLive, EntrySetMoves
<1>7. old'[p] = None /\ old[p] = None
  BY <1>2
<1>9. Linked'
  <2> SUFFICES ASSUME NEW k \in Inode
               PROVE  NNames(k)' + NSubDirs(k)' + NLinkers(k)' + One(k = Root) <= nlink'[k]
    BY DEF Linked
  <2>1. /\ NNames(k) \in Nat /\ NNames(k)' \in Nat
        /\ NNames(k)' + One(entries[d][n] = k) = NNames(k) + One(i = k)
    BY <1>5, NamesCount
  <2>2. /\ NSubDirs(k) \in Nat /\ NSubDirs(k)' \in Nat
        /\ NSubDirs(k)' + One(k = d /\ IsDir(entries[d][n])) = NSubDirs(k) + One(k = d /\ IsDir(i))
    BY <1>5, SubDirsCount
  <2>3. /\ NLinkers(k) \in Nat /\ NLinkers(k)' = NLinkers(k)
    BY LinksAreNat DEF NLinkers, Linkers
  <2>4. NNames(k) + NSubDirs(k) + NLinkers(k) + One(k = Root) <= nlink[k] /\ nlink[k] \in Nat
    BY <1>1 DEF Linked, InodeTypes
  <2>5. One(entries[d][n] = k) = 0 /\ One(k = d /\ IsDir(entries[d][n])) = 0
    BY <1>1, <1>4 DEF One, IsDir
  <2>6. PICK a \in Nat : a = One(i = k)
    BY DEF One
  <2>7. PICK b \in Nat : b = One(k = d /\ IsDir(i))
    BY DEF One
  <2>8. PICK c \in Nat : c = One(k = Root)
    BY DEF One
  <2>9. NNames(k)' = NNames(k) + a /\ NSubDirs(k)' = NSubDirs(k) + b
    BY <2>1, <2>2, <2>5, <2>6, <2>7
  <2>10. nlink'[k] = nlink[k] + a + b
    <3>1. a = IF k = i THEN 1 ELSE 0
      BY <2>6 DEF One
    <3>2. b = IF k = d /\ type[i] = "dir" THEN 1 ELSE 0
      BY <1>1, <2>7 DEF One, IsDir
    <3>3. nlink'[k] = IF k = d THEN nlink[k] + (IF type[i] = "dir" THEN 1 ELSE 0)
                      ELSE IF k = i THEN 1 ELSE nlink[k]
      BY <1>15
    <3> QED
      BY <1>4, <2>4, <3>1, <3>2, <3>3
  <2> QED
    BY <2>1, <2>2, <2>3, <2>4, <2>8, <2>9, <2>10
<1>10. TableTypes \/ open' \notin [Worker -> Inodes!Pointer]
  <2>1. valid' \in [Inode -> BOOLEAN]
    BY TableStays
  <2>2. locker' \in [Inode -> Worker \cup {None}]
    BY <1>1, <1>2 DEF InodeTypes
  <2> QED
    BY <1>1, <1>5, <1>15, <2>1, <2>2 DEF TableTypes, InodeTypes
<1>11. LocksMove(p) /\ LinksStay(p)
  <2>1. LocksMove(p)
    BY <1>1, <1>2 DEF InodeTypes, LocksMove
  <2>2. LinksStay(p)
    BY <1>3, <1>15 DEF LinksStay, Away
  <2> QED
    BY <2>1, <2>2
<1>12. /\ <<dp[p], ip[p]>> \in ShortSeq(Inode) /\ Live(Head(<<dp[p], ip[p]>>))
       /\ Live(Head(Tail(<<dp[p], ip[p]>>)))
       /\ <<dp[p]>> \in ShortSeq(Inode) /\ Live(Head(<<dp[p]>>)) /\ Tail(<<dp[p]>>) = <<>>
       /\ <<dp[p]>> \o <<ip[p]>> = <<dp[p], ip[p]>>
  BY <1>1, <1>2, Shorts, ZenonT(40) DEF PointersLive
<1>13. CASE Inodes!Leave(p, <<dp[p], ip[p]>>, "user") /\ UNCHANGED open
  <2>1. open' \in [Worker -> Inodes!Pointer] /\ StaySame(p)
    BY <1>1, <1>13 DEF InodeTypes, StaySame
  <2>2. ASSUME NEW k \in Inode PROVE Copies(<<dp[p], ip[p]>>, k) = One(ip[p] = k) + One(dp[p] = k)
    <3>1. Copies(<<dp[p], ip[p]>>, k) = (IF dp[p] = k THEN 1 ELSE 0) + (IF ip[p] = k THEN 1 ELSE 0)
      BY CopiesOfFew
    <3> QED
      BY <3>1 DEF One
  <2>3. old'[p] = old[p] /\ cwd'[p] = cwd[p] /\ open'[p] = open[p]
    BY <1>13
  <2>4. Exchanged(p, <<dp[p], ip[p]>>)
    BY <2>2, <2>3, ExchangedIs
  <2> QED
    BY <1>2, <1>6, <1>7, <1>9, <1>10, <1>11, <1>12, <1>13, <2>1, <2>3, <2>4, LeaveStep
<1>14. CASE pc[p] # "mkdirNew" /\ open' = [open EXCEPT ![p] = ip[p]]
            /\ Inodes!Leave(p, <<dp[p]>>, "user")
  <2>1. open'[p] = ip[p] /\ open' \in [Worker -> Inodes!Pointer] /\ StaySame(p)
    BY <1>1, <1>2, <1>14 DEF InodeTypes, StaySame, Inodes!Pointer
  <2>2. Exchanged(p, <<dp[p]>>)
    <3> SUFFICES ASSUME NEW k \in Inode
                 PROVE  One(old'[p] = k) + One(cwd'[p] = k) + One(open'[p] = k) + Copies(<<dp[p]>>, k)
                          = One(ip[p] = k) + One(dp[p] = k) + One(old[p] = k) + One(cwd[p] = k)
                              + One(open[p] = k)
      BY DEF Exchanged
    <3>1. Copies(<<dp[p]>>, k) = IF dp[p] = k THEN 1 ELSE 0
      BY CopiesOfFew
    <3> QED
      BY <1>1, <1>2, <1>14, <2>1, <3>1 DEF One
  <2> QED
    BY <1>2, <1>6, <1>7, <1>9, <1>10, <1>11, <1>12, <1>14, <2>1, <2>2, LeaveStep
<1> QED
  BY <1>12, <1>13, <1>14 DEF Inodes!BecomeOpen

\* link() takes back the count of a file that it could not name.
LEMMA LinkUndoStep ==
  ASSUME PartsAssumption, InodeInv, NEW p \in Worker, Inodes!LinkUndo(p) PROVE InodeInv'
<1>1. /\ InodeTypes /\ InodeCaller(p) /\ PointersLive(p) /\ NamesLive /\ Linked
      /\ type[Root] = "dir" /\ None \notin Inode /\ Root \in Inode
      /\ old[p] \in Inode \cup {None}
  BY InodesHere
<1>2. /\ pc[p] = "linkUndo" /\ puts[p] = <<>> /\ valid' = Inodes!Locked(valid, old[p])
      /\ nlink' = [nlink EXCEPT ![old[p]] = @ - 1] /\ old' = [old EXCEPT ![p] = None]
      /\ Inodes!Leave(p, <<old[p]>>, "user")
      /\ UNCHANGED <<type, entries, ref, locker, freeing, cwd, open>>
  BY DEF Inodes!LinkUndo, Inodes!At
<1>3. ip[p] = None /\ dp[p] = None /\ old[p] \in Inode
  BY <1>1, <1>2 DEF InodeCaller
<1>4. old'[p] = None /\ old' \in [Worker -> Inodes!Pointer] /\ StaySame(p)
  BY <1>1, <1>2 DEF InodeTypes, Inodes!Pointer, StaySame
<1>5. NamesLive' /\ EntriesMove(p)
  BY <1>1, <1>2 DEF NamesLive, EntriesMove
<1>6. ASSUME NEW k \in Inode
      PROVE  /\ nlink'[k] \in Nat
             /\ NNames(k)' + NSubDirs(k)' + NLinkers(k)' + One(k = Root) <= nlink'[k]
  <2>1. NNames(k)' = NNames(k) /\ NSubDirs(k)' = NSubDirs(k)
    BY <1>2 DEF NNames, NamesOf, NSubDirs, SubDirs
  <2>2. NNames(k) \in Nat /\ NSubDirs(k) \in Nat
    BY LinksAreNat
  <2>3. /\ NLinkers(k) \in Nat /\ NLinkers(k)' \in Nat
        /\ NLinkers(k)' + One(old[p] = k) = NLinkers(k) + One(old'[p] = k)
    BY <1>4, LinkersCount
  <2>4. NNames(k) + NSubDirs(k) + NLinkers(k) + One(k = Root) <= nlink[k] /\ nlink[k] \in Nat
    BY <1>1 DEF Linked, InodeTypes
  <2>5. One(old'[p] = k) = 0
    BY <1>1, <1>4 DEF One
  <2>6. PICK a \in Nat : a = One(old[p] = k)
    BY DEF One
  <2>7. PICK c \in Nat : c = One(k = Root)
    BY DEF One
  <2>8. NLinkers(k)' + a = NLinkers(k)
    BY <2>3, <2>5, <2>6
  <2>9. nlink'[k] = nlink[k] - a
    <3>1. a = IF old[p] = k THEN 1 ELSE 0
      BY <2>6 DEF One
    <3> QED
      BY <1>1, <1>2, <2>4, <3>1 DEF InodeTypes
  <2> QED
    BY <2>1, <2>2, <2>3, <2>4, <2>7, <2>8, <2>9
<1>7. Linked'
  BY <1>6 DEF Linked
<1>8. nlink' \in [Inode -> Nat]
  <2>1. nlink \in [Inode -> Nat]
    BY <1>1 DEF InodeTypes
  <2>2. (\A k \in Inode : nlink'[k] \in Nat) => nlink' \in [Inode -> Nat]
    BY <1>2, <1>3, <2>1, OneLess
  <2> QED
    BY <1>6, <2>2
<1>9. Exchanged(p, <<old[p]>>)
  <2> SUFFICES ASSUME NEW k \in Inode
               PROVE  One(old'[p] = k) + One(cwd'[p] = k) + One(open'[p] = k) + Copies(<<old[p]>>, k)
                        = One(ip[p] = k) + One(dp[p] = k) + One(old[p] = k) + One(cwd[p] = k)
                            + One(open[p] = k)
    BY DEF Exchanged
  <2>1. Copies(<<old[p]>>, k) = IF old[p] = k THEN 1 ELSE 0
    BY CopiesOfFew
  <2> QED
    BY <1>1, <1>2, <1>3, <1>4, <2>1 DEF One
<1>10. <<old[p]>> \in ShortSeq(Inode) /\ Live(Head(<<old[p]>>)) /\ Tail(<<old[p]>>) = <<>>
  BY <1>1, <1>3, Shorts DEF PointersLive
<1>11. TableTypes /\ LocksMove(p) /\ LinksStay(p)
  <2>1. valid' \in [Inode -> BOOLEAN] /\ locker' \in [Inode -> Worker \cup {None}] /\ LocksMove(p)
    BY <1>2, TableStays
  <2>2. LinksStay(p)
    BY <1>1, <1>2, <1>3 DEF LinksStay, Away, InodeTypes
  <2> QED
    BY <1>1, <1>2, <1>4, <1>8, <2>1, <2>2 DEF TableTypes, InodeTypes
<1>12. cwd'[p] = cwd[p] /\ open'[p] = open[p]
  BY <1>2
<1> QED
  BY <1>2, <1>4, <1>5, <1>7, <1>9, <1>10, <1>11, <1>12, LeaveStep

-----------------------------------------------------------------------------
(* Calls that take a reference.                                            *)

Handed(p) ==
  \A i \in Inode : Copies(puts'[p], i) + One(dp'[p] = i) = One(ip[p] = i) + One(dp[p] = i)

LEMMA GotIs ==
  ASSUME InodeTypes, NEW j \in Inode, Inodes!Got(j)
  PROVE  /\ ref' \in [Inode -> Nat]
         /\ \A i \in Inode : ref[i] \in Nat /\ ref'[i] = IF i = j THEN ref[i] + 1 ELSE ref[i]
BY DEF InodeTypes, Inodes!Got

\* A step of p to an inode near it, on a disk it leaves alone.
LEMMA TakeStep ==
  ASSUME PartsAssumption, InodeInv, InodeTypes', NEW p \in Worker, puts[p] = <<>>,
         NEW j \in Inode, Near(p, j), Live(j), type[j] # "free", Inodes!Got(j),
         UNCHANGED <<type, nlink, entries, old, freeing, cwd, open>>,
         OthersStay(p), LocksMove(p), ip'[p] = j, dp'[p] \in {None, dp[p]}, Handed(p),
         InodeCaller(p)', puts'[p] # <<>> => Live(Head(puts'[p])) /\ Tail(puts'[p]) = <<>>
  PROVE  InodeInv'
<1>1. /\ InodeTypes /\ InodeCaller(p) /\ PointersLive(p) /\ None \notin Inode
      /\ freeing[p] = "no" /\ \A i : Copies(puts[p], i) = 0
  BY InodesHere
<1>2. /\ NamesLive' /\ Linked' /\ type'[Root] = "dir"
      /\ TypesMove(p) /\ EntriesMove(p) /\ \A i \in Inode : nlink'[i] = nlink[i]
  BY DiskStays
<1>3. \A i \in Inode : ref[i] \in Nat /\ ref'[i] = IF i = j THEN ref[i] + 1 ELSE ref[i]
  BY <1>1, GotIs
<1>4. \A i \in Inode : Away(p, i) => i # j
  BY NearIsNotAway
<1>5. Moves(p)
  <2>1. LinksMove(p)
    <3> SUFFICES ASSUME NEW i \in Inode, Away(p, i)
                 PROVE  nlink'[i] = nlink[i] /\ i \notin {ip'[p], dp'[p], cwd'[p]}
      BY DEF LinksMove
    <3>1. i \notin {None, dp[p], cwd[p], j}
      BY <1>1, <1>4 DEF Away
    <3> QED
      BY <1>2, <3>1
  <2>2. RefsMove(p)
    BY <1>3, <1>4 DEF RefsMove
  <2> QED
    BY <1>2, <2>1, <2>2 DEF Moves
<1>6. ASSUME NEW i \in Inode PROVE ref'[i] + Claims(p, i) = ref[i] + Claims(p, i)'
  <2>1. PICK a \in Nat, b \in Nat, c \in Nat, d \in Nat, e \in Nat :
          /\ a = One(ip[p] = i) /\ b = One(dp[p] = i) /\ c = One(old[p] = i)
          /\ d = One(cwd[p] = i) /\ e = One(open[p] = i)
    BY DEF One
  <2>2. PICK x \in Nat, y \in Nat : x = One(ip'[p] = i) /\ y = One(dp'[p] = i)
    BY DEF One
  <2>3. PICK m \in Nat : m = Copies(puts'[p], i)
    BY CopiesAreNat DEF InodeTypes
  <2>4. Claims(p, i) = a + b + c + d + e
    BY <1>1, <2>1, SMTT(30) DEF Claims
  <2>5. Claims(p, i)' = x + y + c + d + e + m
    BY <2>1, <2>2, <2>3 DEF Claims
  <2>6. m + y = a + b
    BY <2>1, <2>2, <2>3 DEF Handed
  <2>7. ref'[i] = ref[i] + x /\ ref[i] \in Nat
    <3>1. x = IF i = j THEN 1 ELSE 0
      BY <2>2 DEF One
    <3> QED
      BY <1>3, <3>1
  <2>8. PICK n \in Nat : n = ref[i] /\ ref'[i] = n + x
    BY <2>7
  <2>9. (n + x) + (a + b + c + d + e) = n + (x + y + c + d + e + m)
    BY <2>6, SMTT(30)
  <2> QED
    BY <2>4, <2>5, <2>8, <2>9
<1>7. InodePuts(p)'
  BY <1>1 DEF InodePuts
<1>8. PointersLive(p)'
  BY <1>1 DEF PointersLive, Live
<1> QED
  BY <1>2, <1>5, <1>6, <1>7, <1>8, StepKeepsInodes

\* namex() begins at a live inode that is near.
LEMMA StartIsNear ==
  ASSUME PartsAssumption, InodeInv, NEW p \in Worker, NEW s \in Paths
  PROVE  /\ Inodes!Start(p, s) \in Inode /\ Near(p, Inodes!Start(p, s))
         /\ Live(Inodes!Start(p, s)) /\ type[Inodes!Start(p, s)] # "free"
         /\ s.names \in Seq(Name)
<1>1. /\ PointersLive(p) /\ type[Root] = "dir" /\ Root \in Inode /\ None \notin Inode
      /\ cwd[p] \in Inode
  BY InodesHere
<1>2. s.names \in Seq(Name)
  BY DownAssumption
<1>3. CASE Inodes!Start(p, s) = Root
  BY <1>1, <1>2, <1>3 DEF Near, Live
<1>4. CASE Inodes!Start(p, s) = cwd[p]
  BY <1>1, <1>2, <1>4 DEF Near, Live, PointersLive
<1> QED
  BY <1>3, <1>4 DEF Inodes!Start

LEMMA BeginStep ==
  ASSUME PartsAssumption, InodeInv, NEW p \in Worker, NEW c \in Inodes!Calls, Inodes!Begin(p, c)
  PROVE  InodeInv'
<1>1. /\ InodeTypes /\ InodeCaller(p) /\ None \notin Inode
      /\ puts[p] = <<>> => \A i : Copies(puts[p], i) = 0
  BY InodesHere
<1>2. PICK s \in Paths :
        /\ pc[p] = "user" /\ puts[p] = <<>>
        /\ c \in {"open", "creat"} => open[p] = None
        /\ ip' = [ip EXCEPT ![p] = Inodes!Start(p, s)]
        /\ path' = [path EXCEPT ![p] = s.names]
        /\ Inodes!Got(Inodes!Start(p, s)) /\ pc' = [pc EXCEPT ![p] = c]
        /\ UNCHANGED <<type, nlink, entries, valid, locker, dp, old, puts, freeing, cwd, open>>
  BY DEF Inodes!Begin, Inodes!At, Inodes!Goto, Inodes!disk
<1>3. PICK j \in Inode : j = Inodes!Start(p, s) /\ Near(p, j) /\ Live(j) /\ type[j] # "free"
  BY StartIsNear
<1>4. s.names \in Seq(Name)
  BY StartIsNear
<1>5. ip[p] = None /\ dp[p] = None /\ old[p] = None
  BY <1>1, <1>2 DEF InodeCaller
<1>6. ip'[p] = j /\ pc'[p] = c /\ OthersStay(p) /\ Inodes!Got(j)
  BY <1>1, <1>2, <1>3 DEF InodeTypes, OthersStay
<1>7. InodeTypes'
  <2>1. ref' \in [Inode -> Nat]
    BY <1>1, <1>6, GotIs
  <2>2. /\ ip' \in [Worker -> Inodes!Pointer] /\ path' \in [Worker -> Seq(Name)]
        /\ pc' \in [Worker -> Inodes!Labels]
    BY <1>1, <1>2, <1>3, <1>4 DEF InodeTypes, Inodes!Pointer, Inodes!Labels
  <2> QED
    BY <1>1, <1>2, <2>1, <2>2 DEF InodeTypes
<1>8. LocksMove(p)
  BY <1>2 DEF LocksMove
<1>9. Handed(p)
  <2> SUFFICES ASSUME NEW i \in Inode
               PROVE  Copies(puts'[p], i) + One(dp'[p] = i) = One(ip[p] = i) + One(dp[p] = i)
    BY DEF Handed
  <2>1. Copies(puts'[p], i) = 0 /\ dp'[p] = dp[p]
    BY <1>1, <1>2
  <2> QED
    BY <1>1, <1>5, <2>1 DEF One
<1>10. InodeCaller(p)'
  BY <1>1, <1>2, <1>3, <1>5, <1>6, SMTT(30) DEF InodeCaller, Inodes!Calls, Second, Fresh
<1> QED
  BY <1>2, <1>3, <1>6, <1>7, <1>8, <1>9, <1>10, TakeStep

\* A turn of namex()'s loop that goes on with the next name.
LEMMA WalkOnStep ==
  ASSUME PartsAssumption, InodeInv, NEW p \in Worker, puts[p] = <<>>, ip[p] # None,
         pc[p] \in Inodes!Calls \cup {"linkNew"}, path[p] # <<>>, type[ip[p]] = "dir",
         entries[ip[p]][Head(path[p])] # None, valid' = Inodes!Locked(valid, ip[p]),
         Inodes!Got(entries[ip[p]][Head(path[p])]),
         puts' = [puts EXCEPT ![p] = <<ip[p]>>],
         ip' = [ip EXCEPT ![p] = entries[ip[p]][Head(path[p])]],
         path' = [path EXCEPT ![p] = Tail(@)],
         UNCHANGED <<type, nlink, entries, locker, pc, dp, old, freeing, cwd, open>>
  PROVE  InodeInv'
<1>1. /\ InodeTypes /\ InodeCaller(p) /\ PointersLive(p) /\ NamesLive /\ None \notin Inode
      /\ ip[p] \in Inode
  BY InodesHere
<1>2. Head(path[p]) \in Name /\ Tail(path[p]) \in Seq(Name)
  BY <1>1, HeadOfPath
<1>3. PICK j \in Inode : j = entries[ip[p]][Head(path[p])] /\ type[j] # "free" /\ Named(j)
  <2>1. entries[ip[p]][Head(path[p])] \in Inode
    BY <1>1, <1>2, SMTT(30) DEF InodeTypes, Inodes!AllNames, Inodes!Pointer
  <2> QED
    BY <1>1, <1>2, <2>1 DEF NamesLive, Named
<1>4. Near(p, j) /\ Live(j) /\ Inodes!Got(j)
  BY <1>3 DEF Near, Live
<1>5. dp[p] = None
  BY <1>1 DEF InodeCaller
<1>6. ip'[p] = j /\ puts'[p] = <<ip[p]>> /\ OthersStay(p)
  BY <1>1, <1>3 DEF InodeTypes, OthersStay
<1>7. valid' \in [Inode -> BOOLEAN] /\ LocksMove(p)
  BY TableStays
<1>8. <<ip[p]>> \in ShortSeq(Inode) /\ Live(Head(<<ip[p]>>)) /\ Tail(<<ip[p]>>) = <<>>
  BY <1>1, Shorts DEF PointersLive
<1>9. InodeTypes'
  <2>1. ref' \in [Inode -> Nat]
    BY <1>1, <1>4, GotIs
  <2>2. ip' \in [Worker -> Inodes!Pointer] /\ puts' \in [Worker -> ShortSeq(Inode)]
    BY <1>1, <1>3, <1>8 DEF InodeTypes, Inodes!Pointer
  <2>3. path' \in [Worker -> Seq(Name)]
    BY <1>1, <1>2 DEF InodeTypes
  <2> QED
    BY <1>1, <1>7, <2>1, <2>2, <2>3 DEF InodeTypes
<1>10. Handed(p)
  <2> SUFFICES ASSUME NEW i \in Inode
               PROVE  Copies(puts'[p], i) + One(dp'[p] = i) = One(ip[p] = i) + One(dp[p] = i)
    BY DEF Handed
  <2>1. Copies(<<ip[p]>>, i) = IF ip[p] = i THEN 1 ELSE 0
    BY CopiesOfFew
  <2> QED
    BY <1>1, <1>5, <1>6, <2>1 DEF One
<1>11. InodeCaller(p)'
  BY <1>1, <1>3, <1>5, <1>6, Zenon DEF InodeCaller, Inodes!Calls, Second, Fresh
<1>12. puts'[p] # <<>> => Live(Head(puts'[p])) /\ Tail(puts'[p]) = <<>>
  BY <1>6, <1>8
<1>13. dp'[p] \in {None, dp[p]}
  OBVIOUS
<1> QED
  BY <1>3, <1>4, <1>6, <1>7, <1>9, <1>10, <1>11, <1>12, <1>13, TakeStep, ZenonT(40)

\* nameiparent() has reached the parent.
LEMMA WalkParentStep ==
  ASSUME PartsAssumption, InodeInv, NEW p \in Worker, puts[p] = <<>>, ip[p] # None,
         pc[p] \in Inodes!Calls \cup {"linkNew"}, path[p] # <<>>, type[ip[p]] = "dir",
         valid' = Inodes!Locked(valid, ip[p]),
         dp' = [dp EXCEPT ![p] = ip[p]], ip' = [ip EXCEPT ![p] = None],
         UNCHANGED <<type, nlink, entries, ref, locker, pc, path, old, puts, freeing, cwd, open>>
  PROVE  InodeInv'
<1>1. /\ InodeTypes /\ InodeCaller(p) /\ PointersLive(p) /\ None \notin Inode
      /\ ip[p] \in Inode /\ freeing[p] = "no"
  BY InodesHere
<1>2. dp[p] = None
  BY <1>1 DEF InodeCaller
<1>3. dp'[p] = ip[p] /\ ip'[p] = None /\ OthersStay(p)
  BY <1>1 DEF InodeTypes, OthersStay
<1>4. valid' \in [Inode -> BOOLEAN] /\ LocksMove(p)
  BY TableStays
<1>5. InodeTypes'
  <2>1. dp' \in [Worker -> Inodes!Pointer] /\ ip' \in [Worker -> Inodes!Pointer]
    BY <1>1 DEF InodeTypes, Inodes!Pointer
  <2> QED
    BY <1>1, <1>4, <2>1 DEF InodeTypes
<1>6. /\ NamesLive' /\ Linked' /\ type'[Root] = "dir"
      /\ TypesMove(p) /\ EntriesMove(p) /\ \A i \in Inode : nlink'[i] = nlink[i]
  BY DiskStays
<1>7. Moves(p)
  <2>1. LinksMove(p) /\ RefsMove(p)
    BY <1>1, <1>3, <1>6 DEF LinksMove, RefsMove, Away
  <2> QED
    BY <1>3, <1>4, <1>6, <2>1 DEF Moves
<1>8. ASSUME NEW i \in Inode PROVE ref'[i] + Claims(p, i) = ref[i] + Claims(p, i)'
  <2>1. One(ip[p] = i) = One(dp'[p] = i) /\ One(dp[p] = i) = One(ip'[p] = i)
    BY <1>2, <1>3 DEF One
  <2>2. PICK x \in Nat : x = Copies(puts[p], i)
    BY <1>1, ClaimsAreNat
  <2>3. PICK a \in Nat, b \in Nat : a = One(ip[p] = i) /\ b = One(dp[p] = i)
    BY DEF One
  <2>4. PICK c \in Nat, d \in Nat, e \in Nat :
          c = One(old[p] = i) /\ d = One(cwd[p] = i) /\ e = One(open[p] = i)
    BY DEF One
  <2>5. Claims(p, i) = a + b + c + d + e + x
    BY <2>2, <2>3, <2>4 DEF Claims
  <2>6. Claims(p, i)' = b + a + c + d + e + x
    BY <2>1, <2>2, <2>3, <2>4 DEF Claims
  <2>7. Claims(p, i)' = Claims(p, i)
    BY <2>5, <2>6
  <2> QED
    BY <2>7
<1>9. InodeCaller(p)'
  BY <1>1, <1>2, <1>3 DEF InodeCaller, Inodes!Calls, Second, Fresh
<1>10. InodePuts(p)' /\ PointersLive(p)'
  BY <1>1, <1>3 DEF InodePuts, PointersLive, Live
<1> QED
  BY <1>5, <1>6, <1>7, <1>8, <1>9, <1>10, StepKeepsInodes

LEMMA WalkStep ==
  ASSUME PartsAssumption, InodeInv, NEW p \in Worker, Inodes!Walk(p) PROVE InodeInv'
<1>1. /\ pc[p] \in Inodes!Calls \cup {"linkNew"} /\ puts[p] = <<>>
      /\ ip[p] # None /\ path[p] # <<>>
      /\ UNCHANGED <<type, nlink, entries, locker, old, freeing, cwd, open>>
  BY DEF Inodes!Walk, Inodes!disk
<1>2. CASE /\ valid' = Inodes!Locked(valid, ip[p])
           /\ Inodes!Leave(p, <<ip[p]>>, Inodes!WalkFailed(p))
           /\ UNCHANGED ref
  BY <1>1, <1>2, WalkFailsStep
<1>3. CASE /\ type[ip[p]] = "dir" /\ valid' = Inodes!Locked(valid, ip[p])
           /\ dp' = [dp EXCEPT ![p] = ip[p]] /\ ip' = [ip EXCEPT ![p] = None]
           /\ UNCHANGED <<ref, pc, path, puts>>
  BY <1>1, <1>3, WalkParentStep
<1>4. CASE /\ type[ip[p]] = "dir" /\ entries[ip[p]][Head(path[p])] # None
           /\ valid' = Inodes!Locked(valid, ip[p])
           /\ Inodes!Got(entries[ip[p]][Head(path[p])])
           /\ puts' = [puts EXCEPT ![p] = <<ip[p]>>]
           /\ ip' = [ip EXCEPT ![p] = entries[ip[p]][Head(path[p])]]
           /\ path' = [path EXCEPT ![p] = Tail(@)]
           /\ UNCHANGED <<pc, dp>>
  BY <1>1, <1>4, WalkOnStep
<1> QED
  BY <1>2, <1>3, <1>4 DEF Inodes!Walk

\* The name is there: create() takes its inode and gives back the directory.
LEMMA CreateFindsStep ==
  ASSUME PartsAssumption, InodeInv, NEW p \in Worker, puts[p] = <<>>, dp[p] # None,
         pc[p] \in {"creat", "mkdir"}, entries[dp[p]][Head(path[p])] # None,
         valid' = Inodes!Locked(valid, dp[p]), Inodes!Got(entries[dp[p]][Head(path[p])]),
         ip' = [ip EXCEPT ![p] = entries[dp[p]][Head(path[p])]],
         puts' = [puts EXCEPT ![p] = <<dp[p]>>], dp' = [dp EXCEPT ![p] = None],
         path' = [path EXCEPT ![p] = <<>>],
         pc' = [pc EXCEPT ![p] = IF pc[p] = "mkdir" THEN "mkdirOld" ELSE "creatOld"],
         UNCHANGED <<type, nlink, entries, locker, old, freeing, cwd, open>>
  PROVE  InodeInv'
<1>1. /\ InodeTypes /\ InodeCaller(p) /\ PointersLive(p) /\ NamesLive /\ None \notin Inode
      /\ dp[p] \in Inode
  BY InodesHere
<1>2. ip[p] = None /\ old[p] = None /\ path[p] # <<>>
      /\ (pc[p] = "creat" => open[p] = None)
  BY <1>1 DEF InodeCaller, Inodes!Calls
<1>3. Head(path[p]) \in Name
  BY <1>1, <1>2, HeadOfPath
<1>4. PICK j \in Inode : j = entries[dp[p]][Head(path[p])] /\ type[j] # "free" /\ Named(j)
  <2>1. entries[dp[p]][Head(path[p])] \in Inode
    BY <1>1, <1>3, SMTT(30) DEF InodeTypes, Inodes!AllNames, Inodes!Pointer
  <2> QED
    BY <1>1, <1>3, <2>1 DEF NamesLive, Named
<1>5. Near(p, j) /\ Live(j) /\ Inodes!Got(j)
  BY <1>4 DEF Near, Live
<1>6. /\ ip'[p] = j /\ puts'[p] = <<dp[p]>> /\ dp'[p] = None /\ path'[p] = <<>> /\ OthersStay(p)
      /\ pc'[p] = IF pc[p] = "mkdir" THEN "mkdirOld" ELSE "creatOld"
  BY <1>1, <1>4 DEF InodeTypes, OthersStay
<1>7. valid' \in [Inode -> BOOLEAN] /\ LocksMove(p)
  BY TableStays
<1>8. <<dp[p]>> \in ShortSeq(Inode) /\ Live(Head(<<dp[p]>>)) /\ Tail(<<dp[p]>>) = <<>>
  BY <1>1, Shorts DEF PointersLive
<1>9. InodeTypes'
  <2>1. ref' \in [Inode -> Nat]
    BY <1>1, <1>5, GotIs
  <2>2. /\ ip' \in [Worker -> Inodes!Pointer] /\ dp' \in [Worker -> Inodes!Pointer]
        /\ puts' \in [Worker -> ShortSeq(Inode)]
    BY <1>1, <1>4, <1>8 DEF InodeTypes, Inodes!Pointer
  <2>3. path' \in [Worker -> Seq(Name)] /\ pc' \in [Worker -> Inodes!Labels]
    BY <1>1 DEF InodeTypes, Inodes!Labels
  <2> QED
    BY <1>1, <1>7, <2>1, <2>2, <2>3 DEF InodeTypes
<1>10. Handed(p)
  <2> SUFFICES ASSUME NEW i \in Inode
               PROVE  Copies(puts'[p], i) + One(dp'[p] = i) = One(ip[p] = i) + One(dp[p] = i)
    BY DEF Handed
  <2>1. Copies(<<dp[p]>>, i) = IF dp[p] = i THEN 1 ELSE 0
    BY CopiesOfFew
  <2> QED
    BY <1>1, <1>2, <1>6, <2>1 DEF One
<1>11. InodeCaller(p)'
  <2>1. old'[p] = None /\ ip'[p] # None /\ dp'[p] = None
    BY <1>1, <1>2, <1>6
  <2>2. pc'[p] = "mkdirOld" \/ (pc'[p] = "creatOld" /\ open'[p] = None)
    BY <1>2, <1>6
  <2> QED
    BY <2>1, <2>2, Zenon DEF InodeCaller, Inodes!Calls, Second, Fresh
<1>12. puts'[p] # <<>> => Live(Head(puts'[p])) /\ Tail(puts'[p]) = <<>>
  BY <1>6, <1>8, SMTT(30)
<1> QED
  BY <1>4, <1>5, <1>6, <1>7, <1>9, <1>10, <1>11, <1>12, TakeStep, ZenonT(40)

\* unlink() has found the name and keeps the directory locked.
LEMMA UnlinkFindsStep ==
  ASSUME PartsAssumption, InodeInv, NEW p \in Worker, puts[p] = <<>>, dp[p] # None,
         pc[p] = "unlink", entries[dp[p]][Head(path[p])] # None, locker[dp[p]] = None,
         valid' = Inodes!Locked(valid, dp[p]), Inodes!Got(entries[dp[p]][Head(path[p])]),
         ip' = [ip EXCEPT ![p] = entries[dp[p]][Head(path[p])]],
         locker' = [locker EXCEPT ![dp[p]] = p], pc' = [pc EXCEPT ![p] = "unlinkIp"],
         UNCHANGED <<type, nlink, entries, path, dp, puts, old, freeing, cwd, open>>
  PROVE  InodeInv'
<1>1. /\ InodeTypes /\ InodeCaller(p) /\ PointersLive(p) /\ NamesLive /\ None \notin Inode
      /\ dp[p] \in Inode
  BY InodesHere
<1>13. \A i : Copies(puts[p], i) = 0
  BY CopiesOfFew
<1>2. ip[p] = None /\ old[p] = None /\ path[p] # <<>> /\ type[dp[p]] = "dir"
  BY <1>1 DEF InodeCaller, Inodes!Calls
<1>3. Head(path[p]) \in Name
  BY <1>1, <1>2, HeadOfPath
<1>4. PICK j \in Inode : /\ j = entries[dp[p]][Head(path[p])] /\ type[j] # "free" /\ Named(j)
                         /\ j # dp[p]
  <2>1. entries[dp[p]][Head(path[p])] \in Inode
    BY <1>1, <1>3 DEF InodeTypes, Inodes!AllNames, Inodes!Pointer
  <2> QED
    BY <1>1, <1>3, <2>1 DEF NamesLive, Named
<1>5. Near(p, j) /\ Live(j) /\ Inodes!Got(j)
  BY <1>4 DEF Near, Live
<1>6. /\ ip'[p] = j /\ pc'[p] = "unlinkIp" /\ OthersStay(p) /\ locker'[dp[p]] = p
  BY <1>1, <1>4 DEF InodeTypes, OthersStay
<1>7. /\ valid' \in [Inode -> BOOLEAN] /\ locker' \in [Inode -> Worker \cup {None}] /\ LocksMove(p)
  <2>1. valid' \in [Inode -> BOOLEAN]
    BY TableStays
  <2> QED
    BY <1>1, <2>1 DEF InodeTypes, LocksMove
<1>9. InodeTypes'
  <2>1. ref' \in [Inode -> Nat]
    BY <1>1, <1>5, GotIs
  <2>2. ip' \in [Worker -> Inodes!Pointer] /\ pc' \in [Worker -> Inodes!Labels]
    BY <1>1, <1>4 DEF InodeTypes, Inodes!Pointer, Inodes!Labels
  <2> QED
    BY <1>1, <1>7, <2>1, <2>2 DEF InodeTypes
<1>10. Handed(p)
  <2> SUFFICES ASSUME NEW i \in Inode
               PROVE  Copies(puts'[p], i) + One(dp'[p] = i) = One(ip[p] = i) + One(dp[p] = i)
    BY DEF Handed
  <2>1. Copies(puts'[p], i) = 0 /\ dp'[p] = dp[p]
    BY <1>13, SMTT(30)
  <2> QED
    BY <1>1, <1>2, <2>1 DEF One
<1>11. InodeCaller(p)'
  BY <1>1, <1>2, <1>4, <1>6, ZenonT(40) DEF InodeCaller, Inodes!Calls, Second, Fresh
<1> QED
  BY <1>4, <1>5, <1>6, <1>7, <1>9, <1>10, <1>11, TakeStep, ZenonT(40)

\* ialloc() has given create() a new inode.
LEMMA CreateAllocStep ==
  ASSUME PartsAssumption, InodeInv, NEW p \in Worker, puts[p] = <<>>, dp[p] # None,
         pc[p] \in {"creat", "mkdir"}, entries[dp[p]][Head(path[p])] = None,
         locker[dp[p]] = None, NEW j \in Inode, type[j] = "free",
         valid' = Inodes!Locked(valid, dp[p]), Inodes!Got(j),
         type' = [type EXCEPT ![j] = IF pc[p] = "mkdir" THEN "dir" ELSE "file"],
         nlink' = [nlink EXCEPT ![j] = 0], ip' = [ip EXCEPT ![p] = j],
         locker' = [locker EXCEPT ![dp[p]] = p],
         pc' = [pc EXCEPT ![p] = IF pc[p] = "mkdir" THEN "mkdirNew" ELSE "creatNew"],
         UNCHANGED <<entries, path, dp, puts, old, freeing, cwd, open>>
  PROVE  InodeInv'
<1>1. /\ InodeTypes /\ InodeCaller(p) /\ PointersLive(p) /\ NamesLive /\ Linked
      /\ None \notin Inode /\ dp[p] \in Inode /\ type[Root] = "dir" /\ Root \in Inode
      /\ freeing[p] = "no"
  BY InodesHere
<1>2. /\ ip[p] = None /\ old[p] = None /\ path[p] # <<>> /\ type[dp[p]] = "dir"
      /\ pc[p] = "creat" => open[p] = None
  BY <1>1 DEF InodeCaller, Inodes!Calls
<1>3. Head(path[p]) \in Name
  BY <1>1, <1>2, HeadOfPath
<1>4. /\ ip'[p] = j /\ OthersStay(p) /\ locker'[dp[p]] = p
      /\ pc'[p] = IF pc[p] = "mkdir" THEN "mkdirNew" ELSE "creatNew"
  BY <1>1 DEF InodeTypes, OthersStay
<1>5. /\ \A i \in Inode : type'[i] = IF i # j THEN type[i]
                                     ELSE IF pc[p] = "mkdir" THEN "dir" ELSE "file"
      /\ \A i \in Inode : nlink'[i] = IF i = j THEN 0 ELSE nlink[i]
  BY <1>1 DEF InodeTypes
<1>6. \A i \in Inode : ref[i] \in Nat /\ ref'[i] = IF i = j THEN ref[i] + 1 ELSE ref[i]
  BY <1>1, GotIs
<1>7. InodeTypes'
  <2>1. ref' \in [Inode -> Nat]
    BY <1>1, GotIs
  <2>2. ip' \in [Worker -> Inodes!Pointer] /\ pc' \in [Worker -> Inodes!Labels]
    BY <1>1 DEF InodeTypes, Inodes!Pointer, Inodes!Labels
  <2>3. valid' \in [Inode -> BOOLEAN]
    BY TableStays
  <2>4. /\ type' \in [Inode -> {"free", "file", "dir"}] /\ nlink' \in [Inode -> Nat]
        /\ locker' \in [Inode -> Worker \cup {None}]
    BY <1>1 DEF InodeTypes
  <2> QED
    BY <1>1, <2>1, <2>2, <2>3, <2>4 DEF InodeTypes
<1>8. Moves(p)
  <2>1. TypesMove(p) /\ EntriesMove(p)
    BY <1>5 DEF TypesMove, EntriesMove
  <2>2. LocksMove(p)
    BY <1>1 DEF LocksMove, InodeTypes
  <2>3. LinksMove(p)
    <3> SUFFICES ASSUME NEW i \in Inode, Away(p, i)
                 PROVE  nlink'[i] = nlink[i] /\ i \notin {ip'[p], dp'[p], cwd'[p]}
      BY DEF LinksMove
    <3>1. i \notin {dp[p], cwd[p], j}
      BY DEF Away
    <3> QED
      BY <1>4, <1>5, <3>1
  <2>4. RefsMove(p)
    BY <1>6 DEF RefsMove, Away
  <2> QED
    BY <1>4, <2>1, <2>2, <2>3, <2>4 DEF Moves
<1>9. ASSUME NEW i \in Inode PROVE ref'[i] + Claims(p, i) = ref[i] + Claims(p, i)'
  <2>1. PICK x \in Nat : x = Copies(puts[p], i)
    BY <1>1, ClaimsAreNat
  <2>2. PICK b \in Nat, c \in Nat, d \in Nat, e \in Nat :
          /\ b = One(dp[p] = i) /\ c = One(old[p] = i) /\ d = One(cwd[p] = i) /\ e = One(open[p] = i)
    BY DEF One
  <2>3. One(ip[p] = i) = 0
    BY <1>1, <1>2 DEF One
  <2>4. PICK y \in Nat : y = One(ip'[p] = i)
    BY DEF One
  <2>5. Claims(p, i) = b + c + d + e + x
    BY <2>1, <2>2, <2>3 DEF Claims
  <2>6. Claims(p, i)' = y + b + c + d + e + x
    BY <2>1, <2>2, <2>4 DEF Claims
  <2>7. y = IF i = j THEN 1 ELSE 0
    BY <1>4, <2>4 DEF One
  <2>8. PICK n \in Nat : n = ref[i] /\ ref'[i] = n + y
    BY <1>6, <2>7
  <2>9. (n + y) + (b + c + d + e + x) = n + (y + b + c + d + e + x)
    OBVIOUS
  <2> QED
    BY <2>5, <2>6, <2>8, <2>9, SMTT(30)
<1>10. ASSUME NEW q \in Worker
       PROVE  j \notin {ip[q], dp[q], old[q], cwd[q], open[q]}
  <2>1. PointersLive(q) /\ None \notin Inode
    BY InodesHere
  <2> QED
    BY <2>1 DEF PointersLive, Live
<1>11. InodeCaller(p)'
  <2>1. /\ pc'[p] \in Fresh /\ pc'[p] \in Second /\ pc'[p] # "unlinkIp"
        /\ pc'[p] = "mkdirNew" <=> pc[p] = "mkdir"
    BY <1>4 DEF Fresh, Second
  <2>2. dp[p] # j /\ type'[dp[p]] = "dir"
    BY <1>1, <1>2, <1>5, <1>10
  <2>3. \A q \in Worker \ {p} : j \notin {ip'[q], dp'[q], cwd'[q]}
    BY <1>4, <1>10 DEF OthersStay
  <2>4. /\ nlink'[j] = 0 /\ type'[j] = IF pc'[p] = "mkdirNew" THEN "dir" ELSE "file"
    BY <1>5, <2>1
  <2>5. /\ old'[p] # None <=> pc'[p] \in {"linkNew", "linkUndo"}
        /\ pc'[p] \in {"user", "linkUndo"} => ip'[p] = None /\ dp'[p] = None
        /\ pc'[p] \in {"creatOld", "mkdirOld"} => ip'[p] # None /\ dp'[p] = None
        /\ pc'[p] \in Inodes!Calls \cup {"linkNew"} => (ip'[p] = None <=> dp'[p] # None)
        /\ dp'[p] # None => type'[dp'[p]] = "dir" /\ path'[p] # <<>>
        /\ old'[p] # None => type'[old'[p]] # "dir"
        /\ pc'[p] \in {"open", "creat", "creatOld", "creatNew"} => open'[p] = None
    BY <1>2, <1>4, <2>2 DEF Inodes!Calls
  <2> QED
    BY <1>1, <1>4, <2>1, <2>2, <2>3, <2>4, <2>5, SMTT(30) DEF InodeCaller
<1>12. InodePuts(p)'
  BY <1>1 DEF InodePuts
<1>13. PointersLive(p)'
  <2>1. \A i \in Inode : type[i] # "free" => type'[i] # "free"
    BY <1>5
  <2>2. type'[j] # "free"
    BY <1>5
  <2>3. /\ dp[p] \in Inode \cup {None} /\ old[p] \in Inode \cup {None}
        /\ open[p] \in Inode \cup {None} /\ cwd[p] \in Inode
    BY InodesHere
  <2> QED
    BY <1>1, <1>4, <2>1, <2>2, <2>3 DEF PointersLive, Live
<1>14. ASSUME NEW d \in Inode, NEW n \in Name, entries[d][n] # None
       PROVE  /\ entries[d][n] \in Inode /\ entries[d][n] # j /\ d # j
              /\ type'[entries[d][n]] = type[entries[d][n]] /\ type'[d] = "dir"
  <2>1. entries[d][n] \in Inode
    BY <1>1, <1>14 DEF InodeTypes, Inodes!AllNames, Inodes!Pointer
  <2>2. type[d] = "dir" /\ type[entries[d][n]] # "free"
    BY <1>1, <1>14 DEF NamesLive
  <2> QED
    BY <1>5, <2>1, <2>2
<1>15. NamesLive'
  BY <1>1, <1>14 DEF NamesLive
<1>16. Linked'
  <2> SUFFICES ASSUME NEW k \in Inode
               PROVE  NNames(k)' + NSubDirs(k)' + NLinkers(k)' + One(k = Root) <= nlink'[k]
    BY DEF Linked
  <2>1. NNames(k)' = NNames(k) /\ NLinkers(k)' = NLinkers(k)
    BY DEF NNames, NamesOf, NLinkers, Linkers
  <2>2. NSubDirs(k)' = NSubDirs(k)
    <3>1. \A n \in Name : entries[k][n] # None => type'[entries[k][n]] = type[entries[k][n]]
      BY <1>14
    <3>2. SubDirs(k)' = SubDirs(k)
      BY <3>1 DEF SubDirs
    <3> QED
      BY <3>2 DEF NSubDirs
  <2>3. NNames(k) + NSubDirs(k) + NLinkers(k) + One(k = Root) <= nlink[k]
    BY <1>1 DEF Linked
  <2>4. CASE k # j
    <3>1. nlink'[k] = nlink[k]
      BY <1>5, <2>4
    <3> QED
      BY <2>1, <2>2, <2>3, <3>1
  <2>5. CASE k = j
    <3>1. NamesOf(j) = {}
      BY <1>14, <1>1 DEF NamesOf
    <3>2. SubDirs(j) = {}
      BY <1>14 DEF SubDirs
    <3>3. Linkers(j) = {}
      BY <1>10 DEF Linkers
    <3>4. NNames(j) = 0 /\ NSubDirs(j) = 0 /\ NLinkers(j) = 0
      BY <3>1, <3>2, <3>3, FS_EmptySet DEF NNames, NSubDirs, NLinkers
    <3>5. One(k = Root) = 0 /\ nlink'[k] = 0
      BY <1>1, <1>5, <2>5 DEF One
    <3> QED
      BY <2>1, <2>2, <2>5, <3>4, <3>5
  <2> QED
    BY <2>4, <2>5
<1>17. type'[Root] = "dir"
  BY <1>1, <1>5
<1> QED
  BY <1>7, <1>8, <1>9, <1>11, <1>12, <1>13, <1>15, <1>16, <1>17, StepKeepsInodes

\* link() has counted the link it is about to make.
LEMMA LinkCountsStep ==
  ASSUME PartsAssumption, InodeInv, NEW p \in Worker, puts[p] = <<>>, ip[p] # None,
         pc[p] = "link", type[ip[p]] # "dir", valid' = Inodes!Locked(valid, ip[p]),
         NEW s \in Paths, nlink' = [nlink EXCEPT ![ip[p]] = @ + 1],
         old' = [old EXCEPT ![p] = ip[p]], ip' = [ip EXCEPT ![p] = Inodes!Start(p, s)],
         path' = [path EXCEPT ![p] = s.names], Inodes!Got(Inodes!Start(p, s)),
         pc' = [pc EXCEPT ![p] = "linkNew"],
         UNCHANGED <<type, entries, locker, dp, puts, freeing, cwd, open>>
  PROVE  InodeInv'
<1>1. /\ InodeTypes /\ InodeCaller(p) /\ PointersLive(p) /\ NamesLive /\ Linked
      /\ None \notin Inode /\ ip[p] \in Inode /\ type[Root] = "dir" /\ freeing[p] = "no"
  BY InodesHere
<1>2. dp[p] = None /\ old[p] = None
  BY <1>1 DEF InodeCaller, Inodes!Calls
<1>3. PICK j \in Inode : j = Inodes!Start(p, s) /\ Near(p, j) /\ Live(j) /\ type[j] # "free"
  BY StartIsNear
<1>4. s.names \in Seq(Name)
  BY StartIsNear
<1>5. /\ ip'[p] = j /\ pc'[p] = "linkNew" /\ old'[p] = ip[p]
      /\ OthersStay(p) /\ StaySame(p) /\ Inodes!Got(j)
  BY <1>1, <1>3 DEF InodeTypes, OthersStay, StaySame
<1>6. \A i \in Inode : ref[i] \in Nat /\ ref'[i] = IF i = j THEN ref[i] + 1 ELSE ref[i]
  BY <1>1, <1>5, GotIs, SMTT(30)
<1>7. \A i \in Inode : nlink[i] \in Nat /\ nlink'[i] = IF i = ip[p] THEN nlink[i] + 1 ELSE nlink[i]
  BY <1>1 DEF InodeTypes
<1>8. valid' \in [Inode -> BOOLEAN] /\ LocksMove(p)
  BY <1>1, TableStays
<1>9. InodeTypes'
  <2>1. ref' \in [Inode -> Nat]
    BY <1>1, <1>5, GotIs
  <2>2. /\ ip' \in [Worker -> Inodes!Pointer] /\ path' \in [Worker -> Seq(Name)]
        /\ pc' \in [Worker -> Inodes!Labels] /\ old' \in [Worker -> Inodes!Pointer]
    BY <1>1, <1>3, <1>4 DEF InodeTypes, Inodes!Pointer, Inodes!Labels
  <2>3. nlink' \in [Inode -> Nat]
    BY <1>1 DEF InodeTypes
  <2> QED
    BY <1>1, <1>8, <2>1, <2>2, <2>3 DEF InodeTypes
<1>10. Moves(p)
  <2>1. TypesMove(p) /\ EntriesMove(p)
    BY DEF TypesMove, EntriesMove
  <2>2. \A i \in Inode : Away(p, i) => i # j
    BY <1>3, NearIsNotAway
  <2>3. LinksMove(p)
    <3> SUFFICES ASSUME NEW i \in Inode, Away(p, i)
                 PROVE  nlink'[i] = nlink[i] /\ i \notin {ip'[p], dp'[p], cwd'[p]}
      BY DEF LinksMove
    <3>1. i \notin {ip[p], dp[p], cwd[p], j}
      BY <2>2 DEF Away
    <3> QED
      BY <1>5, <1>7, <3>1
  <2>4. RefsMove(p)
    BY <1>6, <2>2 DEF RefsMove
  <2> QED
    BY <1>5, <1>8, <2>1, <2>3, <2>4 DEF Moves
<1>11. ASSUME NEW i \in Inode PROVE ref'[i] + Claims(p, i) = ref[i] + Claims(p, i)'
  <2>1. PICK x \in Nat : x = Copies(puts[p], i)
    BY <1>1, ClaimsAreNat
  <2>2. PICK a \in Nat, b \in Nat, d \in Nat, e \in Nat :
          a = One(ip[p] = i) /\ b = One(dp[p] = i) /\ d = One(cwd[p] = i) /\ e = One(open[p] = i)
    BY DEF One
  <2>3. One(old[p] = i) = 0 /\ One(old'[p] = i) = a
    BY <1>1, <1>2, <1>5, <2>2 DEF One
  <2>4. PICK y \in Nat : y = One(ip'[p] = i)
    BY DEF One
  <2>5. Claims(p, i) = a + b + d + e + x
    BY <2>1, <2>2, <2>3 DEF Claims
  <2>6. Claims(p, i)' = y + b + a + d + e + x
    BY <2>1, <2>2, <2>3, <2>4 DEF Claims
  <2>7. y = IF i = j THEN 1 ELSE 0
    BY <1>5, <2>4 DEF One
  <2>8. PICK n \in Nat : n = ref[i] /\ ref'[i] = n + y
    BY <1>6, <2>7
  <2>9. (n + y) + (a + b + d + e + x) = n + (y + b + a + d + e + x)
    OBVIOUS
  <2> QED
    BY <2>5, <2>6, <2>8, <2>9
<1>12. InodeCaller(p)'
  BY <1>1, <1>2, <1>3, <1>5 DEF InodeCaller, Inodes!Calls, Second, Fresh
<1>13. InodePuts(p)' /\ PointersLive(p)'
  BY <1>1, <1>3, <1>5 DEF InodePuts, PointersLive, Live
<1>14. NamesLive' /\ type'[Root] = "dir"
  BY <1>1 DEF NamesLive
<1>15. Linked'
  <2> SUFFICES ASSUME NEW k \in Inode
               PROVE  NNames(k)' + NSubDirs(k)' + NLinkers(k)' + One(k = Root) <= nlink'[k]
    BY DEF Linked
  <2>1. NNames(k)' = NNames(k) /\ NSubDirs(k)' = NSubDirs(k)
    BY DEF NNames, NamesOf, NSubDirs, SubDirs
  <2>2. /\ NLinkers(k) \in Nat /\ NLinkers(k)' \in Nat
        /\ NLinkers(k)' + One(old[p] = k) = NLinkers(k) + One(old'[p] = k)
    BY <1>5, LinkersCount
  <2>3. /\ One(old[p] = k) = 0 /\ One(old'[p] = k) = IF k = ip[p] THEN 1 ELSE 0
    BY <1>1, <1>2, <1>5 DEF One
  <2>4. PICK a \in Nat, b \in Nat, r \in Nat : a = NNames(k) /\ b = NSubDirs(k) /\ r = One(k = Root)
    BY LinksAreNat DEF One
  <2>5. a + b + NLinkers(k) + r <= nlink[k]
    BY <1>1, <2>4 DEF Linked
  <2>6. NLinkers(k)' = IF k = ip[p] THEN NLinkers(k) + 1 ELSE NLinkers(k)
    BY <2>2, <2>3
  <2>7. a + b + NLinkers(k)' + r <= nlink'[k]
    BY <1>7, <2>2, <2>5, <2>6
  <2> QED
    BY <2>1, <2>4, <2>7
<1> QED
  BY <1>9, <1>10, <1>11, <1>12, <1>13, <1>14, <1>15, StepKeepsInodes

-----------------------------------------------------------------------------
(* The calls that work in a directory.                                     *)

LEMMA CreateStep ==
  ASSUME PartsAssumption, InodeInv, NEW p \in Worker, NEW c \in {"creat", "mkdir"},
         Inodes!Create(p, c)
  PROVE  InodeInv'
<1>1. /\ pc[p] = c /\ puts[p] = <<>> /\ dp[p] # None /\ locker[dp[p]] = None
      /\ valid' = Inodes!Locked(valid, dp[p]) /\ UNCHANGED <<old, freeing, cwd, open>>
  BY DEF Inodes!Create, Inodes!AtDir, Inodes!At, Inodes!Lockable
<1>2. CASE /\ Inodes!Child(p) # None /\ Inodes!Got(Inodes!Child(p))
           /\ ip' = [ip EXCEPT ![p] = Inodes!Child(p)]
           /\ puts' = [puts EXCEPT ![p] = <<dp[p]>>] /\ dp' = [dp EXCEPT ![p] = None]
           /\ path' = [path EXCEPT ![p] = <<>>]
           /\ Inodes!Goto(p, IF c = "mkdir" THEN "mkdirOld" ELSE "creatOld")
           /\ UNCHANGED <<Inodes!disk, locker>>
  BY <1>1, <1>2, CreateFindsStep DEF Inodes!Child, Inodes!Last, Inodes!Goto, Inodes!disk
<1>3. CASE /\ Inodes!Leave(p, <<dp[p]>>, "user") /\ UNCHANGED <<Inodes!disk, ref, locker>>
  BY <1>1, <1>3, LeavesDirStep DEF Inodes!disk
<1>4. CASE \E i \in Inodes!FreeInodes :
             /\ Inodes!Child(p) = None
             /\ type' = [type EXCEPT ![i] = IF c = "mkdir" THEN "dir" ELSE "file"]
             /\ nlink' = [nlink EXCEPT ![i] = 0] /\ Inodes!Got(i)
             /\ ip' = [ip EXCEPT ![p] = i] /\ locker' = [locker EXCEPT ![dp[p]] = p]
             /\ Inodes!Goto(p, IF c = "mkdir" THEN "mkdirNew" ELSE "creatNew")
             /\ UNCHANGED <<entries, dp, path, puts>>
  <2>1. PICK j \in Inode :
          /\ type[j] = "free" /\ entries[dp[p]][Head(path[p])] = None
          /\ type' = [type EXCEPT ![j] = IF pc[p] = "mkdir" THEN "dir" ELSE "file"]
          /\ nlink' = [nlink EXCEPT ![j] = 0] /\ Inodes!Got(j)
          /\ ip' = [ip EXCEPT ![p] = j] /\ locker' = [locker EXCEPT ![dp[p]] = p]
          /\ pc' = [pc EXCEPT ![p] = IF pc[p] = "mkdir" THEN "mkdirNew" ELSE "creatNew"]
          /\ UNCHANGED <<entries, dp, path, puts>>
    BY <1>1, <1>4 DEF Inodes!FreeInodes, Inodes!Child, Inodes!Last, Inodes!Goto
  <2> QED
    BY <1>1, <2>1, CreateAllocStep
<1> QED
  BY <1>2, <1>3, <1>4 DEF Inodes!Create

LEMMA CreateNewStep ==
  ASSUME PartsAssumption, InodeInv, NEW p \in Worker, Inodes!CreateNew(p) PROVE InodeInv'
<1>1. /\ pc[p] \in Fresh /\ pc[p] \in Second
      /\ valid' = Inodes!Locked(valid, ip[p]) /\ locker' = [locker EXCEPT ![dp[p]] = None]
      /\ UNCHANGED <<type, ref, old, freeing, cwd>>
  BY DEF Inodes!CreateNew, Inodes!At, Fresh, Second
<1>2. CASE /\ nlink' = [nlink EXCEPT ![ip[p]] = 1,
                                     ![dp[p]] = @ + (IF pc[p] = "mkdirNew" THEN 1 ELSE 0)]
           /\ entries' = Inodes!DirLink(IF pc[p] = "mkdirNew"
                                          THEN Inodes!DirLink(entries, ip[p], "..", dp[p])
                                          ELSE entries,
                                        dp[p], Inodes!Last(p), ip[p])
           /\ IF pc[p] = "mkdirNew"
                THEN Inodes!Leave(p, <<dp[p], ip[p]>>, "user") /\ UNCHANGED open
                ELSE Inodes!BecomeOpen(p, <<dp[p]>>)
  <2>1. \/ pc[p] = "mkdirNew" /\ Inodes!Leave(p, <<dp[p], ip[p]>>, "user") /\ UNCHANGED open
        \/ pc[p] # "mkdirNew" /\ Inodes!BecomeOpen(p, <<dp[p]>>)
    BY <1>2
  <2>2. entries' = Inodes!DirLink(IF pc[p] = "mkdirNew"
                                    THEN Inodes!DirLink(entries, ip[p], "..", dp[p]) ELSE entries,
                                  dp[p], Head(path[p]), ip[p])
    BY <1>2 DEF Inodes!Last
  <2>3. nlink' = [nlink EXCEPT ![ip[p]] = 1, ![dp[p]] = @ + (IF pc[p] = "mkdirNew" THEN 1 ELSE 0)]
    BY <1>2
  <2> QED
    BY <1>1, <2>1, <2>2, <2>3, CreatesStep
<1>3. CASE Inodes!Leave(p, <<ip[p], dp[p]>>, "user") /\ UNCHANGED <<nlink, entries, open>>
  BY <1>1, <1>3, LeavesBothStep
<1> QED
  BY <1>2, <1>3 DEF Inodes!CreateNew

LEMMA UnlinkStep ==
  ASSUME PartsAssumption, InodeInv, NEW p \in Worker, Inodes!Unlink(p) PROVE InodeInv'
<1>1. /\ pc[p] = "unlink" /\ puts[p] = <<>> /\ dp[p] # None /\ locker[dp[p]] = None
      /\ valid' = Inodes!Locked(valid, dp[p])
      /\ UNCHANGED <<type, nlink, entries, old, freeing, cwd, open>>
  BY DEF Inodes!Unlink, Inodes!AtDir, Inodes!At, Inodes!Lockable, Inodes!disk
<1>2. CASE Inodes!Leave(p, <<dp[p]>>, "user") /\ UNCHANGED <<ref, locker>>
  BY <1>1, <1>2, LeavesDirStep, SMTT(30)
<1>3. CASE /\ Inodes!Child(p) # None /\ Inodes!Got(Inodes!Child(p))
           /\ ip' = [ip EXCEPT ![p] = Inodes!Child(p)] /\ locker' = [locker EXCEPT ![dp[p]] = p]
           /\ Inodes!Goto(p, "unlinkIp") /\ UNCHANGED <<path, dp, puts>>
  BY <1>1, <1>3, UnlinkFindsStep DEF Inodes!Child, Inodes!Last, Inodes!Goto
<1> QED
  BY <1>2, <1>3 DEF Inodes!Unlink

LEMMA UnlinkIpStep ==
  ASSUME PartsAssumption, InodeInv, NEW p \in Worker, Inodes!UnlinkIp(p) PROVE InodeInv'
<1>1. /\ pc[p] = "unlinkIp" /\ pc[p] \in Second
      /\ valid' = Inodes!Locked(valid, ip[p]) /\ locker' = [locker EXCEPT ![dp[p]] = None]
      /\ UNCHANGED <<type, ref, old, freeing, cwd, open>>
  BY DEF Inodes!UnlinkIp, Inodes!At, Second
<1>2. CASE Inodes!Leave(p, <<ip[p], dp[p]>>, "user") /\ UNCHANGED <<nlink, entries>>
  BY <1>1, <1>2, LeavesBothStep
<1>3. CASE /\ entries' = [entries EXCEPT ![dp[p]][Inodes!Last(p)] = None]
           /\ nlink' = [nlink EXCEPT ![ip[p]] = @ - 1,
                                     ![dp[p]] = @ - (IF type[ip[p]] = "dir" THEN 1 ELSE 0)]
           /\ Inodes!Leave(p, <<dp[p], ip[p]>>, "user")
  <2>1. entries' = Inodes!DirLink(entries, dp[p], Head(path[p]), None)
    BY <1>3 DEF Inodes!DirLink, Inodes!Last
  <2>2. nlink' = TwoFewer(nlink, ip[p], dp[p], IF type[ip[p]] = "dir" THEN 1 ELSE 0)
    BY <1>3, Zenon DEF TwoFewer
  <2>3. Inodes!Leave(p, <<dp[p], ip[p]>>, "user")
    BY <1>3
  <2> QED
    BY <1>1, <2>1, <2>2, <2>3, UnlinksStep
<1> QED
  BY <1>2, <1>3, Zenon DEF Inodes!UnlinkIp

LEMMA LinkStep ==
  ASSUME PartsAssumption, InodeInv, NEW p \in Worker, Inodes!Link(p) PROVE InodeInv'
<1>1. /\ pc[p] = "link" /\ puts[p] = <<>> /\ ip[p] # None
      /\ valid' = Inodes!Locked(valid, ip[p])
      /\ UNCHANGED <<type, entries, locker, freeing, cwd, open>>
  BY DEF Inodes!Link, Inodes!AtInode, Inodes!At
<1>2. CASE Inodes!Leave(p, <<ip[p]>>, "user") /\ UNCHANGED <<nlink, ref, old>>
  BY <1>1, <1>2, LinkDirStep
<1>3. CASE \E s \in Paths :
             /\ type[ip[p]] # "dir" /\ nlink' = [nlink EXCEPT ![ip[p]] = @ + 1]
             /\ old' = [old EXCEPT ![p] = ip[p]] /\ ip' = [ip EXCEPT ![p] = Inodes!Start(p, s)]
             /\ path' = [path EXCEPT ![p] = s.names] /\ Inodes!Got(Inodes!Start(p, s))
             /\ Inodes!Goto(p, "linkNew") /\ UNCHANGED <<dp, puts>>
  BY <1>1, <1>3, LinkCountsStep DEF Inodes!Goto
<1> QED
  BY <1>2, <1>3 DEF Inodes!Link

LEMMA LinkNewStep ==
  ASSUME PartsAssumption, InodeInv, NEW p \in Worker, Inodes!LinkNew(p) PROVE InodeInv'
<1>1. /\ pc[p] = "linkNew" /\ puts[p] = <<>> /\ dp[p] # None /\ locker[dp[p]] = None
      /\ valid' = Inodes!Locked(valid, dp[p])
      /\ UNCHANGED <<type, nlink, ref, locker, freeing, cwd, open>>
  BY DEF Inodes!LinkNew, Inodes!AtDir, Inodes!At, Inodes!Lockable
<1>2. CASE /\ Inodes!Child(p) = None
           /\ entries' = Inodes!DirLink(entries, dp[p], Inodes!Last(p), old[p])
           /\ old' = [old EXCEPT ![p] = None] /\ Inodes!Leave(p, <<dp[p], old[p]>>, "user")
  BY <1>1, <1>2, LinkedToStep DEF Inodes!Child, Inodes!Last
<1>3. CASE Inodes!Leave(p, <<dp[p]>>, "linkUndo") /\ UNCHANGED <<entries, old>>
  BY <1>1, <1>3, LeavesDirStep
<1> QED
  BY <1>2, <1>3 DEF Inodes!LinkNew

-----------------------------------------------------------------------------
(* The first state, every step, and what the invariant says.               *)

LEMMA InodeCounts ==
  /\ \A S : Inodes!Cardinality(S) = Cardinality(S)
  /\ \A f, S : Inodes!Total(f, S) = Total(f, S)
BY DEF Inodes!Total, Total, Inodes!Things, Things, Inodes!Cardinality, Cardinality,
       Inodes!IsFiniteSet, IsFiniteSet

LEMMA TotalOfOnes ==
  ASSUME NEW S, IsFiniteSet(S), NEW f, \A s \in S : f[s] = 1 PROVE Total(f, S) = Cardinality(S)
<1>1. 1 .. 1 = {1}
  OBVIOUS
<1>2. Things(f, S) = S \X {1}
  BY <1>1 DEF Things
<1>3. IsFiniteSet({1}) /\ Cardinality({1}) = 1
  BY FS_Singleton
<1>4. Cardinality(S \X {1}) = Cardinality(S) * Cardinality({1})
  BY <1>3, FS_Product
<1>5. Cardinality(S) \in Nat
  BY FS_CardinalityType
<1> QED
  BY <1>2, <1>3, <1>4, <1>5 DEF Total

LEMMA InodeInit == ASSUME PartsAssumption, Inodes!Init PROVE InodeInv
<1>1. /\ Root \in Inode /\ None \notin Inode /\ None \notin Worker /\ ".." \notin Name
      /\ IsFiniteSet(Worker)
  BY InodeFacts
<1>2. /\ type = [i \in Inode |-> IF i = Root THEN "dir" ELSE "free"]
      /\ nlink = [i \in Inode |-> IF i = Root THEN 1 ELSE 0]
      /\ ref = [i \in Inode |-> IF i = Root THEN Cardinality(Worker) ELSE 0]
      /\ valid = [i \in Inode |-> i = Root] /\ locker = [i \in Inode |-> None]
      /\ pc = [p \in Worker |-> "user"] /\ path = [p \in Worker |-> <<>>]
      /\ ip = [p \in Worker |-> None] /\ dp = [p \in Worker |-> None]
      /\ old = [p \in Worker |-> None] /\ open = [p \in Worker |-> None]
      /\ puts = [p \in Worker |-> <<>>] /\ freeing = [p \in Worker |-> "no"]
      /\ cwd = [p \in Worker |-> Root]
  BY InodeCounts DEF Inodes!Init
<1>3. /\ entries \in [Inode -> [Inodes!AllNames -> Inodes!Pointer]]
      /\ \A d \in Inode, n \in Name : entries[d][n] = None
  <2>1. /\ Inodes!NoEntries \in [Inodes!AllNames -> Inodes!Pointer]
        /\ [Inodes!NoEntries EXCEPT ![".."] = Root] \in [Inodes!AllNames -> Inodes!Pointer]
        /\ \A n \in Name : Inodes!NoEntries[n] = None
        /\ \A n \in Name : [Inodes!NoEntries EXCEPT ![".."] = Root][n] = None
    BY <1>1 DEF Inodes!NoEntries, Inodes!AllNames, Inodes!Pointer
  <2>2. entries = [i \in Inode |-> IF i = Root THEN [Inodes!NoEntries EXCEPT ![".."] = Root]
                                             ELSE Inodes!NoEntries]
    BY DEF Inodes!Init
  <2> QED
    BY <2>1, <2>2
<1>4. InodeTypes
  <2>1. Cardinality(Worker) \in Nat
    BY <1>1, FS_CardinalityType
  <2>2. <<>> \in Seq(Name) /\ <<>> \in ShortSeq(Inode)
    BY DEF ShortSeq
  <2> QED
    BY <1>1, <1>2, <1>3, <2>1, <2>2 DEF InodeTypes, Inodes!Pointer, Inodes!Labels
<1>5. RefsAre
  <2> SUFFICES ASSUME NEW i \in Inode PROVE ref[i] = Total([p \in Worker |-> Claims(p, i)], Worker)
    BY DEF RefsAre
  <2> DEFINE f == [p \in Worker |-> Claims(p, i)]
  <2>1. \A p \in Worker : Claims(p, i) = IF i = Root THEN 1 ELSE 0
    <3> TAKE p \in Worker
    <3>1. Copies(puts[p], i) = 0
      BY <1>2, CopiesOfFew
    <3> QED
      BY <1>1, <1>2, <3>1 DEF Claims, One
  <2>2. \A p \in Worker : f[p] = IF i = Root THEN 1 ELSE 0
    BY <2>1
  <2> HIDE DEF f
  <2>3. i = Root => Total(f, Worker) = Cardinality(Worker)
    BY <1>1, <2>2, TotalOfOnes
  <2>4. i # Root => Total(f, Worker) = 0
    BY <2>2, TotalOfNothing
  <2>5. ref[i] = Total(f, Worker)
    BY <1>2, <2>3, <2>4
  <2> QED
    BY <2>5 DEF f
<1>6. Linked
  <2> SUFFICES ASSUME NEW i \in Inode
               PROVE  NNames(i) + NSubDirs(i) + NLinkers(i) + One(i = Root) <= nlink[i]
    BY DEF Linked
  <2>1. NamesOf(i) = {} /\ SubDirs(i) = {} /\ Linkers(i) = {}
    BY <1>1, <1>2, <1>3 DEF NamesOf, SubDirs, Linkers
  <2>2. NNames(i) = 0 /\ NSubDirs(i) = 0 /\ NLinkers(i) = 0
    BY <2>1, FS_EmptySet DEF NNames, NSubDirs, NLinkers
  <2> QED
    BY <1>2, <2>2 DEF One
<1>7. NamesLive /\ type[Root] = "dir"
  BY <1>1, <1>2, <1>3 DEF NamesLive
<1>8. ASSUME NEW p \in Worker PROVE InodeCaller(p) /\ InodePuts(p) /\ PointersLive(p)
  BY <1>1, <1>2, <1>7 DEF InodeCaller, InodePuts, PointersLive, Live, Inodes!Calls, Second, Fresh
<1> QED
  BY <1>4, <1>5, <1>6, <1>7, <1>8 DEF InodeInv

LEMMA InodeStutter == ASSUME InodeInv, UNCHANGED Inodes!vars PROVE InodeInv'
<1>1. UNCHANGED <<type, nlink, entries, ref, valid, locker, pc, path, ip, dp, old, puts, freeing,
                  cwd, open>>
  BY DEF Inodes!vars, Inodes!disk, Inodes!table, Inodes!locals
<1>2. InodeTypes'
  BY <1>1 DEF InodeInv, InodeTypes
<1>3. RefsAre'
  BY <1>1 DEF InodeInv, RefsAre, Claims
<1>4. NamesLive' /\ type'[Root] = "dir"
  BY <1>1 DEF InodeInv, NamesLive
<1>5. Linked'
  BY <1>1 DEF InodeInv, Linked, NNames, NSubDirs, NLinkers, NamesOf, SubDirs, Linkers
<1>6. \A p \in Worker : InodeCaller(p)' /\ InodePuts(p)' /\ PointersLive(p)'
  BY <1>1 DEF InodeInv, InodeCaller, InodePuts, PointersLive, Live
<1> QED
  BY <1>2, <1>3, <1>4, <1>5, <1>6 DEF InodeInv

LEMMA InodeStep ==
  ASSUME PartsAssumption, InodeInv, [Inodes!Next]_(Inodes!vars) PROVE InodeInv'
<1>1. CASE UNCHANGED Inodes!vars
  BY <1>1, InodeStutter
<1>2. CASE Inodes!Next
  <2>1. PICK p \in Worker :
          \/ Inodes!Put(p) \/ Inodes!PutFree(p) \/ Inodes!PutDrop(p)
          \/ Inodes!Walk(p) \/ Inodes!Open(p) \/ Inodes!Close(p) \/ Inodes!Chdir(p)
          \/ Inodes!CreateOld(p) \/ Inodes!CreateNew(p)
          \/ Inodes!Unlink(p) \/ Inodes!UnlinkIp(p) \/ Inodes!Link(p) \/ Inodes!LinkNew(p)
          \/ Inodes!LinkUndo(p)
          \/ \E c \in Inodes!Calls : Inodes!Begin(p, c)
          \/ \E c \in {"creat", "mkdir"} : Inodes!Create(p, c)
    BY <1>2 DEF Inodes!Next
  <2>2. CASE Inodes!Put(p) \/ Inodes!PutFree(p) \/ Inodes!PutDrop(p)
    BY <2>2, PutStep, PutFreeStep, PutDropStep
  <2>3. CASE Inodes!Walk(p) \/ Inodes!Open(p) \/ Inodes!Close(p) \/ Inodes!Chdir(p)
    BY <2>3, WalkStep, OpenStep, CloseStep, ChdirStep
  <2>4. CASE Inodes!CreateOld(p) \/ Inodes!CreateNew(p)
    BY <2>4, CreateOldStep, CreateNewStep
  <2>5. CASE Inodes!Unlink(p) \/ Inodes!UnlinkIp(p)
    BY <2>5, UnlinkStep, UnlinkIpStep
  <2>6. CASE Inodes!Link(p) \/ Inodes!LinkNew(p) \/ Inodes!LinkUndo(p)
    BY <2>6, LinkStep, LinkNewStep, LinkUndoStep
  <2>7. CASE \E c \in Inodes!Calls : Inodes!Begin(p, c)
    BY <2>7, BeginStep
  <2>8. CASE \E c \in {"creat", "mkdir"} : Inodes!Create(p, c)
    BY <2>8, CreateStep
  <2> QED
    BY <2>1, <2>2, <2>3, <2>4, <2>5, <2>6, <2>7, <2>8
<1> QED
  BY <1>1, <1>2

LEMMA CountOfPointers ==
  ASSUME NEW A, A \subseteq {"ip", "dp", "old", "cwd", "open"}
  PROVE  Cardinality(A) = Among("ip", A) + Among("dp", A) + Among("old", A) + Among("cwd", A)
                            + Among("open", A)
<1>1. IsFiniteSet({"ip", "dp", "old", "cwd", "open"})
  <2>1. IsFiniteSet({"open"})
    BY FS_Singleton
  <2>2. IsFiniteSet({"cwd", "open"}) /\ IsFiniteSet({"old", "cwd", "open"})
    <3>1. /\ {"cwd", "open"} = {"open"} \cup {"cwd"}
          /\ {"old", "cwd", "open"} = ({"open"} \cup {"cwd"}) \cup {"old"}
      OBVIOUS
    <3> QED
      BY <2>1, <3>1, FS_AddElement
  <2>3. IsFiniteSet({"old", "cwd", "open"} \cup {"dp"})
    BY <2>2, FS_AddElement
  <2>4. IsFiniteSet(({"old", "cwd", "open"} \cup {"dp"}) \cup {"ip"})
    BY <2>3, FS_AddElement
  <2>5. {"ip", "dp", "old", "cwd", "open"} = ({"old", "cwd", "open"} \cup {"dp"}) \cup {"ip"}
    OBVIOUS
  <2> QED
    BY <2>4, <2>5, Zenon
<1> DEFINE B == A \ {"ip"}
           C == B \ {"dp"}
           D == C \ {"old"}
           E == D \ {"cwd"}
           F == E \ {"open"}
<1>2. /\ B \subseteq {"ip", "dp", "old", "cwd", "open"}
      /\ C \subseteq {"ip", "dp", "old", "cwd", "open"}
      /\ D \subseteq {"ip", "dp", "old", "cwd", "open"}
      /\ E \subseteq {"ip", "dp", "old", "cwd", "open"} /\ F = {}
  OBVIOUS
<1>3. /\ Among("dp", B) = Among("dp", A) /\ Among("old", C) = Among("old", A)
      /\ Among("cwd", D) = Among("cwd", A) /\ Among("open", E) = Among("open", A)
  BY DEF Among
<1>4. /\ B = A \ {"ip"} /\ C = B \ {"dp"} /\ D = C \ {"old"} /\ E = D \ {"cwd"} /\ F = E \ {"open"}
  OBVIOUS
<1> HIDE DEF B, C, D, E, F
<1>5. /\ Cardinality(A) = Cardinality(B) + Among("ip", A)
      /\ Cardinality(B) = Cardinality(C) + Among("dp", B)
      /\ Cardinality(C) = Cardinality(D) + Among("old", C)
      /\ Cardinality(D) = Cardinality(E) + Among("cwd", D)
      /\ Cardinality(E) = Cardinality(F) + Among("open", E)
  BY <1>1, <1>2, <1>4, CountWithout
<1>6. Cardinality(F) = 0
  BY <1>2, FS_EmptySet
<1>7. /\ Among("ip", A) \in Nat /\ Among("dp", A) \in Nat /\ Among("old", A) \in Nat
      /\ Among("cwd", A) \in Nat /\ Among("open", A) \in Nat
  BY DEF Among
<1> QED
  BY <1>3, <1>5, <1>6, <1>7

LEMMA PointersCount ==
  ASSUME InodeInv, NEW p \in Worker, NEW i PROVE Inodes!Pointers(p, i) = Claims(p, i)
<1> DEFINE h == [ip |-> ip, dp |-> dp, old |-> old, cwd |-> cwd, open |-> open]
           A == {f \in {"ip", "dp", "old", "cwd", "open"} : h[f][p] = i}
<1>1. /\ "ip" \in A <=> ip[p] = i
      /\ "dp" \in A <=> dp[p] = i
      /\ "old" \in A <=> old[p] = i
      /\ "cwd" \in A <=> cwd[p] = i
      /\ "open" \in A <=> open[p] = i
  OBVIOUS
<1>2. A \subseteq {"ip", "dp", "old", "cwd", "open"}
  OBVIOUS
<1>3. Inodes!Pointers(p, i) = Cardinality(A) + Copies(puts[p], i)
  BY InodeCounts DEF Inodes!Pointers, Copies
<1> HIDE DEF A
<1>4. Cardinality(A) = Among("ip", A) + Among("dp", A) + Among("old", A) + Among("cwd", A)
                         + Among("open", A)
  BY <1>2, CountOfPointers
<1>5. /\ Among("ip", A) = One(ip[p] = i) /\ Among("dp", A) = One(dp[p] = i)
      /\ Among("old", A) = One(old[p] = i) /\ Among("cwd", A) = One(cwd[p] = i)
      /\ Among("open", A) = One(open[p] = i)
  BY <1>1 DEF Among, One
<1> QED
  BY <1>3, <1>4, <1>5 DEF Claims

LEMMA InodeSafety ==
  ASSUME PartsAssumption, InodeInv
  PROVE  /\ Inodes!TypeOK /\ Inodes!RefsCounted
         /\ Inodes!NothingDangles /\ Inodes!LinksCover
<1>1. Inodes!TypeOK
  <2>1. puts \in [Worker -> Seq(Inode)]
    BY FewFilesAreASeq DEF InodeInv, InodeTypes
  <2>2. path \in [Worker -> Seq(Inodes!AllNames)]
    <3>1. Seq(Name) \subseteq Seq(Inodes!AllNames)
      BY DEF Inodes!AllNames
    <3> QED
      BY <3>1 DEF InodeInv, InodeTypes
  <2> QED
    BY <2>1, <2>2 DEF InodeInv, InodeTypes, Inodes!TypeOK
<1>2. Inodes!RefsCounted
  <2> SUFFICES ASSUME NEW i \in Inode
               PROVE  ref[i] = Inodes!Total([p \in Worker |-> Inodes!Pointers(p, i)], Worker)
    BY DEF Inodes!RefsCounted
  <2>1. [p \in Worker |-> Inodes!Pointers(p, i)] = [p \in Worker |-> Claims(p, i)]
    BY PointersCount
  <2> QED
    BY <2>1, InodeCounts DEF InodeInv, RefsAre
<1>3. Inodes!NothingDangles
  <2>1. ASSUME NEW p \in Worker
        PROVE  {ip[p], dp[p], old[p], cwd[p], open[p]} \subseteq
                 {i \in Inode : type[i] # "free"} \cup {None}
    BY InodesHere DEF PointersLive, Live
  <2>2. \A i \in Inode, n \in Name : entries[i][n] # None => type[entries[i][n]] # "free"
    BY DEF InodeInv, NamesLive
  <2> QED
    BY <2>1, <2>2 DEF Inodes!NothingDangles
<1>4. Inodes!LinksCover
  <2> SUFFICES ASSUME NEW i \in Inode PROVE NNames(i) <= nlink[i]
    BY InodeCounts DEF Inodes!LinksCover, NNames, NamesOf
  <2>1. PICK a \in Nat, b \in Nat, c \in Nat, d \in Nat :
          a = NNames(i) /\ b = NSubDirs(i) /\ c = NLinkers(i) /\ d = One(i = Root)
    BY LinksAreNat DEF One
  <2>2. a + b + c + d <= nlink[i] /\ nlink[i] \in Nat
    BY <2>1 DEF InodeInv, InodeTypes, Linked
  <2> QED
    BY <2>1, <2>2
<1> QED
  BY <1>1, <1>2, <1>3, <1>4

-----------------------------------------------------------------------------
(* The parts together *)

Invariant ==
  /\ part = "pipes" => PipeInv /\ RingInv
  /\ part = "buffers" => BufInv
  /\ part = "files" => FileInv
  /\ part = "blocks" => BlockInv
  /\ part = "inodes" => InodeInv

LEMMA InvariantHoldsFirst == Init => Invariant
<1> SUFFICES ASSUME Init PROVE Invariant
  OBVIOUS
<1>1. CASE part = "pipes"
  <2>1. Pipes!Init
    BY <1>1 DEF Init
  <2> QED
    BY <1>1, <2>1, PartsAssumption, RingNumbers, PipeInit, RingInit DEF Invariant
<1>2. CASE part = "buffers"
  <2>1. Buffers!Init
    BY <1>2 DEF Init
  <2> QED
    BY <1>2, <2>1, PartsAssumption, BufInit DEF Invariant
<1>3. CASE part = "files"
  <2>1. Files!Init
    BY <1>3 DEF Init
  <2> QED
    BY <1>3, <2>1, PartsAssumption, FileInit DEF Invariant
<1>4. CASE part = "blocks"
  <2>1. Blocks!Init
    BY <1>4 DEF Init
  <2> QED
    BY <1>4, <2>1, PartsAssumption, BlockInit DEF Invariant
<1>5. CASE part = "inodes"
  <2>1. Inodes!Init
    BY <1>5 DEF Init
  <2> QED
    BY <1>5, <2>1, PartsAssumption, InodeInit DEF Invariant
<1> QED
  BY <1>1, <1>2, <1>3, <1>4, <1>5 DEF Invariant

\* A step is one of the part that runs, or changes nothing.
LEMMA PartSteps ==
  ASSUME [Next]_vars
  PROVE  /\ part' = part
         /\ part = "pipes" => [Pipes!Next]_(Pipes!vars)
         /\ part = "buffers" => [Buffers!Next]_(Buffers!vars)
         /\ part = "files" => [Files!Next]_(Files!vars)
         /\ part = "blocks" => [Blocks!Next]_(Blocks!vars)
         /\ part = "inodes" => [Inodes!Next]_(Inodes!vars)
<1>1. CASE Next
  BY <1>1 DEF Next
<1>2. CASE UNCHANGED vars
  <2>1. UNCHANGED Pipes!vars
    BY <1>2 DEF vars, pipesOnly, ends, Pipes!vars, Pipes!ring, Pipes!ends
  <2>2. UNCHANGED Buffers!vars
    BY <1>2 DEF vars, buffersOnly, Buffers!vars, Buffers!cache
  <2>3. UNCHANGED Files!vars
    BY <1>2 DEF vars, filesOnly, types, ends, Files!vars, Files!pipes
  <2>4. UNCHANGED Blocks!vars
    BY <1>2 DEF vars, blocksOnly, Blocks!vars
  <2>5. UNCHANGED Inodes!vars
    BY <1>2 DEF vars, inodesOnly, types, Inodes!vars, Inodes!disk, Inodes!table, Inodes!locals
  <2> QED
    BY <1>2, <2>1, <2>2, <2>3, <2>4, <2>5 DEF vars
<1> QED
  BY <1>1, <1>2

LEMMA PipeStep ==
  ASSUME Pipes!ProcAssumption, PipeInv, [Pipes!Next]_(Pipes!vars)
  PROVE  PipeInv'
<1>1. CASE UNCHANGED Pipes!vars
  BY <1>1, PipeStutter
<1>2. CASE Pipes!Next
  BY <1>2, PipeTypesStep, OpenEndsStep, CallsHoldStep, LockHeldStep, SleepersStep DEF Pipes!Next, PipeInv
<1> QED
  BY <1>1, <1>2

LEMMA InvariantIsKept == Invariant /\ [Next]_vars => Invariant'
<1> SUFFICES ASSUME Invariant, [Next]_vars PROVE Invariant'
  OBVIOUS
<1>1. /\ part' = part
      /\ part = "pipes" => [Pipes!Next]_(Pipes!vars)
      /\ part = "buffers" => [Buffers!Next]_(Buffers!vars)
      /\ part = "files" => [Files!Next]_(Files!vars)
      /\ part = "blocks" => [Blocks!Next]_(Blocks!vars)
      /\ part = "inodes" => [Inodes!Next]_(Inodes!vars)
  BY PartSteps
<1>2. part = "pipes" => PipeInv' /\ RingInv'
  BY <1>1, PartsAssumption, RingNumbers, PipeStep, RingStep DEF Invariant
<1>3. part = "buffers" => BufInv'
  BY <1>1, PartsAssumption, BufStep DEF Invariant
<1>4. part = "files" => FileInv'
  BY <1>1, PartsAssumption, FileStep DEF Invariant
<1>5. part = "blocks" => BlockInv'
  BY <1>1, PartsAssumption, BlockStep DEF Invariant
<1>6. part = "inodes" => InodeInv'
  BY <1>1, PartsAssumption, InodeStep DEF Invariant
<1> QED
  BY <1>1, <1>2, <1>3, <1>4, <1>5, <1>6 DEF Invariant

\* The inductive invariants of the parts hold in every reachable state.
THEOREM Invariance == Spec => []Invariant
BY InvariantHoldsFirst, InvariantIsKept, PTL DEF Spec

LEMMA PipesAreSafe ==
  ASSUME PipeInv, RingInv
  PROVE  Pipes!TypeOK /\ Pipes!NoUseAfterFree /\ Pipes!NoMissedWakeup
<1>1. Pipes!TypeOK
  <2>1. nwrite \in Pipes!Counter /\ data \in [Pipes!Slots -> Bytes]
    <3>1. PICK n \in 0 .. PipeSize : nwrite = Ahead(nread, n)
      BY DEF RingInv, RingAt
    <3>2. nread \in Int /\ n \in Int
      BY RingNumbers, PartsAssumption DEF RingInv
    <3> QED
      BY <3>1, <3>2, PartsAssumption, AheadIsCounter DEF RingInv, Ring, Pipes!Slots
  <2> QED
    BY <2>1 DEF PipeInv, PipeTypes, RingInv, Pipes!TypeOK
<1>2. Pipes!NoUseAfterFree
  BY DEF PipeInv, OpenEnds, CallsHold, Pipes!NoUseAfterFree, Pipes!InCall, Pipes!Closing
<1>3. Pipes!NoMissedWakeup
  BY RingNumbers, PartsAssumption DEF Pipes!ProcAssumption, PipeInv, Sleepers, Has, Pipes!NoMissedWakeup
<1> QED
  BY <1>1, <1>2, <1>3

LEMMA InvariantIsSafe ==
  Invariant => /\ NoMissedWakeup /\ ReadsSeeStores /\ BlocksExact
               /\ TypeOK /\ ReferencesCounted /\ NothingDangles
<1> SUFFICES ASSUME Invariant
             PROVE  /\ NoMissedWakeup /\ ReadsSeeStores /\ BlocksExact
                    /\ TypeOK /\ ReferencesCounted /\ NothingDangles
  OBVIOUS
<1>1. part = "pipes" => Pipes!TypeOK /\ Pipes!NoMissedWakeup /\ Pipes!NoUseAfterFree
  BY PipesAreSafe DEF Invariant
<1>2. part = "buffers" => /\ Buffers!TypeOK /\ Buffers!ReadsSeeStores
                          /\ Buffers!BuffersCounted /\ Buffers!NoLostWakeup
  BY PartsAssumption, BufSafety DEF Invariant
<1>3. part = "blocks" => Blocks!TypeOK /\ Blocks!BitmapExact /\ Blocks!NoHoles
  BY PartsAssumption, BlocksTyped, BitmapExactHere, NoHolesHere DEF Invariant
<1>4. part = "files" => Files!TypeOK /\ Files!FilesCounted /\ Files!ObjectsReleasedOnce
  BY PartsAssumption, FileSafety DEF Invariant
<1>5. part = "inodes" => /\ Inodes!TypeOK /\ Inodes!RefsCounted
                         /\ Inodes!NothingDangles /\ Inodes!LinksCover
  BY PartsAssumption, InodeSafety DEF Invariant
<1> QED
  BY <1>1, <1>2, <1>3, <1>4, <1>5
     DEF NoMissedWakeup, ReadsSeeStores, BlocksExact, TypeOK, ReferencesCounted, NothingDangles

\* The variables of every part keep their types.
THEOREM TypesKept == Spec => []TypeOK
BY Invariance, InvariantIsSafe, PTL

\* The count of references to an inode, a buffer or an open file is the number
\* of those who have one: no path through a call, whether it succeeds, fails or
\* is overtaken, forgets or repeats an iput(), brelse() or fileclose(), and who
\* closes a file last releases what it stands for, once (fs.c:134, bio.c:132,
\* file.c:64-81).
THEOREM ReferencesAreCounted == Spec => []ReferencesCounted
BY Invariance, InvariantIsSafe, PTL

\* Nothing is freed that somebody can still reach: no inode with a pointer or a
\* name to it, on which ilock() would panic (fs.c:315-341), and no page of a pipe
\* with a call under way in it (pipe.c:69); and an inode has a link for each of
\* its names.
THEOREM NothingIsDangling == Spec => []NothingDangles
BY Invariance, InvariantIsSafe, PTL

\* Who sleeps on a pipe or on a buffer's lock sleeps for a reason that is still
\* there, whatever wakes and dies meanwhile (pipe.c:90 and 112, sleeplock.c:26).
THEOREM NobodySleepsForNothing == Spec => []NoMissedWakeup
BY Invariance, InvariantIsSafe, PTL

\* A locked buffer is the only copy of its block and shows what was last stored
\* there, through any number of evictions, pins and hand-overs (bio.c:77-87).
THEOREM BuffersShowStores == Spec => []ReadsSeeStores
BY Invariance, InvariantIsSafe, PTL

\* A block is marked in use exactly if one pointer of one file leads to it, from
\* mkfs on, when the disk fills up in the middle of a write() and in the middle of
\* itrunc(); and files have no holes (fs.c:65-105, 382-453, 482).
THEOREM EveryBlockHasOneFile == Spec => []BlocksExact
BY Invariance, InvariantIsSafe, PTL

-----------------------------------------------------------------------------
(* The ring of a pipe implements ByteStream. *)

LEMMA StreamStarts == Init => Stream!Init
<1> SUFFICES ASSUME Init PROVE Stream!Init
  OBVIOUS
<1>1. CASE part = "pipes"
  <2>1. Pipes!Init
    BY <1>1 DEF Init
  <2>2. Poured!Init
    BY <2>1, PartsAssumption, RingInit
  <2> QED
    BY <1>1, <2>2 DEF Poured!Init, Stream!Init
<1>2. CASE part # "pipes"
  BY <1>2 DEF Stream!Init
<1> QED
  BY <1>1, <1>2

LEMMA StreamSteps ==
  Invariant /\ [Next]_vars => [Stream!Next]_(IF part = "pipes" THEN Pipes!Contents ELSE <<>>)
<1> SUFFICES ASSUME Invariant, [Next]_vars
             PROVE  [Stream!Next]_(IF part = "pipes" THEN Pipes!Contents ELSE <<>>)
  OBVIOUS
<1>1. part' = part /\ (part = "pipes" => [Pipes!Next]_(Pipes!vars))
  BY PartSteps
<1>2. CASE part = "pipes"
  <2>1. [Poured!Next]_(Pipes!Contents)
    BY <1>1, <1>2, PartsAssumption, RingStep DEF Invariant
  <2>2. CASE Poured!Next
    BY <1>1, <1>2, <2>2 DEF Poured!Next, Poured!Put, Poured!Get, Stream!Next, Stream!Put, Stream!Get
  <2>3. CASE UNCHANGED Pipes!Contents
    BY <1>1, <1>2, <2>3
  <2> QED
    BY <2>1, <2>2, <2>3
<1>3. CASE part # "pipes"
  BY <1>1, <1>3
<1> QED
  BY <1>2, <1>3

\* The bytes of a pipe come out in the order in which they went in, each once,
\* for any size of the ring and any wrap of its counters (pipe.c:95 and 123).
THEOREM APipeIsAStream == Spec => PipeIsAStream
<1>1. Init => Stream!Init
  BY StreamStarts
<1>2. Invariant /\ [Next]_vars => [Stream!Next]_(IF part = "pipes" THEN Pipes!Contents ELSE <<>>)
  BY StreamSteps
<1> QED
  BY <1>1, <1>2, Invariance, PTL DEF Spec, PipeIsAStream, Stream!Spec

=============================================================================
