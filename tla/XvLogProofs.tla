----------------------------- MODULE XvLogProofs -----------------------------
(***************************************************************************)
(* log.c implements AtomicDisk, a commit runs alone and the log has room,  *)
(* for every set of system calls, size of the log and number of crashes.   *)
(* IInv is inductive: it says what the header, the log blocks and the      *)
(* cache hold at each stage of a commit and of a recovery.                 *)
(***************************************************************************)
EXTENDS XvLog, FiniteSetTheorems, TLAPS

(* No block is twice in a transaction, in memory or on disk.               *)
Distinct(s) == \A i, j \in DOMAIN s : s[i] = s[j] => i = j

(* A commit is under way, or a recovery, or system calls may run.          *)
Stages ==
  /\ committing <=> ~recovering /\ stage # "idle"
  /\ stage = "boot" => recovering
  /\ stage \in {"idle", "writeLog", "writeHead", "finish"} => ~recovering
  /\ recovering \/ committing => InOp = {} /\ outstanding = 0
  /\ outstanding = Cardinality(InOp)

(* The header on the disk is empty until the commit point, then lists the  *)
(* transaction until it has been erased.                                   *)
Header ==
  /\ Distinct(lh) /\ Distinct(head)
  /\ stage \in {"idle", "writeLog", "writeHead", "finish"} => head = <<>>
  /\ stage = "install" => head = lh
  /\ stage \in {"erase", "finish", "boot"} => lh = <<>>
  /\ stage = "writeLog" => tail <= Len(lh)
  /\ stage = "install" => tail <= Len(lh) + 1
  /\ stage \in {"idle", "writeHead", "erase", "finish", "boot"} => tail = 1

(* What has been copied so far: to the log, and from there home.           *)
Copied ==
  /\ stage = "writeLog" => \A i \in 1..(tail - 1) : logged[i] = cache[lh[i]]
  /\ stage = "writeHead" \/ (stage = "install" /\ ~recovering)
       => \A i \in DOMAIN lh : logged[i] = cache[lh[i]]
  /\ stage = "install" => \A i \in 1..(tail - 1) : home[lh[i]] = logged[i]
  /\ stage = "erase" => \A i \in DOMAIN head : home[head[i]] = logged[i]

(* Only a block that waits to be installed differs from its home, and that *)
(* one is pinned.                                                          *)
Cached ==
  /\ \A b \in Block : b \notin pinned => cache[b] = home[b]
  /\ recovering => pinned = {}
  /\ stage = "install" /\ ~recovering => pinned = {lh[i] : i \in tail..Len(lh)}
  /\ stage # "install" => pinned = Logged

IInv ==
  /\ TypeOK
  /\ Stages
  /\ Header
  /\ Copied
  /\ Cached

-----------------------------------------------------------------------------
LEMMA CallsFinite == IsFiniteSet(InOp)
BY LogAssumption, FS_Subset DEF InOp

LEMMA CallsCounted ==
  ASSUME IInv, NEW o \in Op, pc[o] = "in"
  PROVE  outstanding \in Nat \ {0}
<1>1. Cardinality(InOp) # 0 /\ Cardinality(InOp) \in Nat
  BY CallsFinite, FS_EmptySet, FS_CardinalityType DEF InOp
<1>2. QED
  BY <1>1 DEF IInv, Stages

-----------------------------------------------------------------------------
(* Every step keeps each part of IInv.                                     *)
LEMMA TypeStep == IInv /\ [Next]_vars => TypeOK'
<1> SUFFICES ASSUME IInv, [Next]_vars PROVE TypeOK'
  OBVIOUS
<1> USE LogAssumption DEF IInv, TypeOK, Content, Slot, Capacity, calls, disk, vars, Stages, Header
<1>1. ASSUME NEW o \in Op, BeginOp(o) PROVE TypeOK'
  <2>1. outstanding' \in Nat
    BY <1>1, SMTT(30) DEF BeginOp
  <2>2. pc' \in [Op -> {"begin", "asleep", "in", "done"}]
    BY <1>1, ZenonT(40) DEF BeginOp
  <2>3. QED
    BY <1>1, <2>1, <2>2 DEF BeginOp
<1>2. ASSUME NEW o \in Op, NEW b \in Block, LogWrite(o, b) PROVE TypeOK'
  <2>1. lh' \in Seq(Block) /\ Len(lh') <= Capacity
    <3>1. CASE b \in Logged
      BY <1>2, <3>1 DEF LogWrite
    <3>2. CASE b \notin Logged
      <4>1. lh' = Append(lh, b) /\ Len(lh) < Capacity
        BY <1>2, <3>2 DEF LogWrite
      <4>2. QED
        BY <4>1
    <3>3. QED
      BY <3>1, <3>2
  <2>2. cache' \in [Block -> Content] /\ pinned' \subseteq Block /\ wrote' \in [Op -> SUBSET Block]
    BY <1>2 DEF LogWrite, Pin
  <2>3. QED
    BY <1>2, <2>1, <2>2 DEF LogWrite
<1>3. ASSUME NEW o \in Op, EndOp(o) PROVE TypeOK'
  <2>1. outstanding' \in Nat
    BY <1>3, CallsCounted, SMTT(30) DEF EndOp
  <2>2. pc' \in [Op -> {"begin", "asleep", "in", "done"}]
    BY <1>3 DEF EndOp, WakeAll
  <2>3. wrote' \in [Op -> SUBSET Block] /\ tail' \in 1..LOGSIZE
    BY <1>3 DEF EndOp
  <2>4. CASE LastOp
    BY <1>3, <2>1, <2>2, <2>3, <2>4 DEF EndOp
  <2>5. CASE ~LastOp
    BY <1>3, <2>1, <2>2, <2>3, <2>5 DEF EndOp
  <2>6. QED
    BY <2>4, <2>5
<1>4. CASE WriteLog
  BY <1>4 DEF WriteLog
<1>5. CASE WriteHead
  BY <1>5 DEF WriteHead
<1>6. CASE Install
  <2>1. CASE tail <= Len(lh)
    <3>1. tail \in DOMAIN lh /\ tail \in Slot /\ lh[tail] \in Block /\ logged[tail] \in Content
      BY <2>1
    <3>2. cache' \in [Block -> Content] /\ home' \in [Block -> Content]
      BY <1>6, <2>1, <3>1 DEF Install
    <3>3. tail' \in 1..LOGSIZE /\ pinned' \subseteq Block
      BY <1>6, <2>1, <3>1 DEF Install
    <3>4. QED
      BY <1>6, <2>1, <3>2, <3>3 DEF Install
  <2>2. CASE ~(tail <= Len(lh))
    BY <1>6, <2>2 DEF Install
  <2>3. QED
    BY <2>1, <2>2
<1>7. CASE EraseHead
  BY <1>7 DEF EraseHead
<1>8. CASE FinishCommit
  BY <1>8 DEF FinishCommit, WakeAll
<1>9. ASSUME NEW b \in Block, Recycle(b) PROVE TypeOK'
  BY <1>9 DEF Recycle
<1>10. CASE Crash
  <2>1. lh' \in Seq(Block) /\ Len(lh') <= Capacity /\ tail' \in 1..LOGSIZE
    BY <1>10 DEF Crash
  <2>2. pc' \in [Op -> {"begin", "asleep", "in", "done"}] /\ wrote' \in [Op -> SUBSET Block]
    BY <1>10 DEF Crash
  <2>3. crashes' \in 0..MaxCrashes
    BY <1>10 DEF Crash
  <2>4. QED
    BY <1>10, <2>1, <2>2, <2>3 DEF Crash
<1>11. CASE ReadHead
  BY <1>11 DEF ReadHead
<1>12. CASE Done
  BY <1>12 DEF Done
<1>13. CASE UNCHANGED vars
  BY <1>13 DEF vars
<1>14. QED
  BY <1>1, <1>2, <1>3, <1>4, <1>5, <1>6, <1>7, <1>8, <1>9, <1>10, <1>11, <1>12, <1>13 DEF Next, Commit

LEMMA StagesStep == IInv /\ [Next]_vars => Stages'
<1> SUFFICES ASSUME IInv, [Next]_vars PROVE Stages'
  OBVIOUS
<1> USE LogAssumption DEF IInv, TypeOK, Content, Slot, Capacity, calls, disk, vars, Stages, Header
<1>1. ASSUME NEW o \in Op, BeginOp(o) PROVE Stages'
  <2>1. CASE pc'[o] = "in"
    <3>1. InOp' = InOp \cup {o} /\ o \notin InOp
      BY <1>1, <2>1 DEF BeginOp, InOp
    <3>2. Cardinality(InOp') = Cardinality(InOp) + 1
      BY <3>1, CallsFinite, FS_AddElement
    <3>3. outstanding' = outstanding + 1 /\ ~committing /\ ~recovering
      BY <1>1, <2>1 DEF BeginOp
    <3>4. QED
      BY <1>1, <3>2, <3>3 DEF BeginOp
  <2>2. CASE pc'[o] # "in"
    <3>1. InOp' = InOp /\ outstanding' = outstanding
      BY <1>1, <2>2 DEF BeginOp, InOp
    <3>2. QED
      BY <1>1, <3>1 DEF BeginOp
  <2>3. QED
    BY <2>1, <2>2
<1>2. ASSUME NEW o \in Op, NEW b \in Block, LogWrite(o, b) PROVE Stages'
  <2>1. InOp' = InOp /\ UNCHANGED <<outstanding, committing, recovering, stage>>
    BY <1>2 DEF LogWrite, InOp
  <2>2. QED
    BY <2>1
<1>3. ASSUME NEW o \in Op, EndOp(o) PROVE Stages'
  <2>1. InOp' = InOp \ {o} /\ o \in InOp
    BY <1>3, SMTT(30) DEF EndOp, WakeAll, InOp
  <2>2. Cardinality(InOp') = Cardinality(InOp) - 1 /\ IsFiniteSet(InOp')
    BY <2>1, CallsFinite, FS_RemoveElement
  <2>3. outstanding' = Cardinality(InOp')
    BY <1>3, <2>2 DEF EndOp
  <2>4. ~committing /\ ~recovering
    BY <2>1
  <2>5. CASE LastOp
    <3>1. outstanding' = 0
      BY <1>3, <2>5 DEF EndOp, LastOp
    <3>2. InOp' = {}
      BY <2>2, <2>3, <3>1, FS_EmptySet
    <3>3. QED
      BY <1>3, <2>3, <2>4, <2>5, <3>1, <3>2 DEF EndOp
  <2>6. CASE ~LastOp
    BY <1>3, <2>3, <2>4, <2>6 DEF EndOp
  <2>7. QED
    BY <2>5, <2>6
<1>4. CASE WriteLog
  BY <1>4 DEF WriteLog, InOp
<1>5. CASE WriteHead
  BY <1>5 DEF WriteHead, InOp
<1>6. CASE Install
  BY <1>6 DEF Install, InOp
<1>7. CASE EraseHead
  BY <1>7 DEF EraseHead, InOp
<1>8. CASE FinishCommit
  BY <1>8 DEF FinishCommit, WakeAll, InOp
<1>9. ASSUME NEW b \in Block, Recycle(b) PROVE Stages'
  BY <1>9 DEF Recycle, InOp
<1>10. CASE Crash
  <2>1. InOp' = {} /\ outstanding' = 0
    BY <1>10 DEF Crash, InOp
  <2>2. QED
    BY <1>10, <2>1, FS_EmptySet DEF Crash
<1>11. CASE ReadHead
  BY <1>11 DEF ReadHead, InOp
<1>12. CASE Done
  BY <1>12 DEF Done, InOp
<1>13. CASE UNCHANGED vars
  BY <1>13 DEF vars, InOp
<1>14. QED
  BY <1>1, <1>2, <1>3, <1>4, <1>5, <1>6, <1>7, <1>8, <1>9, <1>10, <1>11, <1>12, <1>13 DEF Next, Commit

LEMMA HeaderStep == IInv /\ [Next]_vars => Header'
<1> SUFFICES ASSUME IInv, [Next]_vars PROVE Header'
  OBVIOUS
<1> USE LogAssumption DEF IInv, TypeOK, Content, Slot, Capacity, calls, disk, vars, Header, Distinct, Stages, InOp
<1>1. ASSUME NEW o \in Op, BeginOp(o) PROVE Header'
  BY <1>1 DEF BeginOp
<1>2. ASSUME NEW o \in Op, NEW b \in Block, LogWrite(o, b) PROVE Header'
  <2>1. stage = "idle" /\ stage' = stage /\ head' = head /\ tail' = tail
    BY <1>2 DEF LogWrite
  <2>2. Distinct(lh)'
    <3>1. CASE b \in Logged
      BY <1>2, <3>1 DEF LogWrite
    <3>2. CASE b \notin Logged
      <4>1. lh' = Append(lh, b) /\ \A i \in DOMAIN lh : lh[i] # b
        BY <1>2, <3>2 DEF LogWrite, Logged
      <4>2. QED
        BY <4>1
    <3>3. QED
      BY <3>1, <3>2
  <2>3. QED
    BY <2>1, <2>2
<1>3. ASSUME NEW o \in Op, EndOp(o) PROVE Header'
  BY <1>3, SMTT(30) DEF EndOp, LastOp, WakeAll
<1>4. CASE WriteLog
  BY <1>4 DEF WriteLog
<1>5. CASE WriteHead
  BY <1>5 DEF WriteHead
<1>6. CASE Install
  BY <1>6 DEF Install
<1>7. CASE EraseHead
  BY <1>7 DEF EraseHead
<1>8. CASE FinishCommit
  BY <1>8 DEF FinishCommit, WakeAll
<1>9. ASSUME NEW b \in Block, Recycle(b) PROVE Header'
  BY <1>9 DEF Recycle
<1>10. CASE Crash
  BY <1>10 DEF Crash
<1>11. CASE ReadHead
  BY <1>11 DEF ReadHead
<1>12. CASE Done
  BY <1>12 DEF Done
<1>13. CASE UNCHANGED vars
  BY <1>13 DEF vars
<1>14. QED
  BY <1>1, <1>2, <1>3, <1>4, <1>5, <1>6, <1>7, <1>8, <1>9, <1>10, <1>11, <1>12, <1>13 DEF Next, Commit

LEMMA CopiedStep == IInv /\ [Next]_vars => Copied'
<1> SUFFICES ASSUME IInv, [Next]_vars PROVE Copied'
  OBVIOUS
<1> USE LogAssumption DEF IInv, TypeOK, Content, Slot, Capacity, calls, disk, vars, Copied, Cached, Header, Distinct, Stages, InOp
<1>1. ASSUME NEW o \in Op, BeginOp(o) PROVE Copied'
  BY <1>1 DEF BeginOp
<1>2. ASSUME NEW o \in Op, NEW b \in Block, LogWrite(o, b) PROVE Copied'
  <2>1. stage = "idle" /\ stage' = stage
    BY <1>2 DEF LogWrite
  <2>2. QED
    BY <2>1
<1>3. ASSUME NEW o \in Op, EndOp(o) PROVE Copied'
  BY <1>3, SMTT(30) DEF EndOp, LastOp, WakeAll
<1>4. CASE WriteLog
  BY <1>4 DEF WriteLog
<1>5. CASE WriteHead
  BY <1>5 DEF WriteHead
<1>6. CASE Install
  BY <1>6, SMTT(30) DEF Install
<1>7. CASE EraseHead
  BY <1>7 DEF EraseHead
<1>8. CASE FinishCommit
  BY <1>8 DEF FinishCommit, WakeAll
<1>9. ASSUME NEW b \in Block, Recycle(b) PROVE Copied'
  <2>1. UNCHANGED <<logged, lh, tail, stage, home, head, recovering, pinned>>
    BY <1>9 DEF Recycle
  <2>2. cache' = cache
    BY <1>9 DEF Recycle
  <2>3. QED
    BY <2>1, <2>2
<1>10. CASE Crash
  BY <1>10 DEF Crash
<1>11. CASE ReadHead
  BY <1>11 DEF ReadHead
<1>12. CASE Done
  BY <1>12 DEF Done
<1>13. CASE UNCHANGED vars
  BY <1>13 DEF vars
<1>14. QED
  BY <1>1, <1>2, <1>3, <1>4, <1>5, <1>6, <1>7, <1>8, <1>9, <1>10, <1>11, <1>12, <1>13 DEF Next, Commit

LEMMA AppendedBlocks ==
  ASSUME TypeOK, NEW b \in Block, lh' = Append(lh, b)
  PROVE  Logged' = Logged \cup {b}
<1>1. /\ DOMAIN lh = 1..Len(lh) /\ DOMAIN lh' = 1..(Len(lh) + 1) /\ Len(lh) \in Nat
      /\ \A i \in 1..Len(lh) : lh'[i] = lh[i]
      /\ lh'[Len(lh) + 1] = b
  BY DEF TypeOK
<1>2. Logged \subseteq Logged'
  BY <1>1 DEF Logged
<1>3. b \in Logged'
  <2>1. Len(lh) + 1 \in DOMAIN lh'
    BY <1>1
  <2>2. QED
    BY <1>1, <2>1 DEF Logged
<1>4. ASSUME NEW i \in DOMAIN lh' PROVE lh'[i] \in Logged \cup {b}
  <2>1. i \in 1..Len(lh) \/ i = Len(lh) + 1
    BY <1>1
  <2>2. CASE i \in 1..Len(lh)
    BY <1>1, <2>2 DEF Logged
  <2>3. CASE i = Len(lh) + 1
    BY <1>1, <2>3
  <2>4. QED
    BY <2>1, <2>2, <2>3
<1>5. Logged' \subseteq Logged \cup {b}
  BY <1>4 DEF Logged
<1>6. QED
  BY <1>2, <1>3, <1>5

LEMMA CachedStep == IInv /\ [Next]_vars => Cached'
<1> SUFFICES ASSUME IInv, [Next]_vars PROVE Cached'
  OBVIOUS
<1> USE LogAssumption DEF IInv, TypeOK, Content, Slot, Capacity, calls, disk, vars, Cached, Header, Distinct, Stages, Copied, InOp
<1>1. ASSUME NEW o \in Op, BeginOp(o) PROVE Cached'
  BY <1>1 DEF BeginOp, Logged
<1>2. ASSUME NEW o \in Op, NEW b \in Block, LogWrite(o, b) PROVE Cached'
  <2>1. stage = "idle" /\ stage' = stage /\ ~recovering /\ recovering' = recovering
    BY <1>2 DEF LogWrite
  <2>2. b \in Logged' /\ Logged' = Logged \cup {b}
    <3>1. CASE b \in Logged
      BY <1>2, <3>1 DEF LogWrite, Logged
    <3>2. CASE b \notin Logged
      <4>1. lh' = Append(lh, b)
        BY <1>2, <3>2 DEF LogWrite
      <4>2. QED
        BY <4>1, AppendedBlocks
    <3>3. QED
      BY <3>1, <3>2
  <2>3. pinned' = pinned \cup {b}
    BY <1>2 DEF LogWrite, Pin
  <2>4. \A q \in Block : q \notin pinned' => cache'[q] = home'[q]
    BY <1>2, <2>3 DEF LogWrite
  <2>5. QED
    BY <2>1, <2>2, <2>3, <2>4
<1>3. ASSUME NEW o \in Op, EndOp(o) PROVE Cached'
  <2>1. UNCHANGED <<cache, home, pinned, lh, recovering>>
    BY <1>3 DEF EndOp
  <2>2. stage = "idle" /\ stage' # "install"
    BY <1>3 DEF EndOp
  <2>3. Logged' = Logged
    BY <2>1 DEF Logged
  <2>4. QED
    BY <2>1, <2>2, <2>3
<1>4. CASE WriteLog
  BY <1>4 DEF WriteLog, Logged
<1>5. CASE WriteHead
  BY <1>5 DEF WriteHead, Logged
<1>6. CASE Install
  BY <1>6, SMTT(30) DEF Install, Logged
<1>7. CASE EraseHead
  BY <1>7 DEF EraseHead, Logged
<1>8. CASE FinishCommit
  BY <1>8 DEF FinishCommit, WakeAll, Logged
<1>9. ASSUME NEW b \in Block, Recycle(b) PROVE Cached'
  BY <1>9 DEF Recycle, Logged
<1>10. CASE Crash
  BY <1>10 DEF Crash, Logged
<1>11. CASE ReadHead
  BY <1>11 DEF ReadHead, Logged
<1>12. CASE Done
  BY <1>12 DEF Done, Logged
<1>13. CASE UNCHANGED vars
  BY <1>13 DEF vars, Logged
<1>14. QED
  BY <1>1, <1>2, <1>3, <1>4, <1>5, <1>6, <1>7, <1>8, <1>9, <1>10, <1>11, <1>12, <1>13 DEF Next, Commit

LEMMA InitIInv == Init => IInv
<1> SUFFICES ASSUME Init PROVE IInv
  OBVIOUS
<1> USE LogAssumption DEF Init
<1>1. TypeOK
  <2>1. lh \in Seq(Block) /\ Len(lh) = 0 /\ head \in Seq(Block) /\ Len(head) = 0
    OBVIOUS
  <2>2. 0 <= Capacity /\ tail \in 1..LOGSIZE /\ crashes \in 0..MaxCrashes
    BY DEF Capacity
  <2>3. home \in [Block -> Content] /\ logged \in [Slot -> Content]
    BY DEF Content
  <2>4. pc \in [Op -> {"begin", "asleep", "in", "done"}] /\ wrote \in [Op -> SUBSET Block]
    OBVIOUS
  <2>5. QED
    BY <2>1, <2>2, <2>3, <2>4 DEF TypeOK
<1>2. Stages
  BY FS_EmptySet DEF Stages, InOp
<1>3. Header /\ Copied /\ Cached
  BY DEF Header, Distinct, Copied, Cached, Logged
<1>4. QED
  BY <1>1, <1>2, <1>3 DEF IInv

LEMMA NextIInv == IInv /\ [Next]_vars => IInv'
BY TypeStep, StagesStep, HeaderStep, CopiedStep, CachedStep DEF IInv

(* At every moment the header, the log blocks, the home blocks and the     *)
(* cache are related as the stage of the commit or of the recovery demands *)
(* (log.c:70-114, 179-203).                                                *)
THEOREM Safety == Spec => []IInv
BY InitIInv, NextIInv, PTL DEF Spec

(* The log's variables keep their shape; the transaction never outgrows    *)
(* the log area on the disk.                                               *)
THEOREM TypeCorrect == Spec => []TypeOK
<1>1. IInv => TypeOK
  BY DEF IInv
<1>2. QED
  BY <1>1, Safety, PTL

(* No system call is in progress while a commit is (log.c:13-16).          *)
THEOREM CommitsRunAlone == Spec => []CommitAlone
<1>1. IInv => CommitAlone
  BY DEF IInv, Stages, CommitAlone
<1>2. QED
  BY <1>1, Safety, PTL

-----------------------------------------------------------------------------
(* What recovery makes of a header, the log blocks and the home blocks.    *)
RecoveredFrom(h, l, m) ==
  [b \in Block |-> IF \E i \in DOMAIN h : h[i] = b
                   THEN l[CHOOSE i \in DOMAIN h : h[i] = b]
                   ELSE m[b]]

LEMMA RecoveredBlocks ==
  ASSUME NEW h \in Seq(Block), Distinct(h), NEW l, NEW m
  PROVE  /\ \A i \in DOMAIN h : RecoveredFrom(h, l, m)[h[i]] = l[i]
         /\ \A b \in Block : (\A i \in DOMAIN h : h[i] # b) => RecoveredFrom(h, l, m)[b] = m[b]
<1>1. ASSUME NEW i \in DOMAIN h
      PROVE  RecoveredFrom(h, l, m)[h[i]] = l[i]
  <2>1. \A j \in DOMAIN h : h[j] = h[i] => j = i
    BY DEF Distinct
  <2>2. (CHOOSE j \in DOMAIN h : h[j] = h[i]) = i
    BY <2>1
  <2>3. h[i] \in Block
    OBVIOUS
  <2>4. QED
    BY <2>2, <2>3 DEF RecoveredFrom
<1>2. QED
  BY <1>1 DEF RecoveredFrom

(* Recovery makes f of the disk if f is logged where the header says so    *)
(* and at home elsewhere.                                                  *)
LEMMA RecoversTo ==
  ASSUME NEW h \in Seq(Block), Distinct(h), NEW l, NEW m, NEW f \in [Block -> Content],
         \A i \in DOMAIN h : l[i] = f[h[i]],
         \A b \in Block : (\A i \in DOMAIN h : h[i] # b) => m[b] = f[b]
  PROVE  RecoveredFrom(h, l, m) = f
<1>1. ASSUME NEW b \in Block PROVE RecoveredFrom(h, l, m)[b] = f[b]
  <2>1. CASE \E i \in DOMAIN h : h[i] = b
    BY <2>1, RecoveredBlocks
  <2>2. CASE ~ \E i \in DOMAIN h : h[i] = b
    BY <2>2, RecoveredBlocks
  <2>3. QED
    BY <2>1, <2>2
<1>2. RecoveredFrom(h, l, m) = [b \in Block |-> RecoveredFrom(h, l, m)[b]]
  BY DEF RecoveredFrom
<1>3. QED
  BY <1>1, <1>2

LEMMA RecoveredIs ==
  /\ Recovered = RecoveredFrom(head, logged, home)
  /\ Recovered' = RecoveredFrom(head', logged', home')
BY DEF Recovered, RecoveredFrom

(* A disk that has not changed recovers as before.                         *)
LEMMA RecoveredSame ==
  ASSUME UNCHANGED disk
  PROVE  Recovered' = Recovered
BY DEF disk, Recovered

(* What the abstract disk sees in a state and in the next one.             *)
Current == IF recovering THEN Recovered ELSE cache

LEMMA AtomicStutter ==
  ASSUME Recovered' = Recovered, Current' = Current, InOp' = InOp
  PROVE  [Atomic!Next]_(Atomic!vars)
BY DEF Atomic!vars, Current

(* The initial states are initial states of the abstract disk.             *)
LEMMA InitAtomic == Init => Atomic!Init
<1> SUFFICES ASSUME Init PROVE Atomic!Init
  OBVIOUS
<1>1. Recovered = [b \in Block |-> Blank] /\ cache = [b \in Block |-> Blank] /\ recovering = FALSE
  BY DEF Init, Recovered
<1>2. InOp = {}
  BY DEF Init, InOp
<1>3. QED
  BY <1>1, <1>2 DEF Atomic!Init

(* A step of log.c is a step of the abstract disk or changes nothing of    *)
(* it: the abstract commit is the write of the header.                     *)
LEMMA NextAtomic == IInv /\ IInv' /\ [Next]_vars => [Atomic!Next]_(Atomic!vars)
<1> SUFFICES ASSUME IInv, IInv', [Next]_vars PROVE [Atomic!Next]_(Atomic!vars)
  OBVIOUS
<1> USE DEF calls, disk, vars
<1>1. ASSUME NEW o \in Op, BeginOp(o) PROVE [Atomic!Next]_(Atomic!vars)
  <2>1. Recovered' = Recovered /\ Current' = Current
    BY <1>1, RecoveredSame DEF BeginOp, Current
  <2>2. CASE pc'[o] = "in"
    <3>1. o \notin InOp /\ InOp' = InOp \cup {o}
      BY <1>1, <2>2 DEF BeginOp, InOp, IInv, TypeOK
    <3>2. Atomic!Begin(o)
      BY <2>1, <3>1 DEF Atomic!Begin, Current
    <3>3. QED
      BY <3>2 DEF Atomic!Next
  <2>3. CASE pc'[o] # "in"
    <3>1. InOp' = InOp
      BY <1>1, <2>3 DEF BeginOp, InOp, IInv, TypeOK
    <3>2. QED
      BY <2>1, <3>1, AtomicStutter
  <2>4. QED
    BY <2>2, <2>3
<1>2. ASSUME NEW o \in Op, NEW b \in Block, LogWrite(o, b) PROVE [Atomic!Next]_(Atomic!vars)
  <2>1. o \in InOp /\ InOp' = InOp /\ Recovered' = Recovered
    BY <1>2, RecoveredSame DEF LogWrite, InOp
  <2>2. ~recovering /\ ~recovering'
    BY <1>2, <2>1 DEF IInv, Stages, LogWrite
  <2>3. cache' = [cache EXCEPT ![b] = o]
    BY <1>2 DEF LogWrite
  <2>4. Atomic!Write(o, b)
    BY <2>1, <2>2, <2>3 DEF Atomic!Write
  <2>5. QED
    BY <2>4 DEF Atomic!Next
<1>3. ASSUME NEW o \in Op, EndOp(o) PROVE [Atomic!Next]_(Atomic!vars)
  <2>1. Recovered' = Recovered /\ Current' = Current
    BY <1>3, RecoveredSame DEF EndOp, Current
  <2>2. o \in InOp /\ InOp' = InOp \ {o}
    BY <1>3 DEF EndOp, WakeAll, InOp, IInv, TypeOK
  <2>3. Atomic!End(o)
    BY <2>1, <2>2 DEF Atomic!End, Current
  <2>4. QED
    BY <2>3 DEF Atomic!Next
<1>4. CASE WriteLog
  <2>1. head = <<>> /\ head' = <<>> /\ home' = home /\ InOp' = InOp
        /\ cache' = cache /\ recovering' = recovering
    BY <1>4 DEF WriteLog, IInv, Header, InOp
  <2>2. Recovered' = Recovered
    BY <2>1 DEF Recovered
  <2>3. QED
    BY <2>1, <2>2, AtomicStutter DEF Current
<1>5. CASE WriteHead
  <2>1. head' = lh /\ logged' = logged /\ home' = home /\ cache' = cache /\ recovering' = recovering
    BY <1>5 DEF WriteHead
  <2>2. ~recovering /\ InOp = {} /\ InOp' = {}
    BY <1>5 DEF WriteHead, IInv, Stages, InOp
  <2>3. lh \in Seq(Block) /\ Distinct(lh) /\ cache \in [Block -> Content]
    BY DEF IInv, TypeOK, Header
  <2>4. \A i \in DOMAIN lh : logged[i] = cache[lh[i]]
    BY <1>5 DEF WriteHead, IInv, Copied
  <2>5. \A b \in Block : (\A i \in DOMAIN lh : lh[i] # b) => home[b] = cache[b]
    BY <1>5 DEF WriteHead, IInv, Cached, Logged
  <2>6. RecoveredFrom(lh, logged, home) = cache
    BY ONLY <2>3, <2>4, <2>5, RecoversTo
  <2>7. Recovered' = cache
    BY <2>1, <2>6, RecoveredIs
  <2>8. Atomic!Commit
    BY <2>1, <2>2, <2>7 DEF Atomic!Commit
  <2>9. QED
    BY <2>8 DEF Atomic!Next
<1>6. CASE Install
  <2>1. InOp' = InOp /\ head' = head /\ head = lh /\ logged' = logged /\ recovering' = recovering
    BY <1>6 DEF Install, InOp, IInv, Header
  <2>2. CASE tail <= Len(lh)
    <3> DEFINE b == lh[tail]
    <3>1. tail \in DOMAIN lh /\ b \in Block
      BY <2>2 DEF IInv, TypeOK
    <3>2. home' = [home EXCEPT ![b] = logged[tail]] /\ cache' = [cache EXCEPT ![b] = logged[tail]]
      BY <1>6, <2>2 DEF Install
    <3>3. \A q \in Block : q # b => home'[q] = home[q]
      BY <3>2 DEF IInv, TypeOK
    <3>4. Recovered' = Recovered
      BY <2>1, <3>1, <3>3 DEF Recovered
    <3>5. ASSUME ~recovering PROVE cache' = cache
      <4>1. logged[tail] = cache[b]
        BY <1>6, <3>1, <3>5 DEF IInv, Copied, Install
      <4>2. QED
        BY <3>1, <3>2, <4>1 DEF IInv, TypeOK
    <3>6. Current' = Current
      BY <2>1, <3>4, <3>5 DEF Current
    <3>7. QED
      BY <2>1, <3>4, <3>6, AtomicStutter
  <2>3. CASE ~(tail <= Len(lh))
    <3>1. UNCHANGED disk /\ cache' = cache
      BY <1>6, <2>3 DEF Install
    <3>2. Recovered' = Recovered
      BY <3>1, RecoveredSame
    <3>3. QED
      BY <2>1, <3>1, <3>2, AtomicStutter DEF Current
  <2>4. QED
    BY <2>2, <2>3
<1>7. CASE EraseHead
  <2>1. lh = <<>> /\ head' = <<>> /\ logged' = logged /\ home' = home /\ cache' = cache
        /\ InOp' = InOp /\ ~recovering' /\ stage = "erase"
    BY <1>7 DEF EraseHead, InOp, IInv, Header
  <2>2. Recovered' = [b \in Block |-> home[b]]
    BY <2>1 DEF Recovered
  <2>3. home \in [Block -> Content] /\ head \in Seq(Block) /\ Distinct(head) /\ cache \in [Block -> Content]
    BY DEF IInv, TypeOK, Header
  <2>4. \A i \in DOMAIN head : logged[i] = home[head[i]]
    BY <2>1 DEF IInv, Copied
  <2>5. RecoveredFrom(head, logged, home) = home
    BY ONLY <2>3, <2>4, RecoversTo
  <2>6. Recovered = home /\ Recovered' = home
    BY <2>2, <2>3, <2>5, RecoveredIs
  <2>7. Logged = {}
    BY <2>1 DEF Logged
  <2>8. \A b \in Block : cache[b] = home[b]
    BY <2>1, <2>7 DEF IInv, Cached
  <2>9. cache = home
    BY <2>3, <2>8
  <2>10. Current' = Current
    BY <2>1, <2>6, <2>9 DEF Current
  <2>11. QED
    BY <2>1, <2>6, <2>10, AtomicStutter
<1>8. CASE FinishCommit
  <2>1. UNCHANGED disk /\ cache' = cache /\ recovering' = recovering
    BY <1>8 DEF FinishCommit
  <2>2. InOp' = InOp
    BY <1>8 DEF FinishCommit, WakeAll, InOp
  <2>3. Recovered' = Recovered
    BY <2>1, RecoveredSame
  <2>4. QED
    BY <2>1, <2>2, <2>3, AtomicStutter DEF Current
<1>9. ASSUME NEW b \in Block, Recycle(b) PROVE [Atomic!Next]_(Atomic!vars)
  <2>1. UNCHANGED disk /\ recovering' = recovering /\ InOp' = InOp
    BY <1>9 DEF Recycle, InOp
  <2>2. cache' = cache
    BY <1>9 DEF Recycle, IInv, Cached, TypeOK
  <2>3. Recovered' = Recovered
    BY <2>1, RecoveredSame
  <2>4. QED
    BY <2>1, <2>2, <2>3, AtomicStutter DEF Current
<1>10. CASE Crash
  <2>1. UNCHANGED disk /\ recovering' /\ InOp' = {}
    BY <1>10 DEF Crash, InOp
  <2>2. Recovered' = Recovered
    BY <2>1, RecoveredSame
  <2>3. Atomic!Crash
    BY <2>1, <2>2 DEF Atomic!Crash
  <2>4. QED
    BY <2>3 DEF Atomic!Next
<1>11. CASE ReadHead
  <2>1. UNCHANGED disk /\ cache' = cache /\ recovering' = recovering /\ InOp' = InOp
    BY <1>11 DEF ReadHead, InOp
  <2>2. Recovered' = Recovered
    BY <2>1, RecoveredSame
  <2>3. QED
    BY <2>1, <2>2, AtomicStutter DEF Current
<1>12. CASE Done \/ UNCHANGED vars
  <2>1. UNCHANGED disk /\ cache' = cache /\ recovering' = recovering /\ InOp' = InOp
    BY <1>12 DEF Done, InOp
  <2>2. Recovered' = Recovered
    BY <2>1, RecoveredSame
  <2>3. QED
    BY <2>1, <2>2, AtomicStutter DEF Current
<1>13. QED
  BY <1>1, <1>2, <1>3, <1>4, <1>5, <1>6, <1>7, <1>8, <1>9, <1>10, <1>11, <1>12 DEF Next, Commit

(* log.c implements the atomic disk, whatever the number of system calls,  *)
(* of blocks and of crashes.                                               *)
THEOREM ImplementsAtomicDisk == Spec => AtomicDisk
BY InitAtomic, NextAtomic, Safety, PTL DEF Spec, AtomicDisk, Atomic!Spec

-----------------------------------------------------------------------------
(* Room in the log.  A system call has a credit for each block it reserved *)
(* and has not logged; credits and logged blocks fit in the log area, with *)
(* a block to spare when one call is left alone: either the log was empty  *)
(* when it began, or a call that ended gave back a credit it cannot use.   *)
Credit ==
  {x \in Op \X (1..MAXOPBLOCKS) :
     x[1] \in InOp /\ x[2] <= MAXOPBLOCKS - Cardinality(wrote[x[1]])}

Reserved ==
  /\ \A o \in Op : pc[o] # "in" => wrote[o] = {}
  /\ \A o \in InOp : /\ wrote[o] \subseteq Logged /\ IsFiniteSet(wrote[o])
                     /\ Cardinality(wrote[o]) <= OpBlocks
  /\ stage = "idle" /\ ~recovering /\ InOp = {} => lh = <<>>
  /\ InOp # {} => Len(lh) + Cardinality(Credit) + (IF outstanding = 1 THEN 1 ELSE 0) <= LOGSIZE

LEMMA CreditBounds ==
  ASSUME TypeOK, Stages, Reserved
  PROVE  /\ IsFiniteSet(Credit) /\ Cardinality(Credit) \in Nat
         /\ Cardinality(Credit) <= outstanding * MAXOPBLOCKS
         /\ outstanding <= Cardinality(Credit)
<1>1. IsFiniteSet(InOp) /\ Cardinality(InOp) = outstanding
  BY CallsFinite DEF Stages
<1>2. IsFiniteSet(1..MAXOPBLOCKS) /\ Cardinality(1..MAXOPBLOCKS) = MAXOPBLOCKS
  BY LogAssumption, FS_Interval
<1>3. IsFiniteSet(InOp \X (1..MAXOPBLOCKS)) /\ Cardinality(InOp \X (1..MAXOPBLOCKS)) = outstanding * MAXOPBLOCKS
  BY <1>1, <1>2, FS_Product
<1>4. Credit \in SUBSET (InOp \X (1..MAXOPBLOCKS))
  BY DEF Credit
<1>5. IsFiniteSet(Credit) /\ Cardinality(Credit) <= outstanding * MAXOPBLOCKS
  BY <1>3, <1>4, FS_Subset
<1>6. IsFiniteSet({1}) /\ Cardinality({1}) = 1
  BY FS_Singleton
<1>7. Cardinality(InOp \X {1}) = outstanding * 1
  BY <1>1, <1>6, FS_Product
<1>8. InOp \X {1} \in SUBSET Credit
  <2>1. SUFFICES ASSUME NEW o \in InOp PROVE <<o, 1>> \in Credit
    OBVIOUS
  <2>2. Cardinality(wrote[o]) \in Nat /\ Cardinality(wrote[o]) <= OpBlocks
    BY FS_CardinalityType DEF Reserved
  <2>3. 1 \in 1..MAXOPBLOCKS /\ 1 <= MAXOPBLOCKS - Cardinality(wrote[o]) /\ o \in Op
    BY <2>2, LogAssumption DEF InOp
  <2> QED
    BY <2>3 DEF Credit
<1>9. Cardinality(InOp \X {1}) <= Cardinality(Credit)
  BY <1>5, <1>8, FS_Subset
<1> QED
  BY <1>5, <1>7, <1>9, FS_CardinalityType DEF TypeOK

(* A call that begins takes MAXOPBLOCKS credits.                           *)
LEMMA BeginReserves ==
  ASSUME IInv, Reserved, IInv', NEW o \in Op, BeginOp(o)
  PROVE  Reserved'
<1> USE LogAssumption DEF IInv, calls, disk
<1>1. UNCHANGED <<wrote, lh, stage, recovering>>
  BY DEF BeginOp
<1>2. CASE pc' = [pc EXCEPT ![o] = "asleep"] /\ UNCHANGED outstanding
  <2>1. InOp' = InOp
    BY <1>2 DEF InOp, BeginOp, TypeOK
  <2>2. Credit' = Credit
    BY <2>1, <1>1 DEF Credit
  <2>3. \A u \in Op : pc'[u] # "in" => wrote'[u] = {}
    BY <1>1, <1>2 DEF TypeOK, BeginOp, Reserved
  <2> QED
    BY <1>1, <1>2, <2>1, <2>2, <2>3 DEF Reserved, Logged
<1>3. CASE pc' = [pc EXCEPT ![o] = "in"] /\ outstanding' = outstanding + 1 /\ Fits /\ ~committing
  <2>1. wrote[o] = {} /\ InOp' = InOp \cup {o} /\ o \notin InOp
    BY <1>3 DEF InOp, BeginOp, TypeOK, Reserved
  <2>2. \A u \in Op : pc'[u] # "in" => wrote'[u] = {}
    BY <1>1, <1>3 DEF TypeOK, Reserved
  <2>3. \A u \in InOp' : /\ wrote'[u] \subseteq Logged' /\ IsFiniteSet(wrote'[u])
                         /\ Cardinality(wrote'[u]) <= OpBlocks
    <3>1. Logged' = Logged /\ wrote' = wrote
      BY <1>1 DEF Logged
    <3>2. IsFiniteSet(wrote[o]) /\ Cardinality(wrote[o]) = 0
      BY <2>1, FS_EmptySet
    <3>3. ASSUME NEW u \in InOp
          PROVE  /\ wrote[u] \subseteq Logged /\ IsFiniteSet(wrote[u])
                 /\ Cardinality(wrote[u]) <= OpBlocks
      BY DEF Reserved
    <3> QED
      BY <2>1, <3>1, <3>2, <3>3
  <2>4. IsFiniteSet(InOp') /\ Cardinality(InOp') = outstanding'
    BY <2>1, CallsFinite, FS_AddElement DEF Stages
  <2>5. IsFiniteSet(1..MAXOPBLOCKS) /\ Cardinality(1..MAXOPBLOCKS) = MAXOPBLOCKS
    BY FS_Interval
  <2>6. /\ IsFiniteSet(InOp' \X (1..MAXOPBLOCKS))
        /\ Cardinality(InOp' \X (1..MAXOPBLOCKS)) = outstanding' * MAXOPBLOCKS
    BY <2>4, <2>5, FS_Product
  <2>7. Credit' \in SUBSET (InOp' \X (1..MAXOPBLOCKS))
    BY DEF Credit
  <2>8. Cardinality(Credit') <= outstanding' * MAXOPBLOCKS /\ Cardinality(Credit') \in Nat
    BY <2>6, <2>7, FS_Subset, FS_CardinalityType
  <2>9. Len(lh) + outstanding' * MAXOPBLOCKS <= LOGSIZE /\ Len(lh) \in Nat
    BY <1>3 DEF Fits, TypeOK
  <2>10. outstanding' * MAXOPBLOCKS \in Nat
    BY <1>3 DEF TypeOK
  <2>11. outstanding' # 1 => Len(lh') + Cardinality(Credit') + 0 <= LOGSIZE
    BY <1>1, <2>8, <2>9, <2>10
  <2>12. outstanding' = 1 => Len(lh') + Cardinality(Credit') + 1 <= LOGSIZE
    <3>1. SUFFICES ASSUME outstanding' = 1 PROVE Len(lh') + Cardinality(Credit') + 1 <= LOGSIZE
      OBVIOUS
    <3>2. outstanding = 0
      BY <1>3, <3>1 DEF TypeOK
    <3>3. InOp = {}
      BY <3>2, CallsFinite, FS_EmptySet DEF Stages
    <3>4. lh = <<>>
      BY <3>3, <1>3 DEF BeginOp, Stages, Reserved
    <3>5. Cardinality(Credit') <= MAXOPBLOCKS
      BY <2>8, <3>1
    <3> QED
      BY <3>4, <3>5, <2>8, <1>1
  <2> QED
    BY <2>1, <2>2, <2>3, <2>11, <2>12 DEF Reserved
<1> QED
  BY <1>2, <1>3 DEF BeginOp

(* A block that is new in the log costs a credit of the call that logs it. *)
LEMMA WriteSpends ==
  ASSUME IInv, Reserved, NEW o \in Op, NEW b \in Block, LogWrite(o, b)
  PROVE  Reserved'
<1> USE LogAssumption DEF IInv, calls, disk
<1>1. /\ UNCHANGED <<pc, outstanding, stage, recovering>>
      /\ wrote' = [wrote EXCEPT ![o] = @ \cup {b}]
      /\ Cardinality(wrote[o] \cup {b}) <= OpBlocks
      /\ o \in InOp
  BY DEF LogWrite, InOp
<1>2. InOp' = InOp
  BY <1>1 DEF InOp
<1>3. /\ lh' = IF b \in Logged THEN lh ELSE Append(lh, b)
      /\ Logged' = Logged \cup {b}
      /\ Len(lh') <= Len(lh) + (IF b \in Logged THEN 0 ELSE 1) /\ Len(lh') \in Nat /\ Len(lh) \in Nat
  <2>1. CASE b \in Logged
    BY <2>1 DEF LogWrite, Logged, TypeOK
  <2>2. CASE b \notin Logged
    <3>1. lh' = Append(lh, b) /\ lh \in Seq(Block)
      BY <2>2 DEF LogWrite, TypeOK
    <3>2. Len(lh') = Len(lh) + 1 /\ lh'[Len(lh) + 1] = b /\ \A i \in 1..Len(lh) : lh'[i] = lh[i]
      BY <3>1
    <3>3. DOMAIN lh' = DOMAIN lh \cup {Len(lh) + 1}
      BY <3>1
    <3> QED
      BY <2>2, <3>1, <3>2, <3>3 DEF Logged
  <2> QED
    BY <2>1, <2>2
<1>4. /\ wrote'[o] = wrote[o] \cup {b}
      /\ \A u \in Op : u # o => wrote'[u] = wrote[u]
  BY <1>1 DEF TypeOK
<1>5. /\ IsFiniteSet(wrote[o]) /\ Cardinality(wrote[o]) \in Nat /\ wrote[o] \subseteq Logged
      /\ Cardinality(wrote[o]) <= OpBlocks
  BY <1>1, FS_CardinalityType DEF Reserved
<1>6. IsFiniteSet(wrote'[o]) /\ Cardinality(wrote'[o]) <= OpBlocks
  <2>1. IsFiniteSet(wrote[o] \cup {b}) /\ Cardinality(wrote[o] \cup {b}) <= OpBlocks
    BY <1>1, <1>5, FS_AddElement
  <2> QED
    BY <2>1, <1>4
<1>7. \A u \in InOp' : /\ wrote'[u] \subseteq Logged' /\ IsFiniteSet(wrote'[u])
                       /\ Cardinality(wrote'[u]) <= OpBlocks
  BY <1>2, <1>3, <1>4, <1>5, <1>6 DEF Reserved, InOp
<1>8. \A u \in Op : pc'[u] # "in" => wrote'[u] = {}
  BY <1>1, <1>4 DEF Reserved, InOp
<1>9. Len(lh') + Cardinality(Credit') <= Len(lh) + Cardinality(Credit)
      /\ Cardinality(Credit') \in Nat /\ Cardinality(Credit) \in Nat
  <2>1. IsFiniteSet(Credit) /\ Cardinality(Credit) \in Nat
    BY CreditBounds
  <2>2. CASE b \in wrote[o]
    <3>1. wrote' = wrote
      BY <2>2, <1>1 DEF TypeOK
    <3>2. Credit' = Credit
      BY <3>1, <1>2 DEF Credit
    <3> QED
      BY <2>1, <2>2, <3>2, <1>3, <1>5
  <2>3. CASE b \notin wrote[o]
    <3>1. Cardinality(wrote'[o]) = Cardinality(wrote[o]) + 1
      BY <2>3, <1>4, <1>5, FS_AddElement, ZenonT(40)
    <3> DEFINE spent == <<o, MAXOPBLOCKS - Cardinality(wrote[o])>>
    <3>2. spent \in Credit
      BY <1>1, <1>5 DEF Credit, InOp
    <3>3. Credit' = Credit \ {spent}
      <4>1. \A u \in InOp, j \in 1..MAXOPBLOCKS :
              j <= MAXOPBLOCKS - Cardinality(wrote'[u])
                <=> j <= MAXOPBLOCKS - Cardinality(wrote[u]) /\ <<u, j>> # spent
        <5>1. TAKE u \in InOp, j \in 1..MAXOPBLOCKS
        <5>2. CASE u = o
          BY <5>2, <3>1, <1>5
        <5>3. CASE u # o
          BY <5>3, <1>4 DEF InOp
        <5> QED
          BY <5>2, <5>3
      <4> HIDE DEF spent
      <4> QED
        BY <4>1, <1>2 DEF Credit, InOp
    <3>4. Cardinality(Credit') = Cardinality(Credit) - 1 /\ IsFiniteSet(Credit')
      BY <2>1, <3>2, <3>3, FS_RemoveElement
    <3> QED
      BY <2>1, <3>4, <1>3, FS_CardinalityType
  <2> QED
    BY <2>2, <2>3
<1>10. Len(lh') + Cardinality(Credit') + (IF outstanding' = 1 THEN 1 ELSE 0) <= LOGSIZE
  <2>1. Len(lh) + Cardinality(Credit) + (IF outstanding = 1 THEN 1 ELSE 0) <= LOGSIZE
    BY <1>1 DEF Reserved
  <2> QED
    BY <2>1, <1>1, <1>3, <1>9
<1> QED
  BY <1>1, <1>2, <1>7, <1>8, <1>10 DEF Reserved

(* A call that ends has a credit left: it logs fewer blocks than it        *)
(* reserved.                                                               *)
LEMMA EndGivesBack ==
  ASSUME IInv, Reserved, NEW o \in Op, EndOp(o)
  PROVE  Reserved'
<1> USE LogAssumption DEF IInv, calls, disk
<1>1. /\ outstanding' = outstanding - 1 /\ outstanding \in Nat
      /\ UNCHANGED <<lh, recovering>> /\ wrote' = [wrote EXCEPT ![o] = {}]
      /\ o \in InOp
  BY DEF EndOp, InOp, TypeOK
<1>2. InOp' = InOp \ {o}
  BY DEF EndOp, WakeAll, InOp, TypeOK
<1>3. \A u \in Op : pc'[u] # "in" => wrote'[u] = {}
  BY <1>1, <1>2 DEF Reserved, InOp, TypeOK
<1>4. \A u \in InOp' : wrote'[u] = wrote[u]
  BY <1>1, <1>2 DEF InOp, TypeOK
<1>5. \A u \in InOp' : /\ wrote'[u] \subseteq Logged' /\ IsFiniteSet(wrote'[u])
                       /\ Cardinality(wrote'[u]) <= OpBlocks
  BY <1>1, <1>2, <1>4 DEF Reserved, Logged
<1>6. outstanding # 0 /\ outstanding = Cardinality(InOp)
  BY <1>1, CallsFinite, FS_EmptySet DEF Stages
<1>7. CASE LastOp
  <2>1. InOp' = {}
    <3>1. IsFiniteSet(InOp \ {o}) /\ Cardinality(InOp \ {o}) = Cardinality(InOp) - 1
      BY <1>1, CallsFinite, FS_RemoveElement
    <3>2. Cardinality(InOp) = 1
      BY <1>6, <1>7 DEF LastOp
    <3> QED
      BY <1>2, <3>1, <3>2, FS_EmptySet
  <2>2. stage' # "idle"
    BY <1>7 DEF EndOp
  <2> QED
    BY <2>1, <2>2, <1>3, <1>5 DEF Reserved
<1>8. CASE ~LastOp
  <2>1. outstanding > 1
    BY <1>1, <1>6, <1>8 DEF LastOp
  <2>2. <<o, 1>> \in Credit
    <3>1. Cardinality(wrote[o]) \in Nat /\ Cardinality(wrote[o]) <= OpBlocks
      BY <1>1, FS_CardinalityType DEF Reserved
    <3> QED
      BY <3>1, <1>1 DEF Credit, InOp
  <2>3. Credit' \in SUBSET (Credit \ {<<o, 1>>})
    BY <1>2, <1>4 DEF Credit
  <2>4. /\ IsFiniteSet(Credit \ {<<o, 1>>}) /\ Cardinality(Credit) \in Nat
        /\ Cardinality(Credit \ {<<o, 1>>}) = Cardinality(Credit) - 1
    BY <2>2, CreditBounds, FS_RemoveElement
  <2>5. Cardinality(Credit') <= Cardinality(Credit) - 1 /\ Cardinality(Credit') \in Nat
    BY <2>3, <2>4, FS_Subset, FS_CardinalityType
  <2>6. Len(lh) + Cardinality(Credit) <= LOGSIZE /\ Len(lh) \in Nat
    BY <1>1, <2>1, <2>4, SMTT(30) DEF Reserved, TypeOK
  <2>7. Len(lh') + Cardinality(Credit') + (IF outstanding' = 1 THEN 1 ELSE 0) <= LOGSIZE
    <3>1. lh' = lh
      BY <1>1
    <3>2. Len(lh) + Cardinality(Credit') + 1 <= LOGSIZE
      BY <2>4, <2>5, <2>6
    <3> QED
      BY <2>5, <2>6, <3>1, <3>2
  <2>8. InOp' # {}
    <3>1. Cardinality(InOp') = outstanding - 1
      BY <1>1, <1>2, <1>6, CallsFinite, FS_RemoveElement
    <3> QED
      BY <3>1, <2>1, <1>1, FS_EmptySet
  <2> QED
    BY <2>7, <2>8, <1>3, <1>5 DEF Reserved
<1> QED
  BY <1>7, <1>8

(* No call is in progress while blocks are committed or recovered, and     *)
(* none is left by a crash.                                                *)
LEMMA OthersReserve ==
  ASSUME IInv, Reserved, Commit \/ Crash \/ (\E b \in Block : Recycle(b)) \/ UNCHANGED vars
  PROVE  Reserved'
<1> USE LogAssumption DEF IInv, calls, disk
<1>1. CASE Commit
  <2>1. InOp = {}
    BY <1>1 DEF Commit, WriteLog, WriteHead, Install, EraseHead, FinishCommit, ReadHead, Stages
  <2>2. \A u \in Op : pc'[u] = "in" <=> pc[u] = "in"
    BY <1>1 DEF Commit, WriteLog, WriteHead, Install, EraseHead, FinishCommit, ReadHead, WakeAll, TypeOK
  <2>3. InOp' = {}
    BY <2>1, <2>2 DEF InOp
  <2>4. wrote' = wrote
    BY <1>1 DEF Commit, WriteLog, WriteHead, Install, EraseHead, FinishCommit, ReadHead
  <2>5. stage' = "idle" => lh' = <<>>
    BY <1>1 DEF Commit, WriteLog, WriteHead, Install, EraseHead, FinishCommit, ReadHead, Header
  <2> QED
    BY <2>1, <2>2, <2>3, <2>4, <2>5 DEF Reserved
<1>2. CASE Crash
  BY <1>2 DEF Crash, Reserved, InOp, TypeOK
<1>3. CASE (\E b \in Block : Recycle(b)) \/ UNCHANGED vars
  <2>1. UNCHANGED <<pc, wrote, outstanding, lh, stage, recovering>>
    BY <1>3 DEF Recycle, vars
  <2> QED
    BY <2>1 DEF Reserved, Credit, InOp, Logged
<1> QED
  BY <1>1, <1>2, <1>3

(* Whoever calls log_write() finds room: "too big a transaction" is never  *)
(* the answer, although the log area is a block smaller than begin_op()    *)
(* counts with (log.c:136, 219-222).                                       *)
THEOREM RoomForEveryCall == Spec => []RoomInLog
<1>1. Init => Reserved
  BY DEF Init, Reserved, InOp
<1>2. IInv /\ IInv' /\ Reserved /\ [Next]_vars => Reserved'
  BY BeginReserves, WriteSpends, EndGivesBack, OthersReserve DEF Next, Done
<1>3. IInv /\ Reserved => RoomInLog
  <2>1. SUFFICES ASSUME IInv, Reserved, InOp # {} PROVE Len(lh) < Capacity
    BY DEF RoomInLog
  <2>2. outstanding # 0 /\ outstanding \in Nat
    BY <2>1, CallsFinite, FS_EmptySet DEF IInv, Stages, TypeOK
  <2>3. outstanding <= Cardinality(Credit) /\ Cardinality(Credit) \in Nat
    BY <2>1, CreditBounds DEF IInv
  <2>4. Len(lh) + Cardinality(Credit) + (IF outstanding = 1 THEN 1 ELSE 0) <= LOGSIZE
    BY <2>1 DEF Reserved
  <2> QED
    BY <2>1, <2>2, <2>3, <2>4, LogAssumption DEF Capacity, IInv, TypeOK
<1> QED
  BY <1>1, <1>2, <1>3, Safety, PTL DEF Spec
=============================================================================
