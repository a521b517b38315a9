------------------------- MODULE LazyReadWriteProofs -------------------------
(***************************************************************************)
(* Safety of LazyReadWrite for every finite set of threads and every       *)
(* max_concurrency.  IInv is inductive: it adds to the checked invariants  *)
(* which requests can be at which statement, and that write_limit is 0     *)
(* exactly while one writer is between its sem_wait and its sem_post.      *)
(***************************************************************************)
EXTENDS LazyReadWrite, FiniteSetTheorems, TLAPS

LabelsMatch ==
  \A u \in User :
    /\ pc[u] \in {"deleteLock", "test", "wait", "woken", "remove"} => op[u] = "D"
    /\ pc[u] \in {"writeLimit", "postWrite"} => op[u] = "W"
    /\ pc[u] = "finish" => op[u] # "D"

OneWriteHolder ==
  /\ \A u, v \in WriteHolders : u = v
  /\ writeLimit = IF WriteHolders = {} THEN 1 ELSE 0
  /\ isWriting <=> Writers # {}

IInv == /\ TypeOK
        /\ LabelsMatch
        /\ OneWriteHolder
        /\ ReadersCounted
        /\ SlotsConserved
        /\ NoLostWakeup

-----------------------------------------------------------------------------
(* A step of u moves u to one label and nobody else, except that a signal  *)
(* may take one waiter out of the wait set.                                *)
OthersStay(u) ==
  \A v \in User \ {u} : pc'[v] = pc[v] \/ (pc[v] = "wait" /\ pc'[v] = "woken")

LEMMA GotoMoves ==
  ASSUME TypeOK, NEW u \in User, NEW label \in Label, Goto(u, label)
  PROVE  /\ pc' \in [User -> Label]
         /\ pc'[u] = label
         /\ \A v \in User \ {u} : pc'[v] = pc[v]
BY DEF TypeOK, Goto

LEMMA SignalMoves ==
  ASSUME TypeOK, NEW u \in User, NEW label \in Label, pc[u] # "wait",
         SignalAndGoto(u, label)
  PROVE  /\ pc' \in [User -> Label]
         /\ pc'[u] = label
         /\ OthersStay(u)
         /\ Waiting # {} => \E w \in Waiting : pc'[w] = "woken"
<1>1. CASE Waiting = {}
  BY <1>1, GotoMoves DEF SignalAndGoto, OthersStay
<1>2. CASE Waiting # {}
  <2>1. PICK w \in Waiting : pc' = [pc EXCEPT ![u] = label, ![w] = "woken"]
    BY <1>2 DEF SignalAndGoto
  <2>2. w \in User /\ pc[w] = "wait" /\ w # u
    BY DEF Waiting
  <2>3. "woken" \in Label
    BY DEF Label
  <2>4. pc' \in [User -> Label]
    BY <2>1, <2>2, <2>3 DEF TypeOK
  <2>5. /\ pc'[u] = label
        /\ pc'[w] = "woken"
        /\ \A v \in User \ {u, w} : pc'[v] = pc[v]
    BY <2>1, <2>2 DEF TypeOK
  <2> QED
    BY <2>2, <2>4, <2>5 DEF OthersStay
<1> QED
  BY <1>1, <1>2

(* Every step has this shape; the conjuncts about the shared variables are *)
(* then a matter of where u was and where it went.                         *)
LEMMA StepShape ==
  ASSUME TypeOK, LabelsMatch, NEW u \in User, Step(u) \/ SpuriousWakeup(u)
  PROVE  /\ op' = op
         /\ pc' \in [User -> Label]
         /\ OthersStay(u)
         /\ pc[u] # "wait" \/ pc'[u] = "woken"
<1> USE DEF Label, OthersStay
<1>1. ASSUME NEW label \in Label, Goto(u, label)
      PROVE  pc' \in [User -> Label] /\ pc'[u] = label /\ OthersStay(u)
  BY <1>1, GotoMoves
<1>2. CASE Start(u)
  BY <1>1, <1>2 DEF Start
<1>3. CASE AcquireAccess(u)
  BY <1>1, <1>3 DEF AcquireAccess
<1>4. CASE AcquireWrite(u)
  BY <1>1, <1>4 DEF AcquireWrite
<1>5. CASE Decline(u)
  BY <1>1, <1>5 DEF Decline, PostLabel
<1>6. CASE TakeUpRead(u)
  BY <1>1, <1>6 DEF TakeUpRead
<1>7. CASE TakeUpWrite(u)
  BY <1>1, <1>7 DEF TakeUpWrite
<1>8. CASE CheckDelete(u)
  BY <1>1, <1>8 DEF CheckDelete
<1>9. CASE LockToFinish(u)
  BY <1>1, <1>9 DEF LockToFinish
<1>10. CASE FinishRead(u)
  BY <1>10, SignalMoves DEF FinishRead
<1>11. CASE FinishWrite(u)
  BY <1>11, SignalMoves DEF FinishWrite
<1>12. CASE LockDelete(u)
  BY <1>1, <1>12 DEF LockDelete
<1>13. CASE TestDelete(u)
  BY <1>1, <1>13 DEF TestDelete
<1>14. CASE Remove(u)
  BY <1>1, <1>14 DEF Remove
<1>15. CASE FinishDelete(u)
  BY <1>1, <1>15 DEF FinishDelete
<1>16. CASE PostWrite(u)
  BY <1>1, <1>16 DEF PostWrite
<1>17. CASE PostAccess(u)
  BY <1>1, <1>17 DEF PostAccess
<1>18. CASE SpuriousWakeup(u)
  BY <1>1, <1>18 DEF SpuriousWakeup
<1> QED
  BY <1>2, <1>3, <1>4, <1>5, <1>6, <1>7, <1>8, <1>9, <1>10, <1>11, <1>12,
     <1>13, <1>14, <1>15, <1>16, <1>17, <1>18 DEF Step

-----------------------------------------------------------------------------
(* The sets the invariants count, one element at a time.                   *)
LEMMA HoldersFinite ==
  /\ IsFiniteSet(AccessHolders)
  /\ Cardinality(AccessHolders) \in Nat
  /\ IsFiniteSet(Readers)
  /\ Cardinality(Readers) \in Nat
BY RWAssumption, FS_Subset, FS_CardinalityType DEF AccessHolders, Readers

LEMMA SlotsStep ==
  ASSUME TypeOK, LabelsMatch, SlotsConserved,
         NEW u \in User, Step(u) \/ SpuriousWakeup(u)
  PROVE  SlotsConserved' /\ accessLimit' \in 0..MaxConcurrency
<1>1. /\ pc' \in [User -> Label]
      /\ \A v \in User \ {u} : pc'[v] = pc[v] \/ (pc[v] = "wait" /\ pc'[v] = "woken")
  BY StepShape DEF OthersStay
<1>2. /\ Cardinality(AccessHolders) \in Nat
      /\ Cardinality(AccessHolders') \in Nat
  BY RWAssumption, FS_Subset, FS_CardinalityType
  DEF AccessHolders
<1>3. CASE AcquireAccess(u)
  <2>1. pc[u] = "access" /\ pc'[u] \in {"writeLimit", "check"}
    BY <1>3, GotoMoves DEF AcquireAccess, Label
  <2>2. AccessHolders' = AccessHolders \cup {u} /\ u \notin AccessHolders
    BY <1>1, <2>1 DEF AccessHolders
  <2>3. Cardinality(AccessHolders') = Cardinality(AccessHolders) + 1
    BY <2>2, HoldersFinite, FS_AddElement
  <2> QED
    BY <1>2, <1>3, <2>3, RWAssumption DEF AcquireAccess, SlotsConserved, TypeOK
<1>4. CASE PostAccess(u)
  <2>1. pc[u] = "postAccess" /\ pc'[u] = "done"
    BY <1>4, GotoMoves DEF PostAccess, Label
  <2>2. AccessHolders' = AccessHolders \ {u} /\ u \in AccessHolders
    BY <1>1, <2>1 DEF AccessHolders
  <2>3. Cardinality(AccessHolders') = Cardinality(AccessHolders) - 1
    BY <2>2, HoldersFinite, FS_RemoveElement
  <2> QED
    BY <1>2, <1>4, <2>3, RWAssumption DEF PostAccess, SlotsConserved, TypeOK
<1>5. CASE ~AcquireAccess(u) /\ ~PostAccess(u)
  <2>1. /\ accessLimit' = accessLimit
        /\ \/ /\ pc[u] = "start" /\ pc'[u] \in {"access", "done"}
           \/ /\ pc[u] \notin {"start", "access", "done"}
              /\ pc'[u] \notin {"start", "access", "done"}
    <3>1. CASE Start(u)
      BY <3>1, GotoMoves DEF Start, Label, sync
    <3>2. CASE FinishRead(u)
      BY <3>2, SignalMoves DEF FinishRead, Label
    <3>3. CASE FinishWrite(u)
      BY <3>3, SignalMoves DEF FinishWrite, Label
    <3>4. CASE AcquireWrite(u) \/ Decline(u) \/ TakeUpRead(u) \/ TakeUpWrite(u)
               \/ CheckDelete(u) \/ LockToFinish(u)
      BY <3>4, GotoMoves
      DEF AcquireWrite, Decline, TakeUpRead, TakeUpWrite, CheckDelete,
          LockToFinish, PostLabel, Label, sync
    <3>5. CASE LockDelete(u) \/ TestDelete(u) \/ Remove(u) \/ FinishDelete(u)
               \/ PostWrite(u) \/ SpuriousWakeup(u)
      BY <3>5, GotoMoves
      DEF LockDelete, TestDelete, Remove, FinishDelete, PostWrite,
          SpuriousWakeup, Label, sync
    <3> QED
      BY <1>5, <3>1, <3>2, <3>3, <3>4, <3>5 DEF Step
  <2>2. AccessHolders' = AccessHolders
    BY <1>1, <2>1 DEF AccessHolders
  <2> QED
    BY <2>1, <2>2 DEF SlotsConserved, TypeOK
<1> QED
  BY <1>3, <1>4, <1>5

LEMMA ReadersCountedStep ==
  ASSUME TypeOK, LabelsMatch, ReadersCounted,
         NEW u \in User, Step(u) \/ SpuriousWakeup(u)
  PROVE  ReadersCounted' /\ readCount' \in Nat
<1>1. /\ op' = op
      /\ pc' \in [User -> Label]
      /\ \A v \in User \ {u} : pc'[v] = pc[v] \/ (pc[v] = "wait" /\ pc'[v] = "woken")
  BY StepShape DEF OthersStay
<1>2. CASE TakeUpRead(u)
  <2>1. op[u] = "R" /\ pc[u] = "check" /\ pc'[u] = "working"
    BY <1>2, GotoMoves DEF TakeUpRead, Label
  <2>2. Readers' = Readers \cup {u} /\ u \notin Readers
    BY <1>1, <2>1 DEF Readers, Reading
  <2>3. Cardinality(Readers') = Cardinality(Readers) + 1
    BY <2>2, HoldersFinite, FS_AddElement
  <2> QED
    BY <1>2, <2>3, HoldersFinite DEF TakeUpRead, ReadersCounted
<1>3. CASE FinishRead(u)
  <2>1. op[u] = "R" /\ pc[u] = "finish" /\ pc'[u] = "postAccess"
    BY <1>3, SignalMoves DEF FinishRead, Label
  <2>2. Readers' = Readers \ {u} /\ u \in Readers
    BY <1>1, <2>1 DEF Readers, Reading
  <2>3. /\ Cardinality(Readers') = Cardinality(Readers) - 1
        /\ Cardinality(Readers') \in Nat
    BY <2>2, HoldersFinite, FS_RemoveElement, FS_CardinalityType
  <2> QED
    BY <1>3, <2>3 DEF FinishRead, ReadersCounted
<1>4. CASE ~TakeUpRead(u) /\ ~FinishRead(u)
  <2>1. /\ readCount' = readCount
        /\ \/ op[u] # "R"
           \/ /\ pc[u] \in {"working", "finish"}
              /\ pc'[u] \in {"working", "finish"}
           \/ /\ pc[u] \notin {"working", "finish"}
              /\ pc'[u] \notin {"working", "finish"}
    <3>1. CASE Start(u) \/ AcquireAccess(u) \/ AcquireWrite(u) \/ Decline(u)
      BY <3>1, GotoMoves
      DEF Start, AcquireAccess, AcquireWrite, Decline, PostLabel, Label, file
    <3>2. CASE TakeUpWrite(u) \/ CheckDelete(u) \/ FinishDelete(u)
      BY <3>2 DEF TakeUpWrite, CheckDelete, FinishDelete, file
    <3>3. CASE LockToFinish(u)
      BY <3>3, GotoMoves DEF LockToFinish, Label, file
    <3>4. CASE FinishWrite(u)
      BY <3>4 DEF FinishWrite
    <3>5. CASE LockDelete(u) \/ TestDelete(u) \/ Remove(u) \/ SpuriousWakeup(u)
      BY <3>5 DEF LockDelete, TestDelete, Remove, SpuriousWakeup, LabelsMatch, file
    <3>6. CASE PostWrite(u) \/ PostAccess(u)
      BY <3>6, GotoMoves DEF PostWrite, PostAccess, Label, file
    <3> QED
      BY <1>4, <3>1, <3>2, <3>3, <3>4, <3>5, <3>6 DEF Step
  <2>2. Readers' = Readers
    BY <1>1, <2>1 DEF Readers, Reading
  <2> QED
    BY <2>1, <2>2 DEF ReadersCounted, TypeOK
<1> QED
  BY <1>2, <1>3, <1>4

LEMMA LabelsMatchStep ==
  ASSUME TypeOK, LabelsMatch, NEW u \in User, Step(u) \/ SpuriousWakeup(u)
  PROVE  LabelsMatch'
<1>1. /\ op' = op
      /\ \A v \in User \ {u} : pc'[v] = pc[v] \/ (pc[v] = "wait" /\ pc'[v] = "woken")
  BY StepShape DEF OthersStay
<1>2. /\ pc'[u] \in {"deleteLock", "test", "wait", "woken", "remove"} => op[u] = "D"
      /\ pc'[u] \in {"writeLimit", "postWrite"} => op[u] = "W"
      /\ pc'[u] = "finish" => op[u] # "D"
  <2>1. CASE Start(u) \/ AcquireAccess(u) \/ AcquireWrite(u) \/ Decline(u)
    BY <2>1, GotoMoves
    DEF Start, AcquireAccess, AcquireWrite, Decline, PostLabel, Label
  <2>2. CASE TakeUpRead(u) \/ TakeUpWrite(u) \/ CheckDelete(u) \/ LockToFinish(u)
    BY <2>2, GotoMoves
    DEF TakeUpRead, TakeUpWrite, CheckDelete, LockToFinish, Label
  <2>3. CASE FinishRead(u) \/ FinishWrite(u)
    BY <2>3, SignalMoves DEF FinishRead, FinishWrite, Label
  <2>4. CASE LockDelete(u) \/ TestDelete(u) \/ Remove(u) \/ SpuriousWakeup(u)
    BY <2>4, GotoMoves
    DEF LockDelete, TestDelete, Remove, SpuriousWakeup, LabelsMatch, Label
  <2>5. CASE FinishDelete(u) \/ PostWrite(u) \/ PostAccess(u)
    BY <2>5, GotoMoves DEF FinishDelete, PostWrite, PostAccess, Label
  <2> QED
    BY <2>1, <2>2, <2>3, <2>4, <2>5 DEF Step
<1> QED
  BY <1>1, <1>2 DEF LabelsMatch

(* Writers pass through write_limit one at a time, and is_writing follows  *)
(* the one that was taken up.                                              *)
LEMMA OneWriteHolderStep ==
  ASSUME TypeOK, LabelsMatch, OneWriteHolder,
         NEW u \in User, Step(u) \/ SpuriousWakeup(u)
  PROVE  OneWriteHolder' /\ writeLimit' \in 0..1 /\ isWriting' \in BOOLEAN
<1>1. /\ op' = op
      /\ \A v \in User \ {u} : pc'[v] = pc[v] \/ (pc[v] = "wait" /\ pc'[v] = "woken")
  BY StepShape DEF OthersStay
<1>2. writeLimit \in 0..1 /\ isWriting \in BOOLEAN
  BY DEF TypeOK
<1>3. \A v \in User \ {u} : /\ v \in WriteHolders' <=> v \in WriteHolders
                            /\ v \in Writers' <=> v \in Writers
  BY <1>1 DEF WriteHolders, Writers, Writing
<1>4. Writers \subseteq WriteHolders
  BY DEF WriteHolders, Writers, Writing
<1>5. WriteHolders \subseteq User /\ WriteHolders' \subseteq User /\ Writers' \subseteq User
  BY DEF WriteHolders, Writers
<1>6. CASE AcquireWrite(u)
  <2>1. op[u] = "W" /\ pc[u] = "writeLimit" /\ pc'[u] = "check"
    BY <1>6, GotoMoves DEF AcquireWrite, LabelsMatch, Label
  <2>2. WriteHolders = {} /\ writeLimit' = 0 /\ isWriting' = isWriting
    BY <1>6 DEF AcquireWrite, OneWriteHolder, file
  <2>3. u \in WriteHolders' /\ u \notin Writers'
    BY <1>1, <2>1 DEF WriteHolders, Writers, Writing
  <2>4. WriteHolders' = {u} /\ Writers = {} /\ Writers' = {}
    BY <1>3, <1>4, <1>5, <2>2, <2>3
  <2> QED
    BY <1>2, <2>2, <2>4 DEF OneWriteHolder
<1>7. CASE PostWrite(u)
  <2>1. op[u] = "W" /\ pc[u] = "postWrite" /\ pc'[u] = "postAccess"
    BY <1>7, GotoMoves DEF PostWrite, LabelsMatch, Label
  <2>2. u \in WriteHolders /\ u \notin Writers /\ u \notin WriteHolders' /\ u \notin Writers'
    BY <1>1, <2>1 DEF WriteHolders, Writers, Writing
  <2>3. WriteHolders = {u} /\ WriteHolders' = {} /\ Writers = {} /\ Writers' = {}
    BY <1>3, <1>4, <1>5, <2>2 DEF OneWriteHolder
  <2>4. writeLimit' = 1 /\ isWriting' = isWriting
    BY <1>7, <2>3 DEF PostWrite, OneWriteHolder, file
  <2> QED
    BY <1>2, <2>3, <2>4 DEF OneWriteHolder
<1>8. CASE TakeUpWrite(u) \/ FinishWrite(u)
  <2>1. /\ op[u] = "W" /\ pc[u] \in {"check", "finish"}
        /\ pc'[u] \in {"working", "postWrite"}
        /\ pc'[u] = "working" => isWriting' = TRUE
        /\ pc'[u] = "postWrite" => \/ pc[u] = "check" /\ isWriting' = isWriting
                                   \/ isWriting' = FALSE
        /\ writeLimit' = writeLimit
    BY <1>8, GotoMoves, SignalMoves DEF TakeUpWrite, FinishWrite, Label, sync
  <2>2. /\ u \in WriteHolders /\ u \in WriteHolders'
        /\ u \in Writers <=> pc[u] = "finish"
        /\ u \in Writers' <=> pc'[u] = "working"
    BY <1>1, <2>1 DEF WriteHolders, Writers, Writing
  <2>3. WriteHolders = {u} /\ WriteHolders' = {u}
    BY <1>3, <1>5, <2>2 DEF OneWriteHolder
  <2>4. /\ Writers = {} <=> pc[u] # "finish"
        /\ Writers' = {} <=> pc'[u] # "working"
    BY <1>3, <1>4, <1>5, <2>2, <2>3
  <2>5. isWriting' <=> Writers' # {}
    BY <2>1, <2>4 DEF OneWriteHolder
  <2> QED
    BY <1>2, <2>1, <2>3, <2>5 DEF OneWriteHolder
<1>9. CASE ~AcquireWrite(u) /\ ~PostWrite(u) /\ ~TakeUpWrite(u) /\ ~FinishWrite(u)
  <2>1. /\ writeLimit' = writeLimit /\ isWriting' = isWriting
        /\ u \in WriteHolders' <=> u \in WriteHolders
        /\ u \in Writers' <=> u \in Writers
    <3>1. CASE Start(u) \/ AcquireAccess(u) \/ Decline(u) \/ PostAccess(u)
      BY <1>1, <3>1, GotoMoves
      DEF Start, AcquireAccess, Decline, PostAccess, PostLabel, Label, file, sync,
          WriteHolders, Writers, Writing
    <3>2. CASE LockToFinish(u)
      BY <1>1, <3>2, GotoMoves
      DEF LockToFinish, Label, file, WriteHolders, Writers, Writing
    <3>3. CASE \/ TakeUpRead(u) \/ FinishRead(u) \/ CheckDelete(u) \/ FinishDelete(u)
               \/ LockDelete(u) \/ TestDelete(u) \/ Remove(u) \/ SpuriousWakeup(u)
      <4>1. op[u] # "W"
        BY <3>3 DEF TakeUpRead, FinishRead, CheckDelete, FinishDelete, LockDelete,
                    TestDelete, Remove, SpuriousWakeup, LabelsMatch
      <4>2. writeLimit' = writeLimit /\ isWriting' = isWriting
        BY <3>3 DEF TakeUpRead, FinishRead, CheckDelete, FinishDelete, LockDelete,
                    TestDelete, Remove, SpuriousWakeup, file, sync
      <4> QED
        BY <1>1, <4>1, <4>2 DEF WriteHolders, Writers, Writing
    <3> QED
      BY <1>9, <3>1, <3>2, <3>3 DEF Step
  <2>2. WriteHolders' = WriteHolders /\ Writers' = Writers
    BY <1>3, <1>4, <1>5, <2>1
  <2> QED
    BY <1>2, <2>1, <2>2 DEF OneWriteHolder
<1> QED
  BY <1>6, <1>7, <1>8, <1>9

(* A waiting deleter keeps its waker: the operation in progress that made  *)
(* it wait, or the deleter that took the signal.                           *)
LEMMA NoLostWakeupStep ==
  ASSUME TypeOK, LabelsMatch, NoLostWakeup,
         NEW u \in User, Step(u) \/ SpuriousWakeup(u)
  PROVE  NoLostWakeup'
<1>1. /\ op' = op
      /\ \A v \in User \ {u} : pc'[v] = pc[v] \/ (pc[v] = "wait" /\ pc'[v] = "woken")
      /\ Waiting \subseteq User
  BY StepShape DEF OthersStay, Waiting
<1>3. CASE TestDelete(u)
  <2>1. /\ op[u] = "D" /\ readCount' = readCount /\ isWriting' = isWriting
        /\ readCount > 0 \/ isWriting \/ pc'[u] = "remove"
    BY <1>3, GotoMoves DEF TestDelete, LabelsMatch, Label, file
  <2> QED
    BY <1>1, <2>1 DEF NoLostWakeup, PastWait
<1>4. CASE FinishRead(u) \/ FinishWrite(u)
  <2>1. Waiting' \subseteq Waiting
    BY <1>1, <1>4, SignalMoves DEF FinishRead, FinishWrite, Label, Waiting
  <2>2. Waiting # {} => \E w \in Waiting : pc'[w] = "woken"
    BY <1>4, SignalMoves DEF FinishRead, FinishWrite, Label
  <2>3. Waiting # {} => \E w \in User : pc'[w] = "woken" /\ op'[w] = "D"
    BY <1>1, <2>2 DEF Waiting, LabelsMatch
  <2> QED
    BY <2>1, <2>3 DEF NoLostWakeup, PastWait
<1>5. CASE ~TestDelete(u) /\ ~FinishRead(u) /\ ~FinishWrite(u)
  <2>1. /\ readCount > 0 => readCount' > 0
        /\ isWriting => isWriting'
        /\ pc'[u] # "wait"
        /\ PastWait(u) => pc'[u] \in {"woken", "test", "remove", "working",
                                     "postAccess", "done"}
    <3>1. CASE Start(u) \/ AcquireAccess(u) \/ AcquireWrite(u) \/ Decline(u)
      BY <3>1, GotoMoves
      DEF Start, AcquireAccess, AcquireWrite, Decline, PostLabel, Label, file,
          PastWait, TypeOK
    <3>2. CASE TakeUpRead(u) \/ TakeUpWrite(u) \/ CheckDelete(u) \/ LockToFinish(u)
      BY <3>2, GotoMoves
      DEF TakeUpRead, TakeUpWrite, CheckDelete, LockToFinish, Label, file,
          PastWait, TypeOK
    <3>3. CASE LockDelete(u) \/ Remove(u) \/ SpuriousWakeup(u) \/ FinishDelete(u)
      BY <3>3, GotoMoves
      DEF LockDelete, Remove, SpuriousWakeup, FinishDelete, Label, file,
          PastWait, TypeOK
    <3>4. CASE PostWrite(u) \/ PostAccess(u)
      BY <3>4, GotoMoves DEF PostWrite, PostAccess, Label, file, PastWait, TypeOK
    <3> QED
      BY <1>5, <3>1, <3>2, <3>3, <3>4 DEF Step
  <2>2. Waiting' \subseteq Waiting
    BY <1>1, <2>1 DEF Waiting
  <2>3. \A v \in User : PastWait(v) => PastWait(v)'
    BY <1>1, <2>1 DEF PastWait
  <2> QED
    BY <2>1, <2>2, <2>3 DEF NoLostWakeup, PastWait
<1> QED
  BY <1>3, <1>4, <1>5

-----------------------------------------------------------------------------
LEMMA InitIInv == Init => IInv
<1> SUFFICES ASSUME Init PROVE IInv
  OBVIOUS
<1>1. AccessHolders = {} /\ WriteHolders = {} /\ Readers = {} /\ Writers = {}
      /\ Waiting = {}
  BY DEF Init, AccessHolders, WriteHolders, Readers, Reading, Writers, Writing, Waiting
<1>2. Cardinality({}) = 0
  BY FS_EmptySet
<1>3. TypeOK
  <2>1. op \in [User -> Operation] /\ pc \in [User -> Label]
    BY DEF Init, Label
  <2>2. readCount \in Nat /\ accessLimit \in 0..MaxConcurrency /\ writeLimit \in 0..1
    BY RWAssumption DEF Init
  <2> QED
    BY <2>1, <2>2 DEF Init, TypeOK
<1>4. LabelsMatch
  BY DEF Init, LabelsMatch
<1>5. OneWriteHolder /\ NoLostWakeup
  BY <1>1 DEF Init, OneWriteHolder, NoLostWakeup
<1>6. ReadersCounted /\ SlotsConserved
  BY <1>1, <1>2, RWAssumption DEF Init, ReadersCounted, SlotsConserved
<1> QED
  BY <1>3, <1>4, <1>5, <1>6 DEF IInv

LEMMA StepKeepsIInv ==
  ASSUME IInv, NEW u \in User, Step(u) \/ SpuriousWakeup(u)
  PROVE  IInv'
<1>1. TypeOK /\ LabelsMatch
  BY DEF IInv
<1>2. /\ exists' \in BOOLEAN
      /\ lock' \in User \cup {NoUser}
      /\ deleteLock' \in User \cup {NoUser}
  BY <1>1
  DEF Step, Start, AcquireAccess, AcquireWrite, Decline, TakeUpRead, TakeUpWrite,
      CheckDelete, LockToFinish, FinishRead, FinishWrite, LockDelete, TestDelete,
      Remove, FinishDelete, PostWrite, PostAccess, SpuriousWakeup, TypeOK, file, sync
<1>3. TypeOK'
  BY <1>1, <1>2, StepShape, SlotsStep, ReadersCountedStep, OneWriteHolderStep
  DEF IInv, TypeOK
<1> QED
  BY <1>1, <1>3, LabelsMatchStep, SlotsStep, ReadersCountedStep,
     OneWriteHolderStep, NoLostWakeupStep DEF IInv

LEMMA StutterKeepsIInv == IInv /\ UNCHANGED vars => IInv'
BY DEF IInv, vars, TypeOK, LabelsMatch, OneWriteHolder, WriteHolders, Writers,
       Writing, ReadersCounted, Readers, Reading, SlotsConserved, AccessHolders,
       NoLostWakeup, Waiting, PastWait

THEOREM Safety == Spec => []IInv
<1>1. IInv /\ [Next]_vars => IInv'
  BY StepKeepsIInv, StutterKeepsIInv DEF Next, Done
<1> QED
  BY InitIInv, <1>1, PTL DEF Spec

(* Every variable keeps the range the program gives it, for any number of  *)
(* threads.                                                                *)
THEOREM TypeCorrect == Spec => []TypeOK
BY Safety, PTL DEF IInv

(* Two writers are never in progress together and is_writing tells exactly *)
(* when one is (lines 156-206).                                            *)
THEOREM WritersExclude == Spec => []WriterExclusion
<1>1. IInv => WriterExclusion
  BY DEF IInv, OneWriteHolder, WriterExclusion, WriteHolders, Writers, Writing
<1> QED
  BY Safety, <1>1, PTL

(* read_count counts the reads in progress (lines 132, 140).               *)
THEOREM ReadersAreCounted == Spec => []ReadersCounted
BY Safety, PTL DEF IInv

(* access_limit is conserved through every early return (lines 103-268).   *)
THEOREM SlotsAreConserved == Spec => []SlotsConserved
BY Safety, PTL DEF IInv

(* A deleter sleeps only while an operation is in progress or another      *)
(* deleter has been woken in its stead (lines 230-232, 141, 196).          *)
THEOREM WakeupsReachADeleter == Spec => []NoLostWakeup
BY Safety, PTL DEF IInv
=============================================================================
