--------------------------- MODULE XvMachineProofs ---------------------------
(***************************************************************************)
(* The drivers, the memory and the accounts of xv6, for every set of       *)
(* processes, every size of the rings and every width of their indices.    *)
(* Each part has an inductive invariant, lemmas that it holds at first and *)
(* after each step of the part, and one that it says what the part         *)
(* promises; the last section puts the parts together.                     *)
(***************************************************************************)
EXTENDS MCXvMachine, CountingLemmas, SequenceTheorems, TLAPS

-----------------------------------------------------------------------------
(* uart.c.  Besides what is promised: writers sleep on a full buffer only. *)

\* Writers sleep on a full buffer, who owns the lock or not.
UartInv == Uart!TypeOK /\ Uart!OutputMoves /\ (asleep # {} => waiting = BufSize)

LEMMA UartInit == ASSUME PartsAssumption, Uart!Init PROVE UartInv
<1>1. irq \in BOOLEAN
  BY Zenon DEF Uart!Init
<1> QED
  BY <1>1 DEF PartsAssumption, Uart!BufAssumption, Uart!Init, UartInv, Uart!TypeOK, Uart!OutputMoves

LEMMA UartStep == ASSUME PartsAssumption, UartInv, [Uart!Next]_(Uart!vars) PROVE UartInv'
<1> USE DEF PartsAssumption, UartInv, Uart!OwnerAssumption, Uart!BufAssumption, Uart!TypeOK, Uart!OutputMoves
<1>1. ASSUME NEW p \in Proc, Uart!Putc(p) PROVE UartInv'
  BY <1>1 DEF Uart!Putc
<1>2. ASSUME NEW p \in Proc, Uart!Killed(p) PROVE UartInv'
  BY <1>2 DEF Uart!Killed
<1>3. CASE Uart!StartSend
  BY <1>3 DEF Uart!StartSend
<1>4. CASE Uart!StartReturn
  BY <1>4 DEF Uart!StartReturn
<1>5. CASE Uart!PutcSync
  BY <1>5 DEF Uart!PutcSync
<1>6. CASE Uart!Sent
  BY <1>6 DEF Uart!Sent
<1>7. CASE Uart!Intr
  <2>1. irq' \in BOOLEAN
    BY <1>7, Zenon DEF Uart!Intr
  <2> QED
    BY <1>7, <2>1 DEF Uart!Intr
<1>8. CASE UNCHANGED Uart!vars
  BY <1>8 DEF Uart!vars
<1> QED
  BY <1>1, <1>2, <1>3, <1>4, <1>5, <1>6, <1>7, <1>8 DEF Uart!Next

-----------------------------------------------------------------------------
(* update_time(), sys_sigalarm(), and the counts of system calls *)

\* update_time() is still to come to the slot, in this tick.
ToVisit(s) == visit # 0 /\ s >= visit

\* What is so of the times of a slot: a tick charges a process at most once,
\* and, but for the one in which it came, for a tick it was there to see.
TimesOf(s) ==
  /\ ctime[s] >= 0 /\ rtime[s] >= 0 /\ etime[s] >= 0
  /\ ctime[s] <= ticks /\ etime[s] <= ticks /\ rtime[s] <= ticks
  /\ ToVisit(s) => rtime[s] < ticks
  /\ state[s] = "zombie" => ctime[s] <= etime[s] /\ rtime[s] + ctime[s] <= etime[s] + 1
  /\ state[s] \notin {"unused", "zombie"} =>
       rtime[s] + ctime[s] <= ticks + 1 /\ (ToVisit(s) => rtime[s] + ctime[s] <= ticks)

TimeInv ==
  /\ ticks \in 0 .. MaxTicks /\ visit \in 0 .. NProc
  /\ state \in [Time!Slot -> Time!States]
  /\ ctime \in [Time!Slot -> Int] /\ rtime \in [Time!Slot -> Int] /\ etime \in [Time!Slot -> Int]
  /\ ticks0 \in [Time!Slot -> 0 .. MaxTicks]
  /\ length \in [Time!Slot -> 0 .. MaxSleep]
  /\ visit # 0 => ticks > 0
  /\ \A s \in Time!Slot : TimesOf(s)

LEMMA TimeInit == ASSUME PartsAssumption, Time!Init PROVE TimeInv
BY DEF PartsAssumption, Time!TimeAssumption, Time!Init, TimeInv, ToVisit, TimesOf, Time!Slot, Time!States

LEMMA TimeStep == ASSUME PartsAssumption, TimeInv, [Time!Next]_(Time!vars) PROVE TimeInv'
<1>0. NProc \in Nat \ {0} /\ MaxTicks \in Nat /\ MaxSleep \in Nat
  BY DEF PartsAssumption, Time!TimeAssumption
<1> USE <1>0 DEF TimeInv, Time!Become
<1>i. \A s \in Time!Slot : s \in Int /\ s >= 1 /\ s <= NProc
  BY DEF Time!Slot
<1>t. ticks \in Int /\ visit \in Int /\ visit >= 0 /\ visit <= NProc
  OBVIOUS
<1>f. \A s \in Time!Slot : ctime[s] \in Int /\ rtime[s] \in Int /\ etime[s] \in Int /\ TimesOf(s)
  OBVIOUS
<1>1. CASE Time!Tick
  <2>1. /\ visit = 0 /\ ticks < MaxTicks /\ ticks' = ticks + 1 /\ visit' = 1
        /\ UNCHANGED <<state, ctime, rtime, etime, ticks0, length>>
    BY <1>1 DEF Time!Tick, Time!times
  <2>2. ASSUME NEW s \in Time!Slot PROVE TimesOf(s)'
    BY <2>1, <1>i, <1>t, <1>f DEF TimesOf, ToVisit
  <2> QED
    BY <2>1, <2>2
<1>2. CASE Time!UpdateTime
  <2>1. visit \in Time!Slot
    BY <1>2 DEF Time!UpdateTime, Time!Slot
  <2>2. /\ rtime' \in [Time!Slot -> Int]
        /\ rtime'[visit] = (IF state[visit] = "running" THEN rtime[visit] + 1 ELSE rtime[visit])
        /\ \A s \in Time!Slot \ {visit} : rtime'[s] = rtime[s]
    BY <1>2, <2>1 DEF Time!UpdateTime
  <2>3. /\ state' \in [Time!Slot -> Time!States]
        /\ \A s \in Time!Slot : state'[s] = state[s] \/ (state[s] = "asleep" /\ state'[s] = "runnable")
    BY <1>2 DEF Time!UpdateTime, Time!States
  <2>4. /\ visit' = (IF visit = NProc THEN 0 ELSE visit + 1)
        /\ UNCHANGED <<ticks, ctime, etime, ticks0, length>>
    BY <1>2 DEF Time!UpdateTime
  <2>5. ASSUME NEW s \in Time!Slot PROVE TimesOf(s)'
    <3>1. CASE s = visit
      BY <2>1, <2>2, <2>3, <2>4, <3>1, <1>i, <1>t, <1>f DEF TimesOf, ToVisit
    <3>2. CASE s # visit
      BY <2>1, <2>2, <2>3, <2>4, <3>2, <1>i, <1>t, <1>f DEF TimesOf, ToVisit
    <3> QED
      BY <3>1, <3>2
  <2>6. visit' \in 0 .. NProc /\ ticks' > 0
    BY <2>1, <2>4, <1>i, <1>t
  <2> QED
    BY <2>2, <2>3, <2>4, <2>5, <2>6
<1>3. ASSUME NEW s \in Time!Slot, Time!Create(s) PROVE TimeInv'
  <2>1. /\ state' = [state EXCEPT ![s] = "used"]
        /\ ctime' = [ctime EXCEPT ![s] = ticks]
        /\ rtime' = [rtime EXCEPT ![s] = 0] /\ etime' = [etime EXCEPT ![s] = 0]
        /\ UNCHANGED <<ticks, visit, ticks0, length>>
    BY <1>3 DEF Time!Create
  <2>2. ASSUME NEW q \in Time!Slot PROVE TimesOf(q)'
    BY <2>1, <1>i, <1>t, <1>f DEF TimesOf, ToVisit
  <2> QED
    BY <2>1, <2>2 DEF Time!States
<1>4. ASSUME NEW s \in Time!Slot, Time!Ready(s) \/ Time!Dispatch(s) \/ Time!Yield(s) \/ Time!Reap(s)
      PROVE  TimeInv'
  <2>1. PICK later \in {"runnable", "running", "unused"} : state' = [state EXCEPT ![s] = later]
    BY <1>4 DEF Time!Ready, Time!Dispatch, Time!Yield, Time!Reap
  <2>2. UNCHANGED <<ticks, visit, ctime, rtime, etime, ticks0, length>>
    BY <1>4 DEF Time!Ready, Time!Dispatch, Time!Yield, Time!Reap, Time!times
  <2>3. later = "unused" \/ state[s] \notin {"unused", "zombie"}
    BY <1>4, <2>1 DEF Time!Ready, Time!Dispatch, Time!Yield, Time!Reap
  <2>4. ASSUME NEW q \in Time!Slot PROVE TimesOf(q)'
    BY <2>1, <2>2, <2>3, <1>i, <1>t, <1>f DEF TimesOf, ToVisit
  <2> QED
    BY <2>1, <2>2, <2>4 DEF Time!States
<1>5. ASSUME NEW s \in Time!Slot, Time!Exit(s) PROVE TimeInv'
  <2>1. /\ state[s] = "running"
        /\ state' = [state EXCEPT ![s] = "zombie"] /\ etime' = [etime EXCEPT ![s] = ticks]
        /\ UNCHANGED <<ticks, visit, ctime, rtime, ticks0, length>>
    BY <1>5 DEF Time!Exit
  <2>2. ASSUME NEW q \in Time!Slot PROVE TimesOf(q)'
    BY <2>1, <1>i, <1>t, <1>f DEF TimesOf, ToVisit
  <2> QED
    BY <2>1, <2>2 DEF Time!States
<1>6. ASSUME NEW s \in Time!Slot,
             Time!SleepOn(s) \/ Time!SleepReturns(s) \/ \E n \in 1 .. MaxSleep : Time!Sleep(s, n)
      PROVE  TimeInv'
  <2>1. /\ state[s] = "running" /\ state' \in {state, [state EXCEPT ![s] = "asleep"]}
        /\ UNCHANGED <<ticks, visit, ctime, rtime, etime>>
    BY <1>6 DEF Time!SleepOn, Time!SleepReturns, Time!Sleep, Time!times
  <2>2. /\ ticks0' \in [Time!Slot -> 0 .. MaxTicks]
        /\ length' \in [Time!Slot -> 0 .. MaxSleep]
    BY <1>6 DEF Time!SleepOn, Time!SleepReturns, Time!Sleep
  <2>3. ASSUME NEW q \in Time!Slot PROVE TimesOf(q)'
    BY <2>1, <1>i, <1>t, <1>f DEF TimesOf, ToVisit
  <2> QED
    BY <2>1, <2>2, <2>3 DEF Time!States
<1>7. CASE UNCHANGED Time!vars
  BY <1>7 DEF Time!vars, Time!times, TimesOf, ToVisit
<1> QED
  BY <1>1, <1>2, <1>3, <1>4, <1>5, <1>6, <1>7 DEF Time!Next

LEMMA TimeSafety == ASSUME PartsAssumption, TimeInv PROVE Time!TypeOK /\ Time!TimesAddUp
<1>1. NProc \in Nat \ {0} /\ MaxTicks \in Nat /\ MaxSleep \in Nat
  BY DEF PartsAssumption, Time!TimeAssumption
<1>2. \A s \in Time!Slot : /\ ctime[s] \in 0 .. MaxTicks /\ rtime[s] \in 0 .. MaxTicks
                           /\ etime[s] \in 0 .. MaxTicks
  BY <1>1 DEF TimeInv, TimesOf
<1>3. /\ ctime \in [Time!Slot -> 0 .. MaxTicks] /\ rtime \in [Time!Slot -> 0 .. MaxTicks]
      /\ etime \in [Time!Slot -> 0 .. MaxTicks]
  BY <1>2 DEF TimeInv
<1>4. Time!TypeOK
  BY <1>3 DEF TimeInv, Time!TypeOK
<1>5. ASSUME NEW s \in Time!Slot, state[s] # "unused"
      PROVE  Time!Age(s) >= 0 /\ rtime[s] <= Time!Age(s) + 1
  <2>1. ticks \in Int /\ ctime[s] \in Int /\ rtime[s] \in Int /\ etime[s] \in Int /\ TimesOf(s)
    BY <1>1 DEF TimeInv
  <2> QED
    BY <1>5, <2>1 DEF TimesOf, Time!Age
<1> QED
  BY <1>4, <1>5 DEF Time!TimesAddUp

AlarmInv == Alarm!TypeOK /\ Alarm!ProgramResumes

LEMMA AlarmInit == ASSUME PartsAssumption, Alarm!Init PROVE AlarmInv
<1> USE DEF PartsAssumption, Alarm!AlarmAssumption, Alarm!Init, Alarm!TypeOK, Alarm!ProgramResumes,
            Alarm!Main, Alarm!Frame, Alarm!Junk, Alarm!Handler, Alarm!InHandler
<1>1. inAlarm \in BOOLEAN /\ late \in BOOLEAN /\ misused \in BOOLEAN /\ ~inAlarm
  BY Zenon
<1>2. MaxInterval \in Nat /\ MaxSteps \in Nat /\ MaxLate \in Nat
  OBVIOUS
<1>3. frame \in Alarm!Frame /\ saved \in Alarm!Frame
  BY <1>2
<1>4. Alarm!TypeOK
  BY <1>1, <1>2, <1>3
<1>5. Alarm!ProgramResumes
  BY <1>1
<1> QED
  BY <1>4, <1>5 DEF AlarmInv

LEMMA AlarmStep == ASSUME PartsAssumption, AlarmInv, [Alarm!Next]_(Alarm!vars) PROVE AlarmInv'
<1> USE DEF AlarmInv, Alarm!TypeOK, Alarm!ProgramResumes, Alarm!InHandler, Alarm!Alive
<1>0. MaxInterval \in Nat /\ MaxSteps \in Nat /\ MaxLate \in Nat
  BY DEF PartsAssumption, Alarm!AlarmAssumption
<1>1. CASE Alarm!Step
  <2>1. frame' = [code |-> "main", at |-> frame.at + 1] /\ frame'.code = "main" /\ frame'.at = frame.at + 1
    BY <1>1 DEF Alarm!Step, Alarm!Main
  <2>2. frame.at \in 0 .. MaxSteps
    BY <1>0, <1>1 DEF Alarm!Step, Alarm!Frame, Alarm!Main, Alarm!Junk, Alarm!Handler
  <2>3. frame' \in Alarm!Frame
    BY <1>0, <1>1, <2>1, <2>2 DEF Alarm!Step, Alarm!Frame, Alarm!Main
  <2> QED
    BY <1>0, <1>1, <2>1, <2>2, <2>3 DEF Alarm!Step
<1>2. CASE Alarm!TimerInterrupt
  <2>1. CASE Alarm!Fires(ticksLeft - 1)
    <3>1. /\ inAlarm' \in BOOLEAN /\ inAlarm'
          /\ ticksLeft' = alarmticks /\ saved' = frame /\ frame' = Alarm!Handler
          /\ UNCHANGED <<late, alarmticks, progress, misused>>
      BY <1>2, <2>1, Zenon DEF Alarm!TimerInterrupt
    <3>2. frame'.code = "handler" /\ frame' \in Alarm!Frame
      BY <3>1 DEF Alarm!Handler, Alarm!Frame
    <3>3. ~misused => frame.code = "main"
      BY <1>0, <1>2, <2>1 DEF Alarm!Frame, Alarm!Fires, Alarm!Main, Alarm!Handler, Alarm!Junk, Alarm!TimerInterrupt
    <3>4. Alarm!TypeOK'
      BY <1>0, <3>1, <3>2
    <3>5. ~misused => ~Alarm!InHandler
      BY <2>1 DEF Alarm!Fires
    <3>6. Alarm!ProgramResumes'
      BY <1>0, <2>1, <3>1, <3>2, <3>3, <3>5 DEF Alarm!Fires
    <3> QED
      BY <3>4, <3>6
  <2>2. CASE ~Alarm!Fires(ticksLeft - 1)
    <3>1. /\ ticksLeft' = ticksLeft - 1 /\ late' \in BOOLEAN /\ (late' <=> late \/ ticksLeft - 1 <= 0)
          /\ ticksLeft > -MaxLate
          /\ UNCHANGED <<inAlarm, frame, saved, alarmticks, progress, misused>>
      BY <1>2, <2>2, Zenon DEF Alarm!TimerInterrupt
    <3> QED
      BY <1>0, <3>1
  <2> QED
    BY <2>1, <2>2
<1>3. CASE Alarm!SigReturn
  <2>1. /\ inAlarm' \in BOOLEAN /\ ~inAlarm' /\ frame' = saved
        /\ misused' \in BOOLEAN /\ (misused' <=> misused \/ ~Alarm!InHandler)
        /\ UNCHANGED <<alarmticks, ticksLeft, saved, progress, late>>
    BY <1>3, Zenon DEF Alarm!SigReturn
  <2> QED
    BY <1>0, <2>1
<1>4. CASE Alarm!Exec
  <2>1. /\ frame' = Alarm!Main(0) /\ progress' = 0
        /\ misused' \in BOOLEAN /\ (misused' <=> misused \/ Alarm!InHandler)
        /\ UNCHANGED <<alarmticks, ticksLeft, inAlarm, saved, late>>
    BY <1>4, Zenon DEF Alarm!Exec
  <2>2. frame'.code = "main" /\ frame'.at = 0 /\ frame' \in Alarm!Frame
    BY <1>0, <2>1 DEF Alarm!Main, Alarm!Frame
  <2> QED
    BY <1>0, <2>1, <2>2
<1>5. ASSUME NEW interval \in 0 .. MaxInterval, Alarm!SigAlarm(interval) PROVE AlarmInv'
  <2>1. /\ alarmticks' = interval /\ ticksLeft' = interval
        /\ inAlarm' \in BOOLEAN /\ ~inAlarm' /\ late' \in BOOLEAN /\ ~late'
        /\ misused' \in BOOLEAN /\ (misused' <=> misused \/ Alarm!InHandler)
        /\ UNCHANGED <<frame, saved, progress>>
    BY <1>5, Zenon DEF Alarm!SigAlarm
  <2> QED
    BY <1>0, <2>1
<1>6. CASE UNCHANGED Alarm!vars
  BY <1>6 DEF Alarm!vars
<1> QED
  BY <1>1, <1>2, <1>3, <1>4, <1>5, <1>6 DEF Alarm!Next

\* The library's operators are the same ones in every part.
LEMMA CountsTotal == ASSUME NEW f, NEW S PROVE Counts!Total(f, S) = Total(f, S)
BY DEF Counts!Total, Total, Counts!Things, Things, Counts!Cardinality, Cardinality

Counted == {s \in Counts!Slot : state[s] # "unused"}

CountsInv == Counts!TypeOK /\ Counts!CountsRollUp

LEMMA CountsRoll == Counts!CountsRollUp <=> Total(count, Counted) + dropped = calls + again
BY CountsTotal DEF Counts!CountsRollUp, Counted

LEMMA CountsFacts ==
  ASSUME PartsAssumption, CountsInv
  PROVE  /\ IsFiniteSet(Counts!Slot) /\ IsFiniteSet(Counted) /\ Counted \subseteq Counts!Slot
         /\ MaxCalls \in Nat /\ MaxAgain \in Nat
         /\ \A s \in Counts!Slot : count[s] \in Nat
         /\ calls \in Nat /\ again \in Nat /\ dropped \in Nat
         /\ Total(count, Counted) \in Nat
         /\ Total(count, Counted) + dropped = calls + again
<1>1. NSlot \in Nat /\ MaxCalls \in Nat /\ MaxAgain \in Nat
  BY DEF PartsAssumption, Counts!CountsAssumption
<1>2. IsFiniteSet(Counts!Slot)
  BY <1>1, FS_Interval DEF Counts!Slot
<1>3. IsFiniteSet(Counted) /\ Counted \subseteq Counts!Slot
  BY <1>2, FS_Subset DEF Counted
<1>4. /\ \A s \in Counts!Slot : count[s] \in Nat
      /\ calls \in Nat /\ again \in Nat /\ dropped \in Nat
  BY <1>1 DEF CountsInv, Counts!TypeOK
<1>5. Total(count, Counted) \in Nat
  BY <1>3, <1>4, ThingsAreFinite
<1> QED
  BY <1>1, <1>2, <1>3, <1>4, <1>5, CountsRoll DEF CountsInv

LEMMA CountsInit == ASSUME PartsAssumption, Counts!Init PROVE CountsInv
<1>1. NSlot \in Nat \ {0} /\ MaxCalls \in Nat /\ MaxAgain \in Nat
  BY DEF PartsAssumption, Counts!CountsAssumption
<1>2. Counts!TypeOK
  BY <1>1 DEF Counts!Init, Counts!TypeOK, Counts!Slot, Counts!InitProc
<1>3. Counted = {} \cup {Counts!InitProc} /\ Counts!InitProc \in Counts!Slot
  BY <1>1 DEF Counted, Counts!Init, Counts!Slot, Counts!InitProc
<1>4. count[Counts!InitProc] = 0
  BY <1>3 DEF Counts!Init
<1>5. Total(count, {} \cup {Counts!InitProc}) = Total(count, {}) + count[Counts!InitProc]
  <2>1. IsFiniteSet({}) /\ Counts!InitProc \notin {} /\ \A s \in {} \cup {Counts!InitProc} : count[s] \in Nat
    BY <1>4, FS_EmptySet
  <2> QED
    BY <2>1, TotalAdds
<1>6. Total(count, Counted) = 0
  BY <1>3, <1>4, <1>5, TotalOfNone
<1>7. dropped = 0 /\ calls = 0 /\ again = 0
  BY DEF Counts!Init
<1> QED
  BY <1>2, <1>6, <1>7, CountsRoll DEF CountsInv

\* The bounds of the counts follow from their sum.
LEMMA CountsBound ==
  ASSUME PartsAssumption, NEW S, IsFiniteSet(S), NEW f, \A s \in S : f[s] \in Nat,
         NEW c \in 0 .. MaxCalls, NEW a \in 0 .. MaxAgain, NEW d \in Nat, Total(f, S) + d = c + a
  PROVE  d \in 0 .. (MaxCalls + MaxAgain) /\ \A s \in S : f[s] \in 0 .. (MaxCalls + MaxAgain)
<1>1. MaxCalls \in Nat /\ MaxAgain \in Nat
  BY DEF PartsAssumption, Counts!CountsAssumption
<1>2. Total(f, S) \in Nat /\ \A s \in S : f[s] <= Total(f, S)
  BY ThingsAreFinite, TotalRemoves
<1> QED
  BY <1>1, <1>2

LEMMA CountsStep == ASSUME PartsAssumption, CountsInv, [Counts!Next]_(Counts!vars) PROVE CountsInv'
<1> DEFINE Bound == 0 .. (MaxCalls + MaxAgain)
<1>f. /\ IsFiniteSet(Counts!Slot) /\ IsFiniteSet(Counted) /\ Counted \subseteq Counts!Slot
      /\ MaxCalls \in Nat /\ MaxAgain \in Nat
      /\ \A s \in Counts!Slot : count[s] \in Nat
      /\ calls \in Nat /\ again \in Nat /\ dropped \in Nat
      /\ Total(count, Counted) \in Nat
      /\ Total(count, Counted) + dropped = calls + again
  BY CountsFacts
<1>t. /\ state \in [Counts!Slot -> {"unused", "alive", "zombie"}]
      /\ parent \in [Counts!Slot -> Counts!Slot]
      /\ count \in [Counts!Slot -> Bound]
      /\ calls \in 0 .. MaxCalls /\ again \in 0 .. MaxAgain /\ dropped \in Bound
  BY DEF CountsInv, Counts!TypeOK
<1>n. count \in [Counts!Slot -> Nat]
  BY <1>f, <1>t
<1> DEFINE Rolls ==
      /\ state' \in [Counts!Slot -> {"unused", "alive", "zombie"}]
      /\ parent' \in [Counts!Slot -> Counts!Slot]
      /\ count' \in [Counts!Slot -> Nat]
      /\ \A q \in Counts!Slot : q \in Counted' \/ count'[q] = count[q]
      /\ calls' \in 0 .. MaxCalls /\ again' \in 0 .. MaxAgain /\ dropped' \in Nat
      /\ Total(count', Counted') + dropped' = calls' + again'
<1> SUFFICES Rolls
  <2>1. IsFiniteSet(Counted') /\ Counted' \subseteq Counts!Slot
    BY <1>f, FS_Subset DEF Counted
  <2>2. \A s \in Counted' : count'[s] \in Nat
    BY <2>1
  <2>3. dropped' \in Bound /\ \A s \in Counted' : count'[s] \in Bound
    BY <2>1, <2>2, CountsBound
  <2>4. count' \in [Counts!Slot -> Bound]
    BY <2>3, <1>t
  <2>5. Counts!CountsRollUp'
    BY CountsTotal DEF Counts!CountsRollUp, Counted
  <2> QED
    BY <2>3, <2>4, <2>5 DEF CountsInv, Counts!TypeOK
<1> HIDE DEF Bound
<1>1. ASSUME NEW s \in Counts!Slot, Counts!Syscall(s) PROVE Rolls
  <2>1. state[s] = "alive" /\ calls < MaxCalls /\ count' = [count EXCEPT ![s] = @ + 1]
        /\ calls' = calls + 1 /\ UNCHANGED <<state, parent, again, dropped>>
    BY <1>1 DEF Counts!Syscall
  <2>2. Counted' = Counted /\ s \in Counted
    BY <2>1 DEF Counted
  <2>3. count' \in [Counts!Slot -> Nat] /\ count'[s] = count[s] + 1
        /\ \A q \in Counts!Slot \ {s} : count'[q] = count[q]
    BY <2>1, <1>t, <1>f
  <2>4. Total(count', Counted) = Total(count, Counted) + count'[s] - count[s]
    BY <1>f, <2>2, <2>3, TotalChanges
  <2> QED
    BY <1>f, <1>t, <2>1, <2>2, <2>3, <2>4
<1>2. ASSUME NEW s \in Counts!Slot, Counts!Exit(s) PROVE Rolls
  <2>1. /\ state[s] = "alive" /\ state' = [state EXCEPT ![s] = "zombie"]
        /\ parent' = [c \in Counts!Slot |-> IF parent[c] = s THEN Counts!InitProc ELSE parent[c]]
        /\ UNCHANGED <<count, calls, again, dropped>>
    BY <1>2 DEF Counts!Exit
  <2>2. Counted' = Counted
    BY <2>1, <1>t DEF Counted
  <2>3. NSlot \in Nat \ {0}
    BY DEF PartsAssumption, Counts!CountsAssumption
  <2>4. Counts!InitProc \in Counts!Slot
    BY <2>3 DEF Counts!Slot, Counts!InitProc
  <2>5. parent' \in [Counts!Slot -> Counts!Slot]
    BY <2>1, <2>4, <1>t
  <2> QED
    BY <1>f, <1>t, <1>n, <2>1, <2>2, <2>5
<1>3. ASSUME NEW s \in Counts!Slot, NEW child \in Counts!Slot, Counts!Fork(s, child) PROVE Rolls
  <2>1. /\ state[child] = "unused" /\ state' = [state EXCEPT ![child] = "alive"]
        /\ parent' = [parent EXCEPT ![child] = s] /\ count' = [count EXCEPT ![child] = 0]
        /\ UNCHANGED <<calls, again, dropped>>
    BY <1>3 DEF Counts!Fork
  <2>2. Counted' = Counted \cup {child} /\ child \notin Counted
    BY <2>1, <1>t DEF Counted
  <2>3. count' \in [Counts!Slot -> Nat] /\ count'[child] = 0
        /\ \A q \in Counts!Slot \ {child} : count'[q] = count[q]
    BY <2>1, <1>t, <1>f
  <2>4. \A q \in Counted : count'[q] = count[q]
    BY <1>f, <2>2, <2>3
  <2>5. Total(count', Counted) = Total(count, Counted)
    BY <2>4, TotalIsOf
  <2>6. \A q \in Counted \cup {child} : count'[q] \in Nat
    BY <1>f, <2>3
  <2>7. Total(count', Counted \cup {child}) = Total(count', Counted) + count'[child]
    BY <1>f, <2>2, <2>6, TotalAdds
  <2> QED
    BY <1>f, <1>t, <2>1, <2>2, <2>3, <2>5, <2>7
<1>4. ASSUME NEW s \in Counts!Slot, NEW child \in Counts!Slot, Counts!Child(s, child)
      PROVE  s \in Counted /\ child \in Counted /\ s # child
  BY <1>4 DEF Counts!Child, Counted
<1>5. ASSUME NEW s \in Counts!Slot, NEW child \in Counts!Slot, Counts!Wait(s, child) PROVE Rolls
  <2>1. /\ Counts!Child(s, child)
        /\ count' = [count EXCEPT ![s] = @ + count[child]]
        /\ state' = [state EXCEPT ![child] = "unused"]
        /\ UNCHANGED <<parent, calls, again, dropped>>
    BY <1>5 DEF Counts!Wait
  <2>2. s \in Counted /\ child \in Counted /\ s # child
    BY <2>1, <1>4
  <2>3. Counted' = Counted \ {child}
    BY <2>1, <1>t DEF Counted
  <2>4. count' \in [Counts!Slot -> Nat] /\ count'[s] = count[s] + count[child]
        /\ \A q \in Counts!Slot \ {s} : count'[q] = count[q]
    BY <2>1, <1>n, <1>f
  <2>5. /\ IsFiniteSet(Counted \ {child}) /\ Total(count, Counted \ {child}) \in Nat
        /\ Total(count, Counted) = Total(count, Counted \ {child}) + count[child]
    BY <1>f, <2>2, TotalRemoves
  <2>6. \A q \in Counted \ {child} : count[q] \in Nat /\ count'[q] \in Nat
    BY <1>f, <2>4
  <2>7. s \in Counted \ {child} /\ \A q \in (Counted \ {child}) \ {s} : count'[q] = count[q]
    BY <1>f, <2>2, <2>4
  <2>8. Total(count', Counted \ {child}) = Total(count, Counted \ {child}) + count'[s] - count[s]
    BY <2>5, <2>6, <2>7, TotalChanges
  <2>9. count[s] \in Nat /\ count[child] \in Nat
    BY <1>f
  <2>10. Total(count', Counted') + dropped' = calls' + again'
    BY <1>f, <2>1, <2>3, <2>4, <2>5, <2>8, <2>9
  <2> QED
    BY <1>f, <1>t, <2>1, <2>2, <2>3, <2>4, <2>10
<1>6. ASSUME NEW s \in Counts!Slot, NEW child \in Counts!Slot, Counts!WaitFails(s, child) PROVE Rolls
  <2>1. /\ Counts!Child(s, child) /\ again + count[child] <= MaxAgain
        /\ count' = [count EXCEPT ![s] = @ + count[child]]
        /\ again' = again + count[child]
        /\ UNCHANGED <<state, parent, calls, dropped>>
    BY <1>6 DEF Counts!WaitFails
  <2>2. s \in Counted /\ child \in Counted /\ s # child /\ Counted' = Counted
    BY <2>1, <1>4 DEF Counted
  <2>3. count' \in [Counts!Slot -> Nat] /\ count'[s] = count[s] + count[child]
        /\ \A q \in Counts!Slot \ {s} : count'[q] = count[q]
    BY <2>1, <1>n, <1>f
  <2>4. Total(count', Counted) = Total(count, Counted) + count'[s] - count[s]
    BY <1>f, <2>2, <2>3, TotalChanges
  <2>5. count[s] \in Nat /\ count[child] \in Nat
    BY <1>f
  <2> QED
    BY <1>f, <1>t, <2>1, <2>2, <2>3, <2>4, <2>5
<1>7. ASSUME NEW s \in Counts!Slot, NEW child \in Counts!Slot, Counts!WaitX(s, child) PROVE Rolls
  <2>1. /\ Counts!Child(s, child)
        /\ dropped' = dropped + count[child]
        /\ state' = [state EXCEPT ![child] = "unused"]
        /\ UNCHANGED <<parent, count, calls, again>>
    BY <1>7 DEF Counts!WaitX
  <2>2. child \in Counted /\ Counted' = Counted \ {child}
    BY <2>1, <1>4, <1>t DEF Counted
  <2>3. /\ Total(count, Counted \ {child}) \in Nat
        /\ Total(count, Counted) = Total(count, Counted \ {child}) + count[child]
    BY <1>f, <2>2, TotalRemoves
  <2>4. count[child] \in Nat
    BY <1>f
  <2> QED
    BY <1>f, <1>t, <1>n, <2>1, <2>2, <2>3, <2>4
<1>8. CASE UNCHANGED Counts!vars
  <2>1. UNCHANGED <<state, parent, count, calls, again, dropped>> /\ Counted' = Counted
    BY <1>8 DEF Counts!vars, Counted
  <2> QED
    BY <1>f, <1>t, <1>n, <2>1
<1> QED
  BY <1>1, <1>2, <1>3, <1>5, <1>6, <1>7, <1>8 DEF Counts!Next

-----------------------------------------------------------------------------
(***************************************************************************)
(* console.c.  The indices r, w and e run through Wrap, and the ring has   *)
(* BufSize places.  The invariant (ConsoleAt) says how far w and e are     *)
(* ahead of r; the text between two indices is then a sequence (Text) that *)
(* a step makes longer at its end or shorter at either end.                *)
(***************************************************************************)

Ahead(k, d) == (k + d) % Wrap
Place(k) == k % BufSize

LEMMA ConsoleNumbers ==
  ASSUME PartsAssumption
  PROVE  /\ BufSize \in Nat \ {0} /\ Wrap \in Nat \ {0} /\ Wrap % BufSize = 0 /\ BufSize < Wrap
         /\ MaxN \in Nat /\ EndOfLine \in Char /\ EndOfFile \in Char /\ None \notin Reader
BY DEF PartsAssumption, Console!BufAssumption, Console!CharAssumption

LEMMA AheadIsCounter ==
  ASSUME PartsAssumption, NEW k \in Int, NEW d \in Int
  PROVE  Ahead(k, d) \in Console!Counter /\ Ahead(k, d) \in Int
<1>1. PICK x \in Int : x = k + d
  OBVIOUS
<1>2. x % Wrap \in 0 .. (Wrap - 1)
  BY ConsoleNumbers, ModIsRest
<1> QED
  BY <1>1, <1>2, ConsoleNumbers DEF Ahead, Console!Counter

LEMMA AheadTwice ==
  ASSUME PartsAssumption, NEW k \in Int, NEW c \in Int, NEW d \in Int
  PROVE  Ahead(Ahead(k, c), d) = Ahead(k, c + d)
<1>1. PICK x \in Int : x = k + c
  OBVIOUS
<1>2. ((x % Wrap) + d) % Wrap = (x + d) % Wrap
  BY ConsoleNumbers, ModOfWhole, ModOfSum
<1> QED
  BY <1>1, <1>2 DEF Ahead

LEMMA AheadOfNothing ==
  ASSUME PartsAssumption, NEW k \in Console!Counter PROVE Ahead(k, 0) = k
BY ConsoleNumbers, ModOfSmall DEF Ahead, Console!Counter

LEMMA MinusOfAhead ==
  ASSUME PartsAssumption, NEW k \in Int, NEW c \in Int, NEW j \in Int
  PROVE  Console!Minus(Ahead(k, c), j) = Ahead(k, c - j)
<1>1. PICK x \in Int : x = k + c
  OBVIOUS
<1>2. ((x % Wrap) + Wrap - j) % Wrap = (x - j) % Wrap
  BY ConsoleNumbers, ModOfDifference
<1>3. x - j = k + (c - j)
  BY <1>1
<1> QED
  BY <1>1, <1>2, <1>3 DEF Ahead, Console!Minus

LEMMA MinusIsDistance ==
  ASSUME PartsAssumption, NEW k \in Console!Counter, NEW d \in Nat, d <= BufSize
  PROVE  Console!Minus(Ahead(k, d), k) = d
<1>1. d \in 0 .. (Wrap - 1) /\ k \in 0 .. (Wrap - 1)
  BY ConsoleNumbers DEF Console!Counter
<1>2. (((k + d) % Wrap) + Wrap - k) % Wrap = d
  BY <1>1, ConsoleNumbers, DistanceIs
<1> QED
  BY <1>2 DEF Ahead, Console!Minus

LEMMA PlaceIsIndex ==
  ASSUME PartsAssumption, NEW k \in Int PROVE Place(k) \in 0 .. BufSize - 1
BY ConsoleNumbers, ModIsRest DEF Place

LEMMA PlaceOfAhead ==
  ASSUME PartsAssumption, NEW k \in Int, NEW c \in Int, NEW d \in Int
  PROVE  Place(Ahead(k, c) + d) = Place(k + c + d)
<1>1. PICK x \in Int : x = k + c
  OBVIOUS
<1>2. ((x % Wrap) + d) % BufSize = (x + d) % BufSize
  BY ConsoleNumbers, ModOfSum
<1> QED
  BY <1>1, <1>2 DEF Ahead, Place

LEMMA PlacesDiffer ==
  ASSUME PartsAssumption, NEW x \in Int, NEW y \in Int, x < y, y < x + BufSize
  PROVE  Place(x) # Place(y)
BY ConsoleNumbers, SlotsDiffer DEF Place

-----------------------------------------------------------------------------
\* len characters of the ring b, from its index from on.
Text(b, from, len) == [i \in 1 .. len |-> b[Place(from + i - 1)]]

Ring == [0 .. BufSize - 1 -> Char]

LEMMA TextIsLong ==
  ASSUME PartsAssumption, NEW b \in Ring, NEW f \in Int, NEW n \in Nat
  PROVE  /\ Text(b, f, n) \in Seq(Char) /\ Len(Text(b, f, n)) = n
         /\ \A i \in 1 .. n : Text(b, f, n)[i] = b[Place(f + i - 1)]
<1>1. \A i \in 1 .. n : b[Place(f + i - 1)] \in Char
  BY PlaceIsIndex DEF Ring
<1> QED
  BY <1>1 DEF Text

LEMMA TextFromAhead ==
  ASSUME PartsAssumption, NEW b, NEW k \in Int, NEW c \in Int, NEW n \in Nat
  PROVE  Text(b, Ahead(k, c), n) = Text(b, k + c, n)
<1>1. ASSUME NEW i \in 1 .. n PROVE Place(Ahead(k, c) + i - 1) = Place(k + c + i - 1)
  <2>1. PICK d \in Int : d = i - 1
    OBVIOUS
  <2>2. Place(Ahead(k, c) + d) = Place(k + c + d)
    BY PlaceOfAhead
  <2>3. Ahead(k, c) \in Int
    BY AheadIsCounter
  <2>4. Ahead(k, c) + i - 1 = Ahead(k, c) + d /\ k + c + i - 1 = k + c + d
    BY <2>1, <2>3
  <2> QED
    BY <2>2, <2>4
<1> QED
  BY <1>1 DEF Text

\* The ring ring is b with c at end.
Stored(b, end, c, ring) ==
  /\ ring \in Ring /\ ring[Place(end)] = c
  /\ \A k \in 0 .. BufSize - 1 : k # Place(end) => ring[k] = b[k]

LEMMA PlacesKept ==
  ASSUME PartsAssumption, NEW b \in Ring, NEW end \in Int, NEW c,
         NEW ring, Stored(b, end, c, ring)
  PROVE  /\ ring \in Ring /\ ring[Place(end)] = c
         /\ \A k \in Int : end < k + BufSize /\ k < end => ring[Place(k)] = b[Place(k)]
<1>1. ring \in Ring /\ ring[Place(end)] = c
  BY DEF Stored
<1>2. ASSUME NEW k \in Int, end < k + BufSize, k < end PROVE ring[Place(k)] = b[Place(k)]
  <2>1. Place(k) # Place(end)
    BY <1>2, ConsoleNumbers, PlacesDiffer
  <2>2. Place(k) \in 0 .. BufSize - 1
    BY PlaceIsIndex
  <2> QED
    BY <2>1, <2>2 DEF Stored
<1> QED
  BY <1>1, <1>2

LEMMA TextKept ==
  ASSUME PartsAssumption, NEW b \in Ring, NEW end \in Int, NEW c,
         NEW ring, Stored(b, end, c, ring),
         NEW g \in Int, NEW m \in Nat, end < g + BufSize, g + m <= end
  PROVE  Text(ring, g, m) = Text(b, g, m)
<1>1. ASSUME NEW i \in 1 .. m PROVE ring[Place(g + i - 1)] = b[Place(g + i - 1)]
  <2>1. PICK k \in Int : k = g + i - 1
    OBVIOUS
  <2>2. end < k + BufSize /\ k < end
    BY <2>1, ConsoleNumbers
  <2>3. ring[Place(k)] = b[Place(k)]
    BY <2>2, PlacesKept
  <2> QED
    BY <2>1, <2>3
<1> QED
  BY <1>1 DEF Text

\* The text of m characters from g on ends before end, with one more it has l.
EndsAt(end, g, m, l) == end < g + BufSize /\ g + m = end /\ l = m + 1

LEMMA TextTyped ==
  ASSUME PartsAssumption, NEW b \in Ring, NEW end \in Int, NEW c,
         NEW ring, Stored(b, end, c, ring),
         NEW g \in Int, NEW m \in Nat, NEW l \in Nat, EndsAt(end, g, m, l)
  PROVE  Text(ring, g, l) = Append(Text(b, g, m), c)
<1> DEFINE x == Text(b, g, m)
           y == Text(ring, g, m + 1)
<1> USE DEF EndsAt
<1>1. ring \in Ring /\ ring[Place(end)] = c
  BY PlacesKept
<1>2. x \in Seq(Char) /\ Len(x) = m /\ \A i \in 1 .. m : x[i] = b[Place(g + i - 1)]
  BY TextIsLong
<1>3. y \in Seq(Char) /\ Len(y) = m + 1 /\ \A i \in 1 .. m + 1 : y[i] = ring[Place(g + i - 1)]
  <2>1. PICK j \in Nat : j = m + 1
    OBVIOUS
  <2> QED
    BY <1>1, <2>1, TextIsLong
<1>4. ASSUME NEW i \in 1 .. m PROVE ring[Place(g + i - 1)] = b[Place(g + i - 1)]
  <2>1. PICK k \in Int : k = g + i - 1
    OBVIOUS
  <2>2. end < k + BufSize /\ k < end
    BY <2>1, ConsoleNumbers
  <2>3. ring[Place(k)] = b[Place(k)]
    BY <2>2, PlacesKept
  <2> QED
    BY <2>1, <2>3
<1> HIDE DEF x, y
<1>5. y[m + 1] = c
  <2>1. m + 1 \in 1 .. m + 1 /\ g + (m + 1) - 1 = end
    OBVIOUS
  <2>2. y[m + 1] = ring[Place(g + (m + 1) - 1)]
    BY <1>3, <2>1
  <2> QED
    BY <1>1, <2>1, <2>2
<1>6. ASSUME NEW i \in 1 .. m PROVE y[i] = x[i]
  <2>1. i \in 1 .. m + 1
    OBVIOUS
  <2> QED
    BY <1>2, <1>3, <1>4, <2>1
<1>7. y = Append(x, c)
  BY <1>2, <1>3, <1>5, <1>6, SMTT(30)
<1> QED
  BY <1>7 DEF x, y

LEMMA TextJoins ==
  ASSUME PartsAssumption, NEW b \in Ring, NEW f \in Int, NEW n \in Nat, NEW m \in Nat
  PROVE  Text(b, f, n) \o Text(b, f + n, m) = Text(b, f, n + m)
<1> DEFINE x == Text(b, f, n)
           y == Text(b, f + n, m)
           z == Text(b, f, n + m)
<1>1. x \in Seq(Char) /\ Len(x) = n /\ \A i \in 1 .. n : x[i] = b[Place(f + i - 1)]
  BY TextIsLong
<1>2. y \in Seq(Char) /\ Len(y) = m /\ \A i \in 1 .. m : y[i] = b[Place(f + n + i - 1)]
  BY TextIsLong
<1>3. z \in Seq(Char) /\ Len(z) = n + m /\ \A i \in 1 .. n + m : z[i] = b[Place(f + i - 1)]
  BY TextIsLong
<1>4. ASSUME NEW i \in 1 .. m PROVE z[n + i] = y[i]
  <2>1. n + i \in 1 .. n + m /\ f + (n + i) - 1 = f + n + i - 1
    OBVIOUS
  <2>2. z[n + i] = b[Place(f + (n + i) - 1)]
    BY <1>3, <2>1
  <2> QED
    BY <1>2, <2>1, <2>2
<1>5. ASSUME NEW i \in 1 .. n PROVE z[i] = x[i]
  <2>1. i \in 1 .. n + m
    OBVIOUS
  <2> QED
    BY <1>1, <1>3, <2>1
<1> HIDE DEF x, y, z
<1>6. x \o y \in Seq(Char) /\ Len(x \o y) = n + m
      /\ \A i \in 1 .. n + m : (x \o y)[i] = IF i <= n THEN x[i] ELSE y[i - n]
  BY <1>1, <1>2, ConcatProperties, ZenonT(40)
<1>7. ASSUME NEW i \in 1 .. n + m PROVE (x \o y)[i] = z[i]
  <2>1. CASE i <= n
    BY <1>5, <1>6, <2>1
  <2>2. CASE ~(i <= n)
    <3>1. PICK j \in 1 .. m : i = n + j
      BY <2>2
    <3>2. z[n + j] = y[j]
      BY <1>4
    <3>3. (x \o y)[i] = y[i - n] /\ i - n = j
      BY <1>6, <2>2, <3>1
    <3> QED
      BY <3>1, <3>2, <3>3
  <2> QED
    BY <2>1, <2>2
<1>8. x \o y = z
  <2>1. PICK u \in Seq(Char) : u = x \o y
    BY <1>6
  <2>2. Len(u) = Len(z) /\ \A i \in 1 .. Len(u) : u[i] = z[i]
    BY <1>3, <1>6, <1>7, <2>1
  <2>3. u = z
    BY <1>3, <2>2, SeqEqual
  <2> QED
    BY <2>1, <2>3
<1> QED
  BY <1>8 DEF x, y, z

LEMMA TextShortened ==
  ASSUME PartsAssumption, NEW b \in Ring, NEW f \in Int, NEW n \in Nat
  PROVE  /\ SubSeq(Text(b, f, n + 1), 1, n) = Text(b, f, n)
         /\ Tail(Text(b, f, n + 1)) = Text(b, f + 1, n)
         /\ Text(b, f, n + 1) # <<>>
<1> DEFINE x == Text(b, f, n + 1)
           y == Text(b, f, n)
           z == Text(b, f + 1, n)
<1>1. x \in Seq(Char) /\ Len(x) = n + 1 /\ \A i \in 1 .. n + 1 : x[i] = b[Place(f + i - 1)]
  BY TextIsLong
<1>2. y \in Seq(Char) /\ Len(y) = n /\ \A i \in 1 .. n : y[i] = b[Place(f + i - 1)]
  BY TextIsLong
<1>3. z \in Seq(Char) /\ Len(z) = n /\ \A i \in 1 .. n : z[i] = b[Place(f + 1 + i - 1)]
  BY TextIsLong
<1>4. ASSUME NEW i \in 1 .. n PROVE z[i] = x[i + 1] /\ y[i] = x[i]
  <2>1. i \in 1 .. n + 1 /\ i + 1 \in 1 .. n + 1 /\ f + (i + 1) - 1 = f + 1 + i - 1
    OBVIOUS
  <2>2. x[i + 1] = b[Place(f + (i + 1) - 1)] /\ x[i] = b[Place(f + i - 1)]
    BY <1>1, <2>1
  <2> QED
    BY <1>2, <1>3, <2>1, <2>2
<1> HIDE DEF x, y, z
<1>5. SubSeq(x, 1, n) = y
  BY <1>1, <1>2, <1>4
<1>6. Tail(x) = z
  BY <1>1, <1>3, <1>4
<1>7. x # <<>>
  BY <1>1
<1> QED
  BY <1>5, <1>6, <1>7 DEF x, y, z

-----------------------------------------------------------------------------
\* r <= w <= e around the ring: n characters of whole lines are there and m of
\* the line that is typed, and none of these ends a line.
ConsoleAt(n, m) ==
  /\ n + m <= BufSize
  /\ w = Ahead(r, n) /\ e = Ahead(r, n + m)
  /\ \A k \in Int : n <= k /\ k < n + m => buf[Place(r + k)] # EndOfLine

ConsoleInv ==
  /\ Console!TypeOK
  /\ \A p \in Reader : pc[p] = "asleep" => lock = None /\ r = w
  /\ \E n, m \in Nat : ConsoleAt(n, m)

\* The distances of the indices, and what is between them.
LEMMA ConsoleView ==
  ASSUME PartsAssumption, NEW b \in Ring, NEW rr \in Console!Counter,
         NEW n \in Nat, NEW m \in Nat, n + m <= BufSize,
         NEW ww, ww = Ahead(rr, n), NEW ee, ee = Ahead(rr, n + m)
  PROVE  /\ ww \in Console!Counter /\ ee \in Console!Counter
         /\ Console!Minus(ww, rr) = n /\ Console!Minus(ee, ww) = m
         /\ Console!Minus(ee, rr) = n + m
         /\ Text(b, ww, m) = Text(b, rr + n, m)
<1>1. rr \in Int
  BY ConsoleNumbers DEF Console!Counter
<1>2. ww \in Console!Counter /\ ee \in Console!Counter
  BY <1>1, AheadIsCounter
<1>3. ee = Ahead(ww, m)
  BY <1>1, AheadTwice
<1>4. Console!Minus(ww, rr) = n /\ Console!Minus(ee, ww) = m
  BY <1>2, <1>3, ConsoleNumbers, MinusIsDistance
<1>5. Console!Minus(ee, rr) = n + m
  <2>1. PICK d \in Nat : d = n + m
    OBVIOUS
  <2> QED
    BY <2>1, MinusIsDistance
<1>6. Text(b, ww, m) = Text(b, rr + n, m)
  BY <1>1, TextFromAhead
<1> QED
  BY <1>2, <1>4, <1>5, <1>6

LEMMA ConsoleReads ==
  ASSUME PartsAssumption, NEW n \in Nat, NEW m \in Nat, ConsoleAt(n, m), Console!TypeOK
  PROVE  /\ Console!Complete = Text(buf, r, n) /\ Console!Line = Text(buf, r + n, m)
         /\ r \in Int /\ buf \in Ring
         /\ w \in Console!Counter /\ e \in Console!Counter
         /\ Console!Minus(w, r) = n /\ Console!Minus(e, w) = m /\ Console!Minus(e, r) = n + m
<1>1. buf \in Ring /\ r \in Console!Counter /\ r \in Int
  BY ConsoleNumbers DEF Console!TypeOK, Console!Counter, Ring
<1>2. n + m <= BufSize /\ w = Ahead(r, n) /\ e = Ahead(r, n + m)
  BY DEF ConsoleAt
<1>3. /\ w \in Console!Counter /\ e \in Console!Counter
      /\ Console!Minus(w, r) = n /\ Console!Minus(e, w) = m /\ Console!Minus(e, r) = n + m
      /\ Text(buf, w, m) = Text(buf, r + n, m)
  BY <1>1, <1>2, ConsoleView
<1>4. Console!Complete = Text(buf, r, n) /\ Console!Line = Text(buf, w, m)
  BY <1>3 DEF Console!Complete, Console!Line, Console!Stretch, Console!At, Text, Place
<1> QED
  BY <1>1, <1>3, <1>4
LEMMA ConsoleReadsNext ==
  ASSUME PartsAssumption, NEW n \in Nat, NEW m \in Nat, ConsoleAt(n, m)', Console!TypeOK'
  PROVE  /\ Console!Complete' = Text(buf', r', n) /\ Console!Line' = Text(buf', r' + n, m)
         /\ r' \in Int /\ buf' \in Ring
         /\ w' \in Console!Counter /\ e' \in Console!Counter
         /\ Console!Minus(w', r') = n /\ Console!Minus(e', w') = m /\ Console!Minus(e', r') = n + m
<1>1. buf' \in Ring /\ r' \in Console!Counter /\ r' \in Int
  BY ConsoleNumbers DEF Console!TypeOK, Console!Counter, Ring
<1>2. n + m <= BufSize /\ w' = Ahead(r', n) /\ e' = Ahead(r', n + m)
  BY DEF ConsoleAt
<1>3. /\ w' \in Console!Counter /\ e' \in Console!Counter
      /\ Console!Minus(w', r') = n /\ Console!Minus(e', w') = m /\ Console!Minus(e', r') = n + m
      /\ Text(buf', w', m) = Text(buf', r' + n, m)
  BY <1>1, <1>2, ConsoleView
<1>4. Console!Complete' = Text(buf', r', n) /\ Console!Line' = Text(buf', w', m)
  BY <1>3 DEF Console!Complete, Console!Line, Console!Stretch, Console!At, Text, Place
<1> QED
  BY <1>1, <1>3, <1>4

\* The console as what LineInput says of it.
Edited == INSTANCE LineInput WITH
  Capacity <- BufSize, complete <- Console!Complete, line <- Console!Line

LEMMA ConsoleInit == ASSUME PartsAssumption, Console!Init PROVE ConsoleInv /\ Edited!Init
<1> USE ConsoleNumbers
<1>1. Console!TypeOK
  BY DEF Console!Init, Console!TypeOK, Console!Counter
<1>2. r = 0 /\ w = 0 /\ e = 0 /\ 0 \in Console!Counter /\ Ahead(0, 0) = 0
  BY AheadOfNothing DEF Console!Init, Console!Counter
<1>3. ConsoleAt(0, 0)
  BY <1>2 DEF ConsoleAt
<1>4. Console!Complete = Text(buf, r, 0) /\ Console!Line = Text(buf, r + 0, 0)
  BY <1>1, <1>3, ConsoleReads
<1>5. Console!Complete = <<>> /\ Console!Line = <<>>
  BY <1>4 DEF Text
<1>6. \A p \in Reader : pc[p] = "user"
  BY DEF Console!Init
<1> QED
  BY <1>1, <1>3, <1>5, <1>6 DEF ConsoleInv, Edited!Init

LEMMA ConsoleStep ==
  ASSUME PartsAssumption, ConsoleInv, [Console!Next]_(Console!vars)
  PROVE  ConsoleInv' /\ [Edited!Next]_<<Console!Complete, Console!Line>>
<1>n. /\ BufSize \in Nat \ {0} /\ Wrap \in Nat \ {0} /\ BufSize < Wrap
      /\ MaxN \in Nat /\ EndOfLine \in Char /\ EndOfFile \in Char
  BY ConsoleNumbers
<1>t. /\ buf \in Ring /\ {r, w, e} \subseteq Console!Counter /\ lock \in Reader \cup {None}
      /\ pc \in [Reader -> {"user", "wait", "asleep"}]
      /\ left \in [Reader -> 0 .. MaxN] /\ target \in [Reader -> 0 .. MaxN]
  BY DEF ConsoleInv, Console!TypeOK, Ring
<1>a. \A p \in Reader : pc[p] = "asleep" => lock = None /\ r = w
  BY DEF ConsoleInv
<1>c. PICK n \in Nat, m \in Nat : ConsoleAt(n, m)
  BY DEF ConsoleInv
<1>v. /\ Console!Complete = Text(buf, r, n) /\ Console!Line = Text(buf, r + n, m)
      /\ r \in Int /\ w \in Console!Counter /\ e \in Console!Counter
      /\ Console!Minus(w, r) = n /\ Console!Minus(e, w) = m /\ Console!Minus(e, r) = n + m
  BY <1>c, ConsoleReads DEF ConsoleInv
<1>w. /\ n + m <= BufSize /\ w = Ahead(r, n) /\ e = Ahead(r, n + m)
      /\ \A k \in Int : n <= k /\ k < n + m => buf[Place(r + k)] # EndOfLine
  BY <1>c DEF ConsoleAt
<1>x. /\ Text(buf, r, n) \in Seq(Char) /\ Len(Text(buf, r, n)) = n
      /\ Text(buf, r + n, m) \in Seq(Char) /\ Len(Text(buf, r + n, m)) = m
  <2>1. r + n \in Int
    BY <1>v
  <2> QED
    BY <2>1, <1>t, <1>v, TextIsLong
<1>1. ASSUME NEW c \in Char, Console!Type(c)
      PROVE  ConsoleInv' /\ Edited!Next
  <2>l. PICK l \in Nat, end \in Int, g \in Int : l = n + m /\ end = r + l /\ g = r + n
    BY <1>v
  <2>1. /\ lock = None /\ l < BufSize
        /\ buf' = [buf EXCEPT ![Place(end)] = c] /\ e' = Ahead(r, l + 1)
        /\ UNCHANGED <<r, lock, left, target>>
    <3>1. /\ lock = None /\ Console!Minus(e, r) < BufSize
          /\ buf' = [buf EXCEPT ![e % BufSize] = c] /\ e' = (e + 1) % Wrap
          /\ UNCHANGED <<r, lock, left, target>>
      BY <1>1 DEF Console!Type
    <3>2. e = Ahead(r, l) /\ Ahead(r, l) \in Int /\ Console!Minus(e, r) = l
      BY <1>v, <1>w, <2>l, AheadIsCounter
    <3>3. e % BufSize = Place(Ahead(r, l) + 0) /\ (e + 1) % Wrap = Ahead(Ahead(r, l), 1)
      BY <3>2 DEF Ahead, Place
    <3>4. Place(Ahead(r, l) + 0) = Place(r + l + 0) /\ r + l + 0 = end
      BY <2>l, <1>v, PlaceOfAhead
    <3>5. Ahead(Ahead(r, l), 1) = Ahead(r, l + 1)
      BY <1>v, AheadTwice
    <3> QED
      BY <3>1, <3>2, <3>3, <3>4, <3>5
  <2>2. Console!Minus(e', r) = l + 1
    <3>1. PICK d \in Nat : d = l + 1
      OBVIOUS
    <3> QED
      BY <2>1, <3>1, <1>n, <1>t, MinusIsDistance
  <2>3. /\ buf' \in Ring
        /\ Text(buf', r, n) = Text(buf, r, n)
        /\ Text(buf', r + n, m + 1) = Append(Text(buf, r + n, m), c)
        /\ Text(buf', r, l + 1) = Append(Text(buf, r, l), c)
    <3>1. PICK ring \in {buf'} : Stored(buf, end, c, ring)
      BY <1>t, <2>1, PlaceIsIndex DEF Stored, Ring
    <3>2. end < r + BufSize /\ r + n <= end /\ end < g + BufSize /\ g + m = end /\ r + l = end
      BY <2>l, <2>1, <1>v, <1>n
    <3>3. ring \in Ring
      BY <1>t, <3>1, PlacesKept
    <3>4. Text(ring, r, n) = Text(buf, r, n)
      BY <1>t, <1>v, <3>1, <3>2, TextKept
    <3>5. Text(ring, g, m + 1) = Append(Text(buf, g, m), c)
      <4>1. PICK k \in Nat : k = m + 1
        OBVIOUS
      <4>2. EndsAt(end, g, m, k)
        BY <3>2, <4>1 DEF EndsAt
      <4>3. Text(ring, g, k) = Append(Text(buf, g, m), c)
        BY <1>t, <3>1, <4>2, TextTyped
      <4> QED
        BY <4>1, <4>3
    <3>6. Text(ring, r, l + 1) = Append(Text(buf, r, l), c)
      <4>1. PICK k \in Nat : k = l + 1
        OBVIOUS
      <4>2. EndsAt(end, r, l, k)
        BY <3>2, <4>1 DEF EndsAt
      <4>3. Text(ring, r, k) = Append(Text(buf, r, l), c)
        BY <1>t, <1>v, <3>1, <4>2, TextTyped
      <4> QED
        BY <4>1, <4>3
    <3> QED
      BY <2>l, <3>1, <3>3, <3>4, <3>5, <3>6
  <2>4. e' \in Console!Counter
    BY <2>1, <1>v, AheadIsCounter
  <2>5. CASE c \in {EndOfLine, EndOfFile} \/ l + 1 = BufSize
    <3>1. w' = e' /\ pc' = [p \in Reader |-> IF pc[p] = "asleep" THEN "wait" ELSE pc[p]]
      BY <1>1, <2>1, <2>2, <2>5 DEF Console!Type, Console!WakeReaders
    <3>2. Console!TypeOK'
      BY <1>t, <2>1, <2>3, <2>4, <3>1 DEF Console!TypeOK, Ring
    <3>3. ConsoleAt(l + 1, 0)'
      BY <1>v, <2>1, <1>n, <3>1 DEF ConsoleAt
    <3>4. Console!Complete' = Text(buf', r', l + 1) /\ Console!Line' = Text(buf', r' + (l + 1), 0)
      BY <3>2, <3>3, ConsoleReadsNext
    <3>5. Console!Line' = <<>>
      BY <3>4 DEF Text
    <3>6. Text(buf, r, n) \o Text(buf, r + n, m) = Text(buf, r, l)
      <4>1. Text(buf, r, n) \o Text(buf, r + n, m) = Text(buf, r, n + m)
        BY <1>t, <1>v, TextJoins, ZenonT(40)
      <4> QED
        BY <2>l, <4>1
    <3>7. Console!Complete' = Console!Complete \o Console!Line \o <<c>>
      <4>1. Console!Complete' = Append(Text(buf, r, l), c)
        BY <2>1, <2>3, <3>4
      <4>2. Text(buf, r, l) \in Seq(Char)
        BY <1>t, <1>v, TextIsLong
      <4>3. Append(Text(buf, r, l), c) = Text(buf, r, l) \o <<c>>
        BY <4>2, AppendIsConcat
      <4> QED
        BY <1>v, <3>6, <4>1, <4>3
    <3>8. \A p \in Reader : pc'[p] # "asleep"
      BY <1>t, <3>1
    <3>9. Edited!Type(c)
      BY <1>v, <1>x, <1>n, <2>l, <2>1, <2>5, <3>5, <3>7 DEF Edited!Type
    <3> QED
      BY <3>2, <3>3, <3>8, <3>9 DEF ConsoleInv, Edited!Next
  <2>6. CASE ~(c \in {EndOfLine, EndOfFile} \/ l + 1 = BufSize)
    <3>1. w' = w /\ pc' = pc
      BY <1>1, <2>1, <2>2, <2>6 DEF Console!Type
    <3>2. Console!TypeOK'
      BY <1>t, <2>1, <2>3, <2>4, <3>1 DEF Console!TypeOK, Ring
    <3>3. ASSUME NEW k \in Int, n <= k, k < l + 1 PROVE buf'[Place(r + k)] # EndOfLine
      <4>1. CASE k = l
        BY <1>t, <1>v, <2>l, <2>1, <2>6, <4>1, PlaceIsIndex DEF Ring
      <4>2. CASE k < l
        <5>1. PICK x \in Int : x = r + k
          BY <1>v
        <5>2. Place(x) # Place(end)
          BY <2>l, <2>1, <3>3, <4>2, <5>1, <1>v, <1>n, PlacesDiffer
        <5>3. Place(x) \in 0 .. BufSize - 1
          BY PlaceIsIndex
        <5> QED
          BY <1>t, <1>w, <2>l, <2>1, <3>3, <4>2, <5>1, <5>2, <5>3 DEF Ring
      <4> QED
        BY <3>3, <4>1, <4>2
    <3>4. ConsoleAt(n, m + 1)'
      BY <1>v, <1>w, <2>l, <2>1, <1>n, <3>1, <3>3 DEF ConsoleAt
    <3>5. Console!Complete' = Text(buf', r', n) /\ Console!Line' = Text(buf', r' + n, m + 1)
      BY <3>2, <3>4, ConsoleReadsNext
    <3>6. Console!Complete' = Console!Complete /\ Console!Line' = Append(Console!Line, c)
      BY <1>v, <2>1, <2>3, <3>5
    <3>7. Edited!Type(c)
      BY <1>v, <1>x, <1>n, <2>l, <2>1, <2>6, <3>6 DEF Edited!Type
    <3> QED
      BY <1>a, <2>1, <3>1, <3>2, <3>4, <3>7 DEF ConsoleInv, Edited!Next
  <2> QED
    BY <2>5, <2>6
<1>2. ASSUME NEW j \in Nat, j <= m, e' = Ahead(r, n + j), buf' = buf, w' = w, r' = r,
             UNCHANGED <<lock, pc, left, target>>
      PROVE  /\ ConsoleInv' /\ Console!Complete' = Console!Complete
             /\ Console!Line' = Text(buf, r + n, j)
  <2>1. e' \in Console!Counter
    BY <1>2, <1>v, AheadIsCounter
  <2>2. Console!TypeOK'
    BY <1>2, <1>t, <2>1 DEF Console!TypeOK, Ring
  <2>3. ConsoleAt(n, j)'
    <3>1. ASSUME NEW k \in Int, n <= k, k < n + j PROVE buf'[Place(r' + k)] # EndOfLine
      <4>1. k < n + m
        BY <1>2, <3>1
      <4>2. buf[Place(r + k)] # EndOfLine
        BY <1>w, <3>1, <4>1
      <4> QED
        BY <1>2, <4>2
    <3>2. n + j <= BufSize
      BY <1>2, <1>w, <1>n
    <3>3. w' = Ahead(r', n) /\ e' = Ahead(r', n + j)
      BY <1>2, <1>w
    <3> QED
      BY <3>1, <3>2, <3>3 DEF ConsoleAt
  <2>4. Console!Complete' = Text(buf', r', n) /\ Console!Line' = Text(buf', r' + n, j)
    BY <2>2, <2>3, ConsoleReadsNext
  <2> QED
    BY <1>2, <1>a, <1>v, <2>2, <2>3, <2>4 DEF ConsoleInv
<1>3. ASSUME Console!Backspace PROVE ConsoleInv' /\ Edited!Erase
  <2>1. e # w /\ e' = Console!Minus(e, 1) /\ UNCHANGED <<buf, r, w, lock, pc, left, target>>
    BY <1>3 DEF Console!Backspace
  <2>2. m # 0
    BY <1>w, <2>1
  <2>3. PICK j \in Nat, g \in Int : m = j + 1 /\ g = r + n
    BY <1>v, <2>2
  <2>4. e' = Ahead(r, n + j)
    BY <1>v, <1>w, <2>1, <2>3, MinusOfAhead
  <2>5. ConsoleInv' /\ Console!Complete' = Console!Complete /\ Console!Line' = Text(buf, g, j)
    BY <1>2, <2>1, <2>3, <2>4
  <2>6. Text(buf, g, j) = SubSeq(Text(buf, g, j + 1), 1, j) /\ Text(buf, g, j + 1) # <<>>
    BY <1>t, TextShortened
  <2> QED
    BY <1>v, <1>x, <2>3, <2>5, <2>6 DEF Edited!Erase
<1>4. ASSUME Console!KillLine PROVE ConsoleInv' /\ Edited!EraseLine
  <2>1. PICK k \in 0 .. m : /\ k = m \/ Console!At(Console!Minus(e, k + 1)) = EndOfLine
                            /\ e' = Console!Minus(e, k)
    BY <1>4, <1>v DEF Console!KillLine
  <2>2. UNCHANGED <<buf, r, w, lock, pc, left, target>>
    BY <1>4 DEF Console!KillLine
  <2>3. k = m
    <3> SUFFICES ASSUME k # m PROVE FALSE
      OBVIOUS
    <3>1. PICK i \in Nat : i = n + m - (k + 1)
      OBVIOUS
    <3>2. Console!Minus(e, k + 1) = Ahead(r, i)
      BY <1>v, <1>w, <3>1, MinusOfAhead
    <3>3. Place(Ahead(r, i) + 0) = Place(r + i + 0)
      BY <1>v, PlaceOfAhead
    <3>4. Ahead(r, i) + 0 = Ahead(r, i) /\ r + i + 0 = r + i
      BY <1>v, AheadIsCounter
    <3>5. buf[Place(r + i)] = EndOfLine
      BY <2>1, <3>2, <3>3, <3>4 DEF Console!At, Place
    <3> QED
      BY <1>w, <3>1, <3>5
  <2>4. e' = Ahead(r, n + 0)
    BY <1>v, <1>w, <2>1, <2>3, MinusOfAhead
  <2>5. ConsoleInv' /\ Console!Complete' = Console!Complete /\ Console!Line' = Text(buf, r + n, 0)
    BY <1>2, <2>2, <2>4
  <2> QED
    BY <2>5 DEF Edited!EraseLine, Text
<1>5. ASSUME r' = Ahead(r, 1), r # w, UNCHANGED <<buf, w, e>>, lock' \in Reader \cup {None},
             pc' \in [Reader -> {"user", "wait", "asleep"}],
             left' \in [Reader -> 0 .. MaxN], target' \in [Reader -> 0 .. MaxN],
             \A p \in Reader : pc'[p] = "asleep" => pc[p] = "asleep"
      PROVE  ConsoleInv' /\ Edited!Read
  <2>1. n # 0
    BY <1>5, <1>w, <1>t, AheadOfNothing
  <2>2. PICK i \in Nat : n = i + 1
    BY <2>1
  <2>3. r' \in Console!Counter
    BY <1>5, <1>v, AheadIsCounter
  <2>4. Console!TypeOK'
    BY <1>5, <1>t, <2>3 DEF Console!TypeOK, Ring
  <2>5. w = Ahead(r', i) /\ e = Ahead(r', i + m)
    <3>1. Ahead(Ahead(r, 1), i) = Ahead(r, 1 + i)
      BY <1>v, AheadTwice
    <3>2. PICK d \in Int : d = i + m
      OBVIOUS
    <3>3. Ahead(Ahead(r, 1), d) = Ahead(r, 1 + d)
      BY <1>v, AheadTwice
    <3>4. 1 + i = n /\ 1 + d = n + m
      BY <2>2, <3>2
    <3> QED
      BY <1>5, <1>w, <3>1, <3>2, <3>3, <3>4
  <2>6. ASSUME NEW k \in Int, i <= k, k < i + m PROVE buf[Place(r' + k)] # EndOfLine
    <3>1. PICK j \in Int : j = k + 1
      OBVIOUS
    <3>2. Place(Ahead(r, 1) + k) = Place(r + 1 + k) /\ r + 1 + k = r + j
      BY <1>v, <3>1, PlaceOfAhead
    <3>3. buf[Place(r + j)] # EndOfLine
      BY <1>w, <2>2, <2>6, <3>1
    <3> QED
      BY <1>5, <3>2, <3>3
  <2>7. ConsoleAt(i, m)'
    <3>1. i + m <= BufSize
      BY <1>w, <1>n, <2>2
    <3>2. w' = Ahead(r', i) /\ e' = Ahead(r', i + m)
      BY <1>5, <2>5
    <3>3. \A k \in Int : i <= k /\ k < i + m => buf'[Place(r' + k)] # EndOfLine
      BY <1>5, <2>6
    <3> QED
      BY <3>1, <3>2, <3>3 DEF ConsoleAt
  <2>8. Console!Complete' = Text(buf', r', i)
    BY <2>4, <2>7, ConsoleReadsNext
  <2>9. Text(buf, Ahead(r, 1), i) = Text(buf, r + 1, i)
    BY <1>v, TextFromAhead
  <2>10. Tail(Text(buf, r, i + 1)) = Text(buf, r + 1, i) /\ Text(buf, r, i + 1) # <<>>
    BY <1>t, <1>v, TextShortened
  <2>11. Console!Complete' = Tail(Console!Complete) /\ Console!Complete # <<>>
    BY <1>5, <1>v, <2>2, <2>8, <2>9, <2>10
  <2>12. Console!Line' = Console!Line
    BY <1>5 DEF Console!Line, Console!Stretch, Console!At, Console!Minus
  <2>13. \A p \in Reader : pc'[p] # "asleep"
    BY <1>5, <1>a
  <2> QED
    BY <2>4, <2>7, <2>11, <2>12, <2>13 DEF ConsoleInv, Edited!Read
<1>6. ASSUME UNCHANGED <<buf, r, w, e>>, lock' \in Reader \cup {None},
             pc' \in [Reader -> {"user", "wait", "asleep"}],
             left' \in [Reader -> 0 .. MaxN], target' \in [Reader -> 0 .. MaxN],
             \A p \in Reader : pc'[p] = "asleep" => lock' = None /\ r = w
      PROVE  ConsoleInv' /\ UNCHANGED <<Console!Complete, Console!Line>>
  <2>1. Console!TypeOK'
    BY <1>6, <1>t DEF Console!TypeOK, Ring
  <2>2. ConsoleAt(n, m)'
    BY <1>6, <1>c DEF ConsoleAt
  <2>3. UNCHANGED <<Console!Complete, Console!Line>>
    BY <1>6 DEF Console!Complete, Console!Line, Console!Stretch, Console!At, Console!Minus
  <2> QED
    BY <1>6, <2>1, <2>2, <2>3 DEF ConsoleInv
<1>7. ASSUME NEW p \in Reader, Console!Return(p)
      PROVE  /\ lock' = None /\ pc' \in [Reader -> {"user", "wait", "asleep"}]
             /\ left' \in [Reader -> 0 .. MaxN] /\ target' \in [Reader -> 0 .. MaxN]
             /\ \A q \in Reader : pc'[q] = "asleep" => pc[q] = "asleep"
  BY <1>7, <1>t, <1>n DEF Console!Return
<1>8. ASSUME NEW p \in Reader,
             Console!Call(p) \/ Console!Wait(p) \/ Console!ReadEnd(p) \/ Console!Killed(p)
      PROVE  ConsoleInv' /\ UNCHANGED <<Console!Complete, Console!Line>>
  <2>1. CASE Console!Call(p)
    <3>1. /\ UNCHANGED <<buf, r, w, e, lock>> /\ pc' = [pc EXCEPT ![p] = "wait"]
          /\ left' \in [Reader -> 0 .. MaxN] /\ target' \in [Reader -> 0 .. MaxN]
      BY <1>t, <1>n, <2>1 DEF Console!Call
    <3> QED
      BY <1>t, <1>a, <3>1, <1>6
  <2>2. CASE Console!Wait(p)
    <3>1. /\ UNCHANGED <<buf, r, w, e>> /\ r = w /\ lock' = None
          /\ pc' \in [Reader -> {"user", "wait", "asleep"}]
          /\ left' \in [Reader -> 0 .. MaxN] /\ target' \in [Reader -> 0 .. MaxN]
      BY <1>t, <1>7, <2>2 DEF Console!Wait
    <3> QED
      BY <3>1, <1>6
  <2>3. CASE Console!ReadEnd(p)
    <3>1. UNCHANGED <<buf, r, w, e>> /\ Console!Return(p)
      BY <2>3 DEF Console!ReadEnd
    <3> QED
      BY <1>a, <1>7, <3>1, <1>6
  <2>4. CASE Console!Killed(p)
    <3>1. /\ UNCHANGED <<buf, r, w, e, lock, left, target>> /\ pc' = [pc EXCEPT ![p] = "wait"]
      BY <2>4 DEF Console!Killed
    <3> QED
      BY <1>t, <1>a, <3>1, <1>6
  <2> QED
    BY <1>8, <2>1, <2>2, <2>3, <2>4
<1>9. ASSUME NEW p \in Reader, Console!ReadEof(p)
      PROVE  ConsoleInv' /\ (Edited!Read \/ UNCHANGED <<Console!Complete, Console!Line>>)
  <2>1. /\ r # w /\ (r' = r \/ r' = Ahead(r, 1)) /\ Console!Return(p) /\ UNCHANGED <<buf, w, e>>
    BY <1>9 DEF Console!ReadEof, Ahead
  <2>2. CASE r' = r
    <3>1. \A q \in Reader : pc'[q] = "asleep" => lock' = None /\ r = w
      BY <1>a, <1>7, <2>1
    <3> QED
      BY <1>6, <1>7, <2>1, <2>2, <3>1
  <2>3. CASE r' = Ahead(r, 1)
    BY <1>5, <1>7, <2>1, <2>3
  <2> QED
    BY <2>1, <2>2, <2>3
<1>10. ASSUME NEW p \in Reader, Console!ReadChar(p) PROVE ConsoleInv' /\ Edited!Read
  <2>1. /\ r # w /\ r' = Ahead(r, 1) /\ UNCHANGED <<buf, w, e>>
        /\ \/ Console!Return(p)
           \/ /\ left' = [left EXCEPT ![p] = left[p] - 1] /\ left[p] > 0
              /\ lock' = p /\ UNCHANGED <<pc, target>>
    BY <1>10 DEF Console!ReadChar, Ahead
  <2>2. CASE Console!Return(p)
    BY <1>5, <1>7, <2>1, <2>2
  <2>3. CASE /\ left' = [left EXCEPT ![p] = left[p] - 1] /\ left[p] > 0
             /\ lock' = p /\ UNCHANGED <<pc, target>>
    <3>1. left' \in [Reader -> 0 .. MaxN]
      BY <1>t, <1>n, <2>3
    <3> QED
      BY <1>5, <1>t, <2>1, <2>3, <3>1
  <2> QED
    BY <2>1, <2>2, <2>3
<1>11. CASE UNCHANGED Console!vars
  BY <1>11, <1>6, <1>t, <1>a DEF Console!vars
<1>12. CASE Console!Next
  BY <1>12, <1>1, <1>3, <1>4, <1>8, <1>9, <1>10 DEF Console!Next, Edited!Next
<1> QED
  BY <1>11, <1>12

LEMMA ConsoleSafety == ASSUME PartsAssumption, ConsoleInv PROVE Console!TypeOK /\ Console!ReadersAwake
BY DEF ConsoleInv, Console!ReadersAwake

-----------------------------------------------------------------------------
(***************************************************************************)
(* fork(), exec(), sbrk() and what they free.  Every page is counted once: *)
(* free + Total(Uses, Proc) stays NumPages.  The invariant (MemSlot) says  *)
(* what a process owns in each step of the calls.                          *)
(***************************************************************************)

Forking == {"forkTf", "forkRoot", "forkHigh", "forkOriginal", "fork"}

MemTypes ==
  /\ free \in Nat
  /\ state \in [Proc -> {"unused", "used", "alive", "zombie", "stuck"}]
  /\ trapframe \in [Proc -> 0 .. 1] /\ original \in [Proc -> 0 .. 1]
  /\ image \in [Proc -> Memory!Image] /\ new \in [Proc -> Memory!Image]
  /\ pc \in [Proc -> Memory!Labels] /\ kid \in [Proc -> Proc]
  /\ goal \in [Proc -> 0 .. MaxSize] /\ base \in [Proc -> 0 .. MaxSize]
  /\ mem \in [Proc -> 0 .. 1]

MemSlot(p) ==
  /\ pc[p] # "user" => state[p] = "alive"
  /\ pc[p] \in Forking => state[kid[p]] = "used"
  /\ \A q \in Proc : q # p /\ pc[p] \in Forking /\ pc[q] \in Forking => kid[q] # kid[p]
  /\ pc[p] \in {"forkTf", "forkRoot"} => image[kid[p]].tables = 0
  /\ pc[p] = "forkHigh" => image[kid[p]].tables = 1
  /\ state[p] = "unused" => image[p].tables = 0
  /\ pc[p] = "execHigh" => new[p].tables = 1
  /\ pc[p] \notin {"execHigh", "exec"} => new[p].tables = 0
  /\ pc[p] = "grow" => base[p] <= image[p].user

MemInv == MemTypes /\ Memory!PagesFreedOnce /\ \A p \in Proc : MemSlot(p)

LEMMA MemNumbers ==
  ASSUME PartsAssumption
  PROVE  IsFiniteSet(Proc) /\ First \in Proc /\ NumPages \in Nat /\ NumPages >= 6 /\ MaxSize \in Nat \ {0}
BY DEF PartsAssumption, Memory!FirstAssumption, Memory!SizeAssumption, Memory!IsFiniteSet, IsFiniteSet

LEMMA MemTotalIs == ASSUME NEW f PROVE Memory!Total(f, Proc) = Total(f, Proc)
BY DEF Memory!Total, Memory!Things, Total, Things, Memory!Cardinality, Cardinality, IsFiniteSet

\* The page for original_trapframe, while the pointer to it is good.
OriginalOf(s) == IF Memory!HasOriginal(s) THEN original[s] ELSE 0

Pages(s) ==
  trapframe[s] + image[s].tables + image[s].user + new[s].tables + new[s].user + mem[s] + OriginalOf(s)

LEMMA UsesArePages ==
  ASSUME PartsAssumption, MemTypes, NEW s \in Proc
  PROVE  /\ Memory!Uses[s] = Pages(s) /\ Pages(s) \in Nat
         /\ trapframe[s] \in Nat /\ image[s].tables \in Nat /\ image[s].user \in Nat
         /\ new[s].tables \in Nat /\ new[s].user \in Nat /\ mem[s] \in Nat
         /\ OriginalOf(s) \in 0 .. 1
<1>1. /\ trapframe[s] \in Nat /\ image[s].tables \in Nat /\ image[s].user \in Nat
      /\ new[s].tables \in Nat /\ new[s].user \in Nat /\ mem[s] \in Nat
      /\ original[s] \in 0 .. 1
  <2>1. /\ image[s] \in Memory!Image /\ new[s] \in Memory!Image
        /\ trapframe[s] \in 0 .. 1 /\ original[s] \in 0 .. 1 /\ mem[s] \in 0 .. 1
    BY DEF MemTypes
  <2>2. \A i \in Memory!Image : i.tables \in Nat /\ i.user \in Nat
    BY MemNumbers DEF Memory!Image
  <2> QED
    BY <2>1, <2>2
<1>2. Memory!Uses[s] = trapframe[s] + (image[s].tables + image[s].user)
                        + (new[s].tables + new[s].user) + mem[s] + OriginalOf(s)
  BY DEF Memory!Uses, Memory!Size, OriginalOf
<1>3. OriginalOf(s) \in 0 .. 1
  BY <1>1 DEF OriginalOf
<1> QED
  BY <1>1, <1>2, <1>3 DEF Pages

LEMMA UsesArePagesNext ==
  ASSUME PartsAssumption, MemTypes', NEW s \in Proc
  PROVE  /\ Memory!Uses'[s] = Pages(s)' /\ Pages(s)' \in Nat
         /\ trapframe'[s] \in Nat /\ image'[s].tables \in Nat /\ image'[s].user \in Nat
         /\ new'[s].tables \in Nat /\ new'[s].user \in Nat /\ mem'[s] \in Nat
         /\ OriginalOf(s)' \in 0 .. 1
<1>1. /\ trapframe'[s] \in Nat /\ image'[s].tables \in Nat /\ image'[s].user \in Nat
      /\ new'[s].tables \in Nat /\ new'[s].user \in Nat /\ mem'[s] \in Nat
      /\ original'[s] \in 0 .. 1
  <2>1. /\ image'[s] \in Memory!Image /\ new'[s] \in Memory!Image
        /\ trapframe'[s] \in 0 .. 1 /\ original'[s] \in 0 .. 1 /\ mem'[s] \in 0 .. 1
    BY DEF MemTypes
  <2>2. \A i \in Memory!Image : i.tables \in Nat /\ i.user \in Nat
    BY MemNumbers DEF Memory!Image
  <2> QED
    BY <2>1, <2>2
<1>2. Memory!Uses'[s] = trapframe'[s] + (image'[s].tables + image'[s].user)
                        + (new'[s].tables + new'[s].user) + mem'[s] + OriginalOf(s)'
  BY DEF Memory!Uses, Memory!Size, OriginalOf
<1>3. OriginalOf(s)' \in 0 .. 1
  BY <1>1 DEF OriginalOf
<1> QED
  BY <1>1, <1>2, <1>3 DEF Pages

\* The pages of this slot stay what they are.
Untouched(s) ==
  /\ trapframe'[s] = trapframe[s] /\ image'[s] = image[s] /\ new'[s] = new[s]
  /\ mem'[s] = mem[s] /\ OriginalOf(s)' = OriginalOf(s)

LEMMA PagesOfTwo ==
  ASSUME PartsAssumption, MemTypes, MemTypes', Memory!PagesFreedOnce, NEW x \in Proc, NEW y \in Proc, x # y,
         \A s \in Proc \ {x, y} : Untouched(s),
         free' + Pages(x)' + Pages(y)' <= free + Pages(x) + Pages(y)
  PROVE  Memory!PagesFreedOnce' /\ free' <= NumPages
<1>1. ASSUME NEW s \in Proc
      PROVE  /\ Memory!Uses[s] \in Nat /\ Memory!Uses[s] = Pages(s)
             /\ Memory!Uses'[s] \in Nat /\ Memory!Uses'[s] = Pages(s)'
  BY UsesArePages, UsesArePagesNext
<1>2. ASSUME NEW s \in Proc \ {x, y} PROVE Memory!Uses'[s] = Memory!Uses[s]
  BY <1>1 DEF Untouched, Pages
<1>3. IsFiniteSet(Proc) /\ NumPages \in Nat /\ free \in Nat /\ free' \in Nat
  BY MemNumbers DEF MemTypes
<1>4. Total(Memory!Uses, Proc) \in Nat /\ Total(Memory!Uses', Proc) \in Nat
  BY <1>1, <1>3, ThingsAreFinite
<1>5. Total(Memory!Uses', Proc) + Memory!Uses[x] + Memory!Uses[y]
      = Total(Memory!Uses, Proc) + Memory!Uses'[x] + Memory!Uses'[y]
  BY <1>1, <1>2, <1>3, TotalOfTwo
<1>6. free' + Memory!Uses'[x] + Memory!Uses'[y] <= free + Memory!Uses[x] + Memory!Uses[y]
  BY <1>1
<1>7. free' + Total(Memory!Uses', Proc) <= free + Total(Memory!Uses, Proc)
  BY <1>1, <1>3, <1>4, <1>5, <1>6
<1>8. free + Total(Memory!Uses, Proc) <= NumPages
  BY MemTotalIs DEF Memory!PagesFreedOnce, Memory!InUse
<1>9. free' + Total(Memory!Uses', Proc) <= NumPages /\ free' <= NumPages
  BY <1>3, <1>4, <1>7, <1>8
<1> QED
  BY <1>9, MemTotalIs DEF Memory!PagesFreedOnce, Memory!InUse

LEMMA PagesOfOne ==
  ASSUME PartsAssumption, MemTypes, MemTypes', Memory!PagesFreedOnce, NEW x \in Proc,
         \A s \in Proc \ {x} : Untouched(s),
         free' + Pages(x)' <= free + Pages(x)
  PROVE  Memory!PagesFreedOnce' /\ free' <= NumPages
<1>1. ASSUME NEW s \in Proc
      PROVE  /\ Memory!Uses[s] \in Nat /\ Memory!Uses[s] = Pages(s)
             /\ Memory!Uses'[s] \in Nat /\ Memory!Uses'[s] = Pages(s)'
  BY UsesArePages, UsesArePagesNext
<1>2. ASSUME NEW s \in Proc \ {x} PROVE Memory!Uses'[s] = Memory!Uses[s]
  BY <1>1 DEF Untouched, Pages
<1>3. IsFiniteSet(Proc) /\ NumPages \in Nat /\ free \in Nat /\ free' \in Nat
  BY MemNumbers DEF MemTypes
<1>4. Total(Memory!Uses, Proc) \in Nat /\ Total(Memory!Uses', Proc) \in Nat
  BY <1>1, <1>3, ThingsAreFinite
<1>5. Total(Memory!Uses', Proc) = Total(Memory!Uses, Proc) + Memory!Uses'[x] - Memory!Uses[x]
  BY <1>1, <1>2, <1>3, TotalChanges
<1>6. free' + Memory!Uses'[x] <= free + Memory!Uses[x]
  BY <1>1
<1>7. free' + Total(Memory!Uses', Proc) <= free + Total(Memory!Uses, Proc)
  BY <1>1, <1>3, <1>4, <1>5, <1>6
<1>8. free + Total(Memory!Uses, Proc) <= NumPages
  BY MemTotalIs DEF Memory!PagesFreedOnce, Memory!InUse
<1>9. free' + Total(Memory!Uses', Proc) <= NumPages /\ free' <= NumPages
  BY <1>3, <1>4, <1>7, <1>8
<1> QED
  BY <1>9, MemTotalIs DEF Memory!PagesFreedOnce, Memory!InUse

LEMMA OriginalStays ==
  ASSUME NEW s \in Proc, NEW p \in Proc,
         \A q \in Proc \ {p} : pc'[q] = pc[q] /\ kid'[q] = kid[q],
         pc[p] # "fork" \/ kid[p] # s, pc'[p] # "fork" \/ kid'[p] # s,
         state'[s] = "alive" <=> state[s] = "alive", original'[s] = original[s]
  PROVE  OriginalOf(s)' = OriginalOf(s)
<1>1. Memory!HasOriginal(s)' <=> Memory!HasOriginal(s)
  BY DEF Memory!HasOriginal
<1> QED
  BY <1>1 DEF OriginalOf

LEMMA MemInit == ASSUME PartsAssumption, Memory!Init PROVE MemInv
<1> USE MemNumbers
<1>1. MemTypes
  BY DEF Memory!Init, MemTypes, Memory!Image, Memory!NoImage, Memory!Labels
<1>2. \A p \in Proc : MemSlot(p)
  BY DEF Memory!Init, MemSlot, Memory!NoImage, Forking
<1>3. ASSUME NEW s \in Proc PROVE Memory!Uses[s] = IF s = First THEN 6 ELSE 0
  <2>1. Memory!HasOriginal(s) <=> s = First
    BY DEF Memory!HasOriginal, Memory!Init
  <2> QED
    BY <1>1, <2>1, UsesArePages DEF Memory!Init, Memory!NoImage, OriginalOf, Pages
<1>4. Total(Memory!Uses, Proc) = Total(Memory!Uses, Proc \ {First}) + 6
  <2>1. \A s \in Proc : Memory!Uses[s] \in Nat
    BY <1>3
  <2> QED
    BY <1>3, <2>1, TotalRemoves
<1>5. Total(Memory!Uses, Proc \ {First}) = 0
  BY <1>3, TotalOfNothing
<1>6. Memory!InUse = 6
  BY <1>4, <1>5, MemTotalIs DEF Memory!InUse
<1>7. Memory!PagesFreedOnce
  BY <1>6 DEF Memory!PagesFreedOnce, Memory!Init
<1> QED
  BY <1>1, <1>2, <1>7 DEF MemInv

LEMMA MemSafety ==
  ASSUME PartsAssumption, MemInv PROVE Memory!TypeOK /\ Memory!PagesFreedOnce
<1>1. MemTypes /\ Memory!PagesFreedOnce
  BY DEF MemInv
<1>2. Total(Memory!Uses, Proc) \in Nat
  BY <1>1, MemNumbers, UsesArePages, ThingsAreFinite
<1>3. free + Total(Memory!Uses, Proc) <= NumPages
  BY <1>1, MemTotalIs DEF Memory!PagesFreedOnce, Memory!InUse
<1>4. free \in 0 .. NumPages
  BY <1>1, <1>2, <1>3, MemNumbers DEF MemTypes
<1> QED
  BY <1>1, <1>4 DEF MemTypes, Memory!TypeOK

LEMMA MemStep ==
  ASSUME PartsAssumption, MemInv, [Memory!Next]_(Memory!vars)
  PROVE  MemInv'
<1>t. MemTypes /\ Memory!PagesFreedOnce
  BY DEF MemInv
<1>n. NumPages \in Nat /\ MaxSize \in Nat \ {0} /\ free \in Nat /\ First \in Proc
  BY <1>t, MemNumbers DEF MemTypes
<1>s. \A s \in Proc : MemSlot(s)
  BY DEF MemInv
<1>v. ASSUME NEW s \in Proc
      PROVE  /\ state[s] \in {"unused", "used", "alive", "zombie", "stuck"}
             /\ image[s] \in Memory!Image /\ new[s] \in Memory!Image
             /\ image[s].tables \in 0 .. 3 /\ new[s].tables \in 0 .. 3
             /\ image[s].user \in 0 .. MaxSize /\ new[s].user \in 0 .. MaxSize
             /\ pc[s] \in Memory!Labels /\ kid[s] \in Proc
             /\ goal[s] \in 0 .. MaxSize /\ base[s] \in 0 .. MaxSize /\ mem[s] \in 0 .. 1
  BY <1>t DEF MemTypes, Memory!Image
<1>u. ASSUME NEW s \in Proc
      PROVE  /\ trapframe[s] \in Nat /\ image[s].tables \in Nat /\ image[s].user \in Nat
             /\ new[s].tables \in Nat /\ new[s].user \in Nat /\ mem[s] \in Nat
             /\ OriginalOf(s) \in Nat
  BY <1>t, UsesArePages
<1>l. /\ Memory!NoImage \in Memory!Image
      /\ Memory!NoImage.tables = 0 /\ Memory!NoImage.user = 0 /\ 0 \in 0 .. MaxSize
      /\ {"user", "forkTf", "forkRoot", "forkHigh", "forkOriginal", "fork", "panic", "grow",
          "execRoot", "execHigh", "exec"} \subseteq Memory!Labels
  BY <1>n DEF Memory!NoImage, Memory!Image, Memory!Labels, Memory!Building, Memory!Growing
<1>1. ASSUME NEW p \in Proc, Memory!ForkFails(p) PROVE MemInv'
  <2>k. PICK k \in Proc : k = kid[p]
    BY <1>v
  <2>1. /\ pc[p] \in {"forkTf", "forkRoot", "forkHigh"} /\ free = 0
        /\ state' = [state EXCEPT ![k] = "unused"] /\ trapframe' = [trapframe EXCEPT ![k] = 0]
        /\ image' = [image EXCEPT ![k] = Memory!NoImage]
        /\ free' = free + (trapframe[k] + (image[k].tables + image[k].user))
        /\ pc' = [pc EXCEPT ![p] = "user"] /\ UNCHANGED <<original, kid, new, goal, base, mem>>
    BY <1>1, <2>k DEF Memory!ForkFails, Memory!FreeProc, Memory!Give, Memory!Size, Memory!Goto, Memory!Out, Memory!locals
  <2>s. state[k] = "used" /\ state[p] = "alive"
    BY <1>s, <2>k, <2>1 DEF MemSlot, Forking
  <2>2. MemTypes'
    <3>1. free' \in Nat
      BY <1>n, <1>u, <2>1, <2>k
    <3> QED
      BY <1>t, <1>v, <1>l, <2>1, <3>1, <2>k DEF MemTypes
  <2>3. \A s \in Proc : MemSlot(s)'
    <3> SUFFICES ASSUME NEW s \in Proc PROVE MemSlot(s)'
      OBVIOUS
    <3> QED
      BY <1>s, <1>t, <1>v, <1>l, <2>1, <2>k, <2>s DEF MemSlot, Forking, MemTypes
  <2>4. \A s \in Proc : OriginalOf(s)' = OriginalOf(s)
    BY <1>t, <2>1, <2>s, OriginalStays DEF MemTypes
  <2>5. \A s \in Proc \ {k} : Untouched(s)
    BY <1>t, <2>1, <2>4 DEF Untouched, MemTypes
  <2>6. free' + Pages(k)' <= free + Pages(k)
    <3>1. /\ trapframe'[k] = 0 /\ image'[k].tables = 0 /\ image'[k].user = 0
          /\ new'[k].tables = new[k].tables /\ new'[k].user = new[k].user /\ mem'[k] = mem[k]
      BY <1>t, <1>l, <2>1, <2>s DEF MemTypes
    <3>2. free' = free + (trapframe[k] + (image[k].tables + image[k].user))
      BY <2>1
    <3> QED
      BY <1>n, <1>u, <2>4, <3>1, <3>2 DEF Pages
  <2>7. Memory!PagesFreedOnce'
    BY <1>t, <2>2, <2>5, <2>6, PagesOfOne
  <2> QED
    BY <2>2, <2>3, <2>7 DEF MemInv
<1>2. ASSUME NEW p \in Proc, Memory!AllocTrapframe(p) PROVE MemInv'
  <2>k. PICK k \in Proc : k = kid[p]
    BY <1>v
  <2>1. /\ pc[p] = "forkTf" /\ free > 0 /\ free' = free - 1
        /\ trapframe' = [trapframe EXCEPT ![k] = 1] /\ pc' = [pc EXCEPT ![p] = "forkRoot"]
        /\ UNCHANGED <<state, original, image, kid, new, goal, base, mem>>
    BY <1>2, <2>k DEF Memory!AllocTrapframe, Memory!Take, Memory!Goto, Memory!locals
  <2>s. state[k] = "used" /\ state[p] = "alive" /\ k # p
    BY <1>s, <2>k, <2>1 DEF MemSlot, Forking
  <2>2. MemTypes'
    <3>1. free' \in Nat
      BY <1>n, <1>u, <2>1, <2>k
    <3> QED
      BY <1>t, <1>v, <1>l, <2>1, <3>1, <2>k DEF MemTypes
  <2>3. \A s \in Proc : MemSlot(s)'
    <3> SUFFICES ASSUME NEW s \in Proc PROVE MemSlot(s)'
      OBVIOUS
    <3> QED
      BY <1>s, <1>t, <1>v, <1>l, <2>1, <2>k, <2>s DEF MemSlot, Forking, MemTypes
  <2>4. \A s \in Proc : OriginalOf(s)' = OriginalOf(s)
    BY <1>t, <2>1, <2>s, OriginalStays DEF MemTypes
  <2>5. \A s \in Proc \ {k} : Untouched(s)
    BY <1>t, <2>1, <2>4 DEF Untouched, MemTypes
  <2>6. free' + Pages(k)' <= free + Pages(k)
    <3>1. /\ trapframe'[k] = 1 /\ image'[k].tables = image[k].tables /\ image'[k].user = image[k].user
          /\ new'[k].tables = new[k].tables /\ new'[k].user = new[k].user /\ mem'[k] = mem[k]
      BY <1>t, <1>l, <2>1, <2>s DEF MemTypes
    <3>2. free' = free - 1
      BY <2>1
    <3> QED
      BY <1>n, <1>u, <2>4, <3>1, <3>2 DEF Pages
  <2>7. Memory!PagesFreedOnce'
    BY <1>t, <2>2, <2>5, <2>6, PagesOfOne
  <2> QED
    BY <2>2, <2>3, <2>7 DEF MemInv
<1>3. ASSUME NEW p \in Proc, Memory!PageTable(p), pc[p] \in {"forkRoot", "forkHigh"} PROVE MemInv'
  <2>k. PICK k \in Proc : k = kid[p]
    BY <1>v
  <2>1. /\ free > 0 /\ free' = free - 1 /\ pc[p] \in {"forkRoot", "forkHigh"}
        /\ image' = [image EXCEPT ![k] = [image[k] EXCEPT !.tables = @ + 1]]
        /\ pc' = [pc EXCEPT ![p] = IF pc[p] = "forkRoot" THEN "forkHigh" ELSE "forkOriginal"]
        /\ UNCHANGED <<state, trapframe, original, kid, new, goal, base, mem>>
    BY <1>3, <2>k DEF Memory!PageTable, Memory!Take, Memory!Goto
  <2>s. state[k] = "used" /\ state[p] = "alive" /\ k # p
    BY <1>s, <2>k, <2>1 DEF MemSlot, Forking
  <2>2. MemTypes'
    <3>1. free' \in Nat
      BY <1>n, <1>u, <2>1, <2>k
    <3>2. [image[k] EXCEPT !.tables = @ + 1] \in Memory!Image
      BY <1>s, <1>v, <2>1, <2>k DEF MemSlot, Memory!Image
    <3> QED
      BY <1>t, <1>v, <1>l, <2>1, <3>1, <2>k, <3>2 DEF MemTypes
  <2>3. \A s \in Proc : MemSlot(s)'
    <3> SUFFICES ASSUME NEW s \in Proc PROVE MemSlot(s)'
      OBVIOUS
    <3> QED
      BY <1>s, <1>t, <1>v, <1>l, <2>1, <2>k, <2>s DEF MemSlot, Forking, MemTypes
  <2>4. \A s \in Proc : OriginalOf(s)' = OriginalOf(s)
    BY <1>t, <2>1, <2>s, OriginalStays DEF MemTypes
  <2>5. \A s \in Proc \ {k} : Untouched(s)
    BY <1>t, <2>1, <2>4 DEF Untouched, MemTypes
  <2>6. free' + Pages(k)' <= free + Pages(k)
    <3>1. /\ trapframe'[k] = trapframe[k] /\ image'[k].tables = image[k].tables + 1 /\ image'[k].user = image[k].user
          /\ new'[k].tables = new[k].tables /\ new'[k].user = new[k].user /\ mem'[k] = mem[k]
      BY <1>t, <1>l, <2>1, <2>s DEF MemTypes
    <3>2. free' = free - 1
      BY <2>1
    <3> QED
      BY <1>n, <1>u, <2>4, <3>1, <3>2 DEF Pages
  <2>7. Memory!PagesFreedOnce'
    BY <1>t, <2>2, <2>5, <2>6, PagesOfOne
  <2> QED
    BY <2>2, <2>3, <2>7 DEF MemInv
<1>4. ASSUME NEW p \in Proc, Memory!PageTable(p), pc[p] \in {"execRoot", "execHigh"} PROVE MemInv'
  <2>1. /\ free > 0 /\ free' = free - 1 /\ pc[p] \in {"execRoot", "execHigh"}
        /\ new' = [new EXCEPT ![p] = [new[p] EXCEPT !.tables = @ + 1]]
        /\ pc' = [pc EXCEPT ![p] = IF pc[p] = "execRoot" THEN "execHigh" ELSE "exec"]
        /\ UNCHANGED <<state, trapframe, original, image, kid, goal, base, mem>>
    BY <1>4 DEF Memory!PageTable, Memory!Take, Memory!Goto
  <2>2. MemTypes'
    <3>1. free' \in Nat
      BY <1>n, <1>u, <2>1
    <3>2. [new[p] EXCEPT !.tables = @ + 1] \in Memory!Image
      BY <1>s, <1>v, <2>1 DEF MemSlot, Memory!Image
    <3> QED
      BY <1>t, <1>v, <1>l, <2>1, <3>1, <3>2 DEF MemTypes
  <2>3. \A s \in Proc : MemSlot(s)'
    <3> SUFFICES ASSUME NEW s \in Proc PROVE MemSlot(s)'
      OBVIOUS
    <3> QED
      BY <1>s, <1>t, <1>v, <1>l, <2>1 DEF MemSlot, Forking, MemTypes
  <2>4. \A s \in Proc : OriginalOf(s)' = OriginalOf(s)
    BY <1>t, <2>1, OriginalStays DEF MemTypes
  <2>5. \A s \in Proc \ {p} : Untouched(s)
    BY <1>t, <2>1, <2>4 DEF Untouched, MemTypes
  <2>6. free' + Pages(p)' <= free + Pages(p)
    <3>1. /\ trapframe'[p] = trapframe[p] /\ image'[p].tables = image[p].tables /\ image'[p].user = image[p].user
          /\ new'[p].tables = new[p].tables + 1 /\ new'[p].user = new[p].user /\ mem'[p] = mem[p]
      BY <1>t, <1>l, <2>1 DEF MemTypes
    <3>2. free' = free - 1
      BY <2>1
    <3> QED
      BY <1>n, <1>u, <2>4, <3>1, <3>2 DEF Pages
  <2>7. Memory!PagesFreedOnce'
    BY <1>t, <2>2, <2>5, <2>6, PagesOfOne
  <2> QED
    BY <2>2, <2>3, <2>7 DEF MemInv
<1>5. ASSUME NEW p \in Proc, Memory!AllocOriginal(p) PROVE MemInv'
  <2>k. PICK k \in Proc : k = kid[p]
    BY <1>v
  <2>1. /\ pc[p] = "forkOriginal" /\ free > 0 /\ free' = free - 1
        /\ original' = [original EXCEPT ![k] = 1]
        /\ goal' = [goal EXCEPT ![p] = image[p].user] /\ pc' = [pc EXCEPT ![p] = "fork"]
        /\ UNCHANGED <<state, trapframe, image, kid, new, base, mem>>
    BY <1>5, <2>k DEF Memory!AllocOriginal, Memory!Take, Memory!Goto
  <2>s. state[k] = "used" /\ state[p] = "alive" /\ k # p
    BY <1>s, <2>k, <2>1 DEF MemSlot, Forking
  <2>2. MemTypes'
    <3>1. free' \in Nat
      BY <1>n, <1>u, <2>1, <2>k
    <3> QED
      BY <1>t, <1>v, <1>l, <2>1, <3>1, <2>k DEF MemTypes
  <2>3. \A s \in Proc : MemSlot(s)'
    <3> SUFFICES ASSUME NEW s \in Proc PROVE MemSlot(s)'
      OBVIOUS
    <3> QED
      BY <1>s, <1>t, <1>v, <1>l, <2>1, <2>k, <2>s DEF MemSlot, Forking, MemTypes
  <2>4. /\ \A s \in Proc \ {k} : OriginalOf(s)' = OriginalOf(s)
        /\ OriginalOf(k)' \in 0 .. 1
    <3>1. \A s \in Proc \ {k} : OriginalOf(s)' = OriginalOf(s)
      BY <1>t, <2>k, <2>1, <2>s, OriginalStays DEF MemTypes
    <3>2. OriginalOf(k)' \in 0 .. 1
      BY <2>2, UsesArePagesNext
    <3> QED
      BY <3>1, <3>2
  <2>5. \A s \in Proc \ {k} : Untouched(s)
    BY <1>t, <2>1, <2>4 DEF Untouched, MemTypes
  <2>6. free' + Pages(k)' <= free + Pages(k)
    <3>1. /\ trapframe'[k] = trapframe[k] /\ image'[k].tables = image[k].tables /\ image'[k].user = image[k].user
          /\ new'[k].tables = new[k].tables /\ new'[k].user = new[k].user /\ mem'[k] = mem[k]
      BY <1>t, <1>l, <2>1, <2>s DEF MemTypes
    <3>2. free' = free - 1
      BY <2>1
    <3> QED
      BY <1>n, <1>u, <2>4, <3>1, <3>2 DEF Pages
  <2>7. Memory!PagesFreedOnce'
    BY <1>t, <2>2, <2>5, <2>6, PagesOfOne
  <2> QED
    BY <2>2, <2>3, <2>7 DEF MemInv
<1>6. ASSUME NEW p \in Proc, Memory!OriginalFails(p) PROVE MemInv'
  <2>k. PICK k \in Proc : k = kid[p]
    BY <1>v
  <2>1. /\ pc[p] = "forkOriginal"
        /\ state' = [state EXCEPT ![k] = "stuck"] /\ pc' = [pc EXCEPT ![p] = "panic"]
        /\ UNCHANGED <<free, trapframe, original, image, kid, new, goal, base, mem>>
    BY <1>6, <2>k DEF Memory!OriginalFails, Memory!Out, Memory!Goto, Memory!locals
  <2>s. state[k] = "used" /\ state[p] = "alive" /\ k # p
    BY <1>s, <2>k, <2>1 DEF MemSlot, Forking
  <2>2. MemTypes'
    <3>1. free' \in Nat
      BY <1>n, <1>u, <2>1, <2>k
    <3> QED
      BY <1>t, <1>v, <1>l, <2>1, <3>1, <2>k DEF MemTypes
  <2>3. \A s \in Proc : MemSlot(s)'
    <3> SUFFICES ASSUME NEW s \in Proc PROVE MemSlot(s)'
      OBVIOUS
    <3> QED
      BY <1>s, <1>t, <1>v, <1>l, <2>1, <2>k, <2>s DEF MemSlot, Forking, MemTypes
  <2>4. \A s \in Proc : OriginalOf(s)' = OriginalOf(s)
    BY <1>t, <2>1, <2>s, OriginalStays DEF MemTypes
  <2>5. \A s \in Proc \ {k} : Untouched(s)
    BY <1>t, <2>1, <2>4 DEF Untouched, MemTypes
  <2>6. free' + Pages(k)' <= free + Pages(k)
    <3>1. /\ trapframe'[k] = trapframe[k] /\ image'[k].tables = image[k].tables /\ image'[k].user = image[k].user
          /\ new'[k].tables = new[k].tables /\ new'[k].user = new[k].user /\ mem'[k] = mem[k]
      BY <1>t, <1>l, <2>1, <2>s DEF MemTypes
    <3>2. free' = free
      BY <2>1
    <3> QED
      BY <1>n, <1>u, <2>4, <3>1, <3>2 DEF Pages
  <2>7. Memory!PagesFreedOnce'
    BY <1>t, <2>2, <2>5, <2>6, PagesOfOne
  <2> QED
    BY <2>2, <2>3, <2>7 DEF MemInv
<1>7. ASSUME NEW p \in Proc, Memory!GetPage(p) PROVE MemInv'
  <2>1. /\ mem[p] = 0 /\ free > 0 /\ free' = free - 1 /\ mem' = [mem EXCEPT ![p] = 1]
        /\ UNCHANGED <<state, trapframe, original, image, pc, kid, new, goal, base>>
    BY <1>7 DEF Memory!GetPage, Memory!Take, Memory!slots
  <2>2. MemTypes'
    <3>1. free' \in Nat
      BY <1>n, <1>u, <2>1
    <3> QED
      BY <1>t, <1>v, <1>l, <2>1, <3>1 DEF MemTypes
  <2>3. \A s \in Proc : MemSlot(s)'
    <3> SUFFICES ASSUME NEW s \in Proc PROVE MemSlot(s)'
      OBVIOUS
    <3> QED
      BY <1>s, <1>t, <1>v, <1>l, <2>1 DEF MemSlot, Forking, MemTypes
  <2>4. \A s \in Proc : OriginalOf(s)' = OriginalOf(s)
    BY <2>1 DEF OriginalOf, Memory!HasOriginal
  <2>5. \A s \in Proc \ {p} : Untouched(s)
    BY <1>t, <2>1, <2>4 DEF Untouched, MemTypes
  <2>6. free' + Pages(p)' <= free + Pages(p)
    <3>1. /\ trapframe'[p] = trapframe[p] /\ image'[p].tables = image[p].tables /\ image'[p].user = image[p].user
          /\ new'[p].tables = new[p].tables /\ new'[p].user = new[p].user /\ mem'[p] = 1
      BY <1>t, <1>l, <2>1 DEF MemTypes
    <3>2. free' = free - 1
      BY <2>1
    <3> QED
      BY <1>n, <1>u, <2>4, <3>1, <3>2 DEF Pages
  <2>7. Memory!PagesFreedOnce'
    BY <1>t, <2>2, <2>5, <2>6, PagesOfOne
  <2> QED
    BY <2>2, <2>3, <2>7 DEF MemInv
<1>8. ASSUME NEW p \in Proc, NEW n \in 0 .. MaxSize, Memory!Grow(p, n) PROVE MemInv'
  <2>1. /\ state[p] = "alive" /\ pc[p] = "user" /\ pc' = [pc EXCEPT ![p] = "grow"]
        /\ goal' = [goal EXCEPT ![p] = n] /\ base' = [base EXCEPT ![p] = image[p].user]
        /\ UNCHANGED <<free, state, trapframe, original, image, kid, new, mem>>
    BY <1>8 DEF Memory!Grow, Memory!Calls, Memory!Goto, Memory!slots
  <2>2. MemTypes'
    <3>1. free' \in Nat
      BY <1>n, <1>u, <2>1
    <3> QED
      BY <1>t, <1>v, <1>l, <2>1, <3>1 DEF MemTypes
  <2>3. \A s \in Proc : MemSlot(s)'
    <3> SUFFICES ASSUME NEW s \in Proc PROVE MemSlot(s)'
      OBVIOUS
    <3> QED
      BY <1>s, <1>t, <1>v, <1>l, <2>1 DEF MemSlot, Forking, MemTypes
  <2>4. \A s \in Proc : OriginalOf(s)' = OriginalOf(s)
    BY <1>t, <2>1, OriginalStays DEF MemTypes
  <2>5. \A s \in Proc \ {p} : Untouched(s)
    BY <1>t, <2>1, <2>4 DEF Untouched, MemTypes
  <2>6. free' + Pages(p)' <= free + Pages(p)
    <3>1. /\ trapframe'[p] = trapframe[p] /\ image'[p].tables = image[p].tables /\ image'[p].user = image[p].user
          /\ new'[p].tables = new[p].tables /\ new'[p].user = new[p].user /\ mem'[p] = mem[p]
      BY <1>t, <1>l, <2>1 DEF MemTypes
    <3>2. free' = free
      BY <2>1
    <3> QED
      BY <1>n, <1>u, <2>4, <3>1, <3>2 DEF Pages
  <2>7. Memory!PagesFreedOnce'
    BY <1>t, <2>2, <2>5, <2>6, PagesOfOne
  <2> QED
    BY <2>2, <2>3, <2>7 DEF MemInv
<1>9. ASSUME NEW p \in Proc, Memory!GrowFails(p) PROVE MemInv'
  <2>1. /\ pc[p] = "grow" /\ image' = [image EXCEPT ![p] = [image[p] EXCEPT !.user = base[p]]]
        /\ free' = free + (mem[p] + image[p].user - base[p])
        /\ mem' = [mem EXCEPT ![p] = 0] /\ pc' = [pc EXCEPT ![p] = "user"]
        /\ goal' = [goal EXCEPT ![p] = 0] /\ base' = [base EXCEPT ![p] = 0]
        /\ UNCHANGED <<state, trapframe, original, kid, new>>
    BY <1>9 DEF Memory!GrowFails, Memory!Give, Memory!Return, Memory!Goto
  <2>b. base[p] \in Nat /\ base[p] <= image[p].user
    BY <1>n, <1>s, <1>v, <2>1 DEF MemSlot
  <2>2. MemTypes'
    <3>1. free' \in Nat
      BY <1>n, <1>u, <2>1, <2>b
    <3>2. [image[p] EXCEPT !.user = base[p]] \in Memory!Image
      BY <1>n, <1>v, <2>b DEF Memory!Image
    <3> QED
      BY <1>t, <1>v, <1>l, <2>1, <3>1, <3>2 DEF MemTypes
  <2>3. \A s \in Proc : MemSlot(s)'
    <3> SUFFICES ASSUME NEW s \in Proc PROVE MemSlot(s)'
      OBVIOUS
    <3> QED
      BY <1>s, <1>t, <1>v, <1>l, <2>1 DEF MemSlot, Forking, MemTypes
  <2>4. \A s \in Proc : OriginalOf(s)' = OriginalOf(s)
    BY <1>t, <2>1, OriginalStays DEF MemTypes
  <2>5. \A s \in Proc \ {p} : Untouched(s)
    BY <1>t, <2>1, <2>4 DEF Untouched, MemTypes
  <2>6. free' + Pages(p)' <= free + Pages(p)
    <3>1. /\ trapframe'[p] = trapframe[p] /\ image'[p].tables = image[p].tables /\ image'[p].user = base[p]
          /\ new'[p].tables = new[p].tables /\ new'[p].user = new[p].user /\ mem'[p] = 0
      BY <1>t, <1>l, <2>1 DEF MemTypes
    <3>2. free' = free + (mem[p] + image[p].user - base[p])
      BY <2>1
    <3> QED
      BY <1>n, <1>u, <2>4, <3>1, <3>2, <2>b DEF Pages
  <2>7. Memory!PagesFreedOnce'
    BY <1>t, <2>2, <2>5, <2>6, PagesOfOne
  <2> QED
    BY <2>2, <2>3, <2>7 DEF MemInv
<1>10. ASSUME NEW p \in Proc, Memory!GrowDone(p) PROVE MemInv'
  <2>1. /\ pc[p] = "grow" /\ pc' = [pc EXCEPT ![p] = "user"]
        /\ goal' = [goal EXCEPT ![p] = 0] /\ base' = [base EXCEPT ![p] = 0]
        /\ UNCHANGED <<free, state, trapframe, original, image, kid, new, mem>>
    BY <1>10 DEF Memory!GrowDone, Memory!Return, Memory!Goto, Memory!slots
  <2>2. MemTypes'
    <3>1. free' \in Nat
      BY <1>n, <1>u, <2>1
    <3> QED
      BY <1>t, <1>v, <1>l, <2>1, <3>1 DEF MemTypes
  <2>3. \A s \in Proc : MemSlot(s)'
    <3> SUFFICES ASSUME NEW s \in Proc PROVE MemSlot(s)'
      OBVIOUS
    <3> QED
      BY <1>s, <1>t, <1>v, <1>l, <2>1 DEF MemSlot, Forking, MemTypes
  <2>4. \A s \in Proc : OriginalOf(s)' = OriginalOf(s)
    BY <1>t, <2>1, OriginalStays DEF MemTypes
  <2>5. \A s \in Proc \ {p} : Untouched(s)
    BY <1>t, <2>1, <2>4 DEF Untouched, MemTypes
  <2>6. free' + Pages(p)' <= free + Pages(p)
    <3>1. /\ trapframe'[p] = trapframe[p] /\ image'[p].tables = image[p].tables /\ image'[p].user = image[p].user
          /\ new'[p].tables = new[p].tables /\ new'[p].user = new[p].user /\ mem'[p] = mem[p]
      BY <1>t, <1>l, <2>1 DEF MemTypes
    <3>2. free' = free
      BY <2>1
    <3> QED
      BY <1>n, <1>u, <2>4, <3>1, <3>2 DEF Pages
  <2>7. Memory!PagesFreedOnce'
    BY <1>t, <2>2, <2>5, <2>6, PagesOfOne
  <2> QED
    BY <2>2, <2>3, <2>7 DEF MemInv
<1>11. ASSUME NEW p \in Proc, NEW n \in 0 .. MaxSize, Memory!Shrink(p, n) PROVE MemInv'
  <2>1. /\ pc[p] = "user" /\ n < image[p].user /\ image' = [image EXCEPT ![p] = [image[p] EXCEPT !.user = n]]
        /\ free' = free + (image[p].user - n)
        /\ UNCHANGED <<state, trapframe, original, pc, kid, new, goal, base, mem>>
    BY <1>11 DEF Memory!Shrink, Memory!Calls, Memory!Give, Memory!locals
  <2>2. MemTypes'
    <3>1. free' \in Nat
      BY <1>n, <1>u, <2>1
    <3>2. [image[p] EXCEPT !.user = n] \in Memory!Image
      BY <1>n, <1>v DEF Memory!Image
    <3> QED
      BY <1>t, <1>v, <1>l, <2>1, <3>1, <3>2 DEF MemTypes
  <2>3. \A s \in Proc : MemSlot(s)'
    <3> SUFFICES ASSUME NEW s \in Proc PROVE MemSlot(s)'
      OBVIOUS
    <3> QED
      BY <1>s, <1>t, <1>v, <1>l, <2>1 DEF MemSlot, Forking, MemTypes
  <2>4. \A s \in Proc : OriginalOf(s)' = OriginalOf(s)
    BY <2>1 DEF OriginalOf, Memory!HasOriginal
  <2>5. \A s \in Proc \ {p} : Untouched(s)
    BY <1>t, <2>1, <2>4 DEF Untouched, MemTypes
  <2>6. free' + Pages(p)' <= free + Pages(p)
    <3>1. /\ trapframe'[p] = trapframe[p] /\ image'[p].tables = image[p].tables /\ image'[p].user = n
          /\ new'[p].tables = new[p].tables /\ new'[p].user = new[p].user /\ mem'[p] = mem[p]
      BY <1>t, <1>l, <2>1 DEF MemTypes
    <3>2. free' = free + (image[p].user - n)
      BY <2>1
    <3> QED
      BY <1>n, <1>u, <2>4, <3>1, <3>2 DEF Pages
  <2>7. Memory!PagesFreedOnce'
    BY <1>t, <2>2, <2>5, <2>6, PagesOfOne
  <2> QED
    BY <2>2, <2>3, <2>7 DEF MemInv
<1>12. ASSUME NEW p \in Proc, NEW n \in 0 .. MaxSize, Memory!Exec(p, n) PROVE MemInv'
  <2>1. /\ state[p] = "alive" /\ pc[p] = "user" /\ pc' = [pc EXCEPT ![p] = "execRoot"]
        /\ goal' = [goal EXCEPT ![p] = n]
        /\ UNCHANGED <<free, state, trapframe, original, image, kid, new, base, mem>>
    BY <1>12 DEF Memory!Exec, Memory!Calls, Memory!Goto, Memory!slots
  <2>2. MemTypes'
    <3>1. free' \in Nat
      BY <1>n, <1>u, <2>1
    <3> QED
      BY <1>t, <1>v, <1>l, <2>1, <3>1 DEF MemTypes
  <2>3. \A s \in Proc : MemSlot(s)'
    <3> SUFFICES ASSUME NEW s \in Proc PROVE MemSlot(s)'
      OBVIOUS
    <3> QED
      BY <1>s, <1>t, <1>v, <1>l, <2>1 DEF MemSlot, Forking, MemTypes
  <2>4. \A s \in Proc : OriginalOf(s)' = OriginalOf(s)
    BY <1>t, <2>1, OriginalStays DEF MemTypes
  <2>5. \A s \in Proc \ {p} : Untouched(s)
    BY <1>t, <2>1, <2>4 DEF Untouched, MemTypes
  <2>6. free' + Pages(p)' <= free + Pages(p)
    <3>1. /\ trapframe'[p] = trapframe[p] /\ image'[p].tables = image[p].tables /\ image'[p].user = image[p].user
          /\ new'[p].tables = new[p].tables /\ new'[p].user = new[p].user /\ mem'[p] = mem[p]
      BY <1>t, <1>l, <2>1 DEF MemTypes
    <3>2. free' = free
      BY <2>1
    <3> QED
      BY <1>n, <1>u, <2>4, <3>1, <3>2 DEF Pages
  <2>7. Memory!PagesFreedOnce'
    BY <1>t, <2>2, <2>5, <2>6, PagesOfOne
  <2> QED
    BY <2>2, <2>3, <2>7 DEF MemInv
<1>13. ASSUME NEW p \in Proc, Memory!ExecFails(p) PROVE MemInv'
  <2>1. /\ pc[p] \in {"execRoot", "execHigh", "exec"}
        /\ free' = free + (mem[p] + (new[p].tables + new[p].user))
        /\ mem' = [mem EXCEPT ![p] = 0] /\ new' = [new EXCEPT ![p] = Memory!NoImage]
        /\ pc' = [pc EXCEPT ![p] = "user"]
        /\ goal' = [goal EXCEPT ![p] = 0] /\ base' = [base EXCEPT ![p] = 0]
        /\ UNCHANGED <<state, trapframe, original, image, kid>>
    BY <1>13 DEF Memory!ExecFails, Memory!Give, Memory!Size, Memory!Return, Memory!Goto, Memory!slots
  <2>2. MemTypes'
    <3>1. free' \in Nat
      BY <1>n, <1>u, <2>1
    <3> QED
      BY <1>t, <1>v, <1>l, <2>1, <3>1 DEF MemTypes
  <2>3. \A s \in Proc : MemSlot(s)'
    <3> SUFFICES ASSUME NEW s \in Proc PROVE MemSlot(s)'
      OBVIOUS
    <3> QED
      BY <1>s, <1>t, <1>v, <1>l, <2>1 DEF MemSlot, Forking, MemTypes
  <2>4. \A s \in Proc : OriginalOf(s)' = OriginalOf(s)
    BY <1>t, <2>1, OriginalStays DEF MemTypes
  <2>5. \A s \in Proc \ {p} : Untouched(s)
    BY <1>t, <2>1, <2>4 DEF Untouched, MemTypes
  <2>6. free' + Pages(p)' <= free + Pages(p)
    <3>1. /\ trapframe'[p] = trapframe[p] /\ image'[p].tables = image[p].tables /\ image'[p].user = image[p].user
          /\ new'[p].tables = 0 /\ new'[p].user = 0 /\ mem'[p] = 0
      BY <1>t, <1>l, <2>1 DEF MemTypes
    <3>2. free' = free + (mem[p] + (new[p].tables + new[p].user))
      BY <2>1
    <3> QED
      BY <1>n, <1>u, <2>4, <3>1, <3>2 DEF Pages
  <2>7. Memory!PagesFreedOnce'
    BY <1>t, <2>2, <2>5, <2>6, PagesOfOne
  <2> QED
    BY <2>2, <2>3, <2>7 DEF MemInv
<1>14. ASSUME NEW p \in Proc, Memory!ExecDone(p) PROVE MemInv'
  <2>1. /\ pc[p] = "exec" /\ image' = [image EXCEPT ![p] = new[p]]
        /\ free' = free + (image[p].tables + image[p].user)
        /\ new' = [new EXCEPT ![p] = Memory!NoImage] /\ pc' = [pc EXCEPT ![p] = "user"]
        /\ goal' = [goal EXCEPT ![p] = 0] /\ base' = [base EXCEPT ![p] = 0]
        /\ UNCHANGED <<state, trapframe, original, kid, mem>>
    BY <1>14 DEF Memory!ExecDone, Memory!Give, Memory!Size, Memory!Return, Memory!Goto
  <2>2. MemTypes'
    <3>1. free' \in Nat
      BY <1>n, <1>u, <2>1
    <3> QED
      BY <1>t, <1>v, <1>l, <2>1, <3>1 DEF MemTypes
  <2>3. \A s \in Proc : MemSlot(s)'
    <3> SUFFICES ASSUME NEW s \in Proc PROVE MemSlot(s)'
      OBVIOUS
    <3> QED
      BY <1>s, <1>t, <1>v, <1>l, <2>1 DEF MemSlot, Forking, MemTypes
  <2>4. \A s \in Proc : OriginalOf(s)' = OriginalOf(s)
    BY <1>t, <2>1, OriginalStays DEF MemTypes
  <2>5. \A s \in Proc \ {p} : Untouched(s)
    BY <1>t, <2>1, <2>4 DEF Untouched, MemTypes
  <2>6. free' + Pages(p)' <= free + Pages(p)
    <3>1. /\ trapframe'[p] = trapframe[p] /\ image'[p].tables = new[p].tables /\ image'[p].user = new[p].user
          /\ new'[p].tables = 0 /\ new'[p].user = 0 /\ mem'[p] = mem[p]
      BY <1>t, <1>l, <2>1 DEF MemTypes
    <3>2. free' = free + (image[p].tables + image[p].user)
      BY <2>1
    <3> QED
      BY <1>n, <1>u, <2>4, <3>1, <3>2 DEF Pages
  <2>7. Memory!PagesFreedOnce'
    BY <1>t, <2>2, <2>5, <2>6, PagesOfOne
  <2> QED
    BY <2>2, <2>3, <2>7 DEF MemInv
<1>15. ASSUME NEW p \in Proc, Memory!MapPage(p), pc[p] = "fork", mem' = mem PROVE MemInv'
  <2>k. PICK k \in Proc : k = kid[p]
    BY <1>v
  <2>1. /\ pc[p] = "fork" /\ free > 0 /\ free' = free - 1 /\ image[k].tables = 2
        /\ image' = [image EXCEPT ![k] = [image[k] EXCEPT !.tables = 3]]
        /\ UNCHANGED <<state, trapframe, original, new, pc, kid, goal, base, mem>>
    BY <1>15, <2>k, <1>t DEF Memory!MapPage, Memory!More, Memory!Target, Memory!Retarget, Memory!Take, MemTypes
  <2>s. state[k] = "used" /\ state[p] = "alive" /\ k # p
    BY <1>s, <2>k, <2>1 DEF MemSlot, Forking
  <2>2. MemTypes'
    <3>1. free' \in Nat
      BY <1>n, <1>u, <2>1, <2>k
    <3>2. [image[k] EXCEPT !.tables = 3] \in Memory!Image
      BY <1>n, <1>v, <2>k DEF Memory!Image
    <3> QED
      BY <1>t, <1>v, <1>l, <2>1, <3>1, <2>k, <3>2 DEF MemTypes
  <2>3. \A s \in Proc : MemSlot(s)'
    <3> SUFFICES ASSUME NEW s \in Proc PROVE MemSlot(s)'
      OBVIOUS
    <3> QED
      BY <1>s, <1>t, <1>v, <1>l, <2>1, <2>k, <2>s DEF MemSlot, Forking, MemTypes
  <2>4. \A s \in Proc : OriginalOf(s)' = OriginalOf(s)
    BY <2>1 DEF OriginalOf, Memory!HasOriginal
  <2>5. \A s \in Proc \ {k} : Untouched(s)
    BY <1>t, <2>1, <2>4 DEF Untouched, MemTypes
  <2>6. free' + Pages(k)' <= free + Pages(k)
    <3>1. /\ trapframe'[k] = trapframe[k] /\ image'[k].tables = image[k].tables + 1 /\ image'[k].user = image[k].user
          /\ new'[k].tables = new[k].tables /\ new'[k].user = new[k].user /\ mem'[k] = mem[k]
      BY <1>t, <1>l, <2>1, <2>s DEF MemTypes
    <3>2. free' = free - 1
      BY <2>1
    <3> QED
      BY <1>n, <1>u, <2>4, <3>1, <3>2 DEF Pages
  <2>7. Memory!PagesFreedOnce'
    BY <1>t, <2>2, <2>5, <2>6, PagesOfOne
  <2> QED
    BY <2>2, <2>3, <2>7 DEF MemInv
<1>16. ASSUME NEW p \in Proc, Memory!MapPage(p), pc[p] = "grow", mem' = mem PROVE MemInv'
  <2>1. /\ pc[p] = "grow" /\ free > 0 /\ free' = free - 1 /\ image[p].tables = 2
        /\ image' = [image EXCEPT ![p] = [image[p] EXCEPT !.tables = 3]]
        /\ UNCHANGED <<state, trapframe, original, new, pc, kid, goal, base, mem>>
    BY <1>16, <1>t DEF Memory!MapPage, Memory!More, Memory!Target, Memory!Retarget, Memory!Take, MemTypes
  <2>2. MemTypes'
    <3>1. free' \in Nat
      BY <1>n, <1>u, <2>1
    <3>2. [image[p] EXCEPT !.tables = 3] \in Memory!Image
      BY <1>n, <1>v DEF Memory!Image
    <3> QED
      BY <1>t, <1>v, <1>l, <2>1, <3>1, <3>2 DEF MemTypes
  <2>3. \A s \in Proc : MemSlot(s)'
    <3> SUFFICES ASSUME NEW s \in Proc PROVE MemSlot(s)'
      OBVIOUS
    <3> QED
      BY <1>s, <1>t, <1>v, <1>l, <2>1 DEF MemSlot, Forking, MemTypes
  <2>4. \A s \in Proc : OriginalOf(s)' = OriginalOf(s)
    BY <2>1 DEF OriginalOf, Memory!HasOriginal
  <2>5. \A s \in Proc \ {p} : Untouched(s)
    BY <1>t, <2>1, <2>4 DEF Untouched, MemTypes
  <2>6. free' + Pages(p)' <= free + Pages(p)
    <3>1. /\ trapframe'[p] = trapframe[p] /\ image'[p].tables = image[p].tables + 1 /\ image'[p].user = image[p].user
          /\ new'[p].tables = new[p].tables /\ new'[p].user = new[p].user /\ mem'[p] = mem[p]
      BY <1>t, <1>l, <2>1 DEF MemTypes
    <3>2. free' = free - 1
      BY <2>1
    <3> QED
      BY <1>n, <1>u, <2>4, <3>1, <3>2 DEF Pages
  <2>7. Memory!PagesFreedOnce'
    BY <1>t, <2>2, <2>5, <2>6, PagesOfOne
  <2> QED
    BY <2>2, <2>3, <2>7 DEF MemInv
<1>17. ASSUME NEW p \in Proc, Memory!MapPage(p), pc[p] = "exec", mem' = mem PROVE MemInv'
  <2>1. /\ pc[p] = "exec" /\ free > 0 /\ free' = free - 1 /\ new[p].tables = 2
        /\ new' = [new EXCEPT ![p] = [new[p] EXCEPT !.tables = 3]]
        /\ UNCHANGED <<state, trapframe, original, image, pc, kid, goal, base, mem>>
    BY <1>17, <1>t DEF Memory!MapPage, Memory!More, Memory!Target, Memory!Retarget, Memory!Take, MemTypes
  <2>2. MemTypes'
    <3>1. free' \in Nat
      BY <1>n, <1>u, <2>1
    <3>2. [new[p] EXCEPT !.tables = 3] \in Memory!Image
      BY <1>n, <1>v DEF Memory!Image
    <3> QED
      BY <1>t, <1>v, <1>l, <2>1, <3>1, <3>2 DEF MemTypes
  <2>3. \A s \in Proc : MemSlot(s)'
    <3> SUFFICES ASSUME NEW s \in Proc PROVE MemSlot(s)'
      OBVIOUS
    <3> QED
      BY <1>s, <1>t, <1>v, <1>l, <2>1 DEF MemSlot, Forking, MemTypes
  <2>4. \A s \in Proc : OriginalOf(s)' = OriginalOf(s)
    BY <2>1 DEF OriginalOf, Memory!HasOriginal
  <2>5. \A s \in Proc \ {p} : Untouched(s)
    BY <1>t, <2>1, <2>4 DEF Untouched, MemTypes
  <2>6. free' + Pages(p)' <= free + Pages(p)
    <3>1. /\ trapframe'[p] = trapframe[p] /\ image'[p].tables = image[p].tables /\ image'[p].user = image[p].user
          /\ new'[p].tables = new[p].tables + 1 /\ new'[p].user = new[p].user /\ mem'[p] = mem[p]
      BY <1>t, <1>l, <2>1 DEF MemTypes
    <3>2. free' = free - 1
      BY <2>1
    <3> QED
      BY <1>n, <1>u, <2>4, <3>1, <3>2 DEF Pages
  <2>7. Memory!PagesFreedOnce'
    BY <1>t, <2>2, <2>5, <2>6, PagesOfOne
  <2> QED
    BY <2>2, <2>3, <2>7 DEF MemInv
<1>18. ASSUME NEW p \in Proc, Memory!MapPage(p), pc[p] = "grow", mem' # mem PROVE MemInv'
  <2>1. /\ pc[p] = "grow" /\ image[p].user < goal[p] /\ mem[p] # 0 /\ free' = free
        /\ image' = [image EXCEPT ![p] = [image[p] EXCEPT !.user = @ + 1]] /\ mem' = [mem EXCEPT ![p] = 0]
        /\ UNCHANGED <<state, trapframe, original, new, pc, kid, goal, base>>
    BY <1>18, <1>t DEF Memory!MapPage, Memory!More, Memory!Target, Memory!Retarget, Memory!Take, MemTypes
  <2>m. mem[p] = 1
    BY <1>v, <2>1
  <2>2. MemTypes'
    <3>1. free' \in Nat
      BY <1>n, <1>u, <2>1, <2>m
    <3>2. [image[p] EXCEPT !.user = @ + 1] \in Memory!Image
      <4>1. image[p].user + 1 \in 0 .. MaxSize
        BY <1>n, <1>v, <2>1
      <4> QED
        BY <1>v, <4>1 DEF Memory!Image
    <3> QED
      BY <1>t, <1>v, <1>l, <2>1, <3>1, <3>2 DEF MemTypes
  <2>3. \A s \in Proc : MemSlot(s)'
    <3> SUFFICES ASSUME NEW s \in Proc PROVE MemSlot(s)'
      OBVIOUS
    <3> QED
      BY <1>s, <1>t, <1>v, <1>l, <2>1 DEF MemSlot, Forking, MemTypes
  <2>4. \A s \in Proc : OriginalOf(s)' = OriginalOf(s)
    BY <2>1 DEF OriginalOf, Memory!HasOriginal
  <2>5. \A s \in Proc \ {p} : Untouched(s)
    BY <1>t, <2>1, <2>4 DEF Untouched, MemTypes
  <2>6. free' + Pages(p)' <= free + Pages(p)
    <3>1. /\ trapframe'[p] = trapframe[p] /\ image'[p].tables = image[p].tables /\ image'[p].user = image[p].user + 1
          /\ new'[p].tables = new[p].tables /\ new'[p].user = new[p].user /\ mem'[p] = 0
      BY <1>t, <1>l, <2>1 DEF MemTypes
    <3>2. free' = free
      BY <2>1
    <3> QED
      BY <1>n, <1>u, <2>4, <3>1, <3>2, <2>m DEF Pages
  <2>7. Memory!PagesFreedOnce'
    BY <1>t, <2>2, <2>5, <2>6, PagesOfOne
  <2> QED
    BY <2>2, <2>3, <2>7 DEF MemInv
<1>19. ASSUME NEW p \in Proc, Memory!MapPage(p), pc[p] = "exec", mem' # mem PROVE MemInv'
  <2>1. /\ pc[p] = "exec" /\ new[p].user < goal[p] /\ mem[p] # 0 /\ free' = free
        /\ new' = [new EXCEPT ![p] = [new[p] EXCEPT !.user = @ + 1]] /\ mem' = [mem EXCEPT ![p] = 0]
        /\ UNCHANGED <<state, trapframe, original, image, pc, kid, goal, base>>
    BY <1>19, <1>t DEF Memory!MapPage, Memory!More, Memory!Target, Memory!Retarget, Memory!Take, MemTypes
  <2>m. mem[p] = 1
    BY <1>v, <2>1
  <2>2. MemTypes'
    <3>1. free' \in Nat
      BY <1>n, <1>u, <2>1, <2>m
    <3>2. [new[p] EXCEPT !.user = @ + 1] \in Memory!Image
      <4>1. new[p].user + 1 \in 0 .. MaxSize
        BY <1>n, <1>v, <2>1
      <4> QED
        BY <1>v, <4>1 DEF Memory!Image
    <3> QED
      BY <1>t, <1>v, <1>l, <2>1, <3>1, <3>2 DEF MemTypes
  <2>3. \A s \in Proc : MemSlot(s)'
    <3> SUFFICES ASSUME NEW s \in Proc PROVE MemSlot(s)'
      OBVIOUS
    <3> QED
      BY <1>s, <1>t, <1>v, <1>l, <2>1 DEF MemSlot, Forking, MemTypes
  <2>4. \A s \in Proc : OriginalOf(s)' = OriginalOf(s)
    BY <2>1 DEF OriginalOf, Memory!HasOriginal
  <2>5. \A s \in Proc \ {p} : Untouched(s)
    BY <1>t, <2>1, <2>4 DEF Untouched, MemTypes
  <2>6. free' + Pages(p)' <= free + Pages(p)
    <3>1. /\ trapframe'[p] = trapframe[p] /\ image'[p].tables = image[p].tables /\ image'[p].user = image[p].user
          /\ new'[p].tables = new[p].tables /\ new'[p].user = new[p].user + 1 /\ mem'[p] = 0
      BY <1>t, <1>l, <2>1 DEF MemTypes
    <3>2. free' = free
      BY <2>1
    <3> QED
      BY <1>n, <1>u, <2>4, <3>1, <3>2, <2>m DEF Pages
  <2>7. Memory!PagesFreedOnce'
    BY <1>t, <2>2, <2>5, <2>6, PagesOfOne
  <2> QED
    BY <2>2, <2>3, <2>7 DEF MemInv
<1>20. ASSUME NEW p \in Proc, Memory!ForkDone(p) PROVE MemInv'
  <2>k. PICK k \in Proc : k = kid[p]
    BY <1>v
  <2>1. /\ pc[p] = "fork" /\ state' = [state EXCEPT ![k] = "alive"] /\ pc' = [pc EXCEPT ![p] = "user"]
        /\ goal' = [goal EXCEPT ![p] = 0] /\ base' = [base EXCEPT ![p] = 0]
        /\ UNCHANGED <<free, trapframe, original, image, kid, new, mem>>
    BY <1>20, <2>k DEF Memory!ForkDone, Memory!Return, Memory!Goto
  <2>s. state[k] = "used" /\ state[p] = "alive" /\ k # p
    BY <1>s, <2>k, <2>1 DEF MemSlot, Forking
  <2>2. MemTypes'
    <3>1. free' \in Nat
      BY <1>n, <1>u, <2>1, <2>k
    <3> QED
      BY <1>t, <1>v, <1>l, <2>1, <3>1, <2>k DEF MemTypes
  <2>3. \A s \in Proc : MemSlot(s)'
    <3> SUFFICES ASSUME NEW s \in Proc PROVE MemSlot(s)'
      OBVIOUS
    <3> QED
      BY <1>s, <1>t, <1>v, <1>l, <2>1, <2>k, <2>s DEF MemSlot, Forking, MemTypes
  <2>4. /\ \A s \in Proc \ {k} : OriginalOf(s)' = OriginalOf(s)
        /\ OriginalOf(k)' = OriginalOf(k)
    <3>1. \A s \in Proc \ {k} : OriginalOf(s)' = OriginalOf(s)
      BY <1>t, <2>k, <2>1, <2>s, OriginalStays DEF MemTypes
    <3>2. OriginalOf(k)' = OriginalOf(k)
      BY <1>t, <2>1, <2>k DEF OriginalOf, Memory!HasOriginal, MemTypes
    <3> QED
      BY <3>1, <3>2
  <2>5. \A s \in Proc \ {k} : Untouched(s)
    BY <1>t, <2>1, <2>4 DEF Untouched, MemTypes
  <2>6. free' + Pages(k)' <= free + Pages(k)
    <3>1. /\ trapframe'[k] = trapframe[k] /\ image'[k].tables = image[k].tables /\ image'[k].user = image[k].user
          /\ new'[k].tables = new[k].tables /\ new'[k].user = new[k].user /\ mem'[k] = mem[k]
      BY <1>t, <1>l, <2>1, <2>s DEF MemTypes
    <3>2. free' = free
      BY <2>1
    <3> QED
      BY <1>n, <1>u, <2>4, <3>1, <3>2 DEF Pages
  <2>7. Memory!PagesFreedOnce'
    BY <1>t, <2>2, <2>5, <2>6, PagesOfOne
  <2> QED
    BY <2>2, <2>3, <2>7 DEF MemInv
<1>21. ASSUME NEW p \in Proc, Memory!Exit(p) PROVE MemInv'
  <2>1. /\ state[p] = "alive" /\ pc[p] = "user" /\ state' = [state EXCEPT ![p] = "zombie"]
        /\ free' = free + original[p] /\ original[p] \in 0 .. 1
        /\ UNCHANGED <<trapframe, original, image, pc, kid, new, goal, base, mem>>
    BY <1>21, <1>t DEF Memory!Exit, Memory!Calls, Memory!Give, Memory!locals, MemTypes
  <2>2. MemTypes'
    <3>1. free' \in Nat
      BY <1>n, <1>u, <2>1
    <3> QED
      BY <1>t, <1>v, <1>l, <2>1, <3>1 DEF MemTypes
  <2>3. \A s \in Proc : MemSlot(s)'
    <3> SUFFICES ASSUME NEW s \in Proc PROVE MemSlot(s)'
      OBVIOUS
    <3> QED
      BY <1>s, <1>t, <1>v, <1>l, <2>1 DEF MemSlot, Forking, MemTypes
  <2>4. /\ \A s \in Proc \ {p} : OriginalOf(s)' = OriginalOf(s)
        /\ OriginalOf(p) = original[p] /\ OriginalOf(p)' = 0
    <3>1. \A s \in Proc \ {p} : OriginalOf(s)' = OriginalOf(s)
      BY <1>t, <2>1 DEF OriginalOf, Memory!HasOriginal, MemTypes
    <3>2. OriginalOf(p) = original[p]
      BY <2>1 DEF OriginalOf, Memory!HasOriginal
    <3>3. \A q \in Proc : pc[q] = "fork" => kid[q] # p
      BY <1>s, <2>1 DEF MemSlot, Forking
    <3>4. OriginalOf(p)' = 0
      BY <1>t, <2>1, <3>3 DEF OriginalOf, Memory!HasOriginal, MemTypes
    <3> QED
      BY <3>1, <3>2, <3>4
  <2>5. \A s \in Proc \ {p} : Untouched(s)
    BY <1>t, <2>1, <2>4 DEF Untouched, MemTypes
  <2>6. free' + Pages(p)' <= free + Pages(p)
    <3>1. /\ trapframe'[p] = trapframe[p] /\ image'[p].tables = image[p].tables /\ image'[p].user = image[p].user
          /\ new'[p].tables = new[p].tables /\ new'[p].user = new[p].user /\ mem'[p] = mem[p]
      BY <1>t, <1>l, <2>1 DEF MemTypes
    <3>2. free' = free + original[p]
      BY <2>1
    <3> QED
      BY <1>n, <1>u, <2>4, <3>1, <3>2 DEF Pages
  <2>7. Memory!PagesFreedOnce'
    BY <1>t, <2>2, <2>5, <2>6, PagesOfOne
  <2> QED
    BY <2>2, <2>3, <2>7 DEF MemInv
<1>22. ASSUME NEW p \in Proc, NEW q \in Proc, Memory!Fork(p, q) PROVE MemInv'
  <2>1. /\ state[p] = "alive" /\ pc[p] = "user" /\ state[q] = "unused"
        /\ state' = [state EXCEPT ![q] = "used"] /\ kid' = [kid EXCEPT ![p] = q]
        /\ pc' = [pc EXCEPT ![p] = "forkTf"]
        /\ UNCHANGED <<free, trapframe, original, image, new, goal, base, mem>>
    BY <1>22 DEF Memory!Fork, Memory!Calls, Memory!Goto
  <2>2. MemTypes'
    <3>1. free' \in Nat
      BY <1>n, <1>u, <2>1
    <3> QED
      BY <1>t, <1>v, <1>l, <2>1, <3>1 DEF MemTypes
  <2>3. \A s \in Proc : MemSlot(s)'
    <3> SUFFICES ASSUME NEW s \in Proc PROVE MemSlot(s)'
      OBVIOUS
    <3> QED
      BY <1>s, <1>t, <1>v, <1>l, <2>1 DEF MemSlot, Forking, MemTypes
  <2>4. \A s \in Proc : OriginalOf(s)' = OriginalOf(s)
    BY <1>t, <2>1, OriginalStays DEF MemTypes
  <2>5. \A s \in Proc \ {q} : Untouched(s)
    BY <1>t, <2>1, <2>4 DEF Untouched, MemTypes
  <2>6. free' + Pages(q)' <= free + Pages(q)
    <3>1. /\ trapframe'[q] = trapframe[q] /\ image'[q].tables = image[q].tables /\ image'[q].user = image[q].user
          /\ new'[q].tables = new[q].tables /\ new'[q].user = new[q].user /\ mem'[q] = mem[q]
      BY <1>t, <1>l, <2>1 DEF MemTypes
    <3>2. free' = free
      BY <2>1
    <3> QED
      BY <1>n, <1>u, <2>4, <3>1, <3>2 DEF Pages
  <2>7. Memory!PagesFreedOnce'
    BY <1>t, <2>2, <2>5, <2>6, PagesOfOne
  <2> QED
    BY <2>2, <2>3, <2>7 DEF MemInv
<1>23. ASSUME NEW p \in Proc, NEW q \in Proc, Memory!Reap(p, q) PROVE MemInv'
  <2>1. /\ state[q] = "zombie" /\ state' = [state EXCEPT ![q] = "unused"]
        /\ trapframe' = [trapframe EXCEPT ![q] = 0] /\ image' = [image EXCEPT ![q] = Memory!NoImage]
        /\ free' = free + (trapframe[q] + (image[q].tables + image[q].user))
        /\ UNCHANGED <<original, pc, kid, new, goal, base, mem>>
    BY <1>23 DEF Memory!Reap, Memory!Calls, Memory!FreeProc, Memory!Give, Memory!Size, Memory!locals
  <2>2. MemTypes'
    <3>1. free' \in Nat
      BY <1>n, <1>u, <2>1
    <3> QED
      BY <1>t, <1>v, <1>l, <2>1, <3>1 DEF MemTypes
  <2>3. \A s \in Proc : MemSlot(s)'
    <3> SUFFICES ASSUME NEW s \in Proc PROVE MemSlot(s)'
      OBVIOUS
    <3> QED
      BY <1>s, <1>t, <1>v, <1>l, <2>1 DEF MemSlot, Forking, MemTypes
  <2>4. \A s \in Proc : OriginalOf(s)' = OriginalOf(s)
    BY <1>t, <2>1 DEF OriginalOf, Memory!HasOriginal, MemTypes
  <2>5. \A s \in Proc \ {q} : Untouched(s)
    BY <1>t, <2>1, <2>4 DEF Untouched, MemTypes
  <2>6. free' + Pages(q)' <= free + Pages(q)
    <3>1. /\ trapframe'[q] = 0 /\ image'[q].tables = 0 /\ image'[q].user = 0
          /\ new'[q].tables = new[q].tables /\ new'[q].user = new[q].user /\ mem'[q] = mem[q]
      BY <1>t, <1>l, <2>1 DEF MemTypes
    <3>2. free' = free + (trapframe[q] + (image[q].tables + image[q].user))
      BY <2>1
    <3> QED
      BY <1>n, <1>u, <2>4, <3>1, <3>2 DEF Pages
  <2>7. Memory!PagesFreedOnce'
    BY <1>t, <2>2, <2>5, <2>6, PagesOfOne
  <2> QED
    BY <2>2, <2>3, <2>7 DEF MemInv
<1>24. ASSUME NEW p \in Proc, Memory!CopyFails(p) PROVE MemInv'
  <2>k. PICK k \in Proc : k = kid[p]
    BY <1>v
  <2>1. /\ pc[p] = "fork" /\ state' = [state EXCEPT ![k] = "unused"]
        /\ trapframe' = [trapframe EXCEPT ![k] = 0] /\ image' = [image EXCEPT ![k] = Memory!NoImage]
        /\ free' = free + (mem[p] + trapframe[k] + (image[k].tables + image[k].user))
        /\ mem' = [mem EXCEPT ![p] = 0] /\ pc' = [pc EXCEPT ![p] = "user"]
        /\ goal' = [goal EXCEPT ![p] = 0] /\ base' = [base EXCEPT ![p] = 0]
        /\ UNCHANGED <<original, kid, new>>
    BY <1>24, <2>k DEF Memory!CopyFails, Memory!Give, Memory!Size, Memory!Return, Memory!Goto
  <2>s. state[k] = "used" /\ state[p] = "alive" /\ k # p
    BY <1>s, <2>k, <2>1 DEF MemSlot, Forking
  <2>2. MemTypes'
    <3>1. free' \in Nat
      BY <1>n, <1>u, <2>1, <2>k
    <3> QED
      BY <1>t, <1>v, <1>l, <2>1, <3>1, <2>k DEF MemTypes
  <2>3. \A s \in Proc : MemSlot(s)'
    <3> SUFFICES ASSUME NEW s \in Proc PROVE MemSlot(s)'
      OBVIOUS
    <3> QED
      BY <1>s, <1>t, <1>v, <1>l, <2>1, <2>k, <2>s DEF MemSlot, Forking, MemTypes
  <2>4. /\ \A s \in Proc \ {k} : OriginalOf(s)' = OriginalOf(s)
        /\ OriginalOf(k)' = 0
    <3>1. \A s \in Proc \ {k} : OriginalOf(s)' = OriginalOf(s)
      BY <1>t, <2>k, <2>1, <2>s, OriginalStays DEF MemTypes
    <3>2. \A q \in Proc \ {p} : pc[q] = "fork" => kid[q] # k
      BY <1>s, <2>1, <2>k DEF MemSlot, Forking
    <3>3. OriginalOf(k)' = 0
      BY <1>t, <2>1, <3>2 DEF OriginalOf, Memory!HasOriginal, MemTypes
    <3> QED
      BY <3>1, <3>3
  <2>5. \A s \in Proc \ {k, p} : Untouched(s)
    BY <1>t, <2>1, <2>4 DEF Untouched, MemTypes
  <2>6. free' + Pages(k)' + Pages(p)' <= free + Pages(k) + Pages(p)
    <3>1. /\ trapframe'[k] = 0 /\ image'[k].tables = 0 /\ image'[k].user = 0
          /\ new'[k].tables = new[k].tables /\ new'[k].user = new[k].user /\ mem'[k] = mem[k]
          /\ trapframe'[p] = trapframe[p] /\ image'[p] = image[p] /\ new'[p] = new[p] /\ mem'[p] = 0
      BY <1>t, <1>l, <2>1, <2>s DEF MemTypes
    <3>2. free' = free + (mem[p] + trapframe[k] + (image[k].tables + image[k].user))
      BY <2>1
    <3>3. Pages(k)' = new[k].tables + new[k].user + mem[k]
      BY <1>u, <2>4, <3>1 DEF Pages
    <3>4. Pages(p)' + mem[p] = Pages(p)
      BY <1>u, <2>4, <2>s, <3>1 DEF Pages
    <3>5. Pages(p)' \in Nat /\ Pages(p) \in Nat
      BY <1>t, <2>2, UsesArePages, UsesArePagesNext
    <3> QED
      BY <1>n, <1>u, <3>2, <3>3, <3>4, <3>5 DEF Pages
  <2>7. Memory!PagesFreedOnce'
    BY <1>t, <2>2, <2>5, <2>6, <2>s, PagesOfTwo
  <2> QED
    BY <2>2, <2>3, <2>7 DEF MemInv
<1>25. ASSUME NEW p \in Proc, Memory!MapPage(p), pc[p] = "fork", mem' # mem PROVE MemInv'
  <2>k. PICK k \in Proc : k = kid[p]
    BY <1>v
  <2>1. /\ pc[p] = "fork" /\ image[k].user < goal[p] /\ mem[p] # 0 /\ free' = free
        /\ image' = [image EXCEPT ![k] = [image[k] EXCEPT !.user = @ + 1]] /\ mem' = [mem EXCEPT ![p] = 0]
        /\ UNCHANGED <<state, trapframe, original, new, pc, kid, goal, base>>
    BY <1>25, <1>t, <2>k DEF Memory!MapPage, Memory!More, Memory!Target, Memory!Retarget, Memory!Take, MemTypes
  <2>s. state[k] = "used" /\ state[p] = "alive" /\ k # p
    BY <1>s, <2>k, <2>1 DEF MemSlot, Forking
  <2>2. MemTypes'
    <3>1. [image[k] EXCEPT !.user = @ + 1] \in Memory!Image
      <4>1. image[k].user + 1 \in 0 .. MaxSize
        BY <1>n, <1>v, <2>1
      <4> QED
        BY <1>v, <4>1 DEF Memory!Image
    <3> QED
      BY <1>n, <1>t, <1>v, <2>1, <3>1, <2>k DEF MemTypes
  <2>3. \A s \in Proc : MemSlot(s)'
    <3> SUFFICES ASSUME NEW s \in Proc PROVE MemSlot(s)'
      OBVIOUS
    <3> QED
      BY <1>s, <1>t, <1>v, <1>l, <2>1, <2>k, <2>s DEF MemSlot, Forking, MemTypes
  <2>4. \A s \in Proc : OriginalOf(s)' = OriginalOf(s)
    BY <2>1 DEF OriginalOf, Memory!HasOriginal
  <2>5. \A s \in Proc \ {k, p} : Untouched(s)
    BY <1>t, <2>1, <2>4 DEF Untouched, MemTypes
  <2>6. free' + Pages(k)' + Pages(p)' <= free + Pages(k) + Pages(p)
    <3>1. /\ trapframe'[k] = trapframe[k] /\ image'[k].tables = image[k].tables
          /\ image'[k].user = image[k].user + 1
          /\ new'[k].tables = new[k].tables /\ new'[k].user = new[k].user /\ mem'[k] = mem[k]
          /\ trapframe'[p] = trapframe[p] /\ image'[p] = image[p] /\ new'[p] = new[p] /\ mem'[p] = 0
      BY <1>t, <1>l, <2>1, <2>s DEF MemTypes
    <3>2. free' = free /\ mem[p] = 1
      BY <1>v, <2>1
    <3>3. Pages(k)' = Pages(k) + 1
      BY <1>u, <2>4, <3>1 DEF Pages
    <3>4. Pages(p)' + 1 = Pages(p)
      BY <1>u, <2>4, <3>1, <3>2 DEF Pages
    <3>5. Pages(p)' \in Nat /\ Pages(p) \in Nat /\ Pages(k) \in Nat
      BY <1>t, <2>2, UsesArePages, UsesArePagesNext
    <3> QED
      BY <1>n, <3>2, <3>3, <3>4, <3>5
  <2>7. Memory!PagesFreedOnce'
    BY <1>t, <2>2, <2>5, <2>6, <2>s, PagesOfTwo
  <2> QED
    BY <2>2, <2>3, <2>7 DEF MemInv
<1>26. ASSUME NEW p \in Proc, Memory!MapPage(p) PROVE MemInv'
  <2>1. pc[p] \in {"fork", "grow", "exec"}
    BY <1>26 DEF Memory!MapPage, Memory!More, Memory!Growing
  <2> QED
    BY <1>15, <1>16, <1>17, <1>18, <1>19, <1>25, <1>26, <2>1
<1>27. ASSUME NEW p \in Proc, Memory!PageTable(p) PROVE MemInv'
  BY <1>3, <1>4, <1>27 DEF Memory!PageTable, Memory!Building
<1>28. CASE UNCHANGED Memory!vars
  <2>1. UNCHANGED <<free, state, trapframe, original, image, pc, kid, new, goal, base, mem>>
    BY <1>28 DEF Memory!vars, Memory!slots, Memory!locals
  <2>2. MemTypes'
    BY <1>t, <2>1 DEF MemTypes
  <2>3. \A s \in Proc : MemSlot(s)'
    BY <1>s, <2>1 DEF MemSlot
  <2>4. \A s \in Proc : Untouched(s)
    BY <2>1 DEF Untouched, OriginalOf, Memory!HasOriginal
  <2>5. free' + Pages(First)' <= free + Pages(First)
    <3>1. Pages(First)' = Pages(First) /\ Pages(First) \in Nat
      BY <1>n, <1>t, <2>1, <2>4, UsesArePages DEF Pages, Untouched
    <3> QED
      BY <1>n, <2>1, <3>1
  <2>6. Memory!PagesFreedOnce'
    BY <1>n, <1>t, <2>2, <2>4, <2>5, PagesOfOne
  <2> QED
    BY <2>2, <2>3, <2>6 DEF MemInv
<1>29. ASSUME NEW p \in Proc,
              \/ Memory!ForkFails(p) \/ Memory!AllocTrapframe(p) \/ Memory!PageTable(p)
              \/ Memory!AllocOriginal(p) \/ Memory!OriginalFails(p)
              \/ Memory!GetPage(p) \/ Memory!MapPage(p) \/ Memory!CopyFails(p) \/ Memory!ForkDone(p)
              \/ Memory!GrowFails(p) \/ Memory!GrowDone(p) \/ Memory!ExecFails(p) \/ Memory!ExecDone(p)
              \/ Memory!Exit(p)
       PROVE  MemInv'
  BY <1>1, <1>2, <1>5, <1>6, <1>7, <1>9, <1>10, <1>13, <1>14, <1>20, <1>21, <1>24, <1>26, <1>27, <1>29
<1> QED
  BY <1>8, <1>11, <1>12, <1>22, <1>23, <1>28, <1>29 DEF Memory!Next

-----------------------------------------------------------------------------
(***************************************************************************)
(* virtio_disk.c.  The invariant says that the chains of the requests      *)
(* under way are apart and are all that is not free (ChainsApart), that    *)
(* each such request is in one place at most, offered, in the device or    *)
(* done (RingsApart), and which slots of the two rings have an entry       *)
(* (DiskAt): between two indices that run through RingWrap.                *)
(***************************************************************************)

Turn(k, d) == (k + d) % RingWrap
Slot(k) == k % Num

LEMMA DiskNumbers ==
  ASSUME PartsAssumption
  PROVE  /\ Num \in Nat \ {0} /\ Num >= 3 /\ RingWrap \in Nat \ {0} /\ RingWrap % Num = 0 /\ Num < RingWrap
         /\ None \notin Proc /\ None \notin Nat /\ IsFiniteSet(Proc)
         /\ Disk!Desc = 0 .. Num - 1 /\ None \notin Disk!Desc /\ Disk!Counter = 0 .. RingWrap - 1
BY DEF PartsAssumption, Disk!NumAssumption, Disk!Desc, Disk!Counter, Memory!FirstAssumption, Memory!IsFiniteSet, IsFiniteSet

LEMMA TurnIsCounter ==
  ASSUME PartsAssumption, NEW k \in Int, NEW d \in Int
  PROVE  Turn(k, d) \in Disk!Counter /\ Turn(k, d) \in Int
<1>1. PICK x \in Int : x = k + d
  OBVIOUS
<1>2. x % RingWrap \in 0 .. (RingWrap - 1)
  BY DiskNumbers, ModIsRest
<1> QED
  BY <1>1, <1>2, DiskNumbers DEF Turn

LEMMA TurnTwice ==
  ASSUME PartsAssumption, NEW k \in Int, NEW c \in Int, NEW d \in Int
  PROVE  Turn(Turn(k, c), d) = Turn(k, c + d)
<1>1. PICK x \in Int : x = k + c
  OBVIOUS
<1>2. ((x % RingWrap) + d) % RingWrap = (x + d) % RingWrap
  BY DiskNumbers, ModOfWhole, ModOfSum, ZenonT(40)
<1> QED
  BY <1>1, <1>2 DEF Turn

LEMMA TurnOfNothing ==
  ASSUME PartsAssumption, NEW k \in Disk!Counter PROVE Turn(k, 0) = k
BY DiskNumbers, ModOfSmall, SMTT(30) DEF Turn

LEMMA SlotIsDesc ==
  ASSUME PartsAssumption, NEW k \in Int PROVE Slot(k) \in Disk!Desc
BY DiskNumbers, ModIsRest DEF Slot

LEMMA SlotOfTurn ==
  ASSUME PartsAssumption, NEW k \in Int, NEW c \in Int, NEW d \in Int
  PROVE  Slot(Turn(k, c) + d) = Slot(k + c + d)
<1>1. PICK x \in Int : x = k + c
  OBVIOUS
<1>2. ((x % RingWrap) + d) % Num = (x + d) % Num
  BY DiskNumbers, ModOfSum
<1> QED
  BY <1>1, <1>2 DEF Turn, Slot

LEMMA SlotsApart ==
  ASSUME PartsAssumption, NEW x \in Int, NEW y \in Int, x < y, y < x + Num
  PROVE  Slot(x) # Slot(y)
BY DiskNumbers, SlotsDiffer DEF Slot

-----------------------------------------------------------------------------
\* The slots of a ring that len entries from f on are in.
InWindow(j, f, len) == \E i \in 0 .. len - 1 : j = Slot(f + i)

LEMMA WindowEmpty == ASSUME NEW j, NEW f PROVE ~InWindow(j, f, 0)
BY DEF InWindow

LEMMA WindowHead ==
  ASSUME PartsAssumption, NEW f \in Int, NEW len \in Nat \ {0}
  PROVE  InWindow(Slot(f), f, len)
<1>1. 0 \in 0 .. len - 1 /\ f + 0 = f
  OBVIOUS
<1> QED
  BY <1>1 DEF InWindow

LEMMA WindowShrinks ==
  ASSUME PartsAssumption, NEW j, NEW f \in Int, NEW l \in Nat, NEW len \in Nat, len = l + 1, len <= Num
  PROVE  InWindow(j, Turn(f, 1), l) <=> InWindow(j, f, len) /\ j # Slot(f)
<1>1. ASSUME NEW i \in Int PROVE Slot(Turn(f, 1) + i) = Slot(f + 1 + i)
  BY SlotOfTurn
<1>2. ASSUME InWindow(j, Turn(f, 1), l) PROVE InWindow(j, f, len) /\ j # Slot(f)
  <2>1. PICK i \in 0 .. l - 1 : j = Slot(Turn(f, 1) + i)
    BY <1>2 DEF InWindow
  <2>2. PICK k \in 0 .. len - 1 : k = i + 1
    BY <2>1
  <2>3. j = Slot(f + k)
    <3>1. f + 1 + i = f + k
      BY <2>2
    <3> QED
      BY <1>1, <2>1, <3>1
  <2>4. Slot(f) # Slot(f + k)
    <3>1. PICK y \in Int : y = f + k
      OBVIOUS
    <3>2. f < y /\ y < f + Num
      BY <2>1, <2>2, <3>1, DiskNumbers
    <3> QED
      BY <3>1, <3>2, SlotsApart
  <2> QED
    BY <2>2, <2>3, <2>4 DEF InWindow
<1>3. ASSUME InWindow(j, f, len), j # Slot(f) PROVE InWindow(j, Turn(f, 1), l)
  <2>1. PICK k \in 0 .. len - 1 : j = Slot(f + k)
    BY <1>3 DEF InWindow
  <2>2. k # 0
    <3>1. ASSUME k = 0 PROVE FALSE
      <4>1. f + k = f
        BY <3>1
      <4> QED
        BY <1>3, <2>1, <4>1
    <3> QED
      BY <3>1
  <2>3. PICK i \in 0 .. l - 1 : k = i + 1
    BY <2>2
  <2>4. f + 1 + i = f + k
    BY <2>3
  <2>5. j = Slot(Turn(f, 1) + i)
    BY <1>1, <2>1, <2>4
  <2> QED
    BY <2>3, <2>5 DEF InWindow
<1> QED
  BY <1>2, <1>3

LEMMA WindowGrows ==
  ASSUME PartsAssumption, NEW j, NEW f \in Int, NEW l \in Nat, NEW len \in Nat, len = l + 1, len <= Num
  PROVE  /\ InWindow(j, f, len) <=> InWindow(j, f, l) \/ j = Slot(Turn(f, l))
         /\ ~InWindow(Slot(Turn(f, l)), f, l)
<1>1. Slot(Turn(f, l)) = Slot(f + l)
  <2>1. Slot(Turn(f, l) + 0) = Slot(f + l + 0)
    BY SlotOfTurn
  <2>2. Turn(f, l) + 0 = Turn(f, l) /\ f + l + 0 = f + l
    BY TurnIsCounter
  <2> QED
    BY <2>1, <2>2
<1>2. InWindow(j, f, len) <=> InWindow(j, f, l) \/ j = Slot(f + l)
  <2>1. 0 .. len - 1 = (0 .. l - 1) \cup {l}
    OBVIOUS
  <2> QED
    BY <2>1 DEF InWindow
<1>3. ASSUME NEW i \in 0 .. l - 1 PROVE Slot(f + i) # Slot(f + l)
  <2>1. PICK x \in Int, y \in Int : x = f + i /\ y = f + l
    OBVIOUS
  <2>2. x < y /\ y < x + Num
    BY <2>1, DiskNumbers
  <2> QED
    BY <2>1, <2>2, SlotsApart
<1> QED
  BY <1>1, <1>2, <1>3 DEF InWindow

\* Entries that differ are no more than there are values for them.
LEMMA WindowFits ==
  ASSUME PartsAssumption, NEW f \in Int, NEW len \in 0 .. Num, NEW ring, NEW T, IsFiniteSet(T),
         \A j \in Disk!Desc : InWindow(j, f, len) =>
           /\ ring[j] \in T
           /\ \A k \in Disk!Desc : InWindow(k, f, len) /\ k # j => ring[k] # ring[j]
  PROVE  len <= Cardinality(T)
<1> DEFINE I == 1 .. len
           g == [i \in I |-> ring[Slot(f + (i - 1))]]
<1>0. len \in Nat
  BY DiskNumbers
<1>1. ASSUME NEW i \in I PROVE InWindow(Slot(f + (i - 1)), f, len) /\ Slot(f + (i - 1)) \in Disk!Desc
  <2>1. i - 1 \in 0 .. len - 1
    BY <1>0
  <2>2. PICK x \in Int : x = f + (i - 1)
    BY <2>1
  <2>3. Slot(x) \in Disk!Desc
    BY SlotIsDesc
  <2> QED
    BY <2>1, <2>2, <2>3 DEF InWindow
<1>2. ASSUME NEW i \in I, NEW k \in I, i < k PROVE Slot(f + (i - 1)) # Slot(f + (k - 1))
  <2>1. PICK x \in Int, y \in Int : x = f + (i - 1) /\ y = f + (k - 1)
    BY <1>0
  <2>2. x < y /\ y < x + Num
    BY <1>0, <1>2, <2>1, DiskNumbers
  <2> QED
    BY <2>1, <2>2, SlotsApart
<1>3. g \in [I -> T]
  BY <1>1
<1>4. ASSUME NEW i \in I, NEW k \in I, i < k PROVE g[i] # g[k]
  BY <1>1, <1>2, <1>4
<1>5. g \in Injection(I, T)
  <2>1. ASSUME NEW i \in I, NEW k \in I, g[i] = g[k] PROVE i = k
    <3>1. i < k \/ k < i \/ i = k
      BY <1>0
    <3> QED
      BY <1>4, <2>1, <3>1
  <2> QED
    BY <1>3, <2>1 DEF Injection, IsInjective
<1>6. IsFiniteSet(I) /\ Cardinality(I) = len
  BY <1>0, FS_Interval
<1>7. Cardinality(I) <= Cardinality(T)
  BY <1>5, FS_Injection
<1> QED
  BY <1>6, <1>7

LEMMA ThreeMore ==
  ASSUME NEW S, IsFiniteSet(S), NEW a, NEW b, NEW c, a \notin S, b \notin S, c \notin S,
         a # b, a # c, b # c
  PROVE  IsFiniteSet(S \cup {a, b, c}) /\ Cardinality(S \cup {a, b, c}) = Cardinality(S) + 3
<1>1. IsFiniteSet(S \cup {a}) /\ Cardinality(S \cup {a}) = Cardinality(S) + 1
  BY FS_AddElement
<1>2. /\ IsFiniteSet((S \cup {a}) \cup {b})
      /\ Cardinality((S \cup {a}) \cup {b}) = Cardinality(S \cup {a}) + 1
  BY <1>1, FS_AddElement
<1>3. /\ IsFiniteSet(((S \cup {a}) \cup {b}) \cup {c})
      /\ Cardinality(((S \cup {a}) \cup {b}) \cup {c}) = Cardinality((S \cup {a}) \cup {b}) + 1
  BY <1>2, FS_AddElement
<1>4. ((S \cup {a}) \cup {b}) \cup {c} = S \cup {a, b, c}
  OBVIOUS
<1>5. Cardinality(S) \in Nat
  BY FS_CardinalityType
<1> QED
  BY <1>1, <1>2, <1>3, <1>4, <1>5

LEMMA OneLess ==
  ASSUME PartsAssumption, NEW d \in Disk!Desc
  PROVE  IsFiniteSet(Disk!Desc \ {d}) /\ Cardinality(Disk!Desc \ {d}) = Num - 1
<1>1. IsFiniteSet(0 .. Num - 1) /\ Cardinality(0 .. Num - 1) = Num
  BY DiskNumbers, FS_Interval
<1>2. IsFiniteSet(Disk!Desc) /\ Cardinality(Disk!Desc) = Num
  BY <1>1, DiskNumbers
<1> QED
  BY <1>2, FS_RemoveElement

-----------------------------------------------------------------------------
Desc == Disk!Desc

Linked(d) ==
  /\ next[d] \in Desc /\ next[next[d]] \in Desc /\ next[next[next[d]]] = None
  /\ d # next[d] /\ d # next[next[d]] /\ next[d] # next[next[d]]

Trio(d) == {d, next[d], next[next[d]]}

Asking == {p \in Proc : idx[p] # None}

Request(p) ==
  /\ idx[p] # None <=> pc[p] \in {"wait", "woken"}
  /\ busy[p] => idx[p] # None /\ info[idx[p]] = p
  /\ pc[p] = "wait" => busy[p]
  /\ idx[p] # None /\ ~busy[p] => moved[p]
  /\ pc[p] = "noDesc" => Cardinality(free) < 3

ChainsApart ==
  /\ \A p \in Asking : Linked(idx[p]) /\ Trio(idx[p]) \cap free = {}
  /\ \A p, q \in Asking : p # q => Trio(idx[p]) \cap Trio(idx[q]) = {}
  /\ \A d \in Desc \ free : \E p \in Asking : d \in Trio(idx[p])
  /\ Cardinality(Desc \ free) = 3 * Cardinality(Asking)

Pending(d) == \E p \in Proc : idx[p] = d /\ busy[p]
Served(d) == \E p \in Proc : idx[p] = d /\ busy[p] /\ moved[p]

Offered(j) ==
  avail[j] # None =>
    /\ Pending(avail[j]) /\ avail[j] \notin inDevice
    /\ \A k \in Desc : used[k] # avail[j] /\ (k # j => avail[k] # avail[j])

Done(j) ==
  used[j] # None =>
    Served(used[j]) /\ used[j] \notin inDevice /\ \A k \in Desc : k # j => used[k] # used[j]

RingsApart ==
  /\ \A j \in Desc : Offered(j) /\ Done(j)
  /\ \A d \in inDevice : Pending(d)

DiskAt(a, u) ==
  /\ availIdx = Turn(taken, a) /\ usedIdxDev = Turn(usedIdx, u)
  /\ \A j \in Desc : /\ avail[j] # None <=> InWindow(j, taken, a)
                     /\ used[j] # None <=> InWindow(j, usedIdx, u)

DiskInv ==
  /\ Disk!TypeOK /\ (\A p \in Proc : Request(p)) /\ ChainsApart /\ RingsApart
  /\ \E a, u \in 0 .. Num : DiskAt(a, u)

LEMMA DiskInit == ASSUME PartsAssumption, Disk!Init PROVE DiskInv
<1> USE DiskNumbers
<1>1. Disk!TypeOK
  BY DEF Disk!Init, Disk!TypeOK, Disk!Maybe
<1>2. \A p \in Proc : Request(p)
  BY DEF Disk!Init, Request
<1>3. ChainsApart
  <2>1. Asking = {} /\ Desc \ free = {}
    BY DEF Disk!Init, Asking, Desc
  <2> QED
    BY <2>1, FS_EmptySet DEF ChainsApart
<1>4. RingsApart
  BY DEF Disk!Init, RingsApart, Offered, Done, Desc
<1>5. DiskAt(0, 0)
  <2>1. Turn(taken, 0) = taken /\ Turn(usedIdx, 0) = usedIdx
    BY <1>1, TurnOfNothing DEF Disk!TypeOK
  <2> QED
    BY <2>1, WindowEmpty DEF Disk!Init, DiskAt, Desc
<1>6. 0 \in 0 .. Num
  OBVIOUS
<1> QED
  BY <1>1, <1>2, <1>3, <1>4, <1>5, <1>6 DEF DiskInv

LEMMA DiskSafety ==
  ASSUME PartsAssumption, DiskInv
  PROVE  Disk!TypeOK /\ Disk!DoneMeansMoved /\ Disk!DescriptorsConserved
<1>1. Disk!TypeOK /\ (\A p \in Proc : Request(p)) /\ ChainsApart
  BY DEF DiskInv
<1>2. \A p \in Proc : busy[p] \in BOOLEAN /\ moved[p] \in BOOLEAN
  BY <1>1 DEF Disk!TypeOK
<1>3. Disk!DoneMeansMoved
  BY <1>1, <1>2 DEF Disk!DoneMeansMoved, Request
<1>4. ASSUME NEW p \in Asking PROVE Disk!Chain(idx[p]) = Trio(idx[p])
  BY <1>1, DiskNumbers DEF ChainsApart, Linked, Trio, Disk!Chain, Desc
<1>5. Desc \ free = UNION {Disk!Chain(d) : d \in {idx[p] : p \in Proc} \ {None}}
  <2>1. ASSUME NEW d \in Desc \ free PROVE d \in UNION {Disk!Chain(x) : x \in {idx[p] : p \in Proc} \ {None}}
    <3>1. PICK p \in Asking : d \in Trio(idx[p])
      BY <1>1 DEF ChainsApart
    <3>2. idx[p] \in {idx[q] : q \in Proc} \ {None} /\ d \in Disk!Chain(idx[p])
      BY <1>4, <3>1 DEF Asking
    <3> QED
      BY <3>2
  <2>2. ASSUME NEW x \in {idx[p] : p \in Proc} \ {None}, NEW d \in Disk!Chain(x) PROVE d \in Desc \ free
    <3>1. PICK p \in Asking : x = idx[p]
      BY DEF Asking
    <3>2. Linked(idx[p]) /\ Trio(idx[p]) \cap free = {} /\ d \in Trio(idx[p])
      BY <1>1, <1>4, <2>2, <3>1 DEF ChainsApart
    <3>3. idx[p] \in Desc
      BY <1>1 DEF Asking, Disk!TypeOK, Disk!Maybe, Desc
    <3> QED
      BY <3>2, <3>3 DEF Linked, Trio
  <2> QED
    BY <2>1, <2>2
<1>6. Disk!Cardinality(Desc \ free) = 3 * Disk!Cardinality({p \in Proc : idx[p] # None})
  BY <1>1 DEF ChainsApart, Asking, Disk!Cardinality, Cardinality
<1>7. \A p \in Proc : pc[p] = "noDesc" => Disk!Cardinality(free) < 3
  BY <1>1 DEF Request, Disk!Cardinality, Cardinality
<1> QED
  BY <1>1, <1>3, <1>5, <1>6, <1>7 DEF Disk!DescriptorsConserved, Desc

LEMMA DiskCardinality == ASSUME NEW S PROVE Disk!Cardinality(S) = Cardinality(S)
BY DEF Disk!Cardinality, Cardinality

Submitted(p, d0, d1, d2) ==
  /\ pc[p] = "begin"
  /\ d0 < d1 /\ d1 < d2 /\ \A d \in free \ {d0, d1, d2} : d2 < d
  /\ free' = free \ {d0, d1, d2}
  /\ next' = [next EXCEPT ![d0] = d1, ![d1] = d2, ![d2] = None]
  /\ info' = [info EXCEPT ![d0] = p]
  /\ avail' = [avail EXCEPT ![availIdx % Num] = d0]
  /\ availIdx' = (availIdx + 1) % RingWrap
  /\ idx' = [idx EXCEPT ![p] = d0]
  /\ busy' = [busy EXCEPT ![p] = TRUE]
  /\ moved' = [moved EXCEPT ![p] = FALSE]
  /\ pc' = [pc EXCEPT ![p] = "wait"]
  /\ UNCHANGED <<used, usedIdxDev, usedIdx, Disk!device>>

LEMMA DiskStep == ASSUME PartsAssumption, DiskInv, [Disk!Next]_(Disk!vars) PROVE DiskInv'
<1>n. /\ Num \in Nat \ {0} /\ Desc = 0 .. Num - 1 /\ None \notin Desc /\ None \notin Proc
      /\ IsFiniteSet(Proc) /\ Disk!Desc = Desc
  BY DiskNumbers DEF Desc
<1>t. /\ free \subseteq Desc /\ next \in [Desc -> Desc \cup {None}] /\ info \in [Desc -> Proc \cup {None}]
      /\ avail \in [Desc -> Desc \cup {None}] /\ used \in [Desc -> Desc \cup {None}]
      /\ availIdx \in Disk!Counter /\ usedIdxDev \in Disk!Counter
      /\ usedIdx \in Disk!Counter /\ taken \in Disk!Counter /\ inDevice \subseteq Desc
      /\ pc \in [Proc -> {"user", "begin", "noDesc", "wait", "woken"}]
      /\ idx \in [Proc -> Desc \cup {None}]
      /\ busy \in [Proc -> BOOLEAN] /\ moved \in [Proc -> BOOLEAN]
  BY DEF DiskInv, Disk!TypeOK, Disk!Maybe, Desc
<1>i. taken \in Int /\ usedIdx \in Int
  BY <1>t, DiskNumbers
<1>r. \A p \in Proc : Request(p)
  BY DEF DiskInv
<1>c. ChainsApart /\ RingsApart
  BY DEF DiskInv
<1>w. PICK a \in 0 .. Num, u \in 0 .. Num : DiskAt(a, u)
  BY DEF DiskInv
<1>f. /\ availIdx = Turn(taken, a) /\ usedIdxDev = Turn(usedIdx, u)
      /\ \A j \in Desc : /\ avail[j] # None <=> InWindow(j, taken, a)
                         /\ used[j] # None <=> InWindow(j, usedIdx, u)
  BY <1>w DEF DiskAt
<1>h. ASSUME NEW p \in Asking
      PROVE  /\ p \in Proc /\ idx[p] \in Desc \ free /\ Linked(idx[p]) /\ Trio(idx[p]) \cap free = {}
             /\ Trio(idx[p]) \subseteq Desc /\ idx[p] \in Trio(idx[p])
             /\ \A q \in Asking : q # p => Trio(idx[q]) \cap Trio(idx[p]) = {} /\ idx[q] # idx[p]
  <2>1. p \in Proc /\ idx[p] \in Desc
    BY <1>t DEF Asking
  <2>2. Linked(idx[p]) /\ Trio(idx[p]) \cap free = {} /\ idx[p] \in Trio(idx[p])
    BY <1>c DEF ChainsApart, Trio
  <2>3. ASSUME NEW q \in Asking, q # p PROVE Trio(idx[q]) \cap Trio(idx[p]) = {} /\ idx[q] # idx[p]
    BY <1>c, <2>3 DEF ChainsApart, Trio
  <2> QED
    BY <2>1, <2>2, <2>3 DEF Linked, Trio
<1>p. \A d \in Desc : Pending(d) => d \notin free
  BY <1>h, <1>n, <1>t DEF Pending, Asking
<1>s. \A d : Served(d) => Pending(d)
  BY DEF Served, Pending
\* Steps that only move a process.
<1>1. ASSUME UNCHANGED <<free, next, info, avail, availIdx, used, usedIdxDev, usedIdx, taken, inDevice, idx,
                         busy, moved>>,
             pc' \in [Proc -> {"user", "begin", "noDesc", "wait", "woken"}],
             \A s \in Proc : Request(s)'
      PROVE  DiskInv'
  <2>1. Disk!TypeOK'
    BY <1>1, <1>t, <1>n DEF Disk!TypeOK, Disk!Maybe
  <2>2. ChainsApart'
    <3>1. Asking' = Asking
      BY <1>1 DEF Asking
    <3> QED
      BY <1>1, <1>c, <3>1 DEF ChainsApart, Linked, Trio
  <2>3. RingsApart'
    BY <1>1, <1>c DEF RingsApart, Offered, Done, Pending, Served
  <2>4. DiskAt(a, u)'
    BY <1>1, <1>f DEF DiskAt
  <2> QED
    BY <1>1, <2>1, <2>2, <2>3, <2>4 DEF DiskInv
<1>2. ASSUME NEW p \in Proc, Disk!Call(p) \/ Disk!NoDescriptors(p) \/ Disk!Killed(p) \/ Disk!SleepAgain(p)
      PROVE  DiskInv'
  <2>1. UNCHANGED <<free, next, info, avail, availIdx, used, usedIdxDev, usedIdx, taken, inDevice, idx,
                    busy, moved>>
    BY <1>2 DEF Disk!Call, Disk!NoDescriptors, Disk!Killed, Disk!SleepAgain, Disk!rings, Disk!device
  <2>2. pc' \in [Proc -> {"user", "begin", "noDesc", "wait", "woken"}]
    BY <1>2, <1>t DEF Disk!Call, Disk!NoDescriptors, Disk!Killed, Disk!SleepAgain, Disk!WakeForDesc
  <2>3. ASSUME NEW s \in Proc PROVE Request(s)'
    <3>1. CASE Disk!Call(p)
      BY <1>r, <1>t, <2>1, <3>1 DEF Disk!Call, Request
    <3>2. CASE Disk!NoDescriptors(p)
      <4>1. /\ pc[p] = "begin" /\ Cardinality(free) < 3 /\ pc'[p] = "noDesc"
            /\ s # p => pc'[s] = pc[s] \/ (pc[s] = "noDesc" /\ pc'[s] = "begin")
        <5>1. pc[p] = "begin" /\ Cardinality(free) < 3
          BY <3>2, DiskCardinality DEF Disk!NoDescriptors
        <5>2. PICK old \in [Proc -> {"user", "begin", "noDesc", "wait", "woken"}] :
                /\ pc' = [old EXCEPT ![p] = "noDesc"]
                /\ old = pc \/ old = Disk!WakeForDesc
          <6>1. Disk!WakeForDesc \in [Proc -> {"user", "begin", "noDesc", "wait", "woken"}]
            BY <1>t DEF Disk!WakeForDesc
          <6> QED
            BY <1>t, <3>2, <6>1 DEF Disk!NoDescriptors
        <5>3. old[s] = pc[s] \/ (pc[s] = "noDesc" /\ old[s] = "begin")
          <6>1. Disk!WakeForDesc[s] = IF pc[s] = "noDesc" THEN "begin" ELSE pc[s]
            BY DEF Disk!WakeForDesc
          <6> QED
            BY <5>2, <6>1
        <5> QED
          BY <5>1, <5>2, <5>3
      <4> QED
        BY <1>r, <2>1, <4>1 DEF Request
    <3>3. CASE Disk!Killed(p)
      BY <1>r, <1>t, <2>1, <3>3 DEF Disk!Killed, Request
    <3>4. CASE Disk!SleepAgain(p)
      BY <1>r, <1>t, <2>1, <3>4 DEF Disk!SleepAgain, Request
    <3> QED
      BY <1>2, <3>1, <3>2, <3>3, <3>4
  <2> QED
    BY <1>1, <2>1, <2>2, <2>3
<1>3. ASSUME Disk!DeviceTakes PROVE DiskInv'
  <2>1. a # 0
    <3>1. taken # availIdx /\ Turn(taken, 0) = taken
      BY <1>3, <1>t, TurnOfNothing DEF Disk!DeviceTakes
    <3> QED
      BY <1>f, <3>1
  <2>2. PICK b \in 0 .. Num : a = b + 1
    BY <1>n, <2>1
  <2>3. PICK j \in Desc, d \in Desc : j = Slot(taken) /\ avail[j] = d
    <3>1. Slot(taken) \in Desc /\ InWindow(Slot(taken), taken, a)
      BY <1>i, <1>n, <2>1, SlotIsDesc, WindowHead
    <3> QED
      BY <1>f, <1>t, <3>1
  <2>4. /\ inDevice' = inDevice \cup {d} /\ taken' = Turn(taken, 1) /\ avail' = [avail EXCEPT ![j] = None]
        /\ UNCHANGED <<free, next, info, availIdx, used, usedIdxDev, usedIdx, pc, idx, busy, moved>>
    BY <1>3, <2>3 DEF Disk!DeviceTakes, Slot, Turn
  <2>5. Disk!TypeOK'
    <3>1. taken' \in Disk!Counter
      BY <1>i, <2>4, TurnIsCounter
    <3> QED
      BY <1>n, <1>t, <2>4, <3>1 DEF Disk!TypeOK, Disk!Maybe
  <2>6. \A p \in Proc : Request(p)'
    BY <1>r, <2>4 DEF Request
  <2>7. ChainsApart'
    <3>1. Asking' = Asking
      BY <2>4 DEF Asking
    <3> QED
      BY <1>c, <2>4, <3>1 DEF ChainsApart, Linked, Trio
  <2>8. RingsApart'
    <3>1. Offered(j) /\ avail[j] # None
      BY <1>c, <1>n, <2>3 DEF RingsApart
    <3>2. Pending(d) /\ \A k \in Desc : used[k] # d /\ (k # j => avail[k] # d)
      BY <2>3, <3>1 DEF Offered
    <3>3. \A x : Pending(x)' <=> Pending(x)
      BY <2>4 DEF Pending
    <3>4. \A x : Served(x)' <=> Served(x)
      BY <2>4 DEF Served
    <3>5. ASSUME NEW k \in Desc PROVE Offered(k)'
      <4>1. Offered(k)
        BY <1>c DEF RingsApart
      <4> QED
        BY <1>t, <2>4, <3>2, <3>3, <4>1 DEF Offered
    <3>6. ASSUME NEW k \in Desc PROVE Done(k)'
      <4>1. Done(k)
        BY <1>c DEF RingsApart
      <4> QED
        BY <2>4, <3>2, <3>4, <4>1 DEF Done
    <3>7. ASSUME NEW x \in inDevice' PROVE Pending(x)'
      BY <1>c, <2>4, <3>2, <3>3 DEF RingsApart
    <3> QED
      BY <3>5, <3>6, <3>7 DEF RingsApart
  <2>9. DiskAt(b, u)'
    <3>1. availIdx' = Turn(taken', b)
      <4>1. Turn(Turn(taken, 1), b) = Turn(taken, 1 + b)
        BY <1>i, <2>2, TurnTwice
      <4>2. 1 + b = a
        BY <2>2
      <4> QED
        BY <1>f, <2>4, <4>1, <4>2
    <3>2. ASSUME NEW k \in Desc PROVE InWindow(k, taken', b) <=> InWindow(k, taken, a) /\ k # j
      <4>1. a \in Nat /\ b \in Nat /\ a <= Num
        BY <1>n
      <4>2. InWindow(k, Turn(taken, 1), b) <=> InWindow(k, taken, a) /\ k # Slot(taken)
        BY <1>i, <2>2, <4>1, WindowShrinks
      <4> QED
        BY <2>3, <2>4, <4>2
    <3> QED
      BY <1>f, <1>t, <2>4, <3>1, <3>2 DEF DiskAt
  <2> QED
    BY <2>5, <2>6, <2>7, <2>8, <2>9 DEF DiskInv
<1>4. ASSUME Disk!Interrupt PROVE DiskInv'
  <2>1. u # 0
    <3>1. usedIdx # usedIdxDev /\ Turn(usedIdx, 0) = usedIdx
      BY <1>4, <1>t, TurnOfNothing DEF Disk!Interrupt
    <3> QED
      BY <1>f, <3>1
  <2>2. PICK b \in 0 .. Num : u = b + 1
    BY <1>n, <2>1
  <2>3. PICK j \in Desc, d \in Desc : j = Slot(usedIdx) /\ used[j] = d
    <3>1. Slot(usedIdx) \in Desc /\ InWindow(Slot(usedIdx), usedIdx, u)
      BY <1>i, <1>n, <2>1, SlotIsDesc, WindowHead
    <3> QED
      BY <1>f, <1>t, <3>1
  <2>4. Done(j)
    BY <1>c DEF RingsApart
  <2>5. PICK p \in Proc : idx[p] = d /\ busy[p] /\ moved[p]
    BY <1>n, <2>3, <2>4 DEF Done, Served
  <2>6. d \notin inDevice /\ \A k \in Desc : k # j => used[k] # d
    BY <1>n, <2>3, <2>4 DEF Done
  <2>7. /\ info[d] = p /\ pc[p] \in {"wait", "woken"}
        /\ \A q \in Proc : idx[q] = d => q = p
    <3>1. info[d] = p /\ pc[p] \in {"wait", "woken"}
      BY <1>r, <1>n, <2>5 DEF Request
    <3> QED
      BY <1>h, <1>n, <2>5, <3>1 DEF Asking
  <2>8. /\ busy' = [busy EXCEPT ![p] = FALSE] /\ pc' = [pc EXCEPT ![p] = "woken"]
        /\ usedIdx' = Turn(usedIdx, 1) /\ used' = [used EXCEPT ![j] = None]
        /\ UNCHANGED <<free, next, info, avail, availIdx, usedIdxDev, taken, inDevice, idx, moved>>
    BY <1>4, <2>3, <2>7 DEF Disk!Interrupt, Disk!device, Slot, Turn
  <2>9. Disk!TypeOK'
    <3>1. usedIdx' \in Disk!Counter
      BY <1>i, <2>8, TurnIsCounter
    <3> QED
      BY <1>n, <1>t, <2>8, <3>1 DEF Disk!TypeOK, Disk!Maybe
  <2>10. ASSUME NEW s \in Proc PROVE Request(s)'
    BY <1>n, <1>r, <1>t, <2>5, <2>7, <2>8 DEF Request
  <2>11. ChainsApart'
    <3>1. Asking' = Asking
      BY <2>8 DEF Asking
    <3> QED
      BY <1>c, <2>8, <3>1 DEF ChainsApart, Linked, Trio
  <2>12. RingsApart'
    <3>1. ASSUME NEW x, x # d PROVE (Pending(x)' <=> Pending(x)) /\ (Served(x)' <=> Served(x))
      BY <1>t, <2>5, <2>8, <3>1 DEF Pending, Served
    <3>2. ASSUME NEW k \in Desc PROVE Offered(k)'
      <4>1. Offered(k) /\ avail[k] # d
        BY <1>c, <1>n, <2>3 DEF RingsApart, Offered
      <4> QED
        BY <1>t, <2>8, <3>1, <4>1 DEF Offered
    <3>3. ASSUME NEW k \in Desc PROVE Done(k)'
      <4>1. Done(k)
        BY <1>c DEF RingsApart
      <4> QED
        BY <1>t, <2>6, <2>8, <3>1, <4>1 DEF Done
    <3>4. ASSUME NEW x \in inDevice' PROVE Pending(x)'
      BY <1>c, <2>6, <2>8, <3>1 DEF RingsApart
    <3> QED
      BY <3>2, <3>3, <3>4 DEF RingsApart
  <2>13. DiskAt(a, b)'
    <3>1. usedIdxDev' = Turn(usedIdx', b)
      <4>1. Turn(Turn(usedIdx, 1), b) = Turn(usedIdx, 1 + b)
        BY <1>i, <2>2, TurnTwice
      <4>2. 1 + b = u
        BY <2>2
      <4> QED
        BY <1>f, <2>8, <4>1, <4>2
    <3>2. ASSUME NEW k \in Desc PROVE InWindow(k, usedIdx', b) <=> InWindow(k, usedIdx, u) /\ k # j
      <4>1. u \in Nat /\ b \in Nat /\ u <= Num
        BY <1>n
      <4>2. InWindow(k, Turn(usedIdx, 1), b) <=> InWindow(k, usedIdx, u) /\ k # Slot(usedIdx)
        BY <1>i, <2>2, <4>1, WindowShrinks
      <4> QED
        BY <2>3, <2>8, <4>2
    <3> QED
      BY <1>f, <1>t, <2>8, <3>1, <3>2 DEF DiskAt
  <2> QED
    BY <2>9, <2>10, <2>11, <2>12, <2>13 DEF DiskInv
<1>5. ASSUME NEW d \in Desc, Disk!DeviceFinishes(d) PROVE DiskInv'
  <2>0. d \in inDevice
    BY <1>5 DEF Disk!DeviceFinishes
  <2>1. PICK o \in Proc : idx[o] = d /\ busy[o] /\ info[d] = o
    <3>1. Pending(d)
      BY <1>c, <2>0 DEF RingsApart
    <3> QED
      BY <1>r, <3>1 DEF Pending, Request
  <2>2. PICK j \in Desc : j = Slot(usedIdxDev)
    <3>1. usedIdxDev \in Int
      BY <1>t, DiskNumbers
    <3> QED
      BY <1>n, <3>1, SlotIsDesc
  <2>3. /\ inDevice' = inDevice \ {d} /\ moved' = [moved EXCEPT ![o] = TRUE]
        /\ used' = [used EXCEPT ![j] = d] /\ usedIdxDev' = Turn(usedIdxDev, 1)
        /\ UNCHANGED <<free, next, info, avail, availIdx, usedIdx, taken, pc, idx, busy>>
    BY <1>5, <2>1, <2>2 DEF Disk!DeviceFinishes, Slot, Turn
  <2>4. ASSUME NEW k \in Desc PROVE avail[k] # d /\ used[k] # d
    BY <1>c, <1>n, <2>0 DEF RingsApart, Offered, Done
  <2>5. u < Num
    <3>1. ASSUME NEW k \in Desc, InWindow(k, usedIdx, u)
          PROVE  /\ used[k] \in Desc \ {d}
                 /\ \A m \in Desc : InWindow(m, usedIdx, u) /\ m # k => used[m] # used[k]
      BY <1>c, <1>f, <1>t, <2>4, <3>1 DEF RingsApart, Done
    <3>2. IsFiniteSet(Desc \ {d}) /\ Cardinality(Desc \ {d}) = Num - 1
      BY <1>n, OneLess
    <3>4. \A k \in Disk!Desc : InWindow(k, usedIdx, u) =>
            /\ used[k] \in Desc \ {d}
            /\ \A m \in Disk!Desc : InWindow(m, usedIdx, u) /\ m # k => used[m] # used[k]
      BY <1>n, <3>1
    <3>3. u <= Cardinality(Desc \ {d})
      BY <1>i, <3>2, <3>4, WindowFits
    <3> QED
      BY <1>n, <3>2, <3>3
  <2>6. PICK v \in 0 .. Num : v = u + 1
    BY <1>n, <2>5
  <2>7. Disk!TypeOK'
    <3>1. usedIdxDev' \in Disk!Counter
      BY <1>t, <2>3, DiskNumbers, TurnIsCounter
    <3> QED
      BY <1>n, <1>t, <2>3, <3>1 DEF Disk!TypeOK, Disk!Maybe
  <2>8. ASSUME NEW s \in Proc PROVE Request(s)'
    <3>1. Request(s) /\ moved[s] \in BOOLEAN /\ (moved[s] => moved'[s])
      BY <1>r, <1>t, <2>3
    <3> QED
      BY <2>3, <3>1 DEF Request
  <2>9. ChainsApart'
    <3>1. Asking' = Asking
      BY <2>3 DEF Asking
    <3> QED
      BY <1>c, <2>3, <3>1 DEF ChainsApart, Linked, Trio
  <2>10. RingsApart'
    <3>1. \A x : Pending(x)' <=> Pending(x)
      BY <2>3 DEF Pending
    <3>2. ASSUME NEW x, Served(x) PROVE Served(x)'
      BY <1>t, <2>3, <3>2 DEF Served
    <3>3. Served(d)'
      BY <1>t, <2>1, <2>3 DEF Served
    <3>4. ASSUME NEW k \in Desc PROVE Offered(k)'
      <4>1. Offered(k)
        BY <1>c DEF RingsApart
      <4> QED
        BY <1>t, <2>3, <2>4, <3>1, <4>1 DEF Offered
    <3>5. ASSUME NEW k \in Desc PROVE Done(k)'
      <4>1. Done(k)
        BY <1>c DEF RingsApart
      <4>2. CASE k = j
        BY <1>t, <2>3, <2>4, <3>3, <4>2 DEF Done
      <4>3. CASE k # j
        BY <1>t, <2>3, <2>4, <3>2, <4>1, <4>3 DEF Done
      <4> QED
        BY <4>2, <4>3
    <3>6. ASSUME NEW x \in inDevice' PROVE Pending(x)'
      BY <1>c, <2>3, <3>1 DEF RingsApart
    <3> QED
      BY <3>4, <3>5, <3>6 DEF RingsApart
  <2>11. DiskAt(a, v)'
    <3>1. usedIdxDev' = Turn(usedIdx', v)
      <4>1. Turn(Turn(usedIdx, u), 1) = Turn(usedIdx, u + 1)
        BY <1>i, <1>n, TurnTwice
      <4> QED
        BY <1>f, <2>3, <2>6, <4>1
    <3>2. ASSUME NEW k \in Desc PROVE InWindow(k, usedIdx, v) <=> InWindow(k, usedIdx, u) \/ k = j
      <4>1. u \in Nat /\ v \in Nat /\ v <= Num
        BY <1>n
      <4>2. InWindow(k, usedIdx, v) <=> InWindow(k, usedIdx, u) \/ k = Slot(Turn(usedIdx, u))
        BY <1>i, <2>6, <4>1, WindowGrows
      <4> QED
        BY <1>f, <2>2, <4>2
    <3> QED
      BY <1>f, <1>n, <1>t, <2>3, <3>1, <3>2 DEF DiskAt
  <2> QED
    BY <2>7, <2>8, <2>9, <2>10, <2>11 DEF DiskInv
<1>6. ASSUME NEW p \in Proc, Disk!Submit(p) PROVE DiskInv'
  <2>1. PICK d0 \in free, d1 \in free, d2 \in free :
          /\ pc[p] = "begin" /\ d0 # d1 /\ d1 # d2 /\ d0 # d2
          /\ free' = free \ {d0, d1, d2}
          /\ next' = [next EXCEPT ![d0] = d1, ![d1] = d2, ![d2] = None]
          /\ info' = [info EXCEPT ![d0] = p]
          /\ avail' = [avail EXCEPT ![Slot(availIdx)] = d0]
          /\ availIdx' = Turn(availIdx, 1)
          /\ idx' = [idx EXCEPT ![p] = d0] /\ busy' = [busy EXCEPT ![p] = TRUE]
          /\ moved' = [moved EXCEPT ![p] = FALSE] /\ pc' = [pc EXCEPT ![p] = "wait"]
          /\ UNCHANGED <<used, usedIdxDev, usedIdx, taken, inDevice>>
    <3>1. PICK d0 \in free, d1 \in free, d2 \in free : Submitted(p, d0, d1, d2)
      BY <1>6 DEF Disk!Submit, Submitted
    <3>2. d0 \in Int /\ d1 \in Int /\ d2 \in Int
      BY <1>n, <1>t
    <3>3. d0 # d1 /\ d1 # d2 /\ d0 # d2
      BY <3>1, <3>2 DEF Submitted
    <3> QED
      BY <3>1, <3>3 DEF Submitted, Disk!device, Slot, Turn
  <2>2. d0 \in Desc /\ d1 \in Desc /\ d2 \in Desc /\ idx[p] = None /\ ~busy[p] /\ p \notin Asking
    BY <1>r, <1>t, <2>1 DEF Request, Asking
  <2>3. PICK j \in Desc : j = Slot(availIdx)
    <3>1. availIdx \in Int
      BY <1>t, DiskNumbers
    <3> QED
      BY <1>n, <3>1, SlotIsDesc
  <2>4. ASSUME NEW k \in Desc PROVE avail[k] # d0 /\ used[k] # d0 /\ d0 \notin inDevice
    <3>1. ~Pending(d0) /\ ~Served(d0) /\ d0 # None
      BY <1>n, <1>p, <1>s, <2>1, <2>2
    <3> QED
      BY <1>c, <3>1 DEF RingsApart, Offered, Done
  <2>5. a < Num
    <3>1. ASSUME NEW k \in Desc, InWindow(k, taken, a)
          PROVE  /\ avail[k] \in Desc \ {d0}
                 /\ \A m \in Desc : InWindow(m, taken, a) /\ m # k => avail[m] # avail[k]
      BY <1>c, <1>f, <1>t, <2>4, <3>1 DEF RingsApart, Offered
    <3>2. IsFiniteSet(Desc \ {d0}) /\ Cardinality(Desc \ {d0}) = Num - 1
      BY <1>n, <2>2, OneLess
    <3>4. \A k \in Disk!Desc : InWindow(k, taken, a) =>
            /\ avail[k] \in Desc \ {d0}
            /\ \A m \in Disk!Desc : InWindow(m, taken, a) /\ m # k => avail[m] # avail[k]
      BY <1>n, <3>1
    <3>3. a <= Cardinality(Desc \ {d0})
      BY <1>i, <3>2, <3>4, WindowFits
    <3> QED
      BY <1>n, <3>2, <3>3
  <2>6. PICK b \in 0 .. Num : b = a + 1
    BY <1>n, <2>5
  <2>7. Disk!TypeOK'
    <3>1. availIdx' \in Disk!Counter
      BY <1>t, <2>1, DiskNumbers, TurnIsCounter
    <3>2. free' \subseteq Desc /\ next' \in [Desc -> Desc \cup {None}]
      BY <1>t, <2>1, <2>2
    <3>3. avail' \in [Desc -> Desc \cup {None}] /\ info' \in [Desc -> Proc \cup {None}]
      BY <1>t, <2>1, <2>2
    <3>4. /\ idx' \in [Proc -> Desc \cup {None}] /\ busy' \in [Proc -> BOOLEAN] /\ moved' \in [Proc -> BOOLEAN]
          /\ pc' \in [Proc -> {"user", "begin", "noDesc", "wait", "woken"}]
      BY <1>t, <2>1, <2>2
    <3> QED
      BY <1>n, <1>t, <2>1, <3>1, <3>2, <3>3, <3>4, SMTT(30) DEF Disk!TypeOK, Disk!Maybe
  <2>8. ASSUME NEW s \in Proc PROVE Request(s)'
    <3>1. CASE s = p
      BY <1>n, <1>t, <2>1, <2>2, <3>1 DEF Request
    <3>2. CASE s # p
      <4>1. Request(s) /\ idx[s] # d0
        BY <1>h, <1>n, <1>r, <2>1, <2>2 DEF Asking
      <4>2. /\ idx'[s] = idx[s] /\ busy'[s] = busy[s] /\ moved'[s] = moved[s] /\ pc'[s] = pc[s]
            /\ idx[s] # None => info'[idx[s]] = info[idx[s]]
        BY <1>t, <2>1, <3>2, <4>1
      <4>3. Cardinality(free) < 3 => Cardinality(free') < 3
        <5>1. IsFiniteSet(Desc)
          BY <1>n, FS_Interval
        <5>2. IsFiniteSet(free)
          BY <1>t, <5>1, FS_Subset
        <5>3. free' \subseteq free
          BY <2>1
        <5> QED
          BY <5>2, <5>3, FS_Subset, FS_CardinalityType
      <4> QED
        BY <4>1, <4>2, <4>3 DEF Request
    <3> QED
      BY <3>1, <3>2
  <2>9. ChainsApart'
    <3>1. Asking' = Asking \cup {p}
      BY <1>n, <1>t, <2>1, <2>2 DEF Asking
    <3>2. ASSUME NEW q \in Asking
          PROVE  idx'[q] = idx[q] /\ Linked(idx[q])' /\ Trio(idx[q])' = Trio(idx[q])
      <4>1. q \in Proc /\ q # p /\ idx'[q] = idx[q]
        BY <1>h, <1>t, <2>1, <2>2
      <4>2. \A x \in Trio(idx[q]) : next'[x] = next[x]
        BY <1>h, <1>t, <2>1
      <4> QED
        BY <1>h, <4>1, <4>2 DEF Linked, Trio
    <3>3. idx'[p] = d0 /\ Linked(d0)' /\ Trio(d0)' = {d0, d1, d2}
      <4>1. next'[d0] = d1 /\ next'[d1] = d2 /\ next'[d2] = None
        BY <1>t, <2>1, <2>2
      <4> QED
        BY <1>t, <2>1, <2>2, <4>1 DEF Linked, Trio
    <3>4. \A q \in Asking' : Linked(idx[q])' /\ Trio(idx[q])' \cap free' = {}
      BY <1>h, <2>1, <3>1, <3>2, <3>3
    <3>5. ASSUME NEW q \in Asking', NEW s \in Asking', q # s PROVE Trio(idx[q])' \cap Trio(idx[s])' = {}
      BY <1>h, <2>1, <3>1, <3>2, <3>3, <3>5, SMTT(30)
    <3>6. ASSUME NEW d \in Desc \ free' PROVE \E q \in Asking' : d \in Trio(idx[q])'
      <4>1. CASE d \in {d0, d1, d2}
        BY <3>1, <3>3, <4>1
      <4>2. CASE d \notin {d0, d1, d2}
        <5>1. PICK q \in Asking : d \in Trio(idx[q])
          BY <1>c, <2>1, <4>2 DEF ChainsApart
        <5> QED
          BY <3>1, <3>2, <5>1
      <4> QED
        BY <4>1, <4>2
    <3>7. Cardinality(Desc \ free') = 3 * Cardinality(Asking')
      <4>1. IsFiniteSet(Desc) /\ IsFiniteSet(Asking)
        BY <1>n, FS_Interval, FS_Subset DEF Asking
      <4>2. IsFiniteSet(Desc \ free)
        BY <4>1, FS_Subset
      <4>3. Desc \ free' = (Desc \ free) \cup {d0, d1, d2}
        BY <2>1, <2>2
      <4>4. Cardinality((Desc \ free) \cup {d0, d1, d2}) = Cardinality(Desc \ free) + 3
        BY <2>1, <4>2, ThreeMore
      <4>5. Cardinality(Asking \cup {p}) = Cardinality(Asking) + 1
        BY <2>2, <4>1, FS_AddElement
      <4>6. Cardinality(Asking) \in Nat /\ Cardinality(Desc \ free) = 3 * Cardinality(Asking)
        BY <1>c, <4>1, FS_CardinalityType DEF ChainsApart
      <4>7. Cardinality(Desc \ free') = Cardinality(Desc \ free) + 3
        BY <4>3, <4>4
      <4>8. Cardinality(Asking') = Cardinality(Asking) + 1
        BY <3>1, <4>5
      <4> QED
        BY <4>6, <4>7, <4>8
    <3>8. Desc' = Desc
      BY <1>n DEF Desc, Disk!Desc
    <3> QED
      BY <3>4, <3>5, <3>6, <3>7, <3>8 DEF ChainsApart
  <2>10. RingsApart'
    <3>1. ASSUME NEW x PROVE (Pending(x) => Pending(x)') /\ (Served(x) => Served(x)')
      BY <1>t, <2>1, <2>2 DEF Pending, Served
    <3>2. Pending(d0)'
      BY <1>t, <2>1 DEF Pending
    <3>3. ASSUME NEW k \in Desc PROVE Offered(k)'
      <4>1. Offered(k)
        BY <1>c DEF RingsApart
      <4>2. CASE k = j
        BY <1>t, <2>1, <2>3, <2>4, <3>2, <4>2 DEF Offered
      <4>3. CASE k # j
        BY <1>t, <2>1, <2>3, <2>4, <3>1, <4>1, <4>3 DEF Offered
      <4> QED
        BY <4>2, <4>3
    <3>4. ASSUME NEW k \in Desc PROVE Done(k)'
      <4>1. Done(k)
        BY <1>c DEF RingsApart
      <4> QED
        BY <2>1, <3>1, <4>1 DEF Done
    <3>5. ASSUME NEW x \in inDevice' PROVE Pending(x)'
      BY <1>c, <2>1, <3>1 DEF RingsApart
    <3> QED
      BY <3>3, <3>4, <3>5 DEF RingsApart
  <2>11. DiskAt(b, u)'
    <3>1. availIdx' = Turn(taken', b)
      <4>1. Turn(Turn(taken, a), 1) = Turn(taken, a + 1)
        BY <1>i, <1>n, TurnTwice
      <4> QED
        BY <1>f, <2>1, <2>6, <4>1
    <3>2. ASSUME NEW k \in Desc PROVE InWindow(k, taken, b) <=> InWindow(k, taken, a) \/ k = j
      <4>1. a \in Nat /\ b \in Nat /\ b <= Num
        BY <1>n
      <4>2. InWindow(k, taken, b) <=> InWindow(k, taken, a) \/ k = Slot(Turn(taken, a))
        BY <1>i, <2>6, <4>1, WindowGrows
      <4> QED
        BY <1>f, <2>3, <4>2
    <3>3. \A k \in Desc : avail'[k] # None <=> avail[k] # None \/ k = j
      BY <1>n, <1>t, <2>1, <2>2, <2>3
    <3> QED
      BY <1>f, <2>1, <3>1, <3>2, <3>3 DEF DiskAt
  <2> QED
    BY <2>7, <2>8, <2>9, <2>10, <2>11 DEF DiskInv
<1>7. ASSUME NEW p \in Proc, Disk!Finish(p) PROVE DiskInv'
  <2>1. pc[p] = "woken" /\ ~busy[p]
    BY <1>7 DEF Disk!Finish
  <2>2. PICK d \in Desc : d = idx[p]
    BY <1>r, <1>t, <2>1 DEF Request
  <2>3. p \in Asking /\ Linked(d) /\ Trio(d) \cap free = {} /\ Trio(d) \subseteq Desc /\ d \in Trio(d)
    <3>1. p \in Asking
      BY <1>n, <2>2 DEF Asking
    <3> QED
      BY <1>h, <2>2, <3>1
  <2>4. Disk!Chain(d) = Trio(d)
    BY <1>n, <2>3 DEF Linked, Trio, Disk!Chain
  <2>5. /\ info' = [info EXCEPT ![d] = None] /\ free' = free \cup Trio(d)
        /\ next' = [x \in Desc |-> IF x \in Trio(d) THEN None ELSE next[x]]
        /\ pc' = [Disk!WakeForDesc EXCEPT ![p] = "user"] /\ idx' = [idx EXCEPT ![p] = None]
        /\ UNCHANGED <<avail, availIdx, used, usedIdxDev, usedIdx, taken, inDevice, busy, moved>>
    BY <1>7, <1>n, <2>2, <2>4 DEF Disk!Finish, Disk!rings, Disk!device
  <2>6. PICK old \in [Proc -> {"user", "begin", "noDesc", "wait", "woken"}] :
          /\ pc' = [old EXCEPT ![p] = "user"]
          /\ \A s \in Proc : old[s] = IF pc[s] = "noDesc" THEN "begin" ELSE pc[s]
    <3>1. Disk!WakeForDesc \in [Proc -> {"user", "begin", "noDesc", "wait", "woken"}]
      BY <1>t DEF Disk!WakeForDesc
    <3>2. \A s \in Proc : Disk!WakeForDesc[s] = IF pc[s] = "noDesc" THEN "begin" ELSE pc[s]
      BY DEF Disk!WakeForDesc
    <3> QED
      BY <2>5, <3>1, <3>2
  <2>7. Disk!TypeOK'
    <3>1. free' \subseteq Desc /\ next' \in [Desc -> Desc \cup {None}] /\ info' \in [Desc -> Proc \cup {None}]
      BY <1>t, <2>3, <2>5
    <3>2. /\ idx' \in [Proc -> Desc \cup {None}]
          /\ pc' \in [Proc -> {"user", "begin", "noDesc", "wait", "woken"}]
      BY <1>t, <2>5, <2>6
    <3> QED
      BY <1>n, <1>t, <2>5, <3>1, <3>2 DEF Disk!TypeOK, Disk!Maybe
  <2>8. ASSUME NEW s \in Proc PROVE Request(s)'
    <3>1. CASE s = p
      BY <1>t, <2>1, <2>5, <2>6, <3>1 DEF Request
    <3>2. CASE s # p
      <4>1. Request(s) /\ idx[s] # d
        BY <1>h, <1>n, <1>r, <2>2, <2>3, <3>2 DEF Asking
      <4>2. /\ idx'[s] = idx[s] /\ busy'[s] = busy[s] /\ moved'[s] = moved[s]
            /\ pc'[s] = IF pc[s] = "noDesc" THEN "begin" ELSE pc[s]
            /\ idx[s] # None => info'[idx[s]] = info[idx[s]]
        BY <1>t, <2>5, <2>6, <3>2, <4>1
      <4> QED
        BY <4>1, <4>2 DEF Request
    <3> QED
      BY <3>1, <3>2
  <2>9. ChainsApart'
    <3>1. Asking' = Asking \ {p}
      BY <1>n, <1>t, <2>5 DEF Asking
    <3>2. ASSUME NEW q \in Asking, q # p
          PROVE  /\ idx'[q] = idx[q] /\ Linked(idx[q])' /\ Trio(idx[q])' = Trio(idx[q])
                 /\ Trio(idx[q]) \cap Trio(d) = {}
      <4>1. q \in Proc /\ idx'[q] = idx[q] /\ Trio(idx[q]) \cap Trio(d) = {}
        BY <1>h, <1>t, <2>2, <2>3, <2>5, <3>2
      <4>2. \A x \in Trio(idx[q]) : next'[x] = next[x]
        BY <1>h, <2>5, <4>1
      <4> QED
        BY <1>h, <4>1, <4>2 DEF Linked, Trio
    <3>4. \A q \in Asking' : Linked(idx[q])' /\ Trio(idx[q])' \cap free' = {}
      BY <1>h, <2>5, <3>1, <3>2
    <3>5. ASSUME NEW q \in Asking', NEW s \in Asking', q # s PROVE Trio(idx[q])' \cap Trio(idx[s])' = {}
      BY <1>h, <3>1, <3>2, <3>5
    <3>6. ASSUME NEW x \in Desc \ free' PROVE \E q \in Asking' : x \in Trio(idx[q])'
      <4>1. PICK q \in Asking : x \in Trio(idx[q])
        BY <1>c, <2>5 DEF ChainsApart
      <4> QED
        BY <2>2, <2>5, <3>1, <3>2, <4>1
    <3>7. Cardinality(Desc \ free') = 3 * Cardinality(Asking')
      <4>1. IsFiniteSet(Desc) /\ IsFiniteSet(Asking)
        BY <1>n, FS_Interval, FS_Subset DEF Asking
      <4>2. IsFiniteSet(Desc \ free')
        BY <4>1, FS_Subset
      <4>3. Desc \ free = (Desc \ free') \cup Trio(d)
        BY <2>3, <2>5
      <4>4. Cardinality((Desc \ free') \cup Trio(d)) = Cardinality(Desc \ free') + 3
        <5>1. d \notin Desc \ free' /\ next[d] \notin Desc \ free' /\ next[next[d]] \notin Desc \ free'
          BY <2>5 DEF Trio
        <5> QED
          BY <2>3, <4>2, <5>1, ThreeMore DEF Trio, Linked
      <4>5. Cardinality(Asking \ {p}) = Cardinality(Asking) - 1
        BY <2>3, <4>1, FS_RemoveElement
      <4>6. /\ Cardinality(Asking) \in Nat /\ Cardinality(Desc \ free') \in Nat
            /\ Cardinality(Desc \ free) = 3 * Cardinality(Asking)
        BY <1>c, <4>1, <4>2, FS_CardinalityType DEF ChainsApart
      <4>7. Cardinality(Desc \ free) = Cardinality(Desc \ free') + 3
        BY <4>3, <4>4
      <4>8. Cardinality(Asking') = Cardinality(Asking) - 1
        BY <3>1, <4>5
      <4> QED
        BY <4>6, <4>7, <4>8
    <3>8. Desc' = Desc
      BY <1>n DEF Desc, Disk!Desc
    <3> QED
      BY <3>4, <3>5, <3>6, <3>7, <3>8 DEF ChainsApart
  <2>10. RingsApart'
    <3>1. ASSUME NEW x, x # None PROVE (Pending(x)' <=> Pending(x)) /\ (Served(x)' <=> Served(x))
      BY <1>t, <2>1, <2>5, <3>1 DEF Pending, Served
    <3> QED
      BY <1>c, <1>n, <1>t, <2>5, <3>1 DEF RingsApart, Offered, Done
  <2>11. DiskAt(a, u)'
    BY <1>f, <2>5 DEF DiskAt
  <2> QED
    BY <2>7, <2>8, <2>9, <2>10, <2>11 DEF DiskInv
<1>8. CASE UNCHANGED Disk!vars
  <2>1. UNCHANGED <<free, next, info, avail, availIdx, used, usedIdxDev, usedIdx, taken, inDevice, pc, idx,
                    busy, moved>>
    BY <1>8 DEF Disk!vars, Disk!rings, Disk!device
  <2>2. \A s \in Proc : Request(s)'
    BY <1>r, <2>1 DEF Request
  <2> QED
    BY <1>1, <1>t, <2>1, <2>2
<1> QED
  BY <1>2, <1>3, <1>4, <1>5, <1>6, <1>7, <1>8, <1>n DEF Disk!Next

-----------------------------------------------------------------------------
(* The parts together *)

Invariant ==
  /\ part = "disk" => DiskInv
  /\ part = "uart" => UartInv
  /\ part = "console" => ConsoleInv
  /\ part = "memory" => MemInv
  /\ part = "time" => TimeInv
  /\ part = "alarm" => AlarmInv
  /\ part = "counts" => CountsInv

LEMMA InvariantHoldsFirst == Init => Invariant
<1> SUFFICES ASSUME Init PROVE Invariant
  OBVIOUS
<1>1. CASE part = "disk" /\ Disk!Init
  BY <1>1, PartsAssumption, DiskInit DEF Invariant
<1>2. CASE part = "uart" /\ Uart!Init
  BY <1>2, PartsAssumption, UartInit DEF Invariant
<1>3. CASE part = "console" /\ Console!Init
  BY <1>3, PartsAssumption, ConsoleInit DEF Invariant
<1>4. CASE part = "memory" /\ Memory!Init
  BY <1>4, PartsAssumption, MemInit DEF Invariant
<1>5. CASE part = "time" /\ Time!Init
  BY <1>5, PartsAssumption, TimeInit DEF Invariant
<1>6. CASE part = "alarm" /\ Alarm!Init
  BY <1>6, PartsAssumption, AlarmInit DEF Invariant
<1>7. CASE part = "counts" /\ Counts!Init
  BY <1>7, PartsAssumption, CountsInit DEF Invariant
<1> QED
  BY <1>1, <1>2, <1>3, <1>4, <1>5, <1>6, <1>7 DEF Init

\* A step is one of the part that runs, or changes nothing.
LEMMA PartSteps ==
  ASSUME [Next]_vars
  PROVE  /\ part' = part
         /\ part = "disk" => [Disk!Next]_(Disk!vars)
         /\ part = "uart" => [Uart!Next]_(Uart!vars)
         /\ part = "console" => [Console!Next]_(Console!vars)
         /\ part = "memory" => [Memory!Next]_(Memory!vars)
         /\ part = "time" => [Time!Next]_(Time!vars)
         /\ part = "alarm" => [Alarm!Next]_(Alarm!vars)
         /\ part = "counts" => [Counts!Next]_(Counts!vars)
<1>1. CASE Next
  BY <1>1 DEF Next
<1>2. CASE UNCHANGED vars
  <2>1. UNCHANGED <<Disk!vars, Uart!vars, Console!vars>>
    BY <1>2 DEF vars, diskOnly, uartOnly, consoleOnly, Disk!vars, Disk!rings, Disk!device, Uart!vars,
                Console!vars
  <2>2. UNCHANGED <<Memory!vars, Time!vars, Alarm!vars, Counts!vars>>
    BY <1>2 DEF vars, memoryOnly, timeOnly, alarmOnly, countsOnly, Memory!vars, Memory!slots, Memory!locals,
                Time!vars, Time!times, Alarm!vars, Counts!vars
  <2> QED
    BY <1>2, <2>1, <2>2 DEF vars
<1> QED
  BY <1>1, <1>2

LEMMA InvariantIsKept == Invariant /\ [Next]_vars => Invariant'
<1> SUFFICES ASSUME Invariant, [Next]_vars PROVE Invariant'
  OBVIOUS
<1>1. /\ part' = part
      /\ part = "disk" => [Disk!Next]_(Disk!vars)
      /\ part = "uart" => [Uart!Next]_(Uart!vars)
      /\ part = "console" => [Console!Next]_(Console!vars)
      /\ part = "memory" => [Memory!Next]_(Memory!vars)
      /\ part = "time" => [Time!Next]_(Time!vars)
      /\ part = "alarm" => [Alarm!Next]_(Alarm!vars)
      /\ part = "counts" => [Counts!Next]_(Counts!vars)
  BY PartSteps
<1>2. part = "disk" => DiskInv'
  BY <1>1, PartsAssumption, DiskStep DEF Invariant
<1>3. part = "uart" => UartInv'
  BY <1>1, PartsAssumption, UartStep DEF Invariant
<1>4. part = "console" => ConsoleInv'
  BY <1>1, PartsAssumption, ConsoleStep DEF Invariant
<1>5. part = "memory" => MemInv'
  BY <1>1, PartsAssumption, MemStep DEF Invariant
<1>6. part = "time" => TimeInv'
  BY <1>1, PartsAssumption, TimeStep DEF Invariant
<1>7. part = "alarm" => AlarmInv'
  BY <1>1, PartsAssumption, AlarmStep DEF Invariant
<1>8. part = "counts" => CountsInv'
  BY <1>1, PartsAssumption, CountsStep DEF Invariant
<1> QED
  BY <1>1, <1>2, <1>3, <1>4, <1>5, <1>6, <1>7, <1>8 DEF Invariant

\* Whichever part runs, its inductive invariant holds in every reachable state.
THEOREM Invariance == Spec => []Invariant
BY InvariantHoldsFirst, InvariantIsKept, PTL DEF Spec

LEMMA InvariantIsSafe == Invariant => TypeOK /\ IoMoves /\ PoolsConserved /\ AccountsKept
<1> SUFFICES ASSUME Invariant PROVE TypeOK /\ IoMoves /\ PoolsConserved /\ AccountsKept
  OBVIOUS
<1>1. part = "disk" => Disk!TypeOK /\ Disk!DoneMeansMoved /\ Disk!DescriptorsConserved
  BY PartsAssumption, DiskSafety DEF Invariant
<1>2. part = "uart" => Uart!TypeOK /\ Uart!OutputMoves
  BY DEF Invariant, UartInv
<1>3. part = "console" => Console!TypeOK /\ Console!ReadersAwake
  BY PartsAssumption, ConsoleSafety DEF Invariant
<1>4. part = "memory" => Memory!TypeOK /\ Memory!PagesFreedOnce
  BY PartsAssumption, MemSafety DEF Invariant
<1>5. part = "time" => Time!TypeOK /\ Time!TimesAddUp
  BY PartsAssumption, TimeSafety DEF Invariant
<1>6. part = "alarm" => Alarm!TypeOK /\ Alarm!ProgramResumes
  BY DEF Invariant, AlarmInv
<1>7. part = "counts" => Counts!TypeOK /\ Counts!CountsRollUp
  BY DEF Invariant, CountsInv
<1> QED
  BY <1>1, <1>2, <1>3, <1>4, <1>5, <1>6, <1>7 DEF TypeOK, IoMoves, PoolsConserved, AccountsKept

\* The variables of every part keep their types, whatever runs.
THEOREM TypesKept == Spec => []TypeOK
BY Invariance, InvariantIsSafe, PTL

\* Neither output nor a request for the disk is forgotten, and no reader of
\* the console sleeps on a line that is there (uart.c:136, console.c:87,
\* virtio_disk.c:281).
THEOREM InputAndOutputMove == Spec => []IoMoves
BY Invariance, InvariantIsSafe, PTL

\* No descriptor and no page is lost or freed twice on any path of the driver,
\* of fork(), exec() and sbrk() (virtio_disk.c:161, kalloc.c:46).
THEOREM NothingIsLost == Spec => []PoolsConserved
BY Invariance, InvariantIsSafe, PTL

\* The times of a process add up, the program an alarm interrupts goes on
\* where it was, and no system call is counted twice or dropped unseen
\* (proc.c:908, trap.c:91, proc.c:451).
THEOREM AccountsAddUp == Spec => []AccountsKept
BY Invariance, InvariantIsSafe, PTL

-----------------------------------------------------------------------------
(* The ring of the console implements LineInput. *)

LEMMA InputStarts == Init => Input!Init
<1> SUFFICES ASSUME Init PROVE Input!Init
  OBVIOUS
<1>1. CASE part = "console"
  <2>1. Console!Init
    BY <1>1 DEF Init
  <2>2. Edited!Init
    BY <2>1, PartsAssumption, ConsoleInit
  <2> QED
    BY <1>1, <2>2 DEF Edited!Init, Input!Init
<1>2. CASE part # "console"
  BY <1>2 DEF Input!Init
<1> QED
  BY <1>1, <1>2

LEMMA InputSteps ==
  Invariant /\ [Next]_vars =>
    [Input!Next]_<<IF part = "console" THEN Console!Complete ELSE <<>>,
                   IF part = "console" THEN Console!Line ELSE <<>> >>
<1> SUFFICES ASSUME Invariant, [Next]_vars
             PROVE  [Input!Next]_<<IF part = "console" THEN Console!Complete ELSE <<>>,
                                   IF part = "console" THEN Console!Line ELSE <<>> >>
  OBVIOUS
<1>1. part' = part /\ (part = "console" => [Console!Next]_(Console!vars))
  BY PartSteps
<1>2. CASE part = "console"
  <2>1. [Edited!Next]_<<Console!Complete, Console!Line>>
    BY <1>1, <1>2, PartsAssumption, ConsoleStep DEF Invariant
  <2>2. CASE Edited!Next
    BY <1>1, <1>2, <2>2 DEF Edited!Next, Edited!Type, Edited!Erase, Edited!EraseLine, Edited!Read,
                            Input!Next, Input!Type, Input!Erase, Input!EraseLine, Input!Read
  <2>3. CASE UNCHANGED <<Console!Complete, Console!Line>>
    BY <1>1, <1>2, <2>3
  <2> QED
    BY <2>1, <2>2, <2>3
<1>3. CASE part # "console"
  BY <1>1, <1>3
<1> QED
  BY <1>2, <1>3

\* What is erased is never read and what was read cannot be erased, through any
\* wrap of the indices (console.c:146, console.c:156).
THEOREM TheConsoleIsALineInput == Spec => ConsoleIsLineInput
<1>1. Init => Input!Init
  BY InputStarts
<1>2. Invariant /\ [Next]_vars =>
        [Input!Next]_<<IF part = "console" THEN Console!Complete ELSE <<>>,
                       IF part = "console" THEN Console!Line ELSE <<>> >>
  BY InputSteps
<1> QED
  BY <1>1, <1>2, Invariance, PTL DEF Spec, ConsoleIsLineInput, Input!Spec
=============================================================================
