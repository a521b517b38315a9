------------------------------- MODULE LazySort -------------------------------
(***************************************************************************)
(* lazy_sort.c: fewer than THRESHOLD entries are sorted by a count sort    *)
(* whose threads count the keys under one mutex, more of them by a merge   *)
(* sort with a thread for each half of a long segment.                     *)
(*                                                                         *)
(* An entry is what it is sorted by and the place where it was read: an    *)
(* id, a name (its first character and the rest of it) or a timestamp,     *)
(* which is a number of seconds, or "bad" when it cannot be parsed.  Not   *)
(* modelled: a pthread_create() that fails in merge_sort() (its result is  *)
(* not looked at), memory that runs out, and ids so far apart that their   *)
(* difference overflows.                                                   *)
(***************************************************************************)
EXTENDS Integers, FiniteSetsExt, SequencesExt, Totals

CONSTANTS THRESHOLD, MIN_THREAD_SIZE, NUM_THREADS, MAX_ID,
          PerThread,  \* a thread for each so many entries, 10
          Overflow,   \* an int holds -Overflow .. Overflow-1
          Id, Chars, Time, MaxFiles  \* bound the inputs

SortAssumption ==
  /\ THRESHOLD \in Nat /\ MIN_THREAD_SIZE \in Nat \ {0} /\ NUM_THREADS \in Nat \ {0}
  /\ PerThread \in Nat \ {0} /\ MAX_ID \in Nat /\ Overflow \in Nat \ {0}
  /\ Id \subseteq Int /\ Chars \subseteq Int /\ IsFiniteSet(Chars) /\ Time \subseteq Int
  /\ MaxFiles \in Nat

Keys == [ID        |-> {[id |-> v] : v \in Id},
         Name      |-> [first : Chars, rest : Chars],
         Timestamp |-> [time : Time, bad : {FALSE}] \cup {[time |-> 0, bad |-> TRUE]}]

VARIABLES column,    \* sort_column
          entries,   \* collection->entries
          input,     \* what was read into it
          made,      \* count_sort(): threads created
          at,        \* at[t]: "start", "locked", "done"
          next,      \* next[t]: the entry i of thread t
          read,      \* read[t]: count_arr[key] as t has read it
          counts,    \* count_arr
          segment,   \* merge_sort(left, right): "idle", "running", "copied", "done"
          halves,    \* L and R of its merge()
          result     \* "" while it runs, "success", "error" or "undefined"

counting == <<made, at, next, read, counts>>
merging == <<segment, halves>>
vars == <<column, entries, input, counting, merging, result>>

N == Len(input)
CountSort == N < THRESHOLD
num_threads == IF NUM_THREADS < (N \div PerThread) + 1 THEN NUM_THREADS ELSE (N \div PerThread) + 1
Thread == 1..NUM_THREADS
Segments == {s \in (1..MaxFiles) \X (1..MaxFiles) : s[1] <= s[2]}

\* get_timestamp_bucket(): seconds beyond the range of an int wrap around.
Bucket(k) == IF k.bad THEN 0 ELSE ((k.time + Overflow) % (2 * Overflow)) - Overflow

\* What the count sort looks at.
CountKey(k) == CASE column = "ID" -> k.id [] column = "Name" -> k.first [] OTHER -> Bucket(k)
InArray(k) == column # "ID" \/ k.id \in 0..MAX_ID
Slots == CASE column = "ID" -> 0..MAX_ID [] column = "Name" -> Chars [] OTHER -> {}

\* cmp <= 0 in merge(): ids, strcmp(), and compare_timestamps(), which calls
\* what it cannot parse equal to everything.
Before(x, y) ==
  CASE column = "ID"   -> x.id <= y.id
    [] column = "Name" -> x.first < y.first \/ (x.first = y.first /\ x.rest <= y.rest)
    [] OTHER           -> x.bad \/ y.bad \/ x.time <= y.time

TypeOK ==
  /\ column \in DOMAIN Keys
  /\ N \in 1..MaxFiles /\ Len(entries) = N
  /\ made \in 0..NUM_THREADS /\ at \in [Thread -> {"start", "locked", "done"}]
  /\ \A t \in Thread : next[t] \in 1..(N + 1) /\ read[t] \in 0..N
  /\ \A k \in DOMAIN counts : counts[k] \in 0..N
  /\ segment \in [Segments -> {"idle", "running", "copied", "done"}]
  /\ result \in {"", "success", "error", "undefined"}

Init ==
  /\ column \in DOMAIN Keys
  /\ \E n \in 1..MaxFiles : \E k \in [1..n -> Keys[column]] :
       input = [i \in 1..n |-> [key |-> k[i], n |-> i]]
  /\ entries = input
  /\ made = 0 /\ at = [t \in Thread |-> "start"] /\ next = [t \in Thread |-> 1]
  /\ read = [t \in Thread |-> 0] /\ counts = [k \in Slots |-> 0]
  /\ segment = [s \in Segments |-> IF ~CountSort /\ s = <<1, N>> THEN "running" ELSE "idle"]
  /\ halves = [s \in Segments |-> <<>>]
  /\ result = ""

-----------------------------------------------------------------------------
(* count_sort().                                                           *)
\* The entries of thread t: the remainder goes to the first threads.
Start(t) == 1 + ((t - 1) * (N \div num_threads))
              + (IF t - 1 < N % num_threads THEN t - 1 ELSE N % num_threads)
End(t) == Start(t + 1)   \* end_idx, the first that is not t's

MayCreate == CountSort /\ result = "" /\ made < num_threads
Create ==
  /\ MayCreate
  /\ made' = made + 1
  /\ next' = [next EXCEPT ![made + 1] = Start(made + 1)]
  /\ UNCHANGED <<column, entries, input, at, read, counts, merging, result>>

\* The threads made before are cancelled and joined; they have no cancellation
\* point, and end when they have counted.
AllCounted == \A t \in 1..made : at[t] = "done"
CreateFails ==
  /\ MayCreate /\ AllCounted
  /\ result' = "error"
  /\ UNCHANGED <<column, entries, input, counting, merging>>

Locked == \E t \in Thread : at[t] = "locked"
Counts(t) == /\ t <= made /\ next[t] < End(t)
             /\ CountKey(entries[next[t]].key) \in DOMAIN counts

\* The mutex is taken and the count is read, then written and the mutex given
\* back.  Timestamps beyond TIMESTAMP_BUCKETS are not counted, nor used.
MayLock(t, free) == at[t] = "start" /\ Counts(t) /\ free
LockWhen(t, free) ==
  /\ MayLock(t, free)
  /\ at' = [at EXCEPT ![t] = "locked"]
  /\ read' = [read EXCEPT ![t] = counts[CountKey(entries[next[t]].key)]]
  /\ UNCHANGED <<column, entries, input, made, next, counts, merging, result>>

\* A bug to be caught: a thread that counts without the mutex.
LockNot(t) == LockWhen(t, TRUE)

Lock(t) == LockWhen(t, ~Locked)

Count(t) ==
  /\ at[t] = "locked"
  /\ counts' = [counts EXCEPT ![CountKey(entries[next[t]].key)] = read[t] + 1]
  /\ at' = [at EXCEPT ![t] = "start"]
  /\ next' = [next EXCEPT ![t] = @ + 1]
  /\ read' = [read EXCEPT ![t] = 0]
  /\ UNCHANGED <<column, entries, input, made, merging, result>>

MaySkip(t) == at[t] = "start" /\ t <= made /\ ~Counts(t)
Skip(t) ==
  /\ MaySkip(t)
  /\ IF next[t] < End(t)
     THEN next' = [next EXCEPT ![t] = @ + 1] /\ UNCHANGED at
     ELSE at' = [at EXCEPT ![t] = "done"] /\ UNCHANGED next
  /\ UNCHANGED <<column, entries, input, made, read, counts, merging, result>>

\* build_sorted_array_by_id() and _by_name(): from the last entry to the first,
\* each goes to the place below the cumulated count of its key.
Upto(k) == Total(counts, {j \in DOMAIN counts : j <= k})
Same(i) == {j \in i..N : CountKey(entries[j].key) = CountKey(entries[i].key)}
Place(i) == Upto(CountKey(entries[i].key)) - Cardinality(Same(i)) + 1
Placed(p) == {i \in 1..N : Place(i) = p}
FromCounts == [p \in 1..N |-> IF Placed(p) = {} THEN [key |-> "", n |-> 0] ELSE entries[Min(Placed(p))]]

\* build_sorted_array_by_timestamp(): a bubble sort by the buckets.
Swap(s, j) == IF Bucket(s[j].key) > Bucket(s[j + 1].key)
              THEN [s EXCEPT ![j] = s[j + 1], ![j + 1] = s[j]] ELSE s
Pass(s, n) ==
  LET after[j \in 0..n] == IF j = 0 THEN s ELSE Swap(after[j - 1], j) IN after[n]
Bubbled ==
  LET after[i \in 0..(N - 1)] == IF i = 0 THEN entries ELSE Pass(after[i - 1], N - i) IN after[N - 1]

\* An id outside count_arr was not counted, but it is looked up.
MayBuild == CountSort /\ result = "" /\ made = num_threads /\ AllCounted
Build ==
  /\ MayBuild
  /\ IF \A i \in 1..N : InArray(entries[i].key)
     THEN /\ entries' = IF column = "Timestamp" THEN Bubbled ELSE FromCounts
          /\ result' = "success"
     ELSE result' = "undefined" /\ UNCHANGED entries
  /\ UNCHANGED <<column, input, counting, merging>>

-----------------------------------------------------------------------------
(* merge_sort().                                                           *)
Mid(s) == s[1] + ((s[2] - s[1]) \div 2)
Left(s) == <<s[1], Mid(s)>>
Right(s) == <<Mid(s) + 1, s[2]>>
Threaded(s) == s[2] - s[1] > MIN_THREAD_SIZE

\* Two threads sort the halves of a long segment; those of a short one are
\* sorted one after the other.
MaySplit(s) == segment[s] = "running" /\ s[1] < s[2] /\ segment[Left(s)] = "idle"
Split(s) ==
  /\ MaySplit(s)
  /\ segment' = [segment EXCEPT ![Left(s)] = "running",
                                ![Right(s)] = IF Threaded(s) THEN "running" ELSE @]
  /\ UNCHANGED <<column, entries, input, counting, halves, result>>

MayGoOn(s) ==
  /\ segment[s] = "running" /\ s[1] < s[2] /\ ~Threaded(s)
  /\ segment[Left(s)] = "done" /\ segment[Right(s)] = "idle"
SecondHalf(s) ==
  /\ MayGoOn(s)
  /\ segment' = [segment EXCEPT ![Right(s)] = "running"]
  /\ UNCHANGED <<column, entries, input, counting, halves, result>>

IsSingle(s) == segment[s] = "running" /\ s[1] = s[2]
Single(s) ==
  /\ IsSingle(s)
  /\ segment' = [segment EXCEPT ![s] = "done"]
  /\ result' = IF s = <<1, N>> THEN "success" ELSE result
  /\ UNCHANGED <<column, entries, input, counting, halves>>

Sorts(s) == segment[s] = "running" /\ s[1] < s[2]
\* merge(): L and R are copies of the halves ...
Joined(s) == segment[Left(s)] = "done" /\ segment[Right(s)] = "done"
Copy(s) ==
  /\ Sorts(s) /\ Joined(s)
  /\ segment' = [segment EXCEPT ![s] = "copied"]
  /\ halves' = [halves EXCEPT ![s] = <<SubSeq(entries, s[1], Mid(s)), SubSeq(entries, Mid(s) + 1, s[2])>>]
  /\ UNCHANGED <<column, entries, input, counting, result>>

\* ... that are written back entry by entry, those of L first when equal:
\* so many of the first k entries are of L.
FromLeft(l, r) ==
  LET TakesLeft(i, j) == i <= Len(l) /\ (j > Len(r) \/ Before(l[i].key, r[j].key))
      taken[k \in 0..(Len(l) + Len(r))] ==
        IF k = 0 THEN 0
        ELSE LET i == taken[k - 1] IN IF TakesLeft(i + 1, k - i) THEN i + 1 ELSE i
  IN taken
Merged(l, r) ==
  LET taken == FromLeft(l, r)
  IN [k \in 1..(Len(l) + Len(r)) |->
        IF taken[k] # taken[k - 1] THEN l[taken[k]] ELSE r[k - taken[k]]]

Merge(s) ==
  /\ segment[s] = "copied"
  /\ LET m == Merged(halves[s][1], halves[s][2])
     IN entries' = [i \in 1..N |-> IF i \in s[1]..s[2] THEN m[i - s[1] + 1] ELSE entries[i]]
  /\ segment' = [segment EXCEPT ![s] = "done"]
  /\ halves' = [halves EXCEPT ![s] = <<>>]
  /\ result' = IF s = <<1, N>> THEN "success" ELSE result
  /\ UNCHANGED <<column, input, counting>>

Next ==
  \/ Create \/ CreateFails \/ Build
  \/ \E t \in Thread : Lock(t) \/ Count(t) \/ Skip(t)
  \/ \E s \in Segments : Split(s) \/ SecondHalf(s) \/ Single(s) \/ Copy(s) \/ Merge(s)

Spec == Init /\ [][Next]_vars

-----------------------------------------------------------------------------
(* What sorting is: the same entries, in an order, those that are equal in *)
(* it as they were.                                                        *)
IsSort(s, t, Leq(_, _)) ==
  /\ ToSet(s) = ToSet(t) /\ Len(s) = Len(t)
  /\ \A i, j \in DOMAIN s :
       i < j => Leq(s[i].key, s[j].key) /\ (Leq(s[j].key, s[i].key) => s[i].n < s[j].n)

CountLeq(x, y) == CountKey(x) <= CountKey(y)
AllParse == column # "Timestamp" \/ \A i \in 1..N : ~input[i].key.bad

\* Whatever the threads do, the result is a stable sort of what was read: by the
\* whole key when merge_sort() made it (lazy_sort.c:454), by the id, by the first
\* character or by the seconds as an int when count_sort() did (380-391).
Sorted ==
  result = "success" =>
    /\ CountSort => IsSort(entries, input, CountLeq)
    /\ ~CountSort /\ AllParse => IsSort(entries, input, Before)

\* A segment that merge_sort() has returned from holds the entries that were
\* read into it, in order, until its parent is merged (lazy_sort.c:425-452).
SegmentsSorted ==
  ~CountSort /\ AllParse =>
    \A s \in Segments :
      (segment[s] = "done" /\ \A p \in Segments : s \in {Left(p), Right(p)} /\ p[1] < p[2] => segment[p] # "done")
        => IsSort(SubSeq(entries, s[1], s[2]), SubSeq(input, s[1], s[2]), Before)

\* The sort ends: until it has a result some thread can go on, with the entries
\* it counts or with its segment (lazy_sort.c:251, 376, 432).
Runs ==
  result = "" =>
    \/ MayCreate \/ MayBuild
    \/ \E t \in Thread : at[t] = "locked" \/ MayLock(t, ~Locked) \/ MaySkip(t)
    \/ \E s \in Segments :
         segment[s] = "copied" \/ MaySplit(s) \/ MayGoOn(s) \/ IsSingle(s) \/ (Sorts(s) /\ Joined(s))
=============================================================================
