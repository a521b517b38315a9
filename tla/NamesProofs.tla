----------------------------- MODULE NamesProofs -----------------------------
(***************************************************************************)
(* Safety of VfsNames for every set of paths, table size, hash, cache      *)
(* capacity and number of servers, and its refinement of NameDirectory.    *)
(* NamesInv is inductive: the hash table is a table of owners (Map) and    *)
(* the cache is Sound, a doubly linked list that no node is missing from   *)
(* and that its map points into.  The steps that need an induction, over   *)
(* the paths of a registration or over the nodes of the list, go by        *)
(* Iteration and by StepByStep.                                            *)
(***************************************************************************)
EXTENDS VfsNames, CountingLemmas, SequenceTheorems, TLAPS

-----------------------------------------------------------------------------
(* The nodes of the cache.                                                 *)

Link == NodeId \cup {Null}
Node(k) == [path : Path, server : 1..k, prev : Link, next : Link]
Nodes(k) == UNION {[D -> Node(k)] : D \in SUBSET NodeId}

Cache(k) ==
  [head : Link, tail : Link, size : 0..(Capacity + 1), map : [Bucket -> Link], node : Nodes(k)]

LEMMA SetNextIs ==
  ASSUME NEW k, NEW node \in Nodes(k), NEW n, NEW v \in Link
  PROVE  /\ SetNext(node, n, v) \in Nodes(k)
         /\ DOMAIN SetNext(node, n, v) = DOMAIN node
         /\ \A x \in DOMAIN node :
              /\ SetNext(node, n, v)[x].path = node[x].path
              /\ SetNext(node, n, v)[x].server = node[x].server
              /\ SetNext(node, n, v)[x].prev = node[x].prev
              /\ SetNext(node, n, v)[x].next = IF x = n THEN v ELSE node[x].next
BY DEF Nodes, Node, Link, SetNext

LEMMA SetPrevIs ==
  ASSUME NEW k, NEW node \in Nodes(k), NEW n, NEW v \in Link
  PROVE  /\ SetPrev(node, n, v) \in Nodes(k)
         /\ DOMAIN SetPrev(node, n, v) = DOMAIN node
         /\ \A x \in DOMAIN node :
              /\ SetPrev(node, n, v)[x].path = node[x].path
              /\ SetPrev(node, n, v)[x].server = node[x].server
              /\ SetPrev(node, n, v)[x].next = node[x].next
              /\ SetPrev(node, n, v)[x].prev = IF x = n THEN v ELSE node[x].prev
BY DEF Nodes, Node, Link, SetPrev

LEMMA NodeIs ==
  ASSUME NEW k, NEW node \in Nodes(k)
  PROVE  /\ DOMAIN node \subseteq NodeId
         /\ \A x \in DOMAIN node : /\ node[x] \in Node(k)
                                   /\ node[x].path \in Path /\ node[x].server \in 1..k
                                   /\ node[x].prev \in Link /\ node[x].next \in Link
BY DEF Nodes, Node

LEMMA BypassIs ==
  ASSUME NEW k, NEW node \in Nodes(k), NEW n \in DOMAIN node
  PROVE  /\ Bypass(node, n) \in Nodes(k)
         /\ DOMAIN Bypass(node, n) = DOMAIN node
         /\ \A x \in DOMAIN node :
              /\ Bypass(node, n)[x].path = node[x].path
              /\ Bypass(node, n)[x].server = node[x].server
              /\ Bypass(node, n)[x].next = IF x = node[n].prev THEN node[n].next ELSE node[x].next
              /\ Bypass(node, n)[x].prev = IF x = node[n].next THEN node[n].prev ELSE node[x].prev
<1>1. node[n].prev \in Link /\ node[n].next \in Link
  BY NodeIs
<1> QED
  BY <1>1, SetNextIs, SetPrevIs DEF Bypass

LEMMA WithoutIs ==
  ASSUME NEW k, NEW node \in Nodes(k), NEW n
  PROVE  /\ Without(node, n) \in Nodes(k)
         /\ DOMAIN Without(node, n) = DOMAIN node \ {n}
         /\ \A x \in DOMAIN node \ {n} : Without(node, n)[x] = node[x]
<1> DEFINE rest == [x \in DOMAIN node \ {n} |-> node[x]]
<1>1. PICK D \in SUBSET NodeId : node \in [D -> Node(k)]
  BY DEF Nodes
<1>2. rest \in [D \ {n} -> Node(k)] /\ D \ {n} \in SUBSET NodeId
  BY <1>1
<1>3. rest \in Nodes(k)
  BY <1>2, Zenon DEF Nodes
<1> QED
  BY <1>3 DEF Without

-----------------------------------------------------------------------------
(* The order of the nodes.                                                 *)

(* Order o of the nodes of c is what its links say.                        *)
Lists(c, o) == o \in Bijection(1..c.size, DOMAIN c.node) /\ IsOrder(c, o)

(* o without its i-th node; that one first; a new one first.               *)
Gap(o, m, i) == [j \in 1..(m - 1) |-> IF j < i THEN o[j] ELSE o[j + 1]]
First(o, m, i) == [j \in 1..m |-> IF j = 1 THEN o[i] ELSE IF j <= i THEN o[j - 1] ELSE o[j]]
Led(o, m, n) == [j \in 1..(m + 1) |-> IF j = 1 THEN n ELSE o[j - 1]]

LEMMA OneToOne ==
  ASSUME NEW m \in Nat, NEW D, NEW o
  PROVE  o \in Bijection(1..m, D) <=>
           /\ o \in [1..m -> D]
           /\ \A i, j \in 1..m : o[i] = o[j] => i = j
           /\ \A x \in D : \E i \in 1..m : o[i] = x
BY Zenon DEF Bijection, Injection, Surjection, IsInjective

LEMMA GapIs ==
  ASSUME NEW m \in Nat, NEW D, NEW o \in Bijection(1..m, D), NEW i \in 1..m
  PROVE  Gap(o, m, i) \in Bijection(1..(m - 1), D \ {o[i]})
<1> DEFINE g == Gap(o, m, i)
<1>1. /\ o \in [1..m -> D]
      /\ \A a, b \in 1..m : o[a] = o[b] => a = b
      /\ \A x \in D : \E a \in 1..m : o[a] = x
  BY OneToOne
<1>2. \A j \in 1..(m - 1) : g[j] = (IF j < i THEN o[j] ELSE o[j + 1]) /\ g[j] \in D \ {o[i]}
  BY <1>1 DEF Gap
<1>3. g \in [1..(m - 1) -> D \ {o[i]}]
  BY <1>2 DEF Gap
<1>4. \A a, b \in 1..(m - 1) : g[a] = g[b] => a = b
  BY <1>1, <1>2
<1>5. ASSUME NEW x \in D \ {o[i]} PROVE \E j \in 1..(m - 1) : g[j] = x
  <2>1. PICK a \in 1..m : o[a] = x
    BY <1>1
  <2>2. CASE a < i
    BY <2>1, <2>2, <1>2, a \in 1..(m - 1)
  <2>3. CASE a > i
    <3>1. a - 1 \in 1..(m - 1) /\ ~ (a - 1 < i) /\ (a - 1) + 1 = a
      BY <2>3
    <3>2. g[a - 1] = o[(a - 1) + 1]
      BY <3>1, <1>2
    <3> QED
      BY <3>1, <3>2, <2>1
  <2> QED
    BY <2>1, <2>2, <2>3
<1> HIDE DEF g
<1> QED
  BY <1>3, <1>4, <1>5, OneToOne, m - 1 \in Nat DEF g

LEMMA FirstIs ==
  ASSUME NEW m \in Nat, NEW D, NEW o \in Bijection(1..m, D), NEW i \in 1..m
  PROVE  First(o, m, i) \in Bijection(1..m, D)
<1> DEFINE g == First(o, m, i)
<1>1. /\ o \in [1..m -> D]
      /\ \A a, b \in 1..m : o[a] = o[b] => a = b
      /\ \A x \in D : \E a \in 1..m : o[a] = x
  BY OneToOne
<1>2. \A j \in 1..m : /\ g[j] = (IF j = 1 THEN o[i] ELSE IF j <= i THEN o[j - 1] ELSE o[j])
                      /\ g[j] \in D
  BY <1>1 DEF First
<1>3. g \in [1..m -> D]
  BY <1>2 DEF First
<1>4. ASSUME NEW a \in 1..m, NEW b \in 1..m, g[a] = g[b] PROVE a = b
  <2> DEFINE from(j) == IF j = 1 THEN i ELSE IF j <= i THEN j - 1 ELSE j
  <2>1. \A j \in 1..m : from(j) \in 1..m /\ g[j] = o[from(j)]
    BY <1>2
  <2>2. from(a) = from(b)
    BY <2>1, <1>1, <1>4
  <2> QED
    BY <2>2
<1>5. ASSUME NEW x \in D PROVE \E j \in 1..m : g[j] = x
  <2>1. PICK a \in 1..m : o[a] = x
    BY <1>1
  <2>2. CASE a < i
    BY <2>1, <2>2, <1>2, a + 1 \in 1..m, SMTT(30)
  <2>3. CASE a = i
    BY <2>1, <2>3, <1>2, 1 \in 1..m
  <2>4. CASE a > i
    BY <2>1, <2>4, <1>2
  <2> QED
    BY <2>1, <2>2, <2>3, <2>4
<1> HIDE DEF g
<1> QED
  BY <1>3, <1>4, <1>5, OneToOne DEF g

LEMMA LedIs ==
  ASSUME NEW m \in Nat, NEW D, NEW o \in Bijection(1..m, D), NEW n, n \notin D
  PROVE  Led(o, m, n) \in Bijection(1..(m + 1), D \cup {n})
<1> DEFINE g == Led(o, m, n)
<1>1. /\ o \in [1..m -> D]
      /\ \A a, b \in 1..m : o[a] = o[b] => a = b
      /\ \A x \in D : \E a \in 1..m : o[a] = x
  BY OneToOne
<1>2. \A j \in 1..(m + 1) : g[j] = (IF j = 1 THEN n ELSE o[j - 1]) /\ g[j] \in D \cup {n}
  BY <1>1 DEF Led
<1>3. g \in [1..(m + 1) -> D \cup {n}]
  BY <1>2 DEF Led
<1>4. \A a, b \in 1..(m + 1) : g[a] = g[b] => a = b
  BY <1>1, <1>2, SMTT(30)
<1>5. ASSUME NEW x \in D \cup {n} PROVE \E j \in 1..(m + 1) : g[j] = x
  <2>1. CASE x = n
    BY <2>1, <1>2, 1 \in 1..(m + 1)
  <2>2. CASE x \in D
    <3>1. PICK a \in 1..m : o[a] = x
      BY <1>1, <2>2
    <3> QED
      BY <3>1, <1>2, a + 1 \in 1..(m + 1), (a + 1) - 1 = a, a + 1 # 1
  <2> QED
    BY <2>1, <2>2
<1> HIDE DEF g
<1> QED
  BY <1>3, <1>4, <1>5, OneToOne, m + 1 \in Nat DEF g

(* There is a node left for one more entry.                                *)
LEMMA MallocIs ==
  ASSUME NEW k, NEW c \in Cache(k), c.size <= Capacity, NEW o, Lists(c, o)
  PROVE  Malloc(c.node) \in NodeId \ DOMAIN c.node
<1> DEFINE free == NodeId \ DOMAIN c.node
<1>1. Capacity \in Nat /\ c.size \in Nat /\ c.node \in Nodes(k)
  BY NamesAssumption DEF Cache
<1>2. DOMAIN c.node \subseteq NodeId
  BY <1>1, NodeIs
<1> DEFINE m == c.size
<1>3. IsFiniteSet(1..m) /\ Cardinality(1..m) = m
  <2>1. m \in Nat
    BY <1>1
  <2> HIDE DEF m
  <2> QED
    BY <2>1, FS_Interval
<1>4. IsFiniteSet(NodeId) /\ Cardinality(NodeId) = Capacity + 1
  BY <1>1, FS_Interval DEF NodeId
<1>5. Cardinality(DOMAIN c.node) = c.size
  <2>1. /\ o \in [1..c.size -> DOMAIN c.node]
        /\ \A i, j \in 1..c.size : o[i] = o[j] => i = j
        /\ \A x \in DOMAIN c.node : \E i \in 1..c.size : o[i] = x
    BY <1>1, OneToOne DEF Lists
  <2>2. o \in Bijection(1..c.size, DOMAIN c.node)
    BY <2>1, Zenon DEF Bijection, Injection, Surjection, IsInjective
  <2>3. ExistsBijection(1..c.size, DOMAIN c.node)
    BY <2>2, Zenon DEF ExistsBijection
  <2> QED
    BY <2>3, <1>3, FS_Bijection
<1>6. free # {}
  <2>1. DOMAIN c.node # NodeId
    <3>1. c.size # Capacity + 1
      BY <1>1
    <3> QED
      BY <3>1, <1>4, <1>5
  <2> QED
    BY <2>1, <1>2
<1>7. free \subseteq Nat
  BY <1>1 DEF NodeId
<1>8. PICK n \in free : \A x \in free : n <= x
  BY <1>6, <1>7, LeastOne
<1> QED
  BY <1>8, Zenon DEF Malloc

-----------------------------------------------------------------------------
(* What the operations on the cache keep and change.                       *)

Sound(c, k) ==
  /\ c \in Cache(k) /\ c.size <= Capacity
  /\ \E o : Lists(c, o)
  /\ \A b \in Bucket : PointsToNode(c, b)

(* The server that the cache holds for p.                                  *)
Answer(c, p) == IF CacheHit(c, p) THEN c.node[c.map[Hash[p]]].server ELSE Null

LEMMA CacheIs ==
  ASSUME NEW k, NEW c \in Cache(k)
  PROVE  /\ c.head \in Link /\ c.tail \in Link /\ c.size \in Nat /\ c.size \in 0..(Capacity + 1)
         /\ c.map \in [Bucket -> Link] /\ c.node \in Nodes(k)
BY DEF Cache

LEMMA ListIs ==
  ASSUME NEW k, NEW c \in Cache(k), NEW o, Lists(c, o)
  PROVE  /\ o \in [1..c.size -> DOMAIN c.node]
         /\ \A i, j \in 1..c.size : o[i] = o[j] => i = j
         /\ \A x \in DOMAIN c.node : \E i \in 1..c.size : o[i] = x
         /\ \A i \in 1..c.size : o[i] # Null
         /\ c.head = IF c.size = 0 THEN Null ELSE o[1]
         /\ c.tail = IF c.size = 0 THEN Null ELSE o[c.size]
         /\ \A i \in 1..c.size :
              /\ c.node[o[i]].next = IF i = c.size THEN Null ELSE o[i + 1]
              /\ c.node[o[i]].prev = IF i = 1 THEN Null ELSE o[i - 1]
<1>1. c.size \in Nat /\ c.node \in Nodes(k)
  BY CacheIs
<1>2. /\ o \in [1..c.size -> DOMAIN c.node]
      /\ \A i, j \in 1..c.size : o[i] = o[j] => i = j
      /\ \A x \in DOMAIN c.node : \E i \in 1..c.size : o[i] = x
  BY <1>1, OneToOne DEF Lists
<1>3. \A i \in 1..c.size : o[i] # Null
  <2>1. DOMAIN c.node \subseteq NodeId
    BY <1>1, NodeIs
  <2>2. Null \notin NodeId
    BY DEF Null, NodeId
  <2> QED
    BY <1>2, <2>1, <2>2
<1> QED
  BY <1>2, <1>3 DEF Lists, IsOrder

LEMMA MovedList ==
  ASSUME NEW k, NEW c \in Cache(k), NEW o, Lists(c, o), NEW i \in 2..c.size
  PROVE  /\ MoveToHead(c, o[i]) \in Cache(k)
         /\ Lists(MoveToHead(c, o[i]), First(o, c.size, i))
         /\ DOMAIN MoveToHead(c, o[i]).node = DOMAIN c.node
         /\ \A x \in DOMAIN c.node :
              /\ MoveToHead(c, o[i]).node[x].path = c.node[x].path
              /\ MoveToHead(c, o[i]).node[x].server = c.node[x].server
         /\ MoveToHead(c, o[i]).map = c.map
         /\ MoveToHead(c, o[i]).size = c.size
<1> DEFINE m == c.size
           n == o[i]
           last == IF n = c.tail THEN c.node[n].prev ELSE c.tail
           past == SetNext(SetPrev(Bypass(c.node, n), n, Null), n, c.head)
           moved == SetPrev(past, c.head, n)
           d == [c EXCEPT !.node = moved, !.head = n, !.tail = IF last = Null THEN n ELSE last]
           g == First(o, m, i)
<1>1. /\ c.head \in Link /\ c.tail \in Link /\ m \in Nat /\ c.node \in Nodes(k)
  BY CacheIs
<1>2. /\ o \in [1..m -> DOMAIN c.node]
      /\ \A a, b \in 1..m : o[a] = o[b] => a = b
      /\ \A a \in 1..m : o[a] # Null
      /\ c.head = o[1] /\ c.tail = o[m]
      /\ \A a \in 1..m : /\ c.node[o[a]].next = IF a = m THEN Null ELSE o[a + 1]
                         /\ c.node[o[a]].prev = IF a = 1 THEN Null ELSE o[a - 1]
  BY <1>1, ListIs
<1>3. n \in DOMAIN c.node /\ n # c.head /\ n \in Link /\ Null \in Link
  <2>1. n \in DOMAIN c.node /\ n # c.head
    BY <1>1, <1>2
  <2>2. DOMAIN c.node \subseteq NodeId
    BY <1>1, NodeIs
  <2> QED
    BY <2>1, <2>2 DEF Link
<1>4. MoveToHead(c, n) = d
  BY <1>3 DEF MoveToHead
<1>5. /\ moved \in Nodes(k)
      /\ DOMAIN moved = DOMAIN c.node
      /\ \A x \in DOMAIN c.node :
           /\ moved[x].path = c.node[x].path
           /\ moved[x].server = c.node[x].server
           /\ moved[x].next = IF x = n THEN c.head
                              ELSE IF x = c.node[n].prev THEN c.node[n].next ELSE c.node[x].next
           /\ moved[x].prev = IF x = c.head THEN n ELSE IF x = n THEN Null
                              ELSE IF x = c.node[n].next THEN c.node[n].prev ELSE c.node[x].prev
  <2> DEFINE one == Bypass(c.node, n)
             two == SetPrev(one, n, Null)
  <2>1. /\ one \in Nodes(k) /\ DOMAIN one = DOMAIN c.node
        /\ \A x \in DOMAIN c.node :
             /\ one[x].path = c.node[x].path /\ one[x].server = c.node[x].server
             /\ one[x].next = IF x = c.node[n].prev THEN c.node[n].next ELSE c.node[x].next
             /\ one[x].prev = IF x = c.node[n].next THEN c.node[n].prev ELSE c.node[x].prev
    BY <1>1, <1>3, BypassIs, SMTT(30)
  <2> HIDE DEF one
  <2>2. /\ two \in Nodes(k) /\ DOMAIN two = DOMAIN c.node
        /\ \A x \in DOMAIN c.node :
             /\ two[x].path = one[x].path /\ two[x].server = one[x].server
             /\ two[x].next = one[x].next
             /\ two[x].prev = IF x = n THEN Null ELSE one[x].prev
    BY <2>1, <1>3, SetPrevIs
  <2> HIDE DEF two
  <2>3. /\ past \in Nodes(k) /\ DOMAIN past = DOMAIN c.node
        /\ \A x \in DOMAIN c.node :
             /\ past[x].path = two[x].path /\ past[x].server = two[x].server
             /\ past[x].prev = two[x].prev
             /\ past[x].next = IF x = n THEN c.head ELSE two[x].next
    BY <2>2, <1>1, SetNextIs DEF two, one
  <2> HIDE DEF past
  <2>4. /\ moved \in Nodes(k) /\ DOMAIN moved = DOMAIN c.node
        /\ \A x \in DOMAIN c.node :
             /\ moved[x].path = past[x].path /\ moved[x].server = past[x].server
             /\ moved[x].next = past[x].next
             /\ moved[x].prev = IF x = c.head THEN n ELSE past[x].prev
    BY <2>3, <1>3, SetPrevIs
  <2> QED
    BY <2>1, <2>2, <2>3, <2>4
<1> HIDE DEF moved
<1>6. c.node[n].prev = o[i - 1] /\ c.node[n].next = IF i = m THEN Null ELSE o[i + 1]
  BY <1>2
<1>7. last = IF i = m THEN o[m - 1] ELSE o[m]
  BY <1>1, <1>2, <1>6
<1>8. last \in Link /\ last # Null
  <2>1. last \in DOMAIN c.node /\ last # Null
    BY <1>1, <1>2, <1>7
  <2>2. DOMAIN c.node \subseteq NodeId
    BY <1>1, NodeIs
  <2> QED
    BY <2>1, <2>2 DEF Link
<1>9. /\ d \in Cache(k) /\ d.node = moved /\ d.head = n /\ d.tail = last
      /\ d.size = m /\ d.map = c.map
  BY <1>3, <1>5, <1>8 DEF Cache
<1> HIDE DEF last, d
<1>10. g \in Bijection(1..m, DOMAIN c.node)
  BY <1>1, FirstIs DEF Lists
<1>11. \A j \in 1..m : g[j] = IF j = 1 THEN n ELSE IF j <= i THEN o[j - 1] ELSE o[j]
  BY DEF First
<1> HIDE DEF g
<1>12. \A j \in 1..m : /\ moved[g[j]].next = IF j = m THEN Null ELSE g[j + 1]
                       /\ moved[g[j]].prev = IF j = 1 THEN Null ELSE g[j - 1]
  <2> TAKE j \in 1..m
  <2>1. CASE j = 1
    <3>1. g[j] = n /\ g[j + 1] = o[1] /\ j # m
      BY <2>1, <1>1, <1>11
    <3> QED
      BY <3>1, <2>1, <1>2, <1>3, <1>5
  <2>2. CASE j \in 2..i
    <3>1. g[j] = o[j - 1] /\ j - 1 \in 1..m /\ o[j - 1] # n /\ o[j - 1] \in DOMAIN c.node
      BY <2>2, <1>1, <1>2, <1>11, SMTT(30)
    <3>2. moved[g[j]].next = IF j = m THEN Null ELSE g[j + 1]
      <4>1. CASE j = i
        <5>1. moved[g[j]].next = c.node[n].next
          BY <4>1, <3>1, <1>5, <1>6
        <5> QED
          BY <5>1, <4>1, <1>1, <1>6, <1>11
      <4>2. CASE j # i
        <5>1. o[j - 1] # o[i - 1]
          BY <4>2, <3>1, <1>1, <1>2, <2>2, i - 1 \in 1..m
        <5>2. moved[g[j]].next = c.node[o[j - 1]].next
          BY <5>1, <3>1, <1>5, <1>6
        <5>3. c.node[o[j - 1]].next = o[j] /\ g[j + 1] = o[j] /\ j # m
          <6>1. j # m /\ j + 1 \in 1..m /\ j + 1 # 1 /\ j + 1 <= i
            BY <4>2, <2>2, <1>1
          <6>2. (j - 1) + 1 = j /\ (j + 1) - 1 = j /\ j - 1 # m
            BY <6>1, <1>1
          <6>3. c.node[o[j - 1]].next = o[j]
            BY <6>2, <3>1, <1>2
          <6>4. g[j + 1] = o[j]
            BY <6>1, <6>2, <1>11
          <6> QED
            BY <6>1, <6>3, <6>4
        <5> QED
          BY <5>2, <5>3
      <4> QED
        BY <4>1, <4>2
    <3>3. moved[g[j]].prev = g[j - 1]
      <4>1. CASE j = 2
        BY <4>1, <3>1, <1>1, <1>2, <1>5, <1>11, 1 \in 1..m
      <4>2. CASE j # 2
        <5>1. o[j - 1] # c.head /\ o[j - 1] # c.node[n].next
          BY <4>2, <2>2, <3>1, <1>1, <1>2, <1>6, 1 \in 1..m
        <5>2. moved[g[j]].prev = c.node[o[j - 1]].prev
          BY <5>1, <3>1, <1>5
        <5>3. c.node[o[j - 1]].prev = o[j - 2] /\ g[j - 1] = o[j - 2]
          BY <4>2, <2>2, <3>1, <1>1, <1>2, <1>11
        <5> QED
          BY <5>2, <5>3
      <4> QED
        BY <4>1, <4>2
    <3> QED
      BY <3>2, <3>3, <2>2
  <2>3. CASE j > i
    <3>1. g[j] = o[j] /\ o[j] # n /\ o[j] # c.head /\ o[j] # o[i - 1] /\ o[j] \in DOMAIN c.node
      BY <2>3, <1>1, <1>2, <1>11, i - 1 \in 1..m, 1 \in 1..m
    <3>2. moved[g[j]].next = c.node[o[j]].next
      BY <3>1, <1>5, <1>6
    <3>3. c.node[o[j]].next = IF j = m THEN Null ELSE g[j + 1]
      BY <2>3, <1>1, <1>2, <1>11
    <3>4. moved[g[j]].prev = g[j - 1]
      <4>1. CASE j = i + 1
        <5>1. o[j] = c.node[n].next /\ g[j - 1] = o[i - 1] /\ i # m
          BY <4>1, <1>1, <1>6, <1>11
        <5> QED
          BY <5>1, <3>1, <1>5, <1>6
      <4>2. CASE j # i + 1
        <5>1. o[j] # c.node[n].next
          BY <4>2, <3>1, <1>1, <1>2, <1>6
        <5>2. moved[g[j]].prev = c.node[o[j]].prev
          BY <5>1, <3>1, <1>5
        <5>3. c.node[o[j]].prev = o[j - 1] /\ g[j - 1] = o[j - 1]
          BY <4>2, <2>3, <1>1, <1>2, <1>11
        <5> QED
          BY <5>2, <5>3
      <4> QED
        BY <4>1, <4>2
    <3> QED
      BY <2>3, <3>2, <3>3, <3>4
  <2> QED
    BY <2>1, <2>2, <2>3, <1>1
<1>13. g[1] = n /\ g[m] = last
  BY <1>1, <1>7, <1>11
<1>14. Lists(d, g)
  BY <1>1, <1>5, <1>9, <1>10, <1>12, <1>13, SMTT(30) DEF Lists, IsOrder
<1> QED
  BY <1>4, <1>5, <1>9, <1>14 DEF g

(* A node has left the list: d is c without o[i].                          *)
LEMMA GapList ==
  ASSUME NEW k, NEW c \in Cache(k), NEW o, Lists(c, o), NEW i \in 1..c.size,
         NEW d \in Cache(k), d.size = c.size - 1,
         DOMAIN d.node = DOMAIN c.node \ {o[i]},
         \A x \in DOMAIN c.node \ {o[i]} :
           /\ d.node[x].next = IF x = c.node[o[i]].prev THEN c.node[o[i]].next ELSE c.node[x].next
           /\ d.node[x].prev = IF x = c.node[o[i]].next THEN c.node[o[i]].prev ELSE c.node[x].prev,
         d.head = IF c.node[o[i]].prev = Null THEN c.node[o[i]].next ELSE c.head,
         d.tail = IF c.node[o[i]].next = Null THEN c.node[o[i]].prev ELSE c.tail
  PROVE  Lists(d, Gap(o, c.size, i))
<1> DEFINE m == c.size
           n == o[i]
           g == Gap(o, m, i)
<1>1. c.head \in Link /\ c.tail \in Link /\ m \in Nat /\ c.node \in Nodes(k) /\ d.size \in Nat
  BY CacheIs
<1>2. /\ o \in [1..m -> DOMAIN c.node]
      /\ \A a, b \in 1..m : o[a] = o[b] => a = b
      /\ \A a \in 1..m : o[a] # Null
      /\ c.head = o[1] /\ c.tail = o[m]
      /\ \A a \in 1..m : /\ c.node[o[a]].next = IF a = m THEN Null ELSE o[a + 1]
                         /\ c.node[o[a]].prev = IF a = 1 THEN Null ELSE o[a - 1]
  BY <1>1, ListIs
<1>3. /\ c.node[n].prev = IF i = 1 THEN Null ELSE o[i - 1]
      /\ c.node[n].next = IF i = m THEN Null ELSE o[i + 1]
  BY <1>2
<1>4. g \in Bijection(1..(m - 1), DOMAIN c.node \ {n})
  BY <1>1, GapIs DEF Lists
<1>5. \A j \in 1..(m - 1) : g[j] = IF j < i THEN o[j] ELSE o[j + 1]
  BY DEF Gap
<1> HIDE DEF g
<1>6. ASSUME NEW j \in 1..(m - 1)
      PROVE  /\ d.node[g[j]].next = IF j = m - 1 THEN Null ELSE g[j + 1]
             /\ d.node[g[j]].prev = IF j = 1 THEN Null ELSE g[j - 1]
  <2>1. CASE j < i
    <3>1. j \in 1..m /\ g[j] = o[j] /\ o[j] # n /\ o[j] \in DOMAIN c.node \ {n}
      BY <2>1, <1>1, <1>2, <1>5
    <3>2. o[j] # c.node[n].next
      BY <2>1, <3>1, <1>1, <1>2, <1>3, i # m => i + 1 \in 1..m
    <3>3. d.node[o[j]].prev = c.node[o[j]].prev
      BY <3>1, <3>2
    <3>4. c.node[o[j]].prev = IF j = 1 THEN Null ELSE o[j - 1]
      BY <3>1, <1>2
    <3>5. j # 1 => g[j - 1] = o[j - 1]
      BY <2>1, <1>1, <1>5, j # 1 => j - 1 \in 1..(m - 1) /\ j - 1 < i
    <3>6. CASE j = i - 1
      <4>1. o[j] = c.node[n].prev
        BY <3>6, <2>1, <1>1, <1>3, i # 1
      <4>2. d.node[o[j]].next = c.node[n].next
        BY <3>1, <4>1
      <4>3. j # m - 1 => g[j + 1] = o[i + 1]
        <5>1. j # m - 1 => j + 1 \in 1..(m - 1) /\ ~(j + 1 < i) /\ (j + 1) + 1 = i + 1
          BY <3>6, <1>1
        <5> QED
          BY <5>1, <1>5
      <4>4. j = m - 1 <=> i = m
        BY <3>6, <1>1
      <4> QED
        BY <3>1, <3>3, <3>4, <3>5, <4>2, <4>3, <4>4, <1>3
    <3>7. CASE j # i - 1
      <4>1. o[j] # c.node[n].prev
        BY <3>7, <2>1, <3>1, <1>1, <1>2, <1>3, i # 1 => i - 1 \in 1..m
      <4>2. d.node[o[j]].next = c.node[o[j]].next
        BY <3>1, <4>1
      <4>3. j + 1 < i /\ j + 1 \in 1..(m - 1) /\ j # m
        BY <3>7, <2>1, <1>1
      <4>4. c.node[o[j]].next = o[j + 1] /\ g[j + 1] = o[j + 1]
        BY <4>3, <3>1, <1>2, <1>5
      <4> QED
        BY <3>1, <3>3, <3>4, <3>5, <4>2, <4>3, <4>4
    <3> QED
      BY <3>6, <3>7
  <2>2. CASE j >= i
    <3> DEFINE a == j + 1
    <3>1. a \in 1..m /\ g[j] = o[a] /\ o[a] # n /\ o[a] \in DOMAIN c.node \ {n} /\ a # 1
      BY <2>2, <1>1, <1>2, <1>5, SMTT(30)
    <3>2. o[a] # c.node[n].prev
      BY <2>2, <3>1, <1>1, <1>2, <1>3, i # 1 => i - 1 \in 1..m
    <3>3. d.node[o[a]].next = c.node[o[a]].next
      BY <3>1, <3>2
    <3>4. c.node[o[a]].next = IF a = m THEN Null ELSE o[a + 1]
      BY <3>1, <1>2
    <3>5. j # m - 1 => g[j + 1] = o[a + 1]
      <4>1. j # m - 1 => j + 1 \in 1..(m - 1) /\ ~(j + 1 < i)
        BY <2>2, <1>1
      <4> QED
        BY <4>1, <1>5
    <3>6. j = m - 1 <=> a = m
      BY <1>1
    <3>7. d.node[g[j]].next = IF j = m - 1 THEN Null ELSE g[j + 1]
      BY <3>1, <3>3, <3>4, <3>5, <3>6
    <3>8. CASE j = i
      <4>1. o[a] = c.node[n].next
        BY <3>8, <3>1, <1>1, <1>3
      <4>2. d.node[o[a]].prev = c.node[n].prev
        BY <3>1, <4>1
      <4>3. j # 1 => g[j - 1] = o[i - 1]
        BY <3>8, <1>1, <1>5, j # 1 => j - 1 \in 1..(m - 1) /\ j - 1 < i
      <4> QED
        BY <3>1, <3>7, <3>8, <4>2, <4>3, <1>3
    <3>9. CASE j # i
      <4>1. o[a] # c.node[n].next
        BY <3>9, <3>1, <1>1, <1>2, <1>3, i # m => i + 1 \in 1..m
      <4>2. d.node[o[a]].prev = c.node[o[a]].prev
        BY <3>1, <4>1
      <4>3. c.node[o[a]].prev = o[j]
        BY <3>1, <1>2, a - 1 = j
      <4>4. j # 1 /\ j - 1 \in 1..(m - 1) /\ ~(j - 1 < i) /\ (j - 1) + 1 = j
        BY <2>2, <3>9, <1>1
      <4>5. g[j - 1] = o[j]
        BY <4>4, <1>5
      <4> QED
        BY <3>1, <3>7, <4>2, <4>3, <4>4, <4>5
    <3> QED
      BY <3>8, <3>9
  <2> QED
    BY <2>1, <2>2, <1>1
<1>7. d.head = IF m - 1 = 0 THEN Null ELSE g[1]
  <2>1. CASE i = 1
    <3>1. d.head = c.node[n].next
      BY <2>1, <1>3
    <3>2. m - 1 # 0 => 1 \in 1..(m - 1) /\ ~(1 < i)
      BY <2>1, <1>1
    <3>3. m - 1 # 0 => g[1] = o[1 + 1]
      BY <3>2, <1>5
    <3> QED
      BY <3>1, <3>3, <2>1, <1>1, <1>3
  <2>2. CASE i # 1
    <3>1. d.head = o[1]
      BY <2>2, <1>1, <1>2, <1>3, i - 1 \in 1..m
    <3>2. m - 1 # 0 /\ 1 \in 1..(m - 1) /\ 1 < i
      BY <2>2, <1>1
    <3> QED
      BY <3>1, <3>2, <1>5
  <2> QED
    BY <2>1, <2>2
<1>8. d.tail = IF m - 1 = 0 THEN Null ELSE g[m - 1]
  <2>1. CASE i = m
    <3>1. d.tail = c.node[n].prev
      BY <2>1, <1>3
    <3>2. m - 1 # 0 => m - 1 \in 1..(m - 1) /\ m - 1 < i
      BY <2>1, <1>1
    <3>3. m - 1 # 0 => g[m - 1] = o[m - 1]
      BY <3>2, <1>5
    <3> QED
      BY <3>1, <3>3, <2>1, <1>1, <1>3
  <2>2. CASE i # m
    <3>1. d.tail = o[m]
      BY <2>2, <1>1, <1>2, <1>3, i + 1 \in 1..m
    <3>2. m - 1 # 0 /\ m - 1 \in 1..(m - 1) /\ ~(m - 1 < i) /\ (m - 1) + 1 = m
      BY <2>2, <1>1
    <3>3. g[m - 1] = o[(m - 1) + 1]
      BY <3>2, <1>5
    <3> QED
      BY <3>1, <3>2, <3>3
  <2> QED
    BY <2>1, <2>2
<1> QED
  BY <1>1, <1>4, <1>6, <1>7, <1>8 DEF Lists, IsOrder, g

(* AddToCache() before it looks at the size.                               *)
Added(c, p, s) ==
  LET n == Malloc(c.node)
      new == [path |-> p, server |-> s, prev |-> Null, next |-> c.head]
      linked == SetPrev(c.node, c.head, n)
  IN  [node |-> [x \in DOMAIN c.node \cup {n} |-> IF x = n THEN new ELSE linked[x]],
       head |-> n,
       tail |-> IF c.tail = Null THEN n ELSE c.tail,
       map |-> [c.map EXCEPT ![Hash[p]] = n],
       size |-> c.size + 1]

LEMMA AddedIs ==
  ASSUME NEW k, NEW c, Sound(c, k), NEW p \in Path, NEW s \in 1..k
  PROVE  /\ Added(c, p, s) \in Cache(k)
         /\ Added(c, p, s).size = c.size + 1
         /\ \E o : Lists(Added(c, p, s), o)
         /\ \A b \in Bucket : PointsToNode(Added(c, p, s), b)
         /\ Answer(Added(c, p, s), p) = s
         /\ \A q \in Path \ {p} : Answer(Added(c, p, s), q) \in {Answer(c, q), Null}
<1> DEFINE n == Malloc(c.node)
           m == c.size
           new == [path |-> p, server |-> s, prev |-> Null, next |-> c.head]
           linked == SetPrev(c.node, c.head, n)
           node == [x \in DOMAIN c.node \cup {n} |-> IF x = n THEN new ELSE linked[x]]
           d == Added(c, p, s)
<1>1. /\ c.head \in Link /\ c.tail \in Link /\ m \in Nat /\ c.node \in Nodes(k) /\ c \in Cache(k)
      /\ c.map \in [Bucket -> Link] /\ m <= Capacity /\ Capacity \in Nat
  BY CacheIs, NamesAssumption DEF Sound
<1>2. PICK o : Lists(c, o)
  BY DEF Sound
<1>3. n \in NodeId \ DOMAIN c.node /\ n \in Link /\ Null \in Link
  BY <1>1, <1>2, MallocIs DEF Link
<1>4. /\ o \in [1..m -> DOMAIN c.node]
      /\ \A a, b \in 1..m : o[a] = o[b] => a = b
      /\ \A a \in 1..m : o[a] # Null
      /\ c.head = IF m = 0 THEN Null ELSE o[1]
      /\ c.tail = IF m = 0 THEN Null ELSE o[m]
      /\ \A a \in 1..m : /\ c.node[o[a]].next = IF a = m THEN Null ELSE o[a + 1]
                         /\ c.node[o[a]].prev = IF a = 1 THEN Null ELSE o[a - 1]
  BY <1>1, <1>2, ListIs
<1>5. /\ linked \in Nodes(k) /\ DOMAIN linked = DOMAIN c.node
      /\ \A x \in DOMAIN c.node :
           /\ linked[x].path = c.node[x].path /\ linked[x].server = c.node[x].server
           /\ linked[x].next = c.node[x].next
           /\ linked[x].prev = IF x = c.head THEN n ELSE c.node[x].prev
  BY <1>1, <1>3, SetPrevIs
<1> HIDE DEF n, linked
<1>6. new \in Node(k)
  BY <1>1, <1>3 DEF Node
<1>7. /\ node \in Nodes(k) /\ DOMAIN node = DOMAIN c.node \cup {n} /\ node[n] = new
      /\ \A x \in DOMAIN c.node : node[x] = linked[x]
  <2>1. DOMAIN c.node \subseteq NodeId /\ \A x \in DOMAIN c.node : linked[x] \in Node(k)
    BY <1>1, <1>5, NodeIs
  <2>2. node \in [DOMAIN c.node \cup {n} -> Node(k)] /\ DOMAIN c.node \cup {n} \in SUBSET NodeId
    BY <2>1, <1>3, <1>6
  <2> QED
    BY <2>2, <1>3 DEF Nodes
<1>8. /\ new.path = p /\ new.server = s /\ new.prev = Null /\ new.next = c.head
  OBVIOUS
<1> HIDE DEF node, new
<1>9. Hash[p] \in Bucket /\ \A q \in Path : Hash[q] \in Bucket
  BY NamesAssumption
<1>10. /\ d = [node |-> node, head |-> n, tail |-> IF c.tail = Null THEN n ELSE c.tail,
               map |-> [c.map EXCEPT ![Hash[p]] = n], size |-> m + 1]
  BY Zenon DEF Added, node, new, linked, n
<1>11. [c.map EXCEPT ![Hash[p]] = n] \in [Bucket -> Link]
  BY <1>1, <1>3
<1>12. /\ d \in Cache(k) /\ d.node = node /\ d.head = n /\ d.size = m + 1
       /\ d.tail = IF c.tail = Null THEN n ELSE c.tail
       /\ d.map = [c.map EXCEPT ![Hash[p]] = n]
  BY <1>1, <1>3, <1>7, <1>10, <1>11 DEF Cache
<1> HIDE DEF d
<1>13. \E t : Lists(d, t)
  <2> DEFINE g == Led(o, m, n)
  <2>1. g \in Bijection(1..(m + 1), DOMAIN c.node \cup {n})
    BY <1>1, <1>2, <1>3, LedIs DEF Lists
  <2>2. \A j \in 1..(m + 1) : g[j] = IF j = 1 THEN n ELSE o[j - 1]
    BY DEF Led
  <2> HIDE DEF g
  <2>3. ASSUME NEW j \in 1..(m + 1)
        PROVE  /\ node[g[j]].next = IF j = m + 1 THEN Null ELSE g[j + 1]
               /\ node[g[j]].prev = IF j = 1 THEN Null ELSE g[j - 1]
    <3>1. CASE j = 1
      <4>1. g[j] = n
        BY <3>1, <2>2
      <4>2. j # m + 1 => 2 \in 1..(m + 1) /\ g[2] = o[1] /\ j + 1 = 2
        BY <3>1, <2>2, <1>1
      <4>3. node[n].next = c.head /\ node[n].prev = Null
        BY <1>7, <1>8
      <4> QED
        BY <3>1, <4>1, <4>2, <4>3, <1>1, <1>4
    <3>2. CASE j # 1
      <4>1. j - 1 \in 1..m /\ g[j] = o[j - 1] /\ o[j - 1] \in DOMAIN c.node
        BY <3>2, <1>1, <1>4, <2>2
      <4>2. node[o[j - 1]].next = c.node[o[j - 1]].next
        BY <4>1, <1>5, <1>7
      <4>3. c.node[o[j - 1]].next = IF j - 1 = m THEN Null ELSE o[(j - 1) + 1]
        BY <4>1, <1>4
      <4>4. j # m + 1 => j + 1 \in 1..(m + 1) /\ j + 1 # 1 /\ (j + 1) - 1 = j /\ (j - 1) + 1 = j
        BY <3>2, <1>1
      <4>5. j # m + 1 => g[j + 1] = o[j]
        BY <4>4, <2>2
      <4>6. node[g[j]].next = IF j = m + 1 THEN Null ELSE g[j + 1]
        BY <4>1, <4>2, <4>3, <4>4, <4>5, <1>1
      <4>7. m # 0 /\ 1 \in 1..m /\ c.head = o[1]
        BY <3>2, <1>1, <1>4
      <4>8. CASE j = 2
        <5>1. node[o[j - 1]].prev = n
          BY <4>8, <4>1, <4>7, <1>5, <1>7
        <5> QED
          BY <5>1, <4>1, <4>6, <4>8, <2>2, <1>1, 1 \in 1..(m + 1)
      <4>9. CASE j # 2
        <5>1. o[j - 1] # c.head
          BY <4>9, <4>1, <4>7, <1>4
        <5>2. node[o[j - 1]].prev = c.node[o[j - 1]].prev
          BY <5>1, <4>1, <1>5, <1>7
        <5>3. j - 1 # 1 /\ j - 1 \in 1..(m + 1) /\ (j - 1) - 1 = j - 2
          BY <4>9, <4>1, <1>1
        <5>4. c.node[o[j - 1]].prev = o[(j - 1) - 1]
          BY <5>3, <4>1, <1>4
        <5>5. g[j - 1] = o[(j - 1) - 1]
          BY <5>3, <2>2
        <5> QED
          BY <5>2, <5>4, <5>5, <4>1, <4>6, <3>2
      <4> QED
        BY <4>8, <4>9
    <3> QED
      BY <3>1, <3>2
  <2>4. d.head = g[1] /\ m + 1 # 0
    BY <1>1, <1>12, <2>2
  <2>5. d.tail = g[m + 1]
    <3>1. CASE m = 0
      BY <3>1, <1>4, <1>12, <2>2
    <3>2. CASE m # 0
      <4>1. m + 1 \in 1..(m + 1) /\ m + 1 # 1 /\ (m + 1) - 1 = m /\ m \in 1..m
        BY <3>2, <1>1
      <4>2. g[m + 1] = o[(m + 1) - 1]
        BY <4>1, <2>2
      <4>3. c.tail # Null /\ c.tail = o[m]
        BY <4>1, <3>2, <1>4
      <4> QED
        BY <4>1, <4>2, <4>3, <1>12
    <3> QED
      BY <3>1, <3>2
  <2>6. Lists(d, g)
    BY <2>1, <2>3, <2>4, <2>5, <1>7, <1>12 DEF Lists, IsOrder
  <2> QED
    BY <2>6
<1>14. \A b \in Bucket : PointsToNode(d, b)
  <2> TAKE b \in Bucket
  <2>1. PointsToNode(c, b)
    BY DEF Sound
  <2>2. CASE b = Hash[p]
    BY <2>2, <1>1, <1>7, <1>8, <1>12 DEF PointsToNode
  <2>3. CASE b # Hash[p]
    BY <2>1, <2>3, <1>1, <1>5, <1>7, <1>12 DEF PointsToNode
  <2> QED
    BY <2>2, <2>3
<1>15. Answer(d, p) = s
  BY <1>1, <1>3, <1>7, <1>8, <1>9, <1>12 DEF Answer, CacheHit, Null, NodeId
<1>16. ASSUME NEW q \in Path \ {p} PROVE Answer(d, q) \in {Answer(c, q), Null}
  <2>1. CASE Hash[q] = Hash[p]
    <3>1. d.map[Hash[q]] = n /\ d.node[n].path = p
      BY <2>1, <1>1, <1>7, <1>8, <1>9, <1>12
    <3> QED
      BY <3>1 DEF Answer, CacheHit
  <2>2. CASE Hash[q] # Hash[p]
    <3>1. d.map[Hash[q]] = c.map[Hash[q]]
      BY <2>2, <1>1, <1>9, <1>12
    <3>2. PointsToNode(c, Hash[q])
      BY <1>9 DEF Sound
    <3>3. CASE c.map[Hash[q]] = Null
      BY <3>1, <3>3 DEF Answer, CacheHit
    <3>4. CASE c.map[Hash[q]] # Null
      <4>1. c.map[Hash[q]] \in DOMAIN c.node
        BY <3>2, <3>4 DEF PointsToNode
      <4> QED
        BY <3>1, <4>1, <1>5, <1>7, <1>12 DEF Answer, CacheHit
    <3> QED
      BY <3>3, <3>4
  <2> QED
    BY <2>1, <2>2, SMTT(30)
<1> QED
  BY <1>12, <1>13, <1>14, <1>15, <1>16 DEF d

LEMMA EvictIs ==
  ASSUME NEW k, NEW c \in Cache(k), NEW o, Lists(c, o), c.size > 1,
         \A b \in Bucket : PointsToNode(c, b)
  PROVE  /\ Evict(c) \in Cache(k)
         /\ Evict(c).size = c.size - 1
         /\ \E t : Lists(Evict(c), t)
         /\ \A b \in Bucket : PointsToNode(Evict(c), b)
         /\ \A q \in Path : Answer(Evict(c), q) \in {Answer(c, q), Null}
<1> DEFINE m == c.size
           old == c.tail
           cut == SetNext(c.node, c.node[old].prev, Null)
           rest == Without(cut, old)
           b0 == Hash[c.node[old].path]
           d == Evict(c)
<1>1. /\ c.head \in Link /\ c.tail \in Link /\ m \in Nat /\ m \in 0..(Capacity + 1) /\ c.node \in Nodes(k)
      /\ c.map \in [Bucket -> Link] /\ Null \in Link
  BY CacheIs DEF Link
<1>2. /\ o \in [1..m -> DOMAIN c.node]
      /\ \A a, b \in 1..m : o[a] = o[b] => a = b
      /\ \A a \in 1..m : o[a] # Null
      /\ c.head = o[1] /\ old = o[m]
      /\ \A a \in 1..m : /\ c.node[o[a]].next = IF a = m THEN Null ELSE o[a + 1]
                         /\ c.node[o[a]].prev = IF a = 1 THEN Null ELSE o[a - 1]
  BY <1>1, ListIs
<1>3. /\ m \in 1..m /\ old \in DOMAIN c.node /\ c.node[old].next = Null
      /\ c.node[old].prev = o[m - 1] /\ m - 1 \in 1..m /\ c.node[old].prev # Null
  BY <1>1, <1>2
<1>4. /\ c.node[old].prev \in Link /\ c.node[old].path \in Path
      /\ \A x \in DOMAIN c.node : x # Null
  BY <1>1, <1>3, NodeIs DEF NodeId, Null
<1>5. /\ cut \in Nodes(k) /\ DOMAIN cut = DOMAIN c.node
      /\ \A x \in DOMAIN c.node :
           /\ cut[x].path = c.node[x].path /\ cut[x].server = c.node[x].server
           /\ cut[x].prev = c.node[x].prev
           /\ cut[x].next = IF x = c.node[old].prev THEN Null ELSE c.node[x].next
  BY <1>1, <1>4, SetNextIs
<1> HIDE DEF cut
<1>6. /\ rest \in Nodes(k) /\ DOMAIN rest = DOMAIN c.node \ {old}
      /\ \A x \in DOMAIN c.node \ {old} : rest[x] = cut[x]
  <2>1. /\ rest \in Nodes(k) /\ DOMAIN rest = DOMAIN cut \ {old}
        /\ \A x \in DOMAIN cut \ {old} : rest[x] = cut[x]
    <3>1. cut \in Nodes(k)
      BY <1>5
    <3> HIDE DEF old
    <3>2. Without(cut, old) \in Nodes(k)
      BY <3>1, WithoutIs
    <3>3. DOMAIN Without(cut, old) = DOMAIN cut \ {old}
      BY <3>1, WithoutIs
    <3>4. \A x \in DOMAIN cut \ {old} : Without(cut, old)[x] = cut[x]
      BY <3>1, WithoutIs
    <3> QED
      BY <3>2, <3>3, <3>4
  <2> HIDE DEF rest
  <2> QED
    BY <1>5, <2>1
<1> HIDE DEF rest
<1>7. b0 \in Bucket /\ \A q \in Path : Hash[q] \in Bucket
  BY <1>4, NamesAssumption
<1>8. d = [c EXCEPT !.node = rest, !.tail = c.node[old].prev, !.map[b0] = Null, !.size = @ - 1]
  BY Zenon DEF Evict, rest, cut
<1>9. [c.map EXCEPT ![b0] = Null] \in [Bucket -> Link]
  BY <1>1
<1>10. /\ d \in Cache(k) /\ d.node = rest /\ d.head = c.head /\ d.tail = c.node[old].prev
       /\ d.map = [c.map EXCEPT ![b0] = Null] /\ d.size = m - 1
  <2>1. m - 1 \in 0..(Capacity + 1)
    <3>1. Capacity \in Nat
      BY NamesAssumption
    <3> QED
      BY <1>1, <3>1
  <2> QED
    BY <2>1, <1>1, <1>4, <1>6, <1>8, <1>9 DEF Cache
<1> HIDE DEF d
<1>11. \E t : Lists(d, t)
  <2>1. \A x \in DOMAIN c.node \ {o[m]} :
           /\ d.node[x].next = IF x = c.node[o[m]].prev THEN c.node[o[m]].next ELSE c.node[x].next
           /\ d.node[x].prev = IF x = c.node[o[m]].next THEN c.node[o[m]].prev ELSE c.node[x].prev
    <3>1. o[m] = old /\ c.node[old].next = Null
      BY <1>2, <1>3
    <3>2. ASSUME NEW x \in DOMAIN c.node \ {old}
          PROVE  /\ d.node[x].next = IF x = c.node[old].prev THEN Null ELSE c.node[x].next
                 /\ d.node[x].prev = c.node[x].prev /\ x # Null
      <4>1. x \in DOMAIN c.node /\ d.node[x] = cut[x]
        BY <1>6, <1>10
      <4>2. cut[x].prev = c.node[x].prev
        BY <4>1, <1>5, Zenon
      <4>3. cut[x].next = IF x = c.node[old].prev THEN Null ELSE c.node[x].next
        BY <4>1, <1>5, Zenon
      <4>4. x # Null
        BY <4>1, <1>4, Zenon
      <4> QED
        BY <4>1, <4>2, <4>3, <4>4, Zenon
    <3> HIDE DEF m, old
    <3> QED
      BY <3>1, <3>2, Zenon
  <2>2. d.size = c.size - 1 /\ DOMAIN d.node = DOMAIN c.node \ {o[m]} /\ m \in 1..c.size
    BY <1>2, <1>3, <1>6, <1>10
  <2>3. /\ d.head = IF c.node[o[m]].prev = Null THEN c.node[o[m]].next ELSE c.head
        /\ d.tail = IF c.node[o[m]].next = Null THEN c.node[o[m]].prev ELSE c.tail
    BY <1>2, <1>3, <1>10
  <2>4. d \in Cache(k)
    BY <1>10
  <2> HIDE DEF m, old
  <2>5. Lists(d, Gap(o, c.size, m))
    BY <2>1, <2>2, <2>3, <2>4, GapList
  <2> QED
    BY <2>5
<1>12. ASSUME NEW b \in Bucket PROVE PointsToNode(d, b)
  <2>1. CASE b = b0
    <3>1. d.map[b] = Null
      BY <2>1, <1>1, <1>10
    <3> QED
      BY <3>1, Zenon DEF PointsToNode
  <2>2. CASE b # b0
    <3>1. d.map[b] = c.map[b] /\ PointsToNode(c, b)
      BY <2>2, <1>1, <1>10
    <3>2. d.map[b] # Null => d.map[b] \in DOMAIN c.node \ {old}
      BY <2>2, <3>1 DEF PointsToNode
    <3> QED
      <4>1. ASSUME NEW x \in DOMAIN c.node \ {old} PROVE x \in DOMAIN d.node /\ d.node[x].path = c.node[x].path
        <5>1. x \in DOMAIN c.node /\ d.node = rest /\ x \in DOMAIN rest /\ rest[x] = cut[x]
          BY <1>6, <1>10
        <5> QED
          BY <5>1, <1>5, Zenon
      <4>2. CASE d.map[b] = Null
        BY <4>2, Zenon DEF PointsToNode
      <4>3. CASE d.map[b] # Null
        <5>1. d.map[b] \in DOMAIN d.node /\ d.node[d.map[b]].path = c.node[d.map[b]].path
          BY <4>1, <4>3, <3>2, Zenon
        <5>2. Hash[c.node[d.map[b]].path] = b
          BY <4>3, <3>1, Zenon DEF PointsToNode
        <5> QED
          BY <5>1, <5>2, Zenon DEF PointsToNode
      <4> QED
        BY <4>2, <4>3, Zenon
  <2> QED
    BY <2>1, <2>2, Zenon
<1>13. ASSUME NEW q \in Path PROVE Answer(d, q) \in {Answer(c, q), Null}
  <2>1. CASE Hash[q] = b0
    <3>1. d.map[Hash[q]] = Null
      BY <2>1, <1>1, <1>7, <1>10
    <3>2. ~ CacheHit(d, q)
      BY <3>1, Zenon DEF CacheHit
    <3> QED
      BY <3>2, Zenon DEF Answer
  <2>2. CASE Hash[q] # b0
    <3>1. d.map[Hash[q]] = c.map[Hash[q]] /\ PointsToNode(c, Hash[q])
      BY <2>2, <1>1, <1>7, <1>10
    <3>2. CASE c.map[Hash[q]] = Null
      BY <3>1, <3>2, SMTT(30) DEF Answer, CacheHit
    <3>3. CASE c.map[Hash[q]] # Null
      <4>1. c.map[Hash[q]] \in DOMAIN c.node \ {old}
        BY <2>2, <3>1, <3>3 DEF PointsToNode
      <4>2. d.node = rest /\ rest[c.map[Hash[q]]] = cut[c.map[Hash[q]]]
        BY <4>1, <1>6, <1>10
      <4>3. /\ d.node[d.map[Hash[q]]].path = c.node[c.map[Hash[q]]].path
            /\ d.node[d.map[Hash[q]]].server = c.node[c.map[Hash[q]]].server
        <5>1. /\ cut[c.map[Hash[q]]].path = c.node[c.map[Hash[q]]].path
              /\ cut[c.map[Hash[q]]].server = c.node[c.map[Hash[q]]].server
          BY <4>1, <1>5
        <5> QED
          BY <5>1, <3>1, <4>2, Zenon
      <4>4. CacheHit(d, q) <=> CacheHit(c, q)
        BY <3>1, <4>3, Zenon DEF CacheHit
      <4> QED
        BY <4>3, <4>4, Zenon DEF Answer
    <3> QED
      BY <3>2, <3>3, Zenon
  <2> QED
    BY <2>1, <2>2, Zenon
<1> QED
  BY <1>10, <1>11, <1>12, <1>13 DEF d

LEMMA AddToCacheIs ==
  ASSUME NEW k, NEW c, Sound(c, k), NEW p \in Path, NEW s \in 1..k
  PROVE  /\ Sound(AddToCache(c, p, s), k)
         /\ Answer(AddToCache(c, p, s), p) \in {s, Null}
         /\ \A q \in Path \ {p} : Answer(AddToCache(c, p, s), q) \in {Answer(c, q), Null}
<1> DEFINE a == Added(c, p, s)
<1>1. /\ a \in Cache(k) /\ a.size = c.size + 1
      /\ \E o : Lists(a, o)
      /\ \A b \in Bucket : PointsToNode(a, b)
      /\ Answer(a, p) = s
      /\ \A q \in Path \ {p} : Answer(a, q) \in {Answer(c, q), Null}
  BY AddedIs
<1>2. AddToCache(c, p, s) = IF a.size > Capacity THEN Evict(a) ELSE a
  BY Zenon DEF AddToCache, Added
<1> HIDE DEF a
<1>3. c.size \in 0..Capacity /\ Capacity \in Nat \ {0}
  BY CacheIs, NamesAssumption DEF Sound
<1>4. CASE a.size > Capacity
  <2>1. PICK o : Lists(a, o)
    BY <1>1
  <2>2. a.size > 1
    BY <1>1, <1>3, <1>4
  <2>3. /\ Evict(a) \in Cache(k)
        /\ Evict(a).size = a.size - 1
        /\ \E t : Lists(Evict(a), t)
        /\ \A b \in Bucket : PointsToNode(Evict(a), b)
        /\ \A q \in Path : Answer(Evict(a), q) \in {Answer(a, q), Null}
    BY <1>1, <2>1, <2>2, EvictIs
  <2>4. a.size - 1 <= Capacity
    BY <1>1, <1>3
  <2> QED
    BY <1>1, <1>2, <1>4, <2>3, <2>4 DEF Sound
<1>5. CASE ~(a.size > Capacity)
  <2>1. a.size <= Capacity
    BY <1>1, <1>3, <1>5
  <2> QED
    BY <1>1, <1>2, <1>5, <2>1 DEF Sound
<1> QED
  BY <1>4, <1>5

LEMMA CacheDeleteIs ==
  ASSUME NEW k, NEW c, Sound(c, k), NEW p \in Path
  PROVE  /\ Sound(CacheDelete(c, p), k)
         /\ Answer(CacheDelete(c, p), p) = Null
         /\ \A q \in Path \ {p} : Answer(CacheDelete(c, p), q) \in {Answer(c, q), Null}
<1>1. CASE ~ CacheHit(c, p)
  BY <1>1 DEF CacheDelete, Answer
<1>2. CASE CacheHit(c, p)
  <2> DEFINE m == c.size
             n == c.map[Hash[p]]
             past == Bypass(c.node, n)
             rest == Without(past, n)
             head == IF c.node[n].prev = Null THEN c.node[n].next ELSE c.head
             tail == IF c.node[n].next = Null THEN c.node[n].prev ELSE c.tail
             d == CacheDelete(c, p)
  <2>1. /\ c \in Cache(k) /\ c.head \in Link /\ c.tail \in Link /\ m \in 0..(Capacity + 1)
        /\ c.map \in [Bucket -> Link] /\ c.node \in Nodes(k) /\ Null \in Link
        /\ m <= Capacity /\ Capacity \in Nat
    BY CacheIs, NamesAssumption DEF Sound, Link
  <2>2. \A q \in Path : Hash[q] \in Bucket
    BY NamesAssumption
  <2>3. n \in DOMAIN c.node /\ c.node[n].path = p
    <3>1. n # Null /\ c.node[n].path = p
      BY <1>2 DEF CacheHit
    <3> QED
      BY <3>1, <2>2 DEF Sound, PointsToNode
  <2>4. PICK o : Lists(c, o)
    BY DEF Sound
  <2>5. PICK i \in 1..m : o[i] = n
    BY <2>1, <2>3, <2>4, ListIs
  <2>6. c.node[n].prev \in Link /\ c.node[n].next \in Link
    BY <2>1, <2>3, NodeIs
  <2>7. /\ past \in Nodes(k) /\ DOMAIN past = DOMAIN c.node
        /\ \A x \in DOMAIN c.node :
             /\ past[x].path = c.node[x].path /\ past[x].server = c.node[x].server
             /\ past[x].next = IF x = c.node[n].prev THEN c.node[n].next ELSE c.node[x].next
             /\ past[x].prev = IF x = c.node[n].next THEN c.node[n].prev ELSE c.node[x].prev
    BY <2>1, <2>3, BypassIs, SMTT(30)
  <2> HIDE DEF past
  <2>8. /\ rest \in Nodes(k) /\ DOMAIN rest = DOMAIN c.node \ {n}
        /\ \A x \in DOMAIN c.node \ {n} : rest[x] = past[x]
    <3>1. /\ rest \in Nodes(k) /\ DOMAIN rest = DOMAIN past \ {n}
          /\ \A x \in DOMAIN past \ {n} : rest[x] = past[x]
      <4>1. past \in Nodes(k)
        BY <2>7
      <4> HIDE DEF n
      <4>2. Without(past, n) \in Nodes(k)
        BY <4>1, WithoutIs
      <4>3. DOMAIN Without(past, n) = DOMAIN past \ {n}
        BY <4>1, WithoutIs
      <4>4. \A x \in DOMAIN past \ {n} : Without(past, n)[x] = past[x]
        BY <4>1, WithoutIs
      <4> QED
        BY <4>2, <4>3, <4>4
    <3> HIDE DEF rest
    <3> QED
      BY <2>7, <3>1
  <2> HIDE DEF rest
  <2>9. d = [c EXCEPT !.node = rest,
                      !.head = IF c.node[n].prev = Null THEN c.node[n].next ELSE @,
                      !.tail = IF c.node[n].next = Null THEN c.node[n].prev ELSE @,
                      !.map[Hash[p]] = Null,
                      !.size = @ - 1]
    BY <1>2, Zenon DEF CacheDelete, rest, past
  <2>10. m \in 1..(Capacity + 1) /\ m - 1 \in 0..(Capacity + 1) /\ m - 1 <= Capacity
    BY <2>1, <2>5
  <2>11. [c.map EXCEPT ![Hash[p]] = Null] \in [Bucket -> Link]
    BY <2>1
  <2>12. head \in Link /\ tail \in Link
    <3>1. head \in {c.head, c.node[n].next} /\ tail \in {c.tail, c.node[n].prev}
      OBVIOUS
    <3> HIDE DEF head, tail, n
    <3> QED
      BY <3>1, <2>1, <2>6
  <2>13. /\ d \in Cache(k) /\ d.node = rest /\ d.size = m - 1
         /\ d.head = head /\ d.tail = tail /\ d.map = [c.map EXCEPT ![Hash[p]] = Null]
    <3> HIDE DEF head, tail
    <3>1. c \in Cache(k) /\ rest \in Nodes(k)
      BY <2>1, <2>8
    <3>2. d = [c EXCEPT !.node = rest, !.head = head, !.tail = tail,
                        !.map[Hash[p]] = Null, !.size = @ - 1]
      BY <2>9 DEF head, tail
    <3> HIDE DEF d
    <3> QED
      BY <3>1, <3>2, <2>10, <2>11, <2>12 DEF Cache
  <2> HIDE DEF d
  <2>14. Lists(d, Gap(o, c.size, i))
    <3>1. \A x \in DOMAIN c.node \ {o[i]} :
             /\ d.node[x].next = IF x = c.node[o[i]].prev THEN c.node[o[i]].next ELSE c.node[x].next
             /\ d.node[x].prev = IF x = c.node[o[i]].next THEN c.node[o[i]].prev ELSE c.node[x].prev
      <4>1. ASSUME NEW x \in DOMAIN c.node \ {n}
            PROVE  /\ d.node[x].next = IF x = c.node[n].prev THEN c.node[n].next ELSE c.node[x].next
                   /\ d.node[x].prev = IF x = c.node[n].next THEN c.node[n].prev ELSE c.node[x].prev
        <5>1. x \in DOMAIN c.node /\ d.node = rest /\ rest[x] = past[x]
          BY <2>8, <2>13
        <5>2. /\ past[x].next = IF x = c.node[n].prev THEN c.node[n].next ELSE c.node[x].next
              /\ past[x].prev = IF x = c.node[n].next THEN c.node[n].prev ELSE c.node[x].prev
          BY <5>1, <2>7, Zenon
        <5> QED
          BY <5>1, <5>2, Zenon
      <4> HIDE DEF n
      <4> QED
        BY <4>1, <2>5, Zenon
    <3>2. d.size = c.size - 1 /\ DOMAIN d.node = DOMAIN c.node \ {o[i]} /\ i \in 1..c.size
      BY <2>5, <2>8, <2>13
    <3>3. /\ d.head = IF c.node[o[i]].prev = Null THEN c.node[o[i]].next ELSE c.head
          /\ d.tail = IF c.node[o[i]].next = Null THEN c.node[o[i]].prev ELSE c.tail
      BY <2>5, <2>13
    <3>4. d \in Cache(k)
      BY <2>13
    <3> HIDE DEF m, n, head, tail
    <3> QED
      BY <3>1, <3>2, <3>3, <3>4, <2>1, <2>4, GapList, SMTT(30)
  <2>15. d.map[Hash[p]] = Null
    BY <2>1, <2>2, <2>13
  <2>16. ASSUME NEW b \in Bucket, b # Hash[p]
         PROVE  /\ d.map[b] = c.map[b]
                /\ c.map[b] # Null => /\ c.map[b] \in DOMAIN c.node \ {n}
                                             /\ Hash[c.node[c.map[b]].path] = b
    <3>1. d.map[b] = c.map[b]
      BY <2>1, <2>13, <2>16
    <3>2. PointsToNode(c, b)
      BY DEF Sound
    <3> QED
      BY <3>1, <3>2, <2>3, <2>16 DEF PointsToNode
  <2>17. \A b \in Bucket : PointsToNode(d, b)
    <3> SUFFICES ASSUME NEW b \in Bucket PROVE PointsToNode(d, b)
      BY Zenon
    <3>1. CASE b = Hash[p]
      BY <3>1, <2>15, Zenon DEF PointsToNode
    <3>2. CASE b # Hash[p]
      <4>1. d.map[b] = c.map[b]
        BY <3>2, <2>16, Zenon
      <4>2. CASE c.map[b] = Null
        BY <4>1, <4>2, Zenon DEF PointsToNode
      <4>3. CASE c.map[b] # Null
        <5>1. c.map[b] \in DOMAIN c.node \ {n} /\ Hash[c.node[c.map[b]].path] = b
          BY <3>2, <4>3, <2>16, Zenon
        <5>2. d.node = rest /\ c.map[b] \in DOMAIN rest /\ rest[c.map[b]] = past[c.map[b]]
          BY <5>1, <2>8, <2>13
        <5>3. past[c.map[b]].path = c.node[c.map[b]].path
          BY <5>1, <2>7
        <5> QED
          BY <4>1, <5>1, <5>2, <5>3, Zenon DEF PointsToNode
      <4> QED
        BY <4>2, <4>3, Zenon
    <3> QED
      BY <3>1, <3>2, Zenon
  <2>18. ASSUME NEW q \in Path PROVE Answer(d, q) \in {Answer(c, q), Null}
    <3>1. CASE Hash[q] = Hash[p]
      <4>1. ~ CacheHit(d, q)
        BY <3>1, <2>15 DEF CacheHit
      <4> QED
        BY <4>1 DEF Answer
    <3>2. CASE Hash[q] # Hash[p]
      <4>1. Hash[q] \in Bucket /\ d.map[Hash[q]] = c.map[Hash[q]]
        BY <3>2, <2>2, <2>16, Zenon
      <4>2. CASE c.map[Hash[q]] = Null
        <5>1. ~ CacheHit(d, q)
          BY <4>1, <4>2, Zenon DEF CacheHit
        <5> QED
          BY <5>1, Zenon DEF Answer
      <4>3. CASE c.map[Hash[q]] # Null
        <5>1. c.map[Hash[q]] \in DOMAIN c.node \ {n}
          BY <3>2, <4>1, <4>3, <2>16, Zenon
        <5>2. d.node = rest /\ rest[c.map[Hash[q]]] = past[c.map[Hash[q]]]
          BY <5>1, <2>8, <2>13
        <5>3. /\ past[c.map[Hash[q]]].path = c.node[c.map[Hash[q]]].path
              /\ past[c.map[Hash[q]]].server = c.node[c.map[Hash[q]]].server
          BY <5>1, <2>7
        <5>4. /\ d.node[d.map[Hash[q]]].path = c.node[c.map[Hash[q]]].path
              /\ d.node[d.map[Hash[q]]].server = c.node[c.map[Hash[q]]].server
          BY <4>1, <5>2, <5>3, Zenon
        <5>5. CacheHit(d, q) <=> CacheHit(c, q)
          BY <4>1, <5>4, Zenon DEF CacheHit
        <5> QED
          BY <5>4, <5>5, Zenon DEF Answer
      <4> QED
        BY <4>2, <4>3, Zenon
    <3> QED
      BY <3>1, <3>2, Zenon
  <2>19. Answer(d, p) = Null
    BY <2>15 DEF Answer, CacheHit
  <2>20. Sound(d, k)
    BY <2>10, <2>13, <2>14, <2>17 DEF Sound
  <2> QED
    BY <2>18, <2>19, <2>20 DEF d
<1> QED
  BY <1>1, <1>2

LEMMA MoveToHeadIs ==
  ASSUME NEW k, NEW c, Sound(c, k), NEW n \in DOMAIN c.node
  PROVE  /\ Sound(MoveToHead(c, n), k)
         /\ \A q \in Path : Answer(MoveToHead(c, n), q) = Answer(c, q)
<1>1. CASE n = c.head
  BY <1>1 DEF MoveToHead
<1>2. CASE n # c.head
  <2> DEFINE d == MoveToHead(c, n)
  <2>1. c \in Cache(k) /\ c.size \in Nat
    BY CacheIs DEF Sound
  <2>2. PICK o : Lists(c, o)
    BY DEF Sound
  <2>3. PICK i \in 1..c.size : o[i] = n
    BY <2>1, <2>2, ListIs
  <2>4. i \in 2..c.size
    BY <1>2, <2>1, <2>2, <2>3, ListIs
  <2>5. /\ d \in Cache(k) /\ Lists(d, First(o, c.size, i)) /\ DOMAIN d.node = DOMAIN c.node
        /\ \A x \in DOMAIN c.node : d.node[x].path = c.node[x].path /\ d.node[x].server = c.node[x].server
        /\ d.map = c.map /\ d.size = c.size
    BY <2>1, <2>2, <2>3, <2>4, MovedList
  <2> HIDE DEF d
  <2>6. \A b \in Bucket : PointsToNode(d, b)
    BY <2>5 DEF Sound, PointsToNode
  <2>7. ASSUME NEW q \in Path PROVE Answer(d, q) = Answer(c, q)
    <3>1. Hash[q] \in Bucket
      BY NamesAssumption
    <3>2. c.map[Hash[q]] # Null => c.map[Hash[q]] \in DOMAIN c.node
      BY <3>1 DEF Sound, PointsToNode
    <3> QED
      BY <3>2, <2>5 DEF Answer, CacheHit
  <2> QED
    BY <2>5, <2>6, <2>7 DEF Sound, d
<1> QED
  BY <1>1, <1>2

(* Several entries.                                                        *)
LEMMA AddAllIs ==
  ASSUME NEW k \in Nat, NEW c, Sound(c, k), NEW paths \in Seq(Path), NEW s \in 1..k
  PROVE  /\ Sound(AddAll(c, paths, s), k)
         /\ \A q \in Path :
              Answer(AddAll(c, paths, s), q) \in
                {IF \E i \in DOMAIN paths : paths[i] = q THEN s ELSE Answer(c, q), Null}
<1> DEFINE N == Len(paths)
           Caches == {d \in Cache(k) : Sound(d, k)}
           F == [n \in 1..N |-> [d \in Caches |-> AddToCache(d, paths[n], s)]]
           after == CHOOSE r : r = [n \in 0..N |-> IF n = 0 THEN c ELSE AddToCache(r[n - 1], paths[n], s)]
<1>1. N \in Nat /\ \A n \in 1..N : paths[n] \in Path
  OBVIOUS
<1>2. \A d : Sound(d, k) <=> d \in Caches
  BY DEF Sound
<1>3. \A d \in Caches, n \in 1..N : AddToCache(d, paths[n], s) \in Caches
  BY <1>1, <1>2, AddToCacheIs
<1> HIDE DEF Caches
<1>4. F \in [1..N -> [Caches -> Caches]]
  BY <1>3
<1>5. c \in Caches
  BY <1>2
<1>6. PICK r : Run(r, N, Caches, c, F)
  <2>1. N \in Nat
    BY <1>1
  <2> HIDE DEF F, N
  <2> QED
    BY <2>1, <1>4, <1>5, Iteration
<1>7. r = [n \in 0..N |-> IF n = 0 THEN c ELSE AddToCache(r[n - 1], paths[n], s)]
  <2>1. \A n \in 1..N : n - 1 \in 0..N /\ r[n - 1] \in Caches
    BY <1>1, <1>6 DEF Run
  <2>2. \A n \in 0..N : r[n] = IF n = 0 THEN c ELSE AddToCache(r[n - 1], paths[n], s)
    <3>1. \A n \in 1..N : n \in 0..N /\ n # 0 /\ F[n][r[n - 1]] = AddToCache(r[n - 1], paths[n], s)
      BY <2>1, <1>1
    <3>2. \A n \in 0..N : n = 0 \/ n \in 1..N
      BY <1>1
    <3>3. r[0] = c /\ \A n \in 1..N : r[n] = F[n][r[n - 1]]
      BY <1>6 DEF Run
    <3> HIDE DEF F, N
    <3> QED
      BY <3>1, <3>2, <3>3
  <2>3. r = [n \in 0..N |-> r[n]]
    BY <1>6 DEF Run
  <2> HIDE DEF N
  <2> QED
    BY <2>2, <2>3
<1>8. after = [n \in 0..N |-> IF n = 0 THEN c ELSE AddToCache(after[n - 1], paths[n], s)]
  BY <1>7, Zenon
<1>9. AddAll(c, paths, s) = after[N]
  BY Zenon DEF AddAll, after, N
<1> HIDE DEF after
<1>10. after[0] = c /\ \A n \in 1..N : after[n] = AddToCache(after[n - 1], paths[n], s)
  BY <1>1, <1>8
<1> DEFINE May(n, q) == {IF \E i \in 1..n : paths[i] = q THEN s ELSE Answer(c, q), Null}
           Good == {n \in 0..N : Sound(after[n], k) /\ \A q \in Path : Answer(after[n], q) \in May(n, q)}
<1>11. 0 \in Good
  BY <1>1, <1>10
<1>12. ASSUME NEW n \in 0..(N - 1), n \in Good PROVE n + 1 \in Good
  <2> DEFINE d == after[n]
             p == paths[n + 1]
  <2>1. n + 1 \in 1..N /\ (n + 1) - 1 = n /\ p \in Path
    BY <1>1
  <2>2. after[n + 1] = AddToCache(d, p, s)
    BY <2>1, <1>10
  <2>3. Sound(d, k) /\ \A q \in Path : Answer(d, q) \in May(n, q)
    BY <1>12
  <2> HIDE DEF d, p, May
  <2>4. /\ Sound(after[n + 1], k)
        /\ Answer(after[n + 1], p) \in {s, Null}
        /\ \A q \in Path \ {p} : Answer(after[n + 1], q) \in {Answer(d, q), Null}
    BY <2>1, <2>2, <2>3, AddToCacheIs
  <2>5. ASSUME NEW q \in Path PROVE Answer(after[n + 1], q) \in May(n + 1, q)
    <3>1. CASE q = p
      <4>1. \E i \in 1..(n + 1) : paths[i] = q
        BY <2>1, <3>1, n + 1 \in 1..(n + 1) DEF p
      <4> QED
        BY <2>4, <3>1, <4>1 DEF May
    <3>2. CASE q # p
      <4>1. (\E i \in 1..n : paths[i] = q) <=> \E i \in 1..(n + 1) : paths[i] = q
        BY <3>2, \A i \in 1..(n + 1) : i = n + 1 \/ i \in 1..n DEF p
      <4> QED
        BY <2>3, <2>4, <3>2, <4>1 DEF May
    <3> QED
      BY <3>1, <3>2
  <2> QED
    BY <2>1, <2>4, <2>5
<1>13. 0..N \subseteq Good
  <2> HIDE DEF Good
  <2> QED
    BY <1>1, <1>11, <1>12, StepByStep
<1>14. Sound(after[N], k) /\ \A q \in Path : Answer(after[N], q) \in May(N, q)
  BY <1>1, <1>13
<1> QED
  BY <1>9, <1>14

-----------------------------------------------------------------------------
(* The chains of the hash map.                                             *)

Entry(k) == [path : Path, server : 1..k]
Map(k) == [Bucket -> Seq(Entry(k))]

(* f[n] are the entries for p among the last n of a chain.                 *)
IsAmong(f, chain, p) ==
  /\ f[0] = <<>>
  /\ \A n \in 1..Len(chain) :
       f[n] = IF chain[Len(chain) + 1 - n].path = p THEN <<chain[Len(chain) + 1 - n]>> \o f[n - 1]
                                                    ELSE f[n - 1]

LEMMA InChainIs ==
  ASSUME NEW S, NEW chain \in Seq(S), NEW p
  PROVE  \E f \in [0..Len(chain) -> Seq({e \in S : e.path = p})] :
           IsAmong(f, chain, p) /\ InChain(chain, p) = f[Len(chain)]
<1> DEFINE N == Len(chain)
           T == {e \in S : e.path = p}
           X == Seq(T)
           Step(n, t) == IF chain[N + 1 - n].path = p THEN <<chain[N + 1 - n]>> \o t ELSE t
           F == [n \in 1..N |-> [t \in X |-> Step(n, t)]]
           among == CHOOSE r : r = [n \in 0..N |-> IF n = 0 THEN <<>> ELSE Step(n, r[n - 1])]
<1>1. N \in Nat /\ \A n \in 1..N : N + 1 - n \in 1..N /\ chain[N + 1 - n] \in S
  OBVIOUS
<1>2. \A n \in 1..N, t \in X : Step(n, t) \in X
  <2> TAKE n \in 1..N, t \in X
  <2>1. CASE chain[N + 1 - n].path = p
    <3>1. chain[N + 1 - n] \in T
      BY <1>1, <2>1
    <3>2. <<chain[N + 1 - n]>> \in Seq(T)
      BY <3>1
    <3> HIDE DEF T
    <3> QED
      BY <2>1, <3>2
  <2> QED
    BY <2>1
<1> HIDE DEF T, X, Step
<1>3. F \in [1..N -> [X -> X]]
  BY <1>2
<1>4. <<>> \in X
  BY DEF X
<1>5. PICK r : Run(r, N, X, <<>>, F)
  <2>1. N \in Nat
    BY <1>1
  <2> HIDE DEF F, N
  <2> QED
    BY <2>1, <1>3, <1>4, Iteration
<1>6. r = [n \in 0..N |-> IF n = 0 THEN <<>> ELSE Step(n, r[n - 1])]
  <2>1. \A n \in 1..N : n - 1 \in 0..N /\ r[n - 1] \in X
    BY <1>1, <1>5, SMTT(30) DEF Run
  <2>2. \A n \in 0..N : r[n] = IF n = 0 THEN <<>> ELSE Step(n, r[n - 1])
    <3>1. \A n \in 1..N : n \in 0..N /\ n # 0 /\ F[n][r[n - 1]] = Step(n, r[n - 1])
      BY <2>1, <1>1
    <3>2. \A n \in 0..N : n = 0 \/ n \in 1..N
      BY <1>1
    <3>3. r[0] = <<>> /\ \A n \in 1..N : r[n] = F[n][r[n - 1]]
      BY <1>5 DEF Run
    <3> HIDE DEF F, N
    <3> QED
      BY <3>1, <3>2, <3>3
  <2>3. r = [n \in 0..N |-> r[n]]
    BY <1>5 DEF Run
  <2> HIDE DEF N
  <2> QED
    BY <2>2, <2>3
<1>7. among = [n \in 0..N |-> IF n = 0 THEN <<>> ELSE Step(n, among[n - 1])]
  BY <1>6, Zenon
<1>8. InChain(chain, p) = among[N]
  BY Zenon DEF InChain, among, N, Step
<1> HIDE DEF among
<1>9. among[0] = <<>> /\ \A n \in 1..N : among[n] = Step(n, among[n - 1])
  BY <1>1, <1>7
<1>10. among \in [0..N -> X]
  <2> DEFINE Good == {n \in 0..N : among[n] \in X}
  <2>1. 0 \in Good
    BY <1>1, <1>4, <1>9
  <2>2. \A n \in 0..(N - 1) : n \in Good => n + 1 \in Good
    <3> TAKE n \in 0..(N - 1)
    <3>1. n + 1 \in 1..N /\ (n + 1) - 1 = n
      BY <1>1
    <3> QED
      BY <3>1, <1>2, <1>9
  <2>3. 0..N \subseteq Good
    <3> HIDE DEF Good
    <3> QED
      BY <1>1, <2>1, <2>2, StepByStep
  <2>4. \A n \in 0..N : among[n] \in X
    BY <2>3
  <2>5. among = [n \in 0..N |-> among[n]]
    BY <1>7
  <2> QED
    BY <2>4, <2>5
<1>11. IsAmong(among, chain, p)
  BY <1>9 DEF IsAmong, Step
<1> QED
  BY <1>8, <1>10, <1>11 DEF X, T


(* The last m entries of two chains are the same.                          *)
EndAlike(chain, other, m) ==
  /\ m \in Nat /\ m <= Len(chain) /\ m <= Len(other)
  /\ \A n \in 1..m : chain[Len(chain) + 1 - n] = other[Len(other) + 1 - n]

LEMMA AmongAlike ==
  ASSUME NEW S, NEW chain \in Seq(S), NEW other \in Seq(S), NEW p, NEW f, NEW g,
         IsAmong(f, chain, p), IsAmong(g, other, p),
         NEW m, EndAlike(chain, other, m)
  PROVE  f[m] = g[m]
<1> DEFINE Good == {n \in 0..m : f[n] = g[n]}
<1>0. /\ m \in Nat /\ m <= Len(chain) /\ m <= Len(other)
      /\ \A n \in 1..m : chain[Len(chain) + 1 - n] = other[Len(other) + 1 - n]
  BY DEF EndAlike
<1>1. 0 \in Good
  BY <1>0 DEF IsAmong
<1>2. ASSUME NEW n \in 0..(m - 1), n \in Good PROVE n + 1 \in Good
  <2>1. n + 1 \in 1..m /\ n + 1 \in 1..Len(chain) /\ n + 1 \in 1..Len(other) /\ (n + 1) - 1 = n
    BY <1>0, LenProperties
  <2>2. chain[Len(chain) + 1 - (n + 1)] = other[Len(other) + 1 - (n + 1)] /\ f[n] = g[n]
    BY <2>1, <1>0, <1>2
  <2>3. f[n + 1] = g[n + 1]
    BY <2>1, <2>2 DEF IsAmong
  <2> QED
    BY <2>1, <2>3
<1>3. 0..m \subseteq Good
  <2> HIDE DEF Good
  <2> QED
    BY <1>0, <1>1, <1>2, StepByStep
<1> QED
  BY <1>0, <1>3

LEMMA AmongIs ==
  ASSUME NEW S, NEW chain \in Seq(S), NEW p, NEW f, IsAmong(f, chain, p)
  PROVE  InChain(chain, p) = f[Len(chain)]
<1>1. PICK g : IsAmong(g, chain, p) /\ InChain(chain, p) = g[Len(chain)]
  BY InChainIs
<1>2. EndAlike(chain, chain, Len(chain))
  BY LenProperties DEF EndAlike
<1>3. f[Len(chain)] = g[Len(chain)]
  BY <1>1, <1>2, AmongAlike
<1> QED
  BY <1>1, <1>3

LEMMA EntryInFront ==
  ASSUME NEW S, NEW chain \in Seq(S), NEW e \in S, NEW p
  PROVE  InChain(<<e>> \o chain, p) =
           IF e.path = p THEN <<e>> \o InChain(chain, p) ELSE InChain(chain, p)
<1> DEFINE longer == <<e>> \o chain
           N == Len(chain)
<1>1. /\ longer \in Seq(S) /\ N \in Nat /\ Len(longer) = N + 1 /\ longer[1] = e
      /\ \A i \in 1..N : longer[i + 1] = chain[i]
  BY LenProperties, ConcatProperties
<1> HIDE DEF longer
<1>2. PICK f : IsAmong(f, longer, p) /\ InChain(longer, p) = f[N + 1]
  BY <1>1, InChainIs
<1>3. PICK g : IsAmong(g, chain, p) /\ InChain(chain, p) = g[N]
  BY InChainIs
<1>4. \A n \in 1..N : longer[Len(longer) + 1 - n] = chain[N + 1 - n]
  <2> TAKE n \in 1..N
  <2>1. N + 1 - n \in 1..N /\ (N + 1 - n) + 1 = N + 1 + 1 - n
    BY <1>1
  <2> QED
    BY <2>1, <1>1
<1>5. f[N] = g[N]
  <2>1. EndAlike(longer, chain, N)
    BY <1>1, <1>4 DEF EndAlike
  <2> QED
    BY <2>1, <1>1, <1>2, <1>3, AmongAlike
<1>6. f[N + 1] = IF e.path = p THEN <<e>> \o f[N] ELSE f[N]
  <2>1. N + 1 \in 1..(N + 1) /\ N + 1 + 1 - (N + 1) = 1 /\ (N + 1) - 1 = N
    BY <1>1
  <2> QED
    BY <2>1, <1>1, <1>2 DEF IsAmong
<1> QED
  BY <1>2, <1>3, <1>5, <1>6 DEF longer

LEMMA NoneInChain ==
  ASSUME NEW S, NEW chain \in Seq(S), NEW p, \A i \in 1..Len(chain) : chain[i].path # p
  PROVE  InChain(chain, p) = <<>>
<1> DEFINE f == [n \in 0..Len(chain) |-> <<>>]
<1>1. IsAmong(f, chain, p)
  <2>1. Len(chain) \in Nat /\ \A n \in 1..Len(chain) : Len(chain) + 1 - n \in 1..Len(chain)
    BY LenProperties
  <2> QED
    BY <2>1 DEF IsAmong
<1>2. f[Len(chain)] = <<>>
  BY LenProperties
<1> HIDE DEF f
<1> QED
  BY <1>1, <1>2, AmongIs

(* The entry in place i, the first for its path, is taken from the chain.  *)
IsRest(rest, chain, i) ==
  /\ i \in 1..Len(chain)
  /\ Len(rest) = Len(chain) - 1
  /\ \A j \in 1..(Len(chain) - 1) : rest[j] = IF j < i THEN chain[j] ELSE chain[j + 1]
  /\ \A j \in 1..(i - 1) : chain[j].path # chain[i].path

LEMMA RemovedIs ==
  ASSUME NEW S, NEW chain \in Seq(S), NEW rest \in Seq(S), NEW i, IsRest(rest, chain, i), NEW p
  PROVE  InChain(chain, p) = IF chain[i].path = p THEN <<chain[i]>> \o InChain(rest, p)
                                                         ELSE InChain(rest, p)
<1> DEFINE N == Len(chain)
           K == N - i
<1>0. /\ i \in 1..Len(chain)
      /\ Len(rest) = Len(chain) - 1
      /\ \A j \in 1..(Len(chain) - 1) : rest[j] = IF j < i THEN chain[j] ELSE chain[j + 1]
      /\ \A j \in 1..(i - 1) : chain[j].path # chain[i].path
  BY DEF IsRest
<1>1. N \in Nat /\ K \in Nat /\ K <= N - 1 /\ i = N - K /\ K + 1 \in 1..N /\ N - 1 \in Nat
  BY <1>0, LenProperties
<1>2. PICK f : IsAmong(f, chain, p) /\ InChain(chain, p) = f[N]
  BY InChainIs
<1>3. PICK g : IsAmong(g, rest, p) /\ InChain(rest, p) = g[N - 1]
  BY InChainIs, SMTT(30)
<1> DEFINE With(t) == IF chain[i].path = p THEN <<chain[i]>> \o t ELSE t
<1>4. f[K] = g[K]
  <2>1. ASSUME NEW n \in 1..K PROVE chain[Len(chain) + 1 - n] = rest[Len(rest) + 1 - n]
    <3>1. N - n \in 1..(N - 1) /\ ~(N - n < i) /\ Len(rest) + 1 - n = N - n
          /\ (N - n) + 1 = N + 1 - n
      BY <1>0, <1>1
    <3> QED
      BY <1>0, <3>1
  <2>2. K <= Len(chain) /\ K <= Len(rest)
    BY <1>0, <1>1
  <2>3. EndAlike(chain, rest, K)
    BY <1>0, <2>1, <2>2, <1>1 DEF EndAlike
  <2> QED
    BY <1>2, <1>3, <2>3, AmongAlike
<1>5. f[K + 1] = With(g[K])
  <2>1. Len(chain) + 1 - (K + 1) = i /\ (K + 1) - 1 = K
    BY <1>0, <1>1
  <2> QED
    BY <2>1, <1>1, <1>2, <1>4 DEF IsAmong
<1> DEFINE L == N - 1 - K
           Good == {n \in 0..L : f[K + n + 1] = With(g[K + n])}
<1>6. L \in Nat /\ 0 \in Good
  BY <1>0, <1>1, <1>5
<1>7. ASSUME NEW n \in 0..(L - 1), n \in Good PROVE n + 1 \in Good
  <2> DEFINE a == K + (n + 1) + 1
             e == chain[N + 1 - a]
  <2>1. /\ a \in 1..N /\ a - 1 = K + n + 1 /\ a - 1 \in 1..(N - 1) /\ (a - 1) - 1 = K + n
        /\ N + 1 - a \in 1..(i - 1) /\ N + 1 - a \in 1..(N - 1) /\ N + 1 - a < i
        /\ Len(rest) + 1 - (a - 1) = N + 1 - a /\ n + 1 \in 0..L /\ K + (n + 1) = a - 1
    <3>1. i \in Nat /\ n \in Nat /\ n < N - 1 - (N - i) /\ 0 <= n /\ 1 <= i /\ i <= N /\ N \in Nat
      BY <1>0, <1>1
    <3>2. Len(rest) = N - 1
      BY <1>0
    <3> HIDE DEF N
    <3>3. a = N - i + n + 2 /\ L = i - 1
      BY <1>0, <3>1
    <3> HIDE DEF a, L
    <3> QED
      BY <3>1, <3>2, <3>3
  <2>2. e.path # chain[i].path /\ rest[N + 1 - a] = e
    BY <1>0, <2>1
  <2>3. f[a] = IF e.path = p THEN <<e>> \o f[a - 1] ELSE f[a - 1]
    BY <2>1, <1>2 DEF IsAmong
  <2>4. g[a - 1] = IF e.path = p THEN <<e>> \o g[K + n] ELSE g[K + n]
    <3>1. a - 1 \in 1..Len(rest) /\ rest[Len(rest) + 1 - (a - 1)] = e
      BY <1>0, <2>1, <2>2
    <3> HIDE DEF a, e
    <3>2. g[a - 1] = IF e.path = p THEN <<e>> \o g[(a - 1) - 1] ELSE g[(a - 1) - 1]
      BY <3>1, <1>3 DEF IsAmong
    <3> QED
      BY <3>2, <2>1
  <2>5. f[a - 1] = With(g[K + n])
    BY <2>1, <1>7
  <2> HIDE DEF e
  <2>6. f[a] = With(g[a - 1])
    BY <2>2, <2>3, <2>4, <2>5
  <2> QED
    BY <2>1, <2>6
<1>8. f[N] = With(g[N - 1])
  <2>1. 0..L \subseteq Good
    <3> HIDE DEF Good, L
    <3> QED
      BY <1>6, <1>7, StepByStep
  <2>2. L \in Good /\ K + L + 1 = N /\ K + L = N - 1
    <3>1. L \in Good
      <4> HIDE DEF Good, L
      <4> QED
        BY <2>1, <1>6
    <3>2. K + L + 1 = N /\ K + L = N - 1
      BY <1>0, <1>1
    <3> QED
      BY <3>1, <3>2
  <2> QED
    BY <2>2
<1> QED
  BY <1>2, <1>3, <1>8

-----------------------------------------------------------------------------
(* What the operations on the hash map keep and change.                    *)

InFront(s, t) == <<s>> \o t

Servers(h, p) == [i \in DOMAIN OwnersIn(h, p) |-> OwnersIn(h, p)[i].server]

LEMMA OwnersAre ==
  ASSUME NEW k \in Nat, NEW h \in Map(k), NEW p \in Path
  PROVE  /\ OwnersIn(h, p) \in Seq(Entry(k))
         /\ Servers(h, p) \in Seq(1..k)
         /\ Len(Servers(h, p)) = Len(OwnersIn(h, p))
         /\ \A i \in 1..Len(Servers(h, p)) : Servers(h, p)[i] = OwnersIn(h, p)[i].server
<1> DEFINE owners == OwnersIn(h, p)
<1>1. h[Hash[p]] \in Seq(Entry(k))
  BY NamesAssumption DEF Map
<1>2. owners \in Seq({e \in Entry(k) : e.path = p})
  <2>1. PICK f \in [0..Len(h[Hash[p]]) -> Seq({e \in Entry(k) : e.path = p})] : owners = f[Len(h[Hash[p]])]
    BY <1>1, InChainIs DEF OwnersIn
  <2>2. Len(h[Hash[p]]) \in 0..Len(h[Hash[p]])
    BY <1>1, LenProperties
  <2> HIDE DEF owners
  <2> QED
    BY <2>1, <2>2
<1> HIDE DEF owners
<1>3. owners \in Seq(Entry(k))
  BY <1>2, SeqMonotonic, {e \in Entry(k) : e.path = p} \subseteq Entry(k)
<1>4. Len(owners) \in Nat /\ DOMAIN owners = 1..Len(owners) /\ \A i \in 1..Len(owners) : owners[i].server \in 1..k
  <2>1. Len(owners) \in Nat /\ DOMAIN owners = 1..Len(owners) /\ \A i \in 1..Len(owners) : owners[i] \in Entry(k)
    BY <1>3, LenProperties, ElementOfSeq
  <2> QED
    BY <2>1 DEF Entry
<1>5. Servers(h, p) = [i \in 1..Len(owners) |-> owners[i].server]
  BY <1>4 DEF Servers, owners
<1>6. Servers(h, p) \in [1..Len(owners) -> 1..k]
  BY <1>4, <1>5
<1>7. Servers(h, p) \in Seq(1..k) /\ Len(Servers(h, p)) = Len(owners)
  BY <1>4, <1>6
<1> QED
  BY <1>3, <1>5, <1>7 DEF owners

LEMMA SearchIs ==
  ASSUME NEW k \in Nat, NEW h \in Map(k), NEW p \in Path
  PROVE  /\ HashmapSearch(h, p) = IF Servers(h, p) = <<>> THEN Null ELSE Head(Servers(h, p))
         /\ HashmapSearch(h, p) # Null => HashmapSearch(h, p) \in 1..k
<1>1. /\ OwnersIn(h, p) \in Seq(Entry(k)) /\ Servers(h, p) \in Seq(1..k)
      /\ Len(Servers(h, p)) = Len(OwnersIn(h, p))
      /\ \A i \in 1..Len(Servers(h, p)) : Servers(h, p)[i] = OwnersIn(h, p)[i].server
  BY OwnersAre
<1>2. Servers(h, p) = <<>> <=> OwnersIn(h, p) = <<>>
  BY <1>1, EmptySeq
<1>3. ASSUME Servers(h, p) # <<>>
      PROVE  /\ Head(Servers(h, p)) = Head(OwnersIn(h, p)).server
             /\ Head(Servers(h, p)) \in 1..k
  <2>1. 1 \in 1..Len(Servers(h, p))
    BY <1>1, <1>3, EmptySeq
  <2>2. Head(Servers(h, p)) = Servers(h, p)[1] /\ Head(OwnersIn(h, p)) = OwnersIn(h, p)[1]
    BY DEF Head
  <2> QED
    BY <2>1, <2>2, <1>1, <1>3, HeadTailProperties
<1> QED
  BY <1>2, <1>3 DEF HashmapSearch

LEMMA InsertIs ==
  ASSUME NEW k \in Nat, NEW h \in Map(k), NEW p \in Path, NEW s \in 1..k
  PROVE  /\ HashmapInsert(h, p, s) \in Map(k)
         /\ Servers(HashmapInsert(h, p, s), p) = InFront(s, Servers(h, p))
         /\ \A q \in Path \ {p} : Servers(HashmapInsert(h, p, s), q) = Servers(h, q)
<1> DEFINE e == [path |-> p, server |-> s]
           g == HashmapInsert(h, p, s)
           b == Hash[p]
<1>1. e \in Entry(k) /\ e.path = p /\ e.server = s
  BY DEF Entry
<1>2. b \in Bucket /\ h \in [Bucket -> Seq(Entry(k))]
  BY NamesAssumption DEF Map
<1>3. g = [h EXCEPT ![b] = <<e>> \o h[b]]
  BY DEF HashmapInsert
<1> HIDE DEF e, g
<1>4. h[b] \in Seq(Entry(k)) /\ <<e>> \in Seq(Entry(k)) /\ <<e>> \o h[b] \in Seq(Entry(k))
  BY <1>1, <1>2, ConcatProperties
<1>5. g \in Map(k) /\ g[b] = <<e>> \o h[b] /\ \A x \in Bucket \ {b} : g[x] = h[x]
  BY <1>2, <1>3, <1>4 DEF Map
<1>6. ASSUME NEW q \in Path \ {p} PROVE Servers(g, q) = Servers(h, q)
  <2>1. OwnersIn(g, q) = OwnersIn(h, q)
    <3>1. CASE Hash[q] = b
      <4>1. InChain(<<e>> \o h[b], q) = InChain(h[b], q)
        BY <1>1, <1>4, EntryInFront
      <4> QED
        BY <4>1, <3>1, <1>5 DEF OwnersIn
    <3>2. CASE Hash[q] # b
      BY <3>2, <1>5, NamesAssumption DEF OwnersIn
    <3> QED
      BY <3>1, <3>2
  <2> QED
    BY <2>1 DEF Servers
<1>7. Servers(g, p) = <<s>> \o Servers(h, p)
  <2> DEFINE old == OwnersIn(h, p)
             new == OwnersIn(g, p)
  <2>1. new = <<e>> \o old
    <3>1. InChain(<<e>> \o h[b], p) = <<e>> \o InChain(h[b], p)
      BY <1>1, <1>4, EntryInFront, ZenonT(40)
    <3> QED
      BY <3>1, <1>5 DEF OwnersIn
  <2>2. /\ old \in Seq(Entry(k)) /\ Servers(h, p) \in Seq(1..k) /\ Len(Servers(h, p)) = Len(old)
        /\ \A i \in 1..Len(Servers(h, p)) : Servers(h, p)[i] = old[i].server
    BY OwnersAre
  <2>3. /\ Servers(g, p) \in Seq(1..k) /\ Len(Servers(g, p)) = Len(new)
        /\ \A i \in 1..Len(Servers(g, p)) : Servers(g, p)[i] = new[i].server
    BY <1>5, OwnersAre
  <2> HIDE DEF old, new
  <2>4. Len(new) = Len(old) + 1 /\ new[1] = e /\ \A i \in 1..Len(old) : new[i + 1] = old[i]
    BY <2>1, <2>2, <1>1, <1>4, ConcatProperties, LenProperties
  <2>5. /\ <<s>> \o Servers(h, p) \in Seq(1..k) /\ Len(<<s>> \o Servers(h, p)) = Len(old) + 1
        /\ (<<s>> \o Servers(h, p))[1] = s
        /\ \A i \in 2..(Len(old) + 1) : (<<s>> \o Servers(h, p))[i] = Servers(h, p)[i - 1]
    BY <2>2, ConcatProperties, LenProperties
  <2>6. \A i \in 1..(Len(old) + 1) : Servers(g, p)[i] = (<<s>> \o Servers(h, p))[i]
    <3> TAKE i \in 1..(Len(old) + 1)
    <3>1. CASE i = 1
      BY <3>1, <2>3, <2>4, <2>5, <1>1
    <3>2. CASE i # 1
      <4>1. i \in 2..(Len(old) + 1) /\ i - 1 \in 1..Len(old) /\ (i - 1) + 1 = i
        BY <3>2, <2>2, LenProperties
      <4>2. new[i] = old[i - 1]
        BY <4>1, <2>4
      <4>3. Servers(g, p)[i] = new[i].server
        BY <2>3, <2>4
      <4>4. Servers(h, p)[i - 1] = old[i - 1].server
        BY <4>1, <2>2
      <4> QED
        BY <4>1, <4>2, <4>3, <4>4, <2>5
    <3> QED
      BY <3>1, <3>2
  <2> QED
    BY <2>3, <2>4, <2>5, <2>6, SeqEqual
<1> QED
  BY <1>5, <1>6, <1>7 DEF g, InFront

LEMMA DeleteIs ==
  ASSUME NEW k \in Nat, NEW h \in Map(k), NEW p \in Path
  PROVE  /\ HashmapDelete(h, p) \in Map(k)
         /\ Servers(HashmapDelete(h, p), p) = IF Servers(h, p) = <<>> THEN <<>> ELSE Tail(Servers(h, p))
         /\ \A q \in Path \ {p} : Servers(HashmapDelete(h, p), q) = Servers(h, q)
<1> DEFINE g == HashmapDelete(h, p)
           b == Hash[p]
           chain == h[b]
           Match == {i \in 1..Len(chain) : chain[i].path = p}
<1>1. b \in Bucket /\ h \in [Bucket -> Seq(Entry(k))] /\ chain \in Seq(Entry(k)) /\ Len(chain) \in Nat
  BY LenProperties, NamesAssumption DEF Map
<1>2. CASE Match = {}
  <2>1. g = [h EXCEPT ![b] = chain]
    BY <1>2 DEF HashmapDelete, RemoveFirstMatch
  <2>2. g = h
    BY <2>1, <1>1
  <2>3. InChain(chain, p) = <<>>
    BY <1>1, <1>2, NoneInChain
  <2>4. Servers(h, p) = <<>>
    <3>1. OwnersIn(h, p) = <<>>
      BY <2>3 DEF OwnersIn
    <3> QED
      BY <3>1, OwnersAre, EmptySeq
  <2> QED
    BY <2>2, <2>4
<1>3. CASE Match # {}
  <2> DEFINE Least == CHOOSE x \in Match : \A y \in Match : x <= y
             rest == SubSeq(chain, 1, Least - 1) \o SubSeq(chain, Least + 1, Len(chain))
  <2>1. Match \subseteq Nat
    BY <1>1
  <2>2. \E x \in Match : \A y \in Match : x <= y
    <3> HIDE DEF Match
    <3> QED
      BY <2>1, <1>3, LeastOne
  <2>3. Least \in Match /\ \A y \in Match : Least <= y
    <3> HIDE DEF Match
    <3> QED
      BY <2>2
  <2>4. g = [h EXCEPT ![b] = rest]
    BY <1>3, Zenon DEF HashmapDelete, RemoveFirstMatch, RemoveAt, SelectInSeq, Min
  <2> HIDE DEF Least
  <2>5. /\ Least \in 1..Len(chain) /\ chain[Least].path = p
        /\ \A j \in 1..(Least - 1) : chain[j].path # p
    <3>1. \A j \in 1..(Least - 1) : j \in 1..Len(chain) /\ ~(Least <= j)
      BY <2>3, <1>1
    <3> QED
      BY <2>3, <3>1
  <2>6. /\ rest \in Seq(Entry(k)) /\ Len(rest) = Len(chain) - 1
        /\ \A j \in 1..(Len(chain) - 1) : rest[j] = IF j < Least THEN chain[j] ELSE chain[j + 1]
    <3> DEFINE one == SubSeq(chain, 1, Least - 1)
               two == SubSeq(chain, Least + 1, Len(chain))
    <3>1. /\ one \in Seq(Entry(k)) /\ Len(one) = Least - 1
          /\ \A i \in 1..(Least - 1) : one[i] = chain[i]
      <4>1. \A i \in 1..(Least - 1) : i \in 1..Len(chain) /\ chain[i] \in Entry(k)
        BY <2>5, <1>1, ElementOfSeq
      <4> QED
        BY <4>1, <2>5, <1>1, SubSeqProperties
    <3>2. /\ two \in Seq(Entry(k)) /\ Len(two) = Len(chain) - Least
          /\ \A i \in 1..(Len(chain) - Least) : two[i] = chain[Least + i]
      <4>1. \A i \in (Least + 1)..Len(chain) : i \in 1..Len(chain) /\ chain[i] \in Entry(k)
        BY <2>5, <1>1, ElementOfSeq
      <4>2. Least + 1 \in Int /\ Len(chain) \in Int /\ Least + 1 <= Len(chain) + 1 /\ Least \in Int
        BY <2>5, <1>1
      <4>3. /\ two \in Seq(Entry(k))
            /\ Len(two) = IF Least + 1 <= Len(chain) THEN Len(chain) - (Least + 1) + 1 ELSE 0
            /\ \A i \in 1..(Len(chain) - (Least + 1) + 1) : two[i] = chain[(Least + 1) + i - 1]
        BY <4>1, <4>2, SubSeqProperties
      <4> HIDE DEF two
      <4>4. Len(two) = Len(chain) - Least
        BY <4>2, <4>3
      <4>5. ASSUME NEW i \in 1..(Len(chain) - Least) PROVE two[i] = chain[Least + i]
        <5>1. Len(chain) - (Least + 1) + 1 = Len(chain) - Least /\ (Least + 1) + i - 1 = Least + i
          BY <4>2
        <5> QED
          BY <5>1, <4>3
      <4> QED
        BY <4>3, <4>4, <4>5
    <3> HIDE DEF one, two
    <3>3. /\ one \o two \in Seq(Entry(k)) /\ Len(one \o two) = Len(one) + Len(two)
          /\ \A i \in 1..(Len(one) + Len(two)) : (one \o two)[i] = IF i <= Len(one) THEN one[i] ELSE two[i - Len(one)]
      BY <3>1, <3>2, ConcatProperties
    <3>4. Len(one) + Len(two) = Len(chain) - 1
      BY <3>1, <3>2, <2>5, <1>1
    <3>5. \A j \in 1..(Len(chain) - 1) : (one \o two)[j] = IF j < Least THEN chain[j] ELSE chain[j + 1]
      <4> TAKE j \in 1..(Len(chain) - 1)
      <4>1. (one \o two)[j] = IF j <= Least - 1 THEN one[j] ELSE two[j - (Least - 1)]
        BY <3>1, <3>3, <3>4
      <4>2. CASE j < Least
        <5>1. j \in 1..(Least - 1) /\ j <= Least - 1
          BY <4>2, <2>5
        <5> QED
          BY <5>1, <4>1, <4>2, <3>1
      <4>3. CASE ~(j < Least)
        <5>1. ~(j <= Least - 1) /\ j - (Least - 1) \in 1..(Len(chain) - Least) /\ Least + (j - (Least - 1)) = j + 1
          BY <4>3, <2>5, <1>1
        <5> QED
          BY <5>1, <4>1, <4>3, <3>2
      <4> QED
        BY <4>2, <4>3
    <3> QED
      BY <3>3, <3>4, <3>5 DEF one, two
  <2> HIDE DEF rest
  <2>7. g \in Map(k) /\ g[b] = rest /\ \A x \in Bucket \ {b} : g[x] = h[x]
    BY <1>1, <2>4, <2>6 DEF Map
  <2>8. \A q : InChain(chain, q) = IF p = q THEN <<chain[Least]>> \o InChain(rest, q)
                                                   ELSE InChain(rest, q)
    <3> TAKE q
    <3>1. IsRest(rest, chain, Least)
      BY <2>5, <2>6 DEF IsRest
    <3>2. InChain(chain, q) = IF chain[Least].path = q THEN <<chain[Least]>> \o InChain(rest, q)
                                                             ELSE InChain(rest, q)
      <4> HIDE DEF chain
      <4> QED
        BY <3>1, <1>1, <2>5, <2>6, RemovedIs, SMTT(30)
    <3> QED
      BY <3>2, <2>5
  <2>9. ASSUME NEW q \in Path \ {p} PROVE Servers(g, q) = Servers(h, q)
    <3>1. OwnersIn(g, q) = OwnersIn(h, q)
      BY <2>7, <2>8, NamesAssumption DEF OwnersIn
    <3> QED
      BY <3>1 DEF Servers
  <2>10. Servers(g, p) = IF Servers(h, p) = <<>> THEN <<>> ELSE Tail(Servers(h, p))
    <3> DEFINE old == OwnersIn(h, p)
               new == OwnersIn(g, p)
    <3>1. old = <<chain[Least]>> \o new
      BY <2>7, <2>8 DEF OwnersIn
    <3>2. /\ old \in Seq(Entry(k)) /\ Servers(h, p) \in Seq(1..k) /\ Len(Servers(h, p)) = Len(old)
          /\ \A i \in 1..Len(Servers(h, p)) : Servers(h, p)[i] = old[i].server
      BY OwnersAre
    <3>3. /\ new \in Seq(Entry(k)) /\ Servers(g, p) \in Seq(1..k) /\ Len(Servers(g, p)) = Len(new)
          /\ \A i \in 1..Len(Servers(g, p)) : Servers(g, p)[i] = new[i].server
      BY <2>7, OwnersAre
    <3> HIDE DEF old, new
    <3>4. Len(old) = Len(new) + 1 /\ Len(new) \in Nat /\ \A i \in 1..Len(new) : old[i + 1] = new[i]
      <4>1. chain[Least] \in Entry(k)
        BY <1>1, <2>5, ElementOfSeq
      <4>2. <<chain[Least]>> \in Seq(Entry(k)) /\ Len(<<chain[Least]>>) = 1
        BY <4>1
      <4> HIDE DEF chain
      <4> QED
        BY <3>1, <3>3, <4>2, ConcatProperties, LenProperties
    <3>5. Servers(h, p) # <<>>
      BY <3>2, <3>4, EmptySeq
    <3>6. /\ Tail(Servers(h, p)) \in Seq(1..k) /\ Len(Tail(Servers(h, p))) = Len(new)
          /\ \A i \in 1..Len(new) : Tail(Servers(h, p))[i] = Servers(h, p)[i + 1]
      BY <3>2, <3>4, <3>5, HeadTailProperties
    <3>7. \A i \in 1..Len(new) : Servers(g, p)[i] = Tail(Servers(h, p))[i]
      <4> TAKE i \in 1..Len(new)
      <4>1. i + 1 \in 1..Len(old)
        BY <3>4
      <4>2. Servers(h, p)[i + 1] = old[i + 1].server
        BY <4>1, <3>2
      <4> QED
        BY <4>2, <3>3, <3>4, <3>6
    <3>8. Servers(g, p) = Tail(Servers(h, p))
      BY <3>3, <3>6, <3>7, SeqEqual
    <3> QED
      BY <3>5, <3>8
  <2> QED
    BY <2>7, <2>9, <2>10
<1> QED
  BY <1>2, <1>3

Longer(s, t) ==
  /\ Len(t) <= Len(s)
  /\ \A i \in 1..Len(t) : t[i] = s[i + (Len(s) - Len(t))]

LEMMA LongerIs ==
  ASSUME NEW S, NEW s \in Seq(S), NEW t \in Seq(S)
  PROVE  /\ Longer(s, s)
         /\ \A x \in S : Longer(InFront(x, s), s) /\ InFront(x, s) # <<>> /\ Head(InFront(x, s)) = x
         /\ \A u \in Seq(S) : Longer(s, t) /\ Longer(u, s) => Longer(u, t)
<1>1. Len(s) \in Nat /\ Len(t) \in Nat
  BY LenProperties
<1>2. Longer(s, s)
  BY <1>1 DEF Longer
<1>3. ASSUME NEW x \in S PROVE Longer(InFront(x, s), s) /\ InFront(x, s) # <<>> /\ Head(InFront(x, s)) = x
  <2>1. <<x>> \in Seq(S) /\ Len(<<x>>) = 1 /\ <<x>>[1] = x
    OBVIOUS
  <2>2. /\ <<x>> \o s \in Seq(S) /\ Len(<<x>> \o s) = 1 + Len(s) /\ (<<x>> \o s)[1] = x
        /\ \A i \in 1..Len(s) : (<<x>> \o s)[i + 1] = s[i]
    BY <2>1, <1>1, ConcatProperties
  <2>3. (1 + Len(s)) - Len(s) = 1 /\ Len(s) <= 1 + Len(s)
    BY <1>1
  <2> DEFINE u == <<x>> \o s
  <2>4. Head(u) = u[1]
    BY DEF Head
  <2> HIDE DEF u
  <2>5. Longer(u, s)
    BY <2>2, <2>3 DEF Longer, u
  <2> QED
    BY <2>2, <2>4, <2>5, <1>1, EmptySeq DEF u, InFront
<1>4. ASSUME NEW u \in Seq(S), Longer(s, t), Longer(u, s) PROVE Longer(u, t)
  <2>1. Len(u) \in Nat
    BY LenProperties
  <2>2. ASSUME NEW i \in 1..Len(t) PROVE t[i] = u[i + (Len(u) - Len(t))]
    <3>1. t[i] = s[i + (Len(s) - Len(t))] /\ i + (Len(s) - Len(t)) \in 1..Len(s)
      BY <1>1, <1>4, SMTT(30) DEF Longer
    <3>2. s[i + (Len(s) - Len(t))] = u[(i + (Len(s) - Len(t))) + (Len(u) - Len(s))]
      BY <3>1, <1>4 DEF Longer
    <3>3. (i + (Len(s) - Len(t))) + (Len(u) - Len(s)) = i + (Len(u) - Len(t))
      BY <1>1, <2>1
    <3> QED
      BY <3>1, <3>2, <3>3
  <2> QED
    BY <2>1, <2>2, <1>1, <1>4, SMTT(30) DEF Longer
<1> QED
  BY <1>2, <1>3, <1>4

LEMMA InsertAllIs ==
  ASSUME NEW k \in Nat, NEW h \in Map(k), NEW paths \in Seq(Path), NEW s \in 1..k
  PROVE  /\ InsertAll(h, paths, s) \in Map(k)
         /\ \A q \in Path :
              /\ Longer(Servers(InsertAll(h, paths, s), q), Servers(h, q))
              /\ IF \E i \in DOMAIN paths : paths[i] = q
                 THEN HashmapSearch(InsertAll(h, paths, s), q) = s
                 ELSE Servers(InsertAll(h, paths, s), q) = Servers(h, q)
<1> DEFINE N == Len(paths)
           F == [n \in 1..N |-> [d \in Map(k) |-> HashmapInsert(d, paths[n], s)]]
           after == CHOOSE r : r = [n \in 0..N |-> IF n = 0 THEN h ELSE HashmapInsert(r[n - 1], paths[n], s)]
<1>1. N \in Nat /\ \A n \in 1..N : paths[n] \in Path
  OBVIOUS
<1>2. \A d \in Map(k), n \in 1..N : HashmapInsert(d, paths[n], s) \in Map(k)
  BY <1>1, InsertIs
<1>3. F \in [1..N -> [Map(k) -> Map(k)]]
  BY <1>2
<1>4. PICK r : Run(r, N, Map(k), h, F)
  <2>1. N \in Nat
    BY <1>1
  <2> HIDE DEF F, N
  <2> QED
    BY <2>1, <1>3, Iteration
<1>5. r = [n \in 0..N |-> IF n = 0 THEN h ELSE HashmapInsert(r[n - 1], paths[n], s)]
  <2>1. \A n \in 1..N : n - 1 \in 0..N /\ r[n - 1] \in Map(k)
    BY <1>1, <1>4 DEF Run
  <2>2. \A n \in 0..N : r[n] = IF n = 0 THEN h ELSE HashmapInsert(r[n - 1], paths[n], s)
    <3>1. \A n \in 1..N : n \in 0..N /\ n # 0 /\ F[n][r[n - 1]] = HashmapInsert(r[n - 1], paths[n], s)
      BY <2>1, <1>1
    <3>2. \A n \in 0..N : n = 0 \/ n \in 1..N
      BY <1>1
    <3>3. r[0] = h /\ \A n \in 1..N : r[n] = F[n][r[n - 1]]
      BY <1>4 DEF Run
    <3> HIDE DEF F, N
    <3> QED
      BY <3>1, <3>2, <3>3
  <2>3. r = [n \in 0..N |-> r[n]]
    BY <1>4 DEF Run
  <2> HIDE DEF N
  <2> QED
    BY <2>2, <2>3
<1>6. after = [n \in 0..N |-> IF n = 0 THEN h ELSE HashmapInsert(after[n - 1], paths[n], s)]
  BY <1>5, Zenon
<1>7. InsertAll(h, paths, s) = after[N]
  BY Zenon DEF InsertAll, after, N
<1> HIDE DEF after
<1>8. after[0] = h /\ \A n \in 1..N : after[n] = HashmapInsert(after[n - 1], paths[n], s)
  BY <1>1, <1>6
<1> DEFINE Grown(g, n, q) ==
             /\ Longer(Servers(g, q), Servers(h, q))
             /\ IF \E i \in 1..n : paths[i] = q THEN HashmapSearch(g, q) = s
                                                ELSE Servers(g, q) = Servers(h, q)
           Good == {n \in 0..N : after[n] \in Map(k) /\ \A q \in Path : Grown(after[n], n, q)}
<1>9. 0 \in Good
  <2>1. \A q \in Path : Longer(Servers(h, q), Servers(h, q))
    BY OwnersAre, LongerIs
  <2> QED
    BY <2>1, <1>1, <1>8
<1>10. ASSUME NEW n \in 0..(N - 1), n \in Good PROVE n + 1 \in Good
  <2> DEFINE d == after[n]
             g == after[n + 1]
             p == paths[n + 1]
  <2>1. n + 1 \in 1..N /\ (n + 1) - 1 = n /\ p \in Path
    BY <1>1
  <2>2. g = HashmapInsert(d, p, s)
    BY <2>1, <1>8
  <2>3. d \in Map(k) /\ \A q \in Path : Grown(d, n, q)
    BY <1>10
  <2> HIDE DEF d, p, g
  <2>4. g \in Map(k) /\ Servers(g, p) = InFront(s, Servers(d, p)) /\ \A q \in Path \ {p} : Servers(g, q) = Servers(d, q)
    <3> HIDE DEF Grown
    <3>1. d \in Map(k)
      BY <2>3
    <3>2. /\ HashmapInsert(d, p, s) \in Map(k)
          /\ Servers(HashmapInsert(d, p, s), p) = InFront(s, Servers(d, p))
          /\ \A q \in Path \ {p} : Servers(HashmapInsert(d, p, s), q) = Servers(d, q)
      BY <3>1, <2>1, InsertIs
    <3> QED
      BY <3>2, <2>2
  <2>5. ASSUME NEW q \in Path PROVE Grown(g, n + 1, q)
    <3>1. Servers(h, q) \in Seq(1..k) /\ Servers(d, q) \in Seq(1..k) /\ Servers(g, q) \in Seq(1..k)
      BY <2>3, <2>4, OwnersAre
    <3>2. CASE q = p
      <4>1. Longer(Servers(g, q), Servers(d, q)) /\ Servers(g, q) # <<>> /\ Head(Servers(g, q)) = s
        BY <3>1, <3>2, <2>4, LongerIs
      <4>2. Longer(Servers(g, q), Servers(h, q))
        BY <4>1, <3>1, <2>3, LongerIs
      <4>3. HashmapSearch(g, q) = s
        BY <4>1, <2>4, SearchIs
      <4>4. \E i \in 1..(n + 1) : paths[i] = q
        BY <2>1, <3>2, n + 1 \in 1..(n + 1) DEF p
      <4> QED
        BY <4>2, <4>3, <4>4
    <3>3. CASE q # p
      <4>1. Servers(g, q) = Servers(d, q)
        BY <3>3, <2>4
      <4>2. HashmapSearch(g, q) = HashmapSearch(d, q)
        <5> HIDE DEF Grown
        <5>1. d \in Map(k) /\ g \in Map(k)
          BY <2>3, <2>4
        <5>2. HashmapSearch(g, q) = IF Servers(g, q) = <<>> THEN Null ELSE Head(Servers(g, q))
          BY <5>1, SearchIs
        <5>3. HashmapSearch(d, q) = IF Servers(d, q) = <<>> THEN Null ELSE Head(Servers(d, q))
          BY <5>1, SearchIs
        <5> QED
          BY <5>2, <5>3, <4>1
      <4>3. (\E i \in 1..(n + 1) : paths[i] = q) <=> \E i \in 1..n : paths[i] = q
        BY <3>3, \A i \in 1..(n + 1) : i = n + 1 \/ i \in 1..n DEF p
      <4>4. Grown(d, n, q)
        BY <2>3
      <4> QED
        BY <4>1, <4>2, <4>3, <4>4
    <3> QED
      BY <3>2, <3>3
  <2> HIDE DEF Grown
  <2> QED
    BY <2>1, <2>4, <2>5 DEF g
<1>11. 0..N \subseteq Good
  <2> HIDE DEF Good
  <2> QED
    BY <1>1, <1>9, <1>10, StepByStep
<1>12. after[N] \in Map(k) /\ \A q \in Path : Grown(after[N], N, q)
  BY <1>1, <1>11
<1> QED
  BY <1>7, <1>12

-----------------------------------------------------------------------------
(* What a search keeps and changes; and more servers.                      *)

(* From c to d the cache has learnt nothing but what the map h says.       *)
Learnt(h, c, d) ==
  \A q \in Path : Answer(d, q) \in {Answer(c, q), Null, HashmapSearch(h, q)}

LEMMA HitIs ==
  ASSUME NEW k \in Nat, NEW c, Sound(c, k), NEW p \in Path, CacheHit(c, p)
  PROVE  /\ c.map[Hash[p]] \in DOMAIN c.node
         /\ Answer(c, p) = c.node[c.map[Hash[p]]].server
         /\ Answer(c, p) \in 1..k
<1>1. Hash[p] \in Bucket /\ c.node \in Nodes(k)
  BY CacheIs, NamesAssumption DEF Sound
<1>2. c.map[Hash[p]] \in DOMAIN c.node
  BY <1>1 DEF Sound, PointsToNode, CacheHit
<1>3. c.node[c.map[Hash[p]]] \in Node(k)
  BY <1>1, <1>2, NodeIs
<1> QED
  BY <1>2, <1>3 DEF Answer, Node

LEMMA ResolvedIs ==
  ASSUME NEW k \in Nat, NEW h \in Map(k), NEW c, Sound(c, k), NEW p \in Path
  PROVE  /\ Resolved(h, c, p) \in {Answer(c, p), HashmapSearch(h, p)}
         /\ Resolved(h, c, p) # Null => Resolved(h, c, p) \in 1..k
<1>1. CASE CacheHit(c, p)
  BY <1>1, HitIs DEF Resolved
<1>2. CASE ~CacheHit(c, p)
  BY <1>2, SearchIs DEF Resolved
<1> QED
  BY <1>1, <1>2

LEMMA SearchedIs ==
  ASSUME NEW k \in Nat, NEW h \in Map(k), NEW c, Sound(c, k), NEW p \in Path
  PROVE  /\ Sound(Searched(h, c, p), k)
         /\ Learnt(h, c, Searched(h, c, p))
         /\ \A q \in Path \ {p} : Answer(Searched(h, c, p), q) \in {Answer(c, q), Null}
<1> DEFINE d == Searched(h, c, p)
           s == HashmapSearch(h, p)
<1>1. CASE CacheHit(c, p)
  <2>1. d = MoveToHead(c, c.map[Hash[p]]) /\ c.map[Hash[p]] \in DOMAIN c.node
    BY <1>1, HitIs DEF Searched
  <2>2. Sound(d, k) /\ \A q \in Path : Answer(d, q) = Answer(c, q)
    BY <2>1, MoveToHeadIs
  <2> QED
    BY <2>2 DEF Learnt
<1>2. CASE ~CacheHit(c, p) /\ s # Null
  <2>1. d = AddToCache(c, p, s) /\ s \in 1..k
    BY <1>2, SearchIs DEF Searched
  <2> HIDE DEF d, s
  <2>2. /\ Sound(d, k) /\ Answer(d, p) \in {s, Null}
        /\ \A q \in Path \ {p} : Answer(d, q) \in {Answer(c, q), Null}
    BY <2>1, AddToCacheIs
  <2> QED
    BY <2>2 DEF Learnt, d, s
<1>3. CASE ~CacheHit(c, p) /\ s = Null
  <2>1. d = c
    BY <1>3 DEF Searched
  <2> QED
    BY <2>1 DEF Learnt
<1> QED
  BY <1>1, <1>2, <1>3

LEMMA LearntTwice ==
  ASSUME NEW h, NEW c, NEW d, NEW e, Learnt(h, c, d), Learnt(h, d, e)
  PROVE  Learnt(h, c, e)
BY DEF Learnt

LEMMA MoreServers ==
  ASSUME NEW k \in Nat
  PROVE  /\ Map(k) \subseteq Map(k + 1)
         /\ \A c : Sound(c, k) => Sound(c, k + 1)
<1>1. 1..k \subseteq 1..(k + 1)
  OBVIOUS
<1>2. Entry(k) \subseteq Entry(k + 1) /\ Node(k) \subseteq Node(k + 1)
  BY <1>1 DEF Entry, Node
<1>3. ASSUME NEW h \in Map(k) PROVE h \in Map(k + 1)
  <2>1. \A b \in Bucket : h[b] \in Seq(Entry(k + 1))
    BY <1>2, SeqMonotonic DEF Map
  <2> QED
    BY <2>1 DEF Map
<1>4. Nodes(k) \subseteq Nodes(k + 1)
  BY <1>2 DEF Nodes
<1>5. \A c \in Cache(k) : c \in Cache(k + 1)
  BY <1>4 DEF Cache
<1> QED
  BY <1>3, <1>5 DEF Sound

-----------------------------------------------------------------------------
(* The invariant, and what every step keeps.                               *)

NamesInv ==
  /\ count \in 0..MaxServers
  /\ hashmap \in Map(count)
  /\ Sound(lru, count)
  /\ content \in BOOLEAN
  /\ up \in BOOLEAN

(* A step after which every path has its owners, or newer ones in front;   *)
(* and the cache has learnt nothing but what the map says now.             *)
Entered ==
  \A p \in Path : /\ Longer(Servers(hashmap', p), Servers(hashmap, p))
                  /\ Answer(lru', p) \in {Answer(lru, p), Null, HashmapSearch(hashmap', p)}

LEMMA InvIs ==
  ASSUME NamesInv
  PROVE  count \in Nat /\ hashmap \in Map(count) /\ Sound(lru, count)
BY DEF NamesInv

LEMMA SameMap ==
  ASSUME NamesInv, hashmap' = hashmap, Learnt(hashmap, lru, lru')
  PROVE  Entered
<1>1. \A p \in Path : Longer(Servers(hashmap, p), Servers(hashmap, p))
  BY InvIs, OwnersAre, LongerIs
<1> QED
  BY <1>1 DEF Entered, Learnt

LEMMA RegisterStep ==
  ASSUME NamesInv, NEW paths \in Seq(Path), Register(paths)
  PROVE  NamesInv' /\ Entered
<1>1. /\ count \in 0..(MaxServers - 1) /\ MaxServers \in Nat /\ count' = count + 1 /\ lru' = lru
      /\ hashmap' = InsertAll(hashmap, paths, count + 1) /\ content' = content /\ up' = up
  BY NamesAssumption DEF Register, NamesInv
<1>2. count \in Nat /\ count + 1 \in Nat /\ count + 1 \in 1..(count + 1)
  BY <1>1
<1>3. hashmap \in Map(count + 1) /\ Sound(lru, count + 1)
  BY <1>2, InvIs, MoreServers
<1>4. /\ hashmap' \in Map(count + 1)
      /\ \A q \in Path : Longer(Servers(hashmap', q), Servers(hashmap, q))
  BY <1>1, <1>2, <1>3, InsertAllIs
<1>5. NamesInv'
  BY <1>1, <1>3, <1>4 DEF NamesInv
<1> QED
  BY <1>1, <1>4, <1>5 DEF Entered

LEMMA SearchedStep ==
  ASSUME NamesInv, NEW p \in Path
  PROVE  /\ Sound(Searched(hashmap, lru, p), count)
         /\ Learnt(hashmap, lru, Searched(hashmap, lru, p))
         /\ \A q \in Path \ {p} : Answer(Searched(hashmap, lru, p), q) \in {Answer(lru, q), Null}
         /\ Resolved(hashmap, lru, p) \in {Answer(lru, p), HashmapSearch(hashmap, p)}
         /\ Resolved(hashmap, lru, p) # Null => Resolved(hashmap, lru, p) \in 1..count
BY InvIs, SearchedIs, ResolvedIs

LEMMA LookupStep ==
  ASSUME NamesInv, NEW p \in Path, Lookup(p)
  PROVE  NamesInv' /\ Entered
<1> DEFINE s == Resolved(hashmap, lru, p)
           c == Searched(hashmap, lru, p)
<1>1. /\ s # Null /\ lru' = AddToCache(c, p, s)
      /\ count' = count /\ hashmap' = hashmap /\ content' = content /\ up' = up
  BY DEF Lookup
<1>2. /\ Sound(c, count) /\ Learnt(hashmap, lru, c) /\ s \in 1..count
      /\ s \in {Answer(lru, p), HashmapSearch(hashmap, p)}
  BY <1>1, SearchedStep
<1> HIDE DEF s, c
<1>3. /\ Sound(lru', count) /\ Answer(lru', p) \in {s, Null}
      /\ \A q \in Path \ {p} : Answer(lru', q) \in {Answer(c, q), Null}
  BY <1>1, <1>2, AddToCacheIs
<1>4. Learnt(hashmap, lru, lru')
  BY <1>2, <1>3 DEF Learnt
<1>5. NamesInv'
  BY <1>1, <1>3 DEF NamesInv
<1> QED
  BY <1>1, <1>4, <1>5, SameMap

LEMMA LongerPath ==
  ASSUME NEW dir \in Path, NEW name
  PROVE  Under(dir, name) # dir
<1>1. PICK S : dir \in Seq(S)
  BY NamesAssumption
<1>2. dir \in Seq(S \cup {name})
  BY <1>1, SeqMonotonic
<1>3. Len(Append(dir, name)) = Len(dir) + 1 /\ Len(dir) \in Nat
  BY <1>2
<1> QED
  BY <1>3 DEF Under

LEMMA CreateStep ==
  ASSUME NamesInv, NEW dir \in Path, NEW name, Under(dir, name) \in Path,
         Create(dir, name)
  PROVE  NamesInv' /\ Entered
<1> DEFINE owner == Resolved(hashmap, lru, dir)
           c == Searched(hashmap, lru, dir)
           p == Under(dir, name)
<1> DEFINE Reply(s, reply) ==
             IF reply = "success"
             THEN /\ hashmap' = HashmapInsert(hashmap, p, s)
                  /\ lru' = IF owner # Null THEN c ELSE AddToCache(c, p, s)
             ELSE lru' = c /\ hashmap' = hashmap
<1>0. PICK s \in IF owner # Null THEN {owner} ELSE 1..(count + 1) :
        \E reply \in Replies(s) : Reply(s, reply)
  BY DEF Create
<1>1. PICK reply \in Replies(s) : Reply(s, reply)
  BY <1>0
<1>2. count' = count /\ content' = content /\ up' = up
  BY DEF Create
<1>3. /\ Sound(c, count) /\ Learnt(hashmap, lru, c)
      /\ \A q \in Path \ {dir} : Answer(c, q) \in {Answer(lru, q), Null}
      /\ owner # Null => owner \in 1..count
  BY SearchedStep
<1>4. p # dir /\ p \in Path
  BY LongerPath
<1>5. count \in Nat /\ hashmap \in Map(count)
  BY InvIs
<1> HIDE DEF owner, c, p
<1>6. CASE reply # "success"
  <2>1. lru' = c /\ hashmap' = hashmap
    BY <1>1, <1>6
  <2>2. NamesInv'
    BY <2>1, <1>2, <1>3 DEF NamesInv
  <2> QED
    BY <2>1, <2>2, <1>3, SameMap
<1>7. CASE reply = "success"
  <2>1. s \in 1..count
    <3>1. s \in 1..(count + 1) /\ s <= count
      BY <1>0, <1>1, <1>3, <1>5, <1>7 DEF Replies
    <3> QED
      BY <3>1, <1>5
  <2>2. /\ hashmap' = HashmapInsert(hashmap, p, s)
        /\ lru' = IF owner # Null THEN c ELSE AddToCache(c, p, s)
    BY <1>1, <1>7
  <2>3. /\ hashmap' \in Map(count) /\ Servers(hashmap', p) = InFront(s, Servers(hashmap, p))
        /\ \A q \in Path \ {p} : Servers(hashmap', q) = Servers(hashmap, q)
    BY <2>1, <2>2, <1>4, <1>5, InsertIs
  <2>4. HashmapSearch(hashmap', p) = s
    <3>1. Servers(hashmap', p) # <<>> /\ Head(Servers(hashmap', p)) = s
      BY <2>1, <2>3, <1>4, <1>5, OwnersAre, LongerIs, SMTT(30)
    <3>2. HashmapSearch(hashmap', p) =
            IF Servers(hashmap', p) = <<>> THEN Null ELSE Head(Servers(hashmap', p))
      BY <2>3, <1>4, <1>5, SearchIs
    <3> QED
      BY <3>1, <3>2
  <2>5. ASSUME NEW q \in Path \ {p} PROVE HashmapSearch(hashmap', q) = HashmapSearch(hashmap, q)
    <3>1. HashmapSearch(hashmap', q) =
            IF Servers(hashmap', q) = <<>> THEN Null ELSE Head(Servers(hashmap', q))
      BY <2>3, <1>5, SearchIs
    <3>2. HashmapSearch(hashmap, q) =
            IF Servers(hashmap, q) = <<>> THEN Null ELSE Head(Servers(hashmap, q))
      BY <1>5, SearchIs
    <3> QED
      BY <3>1, <3>2, <2>3
  <2>6. ASSUME NEW q \in Path PROVE Longer(Servers(hashmap', q), Servers(hashmap, q))
    <3>1. Servers(hashmap, q) \in Seq(1..count)
      BY <1>5, OwnersAre
    <3>2. CASE q = p
      BY <2>1, <2>3, <3>1, <3>2, LongerIs
    <3>3. CASE q # p
      <4>1. Servers(hashmap', q) = Servers(hashmap, q)
        BY <2>3, <3>3
      <4> QED
        BY <3>1, <4>1, LongerIs
    <3> QED
      BY <3>2, <3>3
  <2>7. /\ Sound(lru', count)
        /\ Answer(lru', p) \in {Answer(lru, p), Null, s}
        /\ \A q \in Path \ {p} : Answer(lru', q) \in {Answer(c, q), Null}
    <3>1. CASE owner # Null
      BY <3>1, <2>2, <1>3, <1>4
    <3>2. CASE owner = Null
      <4>1. lru' = AddToCache(c, p, s)
        BY <3>2, <2>2
      <4> QED
        BY <4>1, <2>1, <1>3, <1>4, AddToCacheIs
    <3> QED
      BY <3>1, <3>2
  <2>8. ASSUME NEW q \in Path PROVE Answer(lru', q) \in {Answer(lru, q), Null, HashmapSearch(hashmap', q)}
    <3>1. CASE q = p
      BY <3>1, <2>4, <2>7
    <3>2. CASE q # p
      BY <3>2, <2>5, <2>7, <1>3 DEF Learnt
    <3> QED
      BY <3>1, <3>2
  <2>9. NamesInv'
    BY <2>3, <2>7, <1>2 DEF NamesInv
  <2> QED
    BY <2>6, <2>8, <2>9 DEF Entered
<1> QED
  BY <1>6, <1>7

(* A step after which p has lost its newest owner, and the cache nothing   *)
(* of p.                                                                   *)
Deleted(p) ==
  /\ Servers(hashmap', p) = IF Servers(hashmap, p) = <<>> THEN <<>> ELSE Tail(Servers(hashmap, p))
  /\ Answer(lru', p) = Null
  /\ \A q \in Path \ {p} :
       /\ Servers(hashmap', q) = Servers(hashmap, q)
       /\ Answer(lru', q) \in {Answer(lru, q), Null, HashmapSearch(hashmap', q)}

LEMMA SameServers ==
  ASSUME NEW k \in Nat, NEW h \in Map(k), NEW g \in Map(k), NEW q \in Path,
         Servers(g, q) = Servers(h, q)
  PROVE  HashmapSearch(g, q) = HashmapSearch(h, q)
<1>1. HashmapSearch(g, q) = IF Servers(g, q) = <<>> THEN Null ELSE Head(Servers(g, q))
  BY SearchIs
<1>2. HashmapSearch(h, q) = IF Servers(h, q) = <<>> THEN Null ELSE Head(Servers(h, q))
  BY SearchIs
<1> QED
  BY <1>1, <1>2

LEMMA DeleteStep ==
  ASSUME NamesInv, NEW p \in Path, Delete(p)
  PROVE  NamesInv' /\ (Entered \/ Deleted(p))
<1>1. PICK dir \in {p, Front(p)} \cap Path :
        \/ /\ lru' = CacheDelete(Searched(hashmap, lru, dir), p)
           /\ hashmap' = HashmapDelete(hashmap, p)
        \/ lru' = Searched(hashmap, lru, dir) /\ hashmap' = hashmap
  BY DEF Delete
<1>2. count' = count /\ content' = content /\ up' = up
  BY DEF Delete
<1> DEFINE c == Searched(hashmap, lru, dir)
<1>3. Sound(c, count) /\ Learnt(hashmap, lru, c) /\ count \in Nat /\ hashmap \in Map(count)
  BY SearchedStep, InvIs
<1> HIDE DEF c
<1>4. CASE lru' = c /\ hashmap' = hashmap
  <2>1. NamesInv'
    BY <1>2, <1>3, <1>4 DEF NamesInv
  <2> QED
    BY <2>1, <1>3, <1>4, SameMap
<1>5. CASE lru' = CacheDelete(c, p) /\ hashmap' = HashmapDelete(hashmap, p)
  <2>1. /\ hashmap' \in Map(count)
        /\ Servers(hashmap', p) = IF Servers(hashmap, p) = <<>> THEN <<>> ELSE Tail(Servers(hashmap, p))
        /\ \A q \in Path \ {p} : Servers(hashmap', q) = Servers(hashmap, q)
    BY <1>3, <1>5, DeleteIs
  <2>2. /\ Sound(lru', count) /\ Answer(lru', p) = Null
        /\ \A q \in Path \ {p} : Answer(lru', q) \in {Answer(c, q), Null}
    BY <1>3, <1>5, CacheDeleteIs
  <2>3. \A q \in Path \ {p} : HashmapSearch(hashmap', q) = HashmapSearch(hashmap, q)
    BY <2>1, <1>3, SameServers
  <2>4. Deleted(p)
    BY <2>1, <2>2, <2>3, <1>3 DEF Deleted, Learnt
  <2>5. NamesInv'
    BY <2>1, <2>2, <1>2 DEF NamesInv
  <2> QED
    BY <2>4, <2>5
<1> QED
  BY <1>1, <1>4, <1>5 DEF c

LEMMA AfterBothIs ==
  ASSUME NamesInv, NEW src \in Path, NEW dst \in Path
  PROVE  /\ Sound(AfterBoth(src, dst), count)
         /\ Learnt(hashmap, lru, AfterBoth(src, dst))
         /\ BothFound(src, dst) => TargetOwner(src, dst) \in 1..count
<1> DEFINE c == Searched(hashmap, lru, src)
           d == Searched(hashmap, c, dst)
<1>1. Sound(c, count) /\ Learnt(hashmap, lru, c) /\ count \in Nat /\ hashmap \in Map(count)
  BY SearchedStep, InvIs
<1>2. AfterBoth(src, dst) = d /\ TargetOwner(src, dst) = Resolved(hashmap, c, dst)
  BY DEF AfterBoth, AfterSource, TargetOwner
<1> HIDE DEF c
<1>3. Sound(d, count) /\ Learnt(hashmap, c, d)
  BY <1>1, SearchedIs
<1>4. Resolved(hashmap, c, dst) # Null => Resolved(hashmap, c, dst) \in 1..count
  BY <1>1, ResolvedIs
<1> HIDE DEF d
<1>5. Learnt(hashmap, lru, d)
  BY <1>1, <1>3, LearntTwice
<1> QED
  BY <1>2, <1>3, <1>4, <1>5 DEF BothFound

LEMMA CopyEntersStep ==
  ASSUME NamesInv, NEW src \in Path, NEW dst \in Path, NEW entered \in Seq(Path),
         BothFound(src, dst), CopyEnters(src, dst, entered)
  PROVE  hashmap' \in Map(count) /\ Sound(lru', count) /\ Entered
<1> DEFINE s == TargetOwner(src, dst)
           c == AfterBoth(src, dst)
           In(q) == \E i \in DOMAIN entered : entered[i] = q
<1>1. hashmap' = InsertAll(hashmap, entered, s) /\ lru' = AddAll(c, entered, s)
  BY DEF CopyEnters
<1>2. /\ Sound(c, count) /\ Learnt(hashmap, lru, c) /\ s \in 1..count
      /\ count \in Nat /\ hashmap \in Map(count)
  BY AfterBothIs, InvIs
<1> HIDE DEF s, c
<1>3. /\ hashmap' \in Map(count)
      /\ \A q \in Path :
           /\ Longer(Servers(hashmap', q), Servers(hashmap, q))
           /\ IF In(q) THEN HashmapSearch(hashmap', q) = s ELSE Servers(hashmap', q) = Servers(hashmap, q)
  BY <1>1, <1>2, InsertAllIs
<1>4. Sound(lru', count) /\ \A q \in Path : Answer(lru', q) \in {IF In(q) THEN s ELSE Answer(c, q), Null}
  BY <1>1, <1>2, AddAllIs
<1> HIDE DEF In
<1>5. ASSUME NEW q \in Path PROVE Answer(lru', q) \in {Answer(lru, q), Null, HashmapSearch(hashmap', q)}
  <2>1. CASE In(q)
    BY <2>1, <1>3, <1>4
  <2>2. CASE ~In(q)
    <3>1. HashmapSearch(hashmap', q) = HashmapSearch(hashmap, q)
      BY <2>2, <1>2, <1>3, SameServers
    <3> QED
      BY <2>2, <3>1, <1>2, <1>4 DEF Learnt
  <2> QED
    BY <2>1, <2>2
<1> QED
  BY <1>3, <1>4, <1>5 DEF Entered

LEMMA CopyStep ==
  ASSUME NamesInv, NEW src \in Path, NEW dst \in Path,
         \/ CopyNothing(src, dst) \/ CopyFile(src, dst)
         \/ CopyDirectory(src, dst) \/ CopyCrash(src, dst)
  PROVE  NamesInv' /\ Entered
<1> DEFINE c == AfterBoth(src, dst)
           dir == Under(dst, Last(src))
<1>1. Sound(c, count) /\ Learnt(hashmap, lru, c)
  BY AfterBothIs
<1>2. count \in 0..MaxServers /\ hashmap \in Map(count) /\ content \in BOOLEAN /\ up \in BOOLEAN
  BY DEF NamesInv
<1> HIDE DEF c
<1>3. ASSUME lru' = c, hashmap' = hashmap, count' = count, content' \in BOOLEAN, up' = up
      PROVE  NamesInv' /\ Entered
  BY <1>1, <1>2, <1>3, SameMap DEF NamesInv
<1>4. CASE CopyNothing(src, dst)
  <2>1. /\ lru' = c /\ count' = count /\ hashmap' = hashmap /\ up' = up
        /\ content' \in IF BothFound(src, dst) THEN {FALSE, content} ELSE {FALSE}
    BY <1>4 DEF CopyNothing, c
  <2>2. content' \in BOOLEAN
    BY <2>1, <1>2
  <2> QED
    BY <2>1, <2>2, <1>3
<1>5. CASE CopyFile(src, dst)
  <2>1. BothFound(src, dst) /\ count' = count /\ up' = up
    BY <1>5 DEF CopyFile
  <2>2. CASE lru' = c /\ content' = TRUE /\ hashmap' = hashmap
    BY <2>1, <2>2, <1>3
  <2>3. CASE dir \in Path /\ CopyEnters(src, dst, <<dir>>) /\ content' = FALSE
    <3>1. <<dir>> \in Seq(Path)
      BY <2>3
    <3>2. hashmap' \in Map(count) /\ Sound(lru', count) /\ Entered
      BY <2>1, <2>3, <3>1, CopyEntersStep
    <3> QED
      BY <2>1, <2>3, <3>2, <1>2 DEF NamesInv
  <2> QED
    BY <1>5, <2>2, <2>3 DEF CopyFile, c
<1>6. CASE CopyDirectory(src, dst)
  <2>1. BothFound(src, dst) /\ count' = count /\ up' = up /\ content' \in BOOLEAN /\ dir \in Path
    BY <1>6 DEF CopyDirectory
  <2> DEFINE N == {n \in Names : Under(dir, n) \in Path}
             Entries(files) == <<dir>> \o [i \in DOMAIN files |-> Under(dir, files[i])]
  <2>2. PICK files \in BoundedSeq(N, MaxFiles) : CopyEnters(src, dst, Entries(files))
    BY <1>6 DEF CopyDirectory
  <2>3. files \in Seq(N)
    <3> HIDE DEF N
    <3>1. PICK m \in 0..MaxFiles : files \in [1..m -> N]
      BY DEF BoundedSeq, SeqOf
    <3> QED
      BY <3>1, NamesAssumption
  <2>4. [i \in DOMAIN files |-> Under(dir, files[i])] \in Seq(Path)
    <3>1. Len(files) \in Nat /\ DOMAIN files = 1..Len(files) /\ \A i \in 1..Len(files) : files[i] \in N
      <4> HIDE DEF N
      <4> QED
        BY <2>3, LenProperties, ElementOfSeq
    <3> QED
      BY <3>1
  <2>5. Entries(files) \in Seq(Path)
    BY <2>1, <2>4, ConcatProperties
  <2> HIDE DEF Entries
  <2>6. hashmap' \in Map(count) /\ Sound(lru', count) /\ Entered
    BY <2>1, <2>2, <2>5, CopyEntersStep
  <2> QED
    BY <2>1, <2>6, <1>2 DEF NamesInv
<1>7. CASE CopyCrash(src, dst)
  <2>1. lru' = lru /\ hashmap' = hashmap /\ count' = count /\ content' = content /\ up' = FALSE
    BY <1>7 DEF CopyCrash
  <2>2. NamesInv'
    BY <2>1, <1>2 DEF NamesInv
  <2> QED
    BY <2>1, <2>2, SameMap DEF Learnt
<1> QED
  BY <1>4, <1>5, <1>6, <1>7

LEMMA NamesNext ==
  ASSUME NamesInv, [Next]_vars
  PROVE  NamesInv' /\ (Entered \/ (\E p \in Path : Deleted(p)))
<1>1. CASE UNCHANGED vars
  <2>1. lru' = lru /\ hashmap' = hashmap /\ count' = count /\ content' = content /\ up' = up
    BY <1>1 DEF vars
  <2>2. NamesInv'
    BY <2>1 DEF NamesInv
  <2> QED
    BY <2>1, <2>2, SameMap DEF Learnt
<1>2. CASE Next
  <2>1. CASE \E paths \in BoundedSeq(Path, MaxAdvertised) : Register(paths)
    <3>1. PICK paths \in BoundedSeq(Path, MaxAdvertised) : Register(paths)
      BY <2>1
    <3>2. PICK m \in 0..MaxAdvertised : paths \in [1..m -> Path]
      BY DEF BoundedSeq, SeqOf
    <3>3. paths \in Seq(Path)
      BY <3>2, NamesAssumption
    <3> QED
      BY <3>1, <3>3, RegisterStep
  <2>2. CASE \E p \in Path : Lookup(p)
    BY <2>2, LookupStep
  <2>3. CASE \E p \in Path : Delete(p)
    BY <2>3, DeleteStep
  <2>4. CASE \E dir \in Path, name \in Names : Under(dir, name) \in Path /\ Create(dir, name)
    BY <2>4, CreateStep
  <2>5. CASE \E src, dst \in Path :
               \/ CopyNothing(src, dst) \/ CopyFile(src, dst)
               \/ CopyDirectory(src, dst) \/ CopyCrash(src, dst)
    BY <2>5, CopyStep
  <2> QED
    BY <1>2, <2>1, <2>2, <2>3, <2>4, <2>5 DEF Next
<1> QED
  BY <1>1, <1>2

LEMMA NamesInit ==
  ASSUME Init
  PROVE  /\ NamesInv
         /\ \A p \in Path : Servers(hashmap, p) = <<>> /\ Answer(lru, p) = Null
<1>1. /\ count = 0 /\ hashmap = [b \in Bucket |-> <<>>] /\ content = FALSE /\ up = TRUE
      /\ lru = [head |-> Null, tail |-> Null, size |-> 0,
                map |-> [b \in Bucket |-> Null], node |-> <<>>]
  BY DEF Init
<1>2. hashmap \in Map(0)
  BY <1>1 DEF Map
<1>3. <<>> = [x \in {} |-> x] /\ DOMAIN lru.node = {}
  BY <1>1
<1>4. lru.node \in Nodes(0)
  <2>1. <<>> \in [{} -> Node(0)]
    BY <1>3
  <2> QED
    BY <2>1, <1>1 DEF Nodes
<1>5. lru \in Cache(0)
  BY <1>1, <1>4, NamesAssumption DEF Cache, Link
<1>6. Lists(lru, [i \in 1..0 |-> i])
  <2> DEFINE o == [i \in 1..0 |-> i]
  <2>1. o \in Bijection(1..0, {})
    <3>1. 1..0 = {} /\ 0 \in Nat
      OBVIOUS
    <3>2. o \in [1..0 -> {}] /\ \A x \in {} : \E i \in 1..0 : o[i] = x
      BY <3>1
    <3>3. \A i, j \in 1..0 : o[i] = o[j] => i = j
      BY <3>1
    <3> HIDE DEF o
    <3> QED
      BY <3>1, <3>2, <3>3, OneToOne
  <2> QED
    BY <2>1, <1>1, <1>3 DEF Lists, IsOrder
<1>7. \A b \in Bucket : lru.map[b] = Null
  BY <1>1
<1>8. Sound(lru, 0)
  BY <1>1, <1>5, <1>6, <1>7, NamesAssumption DEF Sound, PointsToNode
<1>9. NamesInv
  <2>1. 0 \in 0..MaxServers
    BY NamesAssumption
  <2> QED
    BY <2>1, <1>1, <1>2, <1>8 DEF NamesInv
<1>10. ASSUME NEW p \in Path PROVE Servers(hashmap, p) = <<>> /\ Answer(lru, p) = Null
  <2>1. Hash[p] \in Bucket
    BY NamesAssumption
  <2>2. OwnersIn(hashmap, p) = <<>>
    <3>1. hashmap[Hash[p]] = <<>> /\ <<>> \in Seq({}) /\ Len(<<>>) = 0
      BY <1>1, <2>1
    <3>2. \A i \in 1..Len(<<>>) : <<>>[i].path # p
      BY <3>1
    <3>3. InChain(<<>>, p) = <<>>
      BY <3>1, <3>2, NoneInChain
    <3> QED
      BY <3>1, <3>3 DEF OwnersIn
  <2>3. Servers(hashmap, p) = <<>>
    BY <2>2, <1>2, OwnersAre, EmptySeq
  <2> QED
    BY <2>1, <2>3, <1>7 DEF Answer, CacheHit
<1> QED
  BY <1>9, <1>10

(* The table is a table of owners and the cache a well-formed list in every*)
(* state (efficiency.h:20-158).                                            *)
THEOREM NamesAlways == Spec => []NamesInv
<1>1. Init => NamesInv
  BY NamesInit
<1>2. NamesInv /\ [Next]_vars => NamesInv'
  BY NamesNext
<1> QED
  BY <1>1, <1>2, PTL DEF Spec

LEMMA InvImpliesTypeOK ==
  ASSUME NamesInv
  PROVE  TypeOK
<1>1. lru \in Cache(count) /\ lru.size <= Capacity /\ Capacity \in Nat
  BY NamesAssumption DEF NamesInv, Sound
<1>2. /\ lru.head \in Link /\ lru.tail \in Link /\ lru.size \in Nat
      /\ lru.map \in [Bucket -> Link] /\ lru.node \in Nodes(count)
  BY <1>1, CacheIs
<1>3. lru.size \in 0..Capacity
  BY <1>1, <1>2
<1>4. DOMAIN lru.node \subseteq NodeId /\ lru.node \in [DOMAIN lru.node -> Node(count)]
  BY <1>2 DEF Nodes
<1> QED
  BY <1>2, <1>3, <1>4 DEF TypeOK, NamesInv, Map, Entry, Node, Link

(* The variables of the naming server keep their types: every owner in the *)
(* map or the cache is a server that has registered.                       *)
THEOREM NamesTypes == Spec => []TypeOK
<1>1. NamesInv => TypeOK
  BY InvImpliesTypeOK
<1> QED
  BY <1>1, NamesAlways, PTL

(* The cache's links are one list of all its nodes from head to tail and   *)
(* back, its size counts them, and cacheMap never points to a freed node   *)
(* or to one of another hash value, however paths are entered, moved to    *)
(* the front, evicted and deleted (efficiency.h:108-153, 213-238).         *)
THEOREM NamesCache == Spec => []CacheIsSound
<1>1. NamesInv => CacheIsSound
  BY DEF NamesInv, Sound, Lists, CacheIsSound
<1> QED
  BY <1>1, NamesAlways, PTL

LEMMA RefinedInit ==
  ASSUME Init
  PROVE  Directory!Init
BY NamesInit DEF Directory!Init, Servers, Answer

LEMMA LongerExtends ==
  ASSUME NEW S, NEW T, NEW s \in Seq(S), NEW t \in Seq(T), Longer(s, t)
  PROVE  Directory!Extends(s, t)
<1> DEFINE n == Len(s) - Len(t)
           u == SubSeq(s, n + 1, Len(s))
<1>1. Len(s) \in Nat /\ Len(t) \in Nat /\ n \in 0..Len(s)
  BY LenProperties DEF Longer
<1>2. \A i \in (n + 1)..Len(s) : i \in 1..Len(s) /\ s[i] \in S
  BY <1>1, ElementOfSeq
<1>3. /\ u \in Seq(S)
      /\ Len(u) = IF n + 1 <= Len(s) THEN Len(s) - (n + 1) + 1 ELSE 0
      /\ \A i \in 1..(Len(s) - (n + 1) + 1) : u[i] = s[(n + 1) + i - 1]
  BY <1>1, <1>2, SubSeqProperties
<1> HIDE DEF u
<1>4. Len(u) = Len(t)
  BY <1>1, <1>3
<1>5. ASSUME NEW i \in 1..Len(t) PROVE t[i] = u[i]
  <2>1. i \in 1..(Len(s) - (n + 1) + 1) /\ (n + 1) + i - 1 = i + (Len(s) - Len(t))
    BY <1>1
  <2> QED
    BY <2>1, <1>3 DEF Longer
<1>6. t = u
  <2>1. t \in Seq(S \cup T) /\ u \in Seq(S \cup T)
    <3>1. S \subseteq S \cup T /\ T \subseteq S \cup T
      OBVIOUS
    <3>2. Seq(S) \subseteq Seq(S \cup T) /\ Seq(T) \subseteq Seq(S \cup T)
      BY <3>1, SeqMonotonic, Zenon
    <3> QED
      BY <3>2, <1>3
  <2> QED
    BY <2>1, <1>4, <1>5, SeqEqual
<1> QED
  BY <1>1, <1>6 DEF Directory!Extends, u

LEMMA RefinedEnter ==
  ASSUME NamesInv, NamesInv', Entered
  PROVE  Directory!Enter
<1>1. count \in Nat /\ count' \in Nat /\ hashmap \in Map(count) /\ hashmap' \in Map(count') /\ Sound(lru', count')
      /\ 1..count' \subseteq Slot
  BY NamesAssumption DEF NamesInv, Slot
<1>2. \A p \in Path : Servers(hashmap', p) \in Seq(Slot) /\ Servers(hashmap, p) \in Seq(1..count)
  BY <1>1, OwnersAre, SeqMonotonic
<1>3. \A p \in Path : Answer(lru', p) \in Slot \cup {Null}
  BY <1>1, HitIs DEF Answer
<1>4. \A p \in Path :
        /\ Directory!Extends(Servers(hashmap', p), Servers(hashmap, p))
        /\ Answer(lru', p) \in {Answer(lru, p), Null, HashmapSearch(hashmap', p)}
  BY <1>2, LongerExtends DEF Entered
<1>5. \A p \in Path : HashmapSearch(hashmap', p) =
            IF Servers(hashmap', p) = <<>> THEN Null ELSE Head(Servers(hashmap', p))
  <2>1. count' \in Nat /\ hashmap' \in Map(count')
    BY <1>1, Zenon
  <2> QED
    BY <2>1, SearchIs, Zenon
<1> QED
  BY <1>2, <1>3, <1>4, <1>5, Zenon
  DEF Directory!Enter, Directory!Cached, Directory!Newest, Servers, Answer

LEMMA RefinedDelete ==
  ASSUME NamesInv, NamesInv', NEW p \in Path, Deleted(p)
  PROVE  Directory!Delete(p)
<1>1. count' \in Nat /\ hashmap' \in Map(count') /\ Sound(lru', count') /\ 1..count' \subseteq Slot
  BY NamesAssumption DEF NamesInv, Slot
<1>2. \A q \in Path : Answer(lru', q) \in Slot \cup {Null}
  BY <1>1, HitIs DEF Answer
<1>3. \A q \in Path : HashmapSearch(hashmap', q) =
            IF Servers(hashmap', q) = <<>> THEN Null ELSE Head(Servers(hashmap', q))
  BY <1>1, SearchIs
<1>4. [q \in Path |-> Servers(hashmap', q)] =
        [[q \in Path |-> Servers(hashmap, q)] EXCEPT ![p] =
           IF Servers(hashmap, p) = <<>> THEN Servers(hashmap, p) ELSE Tail(Servers(hashmap, p))]
  BY DEF Deleted
<1>5. /\ Answer(lru', p) = Null
      /\ \A q \in Path \ {p} : Answer(lru', q) \in {Answer(lru, q), Null, HashmapSearch(hashmap', q)}
  BY DEF Deleted
<1> QED
  BY <1>2, <1>3, <1>4, <1>5, Zenon
  DEF Directory!Delete, Directory!Cached, Directory!Newest, Servers, Answer

LEMMA RefinedNext ==
  ASSUME NamesInv, [Next]_vars
  PROVE  Directory!Next
BY NamesNext, RefinedEnter, RefinedDelete DEF Directory!Next

(* The naming server implements NameDirectory: a request enters owners in  *)
(* front of those a path has or takes the newest one away, for no other    *)
(* path, and the cache answers with an owner that was the newest since the *)
(* path was last deleted, or not at all (naming_server.c:163-423).         *)
THEOREM NamesRefine == Spec => NameDirectory
<1>1. Init => Directory!Init
  BY RefinedInit
<1>2. NamesInv /\ [Next]_vars => Directory!Next
  BY RefinedNext
<1> QED
  BY <1>1, <1>2, NamesAlways, PTL DEF Spec, NameDirectory, Directory!Spec
=============================================================================
