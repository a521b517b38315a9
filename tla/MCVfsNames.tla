------------------------------ MODULE MCVfsNames ------------------------------
(* A directory and what copying it into itself makes of its file of the    *)
(* same name; two of the three paths share a hash value.                   *)
EXTENDS VfsNames

MCPath == {<<"a">>, <<"a", "a">>, <<"a", "a", "a">>}
MCHash == [p \in MCPath |-> IF Len(p) < 3 THEN 1 ELSE 2]

(* Which addresses malloc returns makes no difference: states that differ  *)
(* in nothing else are one.  A pointer is viewed as the place of its node  *)
(* in the list, and as -1 when it points elsewhere.                        *)
ListFrom[k \in 0..(Capacity + 1), n \in NodeId \cup {Null}] ==
  IF k = 0 \/ n \notin DOMAIN lru.node THEN <<>> ELSE <<n>> \o ListFrom[k - 1, lru.node[n].next]

Order == ListFrom[Capacity + 1, lru.head]

Place(n) == CASE n = Null -> 0
              [] n \in ToSet(Order) -> CHOOSE i \in DOMAIN Order : Order[i] = n
              [] OTHER -> -1

UpToAddresses ==
  <<count, hashmap, content, up, lru.size, Cardinality(DOMAIN lru.node), Place(lru.tail),
    [b \in Bucket |-> Place(lru.map[b])],
    [i \in DOMAIN Order |-> LET n == lru.node[Order[i]]
                            IN  <<n.path, n.server, Place(n.prev), Place(n.next)>>]>>
=============================================================================
