------------------------------- MODULE VfsNames -------------------------------
(***************************************************************************)
(* The naming server's directory (common/efficiency.h): a chained hash map *)
(* from paths to storage servers, and in front of it an LRU cache, a       *)
(* doubly linked list of malloc'ed nodes with one pointer per hash value   *)
(* into it; and the requests of naming_server.c that use them.             *)
(*                                                                         *)
(* handle_client() holds one global mutex from its first look at the       *)
(* request to its last, so a request is one step.  What the storage        *)
(* servers answer is chosen: "success", "failure" (any other text) or      *)
(* "unreachable" (send_command_to_storage_server() returns -1).            *)
(***************************************************************************)
EXTENDS Integers, SequencesExt

CONSTANTS Path,        \* sequences of names; longer ones are out of the model
          Bucket,
          Hash,        \* hash(): [Path -> Bucket]
          MaxServers,  \* MAX_STORAGE_SERVERS
          Capacity,    \* CACHE_CAPACITY
          MaxEntries,    \* bounds the entries of the hash map,
          MaxAdvertised, \* the paths of one REGISTER
          MaxFiles       \* and the files of a copied directory

ASSUME NamesAssumption ==
  /\ Path \subseteq Seq(UNION {Range(p) : p \in Path})
  /\ Hash \in [Path -> Bucket]
  /\ MaxServers \in Nat \ {0}
  /\ Capacity \in Nat \ {0}
  /\ MaxEntries \in Nat /\ MaxAdvertised \in Nat /\ MaxFiles \in Nat

Slot == 1..MaxServers       \* storage_servers[]
Null == 0                   \* no node, no server
NodeId == 1..(Capacity + 1)

VARIABLES count,    \* storage_server_count
          hashmap,  \* hashmap[b]: the chain of b, its head first
          lru,      \* *lruCache; DOMAIN lru.node is what malloc has handed out
          content,  \* the global that makes the next reply one of raw data
          up        \* the naming server has not crashed

vars == <<count, hashmap, lru, content, up>>

Names == {Last(p) : p \in Path}
Under(dir, name) == Append(dir, name)

-----------------------------------------------------------------------------
(* The hash map.                                                           *)
HashmapInsert(h, p, s) ==
  [h EXCEPT ![Hash[p]] = <<[path |-> p, server |-> s]>> \o @]

(* The paths one after the other, so that the last one's entry comes first.*)
InsertAll(h, paths, s) ==
  LET after[n \in 0..Len(paths)] ==
        IF n = 0 THEN h ELSE HashmapInsert(after[n - 1], paths[n], s)
  IN  after[Len(paths)]

(* The entries of a chain for p, in their order: those of its last n.      *)
InChain(chain, p) ==
  LET among[n \in 0..Len(chain)] ==
        IF n = 0 THEN <<>>
        ELSE LET e == chain[Len(chain) + 1 - n]
             IN  IF e.path = p THEN <<e>> \o among[n - 1] ELSE among[n - 1]
  IN  among[Len(chain)]

OwnersIn(h, p) == InChain(h[Hash[p]], p)

HashmapSearch(h, p) == IF OwnersIn(h, p) = <<>> THEN Null ELSE Head(OwnersIn(h, p)).server

HashmapDelete(h, p) ==
  [h EXCEPT ![Hash[p]] = RemoveFirstMatch(@, LAMBDA e : e.path = p)]

-----------------------------------------------------------------------------
(* The list of the cache: writes through a pointer that is not NULL.       *)
SetNext(node, n, v) ==
  [x \in DOMAIN node |-> IF x = n THEN [node[x] EXCEPT !.next = v] ELSE node[x]]
SetPrev(node, n, v) ==
  [x \in DOMAIN node |-> IF x = n THEN [node[x] EXCEPT !.prev = v] ELSE node[x]]

Malloc(node) == CHOOSE n \in NodeId \ DOMAIN node : \A x \in NodeId \ DOMAIN node : n <= x
Without(node, n) == [x \in DOMAIN node \ {n} |-> node[x]]

(* n leaves its place: its neighbours are joined.                          *)
Bypass(node, n) == SetPrev(SetNext(node, node[n].prev, node[n].next), node[n].next, node[n].prev)

MoveToHead(c, n) ==
  IF n = c.head THEN c
  ELSE LET last == IF n = c.tail THEN c.node[n].prev ELSE c.tail
           moved == SetPrev(SetNext(SetPrev(Bypass(c.node, n), n, Null), n, c.head), c.head, n)
       IN  [c EXCEPT !.node = moved, !.head = n, !.tail = IF last = Null THEN n ELSE last]

(* The node cacheMap has for p, if its path is p.                          *)
CacheHit(c, p) == c.map[Hash[p]] # Null /\ c.node[c.map[Hash[p]]].path = p

(* Variants with one slip each: an eviction that leaves the pointer to the *)
(* node it frees; a deletion that does not look into the cache.            *)
EvictKeepMap(c) ==
  LET old == c.tail
  IN  [c EXCEPT !.node = Without(SetNext(c.node, c.node[old].prev, Null), old),
                !.tail = c.node[old].prev, !.size = @ - 1]

CacheDeleteNothing(c, p) == c

(* The least recently used node is freed, and its hash value's pointer     *)
(* cleared, even when that points to another node.                         *)
Evict(c) ==
  LET old == c.tail
  IN  [c EXCEPT !.node = Without(SetNext(c.node, c.node[old].prev, Null), old),
                !.tail = c.node[old].prev,
                !.map[Hash[c.node[old].path]] = Null,
                !.size = @ - 1]

(* A node for p comes first, whether or not there is another one for p.    *)
AddToCache(c, p, s) ==
  LET n == Malloc(c.node)
      new == [path |-> p, server |-> s, prev |-> Null, next |-> c.head]
      linked == SetPrev(c.node, c.head, n)
      added == [node |-> [x \in DOMAIN c.node \cup {n} |-> IF x = n THEN new ELSE linked[x]],
                head |-> n,
                tail |-> IF c.tail = Null THEN n ELSE c.tail,
                map |-> [c.map EXCEPT ![Hash[p]] = n],
                size |-> c.size + 1]
  IN  IF added.size > Capacity THEN Evict(added) ELSE added

AddAll(c, paths, s) ==
  LET after[n \in 0..Len(paths)] ==
        IF n = 0 THEN c ELSE AddToCache(after[n - 1], paths[n], s)
  IN  after[Len(paths)]

CacheDelete(c, p) ==
  IF ~CacheHit(c, p) THEN c
  ELSE LET n == c.map[Hash[p]]
       IN  [c EXCEPT !.node = Without(Bypass(c.node, n), n),
                     !.head = IF c.node[n].prev = Null THEN c.node[n].next ELSE @,
                     !.tail = IF c.node[n].next = Null THEN c.node[n].prev ELSE @,
                     !.map[Hash[p]] = Null,
                     !.size = @ - 1]

(* searchWithCache(): what it returns, and what it makes of the cache.     *)
Resolved(h, c, p) == IF CacheHit(c, p) THEN c.node[c.map[Hash[p]]].server ELSE HashmapSearch(h, p)

Searched(h, c, p) ==
  IF CacheHit(c, p) THEN MoveToHead(c, c.map[Hash[p]])
  ELSE IF HashmapSearch(h, p) # Null THEN AddToCache(c, p, HashmapSearch(h, p)) ELSE c

-----------------------------------------------------------------------------
Init ==
  /\ count = 0
  /\ hashmap = [b \in Bucket |-> <<>>]
  /\ lru = [head |-> Null, tail |-> Null, size |-> 0, map |-> [b \in Bucket |-> Null],
            node |-> <<>>]
  /\ content = FALSE
  /\ up = TRUE

Room(n) == MapThenSumSet(LAMBDA b : Len(hashmap[b]), Bucket) + n <= MaxEntries

(* One more variant: an unregistered slot that answers.                    *)
RepliesAlways(s) == {"success", "failure", "unreachable"}

(* What the server in slot s answers.                                      *)
Replies(s) == IF s <= count THEN {"success", "failure", "unreachable"} ELSE {"unreachable"}

(* A storage server introduces itself and the paths it has, at each start: *)
(* one that starts again gets another slot, and enters its paths again.    *)
Register(paths) ==
  /\ count < MaxServers
  /\ Room(Len(paths))
  /\ count' = count + 1
  /\ hashmap' = InsertAll(hashmap, paths, count + 1)
  /\ UNCHANGED <<lru, content, up>>

(* A request to create something in dir.  When dir has an owner that one   *)
(* is asked, and only the hash map learns of the new path; otherwise some  *)
(* slot is drawn, which may be the first free one: its address is empty.   *)
Create(dir, name) ==
  LET owner == Resolved(hashmap, lru, dir)
      c == Searched(hashmap, lru, dir)
      p == Under(dir, name)
  IN  /\ \E s \in IF owner # Null THEN {owner} ELSE 1..(count + 1) :
           \E reply \in Replies(s) :
             IF reply = "success"
             THEN /\ Room(1)
                  /\ hashmap' = HashmapInsert(hashmap, p, s)
                  /\ lru' = IF owner # Null THEN c ELSE AddToCache(c, p, s)
             ELSE lru' = c /\ UNCHANGED hashmap
      /\ UNCHANGED <<count, content, up>>

(* A request to delete p, as DELETE <p> or as DELETE <dir> <name>.         *)
Delete(p) ==
  /\ \E dir \in {p, Front(p)} \cap Path :
       /\ Resolved(hashmap, lru, dir) # Null
       /\ LET c == Searched(hashmap, lru, dir) IN
            \/ lru' = CacheDelete(c, p) /\ hashmap' = HashmapDelete(hashmap, p)
            \/ lru' = c /\ UNCHANGED hashmap
  /\ UNCHANGED <<count, content, up>>

(* READ, WRITE, STAT and STREAM: the owner's address is the reply, and the *)
(* path enters the cache once more.                                        *)
Lookup(p) ==
  LET s == Resolved(hashmap, lru, p) IN
  /\ s # Null
  /\ lru' = AddToCache(Searched(hashmap, lru, p), p, s)
  /\ UNCHANGED <<count, hashmap, content, up>>

-----------------------------------------------------------------------------
(* COPY: both paths are looked up, then the source's server is asked what  *)
(* kind of thing the source is.                                            *)
AfterSource(src) == Searched(hashmap, lru, src)
AfterBoth(src, dst) == Searched(hashmap, AfterSource(src), dst)
SourceOwner(src) == Resolved(hashmap, lru, src)
TargetOwner(src, dst) == Resolved(hashmap, AfterSource(src), dst)
BothFound(src, dst) == SourceOwner(src) # Null /\ TargetOwner(src, dst) # Null

(* A path has no owner, or a server fails before anything is copied: an    *)
(* early return leaves `content' as it is.                                 *)
CopyNothing(src, dst) ==
  /\ lru' = AfterBoth(src, dst)
  /\ content' \in IF BothFound(src, dst) THEN {FALSE, content} ELSE {FALSE}
  /\ UNCHANGED <<count, hashmap, up>>

(* The paths of `entered' go to the map and the cache, in their order.     *)
CopyEnters(src, dst, entered) ==
  LET s == TargetOwner(src, dst)
  IN  /\ Room(Len(entered))
      /\ hashmap' = InsertAll(hashmap, entered, s)
      /\ lru' = AddAll(AfterBoth(src, dst), entered, s)

(* One file.  `content' stays set when the source's server is gone by the  *)
(* time it is asked for the data.                                          *)
CopyFile(src, dst) ==
  /\ BothFound(src, dst)
  /\ \/ /\ Under(dst, Last(src)) \in Path
        /\ CopyEnters(src, dst, <<Under(dst, Last(src))>>)
        /\ content' = FALSE
     \/ lru' = AfterBoth(src, dst) /\ content' = TRUE /\ UNCHANGED hashmap
  /\ UNCHANGED <<count, up>>

(* A directory: the new directory is entered, then each file that could be *)
(* copied, until one of the servers is gone.  The list of files is parsed  *)
(* from the '>' that send_command_to_storage_server() puts before a reply, *)
(* unless `content' is still set: then the NULL of strrchr() is followed.  *)
CopyDirectory(src, dst) ==
  LET dir == Under(dst, Last(src)) IN
  /\ BothFound(src, dst)
  /\ ~content
  /\ dir \in Path
  /\ \E files \in BoundedSeq({n \in Names : Under(dir, n) \in Path}, MaxFiles) :
       CopyEnters(src, dst, <<dir>> \o [i \in DOMAIN files |-> Under(dir, files[i])])
  /\ content' \in BOOLEAN
  /\ UNCHANGED <<count, up>>

CopyCrash(src, dst) ==
  /\ BothFound(src, dst)
  /\ content
  /\ up' = FALSE
  /\ UNCHANGED <<count, hashmap, lru, content>>

-----------------------------------------------------------------------------
Next ==
  /\ up
  /\ \/ \E paths \in BoundedSeq(Path, MaxAdvertised) : Register(paths)
     \/ \E p \in Path : Lookup(p) \/ Delete(p)
     \/ \E dir \in Path, name \in Names : Under(dir, name) \in Path /\ Create(dir, name)
     \/ \E src, dst \in Path :
          \/ CopyNothing(src, dst) \/ CopyFile(src, dst)
          \/ CopyDirectory(src, dst) \/ CopyCrash(src, dst)

Spec == Init /\ [][Next]_vars

-----------------------------------------------------------------------------
(* `order' is how the links of c go through all nodes that are allocated:  *)
(* next from head to tail, and prev back.                                  *)
IsOrder(c, order) ==
  /\ c.head = IF c.size = 0 THEN Null ELSE order[1]
  /\ c.tail = IF c.size = 0 THEN Null ELSE order[c.size]
  /\ \A i \in 1..c.size :
       /\ c.node[order[i]].next = IF i = c.size THEN Null ELSE order[i + 1]
       /\ c.node[order[i]].prev = IF i = 1 THEN Null ELSE order[i - 1]

(* A pointer of cacheMap leads to a node, of its hash value.               *)
PointsToNode(c, b) ==
  c.map[b] # Null => c.map[b] \in DOMAIN c.node /\ Hash[c.node[c.map[b]].path] = b

(* The variables keep their types; and every owner in the map or the cache *)
(* is a server that has registered, although CREATE draws from one slot    *)
(* more than there are (naming_server.c:197).                              *)
TypeOK ==
  /\ count \in 0..MaxServers
  /\ hashmap \in [Bucket -> Seq([path : Path, server : 1..count])]
  /\ lru.head \in NodeId \cup {Null} /\ lru.tail \in NodeId \cup {Null}
  /\ lru.size \in 0..Capacity
  /\ lru.map \in [Bucket -> NodeId \cup {Null}]
  /\ DOMAIN lru.node \subseteq NodeId
  /\ lru.node \in [DOMAIN lru.node -> [path : Path, server : 1..count, prev : NodeId \cup {Null},
                                      next : NodeId \cup {Null}]]
  /\ content \in BOOLEAN
  /\ up \in BOOLEAN

(* The cache's list is a list: next leads from head over every node that   *)
(* is allocated to tail, prev leads back, and size counts them, although   *)
(* a path may have several nodes and nodes are freed from the middle; and  *)
(* cacheMap never points to a node that has been freed, nor to one of      *)
(* another hash value (efficiency.h:108-153, 213-238).                     *)
CacheIsSound ==
  /\ \E order \in Bijection(1..lru.size, DOMAIN lru.node) : IsOrder(lru, order)
  /\ \A b \in Bucket : PointsToNode(lru, b)

(* Whatever the pointers do, the directory is a NameDirectory: a path that *)
(* has been deleted as often as it was entered is answered "not found",    *)
(* and the cache names a server only if the hash map does.                 *)
Directory == INSTANCE NameDirectory WITH
  Owner <- Slot, None <- Null,
  owners <- [p \in Path |-> [i \in DOMAIN OwnersIn(hashmap, p) |-> OwnersIn(hashmap, p)[i].server]],
  recent <- [p \in Path |-> IF CacheHit(lru, p) THEN lru.node[lru.map[Hash[p]]].server ELSE Null]

NameDirectory == Directory!Spec
=============================================================================
