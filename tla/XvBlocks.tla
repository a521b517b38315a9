----------------------------- MODULE XvBlocks -----------------------------
(***************************************************************************)
(* The blocks of xv6 files (kernel/fs.c): the bitmap, the direct and the   *)
(* indirect pointers, write(), truncation; and the image that mkfs builds  *)
(* (mkfs/mkfs.c).  A file is changed by the holder of its inode's lock, so *)
(* each has at most one call under way; calls on different files meet at   *)
(* the bitmap, whose buffer balloc() and bfree() hold.  Where the data is  *)
(* does not matter, only that a block that holds data or freed pointers is *)
(* no pointer block before it is zeroed.                                   *)
(***************************************************************************)
EXTENDS Naturals, FiniteSets, FiniteSetsExt

CONSTANTS
  File,       \* inodes
  RootDir,    \* the one that mkfs makes first
  NumBlocks,  \* blocks for data
  NDirect, NIndirect,
  BSize,      \* BSIZE
  MaxN        \* bound: bytes of one write()

BlockAssumption ==
  /\ RootDir \in File /\ {NumBlocks, NDirect} \subseteq Nat
  /\ {NIndirect, BSize, MaxN} \subseteq Nat \ {0}

VARIABLES
  phase,     \* mkfs builds the image, or the system runs
  freeblock, \* of mkfs: blocks 1 .. freeblock are taken
  bitmap,    \* blocks that are marked in use
  addrs,     \* of an inode: pointers 0 .. NDirect, the last to a pointer block
  content,   \* of a block, read as a pointer block
  size,
  pc, pos, left  \* the call on an inode, its offset and its bytes to go

vars == <<phase, freeblock, bitmap, addrs, content, size, pc, pos, left>>

Block == 1 .. NumBlocks
Pointer == 0 .. NumBlocks
MaxBytes == (NDirect + NIndirect) * BSize
Zeroes == [j \in 0 .. NIndirect - 1 |-> 0]
Data == [j \in 0 .. NIndirect - 1 |-> 1]

TypeOK ==
  /\ phase \in {"mkfs", "running"} /\ freeblock \in Pointer /\ bitmap \subseteq Block
  /\ addrs \in [File -> [0 .. NDirect -> Pointer]]
  /\ content \in [Block -> [0 .. NIndirect - 1 -> Pointer]]
  /\ size \in [File -> 0 .. MaxBytes]
  /\ pc \in [File -> {"idle", "write", "trunc"}]
  /\ pos \in [File -> 0 .. MaxBytes] /\ left \in [File -> 0 .. MaxN]

Init ==
  /\ phase = "mkfs" /\ freeblock = 0 /\ bitmap = {}
  /\ addrs = [f \in File |-> [i \in 0 .. NDirect |-> 0]]
  /\ content = [b \in Block |-> Zeroes]
  /\ size = [f \in File |-> 0]
  /\ pc = [f \in File |-> "idle"]
  /\ pos = [f \in File |-> 0] /\ left = [f \in File |-> 0]

-----------------------------------------------------------------------------
(* bmap(), and what iappend() of mkfs does in its place *)

Indirect(f) == addrs[f][NDirect]

\* The block of the bn-th piece of a file, 0 if it has none.
Mapped(f, bn) ==
  IF bn < NDirect THEN addrs[f][bn]
  ELSE IF Indirect(f) = 0 THEN 0 ELSE content[Indirect(f)][bn - NDirect]

\* Block b becomes the one that is missing on the way to piece bn.
Attach(f, bn, b) ==
  \/ /\ bn < NDirect \/ Indirect(f) = 0
     /\ addrs' = [addrs EXCEPT ![f][IF bn < NDirect THEN bn ELSE NDirect] = b]
     /\ content' = [content EXCEPT ![b] = Zeroes]
  \/ /\ bn >= NDirect /\ Indirect(f) # 0
     /\ content' = [content EXCEPT ![b] = Zeroes, ![Indirect(f)][bn - NDirect] = b]
     /\ UNCHANGED addrs

-----------------------------------------------------------------------------
(* mkfs *)

\* A turn of iappend(): a block is taken, or filled further.
Append(f, n) ==
  LET bn == size[f] \div BSize IN
  /\ phase = "mkfs" /\ size[f] + n <= MaxBytes /\ (size[f] % BSize) + n <= BSize
  /\ IF Mapped(f, bn) = 0
       THEN /\ freeblock < NumBlocks
            /\ freeblock' = freeblock + 1
            /\ Attach(f, bn, freeblock + 1)
            /\ UNCHANGED size
       ELSE /\ size' = [size EXCEPT ![f] = @ + n]
            /\ content' = [content EXCEPT ![Mapped(f, bn)] = Data]
            /\ UNCHANGED <<freeblock, addrs>>
  /\ UNCHANGED <<phase, bitmap, pc, pos, left>>

\* No iappend() is under way.
Settled(f) ==
  /\ (size[f] % BSize = 0 /\ size[f] < MaxBytes) => Mapped(f, size[f] \div BSize) = 0
  /\ Indirect(f) # 0 => size[f] > NDirect * BSize

\* The root directory's size is rounded up and the bitmap is written.  The
\* image has fewer programs than fill the directory's last block, or else the
\* rounding adds one that has no block.
MkfsEnd ==
  /\ phase = "mkfs" /\ size[RootDir] % BSize # 0
  /\ \A f \in File : Settled(f)
  /\ phase' = "running"
  /\ size' = [size EXCEPT ![RootDir] = (@ \div BSize + 1) * BSize]
  /\ bitmap' = 1 .. freeblock
  /\ UNCHANGED <<freeblock, addrs, content, pc, pos, left>>

-----------------------------------------------------------------------------
(* writei() *)

Write(f, off, n) ==
  /\ phase = "running" /\ pc[f] = "idle"
  /\ off <= size[f] /\ off + n <= MaxBytes
  /\ pc' = [pc EXCEPT ![f] = "write"]
  /\ pos' = [pos EXCEPT ![f] = off] /\ left' = [left EXCEPT ![f] = n]
  /\ UNCHANGED <<phase, freeblock, bitmap, addrs, content, size>>

Piece(f) == pos[f] \div BSize
Writing(f) == pc[f] = "write" /\ left[f] > 0

\* Mutant of Allocate: balloc() does not zero the block.
AllocateDirty(f) ==
  LET b == Min(Block \ bitmap)
      bn == Piece(f)
  IN
  /\ Writing(f) /\ Mapped(f, Piece(f)) = 0 /\ bitmap # Block
  /\ bitmap' = bitmap \cup {b}
  /\ IF bn < NDirect \/ Indirect(f) = 0
       THEN /\ addrs' = [addrs EXCEPT ![f][IF bn < NDirect THEN bn ELSE NDirect] = b]
            /\ UNCHANGED content
       ELSE /\ content' = [content EXCEPT ![Indirect(f)][bn - NDirect] = b]
            /\ UNCHANGED addrs
  /\ UNCHANGED <<phase, freeblock, size, pc, pos, left>>

\* balloc() for bmap(): the first free block.
Allocate(f) ==
  LET b == Min(Block \ bitmap) IN
  /\ Writing(f) /\ Mapped(f, Piece(f)) = 0 /\ bitmap # Block
  /\ bitmap' = bitmap \cup {b}
  /\ Attach(f, Piece(f), b)
  /\ UNCHANGED <<phase, freeblock, size, pc, pos, left>>

\* The rest of a piece is copied and logged.
Copy(f) ==
  LET m == Min({left[f], BSize - (pos[f] % BSize)}) IN
  /\ Writing(f) /\ Mapped(f, Piece(f)) # 0
  /\ content' = [content EXCEPT ![Mapped(f, Piece(f))] = Data]
  /\ pos' = [pos EXCEPT ![f] = @ + m] /\ left' = [left EXCEPT ![f] = @ - m]
  /\ UNCHANGED <<phase, freeblock, bitmap, addrs, size, pc>>

\* All is written, the disk is full, or the program's memory cannot be read.
WriteEnd(f) ==
  /\ pc[f] = "write"
  /\ left[f] > 0 => Mapped(f, Piece(f)) # 0 \/ bitmap = Block
  /\ size' = [size EXCEPT ![f] = Max({@, pos[f]})]
  /\ pc' = [pc EXCEPT ![f] = "idle"]
  /\ pos' = [pos EXCEPT ![f] = 0] /\ left' = [left EXCEPT ![f] = 0]
  /\ UNCHANGED <<phase, freeblock, bitmap, addrs, content>>

-----------------------------------------------------------------------------
(* itrunc(), for open() with O_TRUNC and for the last iput() *)

Trunc(f) ==
  /\ phase = "running" /\ pc[f] = "idle" /\ f # RootDir
  /\ pc' = [pc EXCEPT ![f] = "trunc"]
  /\ UNCHANGED <<phase, freeblock, bitmap, addrs, content, size, pos, left>>

DirectLeft(f) == {i \in 0 .. NDirect - 1 : addrs[f][i] # 0}

FreeDirect(f) ==
  LET i == Min(DirectLeft(f)) IN
  /\ pc[f] = "trunc" /\ DirectLeft(f) # {}
  /\ bitmap' = bitmap \ {addrs[f][i]}
  /\ addrs' = [addrs EXCEPT ![f][i] = 0]
  /\ UNCHANGED <<phase, freeblock, content, size, pc, pos, left>>

\* The pointers stay in the pointer block; pos counts those that are done.
FreeThroughIndirect(f) ==
  LET b == content[Indirect(f)][pos[f]] IN
  /\ pc[f] = "trunc" /\ DirectLeft(f) = {} /\ Indirect(f) # 0 /\ pos[f] < NIndirect
  /\ bitmap' = bitmap \ {b}
  /\ pos' = [pos EXCEPT ![f] = @ + 1]
  /\ UNCHANGED <<phase, freeblock, addrs, content, size, pc, left>>

TruncEnd(f) ==
  /\ pc[f] = "trunc" /\ DirectLeft(f) = {} /\ (Indirect(f) = 0 \/ pos[f] = NIndirect)
  /\ bitmap' = bitmap \ {Indirect(f)}
  /\ addrs' = [addrs EXCEPT ![f][NDirect] = 0]
  /\ size' = [size EXCEPT ![f] = 0]
  /\ pos' = [pos EXCEPT ![f] = 0]
  /\ pc' = [pc EXCEPT ![f] = "idle"]
  /\ UNCHANGED <<phase, freeblock, content, left>>

-----------------------------------------------------------------------------
Next ==
  \/ MkfsEnd
  \/ \E f \in File :
       \/ Allocate(f) \/ Copy(f) \/ WriteEnd(f)
       \/ Trunc(f) \/ FreeDirect(f) \/ FreeThroughIndirect(f) \/ TruncEnd(f)
       \/ \E n \in 1 .. BSize : Append(f, n)
       \/ \E off \in 0 .. MaxBytes, n \in 1 .. MaxN : Write(f, off, n)

Spec == Init /\ [][Next]_vars

-----------------------------------------------------------------------------
(* Properties *)

DirectRefs(b) == Cardinality({s \in File \X (0 .. NDirect) : addrs[s[1]][s[2]] = b})
IndirectRefs(b) ==
  Cardinality({s \in File \X (0 .. NIndirect - 1) :
                 /\ Indirect(s[1]) # 0 /\ content[Indirect(s[1])][s[2]] = b
                 /\ pc[s[1]] = "trunc" => s[2] >= pos[s[1]]})

\* A block is marked in use exactly if one pointer of one file leads to it, so
\* bfree() never frees a free block (fs.c:101) nor one of another file, and no
\* block is lost: also when the disk fills up between the pointer block and the
\* block it should point to (fs.c:399).
BitmapExact ==
  phase = "running" =>
    \A b \in Block : DirectRefs(b) + IndirectRefs(b) = (IF b \in bitmap THEN 1 ELSE 0)

\* Every piece of a file has a block: readi() never makes bmap() allocate one,
\* which it would do outside of a transaction (fs.c:482).
NoHoles ==
  phase = "running" =>
    \A f \in File : pc[f] # "trunc" =>
      \A bn \in 0 .. NDirect + NIndirect - 1 : bn * BSize < size[f] => Mapped(f, bn) # 0
=============================================================================
