------------------------- MODULE ExtentServerProofs -------------------------
(***************************************************************************)
(* For every size of blocks, inodes and disk, and for files of any depth   *)
(* that are created, put, cut to nothing and removed in any order, no      *)
(* block belongs to two slots and the inodes of a table are nobody else's. *)
(***************************************************************************)
EXTENDS ExtentServer, NaturalsFacts, SequenceTheorems

BlockType == [1 .. BLOCK_SIZE -> Nat]
InodeType == [type : {0, T_DIR, T_FILE, T_LNK}, size : 0 .. NDIRECT + 1,
              blocks : [0 .. NDIRECT -> 0 .. NDATA]]
StatusType == {"ok", "bad_alloc", "segv"}

(* The file system state by its parts.                                     *)
LEMMA FsParts ==
    ASSUME NEW f \in FsType
    PROVE  /\ f.used \in SUBSET DataBlocks /\ f.disk \in [0 .. NDATA -> BlockType]
           /\ f.inode \in [Inums -> InodeType] /\ f.status \in StatusType
           /\ f = [used |-> f.used, disk |-> f.disk, inode |-> f.inode, status |-> f.status]
  BY DEF FsType, BlockType, InodeType, StatusType

LEMMA FsWhole ==
    ASSUME NEW u \in SUBSET DataBlocks, NEW d \in [0 .. NDATA -> BlockType],
           NEW n \in [Inums -> InodeType], NEW s \in StatusType
    PROVE  [used |-> u, disk |-> d, inode |-> n, status |-> s] \in FsType
  BY DEF FsType, BlockType, InodeType, StatusType

LEMMA InodeParts ==
    ASSUME NEW n \in InodeType
    PROVE  /\ n.type \in {0, T_DIR, T_FILE, T_LNK} /\ n.size \in 0 .. NDIRECT + 1
           /\ n.blocks \in [0 .. NDIRECT -> 0 .. NDATA]
           /\ n = [type |-> n.type, size |-> n.size, blocks |-> n.blocks]
  BY DEF InodeType

(* A block of zeros and an inode of zeros.                                 *)
LEMMA Zeros ==
    /\ ZeroBlock \in BlockType
    /\ ZeroInode \in InodeType /\ ZeroInode.type = 0 /\ ZeroInode.size = 0
    /\ \A k \in 0 .. NDIRECT : ZeroInode.blocks[k] = 0
  BY SizesAssumption DEF ZeroBlock, BlockType, ZeroInode, InodeType
-----------------------------------------------------------------------------
(* What each primitive of the block and inode layers does to the parts.    *)
LEMMA DieEffect ==
    ASSUME NEW f \in FsType, NEW why \in StatusType \ {"ok"}
    PROVE  /\ die(f, why) \in FsType /\ die(f, why).status # "ok"
  <1>1. CASE f.status = "ok"
    <2> DEFINE g == [f EXCEPT !.status = why]
    <2>1. g = [used |-> f.used, disk |-> f.disk, inode |-> f.inode, status |-> why]
      BY FsParts
    <2>2. g \in FsType /\ g.status = why
      BY <2>1, FsParts, FsWhole
    <2> QED BY <1>1, <2>2 DEF die
  <1>2. CASE f.status # "ok"
    BY <1>2 DEF die
  <1> QED BY <1>1, <1>2

LEMMA FindFreeBlock ==
    ASSUME NEW f \in FsType
    PROVE  find_free_block(f) = 0 \/ find_free_block(f) \in DataBlocks \ f.used
  <1> DEFINE free == DataBlocks \ f.used
  <1>1. CASE free = {}
    BY <1>1 DEF find_free_block
  <1>2. CASE free # {}
    <2>1. free \in SUBSET Nat
      BY SizesAssumption DEF DataBlocks
    <2> HIDE DEF free
    <2>2. \E x \in free : \A y \in free : x <= y
      BY <1>2, <2>1, Least
    <2>3. Min(free) \in free
      BY <2>2 DEF Min
    <2> QED BY <1>2, <2>3 DEF find_free_block, free
  <1> QED BY <1>1, <1>2

LEMMA FindFreeInode ==
    ASSUME NEW f \in FsType
    PROVE  \/ find_free_inode(f) = 0
           \/ find_free_inode(f) \in Inums /\ f.inode[find_free_inode(f)].type = 0
  <1> DEFINE free == {i \in Inums : f.inode[i].type = 0}
  <1>1. CASE free = {}
    BY <1>1 DEF find_free_inode
  <1>2. CASE free # {}
    <2>1. free \in SUBSET Nat
      BY SizesAssumption DEF Inums
    <2>2. \A i \in free : i \in Inums /\ f.inode[i].type = 0
      OBVIOUS
    <2>3. find_free_inode(f) = Min(free)
      BY <1>2 DEF find_free_inode
    <2> HIDE DEF free
    <2>4. \E x \in free : \A y \in free : x <= y
      BY <1>2, <2>1, Least
    <2>5. Min(free) \in free
      BY <2>4 DEF Min
    <2> QED BY <2>2, <2>3, <2>5
  <1> QED BY <1>1, <1>2

(* A block taken and written: the two always come together.                *)
LEMMA TakeBlock ==
    ASSUME NEW f \in FsType, NEW b, b = find_free_block(f), b # 0
    PROVE  LET g == alloc_block(f)
           IN /\ g \in FsType
              /\ g.used = f.used \cup {b} /\ g.disk = f.disk
              /\ g.inode = f.inode /\ g.status = f.status
  <1>1. b \in DataBlocks
    BY FindFreeBlock
  <1>2. alloc_block(f) = [used |-> f.used \cup {b}, disk |-> f.disk, inode |-> f.inode,
                          status |-> f.status]
    <2>1. alloc_block(f) = [f EXCEPT !.used = @ \cup ({b} \ {0})]
      BY DEF alloc_block
    <2>2. f.used \cup ({b} \ {0}) = f.used \cup {b}
      OBVIOUS
    <2> DEFINE u == f.used \cup {b}
    <2>3. alloc_block(f) = [f EXCEPT !.used = u]
      BY <2>1, <2>2
    <2> HIDE DEF u
    <2>4. [f EXCEPT !.used = u] = [used |-> u, disk |-> f.disk, inode |-> f.inode,
                                   status |-> f.status]
      BY FsParts
    <2> QED BY <2>3, <2>4 DEF u
  <1>3. f.used \cup {b} \in SUBSET DataBlocks
    BY <1>1, FsParts
  <1> QED BY <1>2, <1>3, FsParts, FsWhole

LEMMA WriteBlock ==
    ASSUME NEW f \in FsType, NEW b \in 0 .. NDATA, NEW buf \in BlockType
    PROVE  LET g == write_block(f, b, buf)
           IN /\ g \in FsType
              /\ g.used = f.used /\ g.inode = f.inode /\ g.status = f.status
              /\ g.disk[b] = buf
              /\ \A c \in 0 .. NDATA : c # b => g.disk[c] = f.disk[c]
  <1> DEFINE d == [f.disk EXCEPT ![b] = buf]
  <1>1. write_block(f, b, buf) = [used |-> f.used, disk |-> d, inode |-> f.inode, status |-> f.status]
    BY FsParts DEF write_block
  <1>2. /\ d \in [0 .. NDATA -> BlockType] /\ d[b] = buf
        /\ \A c \in 0 .. NDATA : c # b => d[c] = f.disk[c]
    BY FsParts
  <1> HIDE DEF d
  <1> QED BY <1>1, <1>2, FsParts, FsWhole

LEMMA FreeBlocks ==
    ASSUME NEW f \in FsType, NEW ids
    PROVE  LET g == free_blocks(f, ids)
           IN /\ g \in FsType
              /\ g.used = f.used \ ids /\ g.inode = f.inode /\ g.status = f.status
              /\ \A c \in 0 .. NDATA : c \notin ids \cap f.used => g.disk[c] = f.disk[c]
  <1> DEFINE d == [b \in 0 .. NDATA |-> IF b \in ids \cap f.used THEN ZeroBlock ELSE f.disk[b]]
  <1>1. free_blocks(f, ids) = [used |-> f.used \ ids, disk |-> d, inode |-> f.inode,
                               status |-> f.status]
    BY DEF free_blocks
  <1>2. /\ d \in [0 .. NDATA -> BlockType]
        /\ \A c \in 0 .. NDATA : c \notin ids \cap f.used => d[c] = f.disk[c]
    BY FsParts, Zeros
  <1>3. f.used \ ids \in SUBSET DataBlocks
    BY FsParts
  <1> HIDE DEF d
  <1> QED BY <1>1, <1>2, <1>3, FsParts, FsWhole

LEMMA PutInode ==
    ASSUME NEW f \in FsType, NEW i \in Inums, NEW n \in InodeType
    PROVE  LET g == put_inode(f, i, n)
           IN /\ g \in FsType
              /\ g.used = f.used /\ g.disk = f.disk /\ g.status = f.status
              /\ g.inode[i] = n
              /\ \A j \in Inums : j # i => g.inode[j] = f.inode[j]
  <1> DEFINE d == [f.inode EXCEPT ![i] = n]
  <1>1. put_inode(f, i, n) = [used |-> f.used, disk |-> f.disk, inode |-> d, status |-> f.status]
    BY FsParts DEF put_inode
  <1>2. /\ d \in [Inums -> InodeType] /\ d[i] = n
        /\ \A j \in Inums : j # i => d[j] = f.inode[j]
    BY FsParts
  <1> HIDE DEF d
  <1> QED BY <1>1, <1>2, FsParts, FsWhole

(* A new inode is one that was free, and starts from zeros.                *)
LEMMA TakeInode ==
    ASSUME NEW f \in FsType, NEW type \in {T_DIR, T_FILE, T_LNK}
    PROVE  LET g == alloc_inode(f, type)
               i == find_free_inode(f)
           IN /\ g \in FsType /\ (g.status = "ok" => f.status = "ok")
              /\ g.status = "ok" =>
                   /\ i \in Inums /\ f.inode[i].type = 0
                   /\ g.used = f.used /\ g.disk = f.disk
                   /\ g.inode[i] = [ZeroInode EXCEPT !.type = type]
                   /\ \A j \in Inums : j # i => g.inode[j] = f.inode[j]
  <1> DEFINE i == find_free_inode(f)
             n == [ZeroInode EXCEPT !.type = type]
  <1>1. n \in InodeType
    BY Zeros DEF InodeType, ZeroInode
  <1>2. CASE i = 0
    <2>1. alloc_inode(f, type) = die(f, "segv")
      BY <1>2 DEF alloc_inode
    <2> QED BY <2>1, DieEffect DEF StatusType
  <1>3. CASE i # 0
    <2>1. i \in Inums /\ f.inode[i].type = 0
      BY <1>3, FindFreeInode
    <2>2. alloc_inode(f, type) = put_inode(f, i, n)
      BY <1>3 DEF alloc_inode
    <2> HIDE DEF i, n
    <2>3. LET g == put_inode(f, i, n)
          IN /\ g \in FsType
             /\ g.used = f.used /\ g.disk = f.disk /\ g.status = f.status
             /\ g.inode[i] = n
             /\ \A j \in Inums : j # i => g.inode[j] = f.inode[j]
      BY <1>1, <2>1, PutInode
    <2> QED BY <2>1, <2>2, <2>3 DEF i, n
  <1> QED BY <1>2, <1>3
-----------------------------------------------------------------------------
(* What blocks of data and parts of it are made of.                        *)
LEMMA ChunkTyped ==
    ASSUME NEW data \in Seq(Nat), NEW i \in Nat
    PROVE  Chunk(data, i) \in BlockType
  <1>1. ASSUME NEW k \in 1 .. BLOCK_SIZE
        PROVE  (IF i * BLOCK_SIZE + k <= Len(data) THEN data[i * BLOCK_SIZE + k] ELSE 0) \in Nat
    <2>1. i * BLOCK_SIZE \in Nat
      BY SizesAssumption
    <2> DEFINE j == i * BLOCK_SIZE + k
    <2>2. j \in Nat /\ j >= 1
      BY <2>1, SizesAssumption
    <2> HIDE DEF j
    <2>3. j <= Len(data) => data[j] \in Nat
      BY <2>2, LenProperties, ElementOfSeq
    <2> QED BY <2>3 DEF j
  <1> QED BY <1>1 DEF Chunk, BlockType

LEMMA SliceTyped ==
    ASSUME NEW data \in Seq(Nat), NEW i \in Nat
    PROVE  Slice(data, i) \in Seq(Nat)
  <1> DEFINE lo == (i + 1) * CAP + 1
             hi == IF i < NINDIRECT - 1 THEN MinOf((i + 2) * CAP, Len(data)) ELSE Len(data)
  <1>1. CAP \in Nat
    BY SizesAssumption DEF CAP
  <1>2. (i + 1) * CAP \in Nat /\ (i + 2) * CAP \in Nat
    BY <1>1
  <1>3. Len(data) \in Nat
    BY LenProperties
  <1>4. lo \in Nat /\ lo >= 1
    BY <1>2
  <1>5. hi \in Int /\ hi <= Len(data)
    BY <1>2, <1>3 DEF MinOf
  <1> HIDE DEF lo, hi
  <1>6. \A k \in lo .. hi : data[k] \in Nat
    <2> TAKE k \in lo .. hi
    <2>1. k \in 1 .. Len(data)
      BY <1>3, <1>4, <1>5
    <2> QED BY <2>1, ElementOfSeq
  <1>7. SubSeq(data, lo, hi) \in Seq(Nat)
    BY <1>4, <1>5, <1>6, SubSeqProperties
  <1> QED BY <1>7 DEF Slice, lo, hi

(* \div, for the provers.                                                  *)
LEMMA Div ==
    ASSUME NEW a \in Nat, NEW b \in Nat \ {0}
    PROVE  a \div b \in Nat /\ b * (a \div b) <= a /\ a < b * (a \div b) + b
  OBVIOUS

(* What fits the direct slots does not need a table.                       *)
LEMMA BlocksOf ==
    ASSUME NEW n \in Nat
    PROVE  /\ blocks_of(n) \in Nat /\ (n <= CAP => blocks_of(n) <= NDIRECT)
           /\ BLOCK_SIZE * blocks_of(n) \in n .. n + BLOCK_SIZE - 1
  <1> DEFINE q == blocks_of(n)
             B == BLOCK_SIZE
  <1>1. B \in Nat \ {0} /\ n + B - 1 \in Nat
    BY SizesAssumption
  <1>2. q \in Nat /\ B * q <= n + B - 1 /\ B * q \in n .. n + B - 1
    <2> DEFINE a == n + B - 1
               x == B * (a \div B)
    <2> HIDE DEF B, a
    <2>1. a \div B \in Nat /\ x <= a /\ a < x + B
      BY <1>1, Div DEF a
    <2>2. x \in Nat
      BY <1>1, <2>1
    <2>3. x = B * q
      BY DEF blocks_of, a, B
    <2> HIDE DEF x
    <2>4. x \in n .. n + B - 1
      BY <1>1, <2>1, <2>2 DEF a
    <2> QED BY <2>1, <2>3, <2>4 DEF blocks_of, a, B
  <1>3. ASSUME n <= CAP PROVE q <= NDIRECT
    <2> SUFFICES ASSUME q >= NDIRECT + 1 PROVE FALSE
      BY <1>2, SizesAssumption
    <2>1. B * q >= B * (NDIRECT + 1)
      BY <1>1, <1>2, SizesAssumption
    <2>2. B * (NDIRECT + 1) = NDIRECT * B + B
      BY <1>1, SizesAssumption
    <2>3. n <= NDIRECT * B
      BY <1>3 DEF CAP
    <2>4. NDIRECT * B \in Nat
      BY <1>1, SizesAssumption
    <2> DEFINE x == B * q
               y == NDIRECT * B
               z == B * (NDIRECT + 1)
    <2>5. x \in Nat
      BY <1>1, <1>2
    <2> HIDE DEF x, y, z, q, B
    <2>6. x >= z /\ z = y + B /\ n <= y /\ y \in Nat /\ x <= n + B - 1 /\ B \in Nat
      BY <1>1, <1>2, <2>1, <2>2, <2>3, <2>4 DEF x, y, z
    <2> QED BY <2>5, <2>6
  <1> QED BY <1>2, <1>3 DEF q, B
-----------------------------------------------------------------------------
(* The loop over the direct slots.                                         *)
DirectAcc == [fs : FsType, ino : InodeType]
ndirect(data) == MinOf(blocks_of(Len(data)), NDIRECT)

LEMMA NDirect ==
    ASSUME NEW data \in Seq(Nat) PROVE ndirect(data) \in Nat /\ ndirect(data) <= NDIRECT
  BY LenProperties, BlocksOf, SizesAssumption DEF ndirect, MinOf

(* What a step of it does, unless there is no block left.                  *)
LEMMA WriteOne ==
    ASSUME NEW acc \in DirectAcc, NEW data \in Seq(Nat), NEW k \in 1 .. NDIRECT
    PROVE  LET r == write_one(acc, data, k)
               f == acc.fs
               b == r.ino.blocks[k - 1]
           IN /\ r \in DirectAcc
              /\ r.ino.type = acc.ino.type
              /\ \A l \in 0 .. NDIRECT : l # k - 1 => r.ino.blocks[l] = acc.ino.blocks[l]
              /\ r.fs.status = "ok" =>
                   /\ f.status = "ok"
                   /\ b \in DataBlocks \ f.used
                   /\ r.fs.used = f.used \cup {b} /\ r.fs.inode = f.inode
                   /\ \A c \in 0 .. NDATA : c # b => r.fs.disk[c] = f.disk[c]
                   /\ r.fs.disk[b] = Chunk(data, k - 1)
  <1> DEFINE r == write_one(acc, data, k)
             f == acc.fs
             id == find_free_block(f)
             n == [acc.ino EXCEPT !.blocks[k - 1] = id]
             g == IF id = 0 THEN die(f, "bad_alloc")
                  ELSE write_block(alloc_block(f), id, Chunk(data, k - 1))
  <1>1. f \in FsType /\ acc.ino \in InodeType
    BY DEF DirectAcc
  <1>2. r = [fs |-> g, ino |-> n]
    BY DEF write_one
  <1>3. id = 0 \/ id \in DataBlocks \ f.used
    BY <1>1, FindFreeBlock
  <1>4. k - 1 \in 0 .. NDIRECT /\ k - 1 \in Nat
    BY SizesAssumption
  <1>5. /\ n \in InodeType /\ n.type = acc.ino.type /\ n.blocks[k - 1] = id
        /\ \A l \in 0 .. NDIRECT : l # k - 1 => n.blocks[l] = acc.ino.blocks[l]
    <2> DEFINE bl == [acc.ino.blocks EXCEPT ![k - 1] = id]
    <2>1. id \in 0 .. NDATA
      BY <1>3, SizesAssumption DEF DataBlocks
    <2> HIDE DEF id
    <2>2. /\ bl \in [0 .. NDIRECT -> 0 .. NDATA] /\ bl[k - 1] = id
          /\ \A l \in 0 .. NDIRECT : l # k - 1 => bl[l] = acc.ino.blocks[l]
      BY <1>1, <1>4, <2>1, InodeParts
    <2>3. n = [type |-> acc.ino.type, size |-> acc.ino.size, blocks |-> bl]
      <3> DEFINE o == acc.ino
      <3>1. o = [type |-> o.type, size |-> o.size, blocks |-> o.blocks]
        BY <1>1, InodeParts
      <3>2. n = [o EXCEPT !.blocks[k - 1] = id] /\ bl = [o.blocks EXCEPT ![k - 1] = id]
        OBVIOUS
      <3> HIDE DEF o, bl, n
      <3> QED BY <3>1, <3>2 DEF o
    <2> HIDE DEF bl
    <2> QED BY <1>1, <2>2, <2>3, InodeParts DEF InodeType
  <1> HIDE DEF n
  <1>6. CASE id = 0
    <2>1. g = die(f, "bad_alloc")
      BY <1>6
    <2>2. g \in FsType /\ g.status # "ok"
      BY <1>1, <2>1, DieEffect DEF StatusType
    <2> HIDE DEF g
    <2> QED BY <1>2, <1>5, <2>2 DEF DirectAcc
  <1>7. CASE id # 0
    <2> DEFINE a == alloc_block(f)
               buf == Chunk(data, k - 1)
    <2>1. g = write_block(a, id, buf)
      BY <1>7
    <2>2. a \in FsType /\ a.used = f.used \cup {id} /\ a.disk = f.disk
          /\ a.inode = f.inode /\ a.status = f.status
      BY <1>1, <1>7, TakeBlock
    <2>3. buf \in BlockType /\ id \in 0 .. NDATA
      BY <1>3, <1>4, <1>7, ChunkTyped, SizesAssumption DEF DataBlocks
    <2> HIDE DEF a, buf, id
    <2>4. /\ g \in FsType
          /\ g.used = a.used /\ g.inode = a.inode /\ g.status = a.status
          /\ \A c \in 0 .. NDATA : c # id => g.disk[c] = a.disk[c]
          /\ g.disk[id] = buf
      BY <2>1, <2>2, <2>3, WriteBlock
    <2> HIDE DEF g
    <2>5. r \in DirectAcc /\ r.fs = g /\ r.ino = n
      BY <1>2, <1>5, <2>4 DEF DirectAcc
    <2> HIDE DEF r
    <2> QED BY <1>3, <1>5, <1>7, <2>2, <2>4, <2>5 DEF r, id, buf
  <1> QED BY <1>6, <1>7

LEMMA WriteDirectDef ==
    ASSUME NEW f \in FsType, NEW n \in InodeType, NEW data \in Seq(Nat)
    PROVE  LET D == write_direct(f, n, data)
           IN /\ D \in [0 .. ndirect(data) -> DirectAcc]
              /\ D[0] = [fs |-> f, ino |-> n]
              /\ \A k \in 1 .. ndirect(data) : D[k] = write_one(D[k - 1], data, k)
  <1> DEFINE m == ndirect(data)
             a == [fs |-> f, ino |-> n]
             F == [k \in 1 .. m |-> [acc \in DirectAcc |-> write_one(acc, data, k)]]
             Eq(g) == g = [k \in 0 .. m |-> IF k = 0 THEN a ELSE write_one(g[k - 1], data, k)]
             D == write_direct(f, n, data)
  <1>1. m \in Nat /\ m <= NDIRECT /\ a \in DirectAcc
    BY NDirect DEF DirectAcc
  <1>2. \A k \in 1 .. m : k \in 1 .. NDIRECT /\ k - 1 \in 0 .. m /\ k \in 0 .. m /\ k # 0
    BY <1>1, SizesAssumption
  <1>3. F \in [1 .. m -> [DirectAcc -> DirectAcc]]
    BY <1>2, WriteOne
  <1> HIDE DEF a, m
  <1>4. PICK h \in [0 .. m -> DirectAcc] : Iterates(h, m, a, F)
    <2> HIDE DEF F
    <2> QED BY <1>1, <1>3, Recursion
  <1>5. Eq(h)
    <2>1. \A k \in 0 .. m : k # 0 => k \in 1 .. m
      BY <1>1
    <2>2. \A k \in 0 .. m : h[k] = IF k = 0 THEN a ELSE write_one(h[k - 1], data, k)
      BY <1>2, <1>4, <2>1 DEF Iterates
    <2> QED BY <1>4, <2>2
  <1>6. Eq(D)
    <2>1. D = CHOOSE g : Eq(g)
      BY DEF write_direct, m, a, ndirect
    <2> HIDE DEF Eq, D
    <2> QED BY <1>5, <2>1
  <1> HIDE DEF D
  <1>7. D[0] = a /\ \A k \in 1 .. m : D[k] = write_one(D[k - 1], data, k)
    BY <1>1, <1>2, <1>6
  <1>8. \A k \in 0 .. m : D[k] \in DirectAcc
    <2> DEFINE T == {k \in 0 .. m : D[k] \in DirectAcc}
    <2>1. 0 \in T
      BY <1>1, <1>7
    <2>2. ASSUME NEW k \in 1 .. m, k - 1 \in T PROVE k \in T
      BY <1>2, <1>7, <2>2, WriteOne
    <2> HIDE DEF T
    <2>3. \A k \in 0 .. m : k \in T
      BY <1>1, <2>1, <2>2, Induct
    <2> QED BY <2>3 DEF T
  <1>9. D \in [0 .. m -> DirectAcc]
    BY <1>6, <1>8
  <1> QED BY <1>7, <1>9 DEF D, m, a
-----------------------------------------------------------------------------
(* Which slots name which blocks, and which inodes are in which tables.    *)
Live(f) == {i \in Inums : f.inode[i].type # 0}
NamesBlock(f, j, k, b) == j \in Live(f) /\ f.inode[j].blocks[k] = b /\ b # 0
SubsIn(f, j) == LET t == table(f, f.inode[j]) IN {t[m] : m \in DOMAIN t}

(* A block that a slot names is marked, and no other slot names it.        *)
Marked(f) ==
    \A j \in Inums, k \in 0 .. NDIRECT, b \in DataBlocks : NamesBlock(f, j, k, b) => b \in f.used
Apart(f) ==
    \A i, j \in Inums, k, l \in 0 .. NDIRECT, b \in DataBlocks :
        NamesBlock(f, i, k, b) /\ NamesBlock(f, j, l, b) => i = j /\ k = l

LEMMA UpToZeroDef ==
    ASSUME NEW s \in Seq(Nat)
    PROVE  LET u == UpToZero[s]
           IN /\ u \in Seq(Nat) /\ Len(u) <= Len(s)
              /\ \A m \in 1 .. Len(u) : u[m] = s[m] /\ u[m] # 0
  <1> DEFINE zeros == {k \in DOMAIN s : s[k] = 0}
             u == UpToZero[s]
  <1>1. u = IF zeros = {} THEN s ELSE SubSeq(s, 1, Min(zeros) - 1)
    BY DEF UpToZero
  <1>2. Len(s) \in Nat /\ DOMAIN s = 1 .. Len(s) /\ \A m \in 1 .. Len(s) : s[m] \in Nat
    BY LenProperties, ElementOfSeq
  <1>3. CASE zeros = {}
    BY <1>1, <1>2, <1>3
  <1>4. CASE zeros # {}
    <2> DEFINE z == Min(zeros)
    <2>1. zeros \in SUBSET Nat /\ zeros \subseteq 1 .. Len(s)
      BY <1>2
    <2>2. \A m \in 1 .. Len(s) : s[m] = 0 => m \in zeros
      BY <1>2
    <2> HIDE DEF zeros, u
    <2>3. \E x \in zeros : \A y \in zeros : x <= y
      BY <1>4, <2>1, Least
    <2>4. z \in zeros /\ \A y \in zeros : z <= y
      BY <2>3 DEF Min
    <2> HIDE DEF z
    <2>5. z \in 1 .. Len(s) /\ z - 1 \in Int
      BY <2>1, <2>4
    <2>6. \A m \in 1 .. z - 1 : m \in 1 .. Len(s) /\ s[m] # 0
      BY <1>2, <2>2, <2>4, <2>5
    <2> DEFINE hi == z - 1
    <2>7. hi \in Nat /\ hi < Len(s)
      BY <1>2, <2>5
    <2>8. \A m \in 1 .. hi : s[m] \in Nat
      BY <1>2, <2>6
    <2>9. u = SubSeq(s, 1, hi)
      BY <1>1, <1>4 DEF z
    <2> HIDE DEF hi
    <2>10. /\ SubSeq(s, 1, hi) \in Seq(Nat)
           /\ Len(SubSeq(s, 1, hi)) = (IF 1 <= hi THEN hi - 1 + 1 ELSE 0)
           /\ \A m \in 1 .. hi - 1 + 1 : SubSeq(s, 1, hi)[m] = s[1 + m - 1]
      BY <2>7, <2>8, SubSeqProperties
    <2>11. Len(u) = hi /\ \A m \in 1 .. hi : u[m] = s[m]
      BY <2>7, <2>9, <2>10
    <2> QED BY <1>2, <2>6, <2>7, <2>9, <2>10, <2>11 DEF hi, u
  <1> QED BY <1>3, <1>4

LEMMA BlockIsSeq ==
    ASSUME NEW s \in BlockType
    PROVE  s \in Seq(Nat) /\ Len(s) = BLOCK_SIZE
  BY SizesAssumption, IsASeq DEF BlockType

(* The inodes of a table are entries of its block other than 0.            *)
LEMMA TableDef ==
    ASSUME NEW f \in FsType, NEW n \in InodeType
    PROVE  LET t == table(f, n)
               buf == f.disk[n.blocks[NDIRECT]]
           IN /\ t \in Seq(Nat)
              /\ n.size <= NDIRECT => t = <<>>
              /\ \A m \in DOMAIN t : m \in 1 .. BLOCK_SIZE /\ t[m] = buf[m] /\ t[m] # 0
  <1> DEFINE t == table(f, n)
             buf == f.disk[n.blocks[NDIRECT]]
  <1>1. NDIRECT \in 0 .. NDIRECT /\ n.size \in Int /\ NDIRECT \in Nat
    BY InodeParts, SizesAssumption
  <1>2. buf \in BlockType
    BY <1>1, FsParts, InodeParts
  <1>3. CASE n.size > NDIRECT
    <2>1. t = UpToZero[buf]
      BY <1>3 DEF table
    <2>2. buf \in Seq(Nat) /\ Len(buf) = BLOCK_SIZE
      BY <1>2, BlockIsSeq
    <2> HIDE DEF buf, t
    <2>3. /\ t \in Seq(Nat) /\ Len(t) <= BLOCK_SIZE
          /\ \A m \in 1 .. Len(t) : t[m] = buf[m] /\ t[m] # 0
      BY <2>1, <2>2, UpToZeroDef
    <2>4. DOMAIN t = 1 .. Len(t) /\ Len(t) \in Nat
      BY <2>3, LenProperties
    <2>5. \A m \in DOMAIN t : m \in 1 .. BLOCK_SIZE
      BY <2>3, <2>4, SizesAssumption
    <2>6. ~(n.size <= NDIRECT)
      BY <1>1, <1>3
    <2> QED BY <2>3, <2>4, <2>5, <2>6 DEF t, buf
  <1>4. CASE ~(n.size > NDIRECT)
    <2>1. t = <<>>
      BY <1>4 DEF table
    <2>2. <<>> \in Seq(Nat) /\ DOMAIN <<>> = {}
      OBVIOUS
    <2> HIDE DEF t
    <2> QED BY <2>1, <2>2 DEF t
  <1> QED BY <1>3, <1>4

(* A table is as it was while its inode and its block are.                 *)
LEMMA SubsSame ==
    ASSUME NEW f \in FsType, NEW g \in FsType, NEW j \in Inums,
           g.inode[j] = f.inode[j],
           g.disk[f.inode[j].blocks[NDIRECT]] = f.disk[f.inode[j].blocks[NDIRECT]]
    PROVE  SubsIn(g, j) = SubsIn(f, j)
  BY DEF SubsIn, table
-----------------------------------------------------------------------------
(* What the loop over the direct slots has done after k turns: the slots   *)
(* before k name new blocks, and the rest is as it was.                    *)
Placed(f, n, k, acc) ==
    /\ f.status = "ok"
    /\ f.used \subseteq acc.fs.used /\ acc.fs.inode = f.inode
    /\ \A c \in 0 .. NDATA : c \notin acc.fs.used \ f.used => acc.fs.disk[c] = f.disk[c]
    /\ \A l \in 0 .. k - 1 : acc.ino.blocks[l] \in acc.fs.used \ f.used
    /\ \A l, m \in 0 .. k - 1 : acc.ino.blocks[l] = acc.ino.blocks[m] => l = m

LEMMA WriteDirect ==
    ASSUME NEW f \in FsType, NEW n \in InodeType, NEW data \in Seq(Nat)
    PROVE  LET D == write_direct(f, n, data)
           IN \A k \in 0 .. ndirect(data) :
                /\ D[k] \in DirectAcc
                /\ D[k].ino.type = n.type
                /\ \A l \in 0 .. NDIRECT : l >= k => D[k].ino.blocks[l] = n.blocks[l]
                /\ D[k].fs.status = "ok" => Placed(f, n, k, D[k])
  <1> DEFINE D == write_direct(f, n, data)
             M == ndirect(data)
             Good(k) == /\ D[k].ino.type = n.type
                        /\ \A l \in 0 .. NDIRECT : l >= k => D[k].ino.blocks[l] = n.blocks[l]
                        /\ D[k].fs.status = "ok" => Placed(f, n, k, D[k])
             T == {k \in 0 .. M : Good(k)}
  <1>1. M \in Nat /\ M <= NDIRECT /\ NDIRECT \in Nat
    BY NDirect, SizesAssumption
  <1>2. /\ D \in [0 .. M -> DirectAcc] /\ D[0] = [fs |-> f, ino |-> n]
        /\ \A k \in 1 .. M : D[k] = write_one(D[k - 1], data, k)
    BY WriteDirectDef
  <1> HIDE DEF D, M
  <1>3. 0 \in T
    <2>1. D[0].fs = f /\ D[0].ino = n
      BY <1>2
    <2>2. f.status = "ok" => Placed(f, n, 0, D[0])
      BY <2>1 DEF Placed
    <2> QED BY <1>1, <2>1, <2>2
  <1>4. ASSUME NEW k \in 1 .. M, k - 1 \in T PROVE k \in T
    <2> DEFINE acc == D[k - 1]
               r == D[k]
               b == r.ino.blocks[k - 1]
    <2>1. k \in 0 .. M /\ k \in 1 .. NDIRECT /\ k - 1 \in 0 .. M /\ k - 1 \in Nat /\ k \in Nat
      BY <1>1
    <2>2. acc \in DirectAcc /\ Good(k - 1)
      BY <1>2, <1>4, <2>1
    <2>3. /\ r.ino.type = acc.ino.type
          /\ \A l \in 0 .. NDIRECT : l # k - 1 => r.ino.blocks[l] = acc.ino.blocks[l]
          /\ r.fs.status = "ok" =>
               /\ acc.fs.status = "ok"
               /\ b \in DataBlocks \ acc.fs.used
               /\ r.fs.used = acc.fs.used \cup {b} /\ r.fs.inode = acc.fs.inode
               /\ \A c \in 0 .. NDATA : c # b => r.fs.disk[c] = acc.fs.disk[c]
      BY <1>2, <2>1, <2>2, WriteOne
    <2> HIDE DEF r, acc
    <2>4. \A l \in 0 .. NDIRECT : l >= k => r.ino.blocks[l] = n.blocks[l]
      <3> SUFFICES ASSUME NEW l \in 0 .. NDIRECT, l >= k PROVE r.ino.blocks[l] = n.blocks[l]
        OBVIOUS
      <3>1. l # k - 1 /\ l >= k - 1
        BY <2>1
      <3> QED BY <2>2, <2>3, <3>1 DEF acc
    <2>5. ASSUME r.fs.status = "ok" PROVE Placed(f, n, k, r)
      <3>1. Placed(f, n, k - 1, acc)
        BY <2>2, <2>3, <2>5 DEF acc
      <3>2. b \in DataBlocks \ acc.fs.used /\ r.fs.used = acc.fs.used \cup {b}
            /\ r.fs.inode = acc.fs.inode
            /\ \A c \in 0 .. NDATA : c # b => r.fs.disk[c] = acc.fs.disk[c]
        BY <2>3, <2>5
      <3>3. f.used \subseteq r.fs.used /\ b \notin f.used /\ b \in r.fs.used
        BY <3>1, <3>2 DEF Placed
      <3>4. \A c \in 0 .. NDATA : c \notin r.fs.used \ f.used => r.fs.disk[c] = f.disk[c]
        BY <3>1, <3>2, <3>3 DEF Placed
      <3>5. \A l \in 0 .. k - 1 : l # k - 1 => /\ l \in 0 .. (k - 1) - 1
                                               /\ r.ino.blocks[l] = acc.ino.blocks[l]
        BY <1>1, <2>1, <2>3
      <3>6. \A l \in 0 .. (k - 1) - 1 : acc.ino.blocks[l] \in acc.fs.used \ f.used
        BY <3>1 DEF Placed
      <3>7. \A l \in 0 .. k - 1 : r.ino.blocks[l] \in r.fs.used \ f.used
                                  /\ (l # k - 1 => r.ino.blocks[l] # b)
        BY <3>2, <3>3, <3>5, <3>6
      <3>8. \A l, m \in 0 .. k - 1 : r.ino.blocks[l] = r.ino.blocks[m] => l = m
        <4> SUFFICES ASSUME NEW l \in 0 .. k - 1, NEW m \in 0 .. k - 1,
                            r.ino.blocks[l] = r.ino.blocks[m]
                     PROVE  l = m
          OBVIOUS
        <4>1. CASE l = k - 1 \/ m = k - 1
          BY <3>7, <4>1
        <4>2. CASE l # k - 1 /\ m # k - 1
          BY <3>1, <3>5, <4>2 DEF Placed
        <4> QED BY <4>1, <4>2
      <3> QED BY <3>1, <3>2, <3>3, <3>4, <3>7, <3>8 DEF Placed
    <2> QED BY <2>1, <2>2, <2>3, <2>4, <2>5 DEF r, acc
  <1>5. \A k \in 0 .. M : k \in T
    <2> HIDE DEF T
    <2> QED BY <1>1, <1>3, <1>4, Induct
  <1> QED BY <1>2, <1>5 DEF D, M
-----------------------------------------------------------------------------
(* What writing may do: g comes after f, and only the inodes in X, of      *)
(* those that were live, may have been changed.                            *)
New(f, g) == Live(g) \ Live(f)
KeepsBlocks(f, g) ==
    f.used \subseteq g.used /\ \A c \in f.used \cup {0} : g.disk[c] = f.disk[c]
KeepsInodes(f, X, g) ==
    /\ \A j \in Live(f) : /\ g.inode[j].type = f.inode[j].type
                          /\ j \notin X => g.inode[j] = f.inode[j]
    /\ \A j \in New(f, g) : g.inode[j].type = T_FILE
NamesNewBlocks(f, g) ==
    \A j \in Inums, k \in 0 .. NDIRECT, b \in DataBlocks :
        NamesBlock(g, j, k, b) => NamesBlock(f, j, k, b) \/ b \in g.used \ f.used
NewBlocksApart(f, g) ==
    \A i, j \in Inums, k, l \in 0 .. NDIRECT, b \in DataBlocks :
        NamesBlock(g, i, k, b) /\ NamesBlock(g, j, l, b) /\ b \notin f.used => i = j /\ k = l
ListsNewInodes(f, X, g) == \A j \in New(f, g) \cup X : SubsIn(g, j) \subseteq New(f, g)
NewInodesApart(f, X, g) ==
    \A i, j \in New(f, g) \cup X : i # j => SubsIn(g, i) \cap SubsIn(g, j) = {}

Grown(f, X, g) ==
    /\ f.status = "ok"
    /\ KeepsBlocks(f, g) /\ KeepsInodes(f, X, g)
    /\ NamesNewBlocks(f, g) /\ NewBlocksApart(f, g)
    /\ ListsNewInodes(f, X, g) /\ NewInodesApart(f, X, g)

(* The table of an inode that was not touched is as it was: its block is   *)
(* marked, or there is none.                                               *)
LEMMA KeptSubs ==
    ASSUME NEW f \in FsType, NEW g \in FsType, Marked(f), KeepsBlocks(f, g),
           NEW j \in Live(f), g.inode[j] = f.inode[j]
    PROVE  SubsIn(g, j) = SubsIn(f, j)
  <1> DEFINE t == f.inode[j].blocks[NDIRECT]
  <1>1. j \in Inums /\ NDIRECT \in 0 .. NDIRECT
    BY SizesAssumption DEF Live
  <1>2. t \in 0 .. NDATA
    BY <1>1, FsParts, InodeParts
  <1>3. CASE t = 0
    <2>1. g.disk[t] = f.disk[t]
      BY <1>3 DEF KeepsBlocks
    <2> QED BY <1>1, <2>1, SubsSame
  <1>4. CASE t # 0
    <2>1. t \in DataBlocks /\ NamesBlock(f, j, NDIRECT, t)
      BY <1>1, <1>2, <1>4, SizesAssumption DEF NamesBlock, DataBlocks
    <2>2. t \in f.used
      BY <1>1, <2>1 DEF Marked
    <2>3. g.disk[t] = f.disk[t]
      BY <2>2 DEF KeepsBlocks
    <2> QED BY <1>1, <2>3, SubsSame
  <1> QED BY <1>3, <1>4

LEMMA KeptMarked ==
    ASSUME NEW f, NEW g, Marked(f), KeepsBlocks(f, g), NamesNewBlocks(f, g)
    PROVE  Marked(g)
  BY DEF Marked, KeepsBlocks, NamesNewBlocks

(* An inode taken from the free ones names no block and has no table.      *)
LEMMA TakenInode ==
    ASSUME NEW f \in FsType, NEW a, a = alloc_inode(f, T_FILE),
           NEW sub, sub = find_free_inode(f), a.status = "ok"
    PROVE  /\ a \in FsType /\ f.status = "ok"
           /\ sub \in Inums /\ sub \notin Live(f) /\ Live(a) = Live(f) \cup {sub}
           /\ a.used = f.used /\ a.disk = f.disk
           /\ a.inode[sub].type = T_FILE
           /\ \A j \in Live(f) : a.inode[j] = f.inode[j]
           /\ \A b : \A j \in Inums, k \in 0 .. NDIRECT : NamesBlock(a, j, k, b) <=> NamesBlock(f, j, k, b)
  <1>1. /\ a \in FsType /\ f.status = "ok"
        /\ sub \in Inums /\ f.inode[sub].type = 0
        /\ a.used = f.used /\ a.disk = f.disk
        /\ a.inode[sub] = [ZeroInode EXCEPT !.type = T_FILE]
        /\ \A j \in Inums : j # sub => a.inode[j] = f.inode[j]
    BY TakeInode
  <1>2. /\ a.inode[sub].type = T_FILE
        /\ \A k \in 0 .. NDIRECT : a.inode[sub].blocks[k] = 0
    <2> DEFINE n == [ZeroInode EXCEPT !.type = T_FILE]
    <2>1. n.type = T_FILE /\ n.blocks = ZeroInode.blocks
      BY DEF ZeroInode
    <2>2. \A k \in 0 .. NDIRECT : ZeroInode.blocks[k] = 0
      BY Zeros
    <2> HIDE DEF n
    <2> QED BY <1>1, <2>1, <2>2 DEF n
  <1>3. T_FILE # 0
    BY DEF T_FILE
  <1>4. sub \notin Live(f) /\ Live(a) = Live(f) \cup {sub}
    BY <1>1, <1>2, <1>3, ZenonT(40) DEF Live
  <1>5. \A j \in Live(f) : a.inode[j] = f.inode[j]
    BY <1>1, <1>4 DEF Live
  <1>6. ASSUME NEW j \in Inums, NEW k \in 0 .. NDIRECT, NEW b
        PROVE  NamesBlock(a, j, k, b) <=> NamesBlock(f, j, k, b)
    BY <1>2, <1>4, <1>5 DEF NamesBlock
  <1> QED BY <1>1, <1>2, <1>4, <1>5, <1>6

(* L are the inodes in the table so far: nobody else lists them.           *)
Unlisted(f, g, L) == L \subseteq New(f, g) /\ \A j \in New(f, g) : SubsIn(g, j) \cap L = {}

(* One more entry of a table: an inode is taken and filled.                *)
LEMMA SubStep ==
    ASSUME NEW z \in FsType, NEW f \in FsType, NEW L, Grown(z, {}, f), Unlisted(z, f, L), Marked(f),
           NEW sub, sub = find_free_inode(f), NEW a, a = alloc_inode(f, T_FILE), a.status = "ok",
           NEW g \in FsType, Grown(a, {sub}, g)
    PROVE  Grown(z, {}, g) /\ Unlisted(z, g, L \cup {sub}) /\ Marked(g)
  <1>1. /\ a \in FsType /\ f.status = "ok"
        /\ sub \in Inums /\ sub \notin Live(f) /\ Live(a) = Live(f) \cup {sub}
        /\ a.used = f.used /\ a.disk = f.disk
        /\ a.inode[sub].type = T_FILE
        /\ \A j \in Live(f) : a.inode[j] = f.inode[j]
        /\ \A b : \A j \in Inums, k \in 0 .. NDIRECT : NamesBlock(a, j, k, b) <=> NamesBlock(f, j, k, b)
    BY TakenInode
  <1>2. Marked(a)
    BY <1>1 DEF Marked
  <1>3. KeepsBlocks(f, g)
    BY <1>1 DEF Grown, KeepsBlocks
  <1>4. KeepsBlocks(z, g)
    BY <1>3 DEF Grown, KeepsBlocks
  <1>5. Live(z) \subseteq Live(f) /\ Live(a) \subseteq Live(g)
    <2>1. Live(z) \subseteq Live(f)
      BY DEF Grown, KeepsInodes, Live
    <2>2. Live(a) \subseteq Live(g)
      BY DEF Grown, KeepsInodes, Live
    <2> QED BY <2>1, <2>2
  <1>6. \A j \in Live(f) : g.inode[j] = f.inode[j]
    BY <1>1 DEF Grown, KeepsInodes
  <1>7. /\ New(z, g) = New(z, f) \cup {sub} \cup New(a, g)
        /\ sub \notin Live(z) /\ sub \notin New(a, g) /\ New(z, f) \cap New(a, g) = {}
        /\ L \subseteq Live(f) /\ New(z, f) \subseteq Live(f) /\ New(a, g) \cap Live(f) = {}
    BY <1>1, <1>5 DEF New, Unlisted
  <1>8. KeepsInodes(z, {}, g)
    <2>1. \A j \in Live(z) : g.inode[j].type = z.inode[j].type /\ g.inode[j] = z.inode[j]
      BY <1>5, <1>6 DEF Grown, KeepsInodes
    <2>2. ASSUME NEW j \in New(z, g) PROVE g.inode[j].type = T_FILE
      <3>1. CASE j \in New(z, f)
        BY <1>6, <1>7, <3>1 DEF Grown, KeepsInodes
      <3>2. CASE j = sub
        BY <1>1, <3>2 DEF Grown, KeepsInodes
      <3>3. CASE j \in New(a, g)
        BY <3>3 DEF Grown, KeepsInodes
      <3> QED BY <1>7, <3>1, <3>2, <3>3
    <2> QED BY <2>1, <2>2 DEF KeepsInodes
  <1>9. ASSUME NEW j \in Inums, NEW k \in 0 .. NDIRECT, NEW b \in DataBlocks, NamesBlock(g, j, k, b)
        PROVE  NamesBlock(f, j, k, b) \/ b \in g.used \ f.used
    BY <1>1, <1>9 DEF Grown, NamesNewBlocks
  <1>10. NamesNewBlocks(z, g)
    <2> SUFFICES ASSUME NEW j \in Inums, NEW k \in 0 .. NDIRECT, NEW b \in DataBlocks,
                        NamesBlock(g, j, k, b)
                 PROVE  NamesBlock(z, j, k, b) \/ b \in g.used \ z.used
      BY DEF NamesNewBlocks
    <2>1. z.used \subseteq f.used /\ f.used \subseteq g.used
      BY <1>3 DEF Grown, KeepsBlocks
    <2>2. CASE NamesBlock(f, j, k, b)
      BY <2>1, <2>2 DEF Grown, NamesNewBlocks
    <2>3. CASE b \in g.used \ f.used
      BY <2>1, <2>3
    <2> QED BY <1>9, <2>2, <2>3
  <1>11. NewBlocksApart(z, g)
    <2> SUFFICES ASSUME NEW i \in Inums, NEW j \in Inums, NEW k \in 0 .. NDIRECT,
                        NEW l \in 0 .. NDIRECT, NEW b \in DataBlocks,
                        NamesBlock(g, i, k, b), NamesBlock(g, j, l, b), b \notin z.used
                 PROVE  i = j /\ k = l
      BY DEF NewBlocksApart
    <2>1. CASE b \in f.used
      <3>1. NamesBlock(f, i, k, b) /\ NamesBlock(f, j, l, b)
        BY <1>9, <2>1
      <3> QED BY <3>1 DEF Grown, NewBlocksApart
    <2>2. CASE b \notin f.used
      BY <1>1, <2>2 DEF Grown, NewBlocksApart
    <2> QED BY <2>1, <2>2
  <1>12. \A j \in New(z, f) : SubsIn(g, j) = SubsIn(f, j)
    BY <1>3, <1>6, <1>7, KeptSubs
  <1>13. \A j \in New(z, f) : SubsIn(g, j) \subseteq New(z, f) /\ SubsIn(g, j) \cap L = {}
    BY <1>12 DEF Grown, ListsNewInodes, Unlisted
  <1>14. \A j \in New(a, g) \cup {sub} : SubsIn(g, j) \subseteq New(a, g)
    BY DEF Grown, ListsNewInodes
  <1>15. ListsNewInodes(z, {}, g)
    BY <1>7, <1>13, <1>14 DEF ListsNewInodes
  <1>16. NewInodesApart(z, {}, g)
    <2> SUFFICES ASSUME NEW i \in New(z, g), NEW j \in New(z, g), i # j
                 PROVE  SubsIn(g, i) \cap SubsIn(g, j) = {}
      BY DEF NewInodesApart
    <2>1. CASE i \in New(z, f) /\ j \in New(z, f)
      BY <1>12, <2>1 DEF Grown, NewInodesApart
    <2>2. CASE i \in New(a, g) \cup {sub} /\ j \in New(a, g) \cup {sub}
      BY <2>2 DEF Grown, NewInodesApart
    <2>3. CASE i \in New(z, f) /\ j \in New(a, g) \cup {sub}
      BY <1>7, <1>13, <1>14, <2>3
    <2>4. CASE j \in New(z, f) /\ i \in New(a, g) \cup {sub}
      BY <1>7, <1>13, <1>14, <2>4
    <2> QED BY <1>7, <2>1, <2>2, <2>3, <2>4
  <1>17. Unlisted(z, g, L \cup {sub})
    <2>1. L \cup {sub} \subseteq New(z, g)
      BY <1>7 DEF Unlisted
    <2>2. ASSUME NEW j \in New(z, g) PROVE SubsIn(g, j) \cap (L \cup {sub}) = {}
      <3>1. CASE j \in New(z, f)
        BY <1>1, <1>7, <1>13, <3>1
      <3>2. CASE j \in New(a, g) \cup {sub}
        BY <1>7, <1>14, <3>2
      <3> QED BY <1>7, <3>1, <3>2
    <2> QED BY <2>1, <2>2 DEF Unlisted
  <1>18. Marked(g)
    BY <1>2, KeptMarked DEF Grown
  <1>19. z.status = "ok"
    BY DEF Grown
  <1> QED BY <1>4, <1>8, <1>10, <1>11, <1>15, <1>16, <1>17, <1>18, <1>19 DEF Grown
-----------------------------------------------------------------------------
(* The loop over the entries of a table, with a function for the files.    *)
TableAcc == [fs : FsType, inodes : BlockType]
Entered(acc, k) == {acc.inodes[m] : m \in 1 .. k}

(* What is required of a function that writes the files of a table.        *)
KeepsStatus(write) == \A c \in DataCall : write[c].status = "ok" => c.fs.status = "ok"
Writes(write) ==
    \A f \in FsType, i \in Inums, data \in Seq(Nat) :
        i \in Live(f) /\ Marked(f) =>
        LET g == write[[fs |-> f, inum |-> i, data |-> data]]
        IN g.status = "ok" => Grown(f, {i}, g)

LEMMA Entries ==
    ASSUME NEW data \in Seq(Nat), Len(data) > CAP
    PROVE  entries_of(data) \in Nat /\ entries_of(data) <= BLOCK_SIZE
  <1> DEFINE q == (Len(data) - 1) \div CAP
  <1>1. CAP \in Nat \ {0}
    BY SizesAssumption DEF CAP
  <1>2. Len(data) - 1 \in Nat
    BY <1>1, LenProperties
  <1>3. q \in Nat
    BY <1>1, <1>2, Div
  <1> HIDE DEF q
  <1> QED BY <1>3, SizesAssumption DEF entries_of, MinOf, NINDIRECT, q

LEMMA WriteSub ==
    ASSUME NEW write \in [DataCall -> FsType], NEW acc \in TableAcc, NEW data \in Seq(Nat),
           NEW k \in 1 .. BLOCK_SIZE
    PROVE  LET r == write_sub(write, acc, data, k)
               a == alloc_inode(acc.fs, T_FILE)
               sub == find_free_inode(acc.fs)
               call == [fs |-> a, inum |-> sub, data |-> Slice(data, k - 1)]
           IN /\ r \in TableAcc /\ a \in FsType /\ call \in DataCall /\ Slice(data, k - 1) \in Seq(Nat)
              /\ r.fs = write[call]
              /\ r.inodes[k] = sub
              /\ \A m \in 1 .. BLOCK_SIZE : m # k => r.inodes[m] = acc.inodes[m]
  <1> DEFINE r == write_sub(write, acc, data, k)
             a == alloc_inode(acc.fs, T_FILE)
             sub == find_free_inode(acc.fs)
             part == Slice(data, k - 1)
             call == [fs |-> a, inum |-> sub, data |-> part]
             tab == [acc.inodes EXCEPT ![k] = sub]
  <1>1. acc.fs \in FsType /\ acc.inodes \in BlockType
    BY DEF TableAcc
  <1>2. a \in FsType
    BY <1>1, TakeInode
  <1>3. sub \in Nat
    BY <1>1, FindFreeInode, SizesAssumption DEF Inums
  <1>4. part \in Seq(Nat)
    BY SliceTyped
  <1>5. r = [fs |-> write[call], inodes |-> tab]
    BY DEF write_sub
  <1> HIDE DEF a, sub, part
  <1>6. call \in DataCall
    BY <1>2, <1>3, <1>4 DEF DataCall
  <1>7. /\ tab \in BlockType /\ tab[k] = sub
        /\ \A m \in 1 .. BLOCK_SIZE : m # k => tab[m] = acc.inodes[m]
    BY <1>1, <1>3 DEF BlockType
  <1> HIDE DEF call, tab, r
  <1>8. write[call] \in FsType
    BY <1>6
  <1>9. r \in TableAcc /\ r.fs = write[call] /\ r.inodes = tab
    BY <1>5, <1>7, <1>8 DEF TableAcc
  <1> QED BY <1>2, <1>4, <1>6, <1>7, <1>9 DEF a, sub, part, call, r

LEMMA WriteTableDef ==
    ASSUME NEW write \in [DataCall -> FsType], NEW z \in FsType, NEW data \in Seq(Nat),
           Len(data) > CAP
    PROVE  LET D == write_table(write, z, data)
           IN /\ D \in [0 .. entries_of(data) -> TableAcc]
              /\ D[0] = [fs |-> z, inodes |-> ZeroBlock]
              /\ \A k \in 1 .. entries_of(data) : D[k] = write_sub(write, D[k - 1], data, k)
  <1> DEFINE n == entries_of(data)
             a == [fs |-> z, inodes |-> ZeroBlock]
             F == [k \in 1 .. n |-> [acc \in TableAcc |-> write_sub(write, acc, data, k)]]
             Eq(g) == g = [k \in 0 .. n |-> IF k = 0 THEN a ELSE write_sub(write, g[k - 1], data, k)]
             D == write_table(write, z, data)
  <1>1. n \in Nat /\ n <= BLOCK_SIZE /\ a \in TableAcc
    BY Entries, Zeros DEF TableAcc
  <1>2. \A k \in 1 .. n : k \in 1 .. BLOCK_SIZE /\ k - 1 \in 0 .. n /\ k \in 0 .. n /\ k # 0
    BY <1>1, SizesAssumption
  <1>3. F \in [1 .. n -> [TableAcc -> TableAcc]]
    BY <1>2, WriteSub
  <1> HIDE DEF a, n
  <1>4. PICK h \in [0 .. n -> TableAcc] : Iterates(h, n, a, F)
    <2> HIDE DEF F
    <2> QED BY <1>1, <1>3, Recursion
  <1>5. Eq(h)
    <2>1. \A k \in 0 .. n : k # 0 => k \in 1 .. n
      BY <1>1
    <2>2. \A k \in 0 .. n : h[k] = IF k = 0 THEN a ELSE write_sub(write, h[k - 1], data, k)
      BY <1>2, <1>4, <2>1 DEF Iterates
    <2> QED BY <1>4, <2>2
  <1>6. Eq(D)
    <2>1. D = CHOOSE g : Eq(g)
      BY DEF write_table, n, a
    <2> HIDE DEF Eq, D
    <2> QED BY <1>5, <2>1
  <1> HIDE DEF D
  <1>7. D[0] = a /\ \A k \in 1 .. n : D[k] = write_sub(write, D[k - 1], data, k)
    BY <1>1, <1>2, <1>6
  <1>8. \A k \in 0 .. n : D[k] \in TableAcc
    <2> DEFINE T == {k \in 0 .. n : D[k] \in TableAcc}
    <2>1. 0 \in T
      BY <1>1, <1>7
    <2>2. ASSUME NEW k \in 1 .. n, k - 1 \in T PROVE k \in T
      <3>1. D[k - 1] \in TableAcc /\ D[k] = write_sub(write, D[k - 1], data, k)
        BY <1>7, <2>2
      <3>2. write_sub(write, D[k - 1], data, k) \in TableAcc
        BY <1>2, <3>1, WriteSub
      <3> QED BY <1>2, <3>1, <3>2
    <2> HIDE DEF T
    <2>3. \A k \in 0 .. n : k \in T
      BY <1>1, <2>1, <2>2, Induct
    <2> QED BY <2>3 DEF T
  <1>9. D \in [0 .. n -> TableAcc]
    BY <1>6, <1>8
  <1> QED BY <1>7, <1>9 DEF D, n, a

LEMMA GrownFromStart ==
    ASSUME NEW z \in FsType, z.status = "ok", Marked(z)
    PROVE  Grown(z, {}, z) /\ Unlisted(z, z, {})
  <1>1. New(z, z) = {}
    BY DEF New
  <1>2. KeepsBlocks(z, z) /\ KeepsInodes(z, {}, z) /\ NamesNewBlocks(z, z)
    BY <1>1 DEF KeepsBlocks, KeepsInodes, NamesNewBlocks
  <1>3. NewBlocksApart(z, z)
    BY DEF NewBlocksApart, Marked
  <1> QED BY <1>1, <1>2, <1>3 DEF Grown, ListsNewInodes, NewInodesApart, Unlisted

(* What the loop has done after k entries.                                 *)
LEMMA WriteTable ==
    ASSUME NEW write \in [DataCall -> FsType], KeepsStatus(write), Writes(write),
           NEW z \in FsType, Marked(z), NEW data \in Seq(Nat), Len(data) > CAP
    PROVE  LET D == write_table(write, z, data)
           IN \A k \in 0 .. entries_of(data) :
                /\ D[k] \in TableAcc
                /\ \A m \in 1 .. BLOCK_SIZE : m > k => D[k].inodes[m] = 0
                /\ D[k].fs.status = "ok" =>
                     /\ Grown(z, {}, D[k].fs) /\ Marked(D[k].fs)
                     /\ Unlisted(z, D[k].fs, Entered(D[k], k))
  <1> DEFINE D == write_table(write, z, data)
             n == entries_of(data)
             Good(k) == /\ \A m \in 1 .. BLOCK_SIZE : m > k => D[k].inodes[m] = 0
                        /\ D[k].fs.status = "ok" =>
                             /\ Grown(z, {}, D[k].fs) /\ Marked(D[k].fs)
                             /\ Unlisted(z, D[k].fs, Entered(D[k], k))
             T == {k \in 0 .. n : Good(k)}
  <1>1. n \in Nat /\ n <= BLOCK_SIZE /\ BLOCK_SIZE \in Nat
    BY Entries, SizesAssumption
  <1>2. /\ D \in [0 .. n -> TableAcc] /\ D[0] = [fs |-> z, inodes |-> ZeroBlock]
        /\ \A k \in 1 .. n : D[k] = write_sub(write, D[k - 1], data, k)
    BY WriteTableDef
  <1> HIDE DEF D, n
  <1>3. 0 \in T
    <2>1. D[0].fs = z /\ D[0].inodes = ZeroBlock
      BY <1>2
    <2>2. \A m \in 1 .. BLOCK_SIZE : ZeroBlock[m] = 0
      BY DEF ZeroBlock
    <2>3. Entered(D[0], 0) = {}
      BY DEF Entered
    <2>4. z.status = "ok" => Grown(z, {}, z) /\ Unlisted(z, z, {})
      BY GrownFromStart
    <2>5. Good(0)
      BY <2>1, <2>2, <2>3, <2>4
    <2>6. 0 \in 0 .. n
      BY <1>1
    <2> QED BY <2>5, <2>6
  <1>4. ASSUME NEW k \in 1 .. n, k - 1 \in T PROVE k \in T
    <2> DEFINE acc == D[k - 1]
               r == D[k]
               f == acc.fs
               a == alloc_inode(f, T_FILE)
               sub == find_free_inode(f)
               part == Slice(data, k - 1)
               call == [fs |-> a, inum |-> sub, data |-> part]
    <2>1. k \in 0 .. n /\ k \in 1 .. BLOCK_SIZE /\ k - 1 \in 0 .. n /\ k \in Nat
      BY <1>1
    <2>2. acc \in TableAcc /\ Good(k - 1) /\ f \in FsType
      BY <1>2, <1>4, <2>1 DEF TableAcc
    <2>3. /\ r \in TableAcc /\ a \in FsType /\ call \in DataCall /\ part \in Seq(Nat)
          /\ r.fs = write[call] /\ r.inodes[k] = sub
          /\ \A m \in 1 .. BLOCK_SIZE : m # k => r.inodes[m] = acc.inodes[m]
      <3>1. r = write_sub(write, acc, data, k)
        BY <1>2
      <3> HIDE DEF acc, r
      <3> QED BY <2>1, <2>2, <3>1, WriteSub, SMTT(40)
    <2>4. call.fs = a
      OBVIOUS
    <2>5. \A m \in 1 .. BLOCK_SIZE : m > k => r.inodes[m] = 0
      <3> HIDE DEF r
      <3> SUFFICES ASSUME NEW m \in 1 .. BLOCK_SIZE, m > k PROVE r.inodes[m] = 0
        OBVIOUS
      <3>1. m # k /\ m > k - 1
        BY <2>1
      <3> QED BY <2>2, <2>3, <3>1
    <2>6. ASSUME r.fs.status = "ok"
          PROVE  Grown(z, {}, r.fs) /\ Marked(r.fs) /\ Unlisted(z, r.fs, Entered(r, k))
      <3>1. a.status = "ok"
        BY <2>3, <2>4, <2>6 DEF KeepsStatus
      <3> HIDE DEF call, r
      <3>2. /\ f.status = "ok" /\ sub \in Inums /\ Live(a) = Live(f) \cup {sub}
            /\ a.used = f.used
            /\ \A b : \A j \in Inums, l \in 0 .. NDIRECT : NamesBlock(a, j, l, b) <=> NamesBlock(f, j, l, b)
        BY <2>2, <3>1, TakenInode
      <3>3. Grown(z, {}, f) /\ Marked(f) /\ Unlisted(z, f, Entered(acc, k - 1))
        BY <2>2, <3>2
      <3>4. Marked(a) /\ sub \in Live(a)
        BY <3>2, <3>3 DEF Marked
      <3>5. Grown(a, {sub}, r.fs)
        <4> HIDE DEF a, sub, part
        <4> QED BY <2>3, <2>6, <3>2, <3>4 DEF Writes, call
      <3>6. Entered(r, k) = Entered(acc, k - 1) \cup {sub}
        <4>1. \A m \in 1 .. k : m # k => m \in 1 .. k - 1 /\ r.inodes[m] = acc.inodes[m]
          BY <1>1, <2>1, <2>3
        <4>2. \A m \in 1 .. k - 1 : m \in 1 .. k /\ m # k
          BY <2>1
        <4>3. k \in 1 .. k
          BY <2>1
        <4> HIDE DEF sub, acc
        <4> QED BY <2>3, <4>1, <4>2, <4>3 DEF Entered
      <3>7. r.fs \in FsType
        BY <2>3 DEF TableAcc
      <3>8. a = alloc_inode(f, T_FILE) /\ sub = find_free_inode(f)
        OBVIOUS
      <3> DEFINE L == Entered(acc, k - 1)
                 g == r.fs
      <3>9. Unlisted(z, f, L) /\ Entered(r, k) = L \cup {sub} /\ Grown(a, {sub}, g)
        BY <3>3, <3>5, <3>6
      <3> HIDE DEF f, a, sub, acc, L, g
      <3>10. Grown(z, {}, g) /\ Unlisted(z, g, L \cup {sub}) /\ Marked(g)
        BY <2>2, <3>1, <3>3, <3>7, <3>8, <3>9, SubStep DEF g
      <3> QED BY <3>9, <3>10 DEF g
    <2> QED BY <2>1, <2>5, <2>6
  <1>5. \A k \in 0 .. n : k \in T
    <2> HIDE DEF T
    <2> QED BY <1>1, <1>3, <1>4, Induct
  <1> QED BY <1>2, <1>5 DEF D, n

LEMMA TableStatus ==
    ASSUME NEW write \in [DataCall -> FsType], KeepsStatus(write),
           NEW z \in FsType, NEW data \in Seq(Nat), Len(data) > CAP
    PROVE  LET D == write_table(write, z, data)
           IN \A k \in 0 .. entries_of(data) : D[k].fs.status = "ok" => z.status = "ok"
  <1> DEFINE D == write_table(write, z, data)
             n == entries_of(data)
             T == {k \in 0 .. n : D[k].fs.status = "ok" => z.status = "ok"}
  <1>1. n \in Nat /\ n <= BLOCK_SIZE /\ BLOCK_SIZE \in Nat
    BY Entries, SizesAssumption
  <1>2. /\ D \in [0 .. n -> TableAcc] /\ D[0] = [fs |-> z, inodes |-> ZeroBlock]
        /\ \A k \in 1 .. n : D[k] = write_sub(write, D[k - 1], data, k)
    BY WriteTableDef
  <1> HIDE DEF D, n
  <1>3. 0 \in T
    BY <1>1, <1>2
  <1>4. ASSUME NEW k \in 1 .. n, k - 1 \in T PROVE k \in T
    <2> DEFINE acc == D[k - 1]
               a == alloc_inode(acc.fs, T_FILE)
               call == [fs |-> a, inum |-> find_free_inode(acc.fs), data |-> Slice(data, k - 1)]
               r == D[k]
    <2>1. k \in 0 .. n /\ k \in 1 .. BLOCK_SIZE /\ k - 1 \in 0 .. n
      BY <1>1
    <2>2. acc \in TableAcc /\ acc.fs \in FsType /\ r = write_sub(write, acc, data, k)
      BY <1>2, <2>1 DEF TableAcc
    <2>3. acc.fs.status = "ok" => z.status = "ok"
      BY <1>4
    <2> HIDE DEF acc, r
    <2>4. call \in DataCall /\ r.fs = write[call]
      BY <2>1, <2>2, WriteSub
    <2>5. a.status = "ok" => acc.fs.status = "ok"
      BY <2>2, TakeInode
    <2>6. call.fs = a
      OBVIOUS
    <2> HIDE DEF call, a
    <2>7. r.fs.status = "ok" => a.status = "ok"
      BY <2>4, <2>6 DEF KeepsStatus
    <2> QED BY <2>1, <2>3, <2>5, <2>7 DEF r
  <1>5. \A k \in 0 .. n : k \in T
    <2> HIDE DEF T
    <2> QED BY <1>1, <1>3, <1>4, Induct
  <1> QED BY <1>5 DEF D, n

(* An inode with another size, and with another table.                     *)
LEMMA Resized ==
    ASSUME NEW n \in InodeType, NEW size \in 0 .. NDIRECT + 1
    PROVE  LET m == [n EXCEPT !.size = size]
           IN m \in InodeType /\ m.type = n.type /\ m.size = size /\ m.blocks = n.blocks
  <1>1. [n EXCEPT !.size = size] = [type |-> n.type, size |-> size, blocks |-> n.blocks]
    BY InodeParts
  <1> QED BY <1>1, InodeParts DEF InodeType

LEMMA WithTable ==
    ASSUME NEW n \in InodeType, NEW b \in 0 .. NDATA
    PROVE  LET m == [n EXCEPT !.blocks[NDIRECT] = b]
           IN /\ m \in InodeType /\ m.type = n.type /\ m.size = n.size
              /\ m.blocks[NDIRECT] = b
              /\ \A k \in 0 .. NDIRECT : k # NDIRECT => m.blocks[k] = n.blocks[k]
  <1> DEFINE bl == [n.blocks EXCEPT ![NDIRECT] = b]
  <1>1. [n EXCEPT !.blocks[NDIRECT] = b] = [type |-> n.type, size |-> n.size, blocks |-> bl]
    BY InodeParts
  <1>2. NDIRECT \in 0 .. NDIRECT
    BY SizesAssumption
  <1>3. /\ bl \in [0 .. NDIRECT -> 0 .. NDATA] /\ bl[NDIRECT] = b
        /\ \A k \in 0 .. NDIRECT : k # NDIRECT => bl[k] = n.blocks[k]
    BY <1>2, InodeParts
  <1> HIDE DEF bl
  <1> QED BY <1>1, <1>3, InodeParts DEF InodeType

LEMMA InodeSize ==
    ASSUME NEW n \in Nat
    PROVE  /\ inode_size(n) \in 0 .. NDIRECT + 1
           /\ n <= NDIRECT => inode_size(n) <= NDIRECT
  BY SizesAssumption DEF inode_size, MinOf

(* The parts of a write: the file system after the direct slots with the   *)
(* inode as it then is, and the table.                                     *)
DirectPart(f, i, data) == write_direct(f, f.inode[i], data)[ndirect(data)]
NewInode(f, i, data) == [DirectPart(f, i, data).ino EXCEPT !.size = inode_size(blocks_of(Len(data)))]
TableBlock(f, i, data) == find_free_block(DirectPart(f, i, data).fs)
TablePart(write, f, i, data) ==
    write_table(write, alloc_block(DirectPart(f, i, data).fs), data)[entries_of(data)]

(* The three ways write_level can end.                                     *)
LEMMA WriteLevelCases ==
    ASSUME NEW write \in [DataCall -> FsType], NEW f \in FsType, NEW i \in Inums, NEW data \in Seq(Nat)
    PROVE  LET d == DirectPart(f, i, data)
               ino == NewInode(f, i, data)
               id == TableBlock(f, i, data)
               s == TablePart(write, f, i, data)
               g == write_level(write, f, i, data)
           IN /\ d \in DirectAcc /\ d.fs \in FsType /\ d.ino \in InodeType
              /\ ino \in InodeType /\ ino.type = d.ino.type /\ ino.blocks = d.ino.blocks
              /\ Len(data) <= CAP => ino.size <= NDIRECT /\ g = put_inode(d.fs, i, ino)
              /\ Len(data) > CAP /\ id = 0 => g = die(d.fs, "bad_alloc")
              /\ Len(data) > CAP /\ id # 0 =>
                   g = put_inode(write_block(s.fs, id, s.inodes), i,
                                 [ino EXCEPT !.blocks[NDIRECT] = id])
              /\ Len(data) <= CAP \/ Len(data) > CAP
  <1> DEFINE nb == blocks_of(Len(data))
             d == DirectPart(f, i, data)
             ino == NewInode(f, i, data)
             id == TableBlock(f, i, data)
             s == TablePart(write, f, i, data)
             g == write_level(write, f, i, data)
  <1>1. f.inode[i] \in InodeType
    BY FsParts
  <1>2. ndirect(data) \in 0 .. ndirect(data)
    BY NDirect
  <1>3. d \in DirectAcc
    BY <1>1, <1>2, WriteDirect DEF DirectPart
  <1>4. d.fs \in FsType /\ d.ino \in InodeType
    BY <1>3 DEF DirectAcc
  <1>5. nb \in Nat /\ (Len(data) <= CAP => nb <= NDIRECT)
    BY LenProperties, BlocksOf
  <1>6. inode_size(nb) \in 0 .. NDIRECT + 1 /\ (nb <= NDIRECT => inode_size(nb) <= NDIRECT)
    BY <1>5, InodeSize
  <1>7. ino \in InodeType /\ ino.type = d.ino.type /\ ino.size = inode_size(nb)
        /\ ino.blocks = d.ino.blocks
    <2>1. ino = [d.ino EXCEPT !.size = inode_size(nb)]
      BY DEF NewInode
    <2> HIDE DEF nb, ino, d
    <2> QED BY <1>4, <1>6, <2>1, Resized
  <1>8. g = IF Len(data) <= CAP THEN put_inode(d.fs, i, ino)
            ELSE IF id = 0 THEN die(d.fs, "bad_alloc")
            ELSE put_inode(write_block(s.fs, id, s.inodes), i, [ino EXCEPT !.blocks[NDIRECT] = id])
    BY DEF write_level, ndirect, DirectPart, NewInode, TableBlock, TablePart
  <1>9. Len(data) \in Nat /\ CAP \in Nat
    BY LenProperties, SizesAssumption DEF CAP
  <1> HIDE DEF nb, d, ino, id, s, g
  <1>10. Len(data) <= CAP => ino.size <= NDIRECT /\ g = put_inode(d.fs, i, ino)
    BY <1>5, <1>6, <1>7, <1>8
  <1>11. Len(data) > CAP => ~(Len(data) <= CAP)
    BY <1>9
  <1>12. Len(data) > CAP /\ id = 0 => g = die(d.fs, "bad_alloc")
    BY <1>8, <1>11
  <1>13. Len(data) > CAP /\ id # 0 =>
           g = put_inode(write_block(s.fs, id, s.inodes), i, [ino EXCEPT !.blocks[NDIRECT] = id])
    BY <1>8, <1>11
  <1>14. Len(data) <= CAP \/ Len(data) > CAP
    BY <1>9
  <1> QED BY <1>3, <1>4, <1>7, <1>10, <1>12, <1>13, <1>14 DEF d, ino, id, s, g

(* The direct slots of a write.                                            *)
LEMMA DirectPartDef ==
    ASSUME NEW f \in FsType, NEW i \in Inums, NEW data \in Seq(Nat)
    PROVE  LET d == DirectPart(f, i, data)
               M == ndirect(data)
           IN /\ M \in Nat /\ M <= NDIRECT
              /\ d.ino.type = f.inode[i].type
              /\ \A l \in 0 .. NDIRECT : l >= M => d.ino.blocks[l] = f.inode[i].blocks[l]
              /\ d.fs.status = "ok" => Placed(f, f.inode[i], M, d)
  <1>1. f.inode[i] \in InodeType
    BY FsParts
  <1>2. ndirect(data) \in Nat /\ ndirect(data) <= NDIRECT /\ ndirect(data) \in 0 .. ndirect(data)
    BY NDirect
  <1> DEFINE n == f.inode[i]
  <1>3. DirectPart(f, i, data) = write_direct(f, n, data)[ndirect(data)]
    BY DEF DirectPart
  <1> HIDE DEF n
  <1>4. LET d == write_direct(f, n, data)[ndirect(data)]
            M == ndirect(data)
        IN /\ d.ino.type = n.type
           /\ \A l \in 0 .. NDIRECT : l >= M => d.ino.blocks[l] = n.blocks[l]
           /\ d.fs.status = "ok" => Placed(f, n, M, d)
    BY <1>1, <1>2, WriteDirect DEF n
  <1> QED BY <1>2, <1>3, <1>4 DEF n

(* The table of a write: what it has done when it is reached.              *)
LEMMA TablePartDef ==
    ASSUME NEW write \in [DataCall -> FsType], NEW f \in FsType, NEW i \in Inums,
           NEW data \in Seq(Nat), Len(data) > CAP, TableBlock(f, i, data) # 0
    PROVE  LET d == DirectPart(f, i, data)
               z == alloc_block(d.fs)
               s == TablePart(write, f, i, data)
               id == TableBlock(f, i, data)
               n == entries_of(data)
           IN /\ n \in Nat /\ n <= BLOCK_SIZE
              /\ id \in DataBlocks \ d.fs.used
              /\ z \in FsType /\ z.used = d.fs.used \cup {id} /\ z.disk = d.fs.disk
              /\ z.inode = d.fs.inode /\ z.status = d.fs.status
              /\ s \in TableAcc /\ s.fs \in FsType /\ s.inodes \in BlockType
              /\ KeepsStatus(write) /\ s.fs.status = "ok" => z.status = "ok"
              /\ KeepsStatus(write) /\ Writes(write) /\ Marked(z) =>
                   /\ \A m \in 1 .. BLOCK_SIZE : m > n => s.inodes[m] = 0
                   /\ s.fs.status = "ok" =>
                        /\ Grown(z, {}, s.fs) /\ Marked(s.fs) /\ Unlisted(z, s.fs, Entered(s, n))
  <1> DEFINE d == DirectPart(f, i, data)
             e == d.fs
             z == alloc_block(e)
             S == write_table(write, z, data)
             s == TablePart(write, f, i, data)
             id == TableBlock(f, i, data)
             n == entries_of(data)
  <1>1. e \in FsType
    BY WriteLevelCases
  <1>2. id = find_free_block(e) /\ id # 0
    BY DEF TableBlock
  <1>3. s = S[n]
    BY DEF TablePart
  <1>4. n \in Nat /\ n <= BLOCK_SIZE /\ n \in 0 .. n
    BY Entries
  <1> HIDE DEF d, e, id, n, s
  <1>5. id \in DataBlocks \ e.used
    BY <1>1, <1>2, FindFreeBlock
  <1>6. z \in FsType /\ z.used = e.used \cup {id} /\ z.disk = e.disk
        /\ z.inode = e.inode /\ z.status = e.status
    BY <1>1, <1>2, TakeBlock
  <1> HIDE DEF z
  <1>7. S \in [0 .. n -> TableAcc]
    BY <1>6, WriteTableDef DEF n
  <1>8. KeepsStatus(write) /\ S[n].fs.status = "ok" => z.status = "ok"
    BY <1>4, <1>6, TableStatus DEF n
  <1>9. KeepsStatus(write) /\ Writes(write) /\ Marked(z) =>
          /\ \A m \in 1 .. BLOCK_SIZE : m > n => S[n].inodes[m] = 0
          /\ S[n].fs.status = "ok" =>
               /\ Grown(z, {}, S[n].fs) /\ Marked(S[n].fs) /\ Unlisted(z, S[n].fs, Entered(S[n], n))
    <2> SUFFICES ASSUME KeepsStatus(write), Writes(write), Marked(z)
                 PROVE  /\ \A m \in 1 .. BLOCK_SIZE : m > n => S[n].inodes[m] = 0
                        /\ S[n].fs.status = "ok" =>
                             /\ Grown(z, {}, S[n].fs) /\ Marked(S[n].fs)
                             /\ Unlisted(z, S[n].fs, Entered(S[n], n))
      OBVIOUS
    <2>1. \A k \in 0 .. n :
            /\ S[k] \in TableAcc
            /\ \A m \in 1 .. BLOCK_SIZE : m > k => S[k].inodes[m] = 0
            /\ S[k].fs.status = "ok" =>
                 /\ Grown(z, {}, S[k].fs) /\ Marked(S[k].fs)
                 /\ Unlisted(z, S[k].fs, Entered(S[k], k))
      BY <1>6, WriteTable, Zenon DEF n
    <2> HIDE DEF S
    <2> QED BY <1>4, <2>1, Zenon
  <1> HIDE DEF S
  <1>10. s \in TableAcc /\ s.fs \in FsType /\ s.inodes \in BlockType
    BY <1>3, <1>4, <1>7 DEF TableAcc
  <1> QED BY <1>3, <1>4, <1>5, <1>6, <1>8, <1>9, <1>10 DEF d, e, z, id, n, s

LEMMA WriteLevelTyped ==
    ASSUME NEW write \in [DataCall -> FsType], NEW f \in FsType, NEW i \in Nat, NEW data \in Seq(Nat)
    PROVE  LET g == write_level(write, f, i, data)
           IN g \in FsType /\ (KeepsStatus(write) /\ g.status = "ok" => f.status = "ok")
  <1> DEFINE g == write_level(write, f, i, data)
  <1>1. CASE i \notin Inums
    BY <1>1 DEF write_level
  <1>2. CASE i \in Inums
    <2> DEFINE d == DirectPart(f, i, data)
               ino == NewInode(f, i, data)
               id == TableBlock(f, i, data)
               s == TablePart(write, f, i, data)
               z == alloc_block(d.fs)
               w == write_block(s.fs, id, s.inodes)
               ino2 == [ino EXCEPT !.blocks[NDIRECT] = id]
    <2>1. /\ d.fs \in FsType /\ ino \in InodeType
          /\ Len(data) <= CAP => g = put_inode(d.fs, i, ino)
          /\ Len(data) > CAP /\ id = 0 => g = die(d.fs, "bad_alloc")
          /\ Len(data) > CAP /\ id # 0 => g = put_inode(w, i, ino2)
          /\ Len(data) <= CAP \/ Len(data) > CAP
      BY <1>2, WriteLevelCases, ZenonT(40)
    <2>2. d.fs.status = "ok" => f.status = "ok"
      BY <1>2, DirectPartDef DEF Placed
    <2>3. CASE Len(data) <= CAP
      <3> HIDE DEF d, ino, g
      <3> QED BY <1>2, <2>1, <2>2, <2>3, PutInode DEF g
    <2>4. CASE Len(data) > CAP /\ id = 0
      <3> HIDE DEF d, g, id
      <3>1. die(d.fs, "bad_alloc") \in FsType /\ die(d.fs, "bad_alloc").status # "ok"
        BY <2>1, DieEffect DEF StatusType
      <3> QED BY <2>1, <2>4, <3>1 DEF g
    <2>5. CASE Len(data) > CAP /\ id # 0
      <3>1. /\ z.status = d.fs.status /\ id \in DataBlocks
            /\ s.fs \in FsType /\ s.inodes \in BlockType
            /\ KeepsStatus(write) /\ s.fs.status = "ok" => z.status = "ok"
        BY <1>2, <2>5, TablePartDef
      <3>2. id \in 0 .. NDATA
        BY <3>1, SizesAssumption DEF DataBlocks
      <3> HIDE DEF d, ino, id, s, z, g
      <3>3. w \in FsType /\ w.status = s.fs.status
        BY <3>1, <3>2, WriteBlock
      <3>4. ino2 \in InodeType
        BY <2>1, <3>2, WithTable
      <3> HIDE DEF w, ino2
      <3>5. g \in FsType /\ g.status = w.status
        BY <1>2, <2>1, <2>5, <3>3, <3>4, PutInode
      <3> QED BY <2>2, <3>1, <3>3, <3>5 DEF g
    <2> QED BY <2>1, <2>3, <2>4, <2>5
  <1> QED BY <1>1, <1>2

(* The inode is put last: z is the state with its new blocks taken, h the  *)
(* one with the files of the table written, whose inums are in L.          *)
Ends(f, i, z, h, L, g) ==
    /\ f.status = "ok" /\ z.inode = f.inode /\ f.used \subseteq z.used
    /\ \A c \in f.used \cup {0} : z.disk[c] = f.disk[c]
    /\ Grown(z, {}, h) /\ Unlisted(z, h, L)
    /\ g.used = h.used
    /\ \A c \in 0 .. NDATA : c \notin z.used \ f.used => g.disk[c] = h.disk[c]
    /\ \A j \in Inums : j # i => g.inode[j] = h.inode[j]
    /\ g.inode[i].type = f.inode[i].type
    /\ \A k \in 0 .. NDIRECT : \/ g.inode[i].blocks[k] = f.inode[i].blocks[k]
                               \/ g.inode[i].blocks[k] \in z.used \ f.used
    /\ \A k, l \in 0 .. NDIRECT :
         g.inode[i].blocks[k] \in z.used \ f.used /\ g.inode[i].blocks[k] = g.inode[i].blocks[l]
         => k = l
    /\ SubsIn(g, i) \subseteq L

LEMMA LevelEnd ==
    ASSUME NEW f \in FsType, NEW z \in FsType, NEW h \in FsType, NEW g \in FsType, NEW L,
           NEW i \in Live(f), Marked(f), Ends(f, i, z, h, L, g)
    PROVE  Grown(f, {i}, g)
  <1> USE DEF Ends
  <1>1. i \in Inums /\ f.inode[i].type # 0 /\ Live(z) = Live(f)
    BY DEF Live
  <1>2. /\ z.used \subseteq h.used /\ \A c \in z.used \cup {0} : h.disk[c] = z.disk[c]
        /\ \A j \in Live(f) : h.inode[j] = f.inode[j]
    <2>1. KeepsBlocks(z, h) /\ KeepsInodes(z, {}, h)
      BY DEF Grown
    <2>2. \A j \in Live(z) : h.inode[j] = z.inode[j]
      BY <2>1 DEF KeepsInodes
    <2> QED BY <1>1, <2>1, <2>2 DEF KeepsBlocks
  <1>3. Live(g) = Live(h) /\ New(f, g) = New(z, h) /\ i \notin New(z, h)
    <2>1. \A j \in Inums : g.inode[j].type = h.inode[j].type
      BY <1>2
    <2>2. Live(g) = Live(h)
      BY <2>1 DEF Live
    <2> QED BY <1>1, <2>2 DEF New
  <1>4. KeepsBlocks(f, g)
    <2>1. f.used \subseteq g.used
      BY <1>2
    <2>2. ASSUME NEW c \in f.used \cup {0} PROVE g.disk[c] = f.disk[c]
      <3>1. c \in 0 .. NDATA /\ c \notin z.used \ f.used /\ c \in z.used \cup {0}
        BY FsParts, SizesAssumption DEF DataBlocks
      <3> QED BY <1>2, <3>1
    <2> QED BY <2>1, <2>2 DEF KeepsBlocks
  <1>5. KeepsInodes(f, {i}, g)
    <2>1. \A j \in Live(f) : j \in Inums
      BY DEF Live
    <2>2. \A j \in New(z, h) : h.inode[j].type = T_FILE /\ j \in Inums
      BY DEF Grown, KeepsInodes, New, Live
    <2> QED BY <1>2, <1>3, <2>1, <2>2 DEF KeepsInodes
  <1>6. ASSUME NEW j \in Inums, j # i, NEW k \in 0 .. NDIRECT, NEW b \in DataBlocks,
               NamesBlock(g, j, k, b)
        PROVE  NamesBlock(h, j, k, b) /\ (NamesBlock(f, j, k, b) \/ b \in h.used \ z.used)
    <2>1. NamesBlock(h, j, k, b)
      BY <1>3, <1>6 DEF NamesBlock
    <2>2. NamesBlock(z, j, k, b) => NamesBlock(f, j, k, b)
      BY <1>1 DEF NamesBlock
    <2> QED BY <2>1, <2>2 DEF Grown, NamesNewBlocks
  <1>7. ASSUME NEW k \in 0 .. NDIRECT, NEW b \in DataBlocks, NamesBlock(g, i, k, b)
        PROVE  NamesBlock(f, i, k, b) \/ b \in z.used \ f.used
    BY <1>7 DEF NamesBlock
  <1>8. NamesNewBlocks(f, g)
    <2> SUFFICES ASSUME NEW j \in Inums, NEW k \in 0 .. NDIRECT, NEW b \in DataBlocks,
                        NamesBlock(g, j, k, b)
                 PROVE  NamesBlock(f, j, k, b) \/ b \in g.used \ f.used
      BY DEF NamesNewBlocks
    <2>1. CASE j = i
      BY <1>2, <1>7, <2>1
    <2>2. CASE j # i
      BY <1>2, <1>6, <2>2
    <2> QED BY <2>1, <2>2
  <1>9. NewBlocksApart(f, g)
    <2> SUFFICES ASSUME NEW p \in Inums, NEW q \in Inums, NEW k \in 0 .. NDIRECT,
                        NEW l \in 0 .. NDIRECT, NEW b \in DataBlocks,
                        NamesBlock(g, p, k, b), NamesBlock(g, q, l, b), b \notin f.used
                 PROVE  p = q /\ k = l
      BY DEF NewBlocksApart
    <2>1. ~NamesBlock(f, p, k, b) /\ ~NamesBlock(f, q, l, b)
      BY DEF Marked
    <2>2. CASE p = i /\ q = i
      BY <1>7, <2>1, <2>2 DEF NamesBlock
    <2>3. CASE p # i /\ q # i
      <3>1. NamesBlock(h, p, k, b) /\ NamesBlock(h, q, l, b) /\ b \notin z.used
        BY <1>6, <2>1, <2>3
      <3> QED BY <3>1 DEF Grown, NewBlocksApart
    <2>4. CASE p = i /\ q # i
      BY <1>6, <1>7, <2>1, <2>4
    <2>5. CASE p # i /\ q = i
      BY <1>6, <1>7, <2>1, <2>5
    <2> QED BY <2>2, <2>3, <2>4, <2>5
  <1>10. ASSUME NEW j \in New(z, h) PROVE SubsIn(g, j) = SubsIn(h, j)
    <2> DEFINE t == h.inode[j].blocks[NDIRECT]
    <2>1. j \in Inums /\ j # i /\ j \in Live(h) /\ j \notin Live(z) /\ NDIRECT \in 0 .. NDIRECT
      BY <1>3, SizesAssumption DEF New, Live
    <2>2. t \in 0 .. NDATA
      BY <2>1, FsParts, InodeParts
    <2>3. t \notin z.used \ f.used
      <3>1. CASE t = 0
        BY <3>1, FsParts, SizesAssumption DEF DataBlocks
      <3>2. CASE t # 0
        <4>1. t \in DataBlocks /\ NamesBlock(h, j, NDIRECT, t) /\ ~NamesBlock(z, j, NDIRECT, t)
          BY <2>1, <2>2, <3>2, SizesAssumption DEF NamesBlock, DataBlocks
        <4>2. NamesNewBlocks(z, h)
          BY DEF Grown
        <4> QED BY <2>1, <4>1, <4>2 DEF NamesNewBlocks
      <3> QED BY <3>1, <3>2
    <2>4. g.disk[t] = h.disk[t] /\ g.inode[j] = h.inode[j]
      BY <2>1, <2>2, <2>3
    <2>5. g.disk[h.inode[j].blocks[NDIRECT]] = h.disk[h.inode[j].blocks[NDIRECT]]
      BY ONLY <2>4 DEF t
    <2>6. g \in FsType /\ h \in FsType
      OBVIOUS
    <2> HIDE DEF t, Ends
    <2> QED BY ONLY <2>1, <2>4, <2>5, <2>6, SubsSame
  <1>11. /\ \A j \in New(z, h) : SubsIn(g, j) \subseteq New(z, h) /\ SubsIn(g, j) \cap L = {}
         /\ \A j, k \in New(z, h) : j # k => SubsIn(g, j) \cap SubsIn(g, k) = {}
         /\ L \subseteq New(z, h)
    BY <1>10 DEF Grown, ListsNewInodes, NewInodesApart, Unlisted
  <1>12. ListsNewInodes(f, {i}, g)
    BY <1>3, <1>11 DEF ListsNewInodes
  <1>13. NewInodesApart(f, {i}, g)
    <2> SUFFICES ASSUME NEW j \in New(f, g) \cup {i}, NEW k \in New(f, g) \cup {i}, j # k
                 PROVE  SubsIn(g, j) \cap SubsIn(g, k) = {}
      BY DEF NewInodesApart
    <2>1. CASE j = i
      BY <1>3, <1>11, <2>1
    <2>2. CASE k = i
      BY <1>3, <1>11, <2>2
    <2>3. CASE j # i /\ k # i
      BY <1>3, <1>11, <2>3
    <2> QED BY <2>1, <2>2, <2>3
  <1> QED BY <1>4, <1>5, <1>8, <1>9, <1>12, <1>13 DEF Grown

(* The blocks of the direct slots are taken: the slots of the inode before *)
(* M name new blocks, each another one.                                    *)
LEMMA Taken ==
    ASSUME NEW f \in FsType, NEW n \in InodeType, NEW M \in Nat, M <= NDIRECT,
           NEW d \in DirectAcc, Placed(f, n, M, d),
           \A l \in 0 .. NDIRECT : l >= M => d.ino.blocks[l] = n.blocks[l]
    PROVE  /\ f.status = "ok" /\ f.used \subseteq d.fs.used /\ d.fs.inode = f.inode
           /\ \A c \in f.used \cup {0} : d.fs.disk[c] = f.disk[c]
           /\ \A l \in 0 .. NDIRECT : \/ d.ino.blocks[l] = n.blocks[l]
                                      \/ l < M /\ d.ino.blocks[l] \in d.fs.used \ f.used
           /\ \A k, l \in 0 .. NDIRECT : k < M /\ l < M /\ d.ino.blocks[k] = d.ino.blocks[l] => k = l
           /\ \A l \in 0 .. NDIRECT : l < M => d.ino.blocks[l] \in d.fs.used \ f.used
  <1>1. d.fs \in FsType
    BY DEF DirectAcc
  <1>2. \A l \in 0 .. NDIRECT : l < M => l \in 0 .. M - 1
    BY SizesAssumption
  <1>3. \A l \in 0 .. NDIRECT : l < M \/ l >= M
    BY SizesAssumption
  <1>4. \A l \in 0 .. NDIRECT : l < M => d.ino.blocks[l] \in d.fs.used \ f.used
    BY <1>2 DEF Placed
  <1>5. \A k, l \in 0 .. NDIRECT : k < M /\ l < M /\ d.ino.blocks[k] = d.ino.blocks[l] => k = l
    BY <1>2 DEF Placed
  <1>6. ASSUME NEW c \in f.used \cup {0} PROVE d.fs.disk[c] = f.disk[c]
    <2>1. c \in 0 .. NDATA /\ c \notin d.fs.used \ f.used
      BY <1>1, FsParts, SizesAssumption DEF DataBlocks
    <2> QED BY <2>1 DEF Placed
  <1>7. f.status = "ok" /\ f.used \subseteq d.fs.used /\ d.fs.inode = f.inode
    BY DEF Placed
  <1> QED BY <1>3, <1>4, <1>5, <1>6, <1>7

(* One level of write_file does what is required of it, if the level below *)
(* does.                                                                   *)
LEMMA WriteLevelGrown ==
    ASSUME NEW write \in [DataCall -> FsType], KeepsStatus(write), Writes(write),
           NEW f \in FsType, NEW i \in Live(f), Marked(f), NEW data \in Seq(Nat),
           NEW g, g = write_level(write, f, i, data), g.status = "ok"
    PROVE  Grown(f, {i}, g)
  <1> DEFINE d == DirectPart(f, i, data)
             M == ndirect(data)
             n == f.inode[i]
             ino == NewInode(f, i, data)
             id == TableBlock(f, i, data)
             s == TablePart(write, f, i, data)
             z == alloc_block(d.fs)
             E == entries_of(data)
             w == write_block(s.fs, id, s.inodes)
             ino2 == [ino EXCEPT !.blocks[NDIRECT] = id]
  <1>1. i \in Inums /\ i \in Nat /\ g \in FsType /\ n \in InodeType
    <2>1. i \in Inums /\ i \in Nat
      BY SizesAssumption DEF Live, Inums
    <2> QED BY <2>1, WriteLevelTyped, FsParts
  <1>2. /\ d \in DirectAcc /\ d.fs \in FsType /\ d.ino \in InodeType
        /\ ino \in InodeType /\ ino.type = d.ino.type /\ ino.blocks = d.ino.blocks
        /\ Len(data) <= CAP => ino.size <= NDIRECT /\ g = put_inode(d.fs, i, ino)
        /\ Len(data) > CAP /\ id = 0 => g = die(d.fs, "bad_alloc")
        /\ Len(data) > CAP /\ id # 0 => g = put_inode(w, i, ino2)
        /\ Len(data) <= CAP \/ Len(data) > CAP
    BY <1>1, WriteLevelCases, SMTT(40)
  <1>3. /\ M \in Nat /\ M <= NDIRECT /\ NDIRECT \in Nat
        /\ d.ino.type = n.type
        /\ \A l \in 0 .. NDIRECT : l >= M => d.ino.blocks[l] = n.blocks[l]
        /\ d.fs.status = "ok" => Placed(f, n, M, d)
    BY <1>1, DirectPartDef, SizesAssumption
  <1>4. Len(data) > CAP /\ id # 0 =>
          /\ E \in Nat /\ E <= BLOCK_SIZE
          /\ id \in DataBlocks \ d.fs.used
          /\ z \in FsType /\ z.used = d.fs.used \cup {id} /\ z.disk = d.fs.disk
          /\ z.inode = d.fs.inode /\ z.status = d.fs.status
          /\ s \in TableAcc /\ s.fs \in FsType /\ s.inodes \in BlockType
          /\ s.fs.status = "ok" => z.status = "ok"
          /\ Marked(z) =>
               /\ \A m \in 1 .. BLOCK_SIZE : m > E => s.inodes[m] = 0
               /\ s.fs.status = "ok" =>
                    /\ Grown(z, {}, s.fs) /\ Marked(s.fs) /\ Unlisted(z, s.fs, Entered(s, E))
    BY <1>1, TablePartDef, SMTT(40)
  <1> HIDE DEF d, M, n, ino, id, s, z, E
  <1>5. ASSUME d.fs.status = "ok"
        PROVE  /\ f.status = "ok" /\ f.used \subseteq d.fs.used /\ d.fs.inode = f.inode
               /\ \A c \in f.used \cup {0} : d.fs.disk[c] = f.disk[c]
               /\ \A l \in 0 .. NDIRECT : \/ d.ino.blocks[l] = n.blocks[l]
                                          \/ l < M /\ d.ino.blocks[l] \in d.fs.used \ f.used
               /\ \A k, l \in 0 .. NDIRECT :
                    k < M /\ l < M /\ d.ino.blocks[k] = d.ino.blocks[l] => k = l
               /\ \A l \in 0 .. NDIRECT : l < M => d.ino.blocks[l] \in d.fs.used \ f.used
    BY <1>1, <1>2, <1>3, <1>5, Taken
  <1>6. ASSUME NEW l \in 0 .. NDIRECT PROVE n.blocks[l] \notin d.fs.used \ f.used
    <2>1. n.blocks[l] \in 0 .. NDATA
      BY <1>1, InodeParts
    <2>2. CASE n.blocks[l] = 0
      BY <1>2, <2>2, FsParts, SizesAssumption DEF DataBlocks
    <2>3. CASE n.blocks[l] # 0
      <3>1. n.blocks[l] \in DataBlocks /\ NamesBlock(f, i, l, n.blocks[l])
        BY <2>1, <2>3, SizesAssumption DEF DataBlocks, NamesBlock, n
      <3> QED BY <1>1, <3>1 DEF Marked
    <2> QED BY <2>2, <2>3
  <1>7. CASE Len(data) <= CAP
    <2>1. /\ g.used = d.fs.used /\ g.disk = d.fs.disk /\ g.status = d.fs.status
          /\ g.inode[i] = ino /\ ino.size <= NDIRECT
          /\ \A j \in Inums : j # i => g.inode[j] = d.fs.inode[j]
      <3>1. g = put_inode(d.fs, i, ino) /\ ino.size <= NDIRECT
        BY <1>2, <1>7
      <3> DEFINE e == d.fs
      <3>2. e \in FsType /\ ino \in InodeType /\ i \in Inums /\ g = put_inode(e, i, ino)
        BY <1>1, <1>2, <3>1
      <3> HIDE DEF e
      <3>3. /\ g.used = e.used /\ g.disk = e.disk /\ g.status = e.status
            /\ g.inode[i] = ino /\ \A j \in Inums : j # i => g.inode[j] = e.inode[j]
        BY <3>2, PutInode
      <3> QED BY <3>1, <3>3 DEF e
    <2>2. d.fs.status = "ok"
      BY <2>1
    <2>3. Marked(d.fs)
      BY <1>5, <2>2 DEF Marked, NamesBlock, Live
    <2>4. Grown(d.fs, {}, d.fs) /\ Unlisted(d.fs, d.fs, {})
      BY <1>2, <2>2, <2>3, GrownFromStart
    <2>5. SubsIn(g, i) \subseteq {}
      <3>1. table(g, ino) = <<>>
        BY <1>1, <1>2, <2>1, TableDef
      <3> QED BY <2>1, <3>1 DEF SubsIn
    <2>6. /\ g.inode[i].type = f.inode[i].type
          /\ \A k \in 0 .. NDIRECT : \/ g.inode[i].blocks[k] = f.inode[i].blocks[k]
                                     \/ g.inode[i].blocks[k] \in d.fs.used \ f.used
      BY <1>2, <1>3, <1>5, <2>1, <2>2 DEF n
    <2>7. \A k, l \in 0 .. NDIRECT :
            g.inode[i].blocks[k] \in d.fs.used \ f.used
            /\ g.inode[i].blocks[k] = g.inode[i].blocks[l] => k = l
      <3>1. g.inode[i].blocks = d.ino.blocks
        BY <1>2, <2>1
      <3> QED BY <1>5, <1>6, <2>2, <3>1
    <2> DEFINE e == d.fs
    <2>8. /\ e \in FsType /\ e.inode = f.inode /\ f.used \subseteq e.used /\ f.status = "ok"
          /\ \A c \in f.used \cup {0} : e.disk[c] = f.disk[c]
      BY <1>2, <1>5, <2>2
    <2>9. g.used = e.used /\ g.disk = e.disk /\ \A j \in Inums : j # i => g.inode[j] = e.inode[j]
      BY <2>1
    <2>10. Grown(e, {}, e) /\ Unlisted(e, e, {})
      BY <2>4
    <2>11. \A k \in 0 .. NDIRECT : \/ g.inode[i].blocks[k] = f.inode[i].blocks[k]
                                   \/ g.inode[i].blocks[k] \in e.used \ f.used
      BY <2>6
    <2>12. \A k, l \in 0 .. NDIRECT : g.inode[i].blocks[k] \in e.used \ f.used
            /\ g.inode[i].blocks[k] = g.inode[i].blocks[l] => k = l
      BY <2>7
    <2> HIDE DEF e
    <2>13. Ends(f, i, e, e, {}, g)
      BY <2>5, <2>6, <2>8, <2>9, <2>10, <2>11, <2>12 DEF Ends
    <2> QED BY <1>1, <2>8, <2>13, LevelEnd
  <1>8. CASE Len(data) > CAP /\ id = 0
    <2>1. g.status # "ok"
      BY <1>2, <1>8, DieEffect DEF StatusType
    <2> QED BY <2>1
  <1>9. CASE Len(data) > CAP /\ id # 0
    <2> DEFINE e == d.fs
               h == s.fs
    <2>1. /\ E \in Nat /\ E <= BLOCK_SIZE
          /\ id \in DataBlocks \ e.used
          /\ z \in FsType /\ z.used = e.used \cup {id} /\ z.disk = e.disk
          /\ z.inode = e.inode /\ z.status = e.status
          /\ h \in FsType /\ s.inodes \in BlockType
          /\ h.status = "ok" => z.status = "ok"
      BY <1>4, <1>9
    <2>2. id \in 0 .. NDATA
      BY <2>1, SizesAssumption DEF DataBlocks
    <2>3. /\ w \in FsType /\ w.used = h.used /\ w.inode = h.inode /\ w.status = h.status
          /\ w.disk[id] = s.inodes
          /\ \A c \in 0 .. NDATA : c # id => w.disk[c] = h.disk[c]
      BY <2>1, <2>2, WriteBlock
    <2>4. /\ ino2 \in InodeType /\ ino2.type = ino.type /\ ino2.size = ino.size
          /\ ino2.blocks[NDIRECT] = id
          /\ \A k \in 0 .. NDIRECT : k # NDIRECT => ino2.blocks[k] = ino.blocks[k]
      BY <1>2, <2>2, WithTable
    <2> HIDE DEF w, ino2
    <2>5. /\ g.used = w.used /\ g.disk = w.disk /\ g.status = w.status
          /\ g.inode[i] = ino2
          /\ \A j \in Inums : j # i => g.inode[j] = w.inode[j]
      <3>1. g = put_inode(w, i, ino2)
        BY <1>2, <1>9
      <3>2. i \in Inums /\ w \in FsType /\ ino2 \in InodeType
        BY <1>1, <2>3, <2>4
      <3> QED BY <3>1, <3>2, PutInode
    <2>6. h.status = "ok" /\ z.status = "ok" /\ e.status = "ok"
      BY <2>1, <2>3, <2>5
    <2>7. /\ f.status = "ok" /\ f.used \subseteq e.used /\ e.inode = f.inode
          /\ \A c \in f.used \cup {0} : e.disk[c] = f.disk[c]
      BY <1>5, <2>6
    <2>8. z.inode = f.inode /\ f.used \subseteq z.used /\ id \in z.used \ f.used
          /\ \A c \in f.used \cup {0} : z.disk[c] = f.disk[c]
      BY <2>1, <2>7
    <2>9. Marked(z)
      BY <2>8 DEF Marked, NamesBlock, Live
    <2> DEFINE L == Entered(s, E)
    <2>10. /\ Grown(z, {}, h) /\ Unlisted(z, h, L)
           /\ \A m \in 1 .. BLOCK_SIZE : m > E => s.inodes[m] = 0
      BY <1>4, <1>9, <2>6, <2>9
    <2>11. SubsIn(g, i) \subseteq L
      <3>1. g.disk[ino2.blocks[NDIRECT]] = s.inodes
        BY <2>3, <2>4, <2>5
      <3> DEFINE t == table(g, ino2)
      <3>2. \A m \in DOMAIN t : m \in 1 .. BLOCK_SIZE /\ t[m] = s.inodes[m] /\ t[m] # 0
        BY <1>1, <2>4, <3>1, TableDef
      <3> HIDE DEF t
      <3>3. \A m \in DOMAIN t : m \in 1 .. E
        BY <2>1, <2>10, <3>2, SizesAssumption
      <3>4. SubsIn(g, i) = {t[m] : m \in DOMAIN t}
        BY <2>5 DEF SubsIn, t
      <3> QED BY <3>2, <3>3, <3>4 DEF Entered
    <2>12. g.inode[i].type = f.inode[i].type
      BY <1>2, <1>3, <2>4, <2>5 DEF n
    <2> DEFINE bl == g.inode[i].blocks
    <2>13. /\ bl[NDIRECT] = id
           /\ \A k \in 0 .. NDIRECT : k # NDIRECT => bl[k] = d.ino.blocks[k]
      BY <1>2, <2>4, <2>5
    <2> HIDE DEF bl
    <2>14. \A k \in 0 .. NDIRECT : bl[k] = n.blocks[k] \/ bl[k] \in z.used \ f.used
      <3> SUFFICES ASSUME NEW k \in 0 .. NDIRECT
                   PROVE  bl[k] = n.blocks[k] \/ bl[k] \in z.used \ f.used
        OBVIOUS
      <3>1. CASE k = NDIRECT
        BY <2>8, <2>13, <3>1
      <3>2. CASE k # NDIRECT
        <4>1. d.ino.blocks[k] = n.blocks[k] \/ d.ino.blocks[k] \in e.used \ f.used
          BY <1>5, <2>6
        <4> QED BY <2>1, <2>13, <3>2, <4>1
      <3> QED BY <3>1, <3>2
    <2>15. ASSUME NEW k \in 0 .. NDIRECT, NEW l \in 0 .. NDIRECT, bl[k] \in z.used \ f.used,
                  bl[k] = bl[l]
           PROVE  k = l
      <3>1. ASSUME NEW m \in 0 .. NDIRECT, m # NDIRECT, bl[m] \in z.used \ f.used
            PROVE  \/ bl[m] = d.ino.blocks[m] /\ m < M /\ bl[m] \in e.used
                   \/ bl[m] = n.blocks[m]
        BY <1>5, <2>6, <2>13, <3>1
      <3>2. ASSUME NEW m \in 0 .. NDIRECT, bl[m] = n.blocks[m], bl[m] = id
            PROVE  FALSE
        <4>1. id # 0 /\ n.blocks[m] # 0
          BY <1>9, <3>2
        <4>2. NamesBlock(f, i, m, id)
          BY <3>2, <4>1 DEF NamesBlock, n
        <4>3. id \in f.used
          BY <1>1, <2>1, <4>2 DEF Marked
        <4> QED BY <2>8, <4>3
      <3>3. ASSUME NEW m \in 0 .. NDIRECT, m # NDIRECT, bl[m] \in z.used \ f.used
            PROVE  bl[m] = d.ino.blocks[m] /\ m < M /\ bl[m] \in e.used
        <4>1. CASE bl[m] = n.blocks[m]
          <5>1. bl[m] \in e.used \/ bl[m] = id
            BY <2>1, <3>3
          <5>2. bl[m] # id
            BY <3>2, <4>1
          <5> QED BY <1>6, <3>3, <4>1, <5>1, <5>2
        <4> QED BY <3>1, <3>3, <4>1
      <3>4. CASE k = NDIRECT /\ l = NDIRECT
        BY <3>4
      <3>5. CASE k = NDIRECT /\ l # NDIRECT
        BY <2>1, <2>13, <2>15, <3>3, <3>5
      <3>6. CASE k # NDIRECT /\ l = NDIRECT
        BY <2>1, <2>13, <2>15, <3>3, <3>6
      <3>7. CASE k # NDIRECT /\ l # NDIRECT
        BY <1>5, <2>6, <2>15, <3>3, <3>7
      <3> QED BY <3>4, <3>5, <3>6, <3>7
    <2>16. \A c \in 0 .. NDATA : c \notin z.used \ f.used => g.disk[c] = h.disk[c]
      BY <2>3, <2>5, <2>8
    <2>17. /\ g.used = h.used
           /\ \A j \in Inums : j # i => g.inode[j] = h.inode[j]
      BY <2>3, <2>5
    <2>18. /\ \A k \in 0 .. NDIRECT : \/ g.inode[i].blocks[k] = f.inode[i].blocks[k]
                                      \/ g.inode[i].blocks[k] \in z.used \ f.used
           /\ \A k, l \in 0 .. NDIRECT : g.inode[i].blocks[k] \in z.used \ f.used
                /\ g.inode[i].blocks[k] = g.inode[i].blocks[l] => k = l
      BY <2>14, <2>15 DEF bl, n
    <2>19. h \in FsType
      BY <2>1
    <2> HIDE DEF h, L
    <2>20. Ends(f, i, z, h, L, g)
      BY <2>7, <2>8, <2>10, <2>11, <2>12, <2>16, <2>17, <2>18 DEF Ends
    <2> QED BY <1>1, <2>1, <2>19, <2>20, LevelEnd
  <1> QED BY <1>2, <1>7, <1>8, <1>9
-----------------------------------------------------------------------------
(* Writing at any depth: level by level.                                   *)
LEMMA CallParts ==
    ASSUME NEW c \in DataCall
    PROVE  /\ c.fs \in FsType /\ c.inum \in Nat /\ c.data \in Seq(Nat)
           /\ c = [fs |-> c.fs, inum |-> c.inum, data |-> c.data]
  BY DEF DataCall

LEMMA WriteAtDef ==
    /\ write_at \in [Levels -> [DataCall -> FsType]]
    /\ \A c \in DataCall : write_at[0][c] = die(c.fs, "segv")
    /\ \A k \in 1 .. INODE_NUM : \A c \in DataCall :
          write_at[k][c] = write_level(write_at[k - 1], c.fs, c.inum, c.data)
  <1> DEFINE n == INODE_NUM
             S == [DataCall -> FsType]
             a == [c \in DataCall |-> die(c.fs, "segv")]
             Step(w) == [c \in DataCall |-> write_level(w, c.fs, c.inum, c.data)]
             F == [k \in 1 .. n |-> [w \in S |-> Step(w)]]
             Body(g, k) == [c \in DataCall |->
                              IF k = 0 THEN die(c.fs, "segv")
                              ELSE write_level(g[k - 1], c.fs, c.inum, c.data)]
             Eq(g) == g = [k \in 0 .. n |-> Body(g, k)]
             D == write_at
  <1>1. n \in Nat
    BY SizesAssumption
  <1>2. a \in S
    BY CallParts, DieEffect DEF StatusType
  <1>3. ASSUME NEW w \in S PROVE Step(w) \in S
    BY CallParts, WriteLevelTyped
  <1>4. F \in [1 .. n -> [S -> S]]
    <2> HIDE DEF Step, S
    <2> QED BY <1>3
  <1>5. \A g : Body(g, 0) = a
    OBVIOUS
  <1>6. \A g : \A k \in 1 .. n : Body(g, k) = Step(g[k - 1])
    <2> SUFFICES ASSUME NEW g, NEW k \in 1 .. n PROVE Body(g, k) = Step(g[k - 1])
      OBVIOUS
    <2>1. k # 0
      BY <1>1
    <2> QED BY <2>1
  <1>7. \A k \in 1 .. n : k - 1 \in 0 .. n /\ k \in 0 .. n /\ k # 0
    BY <1>1
  <1>8. \A k \in 0 .. n : k # 0 => k \in 1 .. n
    BY <1>1
  <1> HIDE DEF a, n, S, Step, Body
  <1>9. PICK h \in [0 .. n -> S] : Iterates(h, n, a, F)
    <2> HIDE DEF F
    <2> QED BY <1>1, <1>2, <1>4, Recursion
  <1>10. Eq(h)
    <2>1. \A k \in 1 .. n : h[k] = Step(h[k - 1])
      BY <1>7, <1>9 DEF Iterates
    <2>2. \A k \in 0 .. n : h[k] = Body(h, k)
      BY <1>5, <1>6, <1>8, <1>9, <2>1 DEF Iterates
    <2> QED BY <1>9, <2>2
  <1>11. Eq(D)
    <2>1. D = CHOOSE g : Eq(g)
      BY DEF write_at, Levels, n, Body
    <2> HIDE DEF Eq, D
    <2> QED BY <1>10, <2>1
  <1> HIDE DEF D
  <1>12. D[0] = a /\ \A k \in 1 .. n : D[k] = Step(D[k - 1])
    <2>1. \A k \in 0 .. n : D[k] = Body(D, k)
      BY <1>11
    <2>2. 0 \in 0 .. n
      BY <1>1
    <2> QED BY <1>5, <1>6, <1>7, <2>1, <2>2
  <1>13. \A k \in 0 .. n : D[k] \in S
    <2> DEFINE T == {k \in 0 .. n : D[k] \in S}
    <2>1. 0 \in T
      BY <1>1, <1>2, <1>12
    <2>2. ASSUME NEW k \in 1 .. n, k - 1 \in T PROVE k \in T
      BY <1>3, <1>7, <1>12, <2>2
    <2> HIDE DEF T
    <2>3. \A k \in 0 .. n : k \in T
      BY <1>1, <2>1, <2>2, Induct
    <2> QED BY <2>3 DEF T
  <1>14. D \in [0 .. n -> S]
    BY <1>11, <1>13
  <1>15. \A c \in DataCall : D[0][c] = die(c.fs, "segv")
    BY <1>12 DEF a
  <1>16. \A k \in 1 .. n : \A c \in DataCall : D[k][c] = write_level(D[k - 1], c.fs, c.inum, c.data)
    BY <1>12 DEF Step
  <1> QED BY <1>14, <1>15, <1>16 DEF D, n, S, Levels

LEMMA WriteAtDepth ==
    \A k \in Levels : /\ write_at[k] \in [DataCall -> FsType]
                      /\ KeepsStatus(write_at[k]) /\ Writes(write_at[k])
  <1> DEFINE n == INODE_NUM
             T == {k \in 0 .. n : KeepsStatus(write_at[k]) /\ Writes(write_at[k])}
  <1>1. n \in Nat
    BY SizesAssumption
  <1>2. /\ write_at \in [0 .. n -> [DataCall -> FsType]]
        /\ \A c \in DataCall : write_at[0][c] = die(c.fs, "segv")
        /\ \A k \in 1 .. n : \A c \in DataCall :
             write_at[k][c] = write_level(write_at[k - 1], c.fs, c.inum, c.data)
    BY WriteAtDef DEF Levels
  <1>3. \A f \in FsType, i \in Inums, data \in Seq(Nat) : [fs |-> f, inum |-> i, data |-> data] \in DataCall
    BY SizesAssumption DEF DataCall, Inums
  <1>4. 0 \in T
    <2>1. \A c \in DataCall : write_at[0][c].status # "ok"
      BY <1>2, CallParts, DieEffect DEF StatusType
    <2>2. KeepsStatus(write_at[0])
      BY <2>1 DEF KeepsStatus
    <2>3. Writes(write_at[0])
      BY <1>3, <2>1 DEF Writes
    <2> QED BY <1>1, <2>2, <2>3
  <1>5. ASSUME NEW k \in 1 .. n, k - 1 \in T PROVE k \in T
    <2> DEFINE w == write_at[k - 1]
    <2>1. k \in 0 .. n /\ k - 1 \in 0 .. n
      BY <1>1
    <2>2. w \in [DataCall -> FsType] /\ KeepsStatus(w) /\ Writes(w)
      BY <1>2, <1>5, <2>1
    <2>3. \A c \in DataCall : write_at[k][c] = write_level(w, c.fs, c.inum, c.data)
      BY <1>2
    <2> HIDE DEF w
    <2>4. KeepsStatus(write_at[k])
      <3> SUFFICES ASSUME NEW c \in DataCall, write_at[k][c].status = "ok" PROVE c.fs.status = "ok"
        BY DEF KeepsStatus
      <3>1. write_level(w, c.fs, c.inum, c.data).status = "ok"
        BY <2>3
      <3> QED BY <2>2, <3>1, CallParts, WriteLevelTyped
    <2>5. Writes(write_at[k])
      <3> SUFFICES ASSUME NEW f \in FsType, NEW i \in Inums, NEW data \in Seq(Nat),
                          i \in Live(f), Marked(f),
                          write_at[k][[fs |-> f, inum |-> i, data |-> data]].status = "ok"
                   PROVE  Grown(f, {i}, write_at[k][[fs |-> f, inum |-> i, data |-> data]])
        BY DEF Writes
      <3> DEFINE c == [fs |-> f, inum |-> i, data |-> data]
                 g == write_at[k][c]
      <3>1. c \in DataCall /\ c.fs = f /\ c.inum = i /\ c.data = data
        BY <1>3
      <3> HIDE DEF c
      <3>2. g = write_level(w, f, i, data)
        BY <2>3, <3>1
      <3>3. g.status = "ok"
        BY DEF c
      <3> HIDE DEF g
      <3>4. Grown(f, {i}, g)
        BY <2>2, <3>2, <3>3, WriteLevelGrown
      <3> QED BY <3>4 DEF g, c
    <2> QED BY <2>1, <2>4, <2>5
  <1>6. \A k \in 0 .. n : k \in T
    <2> HIDE DEF T
    <2> QED BY <1>1, <1>4, <1>5, Induct
  <1> QED BY <1>2, <1>6 DEF Levels

(* A file written: what write_file does to the file system.                *)
LEMMA WriteFile ==
    ASSUME NEW f \in FsType, NEW i \in Live(f), Marked(f), NEW data \in Seq(Nat),
           NEW g, g = write_file(f, i, data)
    PROVE  g \in FsType /\ (g.status = "ok" => Grown(f, {i}, g))
  <1> DEFINE w == write_at[INODE_NUM]
             c == [fs |-> f, inum |-> i, data |-> data]
  <1>1. INODE_NUM \in Levels /\ i \in Inums /\ i \in Nat
    BY SizesAssumption DEF Levels, Live, Inums
  <1>2. w \in [DataCall -> FsType] /\ Writes(w)
    BY <1>1, WriteAtDepth
  <1>3. c \in DataCall
    BY <1>1 DEF DataCall
  <1>4. g = w[c]
    BY DEF write_file
  <1> HIDE DEF w
  <1>5. g \in FsType
    BY <1>2, <1>3, <1>4
  <1> QED BY <1>1, <1>2, <1>4, <1>5 DEF Writes
-----------------------------------------------------------------------------
(* What removing may do: inodes are zeroed, of which each but those in X   *)
(* was in the table of another, and only their blocks are freed.           *)
Gone(f, g) == Live(f) \ Live(g)
ZeroesInodes(f, g) ==
    \A j \in Inums : g.inode[j] = f.inode[j] \/ (j \in Live(f) /\ g.inode[j] = ZeroInode)
FreesTheirBlocks(f, g) ==
    /\ g.used \subseteq f.used
    /\ \A b \in f.used \ g.used : \E j \in Gone(f, g), k \in 0 .. NDIRECT - 1 : NamesBlock(f, j, k, b)
    /\ \A c \in 0 .. NDATA : c \notin f.used \ g.used => g.disk[c] = f.disk[c]
FromTables(f, X, g) == \A j \in Gone(f, g) : j \in X \/ \E p \in Gone(f, g) : j \in SubsIn(f, p)

Shrunk(f, X, g) == ZeroesInodes(f, g) /\ FreesTheirBlocks(f, g) /\ FromTables(f, X, g)

LEMMA ShrunkNot ==
    ASSUME NEW f \in FsType, NEW X
    PROVE  Shrunk(f, X, f)
  <1>1. Gone(f, f) = {}
    BY DEF Gone
  <1>2. ZeroesInodes(f, f)
    BY DEF ZeroesInodes
  <1>3. FreesTheirBlocks(f, f)
    <2>1. f.used \ f.used = {}
      OBVIOUS
    <2> QED BY <2>1 DEF FreesTheirBlocks
  <1> QED BY <1>1, <1>2, <1>3 DEF Shrunk, FromTables

LEMMA ShrunkLive ==
    ASSUME NEW f \in FsType, NEW g \in FsType, ZeroesInodes(f, g)
    PROVE  /\ Live(g) \subseteq Live(f)
           /\ \A j \in Live(g) : g.inode[j] = f.inode[j]
           /\ \A j, k, b : NamesBlock(g, j, k, b) => NamesBlock(f, j, k, b)
  <1>1. ZeroInode.type = 0
    BY Zeros
  <1>2. \A j \in Live(g) : j \in Live(f) /\ g.inode[j] = f.inode[j]
    BY <1>1 DEF Live, ZeroesInodes
  <1> QED BY <1>2 DEF NamesBlock

LEMMA ShrunkApart ==
    ASSUME NEW f \in FsType, NEW g \in FsType, ZeroesInodes(f, g), Apart(f)
    PROVE  Apart(g)
  BY ShrunkLive DEF Apart

(* No table of an inode that stays is among the blocks that are freed.     *)
LEMMA ShrunkSubs ==
    ASSUME NEW f \in FsType, NEW g \in FsType, ZeroesInodes(f, g), FreesTheirBlocks(f, g), Apart(f),
           NEW p \in Live(g)
    PROVE  SubsIn(g, p) = SubsIn(f, p)
  <1> DEFINE t == f.inode[p].blocks[NDIRECT]
  <1>1. p \in Inums /\ p \in Live(f) /\ g.inode[p] = f.inode[p] /\ NDIRECT \in 0 .. NDIRECT
    BY ShrunkLive, SizesAssumption DEF Live
  <1>2. t \in 0 .. NDATA
    BY <1>1, FsParts, InodeParts
  <1>3. t \notin f.used \ g.used
    <2> SUFFICES ASSUME t \in f.used \ g.used PROVE FALSE
      OBVIOUS
    <2>1. t \in DataBlocks /\ t # 0
      BY FsParts, SizesAssumption DEF DataBlocks
    <2>2. PICK j \in Gone(f, g), k \in 0 .. NDIRECT - 1 : NamesBlock(f, j, k, t)
      BY DEF FreesTheirBlocks
    <2>3. NamesBlock(f, p, NDIRECT, t)
      BY <1>1, <2>1 DEF NamesBlock
    <2>4. k \in 0 .. NDIRECT /\ k # NDIRECT /\ j \in Inums
      BY SizesAssumption DEF Gone, Live
    <2> HIDE DEF t
    <2> QED BY <1>1, <2>1, <2>2, <2>3, <2>4 DEF Apart
  <1>4. g.disk[t] = f.disk[t]
    BY <1>2, <1>3 DEF FreesTheirBlocks
  <1> QED BY <1>1, <1>4, SubsSame

LEMMA ShrunkTwice ==
    ASSUME NEW f \in FsType, NEW g \in FsType, NEW h \in FsType, NEW X, NEW Y,
           Apart(f), Shrunk(f, X, g), Shrunk(g, Y, h)
    PROVE  Shrunk(f, X \cup Y, h)
  <1> USE DEF Shrunk
  <1>1. /\ Live(g) \subseteq Live(f) /\ Live(h) \subseteq Live(g)
        /\ \A j \in Live(g) : g.inode[j] = f.inode[j]
        /\ \A j, k, b : NamesBlock(g, j, k, b) => NamesBlock(f, j, k, b)
    BY ShrunkLive
  <1>2. Gone(f, h) = Gone(f, g) \cup Gone(g, h) /\ Gone(g, h) \subseteq Live(g)
    BY <1>1 DEF Gone
  <1>3. ZeroesInodes(f, h)
    BY <1>1 DEF ZeroesInodes
  <1>4. FreesTheirBlocks(f, h)
    <2>1. h.used \subseteq g.used /\ g.used \subseteq f.used
      BY DEF FreesTheirBlocks
    <2>2. ASSUME NEW b \in f.used \ h.used
          PROVE  \E j \in Gone(f, h), k \in 0 .. NDIRECT - 1 : NamesBlock(f, j, k, b)
      <3>1. CASE b \in g.used
        <4>1. PICK j \in Gone(g, h), k \in 0 .. NDIRECT - 1 : NamesBlock(g, j, k, b)
          BY <3>1 DEF FreesTheirBlocks
        <4>2. j \in Inums
          BY DEF Gone, Live
        <4> QED BY <1>1, <1>2, <4>1, <4>2
      <3>2. CASE b \notin g.used
        <4>1. PICK j \in Gone(f, g), k \in 0 .. NDIRECT - 1 : NamesBlock(f, j, k, b)
          BY <3>2 DEF FreesTheirBlocks
        <4> QED BY <1>2, <4>1
      <3> QED BY <3>1, <3>2
    <2>3. \A c \in 0 .. NDATA : c \notin f.used \ h.used => h.disk[c] = f.disk[c]
      BY <2>1 DEF FreesTheirBlocks
    <2> QED BY <2>1, <2>2, <2>3 DEF FreesTheirBlocks
  <1>5. \A p \in Live(g) : SubsIn(g, p) = SubsIn(f, p)
    BY ShrunkSubs
  <1>6. FromTables(f, X \cup Y, h)
    BY <1>2, <1>5 DEF FromTables
  <1> QED BY <1>3, <1>4, <1>6
-----------------------------------------------------------------------------
(* The loop over the inodes of a table, with a function that removes.      *)
KeepsDeath(rm) == \A c \in FileCall : rm[c].status = "ok" => c.fs.status = "ok"
Removes(rm) ==
    \A f \in FsType, i \in Nat :
        Apart(f) => LET g == rm[[fs |-> f, inum |-> i]]
                    IN g.status = "ok" => Shrunk(f, {i}, g)
Listed(subs, k) == {subs[m] : m \in 1 .. k}

LEMMA RemoveSubsDef ==
    ASSUME NEW rm \in [FileCall -> FsType], NEW e \in FsType, NEW subs \in Seq(Nat)
    PROVE  LET D == remove_subs(rm, e, subs)
           IN /\ D \in [0 .. Len(subs) -> FsType] /\ D[0] = e
              /\ \A k \in 1 .. Len(subs) : /\ subs[k] \in Nat
                                           /\ [fs |-> D[k - 1], inum |-> subs[k]] \in FileCall
                                           /\ D[k] = rm[[fs |-> D[k - 1], inum |-> subs[k]]]
  <1> DEFINE n == Len(subs)
             Step(f, k) == rm[[fs |-> f, inum |-> subs[k]]]
             F == [k \in 1 .. n |-> [f \in FsType |-> Step(f, k)]]
             Eq(g) == g = [k \in 0 .. n |-> IF k = 0 THEN e ELSE Step(g[k - 1], k)]
             D == remove_subs(rm, e, subs)
  <1>1. n \in Nat /\ \A k \in 1 .. n : subs[k] \in Nat
    BY LenProperties, ElementOfSeq
  <1>2. \A k \in 1 .. n : k - 1 \in 0 .. n /\ k \in 0 .. n /\ k # 0
    BY <1>1
  <1>3. ASSUME NEW k \in 1 .. n, NEW f \in FsType
        PROVE  [fs |-> f, inum |-> subs[k]] \in FileCall /\ Step(f, k) \in FsType
    <2>1. [fs |-> f, inum |-> subs[k]] \in FileCall
      BY <1>1 DEF FileCall
    <2> QED BY <2>1
  <1> HIDE DEF n, Step
  <1>4. F \in [1 .. n -> [FsType -> FsType]]
    BY <1>3
  <1>5. PICK h \in [0 .. n -> FsType] : Iterates(h, n, e, F)
    <2> HIDE DEF F
    <2> QED BY <1>1, <1>4, Recursion
  <1>6. Eq(h)
    <2>1. \A k \in 0 .. n : k # 0 => k \in 1 .. n
      BY <1>1
    <2>2. \A k \in 0 .. n : h[k] = IF k = 0 THEN e ELSE Step(h[k - 1], k)
      BY <1>2, <1>5, <2>1 DEF Iterates
    <2> QED BY <1>5, <2>2
  <1>7. Eq(D)
    <2>1. D = CHOOSE g : Eq(g)
      BY DEF remove_subs, n, Step
    <2> HIDE DEF Eq, D
    <2> QED BY <1>6, <2>1
  <1> HIDE DEF D
  <1>8. D[0] = e /\ \A k \in 1 .. n : D[k] = Step(D[k - 1], k)
    <2>1. \A k \in 0 .. n : D[k] = IF k = 0 THEN e ELSE Step(D[k - 1], k)
      BY <1>7
    <2>2. 0 \in 0 .. n
      BY <1>1
    <2> QED BY <1>2, <2>1, <2>2
  <1>9. \A k \in 0 .. n : D[k] \in FsType
    <2> DEFINE T == {k \in 0 .. n : D[k] \in FsType}
    <2>1. 0 \in T
      BY <1>1, <1>8
    <2>2. ASSUME NEW k \in 1 .. n, k - 1 \in T PROVE k \in T
      BY <1>2, <1>3, <1>8, <2>2
    <2> HIDE DEF T
    <2>3. \A k \in 0 .. n : k \in T
      BY <1>1, <2>1, <2>2, Induct
    <2> QED BY <2>3 DEF T
  <1>10. D \in [0 .. n -> FsType]
    BY <1>7, <1>9
  <1>11. \A k \in 1 .. n : [fs |-> D[k - 1], inum |-> subs[k]] \in FileCall
    BY <1>2, <1>3, <1>9
  <1> QED BY <1>1, <1>8, <1>10, <1>11 DEF D, n, Step

LEMMA RemoveSubs ==
    ASSUME NEW rm \in [FileCall -> FsType], NEW e \in FsType, NEW subs \in Seq(Nat),
           KeepsDeath(rm)
    PROVE  LET D == remove_subs(rm, e, subs)
           IN \A k \in 0 .. Len(subs) : D[k].status = "ok" =>
                /\ e.status = "ok"
                /\ Removes(rm) /\ Apart(e) => Shrunk(e, Listed(subs, k), D[k])
  <1> DEFINE n == Len(subs)
             D == remove_subs(rm, e, subs)
             T == {k \in 0 .. n : D[k].status = "ok" =>
                       /\ e.status = "ok"
                       /\ Removes(rm) /\ Apart(e) => Shrunk(e, Listed(subs, k), D[k])}
  <1>1. n \in Nat
    BY LenProperties
  <1>2. /\ D \in [0 .. n -> FsType] /\ D[0] = e
        /\ \A k \in 1 .. n : /\ subs[k] \in Nat
                             /\ [fs |-> D[k - 1], inum |-> subs[k]] \in FileCall
                             /\ D[k] = rm[[fs |-> D[k - 1], inum |-> subs[k]]]
    BY RemoveSubsDef
  <1> HIDE DEF n, D
  <1>3. 0 \in T
    BY <1>1, <1>2, ShrunkNot
  <1>4. ASSUME NEW k \in 1 .. n, k - 1 \in T PROVE k \in T
    <2> DEFINE f == D[k - 1]
               g == D[k]
               i == subs[k]
               c == [fs |-> f, inum |-> i]
               X == Listed(subs, k - 1)
    <2>1. k \in 0 .. n /\ k - 1 \in 0 .. n /\ k \in Nat
      BY <1>1
    <2>2. f \in FsType /\ g \in FsType /\ i \in Nat /\ c \in FileCall /\ g = rm[c] /\ c.fs = f
      BY <1>2, <2>1
    <2>3. f.status = "ok" => /\ e.status = "ok"
                             /\ Removes(rm) /\ Apart(e) => Shrunk(e, X, f)
      BY <1>4
    <2>4. Listed(subs, k) = X \cup {i}
      <3>1. \A m \in 1 .. k : m # k => m \in 1 .. k - 1
        BY <2>1
      <3>2. \A m \in 1 .. k - 1 : m \in 1 .. k
        BY <2>1
      <3>3. k \in 1 .. k
        BY <2>1
      <3> QED BY <3>1, <3>2, <3>3 DEF Listed
    <2> HIDE DEF f, g, i, X
    <2>5. ASSUME g.status = "ok"
          PROVE  e.status = "ok" /\ (Removes(rm) /\ Apart(e) => Shrunk(e, X \cup {i}, g))
      <3>1. f.status = "ok"
        <4> HIDE DEF c
        <4> QED BY <2>2, <2>5 DEF KeepsDeath
      <3>2. ASSUME Removes(rm), Apart(e) PROVE Shrunk(e, X \cup {i}, g)
        <4>1. Shrunk(e, X, f)
          BY <2>3, <3>1, <3>2
        <4>2. Apart(f)
          BY <2>2, <3>2, <4>1, ShrunkApart DEF Shrunk
        <4>3. Shrunk(f, {i}, g)
          BY <2>2, <2>5, <3>2, <4>2 DEF Removes
        <4> QED BY <2>2, <3>2, <4>1, <4>3, ShrunkTwice
      <3> QED BY <2>3, <3>1, <3>2
    <2> QED BY <2>1, <2>4, <2>5 DEF g
  <1>5. \A k \in 0 .. n : k \in T
    <2> HIDE DEF T
    <2> QED BY <1>1, <1>3, <1>4, Induct
  <1> QED BY <1>5 DEF D, n

(* The parts of a removal: the direct slots that are freed, the state      *)
(* after that, the table, and the state after the inodes of the table.     *)
SlotIds(f, i) == LET slots == UpToZero[[k \in 1 .. NDIRECT |-> f.inode[i].blocks[k - 1]]]
                 IN {slots[k] : k \in DOMAIN slots}
FreedPart(f, i) == free_blocks(f, SlotIds(f, i))
SubsList(f, i) == table(FreedPart(f, i), f.inode[i])
SubsPart(rm, f, i) == remove_subs(rm, FreedPart(f, i), SubsList(f, i))[Len(SubsList(f, i))]

LEMMA SlotIdsDef ==
    ASSUME NEW f \in FsType, NEW i \in Inums, NEW b \in SlotIds(f, i)
    PROVE  \E k \in 0 .. NDIRECT - 1 : f.inode[i].blocks[k] = b /\ b # 0
  <1> DEFINE n == f.inode[i]
             s == [k \in 1 .. NDIRECT |-> n.blocks[k - 1]]
             u == UpToZero[s]
  <1>1. NDIRECT \in Nat /\ \A k \in 1 .. NDIRECT : k - 1 \in 0 .. NDIRECT - 1 /\ k - 1 \in 0 .. NDIRECT
    BY SizesAssumption
  <1>2. \A k \in 1 .. NDIRECT : n.blocks[k - 1] \in Nat
    <2>1. n.blocks \in [0 .. NDIRECT -> 0 .. NDATA]
      BY FsParts, InodeParts
    <2>2. \A x \in 0 .. NDATA : x \in Nat
      BY SizesAssumption
    <2> HIDE DEF n
    <2> QED BY <1>1, <2>1, <2>2
  <1>3. s \in Seq(Nat) /\ Len(s) = NDIRECT
    <2> HIDE DEF n
    <2>1. s \in [1 .. NDIRECT -> Nat]
      BY <1>2
    <2> QED BY <1>1, <2>1, IsASeq
  <1>4. \A k \in 1 .. NDIRECT : s[k] = n.blocks[k - 1]
    OBVIOUS
  <1>5. PICK m \in DOMAIN u : b = u[m]
    BY DEF SlotIds
  <1> HIDE DEF s, n, u
  <1>6. /\ u \in Seq(Nat) /\ Len(u) <= Len(s)
        /\ \A m1 \in 1 .. Len(u) : u[m1] = s[m1] /\ u[m1] # 0
    BY <1>3, UpToZeroDef DEF u
  <1>7. m \in 1 .. Len(u) /\ m \in 1 .. NDIRECT
    <2>1. Len(u) \in Nat /\ DOMAIN u = 1 .. Len(u)
      BY <1>6, LenProperties
    <2> QED BY <1>1, <1>3, <1>6, <2>1
  <1> QED BY <1>1, <1>4, <1>5, <1>6, <1>7 DEF n

LEMMA FreeInode ==
    ASSUME NEW h \in FsType, NEW i \in Inums
    PROVE  LET g == free_inode(h, i)
           IN /\ g \in FsType
              /\ g.used = h.used /\ g.disk = h.disk /\ g.status = h.status
              /\ g.inode[i].type = 0
              /\ g.inode[i] = IF h.inode[i].type = 0 THEN h.inode[i] ELSE ZeroInode
              /\ \A j \in Inums : j # i => g.inode[j] = h.inode[j]
  <1>1. CASE h.inode[i].type = 0
    BY <1>1 DEF free_inode
  <1>2. CASE h.inode[i].type # 0
    <2>1. free_inode(h, i) = put_inode(h, i, ZeroInode)
      BY <1>2 DEF free_inode
    <2> DEFINE n == ZeroInode
    <2>2. n \in InodeType /\ n.type = 0
      BY Zeros
    <2> HIDE DEF n
    <2>3. LET g == put_inode(h, i, n)
          IN /\ g \in FsType
             /\ g.used = h.used /\ g.disk = h.disk /\ g.status = h.status
             /\ g.inode[i] = n
             /\ \A j \in Inums : j # i => g.inode[j] = h.inode[j]
      BY <2>2, PutInode
    <2> QED BY <1>2, <2>1, <2>2, <2>3 DEF n
  <1> QED BY <1>1, <1>2

LEMMA RemoveLevelDef ==
    ASSUME NEW rm \in [FileCall -> FsType], NEW f \in FsType, NEW i \in Inums, i \in Live(f)
    PROVE  LET e == FreedPart(f, i)
               subs == SubsList(f, i)
               h == SubsPart(rm, f, i)
           IN /\ remove_level(rm, f, i) = free_inode(h, i)
              /\ e \in FsType /\ e.used = f.used \ SlotIds(f, i)
              /\ e.inode = f.inode /\ e.status = f.status
              /\ \A c \in 0 .. NDATA : c \notin SlotIds(f, i) \cap f.used => e.disk[c] = f.disk[c]
              /\ subs \in Seq(Nat) /\ Listed(subs, Len(subs)) = SubsIn(e, i)
              /\ h \in FsType
              /\ KeepsDeath(rm) /\ h.status = "ok" =>
                   /\ e.status = "ok"
                   /\ Removes(rm) /\ Apart(e) => Shrunk(e, SubsIn(e, i), h)
  <1> DEFINE ids == SlotIds(f, i)
             e == FreedPart(f, i)
             n == f.inode[i]
             subs == SubsList(f, i)
             D == remove_subs(rm, e, subs)
             h == SubsPart(rm, f, i)
  <1>1. remove_level(rm, f, i) = free_inode(h, i)
    <2>1. f.inode[i].type # 0
      BY DEF Live
    <2> QED BY <2>1 DEF remove_level, SubsPart, SubsList, FreedPart, SlotIds
  <1>2. e = free_blocks(f, ids) /\ subs = table(e, n) /\ n \in InodeType /\ h = D[Len(subs)]
    BY FsParts DEF FreedPart, SubsList, SubsPart
  <1> HIDE DEF ids, e, n, subs, h
  <1>3. /\ e \in FsType /\ e.used = f.used \ ids
        /\ e.inode = f.inode /\ e.status = f.status
        /\ \A c \in 0 .. NDATA : c \notin ids \cap f.used => e.disk[c] = f.disk[c]
    BY <1>2, FreeBlocks
  <1>4. subs \in Seq(Nat)
    BY <1>2, <1>3, TableDef
  <1>5. Len(subs) \in Nat /\ DOMAIN subs = 1 .. Len(subs) /\ Len(subs) \in 0 .. Len(subs)
    <2>1. Len(subs) \in Nat /\ DOMAIN subs = 1 .. Len(subs)
      BY <1>4, LenProperties
    <2> QED BY <2>1
  <1>6. Listed(subs, Len(subs)) = SubsIn(e, i)
    BY <1>2, <1>3, <1>5 DEF Listed, SubsIn, n
  <1>7. D \in [0 .. Len(subs) -> FsType]
    BY <1>3, <1>4, RemoveSubsDef
  <1>8. h \in FsType
    <2> HIDE DEF D
    <2> QED BY <1>2, <1>5, <1>7
  <1>9. KeepsDeath(rm) =>
          \A k \in 0 .. Len(subs) : D[k].status = "ok" =>
             /\ e.status = "ok"
             /\ Removes(rm) /\ Apart(e) => Shrunk(e, Listed(subs, k), D[k])
    BY <1>3, <1>4, RemoveSubs, Zenon
  <1>10. KeepsDeath(rm) /\ h.status = "ok" =>
           /\ e.status = "ok"
           /\ Removes(rm) /\ Apart(e) => Shrunk(e, SubsIn(e, i), h)
    <2> HIDE DEF D
    <2> QED BY <1>2, <1>5, <1>6, <1>9
  <1> QED BY <1>1, <1>3, <1>4, <1>6, <1>8, <1>10 DEF ids, e, subs, h

LEMMA RemoveLevelTyped ==
    ASSUME NEW rm \in [FileCall -> FsType], NEW f \in FsType, NEW i \in Nat
    PROVE  LET g == remove_level(rm, f, i)
           IN g \in FsType /\ (KeepsDeath(rm) /\ g.status = "ok" => f.status = "ok")
  <1>1. CASE i \notin Inums
    <2>1. remove_level(rm, f, i) = die(f, "segv")
      BY <1>1 DEF remove_level
    <2> QED BY <2>1, DieEffect DEF StatusType
  <1>2. CASE i \in Inums /\ i \notin Live(f)
    <2>1. remove_level(rm, f, i) = f
      BY <1>2 DEF remove_level, Live
    <2> QED BY <2>1
  <1>3. CASE i \in Inums /\ i \in Live(f)
    <2> DEFINE h == SubsPart(rm, f, i)
               e == FreedPart(f, i)
    <2>1. /\ remove_level(rm, f, i) = free_inode(h, i) /\ h \in FsType
          /\ KeepsDeath(rm) /\ h.status = "ok" => e.status = "ok"
          /\ e.status = f.status
      BY <1>3, RemoveLevelDef
    <2> HIDE DEF h, e
    <2> QED BY <1>3, <2>1, FreeInode
  <1> QED BY <1>1, <1>2, <1>3

(* One level of remove_file does what is required of it, if the level      *)
(* below does.                                                             *)
LEMMA RemoveLevelShrunk ==
    ASSUME NEW rm \in [FileCall -> FsType], KeepsDeath(rm), Removes(rm),
           NEW f \in FsType, Apart(f), NEW i \in Nat,
           NEW g, g = remove_level(rm, f, i), g.status = "ok"
    PROVE  Shrunk(f, {i}, g)
  <1>1. CASE i \notin Inums
    <2>1. g = die(f, "segv")
      BY <1>1 DEF remove_level
    <2> QED BY <2>1, DieEffect DEF StatusType
  <1>2. CASE i \in Inums /\ i \notin Live(f)
    <2>1. g = f
      BY <1>2 DEF remove_level, Live
    <2> QED BY <2>1, ShrunkNot
  <1>3. CASE i \in Inums /\ i \in Live(f)
    <2> DEFINE ids == SlotIds(f, i)
               e == FreedPart(f, i)
               h == SubsPart(rm, f, i)
    <2>1. /\ g = free_inode(h, i)
          /\ e \in FsType /\ e.used = f.used \ ids
          /\ e.inode = f.inode /\ e.status = f.status
          /\ \A c \in 0 .. NDATA : c \notin ids \cap f.used => e.disk[c] = f.disk[c]
          /\ h \in FsType
          /\ h.status = "ok" /\ Apart(e) => Shrunk(e, SubsIn(e, i), h)
      BY <1>3, RemoveLevelDef
    <2> HIDE DEF ids, e, h
    <2>2. /\ g \in FsType /\ g.used = h.used /\ g.disk = h.disk /\ g.status = h.status
          /\ g.inode[i] = IF h.inode[i].type = 0 THEN h.inode[i] ELSE ZeroInode
          /\ g.inode[i].type = 0
          /\ \A j \in Inums : j # i => g.inode[j] = h.inode[j]
      BY <1>3, <2>1, FreeInode
    <2>3. Live(e) = Live(f) /\ \A j, k, b : NamesBlock(e, j, k, b) <=> NamesBlock(f, j, k, b)
      BY <2>1 DEF Live, NamesBlock
    <2>4. Apart(e) /\ Shrunk(e, SubsIn(e, i), h)
      BY <2>1, <2>2, <2>3 DEF Apart
    <2>5. ZeroesInodes(e, h) /\ FreesTheirBlocks(e, h) /\ FromTables(e, SubsIn(e, i), h)
      BY <2>4 DEF Shrunk
    <2>6. ASSUME NEW b \in ids
          PROVE  \E k \in 0 .. NDIRECT - 1 : NamesBlock(f, i, k, b)
      BY <1>3, SlotIdsDef DEF NamesBlock, ids
    <2>7. \A p \in Live(f) : SubsIn(e, p) = SubsIn(f, p)
      <3> SUFFICES ASSUME NEW p \in Live(f) PROVE SubsIn(e, p) = SubsIn(f, p)
        OBVIOUS
      <3> DEFINE t == f.inode[p].blocks[NDIRECT]
      <3>1. p \in Inums /\ NDIRECT \in 0 .. NDIRECT
        BY SizesAssumption DEF Live
      <3>2. t \in 0 .. NDATA
        BY <3>1, FsParts, InodeParts
      <3>3. t \notin ids
        <4> SUFFICES ASSUME t \in ids PROVE FALSE
          OBVIOUS
        <4>1. PICK k \in 0 .. NDIRECT - 1 : NamesBlock(f, i, k, t)
          BY <2>6
        <4>2. k \in 0 .. NDIRECT /\ k # NDIRECT
          BY SizesAssumption
        <4>3. t # 0 /\ t \in DataBlocks
          BY <3>2, <4>1, SizesAssumption DEF NamesBlock, DataBlocks
        <4>4. NamesBlock(f, p, NDIRECT, t)
          BY <4>3 DEF NamesBlock
        <4> HIDE DEF t
        <4> QED BY <1>3, <3>1, <4>1, <4>2, <4>3, <4>4 DEF Apart
      <3>4. e.disk[t] = f.disk[t]
        BY <2>1, <3>2, <3>3
      <3> QED BY <2>1, <3>1, <3>4, SubsSame
    <2>8. Live(h) \subseteq Live(f) /\ Live(g) = Live(h) \ {i}
      <3>1. Live(h) \subseteq Live(e)
        BY <2>1, <2>5, ShrunkLive
      <3>2. \A j \in Inums : j \in Live(g) <=> j \in Live(h) /\ j # i
        BY <2>2 DEF Live
      <3>3. Live(g) \subseteq Inums /\ Live(h) \subseteq Inums
        BY DEF Live
      <3> QED BY <2>3, <3>1, <3>2, <3>3
    <2>9. Gone(f, g) = Gone(e, h) \cup {i}
      BY <1>3, <2>3, <2>8 DEF Gone
    <2>10. ZeroesInodes(f, g)
      <3> SUFFICES ASSUME NEW j \in Inums
                   PROVE  g.inode[j] = f.inode[j] \/ (j \in Live(f) /\ g.inode[j] = ZeroInode)
        BY DEF ZeroesInodes
      <3>1. h.inode[j] = f.inode[j] \/ (j \in Live(f) /\ h.inode[j] = ZeroInode)
        BY <2>1, <2>3, <2>5 DEF ZeroesInodes
      <3>2. CASE j # i
        BY <2>2, <3>1, <3>2
      <3>3. CASE j = i
        <4>1. f.inode[i].type # 0
          BY <1>3 DEF Live
        <4> QED BY <1>3, <2>2, <3>1, <3>3, <4>1
      <3> QED BY <3>2, <3>3
    <2>11. FreesTheirBlocks(f, g)
      <3>1. /\ g.used \subseteq e.used /\ e.used = f.used \ ids
            /\ \A b \in e.used \ g.used :
                 \E j \in Gone(e, h), k \in 0 .. NDIRECT - 1 : NamesBlock(e, j, k, b)
            /\ \A c \in 0 .. NDATA : c \notin e.used \ g.used => g.disk[c] = e.disk[c]
        BY <2>1, <2>2, <2>5 DEF FreesTheirBlocks
      <3>2. ASSUME NEW b \in f.used \ g.used
            PROVE  \E j \in Gone(f, g), k \in 0 .. NDIRECT - 1 : NamesBlock(f, j, k, b)
        <4>1. CASE b \in ids
          <5>1. \E k \in 0 .. NDIRECT - 1 : NamesBlock(f, i, k, b)
            BY <2>6, <4>1
          <5> QED BY <2>9, <5>1
        <4>2. CASE b \notin ids
          <5>1. PICK j \in Gone(e, h), k \in 0 .. NDIRECT - 1 : NamesBlock(e, j, k, b)
            BY <3>1, <4>2
          <5> QED BY <2>3, <2>9, <5>1
        <4> QED BY <4>1, <4>2
      <3>3. ASSUME NEW c \in 0 .. NDATA, c \notin f.used \ g.used PROVE g.disk[c] = f.disk[c]
        <4>1. c \notin ids \cap f.used /\ c \notin e.used \ g.used
          BY <3>1, <3>3
        <4> QED BY <2>1, <3>1, <4>1
      <3> QED BY <3>1, <3>2, <3>3 DEF FreesTheirBlocks
    <2>12. FromTables(f, {i}, g)
      <3> SUFFICES ASSUME NEW j \in Gone(f, g), j # i PROVE \E p \in Gone(f, g) : j \in SubsIn(f, p)
        BY DEF FromTables
      <3>1. j \in Gone(e, h)
        BY <2>9
      <3>2. j \in SubsIn(e, i) \/ \E p \in Gone(e, h) : j \in SubsIn(e, p)
        BY <2>5, <3>1 DEF FromTables
      <3>3. \A p \in Gone(e, h) \cup {i} : p \in Live(f)
        BY <1>3, <2>3 DEF Gone
      <3> QED BY <2>7, <2>9, <3>2, <3>3
    <2> QED BY <2>10, <2>11, <2>12 DEF Shrunk
  <1> QED BY <1>1, <1>2, <1>3
-----------------------------------------------------------------------------
(* Removing at any depth: level by level.                                  *)
LEMMA FileCallParts ==
    ASSUME NEW c \in FileCall
    PROVE  c.fs \in FsType /\ c.inum \in Nat /\ c = [fs |-> c.fs, inum |-> c.inum]
  BY DEF FileCall

LEMMA RemoveAtDef ==
    /\ remove_at \in [Levels -> [FileCall -> FsType]]
    /\ \A c \in FileCall : remove_at[0][c] = die(c.fs, "segv")
    /\ \A k \in 1 .. INODE_NUM : \A c \in FileCall :
          remove_at[k][c] = remove_level(remove_at[k - 1], c.fs, c.inum)
  <1> DEFINE n == INODE_NUM
             S == [FileCall -> FsType]
             a == [c \in FileCall |-> die(c.fs, "segv")]
             Step(w) == [c \in FileCall |-> remove_level(w, c.fs, c.inum)]
             F == [k \in 1 .. n |-> [w \in S |-> Step(w)]]
             Body(g, k) == [c \in FileCall |->
                              IF k = 0 THEN die(c.fs, "segv")
                              ELSE remove_level(g[k - 1], c.fs, c.inum)]
             Eq(g) == g = [k \in 0 .. n |-> Body(g, k)]
             D == remove_at
  <1>1. n \in Nat
    BY SizesAssumption
  <1>2. a \in S
    BY FileCallParts, DieEffect DEF StatusType
  <1>3. ASSUME NEW w \in S PROVE Step(w) \in S
    BY FileCallParts, RemoveLevelTyped
  <1>4. F \in [1 .. n -> [S -> S]]
    <2> HIDE DEF Step, S
    <2> QED BY <1>3
  <1>5. \A g : Body(g, 0) = a
    OBVIOUS
  <1>6. \A g : \A k \in 1 .. n : Body(g, k) = Step(g[k - 1])
    <2> SUFFICES ASSUME NEW g, NEW k \in 1 .. n PROVE Body(g, k) = Step(g[k - 1])
      OBVIOUS
    <2>1. k # 0
      BY <1>1
    <2> QED BY <2>1
  <1>7. \A k \in 1 .. n : k - 1 \in 0 .. n /\ k \in 0 .. n /\ k # 0
    BY <1>1
  <1>8. \A k \in 0 .. n : k # 0 => k \in 1 .. n
    BY <1>1
  <1> HIDE DEF a, n, S, Step, Body
  <1>9. PICK h \in [0 .. n -> S] : Iterates(h, n, a, F)
    <2> HIDE DEF F
    <2> QED BY <1>1, <1>2, <1>4, Recursion
  <1>10. Eq(h)
    <2>1. \A k \in 1 .. n : h[k] = Step(h[k - 1])
      BY <1>7, <1>9 DEF Iterates
    <2>2. \A k \in 0 .. n : h[k] = Body(h, k)
      BY <1>5, <1>6, <1>8, <1>9, <2>1 DEF Iterates
    <2> QED BY <1>9, <2>2
  <1>11. Eq(D)
    <2>1. D = CHOOSE g : Eq(g)
      BY DEF remove_at, Levels, n, Body
    <2> HIDE DEF Eq, D
    <2> QED BY <1>10, <2>1
  <1> HIDE DEF D
  <1>12. D[0] = a /\ \A k \in 1 .. n : D[k] = Step(D[k - 1])
    <2>1. \A k \in 0 .. n : D[k] = Body(D, k)
      BY <1>11
    <2>2. 0 \in 0 .. n
      BY <1>1
    <2> QED BY <1>5, <1>6, <1>7, <2>1, <2>2
  <1>13. \A k \in 0 .. n : D[k] \in S
    <2> DEFINE T == {k \in 0 .. n : D[k] \in S}
    <2>1. 0 \in T
      BY <1>1, <1>2, <1>12
    <2>2. ASSUME NEW k \in 1 .. n, k - 1 \in T PROVE k \in T
      BY <1>3, <1>7, <1>12, <2>2
    <2> HIDE DEF T
    <2>3. \A k \in 0 .. n : k \in T
      BY <1>1, <2>1, <2>2, Induct
    <2> QED BY <2>3 DEF T
  <1>14. D \in [0 .. n -> S]
    BY <1>11, <1>13
  <1>15. \A c \in FileCall : D[0][c] = die(c.fs, "segv")
    BY <1>12 DEF a
  <1>16. \A k \in 1 .. n : \A c \in FileCall : D[k][c] = remove_level(D[k - 1], c.fs, c.inum)
    BY <1>12 DEF Step
  <1> QED BY <1>14, <1>15, <1>16 DEF D, n, S, Levels

LEMMA RemoveAtDepth ==
    \A k \in Levels : /\ remove_at[k] \in [FileCall -> FsType]
                      /\ KeepsDeath(remove_at[k]) /\ Removes(remove_at[k])
  <1> DEFINE n == INODE_NUM
             T == {k \in 0 .. n : KeepsDeath(remove_at[k]) /\ Removes(remove_at[k])}
  <1>1. n \in Nat
    BY SizesAssumption
  <1>2. /\ remove_at \in [0 .. n -> [FileCall -> FsType]]
        /\ \A c \in FileCall : remove_at[0][c] = die(c.fs, "segv")
        /\ \A k \in 1 .. n : \A c \in FileCall :
             remove_at[k][c] = remove_level(remove_at[k - 1], c.fs, c.inum)
    BY RemoveAtDef DEF Levels
  <1>3. \A f \in FsType, i \in Nat : [fs |-> f, inum |-> i] \in FileCall
    BY DEF FileCall
  <1>4. 0 \in T
    <2>1. \A c \in FileCall : remove_at[0][c].status # "ok"
      BY <1>2, FileCallParts, DieEffect DEF StatusType
    <2>2. KeepsDeath(remove_at[0])
      BY <2>1 DEF KeepsDeath
    <2>3. Removes(remove_at[0])
      BY <1>3, <2>1 DEF Removes
    <2> QED BY <1>1, <2>2, <2>3
  <1>5. ASSUME NEW k \in 1 .. n, k - 1 \in T PROVE k \in T
    <2> DEFINE w == remove_at[k - 1]
    <2>1. k \in 0 .. n /\ k - 1 \in 0 .. n
      BY <1>1
    <2>2. w \in [FileCall -> FsType] /\ KeepsDeath(w) /\ Removes(w)
      BY <1>2, <1>5, <2>1
    <2>3. \A c \in FileCall : remove_at[k][c] = remove_level(w, c.fs, c.inum)
      BY <1>2
    <2> HIDE DEF w
    <2>4. KeepsDeath(remove_at[k])
      <3> SUFFICES ASSUME NEW c \in FileCall, remove_at[k][c].status = "ok" PROVE c.fs.status = "ok"
        BY DEF KeepsDeath
      <3>1. remove_level(w, c.fs, c.inum).status = "ok"
        BY <2>3
      <3> QED BY <2>2, <3>1, FileCallParts, RemoveLevelTyped
    <2>5. Removes(remove_at[k])
      <3> SUFFICES ASSUME NEW f \in FsType, NEW i \in Nat, Apart(f),
                          remove_at[k][[fs |-> f, inum |-> i]].status = "ok"
                   PROVE  Shrunk(f, {i}, remove_at[k][[fs |-> f, inum |-> i]])
        BY DEF Removes
      <3> DEFINE c == [fs |-> f, inum |-> i]
                 g == remove_at[k][c]
      <3>1. c \in FileCall /\ c.fs = f /\ c.inum = i
        BY <1>3
      <3> HIDE DEF c
      <3>2. g = remove_level(w, f, i)
        BY <2>3, <3>1
      <3>3. g.status = "ok"
        BY DEF c
      <3> HIDE DEF g
      <3>4. Shrunk(f, {i}, g)
        BY <2>2, <3>2, <3>3, RemoveLevelShrunk
      <3> QED BY <3>4 DEF g, c
    <2> QED BY <2>1, <2>4, <2>5
  <1>6. \A k \in 0 .. n : k \in T
    <2> HIDE DEF T
    <2> QED BY <1>1, <1>4, <1>5, Induct
  <1> QED BY <1>2, <1>6 DEF Levels

(* A file removed: what remove_file does to the file system.               *)
LEMMA RemoveFile ==
    ASSUME NEW f \in FsType, NEW i \in Inums, Apart(f), NEW g, g = remove_file(f, i)
    PROVE  g \in FsType /\ (g.status = "ok" => Shrunk(f, {i}, g))
  <1> DEFINE w == remove_at[INODE_NUM]
             c == [fs |-> f, inum |-> i]
  <1>1. INODE_NUM \in Levels /\ i \in Nat
    BY SizesAssumption DEF Levels, Inums
  <1>2. w \in [FileCall -> FsType] /\ Removes(w)
    BY <1>1, RemoveAtDepth
  <1>3. c \in FileCall
    BY <1>1 DEF FileCall
  <1>4. g = w[c]
    BY DEF remove_file
  <1> HIDE DEF w
  <1>5. g \in FsType
    BY <1>2, <1>3, <1>4
  <1> QED BY <1>1, <1>2, <1>4, <1>5 DEF Removes
-----------------------------------------------------------------------------
(* get_file_size is a number, so that no size is below 0.                  *)
LEMMA LastNonZero ==
    ASSUME NEW f, NEW id
    PROVE  last_non_zero_element_index_in_block(f, id) \in 0 .. BLOCK_SIZE - 1
  <1> DEFINE S == {0} \cup {k \in 0 .. BLOCK_SIZE - 1 : f.disk[id][k + 1] # 0}
  <1>1. /\ S \in SUBSET Nat /\ S # {} /\ BLOCK_SIZE \in Nat /\ \A x \in S : x <= BLOCK_SIZE
        /\ S \subseteq 0 .. BLOCK_SIZE - 1
    BY SizesAssumption
  <1>2. last_non_zero_element_index_in_block(f, id) = Max(S)
    BY DEF last_non_zero_element_index_in_block
  <1> HIDE DEF S
  <1>3. Max(S) \in S
    BY <1>1, Greatest
  <1> QED BY <1>1, <1>2, <1>3

LEMMA AddSizes ==
    ASSUME NEW size \in [Nat -> Nat], NEW subs \in Seq(Nat)
    PROVE  LET D == add_sizes(size, subs)
           IN /\ \A k \in 0 .. Len(subs) : D[k] \in Nat
              /\ D[0] = 0 /\ \A k \in 1 .. Len(subs) : D[k] = D[k - 1] + size[subs[k]]
              /\ D[Len(subs)] \in Nat
  <1> DEFINE n == Len(subs)
             S == Nat
             a == 0
             Step(x, k) == x + size[subs[k]]
             F == [k \in 1 .. n |-> [x \in S |-> Step(x, k)]]
             Eq(g) == g = [k \in 0 .. n |-> IF k = 0 THEN a ELSE Step(g[k - 1], k)]
             D == add_sizes(size, subs)
  <1>1. n \in Nat /\ \A k \in 1 .. n : size[subs[k]] \in Nat
    BY LenProperties, ElementOfSeq
  <1>2. a \in S
    OBVIOUS
  <1>3. ASSUME NEW k \in 1 .. n, NEW x \in S PROVE Step(x, k) \in S
    <2> DEFINE y == size[subs[k]]
    <2>1. y \in Nat
      BY <1>1
    <2> HIDE DEF y
    <2>2. x + y \in Nat
      BY <2>1
    <2> QED BY <2>2 DEF y
  <1>4. D = CHOOSE g : Eq(g)
    BY DEF add_sizes
  <1> HIDE DEF n, S, a, Step, D
  <1>5. \A k \in 1 .. n : k - 1 \in 0 .. n /\ k \in 0 .. n /\ k # 0
    BY <1>1
  <1>6. F \in [1 .. n -> [S -> S]]
    BY <1>3
  <1>7. PICK h \in [0 .. n -> S] : Iterates(h, n, a, F)
    <2> HIDE DEF F
    <2> QED BY <1>1, <1>2, <1>6, Recursion
  <1>8. Eq(h)
    <2>1. \A k \in 0 .. n : k # 0 => k \in 1 .. n
      BY <1>1
    <2>2. \A k \in 0 .. n : h[k] = IF k = 0 THEN a ELSE Step(h[k - 1], k)
      BY <1>5, <1>7, <2>1 DEF Iterates
    <2> QED BY <1>7, <2>2
  <1>9. Eq(D)
    <2> HIDE DEF Eq
    <2> QED BY <1>4, <1>8
  <1>10. D[0] = a /\ \A k \in 1 .. n : D[k] = Step(D[k - 1], k)
    <2>1. \A k \in 0 .. n : D[k] = IF k = 0 THEN a ELSE Step(D[k - 1], k)
      BY <1>9
    <2>2. 0 \in 0 .. n
      BY <1>1
    <2> QED BY <1>5, <2>1, <2>2
  <1> DEFINE T == {k \in 0 .. n : D[k] \in S}
  <1>11. 0 \in T
    BY <1>1, <1>2, <1>10, SMTT(40)
  <1>12. ASSUME NEW k \in 1 .. n, k - 1 \in T PROVE k \in T
    BY <1>3, <1>5, <1>10, <1>12
  <1>13. \A k \in 0 .. n : k \in T
    <2> HIDE DEF T
    <2> QED BY <1>1, <1>11, <1>12, Induct
  <1>14. n \in 0 .. n
    BY <1>1
  <1> QED BY <1>10, <1>13, <1>14 DEF D, n, S, a, Step

(* The size of file i, where w has the sizes of the files in its table.    *)
SizeOver(f, w, i) ==
    LET ino == f.inode[i]
        subs == table(f, ino)
    IN IF i \notin Inums THEN 0
       ELSE IF ino.size = 0 THEN 0
       ELSE IF ino.size < NDIRECT + 1
       THEN (ino.size - 1) * BLOCK_SIZE
            + last_non_zero_element_index_in_block(f, ino.blocks[ino.size - 1]) + 1
       ELSE CAP + add_sizes(w, subs)[Len(subs)]

LEMMA SizeOverTyped ==
    ASSUME NEW f \in FsType, NEW w \in [Nat -> Nat], NEW i \in Nat
    PROVE  SizeOver(f, w, i) \in Nat
  <1> DEFINE ino == f.inode[i]
             subs == table(f, ino)
  <1>1. CASE i \notin Inums
    BY <1>1 DEF SizeOver
  <1>2. CASE i \in Inums
    <2>1. ino \in InodeType
      BY <1>2, FsParts
    <2>2. ino.size \in Nat
      <3> HIDE DEF ino
      <3>1. ino.size \in 0 .. NDIRECT + 1
        BY <2>1, InodeParts
      <3> QED BY <3>1, SizesAssumption
    <2>3. subs \in Seq(Nat)
      BY <2>1, TableDef
    <2> DEFINE last == last_non_zero_element_index_in_block(f, ino.blocks[ino.size - 1])
               full == (ino.size - 1) * BLOCK_SIZE
               sum == add_sizes(w, subs)[Len(subs)]
    <2>4. SizeOver(f, w, i) = IF i \notin Inums THEN 0
                              ELSE IF ino.size = 0 THEN 0
                              ELSE IF ino.size < NDIRECT + 1 THEN full + last + 1
                              ELSE CAP + sum
      BY DEF SizeOver
    <2> HIDE DEF ino, subs
    <2>5. sum \in Nat
      BY <2>3, AddSizes
    <2>6. CAP \in Nat /\ BLOCK_SIZE \in Nat
      BY SizesAssumption DEF CAP
    <2>7. last \in Nat
      BY LastNonZero
    <2>8. ino.size # 0 => full \in Nat
      <3> DEFINE x == ino.size - 1
      <3>1. ino.size # 0 => x \in Nat
        BY <2>2
      <3> HIDE DEF x
      <3>2. ino.size # 0 => x * BLOCK_SIZE \in Nat
        BY <2>6, <3>1
      <3> QED BY <3>2 DEF x
    <2> HIDE DEF last, full, sum
    <2> QED BY <2>4, <2>5, <2>6, <2>7, <2>8
  <1> QED BY <1>1, <1>2

LEMMA SizesDef ==
    ASSUME NEW f \in FsType
    PROVE  LET D == file_sizes(f)
           IN /\ D \in [Levels -> [Nat -> Nat]]
              /\ \A i \in Nat : D[0][i] = 0
              /\ \A k \in 1 .. INODE_NUM : \A i \in Nat : D[k][i] = SizeOver(f, D[k - 1], i)
  <1> DEFINE n == INODE_NUM
             S == [Nat -> Nat]
             ino(i) == f.inode[i]
             subs(i) == table(f, ino(i))
             Above(w, i) == SizeOver(f, w, i)
             Step(w) == [i \in Nat |-> Above(w, i)]
             a == [i \in Nat |-> 0]
             F == [k \in 1 .. n |-> [w \in S |-> Step(w)]]
             Value(g, k, i) ==
                IF k = 0 \/ i \notin Inums THEN 0
                ELSE IF ino(i).size = 0 THEN 0
                ELSE IF ino(i).size < NDIRECT + 1
                THEN (ino(i).size - 1) * BLOCK_SIZE
                     + last_non_zero_element_index_in_block(f, ino(i).blocks[ino(i).size - 1]) + 1
                ELSE CAP + add_sizes(g[k - 1], subs(i))[Len(subs(i))]
             Body(g, k) == [i \in Nat |-> Value(g, k, i)]
             Eq(g) == g = [k \in 0 .. n |-> Body(g, k)]
             D == CHOOSE g : Eq(g)
  <1>1. n \in Nat /\ n \in 0 .. n
    BY SizesAssumption
  <1>2. a \in S
    OBVIOUS
  <1>3. ASSUME NEW w \in S, NEW i \in Nat PROVE Above(w, i) \in Nat
    BY SizeOverTyped
  <1>4. \A g : Body(g, 0) = a
    OBVIOUS
  <1>5. \A g : \A k \in 1 .. n : Body(g, k) = Step(g[k - 1])
    <2> SUFFICES ASSUME NEW g, NEW k \in 1 .. n PROVE Body(g, k) = Step(g[k - 1])
      OBVIOUS
    <2>1. k # 0
      BY <1>1
    <2>2. \A i \in Nat : Value(g, k, i) = Above(g[k - 1], i)
      BY <2>1 DEF SizeOver
    <2> QED BY <2>2
  <1>6. file_sizes(f) = D
    BY DEF file_sizes, Levels
  <1> HIDE DEF Above, Value
  <1>7. ASSUME NEW w \in S PROVE Step(w) \in S
    BY <1>3
  <1>8. F \in [1 .. n -> [S -> S]]
    <2> HIDE DEF Step, S
    <2> QED BY <1>7
  <1>9. \A k \in 1 .. n : k - 1 \in 0 .. n /\ k \in 0 .. n /\ k # 0
    BY <1>1
  <1>10. \A k \in 0 .. n : k # 0 => k \in 1 .. n
    BY <1>1
  <1> HIDE DEF a, n, S, Step, Body
  <1>11. PICK h \in [0 .. n -> S] : Iterates(h, n, a, F)
    <2> HIDE DEF F
    <2> QED BY <1>1, <1>2, <1>8, Recursion
  <1>12. Eq(h)
    <2>1. \A k \in 1 .. n : h[k] = Step(h[k - 1])
      BY <1>9, <1>11 DEF Iterates
    <2>2. \A k \in 0 .. n : h[k] = Body(h, k)
      BY <1>4, <1>5, <1>10, <1>11, <2>1 DEF Iterates
    <2> QED BY <1>11, <2>2
  <1>13. Eq(D)
    <2> HIDE DEF Eq
    <2> QED BY <1>12
  <1> HIDE DEF D
  <1>14. D[0] = a /\ \A k \in 1 .. n : D[k] = Step(D[k - 1])
    <2>1. \A k \in 0 .. n : D[k] = Body(D, k)
      BY <1>13
    <2>2. 0 \in 0 .. n
      BY <1>1
    <2> QED BY <1>4, <1>5, <1>9, <2>1, <2>2
  <1>15. \A k \in 0 .. n : D[k] \in S
    <2> DEFINE T == {k \in 0 .. n : D[k] \in S}
    <2>1. 0 \in T
      BY <1>1, <1>2, <1>14
    <2>2. ASSUME NEW k \in 1 .. n, k - 1 \in T PROVE k \in T
      BY <1>7, <1>9, <1>14, <2>2
    <2> HIDE DEF T
    <2>3. \A k \in 0 .. n : k \in T
      BY <1>1, <2>1, <2>2, Induct
    <2> QED BY <2>3 DEF T
  <1>16. D \in [0 .. n -> S]
    <2>1. D = [k \in 0 .. n |-> Body(D, k)]
      BY <1>13
    <2> QED BY <1>15, <2>1
  <1>17. \A i \in Nat : D[0][i] = 0
    BY <1>14 DEF a
  <1>18. \A k \in 1 .. n : \A i \in Nat : D[k][i] = SizeOver(f, D[k - 1], i)
    BY <1>14 DEF Step, Above
  <1> QED BY <1>6, <1>16, <1>17, <1>18 DEF n, S, Levels

LEMMA FileSize ==
    ASSUME NEW f \in FsType, NEW inum \in Inums
    PROVE  get_file_size(f, inum) \in Nat
  <1> DEFINE D == file_sizes(f)
  <1>1. D \in [Levels -> [Nat -> Nat]]
    BY SizesDef
  <1>2. INODE_NUM \in Levels /\ inum \in Nat
    BY SizesAssumption DEF Levels, Inums
  <1>3. get_file_size(f, inum) = D[INODE_NUM][inum]
    BY DEF get_file_size
  <1> HIDE DEF D
  <1> QED BY <1>1, <1>2, <1>3
-----------------------------------------------------------------------------
(* Growing and cutting keep the shape of the state, whatever they do to it.*)
LEMMA AllocTyped ==
    ASSUME NEW f \in FsType
    PROVE  alloc_block(f) \in FsType /\ find_free_block(f) \in 0 .. NDATA
  <1> DEFINE b == find_free_block(f)
             u == f.used \cup ({b} \ {0})
  <1>1. b = 0 \/ b \in DataBlocks
    BY FindFreeBlock
  <1>2. b \in 0 .. NDATA
    BY <1>1, SizesAssumption DEF DataBlocks
  <1>3. u \in SUBSET DataBlocks
    BY <1>1, FsParts
  <1>4. alloc_block(f) = [f EXCEPT !.used = u]
    BY DEF alloc_block
  <1> HIDE DEF u
  <1>5. alloc_block(f) = [used |-> u, disk |-> f.disk, inode |-> f.inode, status |-> f.status]
    BY <1>4, FsParts
  <1> QED BY <1>2, <1>3, <1>5, FsParts, FsWhole

LEMMA WithSlot ==
    ASSUME NEW n \in InodeType, NEW l \in 0 .. NDIRECT, NEW b \in 0 .. NDATA
    PROVE  [n EXCEPT !.blocks[l] = b] \in InodeType
  <1> DEFINE bl == [n.blocks EXCEPT ![l] = b]
  <1>1. [n EXCEPT !.blocks[l] = b] = [type |-> n.type, size |-> n.size, blocks |-> bl]
    BY InodeParts
  <1>2. bl \in [0 .. NDIRECT -> 0 .. NDATA]
    BY InodeParts
  <1> HIDE DEF bl
  <1> QED BY <1>1, <1>2, InodeParts DEF InodeType

LEMMA PadDirect ==
    ASSUME NEW f \in FsType, NEW n \in InodeType, NEW final \in Nat
    PROVE  LET D == pad_direct(f, n, final)
               M == MinOf(final, NDIRECT)
           IN /\ M \in Nat /\ D[M] \in DirectAcc
              /\ D[0] = [fs |-> f, ino |-> n]
              /\ final <= n.size => D[M] = [fs |-> f, ino |-> n]
  <1> DEFINE M == MinOf(final, NDIRECT)
             S == DirectAcc
             a == [fs |-> f, ino |-> n]
             Step(acc, k) ==
                IF k <= n.size THEN acc
                ELSE LET e == acc.fs
                         id == find_free_block(e)
                     IN [fs  |-> write_block(alloc_block(e), id, ZeroBlock),
                         ino |-> [acc.ino EXCEPT !.blocks[k - 1] = id]]
             F == [k \in 1 .. M |-> [acc \in S |-> Step(acc, k)]]
             Eq(g) == g = [k \in 0 .. M |-> IF k = 0 THEN a ELSE Step(g[k - 1], k)]
             D == pad_direct(f, n, final)
  <1>1. M \in Nat /\ M <= NDIRECT
    BY SizesAssumption DEF MinOf
  <1>2. a \in S
    BY DEF DirectAcc
  <1>3. D = CHOOSE g : Eq(g)
    BY DEF pad_direct
  <1>4. ASSUME NEW k \in 1 .. M, NEW acc \in S PROVE Step(acc, k) \in S
    <2> DEFINE e == acc.fs
               id == find_free_block(e)
               z == alloc_block(e)
               w == write_block(z, id, ZeroBlock)
               m == [acc.ino EXCEPT !.blocks[k - 1] = id]
    <2>1. e \in FsType /\ acc.ino \in InodeType
      BY DEF DirectAcc
    <2>2. k - 1 \in 0 .. NDIRECT
      BY <1>1, SizesAssumption
    <2> HIDE DEF e
    <2>3. z \in FsType /\ id \in 0 .. NDATA
      BY <2>1, AllocTyped
    <2> HIDE DEF z, id
    <2>4. w \in FsType
      BY <2>3, WriteBlock, Zeros
    <2>5. m \in InodeType
      BY <2>1, <2>2, <2>3, WithSlot
    <2>6. Step(acc, k) = IF k <= n.size THEN acc ELSE [fs |-> w, ino |-> m]
      BY DEF e, z, id
    <2> HIDE DEF w, m, Step
    <2> QED BY <2>4, <2>5, <2>6 DEF DirectAcc
  <1> HIDE DEF M, S, a, Step, D
  <1>5. \A k \in 1 .. M : k - 1 \in 0 .. M /\ k \in 0 .. M /\ k # 0
    BY <1>1
  <1>6. F \in [1 .. M -> [S -> S]]
    BY <1>4
  <1>7. PICK h \in [0 .. M -> S] : Iterates(h, M, a, F)
    <2> HIDE DEF F
    <2> QED BY <1>1, <1>2, <1>6, Recursion
  <1>8. Eq(h)
    <2>1. \A k \in 0 .. M : k # 0 => k \in 1 .. M
      BY <1>1
    <2>2. \A k \in 0 .. M : h[k] = IF k = 0 THEN a ELSE Step(h[k - 1], k)
      BY <1>5, <1>7, <2>1 DEF Iterates
    <2> QED BY <1>7, <2>2
  <1>9. Eq(D)
    <2> HIDE DEF Eq
    <2> QED BY <1>3, <1>8
  <1>10. D[0] = a /\ \A k \in 1 .. M : D[k] = Step(D[k - 1], k)
    <2>1. \A k \in 0 .. M : D[k] = IF k = 0 THEN a ELSE Step(D[k - 1], k)
      BY <1>9
    <2>2. 0 \in 0 .. M
      BY <1>1
    <2> QED BY <1>5, <2>1, <2>2
  <1> DEFINE T == {k \in 0 .. M : D[k] \in S}
  <1>11. 0 \in T
    BY <1>1, <1>2, <1>10
  <1>12. ASSUME NEW k \in 1 .. M, k - 1 \in T PROVE k \in T
    BY <1>4, <1>5, <1>10, <1>12
  <1>13. \A k \in 0 .. M : k \in T
    <2> HIDE DEF T
    <2> QED BY <1>1, <1>11, <1>12, Induct
  <1>14. M \in 0 .. M
    BY <1>1
  <1>15. ASSUME final <= n.size PROVE D[M] = a
    <2> DEFINE U == {k \in 0 .. M : D[k] = a}
    <2>1. 0 \in U
      BY <1>1, <1>10
    <2>2. ASSUME NEW k \in 1 .. M, k - 1 \in U PROVE k \in U
      <3>1. k <= final
        BY <1>1 DEF M, MinOf
      <3>2. n.size \in Int
        BY InodeParts
      <3>3. k <= n.size
        BY <1>15, <3>1, <3>2
      <3>4. Step(D[k - 1], k) = D[k - 1]
        BY <3>3 DEF Step
      <3> QED BY <1>5, <1>10, <2>2, <3>4
    <2>3. \A k \in 0 .. M : k \in U
      <3> HIDE DEF U
      <3> QED BY <1>1, <2>1, <2>2, Induct
    <2> QED BY <1>14, <2>3
  <1> QED BY <1>1, <1>10, <1>13, <1>14, <1>15 DEF D, M, S, a

(* The loops over the inodes of a table.                                   *)
LEMMA PadTable ==
    ASSUME NEW pad \in [SizeCall -> FsType], NEW f \in FsType, NEW type \in {0, T_DIR, T_FILE, T_LNK},
           NEW inums \in BlockType, NEW final \in Nat, final > NDIRECT
    PROVE  pad_table(pad, f, type, inums, final)[MinOf((final - 1) \div NDIRECT, NINDIRECT)] \in FsType
  <1> DEFINE M == MinOf((final - 1) \div NDIRECT, NINDIRECT)
             S == FsType
             len(k) == MinOf(NDIRECT, final - k * NDIRECT) * BLOCK_SIZE
             Step(e, k) ==
                IF inums[k] # 0 THEN pad[[fs |-> e, inum |-> inums[k], size |-> len(k)]]
                ELSE pad[[fs |-> alloc_inode(e, type),
                          inum |-> IF type = 0 THEN 0 ELSE find_free_inode(e), size |-> len(k)]]
             F == [k \in 1 .. M |-> [e \in S |-> Step(e, k)]]
             Eq(g) == g = [k \in 0 .. M |-> IF k = 0 THEN f ELSE Step(g[k - 1], k)]
             D == pad_table(pad, f, type, inums, final)
             q == (final - 1) \div NDIRECT
  <1>1. NDIRECT \in Nat \ {0} /\ BLOCK_SIZE \in Nat
    BY SizesAssumption
  <1>2. q \in Nat /\ NDIRECT * q <= final - 1
    <2> DEFINE x == final - 1
    <2>1. x \in Nat
      BY <1>1
    <2> HIDE DEF x
    <2>2. x \div NDIRECT \in Nat /\ NDIRECT * (x \div NDIRECT) <= x
      BY <1>1, <2>1, Div
    <2> QED BY <2>2 DEF x
  <1>3. D = CHOOSE g : Eq(g)
    BY DEF pad_table
  <1>4. M \in Nat /\ M <= q /\ M <= BLOCK_SIZE
    <2> HIDE DEF q
    <2>1. M = MinOf(q, NINDIRECT)
      BY DEF q
    <2> QED BY <1>1, <1>2, <2>1 DEF MinOf, NINDIRECT
  <1> HIDE DEF q
  <1>5. ASSUME NEW k \in 1 .. M PROVE len(k) \in Nat
    <2> DEFINE x == final - k * NDIRECT
               y == MinOf(NDIRECT, x)
    <2>1. k \in Nat /\ k <= q
      BY <1>2, <1>4
    <2>2. NDIRECT * k <= NDIRECT * q
      BY <1>1, <1>2, <2>1
    <2>3. k * NDIRECT = NDIRECT * k /\ NDIRECT * k \in Nat /\ NDIRECT * q \in Nat
      BY <1>1, <1>2, <2>1
    <2>4. x \in Nat
      <3> DEFINE u == NDIRECT * k
                 v == NDIRECT * q
      <3>1. u \in Nat /\ v \in Nat /\ u <= v /\ v <= final - 1 /\ k * NDIRECT = u
        BY <1>2, <2>2, <2>3
      <3> HIDE DEF u, v
      <3>2. final - u \in Nat
        BY <3>1
      <3> QED BY <3>1, <3>2
    <2> HIDE DEF x
    <2>5. y \in Nat
      BY <1>1, <2>4 DEF MinOf
    <2> HIDE DEF y
    <2>6. y * BLOCK_SIZE \in Nat
      BY <1>1, <2>5
    <2> QED BY <2>6 DEF y, x
  <1>6. ASSUME NEW k \in 1 .. M, NEW e \in S PROVE Step(e, k) \in S
    <2> DEFINE a == alloc_inode(e, type)
               i == IF type = 0 THEN 0 ELSE find_free_inode(e)
               c == [fs |-> e, inum |-> inums[k], size |-> len(k)]
               d == [fs |-> a, inum |-> i, size |-> len(k)]
    <2>1. len(k) \in Nat
      BY <1>5
    <2> HIDE DEF len
    <2>2. inums[k] \in Nat
      BY <1>1, <1>4 DEF BlockType
    <2>3. c \in SizeCall
      BY <2>1, <2>2 DEF SizeCall
    <2>4. a \in FsType
      <3>1. CASE type \in {T_DIR, T_FILE, T_LNK}
        BY <3>1, TakeInode
      <3>2. CASE type \notin {T_DIR, T_FILE, T_LNK}
        BY <3>2 DEF alloc_inode
      <3> QED BY <3>1, <3>2
    <2>5. i \in Nat
      BY FindFreeInode, SizesAssumption DEF Inums
    <2> HIDE DEF a, i
    <2>6. d \in SizeCall
      BY <2>1, <2>4, <2>5 DEF SizeCall
    <2> QED BY <2>3, <2>6 DEF a, i
  <1> HIDE DEF M, S, Step, D
  <1>7. \A k \in 1 .. M : k - 1 \in 0 .. M /\ k \in 0 .. M /\ k # 0
    BY <1>4
  <1>8. F \in [1 .. M -> [S -> S]]
    BY <1>6
  <1>9. f \in S
    BY DEF S
  <1>10. PICK h \in [0 .. M -> S] : Iterates(h, M, f, F)
    <2> HIDE DEF F
    <2> QED BY <1>4, <1>8, <1>9, Recursion
  <1>11. Eq(h)
    <2>1. \A k \in 0 .. M : k # 0 => k \in 1 .. M
      BY <1>4
    <2>2. \A k \in 0 .. M : h[k] = IF k = 0 THEN f ELSE Step(h[k - 1], k)
      BY <1>7, <1>10, <2>1 DEF Iterates
    <2> QED BY <1>10, <2>2
  <1>12. Eq(D)
    <2> HIDE DEF Eq
    <2> QED BY <1>3, <1>11
  <1>13. D[0] = f /\ \A k \in 1 .. M : D[k] = Step(D[k - 1], k)
    <2>1. \A k \in 0 .. M : D[k] = IF k = 0 THEN f ELSE Step(D[k - 1], k)
      BY <1>12
    <2>2. 0 \in 0 .. M
      BY <1>4
    <2> QED BY <1>7, <2>1, <2>2
  <1> DEFINE T == {k \in 0 .. M : D[k] \in S}
  <1>14. 0 \in T
    BY <1>4, <1>9, <1>13
  <1>15. ASSUME NEW k \in 1 .. M, k - 1 \in T PROVE k \in T
    BY <1>6, <1>7, <1>13, <1>15
  <1>16. \A k \in 0 .. M : k \in T
    <2> HIDE DEF T
    <2> QED BY <1>4, <1>14, <1>15, Induct
  <1>17. M \in 0 .. M
    BY <1>4
  <1> QED BY <1>16, <1>17 DEF D, M, S

LEMMA PaddingLevelTyped ==
    ASSUME NEW pad \in [SizeCall -> FsType], NEW f \in FsType, NEW i \in Nat, NEW size \in Nat
    PROVE  padding_level(pad, f, i, size) \in FsType
  <1>1. CASE i \notin Inums
    <2>1. padding_level(pad, f, i, size) = die(f, "segv")
      BY <1>1 DEF padding_level
    <2> QED BY <2>1, DieEffect DEF StatusType
  <1>2. CASE i \in Inums
    <2> DEFINE n == f.inode[i]
               final == blocks_of(size)
               d == pad_direct(f, n, final)[MinOf(final, NDIRECT)]
               inums == d.fs.disk[d.ino.blocks[NDIRECT]]
               part == pad_table(pad, d.fs, n.type, inums, final)[MinOf((final - 1) \div NDIRECT, NINDIRECT)]
               done == IF final > NDIRECT THEN part ELSE d.fs
               m == [d.ino EXCEPT !.size = inode_size(final)]
    <2>1. padding_level(pad, f, i, size) = put_inode(done, i, m)
      BY <1>2 DEF padding_level
    <2>2. n \in InodeType /\ final \in Nat
      BY <1>2, FsParts, BlocksOf
    <2> HIDE DEF n, final
    <2>3. d \in DirectAcc
      BY <2>2, PadDirect
    <2> HIDE DEF d
    <2>4. d.fs \in FsType /\ d.ino \in InodeType
      BY <2>3 DEF DirectAcc
    <2>5. inums \in BlockType
      <3>1. NDIRECT \in 0 .. NDIRECT
        BY SizesAssumption
      <3>2. d.ino.blocks[NDIRECT] \in 0 .. NDATA
        BY <2>4, <3>1, InodeParts
      <3> QED BY <2>4, <3>2, FsParts
    <2>6. n.type \in {0, T_DIR, T_FILE, T_LNK}
      BY <2>2, InodeParts
    <2> HIDE DEF inums
    <2>7. final > NDIRECT => part \in FsType
      <3> DEFINE e == d.fs
                 t == n.type
      <3>1. e \in FsType /\ t \in {0, T_DIR, T_FILE, T_LNK}
        BY <2>4, <2>6
      <3>2. part = pad_table(pad, e, t, inums, final)[MinOf((final - 1) \div NDIRECT, NINDIRECT)]
        OBVIOUS
      <3> HIDE DEF e, t, part
      <3> QED BY <2>2, <2>5, <3>1, <3>2, PadTable
    <2> HIDE DEF part
    <2>8. done \in FsType
      BY <2>4, <2>7
    <2>9. m \in InodeType
      BY <2>2, <2>4, InodeSize, Resized
    <2> HIDE DEF done, m
    <2> QED BY <1>2, <2>1, <2>8, <2>9, PutInode
  <1> QED BY <1>1, <1>2

LEMMA TruncateSubs ==
    ASSUME NEW truncate \in [SizeCall -> FsType], NEW f \in FsType, NEW subs \in Seq(Nat), NEW size \in Nat
    PROVE  LET D == truncate_subs(truncate, f, subs, size)
           IN D[Len(subs)] \in FsType /\ D[0] = f
  <1> DEFINE n == Len(subs)
             S == FsType
             part(k) == IF size > k * CAP THEN size - k * CAP ELSE 0
             Step(e, k) == truncate[[fs |-> e, inum |-> subs[k], size |-> part(k)]]
             F == [k \in 1 .. n |-> [e \in S |-> Step(e, k)]]
             Eq(g) == g = [k \in 0 .. n |-> IF k = 0 THEN f ELSE Step(g[k - 1], k)]
             D == truncate_subs(truncate, f, subs, size)
  <1>1. n \in Nat /\ \A k \in 1 .. n : subs[k] \in Nat
    BY LenProperties, ElementOfSeq
  <1>2. D = CHOOSE g : Eq(g)
    BY DEF truncate_subs
  <1>3. ASSUME NEW k \in 1 .. n PROVE part(k) \in Nat
    <2> DEFINE x == k * CAP
    <2>1. CAP \in Nat /\ k \in Nat
      BY <1>1, SizesAssumption DEF CAP
    <2>2. x \in Nat
      BY <2>1
    <2> HIDE DEF x
    <2>3. (IF size > x THEN size - x ELSE 0) \in Nat
      BY <2>2
    <2> QED BY <2>3 DEF x
  <1>4. ASSUME NEW k \in 1 .. n, NEW e \in S PROVE Step(e, k) \in S
    <2> DEFINE c == [fs |-> e, inum |-> subs[k], size |-> part(k)]
    <2>1. part(k) \in Nat /\ subs[k] \in Nat
      BY <1>1, <1>3
    <2> HIDE DEF part
    <2>2. c \in SizeCall
      BY <2>1 DEF SizeCall
    <2> QED BY <2>2
  <1> HIDE DEF n, S, Step, D
  <1>5. \A k \in 1 .. n : k - 1 \in 0 .. n /\ k \in 0 .. n /\ k # 0
    BY <1>1
  <1>6. F \in [1 .. n -> [S -> S]]
    BY <1>4
  <1>7. f \in S
    BY DEF S
  <1>8. PICK h \in [0 .. n -> S] : Iterates(h, n, f, F)
    <2> HIDE DEF F
    <2> QED BY <1>1, <1>6, <1>7, Recursion
  <1>9. Eq(h)
    <2>1. \A k \in 0 .. n : k # 0 => k \in 1 .. n
      BY <1>1
    <2>2. \A k \in 0 .. n : h[k] = IF k = 0 THEN f ELSE Step(h[k - 1], k)
      BY <1>5, <1>8, <2>1 DEF Iterates
    <2> QED BY <1>8, <2>2
  <1>10. Eq(D)
    <2> HIDE DEF Eq
    <2> QED BY <1>2, <1>9
  <1>11. D[0] = f /\ \A k \in 1 .. n : D[k] = Step(D[k - 1], k)
    <2>1. \A k \in 0 .. n : D[k] = IF k = 0 THEN f ELSE Step(D[k - 1], k)
      BY <1>10
    <2>2. 0 \in 0 .. n
      BY <1>1
    <2> QED BY <1>5, <2>1, <2>2
  <1> DEFINE T == {k \in 0 .. n : D[k] \in S}
  <1>12. 0 \in T
    BY <1>1, <1>7, <1>11
  <1>13. ASSUME NEW k \in 1 .. n, k - 1 \in T PROVE k \in T
    BY <1>4, <1>5, <1>11, <1>13
  <1>14. \A k \in 0 .. n : k \in T
    <2> HIDE DEF T
    <2> QED BY <1>1, <1>12, <1>13, Induct
  <1>15. n \in 0 .. n
    BY <1>1
  <1> QED BY <1>11, <1>14, <1>15 DEF D, n, S

LEMMA TruncateLevelTyped ==
    ASSUME NEW truncate \in [SizeCall -> FsType], NEW f \in FsType, NEW i \in Nat, NEW size \in Nat
    PROVE  truncate_level(truncate, f, i, size) \in FsType
  <1>1. CASE i \notin Inums
    <2>1. truncate_level(truncate, f, i, size) = die(f, "segv")
      BY <1>1 DEF truncate_level
    <2> QED BY <2>1, DieEffect DEF StatusType
  <1>2. CASE i \in Inums
    <2> DEFINE n == f.inode[i]
               remain == blocks_of(size)
               ids == {n.blocks[k] : k \in remain .. MinOf(n.size, NDIRECT) - 1}
               zeroed == [f EXCEPT !.disk = [b \in DOMAIN @ |-> IF b \in ids THEN ZeroBlock ELSE @[b]]]
               freed == free_blocks(zeroed, ids)
               subs == table(freed, n)
               done == truncate_subs(truncate, freed, subs, size)[Len(subs)]
               m == [n EXCEPT !.size = inode_size(remain)]
    <2>1. truncate_level(truncate, f, i, size) = IF size = 0 THEN free_inode(done, i)
                                                 ELSE put_inode(done, i, m)
      BY <1>2 DEF truncate_level
    <2>2. n \in InodeType /\ remain \in Nat
      BY <1>2, FsParts, BlocksOf
    <2> HIDE DEF n, remain, ids
    <2>3. zeroed \in FsType
      <3> DEFINE dk == [b \in 0 .. NDATA |-> IF b \in ids THEN ZeroBlock ELSE f.disk[b]]
      <3>1. DOMAIN f.disk = 0 .. NDATA
        BY FsParts
      <3>2. zeroed = [f EXCEPT !.disk = dk]
        BY <3>1
      <3>3. dk \in [0 .. NDATA -> BlockType]
        BY FsParts, Zeros
      <3> HIDE DEF dk, zeroed
      <3>4. zeroed = [used |-> f.used, disk |-> dk, inode |-> f.inode, status |-> f.status]
        BY <3>2, FsParts
      <3> QED BY <3>3, <3>4, FsParts, FsWhole
    <2> HIDE DEF zeroed
    <2>4. freed \in FsType
      BY <2>3, FreeBlocks
    <2> HIDE DEF freed
    <2>5. subs \in Seq(Nat)
      BY <2>2, <2>4, TableDef
    <2> HIDE DEF subs
    <2>6. done \in FsType
      BY <2>4, <2>5, TruncateSubs
    <2>7. m \in InodeType
      BY <2>2, InodeSize, Resized
    <2> HIDE DEF done, m
    <2> QED BY <1>2, <2>1, <2>6, <2>7, PutInode, FreeInode
  <1> QED BY <1>1, <1>2

LEMMA SizeCallParts ==
    ASSUME NEW c \in SizeCall
    PROVE  /\ c.fs \in FsType /\ c.inum \in Nat /\ c.size \in Nat
           /\ c = [fs |-> c.fs, inum |-> c.inum, size |-> c.size]
  BY DEF SizeCall

LEMMA PaddingAtDef ==
    /\ padding_at \in [Levels -> [SizeCall -> FsType]]
    /\ \A c \in SizeCall : padding_at[0][c] = die(c.fs, "segv")
    /\ \A k \in 1 .. INODE_NUM : \A c \in SizeCall :
          padding_at[k][c] = padding_level(padding_at[k - 1], c.fs, c.inum, c.size)
  <1> DEFINE n == INODE_NUM
             S == [SizeCall -> FsType]
             a == [c \in SizeCall |-> die(c.fs, "segv")]
             Step(w) == [c \in SizeCall |-> padding_level(w, c.fs, c.inum, c.size)]
             F == [k \in 1 .. n |-> [w \in S |-> Step(w)]]
             Body(g, k) == [c \in SizeCall |->
                              IF k = 0 THEN die(c.fs, "segv")
                              ELSE padding_level(g[k - 1], c.fs, c.inum, c.size)]
             Eq(g) == g = [k \in 0 .. n |-> Body(g, k)]
             D == padding_at
  <1>1. n \in Nat
    BY SizesAssumption
  <1>2. a \in S
    BY SizeCallParts, DieEffect DEF StatusType
  <1>3. ASSUME NEW w \in S PROVE Step(w) \in S
    BY SizeCallParts, PaddingLevelTyped
  <1>4. F \in [1 .. n -> [S -> S]]
    <2> HIDE DEF Step, S
    <2> QED BY <1>3
  <1>5. \A g : Body(g, 0) = a
    OBVIOUS
  <1>6. \A g : \A k \in 1 .. n : Body(g, k) = Step(g[k - 1])
    <2> SUFFICES ASSUME NEW g, NEW k \in 1 .. n PROVE Body(g, k) = Step(g[k - 1])
      OBVIOUS
    <2>1. k # 0
      BY <1>1
    <2> QED BY <2>1
  <1>7. \A k \in 1 .. n : k - 1 \in 0 .. n /\ k \in 0 .. n /\ k # 0
    BY <1>1
  <1>8. \A k \in 0 .. n : k # 0 => k \in 1 .. n
    BY <1>1
  <1> HIDE DEF a, n, S, Step, Body
  <1>9. PICK h \in [0 .. n -> S] : Iterates(h, n, a, F)
    <2> HIDE DEF F
    <2> QED BY <1>1, <1>2, <1>4, Recursion
  <1>10. Eq(h)
    <2>1. \A k \in 1 .. n : h[k] = Step(h[k - 1])
      BY <1>7, <1>9 DEF Iterates
    <2>2. \A k \in 0 .. n : h[k] = Body(h, k)
      BY <1>5, <1>6, <1>8, <1>9, <2>1 DEF Iterates
    <2> QED BY <1>9, <2>2
  <1>11. Eq(D)
    <2>1. D = CHOOSE g : Eq(g)
      BY DEF padding_at, Levels, n, Body
    <2> HIDE DEF Eq, D
    <2> QED BY <1>10, <2>1
  <1> HIDE DEF D
  <1>12. D[0] = a /\ \A k \in 1 .. n : D[k] = Step(D[k - 1])
    <2>1. \A k \in 0 .. n : D[k] = Body(D, k)
      BY <1>11
    <2>2. 0 \in 0 .. n
      BY <1>1
    <2> QED BY <1>5, <1>6, <1>7, <2>1, <2>2
  <1>13. \A k \in 0 .. n : D[k] \in S
    <2> DEFINE T == {k \in 0 .. n : D[k] \in S}
    <2>1. 0 \in T
      BY <1>1, <1>2, <1>12
    <2>2. ASSUME NEW k \in 1 .. n, k - 1 \in T PROVE k \in T
      BY <1>3, <1>7, <1>12, <2>2
    <2> HIDE DEF T
    <2>3. \A k \in 0 .. n : k \in T
      BY <1>1, <2>1, <2>2, Induct
    <2> QED BY <2>3 DEF T
  <1>14. D \in [0 .. n -> S]
    BY <1>11, <1>13
  <1>15. \A c \in SizeCall : D[0][c] = die(c.fs, "segv")
    BY <1>12 DEF a
  <1>16. \A k \in 1 .. n : \A c \in SizeCall : D[k][c] = padding_level(D[k - 1], c.fs, c.inum, c.size)
    BY <1>12 DEF Step
  <1> QED BY <1>14, <1>15, <1>16 DEF D, n, S, Levels

LEMMA TruncateAtDef ==
    /\ truncate_at \in [Levels -> [SizeCall -> FsType]]
    /\ \A c \in SizeCall : truncate_at[0][c] = die(c.fs, "segv")
    /\ \A k \in 1 .. INODE_NUM : \A c \in SizeCall :
          truncate_at[k][c] = truncate_level(truncate_at[k - 1], c.fs, c.inum, c.size)
  <1> DEFINE n == INODE_NUM
             S == [SizeCall -> FsType]
             a == [c \in SizeCall |-> die(c.fs, "segv")]
             Step(w) == [c \in SizeCall |-> truncate_level(w, c.fs, c.inum, c.size)]
             F == [k \in 1 .. n |-> [w \in S |-> Step(w)]]
             Body(g, k) == [c \in SizeCall |->
                              IF k = 0 THEN die(c.fs, "segv")
                              ELSE truncate_level(g[k - 1], c.fs, c.inum, c.size)]
             Eq(g) == g = [k \in 0 .. n |-> Body(g, k)]
             D == truncate_at
  <1>1. n \in Nat
    BY SizesAssumption
  <1>2. a \in S
    BY SizeCallParts, DieEffect DEF StatusType
  <1>3. ASSUME NEW w \in S PROVE Step(w) \in S
    BY SizeCallParts, TruncateLevelTyped
  <1>4. F \in [1 .. n -> [S -> S]]
    <2> HIDE DEF Step, S
    <2> QED BY <1>3
  <1>5. \A g : Body(g, 0) = a
    OBVIOUS
  <1>6. \A g : \A k \in 1 .. n : Body(g, k) = Step(g[k - 1])
    <2> SUFFICES ASSUME NEW g, NEW k \in 1 .. n PROVE Body(g, k) = Step(g[k - 1])
      OBVIOUS
    <2>1. k # 0
      BY <1>1
    <2> QED BY <2>1
  <1>7. \A k \in 1 .. n : k - 1 \in 0 .. n /\ k \in 0 .. n /\ k # 0
    BY <1>1
  <1>8. \A k \in 0 .. n : k # 0 => k \in 1 .. n
    BY <1>1
  <1> HIDE DEF a, n, S, Step, Body
  <1>9. PICK h \in [0 .. n -> S] : Iterates(h, n, a, F)
    <2> HIDE DEF F
    <2> QED BY <1>1, <1>2, <1>4, Recursion
  <1>10. Eq(h)
    <2>1. \A k \in 1 .. n : h[k] = Step(h[k - 1])
      BY <1>7, <1>9 DEF Iterates
    <2>2. \A k \in 0 .. n : h[k] = Body(h, k)
      BY <1>5, <1>6, <1>8, <1>9, <2>1 DEF Iterates
    <2> QED BY <1>9, <2>2
  <1>11. Eq(D)
    <2>1. D = CHOOSE g : Eq(g)
      BY DEF truncate_at, Levels, n, Body
    <2> HIDE DEF Eq, D
    <2> QED BY <1>10, <2>1
  <1> HIDE DEF D
  <1>12. D[0] = a /\ \A k \in 1 .. n : D[k] = Step(D[k - 1])
    <2>1. \A k \in 0 .. n : D[k] = Body(D, k)
      BY <1>11
    <2>2. 0 \in 0 .. n
      BY <1>1
    <2> QED BY <1>5, <1>6, <1>7, <2>1, <2>2
  <1>13. \A k \in 0 .. n : D[k] \in S
    <2> DEFINE T == {k \in 0 .. n : D[k] \in S}
    <2>1. 0 \in T
      BY <1>1, <1>2, <1>12
    <2>2. ASSUME NEW k \in 1 .. n, k - 1 \in T PROVE k \in T
      BY <1>3, <1>7, <1>12, <2>2
    <2> HIDE DEF T
    <2>3. \A k \in 0 .. n : k \in T
      BY <1>1, <2>1, <2>2, Induct
    <2> QED BY <2>3 DEF T
  <1>14. D \in [0 .. n -> S]
    BY <1>11, <1>13
  <1>15. \A c \in SizeCall : D[0][c] = die(c.fs, "segv")
    BY <1>12 DEF a
  <1>16. \A k \in 1 .. n : \A c \in SizeCall : D[k][c] = truncate_level(D[k - 1], c.fs, c.inum, c.size)
    BY <1>12 DEF Step
  <1> QED BY <1>14, <1>15, <1>16 DEF D, n, S, Levels

LEMMA SetAttrTyped ==
    ASSUME NEW f \in FsType, NEW i \in Inums, NEW size \in Nat
    PROVE  set_attr(f, i, size) \in FsType
  <1> DEFINE c == [fs |-> f, inum |-> i, size |-> size]
             attr_size == get_file_size(f, i)
  <1>1. INODE_NUM \in Levels /\ c \in SizeCall
    BY SizesAssumption DEF Levels, Inums, SizeCall
  <1>2. truncate_at[INODE_NUM] \in [SizeCall -> FsType] /\ padding_at[INODE_NUM] \in [SizeCall -> FsType]
    BY <1>1, TruncateAtDef, PaddingAtDef
  <1>3. truncate_file(f, i, size) \in FsType /\ padding_file(f, i, size) \in FsType
    <2> DEFINE t == truncate_at[INODE_NUM]
               q == padding_at[INODE_NUM]
    <2>1. truncate_file(f, i, size) = t[c] /\ padding_file(f, i, size) = q[c]
      BY DEF truncate_file, padding_file
    <2>2. t \in [SizeCall -> FsType] /\ q \in [SizeCall -> FsType]
      BY <1>2
    <2> HIDE DEF t, q, c
    <2> QED BY <1>1, <2>1, <2>2
  <1>4. set_attr(f, i, size) = IF attr_size < size THEN truncate_file(f, i, size)
                               ELSE IF attr_size > size THEN padding_file(f, i, size) ELSE f
    BY DEF set_attr
  <1> QED BY <1>3, <1>4

(* Cutting to nothing only sets the size: the slots keep their blocks, and *)
(* the inodes of the table stay.                                           *)
LEMMA SetAttrZero ==
    ASSUME NEW f \in FsType, NEW i \in Inums, NEW g, g = set_attr(f, i, 0)
    PROVE  \/ g = f /\ get_file_size(f, i) = 0
           \/ /\ g \in FsType
              /\ g.used = f.used /\ g.disk = f.disk /\ g.status = f.status
              /\ g.inode[i].type = f.inode[i].type /\ g.inode[i].blocks = f.inode[i].blocks
              /\ g.inode[i].size = 0
              /\ \A j \in Inums : j # i => g.inode[j] = f.inode[j]
  <1> DEFINE n == f.inode[i]
             m == [n EXCEPT !.size = inode_size(0)]
             p == padding_file(f, i, 0)
             attr_size == get_file_size(f, i)
             w == padding_at[INODE_NUM - 1]
             c == [fs |-> f, inum |-> i, size |-> 0]
  <1>1. attr_size \in Nat
    BY FileSize
  <1>2. g = IF attr_size < 0 THEN truncate_file(f, i, 0) ELSE IF attr_size > 0 THEN p ELSE f
    BY DEF set_attr
  <1>3. (g = f /\ attr_size = 0) \/ g = p
    <2> HIDE DEF attr_size, p
    <2> QED BY <1>1, <1>2
  <1>4. blocks_of(0) = 0 /\ MinOf(0, NDIRECT) = 0 /\ ~(0 > NDIRECT) /\ inode_size(0) = 0
    <2> DEFINE x == 0 + BLOCK_SIZE - 1
    <2>1. x \in Nat /\ x < BLOCK_SIZE /\ BLOCK_SIZE \in Nat \ {0}
      BY SizesAssumption
    <2> HIDE DEF x
    <2>2. x \div BLOCK_SIZE = 0
      BY <2>1
    <2>3. blocks_of(0) = 0
      BY <2>2 DEF blocks_of, x
    <2> QED BY <2>3, SizesAssumption DEF MinOf, inode_size
  <1>5. n \in InodeType
    BY FsParts
  <1>6. pad_direct(f, n, 0)[0] = [fs |-> f, ino |-> n]
    <2> HIDE DEF n
    <2> QED BY <1>5, PadDirect
  <1>7. padding_level(w, f, i, 0) = put_inode(f, i, m)
    <2> DEFINE d == pad_direct(f, n, 0)[0]
    <2>1. d.fs = f /\ d.ino = n
      BY <1>6
    <2>2. padding_level(w, f, i, 0) = put_inode(d.fs, i, [d.ino EXCEPT !.size = inode_size(0)])
      BY <1>4 DEF padding_level
    <2> HIDE DEF d
    <2> QED BY <2>1, <2>2
  <1>8. p = padding_level(w, f, i, 0)
    <2>1. c \in SizeCall /\ INODE_NUM \in 1 .. INODE_NUM
      BY SizesAssumption DEF SizeCall, Inums
    <2>2. p = padding_at[INODE_NUM][c]
      BY DEF padding_file
    <2>3. c.fs = f /\ c.inum = i /\ c.size = 0
      OBVIOUS
    <2> HIDE DEF c
    <2> QED BY <2>1, <2>2, <2>3, PaddingAtDef
  <1>9. m \in InodeType /\ m.type = n.type /\ m.size = 0 /\ m.blocks = n.blocks
    BY <1>4, <1>5, InodeSize, Resized
  <1>10. CASE g = p
    <2>1. g = put_inode(f, i, m)
      BY <1>7, <1>8, <1>10
    <2> HIDE DEF m
    <2>2. LET q == put_inode(f, i, m)
          IN /\ q \in FsType
             /\ q.used = f.used /\ q.disk = f.disk /\ q.status = f.status
             /\ q.inode[i] = m
             /\ \A j \in Inums : j # i => q.inode[j] = f.inode[j]
      BY <1>9, PutInode
    <2> QED BY <1>9, <2>1, <2>2
  <1> QED BY <1>3, <1>10
-----------------------------------------------------------------------------
(* Files that fit the direct slots.  No slot NDIRECT names a table, and    *)
(* block 0, which is what is read for it, holds nothing.                   *)
Shallow == \A p \in Payloads : Len(p) <= CAP
Flat(f) == f.disk[0] = ZeroBlock /\ \A i \in Inums : f.inode[i].blocks[NDIRECT] = 0

LEMMA FlatTable ==
    ASSUME NEW f \in FsType, Flat(f), NEW i \in Inums, NEW n, n = f.inode[i]
    PROVE  table(f, n) = <<>> /\ SubsIn(f, i) = {} /\ n \in InodeType
  <1> DEFINE t == table(f, n)
  <1>1. n \in InodeType /\ f.disk[n.blocks[NDIRECT]] = ZeroBlock
    BY FsParts DEF Flat
  <1>2. \A m \in 1 .. BLOCK_SIZE : ZeroBlock[m] = 0
    BY DEF ZeroBlock
  <1>3. t \in Seq(Nat) /\ \A m \in DOMAIN t : m \in 1 .. BLOCK_SIZE /\ t[m] = ZeroBlock[m] /\ t[m] # 0
    BY <1>1, TableDef
  <1> HIDE DEF t
  <1>4. DOMAIN t = {}
    BY <1>2, <1>3
  <1>5. t = <<>>
    BY <1>3, <1>4
  <1>6. SubsIn(f, i) = {t[m] : m \in DOMAIN t}
    BY DEF SubsIn, t
  <1> QED BY <1>1, <1>4, <1>5, <1>6 DEF t

(* The size lies in the last block in use.                                 *)
LEMMA FlatSize ==
    ASSUME NEW f \in FsType, Flat(f), NEW i \in Inums, NEW n, n = f.inode[i],
           NEW s, s = get_file_size(f, i)
    PROVE  /\ n \in InodeType /\ s \in Nat
           /\ s <= BLOCK_SIZE * MinOf(n.size, NDIRECT)
           /\ n.size # 0 => BLOCK_SIZE * (n.size - 1) <= s
  <1> DEFINE D == file_sizes(f)
             w == D[INODE_NUM - 1]
             B == BLOCK_SIZE
             l == last_non_zero_element_index_in_block(f, n.blocks[n.size - 1])
  <1>1. n \in InodeType /\ table(f, n) = <<>>
    BY FlatTable
  <1>2. n.size \in 0 .. NDIRECT + 1 /\ B \in Nat \ {0} /\ NDIRECT \in Nat /\ l \in 0 .. B - 1
    BY <1>1, InodeParts, SizesAssumption, LastNonZero
  <1>3. s = SizeOver(f, w, i) /\ w \in [Nat -> Nat]
    <2>1. INODE_NUM \in 1 .. INODE_NUM /\ INODE_NUM \in Levels /\ INODE_NUM - 1 \in Levels /\ i \in Nat
      BY SizesAssumption DEF Levels, Inums
    <2>2. s = D[INODE_NUM][i]
      BY DEF get_file_size
    <2> HIDE DEF D
    <2> QED BY <2>1, <2>2, SizesDef DEF D
  <1>4. add_sizes(w, <<>>)[Len(<<>>)] = 0
    <2>1. <<>> \in Seq(Nat) /\ Len(<<>>) = 0
      OBVIOUS
    <2> HIDE DEF w
    <2>2. add_sizes(w, <<>>)[0] = 0
      BY <1>3, <2>1, AddSizes
    <2> QED BY <2>1, <2>2
  <1>5. s = IF n.size = 0 THEN 0 ELSE IF n.size < NDIRECT + 1 THEN (n.size - 1) * B + l + 1 ELSE CAP + 0
    BY <1>1, <1>3, <1>4 DEF SizeOver
  <1> HIDE DEF w, l, D, B
  <1>6. CASE n.size = 0
    <2>1. MinOf(n.size, NDIRECT) = 0 \/ MinOf(n.size, NDIRECT) = NDIRECT
      BY <1>2, <1>6 DEF MinOf
    <2>2. s = 0 /\ MinOf(n.size, NDIRECT) \in Nat
      BY <1>2, <1>5, <1>6 DEF MinOf
    <2>3. 0 <= BLOCK_SIZE * MinOf(n.size, NDIRECT)
      <3> DEFINE m == MinOf(n.size, NDIRECT)
      <3>1. m \in Nat
        BY <2>2
      <3> HIDE DEF m
      <3>2. 0 <= BLOCK_SIZE * m
        BY <1>2, <3>1 DEF B
      <3> QED BY <3>2 DEF m
    <2> QED BY <1>1, <1>6, <2>2, <2>3
  <1>7. CASE n.size # 0 /\ n.size < NDIRECT + 1
    <2> DEFINE k == n.size
               x == (k - 1) * B
    <2>1. k \in Nat /\ k # 0 /\ MinOf(n.size, NDIRECT) = k /\ s = x + l + 1
      BY <1>2, <1>5, <1>7 DEF MinOf
    <2> HIDE DEF k
    <2>2. x \in Nat /\ B * k = x + B /\ B * (k - 1) = x
      BY <1>2, <2>1
    <2> HIDE DEF x
    <2>3. s \in Nat /\ s <= B * k /\ B * (k - 1) <= s
      BY <1>2, <2>1, <2>2
    <2> QED BY <1>1, <2>1, <2>3 DEF B, k
  <1>8. CASE n.size = NDIRECT + 1
    <2>1. MinOf(n.size, NDIRECT) = NDIRECT /\ s = CAP + 0 /\ n.size - 1 = NDIRECT
      BY <1>2, <1>5, <1>8 DEF MinOf
    <2>2. CAP \in Nat /\ BLOCK_SIZE * NDIRECT = CAP
      BY <1>2 DEF CAP, B
    <2> QED BY <1>1, <2>1, <2>2
  <1> QED BY <1>2, <1>6, <1>7, <1>8

(* What set_attr does to a file: its size, and nothing else.               *)
Sized(f, i, g) ==
    /\ g \in FsType
    /\ g.used = f.used /\ g.disk = f.disk /\ g.status = f.status
    /\ g.inode[i].type = f.inode[i].type /\ g.inode[i].blocks = f.inode[i].blocks
    /\ \A j \in Inums : j # i => g.inode[j] = f.inode[j]

LEMMA PutSized ==
    ASSUME NEW f \in FsType, NEW i \in Inums, NEW n, n = f.inode[i], NEW size \in 0 .. NDIRECT + 1
    PROVE  Sized(f, i, put_inode(f, i, [n EXCEPT !.size = size]))
  <1> DEFINE m == [n EXCEPT !.size = size]
  <1>1. n \in InodeType
    BY FsParts
  <1>2. m \in InodeType /\ m.type = n.type /\ m.blocks = n.blocks
    BY <1>1, Resized
  <1> HIDE DEF m
  <1>3. LET q == put_inode(f, i, m)
        IN /\ q \in FsType
           /\ q.used = f.used /\ q.disk = f.disk /\ q.status = f.status
           /\ q.inode[i] = m
           /\ \A j \in Inums : j # i => q.inode[j] = f.inode[j]
    BY <1>2, PutInode
  <1>4. Sized(f, i, put_inode(f, i, m))
    BY <1>2, <1>3 DEF Sized
  <1> QED BY <1>4 DEF m

(* truncate_file, which grows, finds no block to give up: those up to the  *)
(* old size are all within the new one.                                    *)
LEMMA FlatTruncate ==
    ASSUME NEW f \in FsType, Flat(f), NEW i \in Inums, NEW size \in Nat,
           get_file_size(f, i) < size
    PROVE  Sized(f, i, truncate_file(f, i, size))
  <1> DEFINE n == f.inode[i]
             s == get_file_size(f, i)
             B == BLOCK_SIZE
             r == blocks_of(size)
             ids == {n.blocks[k] : k \in r .. MinOf(n.size, NDIRECT) - 1}
             zeroed == [f EXCEPT !.disk = [b \in DOMAIN @ |-> IF b \in ids THEN ZeroBlock ELSE @[b]]]
             freed == free_blocks(zeroed, ids)
             w == truncate_at[INODE_NUM - 1]
             c == [fs |-> f, inum |-> i, size |-> size]
  <1>1. /\ n \in InodeType /\ s \in Nat /\ s < size /\ table(f, n) = <<>>
        /\ n.size # 0 => B * (n.size - 1) <= s
    BY FlatSize, FlatTable
  <1>2. r \in Nat /\ B * r >= size
    <2>1. B * r \in size .. size + B - 1
      BY BlocksOf
    <2> QED BY <2>1, BlocksOf, SizesAssumption
  <1>3. n.size \in 0 .. NDIRECT + 1 /\ B \in Nat \ {0} /\ NDIRECT \in Nat
    BY <1>1, InodeParts, SizesAssumption
  <1> HIDE DEF n, s, B, r
  <1>4. n.size <= r
    <2> SUFFICES ASSUME n.size >= r + 1 PROVE FALSE
      BY <1>2, <1>3
    <2> DEFINE k == n.size - 1
               x == B * k
               y == B * r
    <2>1. k \in Nat /\ k >= r /\ x <= s
      BY <1>1, <1>2, <1>3
    <2> HIDE DEF k
    <2>2. x \in Nat /\ y \in Nat /\ x >= y
      BY <1>2, <1>3, <2>1
    <2>3. y >= size
      BY <1>2
    <2> HIDE DEF x, y
    <2> QED BY <1>1, <2>1, <2>2, <2>3
  <1>5. r .. MinOf(n.size, NDIRECT) - 1 = {}
    BY <1>2, <1>3, <1>4 DEF MinOf
  <1>6. ids = {}
    BY <1>5
  <1>7. freed = f
    <2>1. DOMAIN f.disk = 0 .. NDATA /\ f.disk = [b \in 0 .. NDATA |-> f.disk[b]]
      BY FsParts
    <2>2. zeroed = [f EXCEPT !.disk = f.disk]
      BY <1>6, <2>1
    <2>3. zeroed = f
      BY <2>2, FsParts
    <2>4. freed = free_blocks(f, {})
      BY <1>6, <2>3
    <2>5. free_blocks(f, {}) = [used |-> f.used \ {}, disk |-> [b \in 0 .. NDATA |-> f.disk[b]],
                                inode |-> f.inode, status |-> f.status]
      BY DEF free_blocks
    <2>6. f.used \ {} = f.used
      OBVIOUS
    <2> QED BY <2>1, <2>4, <2>5, <2>6, FsParts
  <1>8. truncate_level(w, f, i, size) = put_inode(f, i, [n EXCEPT !.size = inode_size(r)])
    <2> DEFINE subs == table(freed, n)
               done == truncate_subs(w, freed, subs, size)[Len(subs)]
    <2>1. truncate_level(w, f, i, size) = put_inode(done, i, [n EXCEPT !.size = inode_size(r)])
      <3>1. size # 0
        BY <1>1
      <3> QED BY <3>1 DEF truncate_level, n, r
    <2>2. subs = <<>> /\ <<>> \in Seq(Nat) /\ Len(<<>>) = 0
      BY <1>1, <1>7
    <2>3. w \in [SizeCall -> FsType]
      <3>1. INODE_NUM - 1 \in Levels
        BY SizesAssumption DEF Levels
      <3> QED BY <3>1, TruncateAtDef
    <2> HIDE DEF subs, w, freed
    <2>4. truncate_subs(w, f, <<>>, size)[0] = f
      BY <2>2, <2>3, TruncateSubs
    <2>5. done = f
      BY <1>7, <2>2, <2>4
    <2> QED BY <2>1, <2>5
  <1>9. truncate_file(f, i, size) = truncate_level(w, f, i, size)
    <2>1. c \in SizeCall /\ INODE_NUM \in 1 .. INODE_NUM
      BY SizesAssumption DEF SizeCall, Inums
    <2>2. truncate_file(f, i, size) = truncate_at[INODE_NUM][c]
      BY DEF truncate_file
    <2>3. c.fs = f /\ c.inum = i /\ c.size = size
      OBVIOUS
    <2> HIDE DEF c
    <2> QED BY <2>1, <2>2, <2>3, TruncateAtDef
  <1>10. inode_size(r) \in 0 .. NDIRECT + 1
    BY <1>2, InodeSize
  <1> HIDE DEF w
  <1> QED BY <1>8, <1>9, <1>10, PutSized DEF n

(* padding_file, which cuts, finds every slot up to the new size in use.   *)
LEMMA FlatPadding ==
    ASSUME NEW f \in FsType, Flat(f), NEW i \in Inums, NEW size \in Nat,
           get_file_size(f, i) > size
    PROVE  Sized(f, i, padding_file(f, i, size))
  <1> DEFINE n == f.inode[i]
             s == get_file_size(f, i)
             B == BLOCK_SIZE
             r == blocks_of(size)
             m == MinOf(n.size, NDIRECT)
             w == padding_at[INODE_NUM - 1]
             c == [fs |-> f, inum |-> i, size |-> size]
  <1>1. n \in InodeType /\ s \in Nat /\ s > size /\ s <= B * m
    BY FlatSize
  <1>2. r \in Nat /\ B * r <= size + B - 1
    <2>1. B * r \in size .. size + B - 1
      BY BlocksOf
    <2> QED BY <2>1, BlocksOf, SizesAssumption
  <1>3. n.size \in 0 .. NDIRECT + 1 /\ B \in Nat \ {0} /\ NDIRECT \in Nat
    BY <1>1, InodeParts, SizesAssumption
  <1>4. m \in Nat /\ m <= n.size /\ m <= NDIRECT
    BY <1>3 DEF MinOf
  <1> HIDE DEF n, s, B, r, m
  <1>5. r <= m
    <2> SUFFICES ASSUME r >= m + 1 PROVE FALSE
      BY <1>2, <1>4
    <2> DEFINE x == B * m
               y == B * r
    <2>1. x \in Nat /\ y \in Nat /\ y >= B * (m + 1) /\ B * (m + 1) = x + B
      BY <1>2, <1>3, <1>4
    <2>2. s <= x /\ y <= size + B - 1
      BY <1>1, <1>2
    <2> HIDE DEF x, y
    <2> QED BY <1>1, <1>3, <2>1, <2>2
  <1>6. r <= n.size /\ ~(r > NDIRECT) /\ MinOf(r, NDIRECT) = r
    BY <1>2, <1>3, <1>4, <1>5 DEF MinOf
  <1>7. pad_direct(f, n, r)[r] = [fs |-> f, ino |-> n]
    BY <1>1, <1>2, <1>6, PadDirect
  <1>8. padding_level(w, f, i, size) = put_inode(f, i, [n EXCEPT !.size = inode_size(r)])
    <2> DEFINE d == pad_direct(f, n, r)[r]
    <2>1. d.fs = f /\ d.ino = n
      BY <1>7
    <2>2. padding_level(w, f, i, size) = put_inode(d.fs, i, [d.ino EXCEPT !.size = inode_size(r)])
      BY <1>6 DEF padding_level, n, r
    <2> HIDE DEF d
    <2> QED BY <2>1, <2>2
  <1>9. padding_file(f, i, size) = padding_level(w, f, i, size)
    <2>1. c \in SizeCall /\ INODE_NUM \in 1 .. INODE_NUM
      BY SizesAssumption DEF SizeCall, Inums
    <2>2. padding_file(f, i, size) = padding_at[INODE_NUM][c]
      BY DEF padding_file
    <2>3. c.fs = f /\ c.inum = i /\ c.size = size
      OBVIOUS
    <2> HIDE DEF c
    <2> QED BY <2>1, <2>2, <2>3, PaddingAtDef
  <1>10. inode_size(r) \in 0 .. NDIRECT + 1
    BY <1>2, InodeSize
  <1> HIDE DEF w
  <1> QED BY <1>8, <1>9, <1>10, PutSized DEF n

LEMMA FlatSetAttr ==
    ASSUME NEW f \in FsType, Flat(f), NEW i \in Inums, NEW size \in Nat,
           NEW g, g = set_attr(f, i, size)
    PROVE  Sized(f, i, g) /\ Flat(g)
  <1> DEFINE s == get_file_size(f, i)
  <1>1. s \in Nat
    BY FileSize
  <1>2. g = IF s < size THEN truncate_file(f, i, size) ELSE IF s > size THEN padding_file(f, i, size) ELSE f
    BY DEF set_attr
  <1>3. Sized(f, i, g)
    <2>1. CASE s < size
      BY <1>2, <2>1, FlatTruncate
    <2>2. CASE s > size
      <3>1. ~(s < size)
        BY <1>1, <2>2
      <3> QED BY <1>2, <2>2, <3>1, FlatPadding
    <2>3. CASE s = size
      <3>1. g = f
        BY <1>1, <1>2, <2>3
      <3> QED BY <3>1 DEF Sized
    <2> QED BY <1>1, <2>1, <2>2, <2>3
  <1>4. \A j \in Inums : g.inode[j].blocks = f.inode[j].blocks
    BY <1>3 DEF Sized
  <1> QED BY <1>3, <1>4 DEF Sized, Flat

(* The other calls leave no table either.                                  *)
LEMMA FlatCreate ==
    ASSUME NEW f \in FsType, Flat(f), NEW type \in {T_DIR, T_FILE, T_LNK},
           NEW g, g = alloc_inode(f, type), g.status = "ok"
    PROVE  Flat(g)
  <1> DEFINE i == find_free_inode(f)
             n == [ZeroInode EXCEPT !.type = type]
  <1>1. /\ i \in Inums /\ g.disk = f.disk /\ g.inode[i] = n
        /\ \A j \in Inums : j # i => g.inode[j] = f.inode[j]
    BY TakeInode
  <1>2. n.blocks[NDIRECT] = 0
    BY SizesAssumption DEF ZeroInode
  <1> HIDE DEF i, n
  <1>3. \A j \in Inums : g.inode[j].blocks[NDIRECT] = 0
    BY <1>1, <1>2 DEF Flat
  <1> QED BY <1>1, <1>3 DEF Flat

LEMMA FlatPut ==
    ASSUME NEW f \in FsType, Flat(f), NEW i \in Live(f), Marked(f),
           NEW data \in Seq(Nat), Len(data) <= CAP,
           NEW g, g = write_file(f, i, data), g.status = "ok"
    PROVE  Flat(g)
  <1> DEFINE w == write_at[INODE_NUM - 1]
             c == [fs |-> f, inum |-> i, data |-> data]
             d == DirectPart(f, i, data)
             ino == NewInode(f, i, data)
  <1>1. i \in Inums /\ i \in Nat /\ INODE_NUM \in 1 .. INODE_NUM /\ INODE_NUM - 1 \in Levels
    BY SizesAssumption DEF Levels, Live, Inums
  <1>2. g.disk[0] = f.disk[0]
    <2>1. Grown(f, {i}, g)
      BY WriteFile
    <2> QED BY <2>1 DEF Grown, KeepsBlocks
  <1>3. w \in [DataCall -> FsType]
    BY <1>1, WriteAtDef
  <1>4. g = write_level(w, f, i, data)
    <2>1. c \in DataCall
      BY <1>1 DEF DataCall
    <2>2. g = write_at[INODE_NUM][c]
      BY DEF write_file
    <2>3. c.fs = f /\ c.inum = i /\ c.data = data
      OBVIOUS
    <2> HIDE DEF c
    <2> QED BY <1>1, <2>1, <2>2, <2>3, WriteAtDef
  <1> HIDE DEF w
  <1>5. d.fs \in FsType /\ ino \in InodeType /\ ino.blocks = d.ino.blocks /\ g = put_inode(d.fs, i, ino)
    BY <1>1, <1>3, <1>4, WriteLevelCases
  <1>6. /\ ndirect(data) <= NDIRECT /\ NDIRECT \in 0 .. NDIRECT /\ NDIRECT >= ndirect(data)
        /\ \A l \in 0 .. NDIRECT : l >= ndirect(data) => d.ino.blocks[l] = f.inode[i].blocks[l]
        /\ d.fs.status = "ok" => Placed(f, f.inode[i], ndirect(data), d)
    BY <1>1, DirectPartDef, SizesAssumption
  <1> HIDE DEF d, ino
  <1>7. /\ g.status = d.fs.status /\ g.inode[i] = ino
        /\ \A j \in Inums : j # i => g.inode[j] = d.fs.inode[j]
    BY <1>1, <1>5, PutInode
  <1>8. d.fs.inode = f.inode
    BY <1>6, <1>7 DEF Placed
  <1>9. \A j \in Inums : g.inode[j].blocks[NDIRECT] = 0
    BY <1>1, <1>5, <1>6, <1>7, <1>8 DEF Flat
  <1> QED BY <1>2, <1>9 DEF Flat

LEMMA FlatRemove ==
    ASSUME NEW f \in FsType, Flat(f), NEW g \in FsType, NEW X, Shrunk(f, X, g)
    PROVE  Flat(g)
  <1>1. 0 \in 0 .. NDATA /\ 0 \notin f.used
    BY FsParts, SizesAssumption DEF DataBlocks
  <1>2. g.disk[0] = f.disk[0]
    BY <1>1 DEF Shrunk, FreesTheirBlocks
  <1>3. ZeroInode.blocks[NDIRECT] = 0
    BY SizesAssumption DEF ZeroInode
  <1>4. \A j \in Inums : g.inode[j].blocks[NDIRECT] = 0
    BY <1>3 DEF Shrunk, ZeroesInodes, Flat
  <1> QED BY <1>2, <1>4 DEF Flat
-----------------------------------------------------------------------------
(* The inductive invariant: the ids the client holds are live inodes, what *)
(* a slot names is marked and named once, and the inodes of a table are    *)
(* live files that no other table lists and no client knows.               *)
ListsFiles(f, h) == \A i \in Live(f) : \A j \in SubsIn(f, i) :
                        j \in Live(f) /\ f.inode[j].type = T_FILE /\ j \notin h
TablesApart(f) == \A i, j \in Live(f) : i # j => SubsIn(f, i) \cap SubsIn(f, j) = {}
Sound(f, h) == /\ h \subseteq Live(f)
               /\ Marked(f) /\ Apart(f)
               /\ ListsFiles(f, h) /\ TablesApart(f)
Inv == TypeOK /\ Sound(fs, held) /\ (Shallow => Flat(fs))

(* A client cuts files to nothing only, or has no file with a table.       *)
ZeroOrShallow == Sizes \subseteq {0} \/ Shallow

LEMMA Shape ==
    ASSUME TypeOK
    PROVE  fs \in FsType /\ held \subseteq Inums
  BY DEF TypeOK

(* It implies the two invariants.                                          *)
LEMMA InvImplies ==
    ASSUME Inv
    PROVE  BlocksExclusive /\ SubInodesPrivate
  <1>1. fs \in FsType /\ held \subseteq Inums /\ Sound(fs, held)
    BY DEF Inv, TypeOK
  <1>2. ASSUME NEW s \in Slots
        PROVE  /\ s[1] \in Inums /\ s[2] \in 0 .. NDIRECT /\ s = <<s[1], s[2]>>
               /\ BlockOf(s) \in DataBlocks /\ NamesBlock(fs, s[1], s[2], BlockOf(s))
    <2>1. /\ s[1] \in Inums /\ s[2] \in 0 .. NDIRECT /\ s = <<s[1], s[2]>>
          /\ fs.inode[s[1]].type # 0 /\ fs.inode[s[1]].blocks[s[2]] # 0
      BY DEF Slots
    <2> DEFINE n == fs.inode[s[1]]
               b == n.blocks[s[2]]
    <2>2. b \in 0 .. NDATA
      <3>1. n \in InodeType
        BY <1>1, <2>1, FsParts
      <3> HIDE DEF n
      <3> QED BY <2>1, <3>1, InodeParts
    <2>3. b \in DataBlocks
      <3>1. b # 0
        BY <2>1
      <3> HIDE DEF b
      <3> QED BY <2>2, <3>1, SizesAssumption DEF DataBlocks
    <2> QED BY <2>1, <2>3 DEF BlockOf, NamesBlock, Live
  <1>3. BlocksExclusive
    <2>1. ASSUME NEW s \in Slots, NEW t \in Slots, BlockOf(s) = BlockOf(t) PROVE s = t
      <3>1. s[1] = t[1] /\ s[2] = t[2]
        <4>1. Apart(fs)
          BY <1>1 DEF Sound
        <4> QED BY <1>2, <2>1, <4>1 DEF Apart
      <3>2. s = <<s[1], s[2]>> /\ t = <<t[1], t[2]>>
        BY <1>2
      <3> QED BY <3>1, <3>2
    <2>2. \A s \in Slots : BlockOf(s) \in fs.used
      BY <1>1, <1>2 DEF Sound, Marked
    <2> QED BY <2>1, <2>2 DEF BlocksExclusive
  <1>4. SubInodesPrivate
    <2>1. \A i \in Inums : SubsOf(i) = SubsIn(fs, i)
      BY DEF SubsOf, SubsIn
    <2>2. \A i \in Inums : fs.inode[i].type = T_FILE => i \in Live(fs)
      BY DEF Live, T_FILE
    <2> QED BY <1>1, <2>1, <2>2 DEF SubInodesPrivate, Sound, ListsFiles, TablesApart
  <1> QED BY <1>3, <1>4

LEMMA NoTable ==
    ASSUME NEW f \in FsType, NEW i \in Inums, f.inode[i].size = 0
    PROVE  SubsIn(f, i) = {}
  <1>1. f.inode[i] \in InodeType /\ 0 <= NDIRECT
    BY FsParts, SizesAssumption
  <1>2. table(f, f.inode[i]) = <<>>
    BY <1>1, TableDef
  <1> QED BY <1>2 DEF SubsIn

(* Tables are as they were where neither inodes nor marked blocks change.  *)
LEMMA SameSubs ==
    ASSUME NEW f \in FsType, NEW g \in FsType, g.disk = f.disk, NEW j \in Inums, g.inode[j] = f.inode[j]
    PROVE  SubsIn(g, j) = SubsIn(f, j)
  BY SubsSame

(* A call that dies changes nothing but the status.                        *)
LEMMA Died ==
    ASSUME NEW f \in FsType, NEW h, Sound(f, h), NEW why \in StatusType
    PROVE  LET g == [f EXCEPT !.status = why] IN g \in FsType /\ Sound(g, h)
  <1> DEFINE g == [f EXCEPT !.status = why]
  <1>1. g = [used |-> f.used, disk |-> f.disk, inode |-> f.inode, status |-> why]
    BY FsParts
  <1>2. g \in FsType /\ g.used = f.used /\ g.disk = f.disk /\ g.inode = f.inode
    BY <1>1, FsParts, FsWhole
  <1> HIDE DEF g
  <1>3. Live(g) = Live(f) /\ \A j, k, b : NamesBlock(g, j, k, b) <=> NamesBlock(f, j, k, b)
    BY <1>2 DEF Live, NamesBlock
  <1>4. \A j : SubsIn(g, j) = SubsIn(f, j)
    BY <1>2 DEF SubsIn, table
  <1>5. Sound(g, h)
    BY <1>2, <1>3, <1>4 DEF Sound, Marked, Apart, ListsFiles, TablesApart
  <1> QED BY <1>2, <1>5 DEF g

(* create: the new inode names no block and has no table.                  *)
LEMMA Created ==
    ASSUME NEW f \in FsType, NEW h, Sound(f, h), NEW type \in {T_DIR, T_FILE, T_LNK},
           NEW g, g = alloc_inode(f, type), g.status = "ok"
    PROVE  g \in FsType /\ Sound(g, h \cup {find_free_inode(f)})
  <1> DEFINE i == find_free_inode(f)
             n == [ZeroInode EXCEPT !.type = type]
  <1>1. /\ g \in FsType /\ i \in Inums /\ f.inode[i].type = 0
        /\ g.used = f.used /\ g.disk = f.disk
        /\ g.inode[i] = n
        /\ \A j \in Inums : j # i => g.inode[j] = f.inode[j]
    BY TakeInode
  <1>2. /\ n.type = type /\ n.size = 0 /\ n.blocks = ZeroInode.blocks
        /\ type # 0 /\ \A k \in 0 .. NDIRECT : ZeroInode.blocks[k] = 0
    BY Zeros DEF ZeroInode, T_DIR, T_FILE, T_LNK
  <1> HIDE DEF i, n
  <1>3. Live(g) = Live(f) \cup {i} /\ i \notin Live(f)
    BY <1>1, <1>2 DEF Live
  <1>4. \A j \in Inums, k \in 0 .. NDIRECT : \A b : NamesBlock(g, j, k, b) => NamesBlock(f, j, k, b)
    <2> SUFFICES ASSUME NEW j \in Inums, NEW k \in 0 .. NDIRECT, NEW b, NamesBlock(g, j, k, b)
                 PROVE  NamesBlock(f, j, k, b)
      OBVIOUS
    <2>1. j # i
      BY <1>1, <1>2 DEF NamesBlock
    <2> QED BY <1>1, <1>3, <2>1 DEF NamesBlock
  <1>5. Marked(g) /\ Apart(g)
    BY <1>1, <1>4 DEF Sound, Marked, Apart
  <1>6. \A j \in Live(f) : j \in Inums /\ j # i /\ SubsIn(g, j) = SubsIn(f, j)
    BY <1>1, <1>3, SameSubs DEF Live
  <1>7. SubsIn(g, i) = {}
    BY <1>1, <1>2, NoTable
  <1>8. ListsFiles(g, h \cup {i})
    <2> SUFFICES ASSUME NEW p \in Live(g), NEW j \in SubsIn(g, p)
                 PROVE  j \in Live(g) /\ g.inode[j].type = T_FILE /\ j \notin h \cup {i}
      BY DEF ListsFiles
    <2>1. p \in Live(f) /\ j \in SubsIn(f, p)
      BY <1>3, <1>6, <1>7
    <2>2. j \in Live(f) /\ f.inode[j].type = T_FILE /\ j \notin h
      BY <2>1 DEF Sound, ListsFiles
    <2> QED BY <1>1, <1>3, <1>6, <2>2
  <1>9. TablesApart(g)
    BY <1>3, <1>6, <1>7 DEF Sound, TablesApart
  <1>10. h \cup {i} \subseteq Live(g)
    BY <1>3 DEF Sound
  <1> QED BY <1>1, <1>5, <1>8, <1>9, <1>10 DEF Sound, i

(* put: everything the file gains is new.                                  *)
LEMMA Put ==
    ASSUME NEW f \in FsType, NEW h, Sound(f, h), NEW i \in h, NEW g \in FsType, Grown(f, {i}, g)
    PROVE  Sound(g, h)
  <1> USE DEF Grown
  <1>1. h \subseteq Live(f) /\ Marked(f) /\ Apart(f) /\ ListsFiles(f, h) /\ TablesApart(f)
    BY DEF Sound
  <1>2. /\ \A j \in Live(f) : j \in Live(g) /\ g.inode[j].type = f.inode[j].type
        /\ \A j \in Live(f) : j # i => g.inode[j] = f.inode[j]
        /\ \A j \in New(f, g) : g.inode[j].type = T_FILE
        /\ Live(g) = Live(f) \cup New(f, g) /\ New(f, g) \cap Live(f) = {}
    <2>1. Live(f) \subseteq Live(g)
      BY DEF KeepsInodes, Live
    <2> QED BY <2>1 DEF KeepsInodes, New
  <1>3. Marked(g)
    BY <1>1, KeptMarked
  <1>4. Apart(g)
    <2> SUFFICES ASSUME NEW p \in Inums, NEW q \in Inums, NEW k \in 0 .. NDIRECT,
                        NEW l \in 0 .. NDIRECT, NEW b \in DataBlocks,
                        NamesBlock(g, p, k, b), NamesBlock(g, q, l, b)
                 PROVE  p = q /\ k = l
      BY DEF Apart
    <2>1. CASE b \in f.used
      <3>1. NamesBlock(f, p, k, b) /\ NamesBlock(f, q, l, b)
        BY <2>1 DEF NamesNewBlocks
      <3> QED BY <1>1, <3>1 DEF Apart
    <2>2. CASE b \notin f.used
      BY <2>2 DEF NewBlocksApart
    <2> QED BY <2>1, <2>2
  <1>5. \A j \in Live(f) : j # i => SubsIn(g, j) = SubsIn(f, j)
    BY <1>1, <1>2, KeptSubs
  <1>6. \A j \in New(f, g) \cup {i} : SubsIn(g, j) \subseteq New(f, g)
    BY DEF ListsNewInodes
  <1>7. \A p \in Live(f) : p # i => SubsIn(g, p) \subseteq Live(f)
    BY <1>1, <1>5 DEF ListsFiles
  <1>8. ListsFiles(g, h)
    <2> SUFFICES ASSUME NEW p \in Live(g), NEW j \in SubsIn(g, p)
                 PROVE  j \in Live(g) /\ g.inode[j].type = T_FILE /\ j \notin h
      BY DEF ListsFiles
    <2>1. CASE p \in New(f, g) \cup {i}
      BY <1>1, <1>2, <1>6, <2>1
    <2>2. CASE p \in Live(f) /\ p # i
      <3>1. j \in Live(f) /\ f.inode[j].type = T_FILE /\ j \notin h
        BY <1>1, <1>5, <2>2 DEF ListsFiles
      <3> QED BY <1>2, <3>1
    <2> QED BY <1>2, <2>1, <2>2
  <1>9. TablesApart(g)
    <2> SUFFICES ASSUME NEW p \in Live(g), NEW q \in Live(g), p # q
                 PROVE  SubsIn(g, p) \cap SubsIn(g, q) = {}
      BY DEF TablesApart
    <2>1. CASE p \in New(f, g) \cup {i} /\ q \in New(f, g) \cup {i}
      BY <2>1 DEF NewInodesApart
    <2>2. CASE p \in New(f, g) \cup {i} /\ q \in Live(f) /\ q # i
      BY <1>2, <1>6, <1>7, <2>2
    <2>3. CASE q \in New(f, g) \cup {i} /\ p \in Live(f) /\ p # i
      BY <1>2, <1>6, <1>7, <2>3
    <2>4. CASE p \in Live(f) /\ p # i /\ q \in Live(f) /\ q # i
      BY <1>1, <1>5, <2>4 DEF TablesApart
    <2> QED BY <1>2, <2>1, <2>2, <2>3, <2>4
  <1> QED BY <1>1, <1>2, <1>3, <1>4, <1>8, <1>9 DEF Sound

(* remove: what stays was neither held by the client nor in a table of     *)
(* what goes, and the blocks that are freed were named by what goes.       *)
LEMMA Removed ==
    ASSUME NEW f \in FsType, NEW h, Sound(f, h), NEW i \in h, NEW g \in FsType, Shrunk(f, {i}, g)
    PROVE  Sound(g, h \ {i})
  <1> USE DEF Shrunk
  <1>1. h \subseteq Live(f) /\ Marked(f) /\ Apart(f) /\ ListsFiles(f, h) /\ TablesApart(f)
    BY DEF Sound
  <1>2. /\ Live(g) \subseteq Live(f)
        /\ \A j \in Live(g) : g.inode[j] = f.inode[j]
        /\ \A j, k, b : j \in Inums /\ NamesBlock(g, j, k, b) => NamesBlock(f, j, k, b)
    BY ShrunkLive
  <1>3. Gone(f, g) \subseteq Live(f) /\ Live(f) = Live(g) \cup Gone(f, g) /\ Gone(f, g) \cap Live(g) = {}
    BY <1>2 DEF Gone
  <1>4. \A j \in Gone(f, g) : j = i \/ \E p \in Gone(f, g) : j \in SubsIn(f, p)
    BY DEF FromTables
  <1>5. Apart(g)
    BY <1>1, ShrunkApart
  <1>6. Marked(g)
    <2> SUFFICES ASSUME NEW j \in Inums, NEW k \in 0 .. NDIRECT, NEW b \in DataBlocks,
                        NamesBlock(g, j, k, b)
                 PROVE  b \in g.used
      BY DEF Marked
    <2>1. NamesBlock(f, j, k, b) /\ j \in Live(g)
      BY <1>2 DEF NamesBlock
    <2>2. b \in f.used
      BY <1>1, <2>1 DEF Marked
    <2>3. ASSUME b \notin g.used PROVE FALSE
      <3>1. PICK q \in Gone(f, g), l \in 0 .. NDIRECT - 1 : NamesBlock(f, q, l, b)
        BY <2>2, <2>3 DEF FreesTheirBlocks
      <3>2. q \in Inums /\ l \in 0 .. NDIRECT
        BY SizesAssumption DEF Gone, Live
      <3>3. q = j
        BY <1>1, <2>1, <3>1, <3>2 DEF Apart
      <3> QED BY <1>3, <2>1, <3>3
    <2> QED BY <2>3
  <1>7. \A p \in Live(g) : SubsIn(g, p) = SubsIn(f, p)
    BY <1>1, ShrunkSubs
  <1>8. ASSUME NEW p \in Live(g), NEW j \in SubsIn(g, p)
        PROVE  j \in Live(g) /\ g.inode[j].type = T_FILE /\ j \notin h
    <2>1. p \in Live(f) /\ j \in SubsIn(f, p)
      BY <1>2, <1>7
    <2>2. j \in Live(f) /\ f.inode[j].type = T_FILE /\ j \notin h
      BY <1>1, <2>1 DEF ListsFiles
    <2>3. j \notin Gone(f, g)
      <3> SUFFICES ASSUME j \in Gone(f, g) PROVE FALSE
        OBVIOUS
      <3>1. j # i
        BY <2>2
      <3>2. PICK q \in Gone(f, g) : j \in SubsIn(f, q)
        BY <1>4, <3>1
      <3>3. q # p /\ q \in Live(f)
        BY <1>3, <3>2
      <3> QED BY <1>1, <2>1, <3>2, <3>3 DEF TablesApart
    <2> QED BY <1>2, <1>3, <2>2, <2>3
  <1>9. ListsFiles(g, h \ {i})
    BY <1>8 DEF ListsFiles
  <1>10. TablesApart(g)
    BY <1>1, <1>2, <1>7 DEF TablesApart
  <1>11. h \ {i} \subseteq Live(g)
    <2> SUFFICES ASSUME NEW j \in h \ {i}, j \notin Live(g) PROVE FALSE
      OBVIOUS
    <2>1. j \in Gone(f, g) /\ j # i
      BY <1>1, <1>3
    <2>2. PICK q \in Gone(f, g) : j \in SubsIn(f, q)
      BY <1>4, <2>1
    <2> QED BY <1>1, <1>3, <2>2 DEF ListsFiles
  <1> QED BY <1>5, <1>6, <1>9, <1>10, <1>11 DEF Sound

(* set_attr: nothing changes of what the slots of a file name, and of what *)
(* its table lists nothing is new.                                         *)
LEMMA Resizes ==
    ASSUME NEW f \in FsType, NEW h, Sound(f, h), NEW i \in Inums, NEW g, Sized(f, i, g),
           SubsIn(g, i) \subseteq SubsIn(f, i)
    PROVE  Sound(g, h)
  <1>1. /\ g \in FsType /\ g.used = f.used /\ g.disk = f.disk
        /\ \A j \in Inums : j # i => g.inode[j] = f.inode[j]
    BY DEF Sized
  <1>2. \A j \in Inums : g.inode[j].type = f.inode[j].type /\ g.inode[j].blocks = f.inode[j].blocks
    BY DEF Sized
  <1>3. Live(g) = Live(f) /\ Live(g) \subseteq Inums
    BY <1>2 DEF Live
  <1>4. \A j \in Inums : \A k, b : NamesBlock(g, j, k, b) <=> NamesBlock(f, j, k, b)
    BY <1>2, <1>3 DEF NamesBlock
  <1>5. Marked(g) /\ Apart(g)
    BY <1>1, <1>4 DEF Sound, Marked, Apart
  <1>6. \A j \in Inums : SubsIn(g, j) \subseteq SubsIn(f, j)
    <2> SUFFICES ASSUME NEW j \in Inums, j # i PROVE SubsIn(g, j) \subseteq SubsIn(f, j)
      OBVIOUS
    <2> QED BY <1>1, SameSubs
  <1>7. ListsFiles(g, h)
    <2> SUFFICES ASSUME NEW p \in Live(g), NEW j \in SubsIn(g, p)
                 PROVE  j \in Live(g) /\ g.inode[j].type = T_FILE /\ j \notin h
      BY DEF ListsFiles
    <2>1. p \in Live(f) /\ j \in SubsIn(f, p)
      BY <1>3, <1>6
    <2>2. j \in Live(f) /\ f.inode[j].type = T_FILE /\ j \notin h
      BY <2>1 DEF Sound, ListsFiles
    <2> QED BY <1>2, <1>3, <2>2
  <1>8. TablesApart(g)
    BY <1>3, <1>6 DEF Sound, TablesApart
  <1> QED BY <1>3, <1>5, <1>7, <1>8 DEF Sound

(* So it is with set_attr to 0, by which a file loses its table, and with  *)
(* set_attr to any size where no file has one.                             *)
LEMMA SetAttrSized ==
    ASSUME ZeroOrShallow, NEW f \in FsType, Shallow => Flat(f), NEW i \in Inums, NEW size \in Sizes,
           NEW g, g = set_attr(f, i, size)
    PROVE  /\ Sized(f, i, g) /\ SubsIn(g, i) \subseteq SubsIn(f, i)
           /\ Shallow => Flat(g)
  <1>1. CASE Shallow
    <2>1. size \in Nat
      BY CallsAssumption
    <2>2. Flat(f) /\ Sized(f, i, g) /\ Flat(g) /\ g \in FsType
      BY <1>1, <2>1, FlatSetAttr DEF Sized
    <2>3. SubsIn(g, i) = {}
      BY <2>2, FlatTable
    <2> QED BY <2>2, <2>3
  <1>2. CASE ~Shallow
    <2>1. g = set_attr(f, i, 0)
      BY <1>2 DEF ZeroOrShallow
    <2>2. CASE g = f
      BY <1>2, <2>2 DEF Sized
    <2>3. CASE g # f
      <3>1. Sized(f, i, g) /\ g.inode[i].size = 0 /\ g \in FsType
        BY <2>1, <2>3, SetAttrZero DEF Sized
      <3>2. SubsIn(g, i) = {}
        BY <3>1, NoTable
      <3> QED BY <1>2, <3>1, <3>2
    <2> QED BY <2>2, <2>3
  <1> QED BY <1>1, <1>2
-----------------------------------------------------------------------------
(* The state starts with the root directory alone, which is empty.         *)
RootAlone == /\ held = {1} /\ fs.status = "ok"
             /\ fs.inode[1].type = T_DIR /\ fs.inode[1].size = 0

LEMMA InitInv == Init => Inv /\ RootAlone
  <1> SUFFICES ASSUME Init PROVE Inv /\ RootAlone
    OBVIOUS
  <1> DEFINE dk == [b \in 0 .. NDATA |-> ZeroBlock]
             ns == [i \in Inums |-> ZeroInode]
             f == [used |-> {}, disk |-> dk, inode |-> ns, status |-> "ok"]
             free == {i \in Inums : f.inode[i].type = 0}
             g == alloc_inode(f, T_DIR)
  <1>1. dk \in [0 .. NDATA -> BlockType] /\ ns \in [Inums -> InodeType]
    BY Zeros
  <1>2. f \in FsType /\ f.inode = ns /\ f.used = {} /\ f.status = "ok"
    <2> HIDE DEF dk, ns
    <2>1. {} \in SUBSET DataBlocks /\ "ok" \in StatusType
      BY DEF StatusType
    <2> QED BY <1>1, <2>1, FsWhole
  <1>3. \A i \in Inums : f.inode[i].type = 0
    BY Zeros
  <1>4. fs = g /\ held = {1}
    BY DEF Init, inode_manager
  <1>5. 1 \in Inums /\ \A i \in Inums : i >= 1 /\ i \in Nat
    BY SizesAssumption DEF Inums
  <1>6. find_free_inode(f) = 1
    <2>1. free = Inums
      BY <1>3
    <2>2. find_free_inode(f) = IF free = {} THEN 0 ELSE Min(free)
      BY DEF find_free_inode
    <2>3. Min(Inums) = 1
      <3> DEFINE Least1(x) == x \in Inums /\ \A y \in Inums : x <= y
      <3>1. Least1(1)
        BY <1>5
      <3>2. \A x : Least1(x) => x = 1
        BY <1>5
      <3>3. Min(Inums) = CHOOSE x \in Inums : \A y \in Inums : x <= y
        BY DEF Min
      <3>4. Min(Inums) \in Inums /\ \A y \in Inums : Min(Inums) <= y
        BY <3>1, <3>3
      <3> QED BY <3>2, <3>4
    <2> HIDE DEF free
    <2> QED BY <1>5, <2>1, <2>2, <2>3
  <1>7. g = put_inode(f, 1, [ZeroInode EXCEPT !.type = T_DIR])
    <2> HIDE DEF f
    <2> QED BY <1>6 DEF alloc_inode, T_DIR
  <1>8. g.status = "ok" /\ g.inode[1].type = T_DIR /\ g.inode[1].size = 0
    <2> DEFINE n == [ZeroInode EXCEPT !.type = T_DIR]
    <2>1. n \in InodeType /\ n.type = T_DIR /\ n.size = 0
      BY Zeros DEF InodeType, ZeroInode
    <2>2. g = put_inode(f, 1, n)
      BY <1>7
    <2> HIDE DEF n, f, g
    <2> QED BY <1>2, <1>5, <2>1, <2>2, PutInode
  <1>9. Live(f) = {}
    BY <1>3 DEF Live
  <1> HIDE DEF f, g
  <1>10. Sound(f, {})
    BY <1>9 DEF Sound, Marked, Apart, NamesBlock, ListsFiles, TablesApart
  <1>11. g \in FsType /\ Sound(g, {} \cup {find_free_inode(f)})
    <2>1. T_DIR \in {T_DIR, T_FILE, T_LNK}
      OBVIOUS
    <2> QED BY <1>2, <1>8, <1>10, <2>1, Created DEF g
  <1>12. {} \cup {find_free_inode(f)} = {1}
    BY <1>6
  <1>13. held \subseteq Inums
    BY <1>4, <1>5
  <1>14. Flat(g)
    <2>1. Flat(f)
      BY SizesAssumption DEF Flat, f, ZeroInode
    <2>2. T_DIR \in {T_DIR, T_FILE, T_LNK}
      OBVIOUS
    <2> QED BY <1>2, <1>8, <2>1, <2>2, FlatCreate DEF g
  <1> QED BY <1>4, <1>8, <1>11, <1>12, <1>13, <1>14 DEF Inv, TypeOK, RootAlone

(* A call either goes through or leaves but its status.                    *)
LEMMA ReplyCases ==
    ASSUME NEW f, NEW h, NEW r, Reply(f, h, r)
    PROVE  \/ f.status = "ok" /\ fs' = f /\ held' = h
           \/ fs' = [fs EXCEPT !.status = f.status] /\ held' = held
  BY DEF Reply

LEMMA StatusTyped ==
    ASSUME NEW f \in FsType, NEW g \in FsType
    PROVE  g.status \in StatusType /\ [f EXCEPT !.status = g.status] \in FsType
  <1> DEFINE why == g.status
  <1>1. why \in StatusType
    BY FsParts
  <1> HIDE DEF why
  <1>2. [f EXCEPT !.status = why] = [used |-> f.used, disk |-> f.disk, inode |-> f.inode, status |-> why]
    BY FsParts
  <1>3. [f EXCEPT !.status = why] \in FsType
    BY <1>1, <1>2, FsParts, FsWhole
  <1> QED BY <1>1, <1>3 DEF why

(* What each call is made with.                                            *)
LEMMA CallTypes ==
    /\ \A type \in Types : type \in {T_DIR, T_FILE, T_LNK}
    /\ \A buf \in Payloads : buf \in Seq(Nat)
    /\ \A size \in Sizes : size \in Nat
  BY CallsAssumption

LEMMA TypeStep == TypeOK /\ [Next]_vars => TypeOK'
  <1> SUFFICES ASSUME TypeOK, [Next]_vars PROVE TypeOK'
    OBVIOUS
  <1>1. fs \in FsType /\ held \subseteq Inums
    BY Shape
  <1>2. ASSUME NEW f, f \in FsType, NEW h, NEW r, Reply(f, h, r),
               f.status = "ok" => h \subseteq Inums
        PROVE  TypeOK'
    <2>1. CASE f.status = "ok" /\ fs' = f /\ held' = h
      BY <1>2, <2>1 DEF TypeOK
    <2>2. CASE fs' = [fs EXCEPT !.status = f.status] /\ held' = held
      <3>1. [fs EXCEPT !.status = f.status] \in FsType
        BY <1>1, <1>2, StatusTyped
      <3> QED BY <1>1, <2>2, <3>1 DEF TypeOK
    <2> QED BY <1>2, <2>1, <2>2, ReplyCases
  <1>3. ASSUME NEW type \in Types, create(type) PROVE TypeOK'
    <2> DEFINE f == alloc_inode(fs, type)
               id == find_free_inode(fs)
    <2>1. type \in {T_DIR, T_FILE, T_LNK}
      BY CallTypes
    <2>2. f \in FsType /\ (f.status = "ok" => id \in Inums)
      BY <1>1, <2>1, TakeInode
    <2>3. Reply(f, held \cup {id}, <<"create", id, type>>)
      BY <1>3 DEF create
    <2> HIDE DEF f, id
    <2>4. f.status = "ok" => held \cup {id} \subseteq Inums
      BY <1>1, <2>2
    <2> QED BY <1>2, <2>2, <2>3, <2>4
  <1>4. ASSUME NEW id \in Files, NEW buf \in Payloads, put(id, buf) PROVE TypeOK'
    <2> DEFINE f == write_file(fs, id, buf)
               w == write_at[INODE_NUM]
               c == [fs |-> fs, inum |-> id, data |-> buf]
    <2>1. INODE_NUM \in Levels /\ id \in Nat /\ buf \in Seq(Nat)
      BY <1>1, CallTypes, SizesAssumption DEF Levels, Files, Inums
    <2>2. w \in [DataCall -> FsType]
      BY <2>1, WriteAtDepth
    <2>3. c \in DataCall
      BY <1>1, <2>1 DEF DataCall
    <2>4. f = w[c]
      BY DEF write_file
    <2>5. Reply(f, held, <<"put", id, buf>>)
      BY <1>4 DEF put
    <2> HIDE DEF w, c, f
    <2>6. f \in FsType
      BY <2>2, <2>3, <2>4
    <2> QED BY <1>1, <1>2, <2>5, <2>6
  <1>5. ASSUME NEW id \in Files, remove(id) PROVE TypeOK'
    <2> DEFINE f == remove_file(fs, id)
               w == remove_at[INODE_NUM]
               c == [fs |-> fs, inum |-> id]
    <2>1. INODE_NUM \in Levels /\ id \in Nat
      BY <1>1, SizesAssumption DEF Levels, Files, Inums
    <2>2. w \in [FileCall -> FsType]
      BY <2>1, RemoveAtDepth
    <2>3. c \in FileCall
      BY <1>1, <2>1 DEF FileCall
    <2>4. f = w[c]
      BY DEF remove_file
    <2>5. Reply(f, held \ {id}, <<"remove", id>>)
      BY <1>5 DEF remove
    <2> HIDE DEF w, c, f
    <2>6. f \in FsType /\ held \ {id} \subseteq Inums
      BY <1>1, <2>2, <2>3, <2>4
    <2> QED BY <1>2, <2>5, <2>6
  <1>6. ASSUME NEW id \in Files, NEW size \in Sizes, set_attr_call(id, size) PROVE TypeOK'
    <2> DEFINE f == set_attr(fs, id, size)
    <2>1. id \in Inums /\ size \in Nat
      BY <1>1, CallTypes DEF Files
    <2>2. f \in FsType
      BY <1>1, <2>1, SetAttrTyped
    <2>3. Reply(f, held, <<"set_attr", id, size>>)
      BY <1>6 DEF set_attr_call
    <2> HIDE DEF f
    <2> QED BY <1>1, <1>2, <2>2, <2>3
  <1>7. CASE UNCHANGED vars
    BY <1>7 DEF vars, TypeOK
  <1> QED BY <1>3, <1>4, <1>5, <1>6, <1>7 DEF Next

LEMMA InvStep == ZeroOrShallow /\ Inv /\ [Next]_vars => Inv'
  <1> SUFFICES ASSUME ZeroOrShallow, Inv, [Next]_vars PROVE Inv'
    OBVIOUS
  <1>1. TypeOK' /\ fs \in FsType /\ held \subseteq Inums /\ Sound(fs, held)
        /\ (Shallow => Flat(fs))
    BY TypeStep DEF Inv, TypeOK
  <1>2. /\ held \subseteq Live(fs) /\ Live(fs) \subseteq Inums
        /\ Marked(fs) /\ Apart(fs) /\ \A id \in Files : id \in held
    BY <1>1 DEF Sound, Live, Files
  <1>3. ASSUME NEW f, f \in FsType, NEW h, NEW r, Reply(f, h, r),
               f.status = "ok" => Sound(f, h) /\ (Shallow => Flat(f))
        PROVE  Inv'
    <2>1. CASE f.status = "ok" /\ fs' = f /\ held' = h
      BY <1>1, <1>3, <2>1 DEF Inv
    <2>2. CASE fs' = [fs EXCEPT !.status = f.status] /\ held' = held
      <3> DEFINE why == f.status
      <3>1. why \in StatusType
        BY <1>3, FsParts
      <3>2. fs' = [fs EXCEPT !.status = why]
        BY <2>2
      <3> HIDE DEF why
      <3>3. Sound([fs EXCEPT !.status = why], held)
        BY <1>1, <3>1, Died
      <3>4. Flat(fs) => Flat([fs EXCEPT !.status = why])
        <4>1. [fs EXCEPT !.status = why]
                = [used |-> fs.used, disk |-> fs.disk, inode |-> fs.inode, status |-> why]
          BY <1>1, FsParts
        <4> QED BY <4>1 DEF Flat
      <3> QED BY <1>1, <2>2, <3>2, <3>3, <3>4 DEF Inv
    <2> QED BY <1>3, <2>1, <2>2, ReplyCases
  <1>4. ASSUME NEW type \in Types, create(type) PROVE Inv'
    <2> DEFINE f == alloc_inode(fs, type)
               id == find_free_inode(fs)
    <2>1. type \in {T_DIR, T_FILE, T_LNK}
      BY CallTypes
    <2>2. f \in FsType
      BY <1>1, <2>1, TakeInode
    <2>3. f.status = "ok" => Sound(f, held \cup {id}) /\ (Shallow => Flat(f))
      BY <1>1, <2>1, Created, FlatCreate
    <2>4. Reply(f, held \cup {id}, <<"create", id, type>>)
      BY <1>4 DEF create
    <2> HIDE DEF f, id
    <2> QED BY <1>3, <2>2, <2>3, <2>4
  <1>5. ASSUME NEW id \in Files, NEW buf \in Payloads, put(id, buf) PROVE Inv'
    <2> DEFINE f == write_file(fs, id, buf)
    <2>1. id \in held /\ id \in Live(fs) /\ buf \in Seq(Nat)
      BY <1>2, CallTypes
    <2>2. Reply(f, held, <<"put", id, buf>>)
      BY <1>5 DEF put
    <2>3. f \in FsType /\ (f.status = "ok" => Grown(fs, {id}, f))
      BY <1>1, <1>2, <2>1, WriteFile
    <2>4. f.status = "ok" /\ Shallow => Flat(f)
      <3>1. Shallow => Len(buf) <= CAP
        BY DEF Shallow
      <3> QED BY <1>1, <1>2, <2>1, <3>1, FlatPut
    <2> HIDE DEF f
    <2>5. f.status = "ok" => Sound(f, held)
      BY <1>1, <2>1, <2>3, Put
    <2> QED BY <1>3, <2>2, <2>3, <2>4, <2>5
  <1>6. ASSUME NEW id \in Files, remove(id) PROVE Inv'
    <2> DEFINE f == remove_file(fs, id)
    <2>1. id \in held /\ id \in Inums
      BY <1>2
    <2>2. Reply(f, held \ {id}, <<"remove", id>>)
      BY <1>6 DEF remove
    <2>3. f \in FsType /\ (f.status = "ok" => Shrunk(fs, {id}, f))
      BY <1>1, <1>2, <2>1, RemoveFile
    <2> HIDE DEF f
    <2>4. f.status = "ok" => Sound(f, held \ {id}) /\ (Shallow => Flat(f))
      BY <1>1, <2>1, <2>3, Removed, FlatRemove
    <2> QED BY <1>3, <2>2, <2>3, <2>4
  <1>7. ASSUME NEW id \in Files, NEW size \in Sizes, set_attr_call(id, size) PROVE Inv'
    <2> DEFINE f == set_attr(fs, id, size)
    <2>1. id \in Inums
      BY <1>2
    <2>2. f \in FsType /\ Sized(fs, id, f) /\ SubsIn(f, id) \subseteq SubsIn(fs, id)
          /\ (Shallow => Flat(f))
      BY <1>1, <2>1, SetAttrSized DEF Sized
    <2>3. Reply(f, held, <<"set_attr", id, size>>)
      BY <1>7 DEF set_attr_call
    <2> HIDE DEF f
    <2>4. Sound(f, held)
      BY <1>1, <2>1, <2>2, Resizes
    <2> QED BY <1>3, <2>2, <2>3, <2>4
  <1>8. CASE UNCHANGED vars
    <2>1. fs' = fs /\ held' = held
      BY <1>8 DEF vars
    <2> QED BY <1>1, <2>1 DEF Inv
  <1> QED BY <1>4, <1>5, <1>6, <1>7, <1>8 DEF Next

(* Every call, whatever it is given and wherever it fails, leaves a file   *)
(* system of the right shape: no id of a block or inode runs out of its    *)
(* table, at any depth of files and for any sizes set.                     *)
THEOREM TypeCorrect == Spec => []TypeOK
  <1>1. Init => TypeOK
    BY InitInv DEF Inv
  <1>2. TypeOK /\ [Next]_vars => TypeOK'
    BY TypeStep
  <1> QED BY <1>1, <1>2, PTL DEF Spec

LEMMA InvAlways == ZeroOrShallow => (Spec => []Inv)
  <1> SUFFICES ASSUME ZeroOrShallow PROVE Spec => []Inv
    OBVIOUS
  <1>1. Init => Inv
    BY InitInv
  <1>2. Inv /\ [Next]_vars => Inv'
    BY InvStep
  <1> QED BY <1>1, <1>2, PTL DEF Spec

(* alloc_block, write_file, remove_file and free_block together: while     *)
(* files are only created, written, emptied and removed, no block is given *)
(* to two slots, and none is given away that a slot still names.           *)
THEOREM BlocksBelongToOneSlot == ZeroOrShallow => (Spec => []BlocksExclusive)
  <1>1. Inv => BlocksExclusive
    BY InvImplies
  <1> QED BY <1>1, InvAlways, PTL

(* write_file and remove_file: the inodes of a table are live files of one *)
(* table only, and no id that a client was given is ever among them.       *)
THEOREM TablesAreTheirOwn == ZeroOrShallow => (Spec => []SubInodesPrivate)
  <1>1. Inv => SubInodesPrivate
    BY InvImplies
  <1> QED BY <1>1, InvAlways, PTL
=============================================================================
