---------------------------- MODULE InodeManager ----------------------------
(***************************************************************************)
(* The inode layer of inode_manager.cc as operators on the file system     *)
(* state fs: files and directories kept in inodes with NDIRECT direct      *)
(* slots and one slot for a table of further inodes, each of which again   *)
(* is a file or a directory of this kind.                                  *)
(*                                                                         *)
(* Below it is the pool of blocks that BlockManager is proved to be, with  *)
(* the data blocks renumbered from 1.  The unit of data is a cell, which   *)
(* stands for a byte of a file and for a uint32_t of a table, so a table   *)
(* has as many entries as a block has cells.  0 is the NUL byte.  Times    *)
(* are left out.                                                           *)
(*                                                                         *)
(* Nothing in the program catches an exception, so a throw or a NULL       *)
(* dereference ends the process: fs.status says which, and what else an    *)
(* operator that fails has done to fs no longer matters.                   *)
(***************************************************************************)
EXTENDS Integers, Sequences, FiniteSets, SequencesExt

CONSTANTS BLOCK_SIZE,   \* cells of a block
          NDIRECT,      \* direct slots of an inode
          NDATA,        \* blocks alloc_block can return
          INODE_NUM     \* inodes in the table

ASSUME SizesAssumption ==
    /\ BLOCK_SIZE \in Nat /\ BLOCK_SIZE > 1
    /\ NDIRECT \in Nat \ {0}
    /\ NDATA \in Nat
    /\ INODE_NUM \in Nat \ {0}

NINDIRECT == BLOCK_SIZE
CAP == NDIRECT * BLOCK_SIZE
DataBlocks == 1 .. NDATA
Inums == 1 .. INODE_NUM

T_DIR == 1
T_FILE == 2
T_LNK == 3

(* uint32_t arithmetic wraps at a value no index of these instances comes  *)
(* near; 2^32 itself is beyond TLC's integers.                             *)
UINT == 2^20

ZeroBlock == [k \in 1 .. BLOCK_SIZE |-> 0]
ZeroInode == [type |-> 0, size |-> 0, blocks |-> [k \in 0 .. NDIRECT |-> 0]]
FsType == [used   : SUBSET DataBlocks,
           disk   : [0 .. NDATA -> [1 .. BLOCK_SIZE -> Nat]],
           inode  : [Inums -> [type : {0, T_DIR, T_FILE, T_LNK}, size : 0 .. NDIRECT + 1,
                               blocks : [0 .. NDIRECT -> 0 .. NDATA]]],
           status : {"ok", "bad_alloc", "segv"}]

MinOf(a, b) == IF a < b THEN a ELSE b
blocks_of(n) == (n + BLOCK_SIZE - 1) \div BLOCK_SIZE

(* inode.size counts the slots in use: a table counts as one, however much *)
(* it holds.                                                               *)
inode_size_uncapped(nblocks) == nblocks
inode_size(nblocks) == MinOf(nblocks, NDIRECT + 1)

(* What a loop that breaks at the first 0 sees of s.                       *)
UpToZero[s \in Seq(Nat)] == LET zeros == {k \in DOMAIN s : s[k] = 0}
                            IN IF zeros = {} THEN s ELSE SubSeq(s, 1, Min(zeros) - 1)

die(fs, why) == IF fs.status = "ok" THEN [fs EXCEPT !.status = why] ELSE fs
-----------------------------------------------------------------------------
(* Blocks.  find_free_block is the id alloc_block returns.                 *)
find_free_block(fs) ==
    LET free == DataBlocks \ fs.used IN IF free = {} THEN 0 ELSE Min(free)

alloc_block_unmarked(fs) == fs
alloc_block(fs) == [fs EXCEPT !.used = @ \cup ({find_free_block(fs)} \ {0})]

write_block(fs, id, buf) == [fs EXCEPT !.disk[id] = buf]

free_block(fs, id) == IF id \in fs.used
                      THEN [fs EXCEPT !.used = @ \ {id}, !.disk[id] = ZeroBlock]
                      ELSE fs

(* free_block on each of ids, in whatever order.                           *)
free_blocks(fs, ids) ==
    [used   |-> fs.used \ ids,
     disk   |-> [b \in 0 .. NDATA |-> IF b \in ids \cap fs.used THEN ZeroBlock ELSE fs.disk[b]],
     inode  |-> fs.inode,
     status |-> fs.status]

(* Inodes.  get_inode's NULL is inum \notin Inums.                         *)
put_inode(fs, inum, ino) == IF inum \in Inums THEN [fs EXCEPT !.inode[inum] = ino] ELSE fs

(* An inode that is free already is left as it is.                         *)
free_inode(fs, inum) == IF inum \notin Inums THEN die(fs, "segv")
                        ELSE IF fs.inode[inum].type = 0 THEN fs
                        ELSE put_inode(fs, inum, ZeroInode)

(* The loop runs on to sb.nblocks, so it dereferences get_inode's NULL     *)
(* before it can return the 0 that alloc_inode tests: alloc_inode dies.    *)
find_free_inode_by_size(fs) ==
    LET free == {i \in Inums : fs.inode[i].type # T_DIR /\ fs.inode[i].size = 0}
    IN IF free = {} THEN 0 ELSE Min(free)
find_free_inode_past_end(fs) ==
    LET free == {i \in Inums : fs.inode[i].type = 0}
    IN IF free = {} THEN INODE_NUM + 1 ELSE Min(free)
find_free_inode(fs) ==
    LET free == {i \in Inums : fs.inode[i].type = 0} IN IF free = {} THEN 0 ELSE Min(free)

alloc_inode(fs, type) ==
    LET id == find_free_inode(fs)
    IN IF type \notin {T_DIR, T_FILE, T_LNK} THEN fs
       ELSE IF id = 0 THEN die(fs, "segv")
       ELSE put_inode(fs, id, [ZeroInode EXCEPT !.type = type])

(* inode_manager(): a zeroed disk with the root directory.                 *)
inode_manager == alloc_inode([used |-> {}, disk |-> [b \in 0 .. NDATA |-> ZeroBlock],
                              inode |-> [i \in Inums |-> ZeroInode], status |-> "ok"], T_DIR)

(* The inums of ino's table.                                               *)
table_off_by_one(fs, ino) ==
    IF ino.size > NDIRECT + 1
    THEN UpToZero[fs.disk[ino.blocks[NDIRECT]]]
    ELSE <<>>
table(fs, ino) ==
    IF ino.size > NDIRECT
    THEN UpToZero[fs.disk[ino.blocks[NDIRECT]]]
    ELSE <<>>

(* The ids of the direct slots in use.                                     *)
direct(ino) == [k \in 1 .. MinOf(ino.size, NDIRECT) |-> ino.blocks[k - 1]]
-----------------------------------------------------------------------------
(* Files.                                                                  *)
strip[s \in Seq(Nat)] == SubSeq(s, 1, Max({0} \cup {k \in DOMAIN s : s[k] # 0}))
merge[bufs \in Seq(Seq(Nat))] == FlattenSeq(bufs)

(* Recursion over a table is written level by level: at level d an inode   *)
(* is worked on with the function of level d - 1 for those in its table.   *)
(* No chain of tables is longer than there are inodes; where one ran in a  *)
(* circle, the recursion of the program would end on its stack.            *)
Levels == 0 .. INODE_NUM

(* Each level drops the trailing NULs of what it returns.                  *)
file_contents(fs) ==
    LET read[d \in Levels] ==
            [i \in Nat |->
                LET ino == fs.inode[i]
                    subs == table(fs, ino)
                IN IF d = 0 \/ i \notin Inums THEN <<>>
                   ELSE strip[merge[[k \in 1 .. Len(direct(ino)) |-> fs.disk[direct(ino)[k]]]
                                    \o [k \in 1 .. Len(subs) |-> read[d - 1][subs[k]]]]]]
    IN read
read_file(fs, inum) == file_contents(fs)[INODE_NUM][inum]

(* Block i of data, filled up with NULs; and the part of data that goes to *)
(* the table's inode i, where the last entry of the table takes the rest.  *)
Chunk(data, i) == [k \in 1 .. BLOCK_SIZE |->
                     IF i * BLOCK_SIZE + k <= Len(data) THEN data[i * BLOCK_SIZE + k] ELSE 0]
Slice_capped(data, i) == SubSeq(data, (i + 1) * CAP + 1, MinOf((i + 2) * CAP, Len(data)))
Slice(data, i) == SubSeq(data, (i + 1) * CAP + 1,
                         IF i < NINDIRECT - 1 THEN MinOf((i + 2) * CAP, Len(data)) ELSE Len(data))

FileCall == [fs : FsType, inum : Nat]
SizeCall == [fs : FsType, inum : Nat, size : Nat]
DataCall == [fs : FsType, inum : Nat, data : Seq(Nat)]

(* Block k of data goes to a new block, and slot k - 1 of ino names it.    *)
write_one(acc, data, k) ==
    LET id == find_free_block(acc.fs)
    IN [fs  |-> IF id = 0 THEN die(acc.fs, "bad_alloc")
                ELSE write_block(alloc_block(acc.fs), id, Chunk(data, k - 1)),
        ino |-> [acc.ino EXCEPT !.blocks[k - 1] = id]]
write_direct(fs, ino, data) ==
    LET done[k \in 0 .. MinOf(blocks_of(Len(data)), NDIRECT)] ==
            IF k = 0 THEN [fs |-> fs, ino |-> ino] ELSE write_one(done[k - 1], data, k)
    IN done

(* A new inode for each entry of the table, which is filled before the     *)
(* next is taken.                                                          *)
entries_of(data) == LET i == MinOf((Len(data) - 1) \div CAP, NINDIRECT - 1)
                    IN IF i = NINDIRECT - 1 THEN NINDIRECT ELSE i
write_sub(write, acc, data, k) ==
    LET sub == find_free_inode(acc.fs)
    IN [fs     |-> write[[fs |-> alloc_inode(acc.fs, T_FILE), inum |-> sub,
                          data |-> Slice(data, k - 1)]],
        inodes |-> [acc.inodes EXCEPT ![k] = sub]]
write_table(write, fs, data) ==
    LET done[k \in 0 .. entries_of(data)] ==
            IF k = 0 THEN [fs |-> fs, inodes |-> ZeroBlock]
            ELSE write_sub(write, done[k - 1], data, k)
    IN done

(* Always into new blocks and new inodes; the slots past the new end keep  *)
(* their ids, and the inode is put last.                                   *)
write_level(write, fs, inum, data) ==
    LET nblocks == blocks_of(Len(data))
        d == write_direct(fs, fs.inode[inum], data)[MinOf(nblocks, NDIRECT)]
        id == find_free_block(d.fs)
        s == write_table(write, alloc_block(d.fs), data)[entries_of(data)]
        ino == [d.ino EXCEPT !.size = inode_size(nblocks)]
    IN IF inum \notin Inums THEN fs
       ELSE IF Len(data) <= CAP THEN put_inode(d.fs, inum, ino)
       ELSE IF id = 0 THEN die(d.fs, "bad_alloc")
       ELSE put_inode(write_block(s.fs, id, s.inodes), inum, [ino EXCEPT !.blocks[NDIRECT] = id])

write_at[d \in Levels] ==
    [c \in DataCall |-> IF d = 0 THEN die(c.fs, "segv")
                        ELSE write_level(write_at[d - 1], c.fs, c.inum, c.data)]
write_file(fs, inum, data) == write_at[INODE_NUM][[fs |-> fs, inum |-> inum, data |-> data]]

(* The inodes of subs are removed one after the other.                     *)
remove_subs(remove, fs, subs) ==
    LET done[k \in 0 .. Len(subs)] ==
            IF k = 0 THEN fs ELSE remove[[fs |-> done[k - 1], inum |-> subs[k]]]
    IN done

(* The direct slots up to the first empty one, in use or not, then the     *)
(* inodes of the table.  The block of the table is not freed.              *)
remove_level(remove, fs, inum) ==
    LET ino == fs.inode[inum]
        slots == UpToZero[[k \in 1 .. NDIRECT |-> ino.blocks[k - 1]]]
        freed == free_blocks(fs, {slots[k] : k \in DOMAIN slots})
        subs == table(freed, ino)
    IN IF inum \notin Inums THEN die(fs, "segv")
       ELSE IF ino.type = 0 THEN fs
       ELSE free_inode(remove_subs(remove, freed, subs)[Len(subs)], inum)

remove_at[d \in Levels] ==
    [c \in FileCall |-> IF d = 0 THEN die(c.fs, "segv")
                        ELSE remove_level(remove_at[d - 1], c.fs, c.inum)]
remove_file(fs, inum) == remove_at[INODE_NUM][[fs |-> fs, inum |-> inum]]

last_non_zero_before_end(fs, id) ==
    Max({0} \cup {k \in 0 .. BLOCK_SIZE - 2 : fs.disk[id][k + 1] # 0})
last_non_zero_element_index_in_block(fs, id) ==
    Max({0} \cup {k \in 0 .. BLOCK_SIZE - 1 : fs.disk[id][k + 1] # 0})

(* The sizes of the inodes in subs added up.                               *)
add_sizes(size, subs) ==
    LET sum[k \in 0 .. Len(subs)] == IF k = 0 THEN 0 ELSE sum[k - 1] + size[subs[k]] IN sum

file_sizes(fs) ==
    LET size[d \in Levels] ==
            [i \in Nat |->
                LET ino == fs.inode[i]
                    subs == table(fs, ino)
                IN IF d = 0 \/ i \notin Inums THEN 0
                   ELSE IF ino.size = 0 THEN 0
                   ELSE IF ino.size < NDIRECT + 1
                   THEN (ino.size - 1) * BLOCK_SIZE
                        + last_non_zero_element_index_in_block(fs, ino.blocks[ino.size - 1]) + 1
                   ELSE CAP + add_sizes(size[d - 1], subs)[Len(subs)]]
    IN size
get_file_size(fs, inum) == file_sizes(fs)[INODE_NUM][inum]

(* Each inode of subs is cut to its share of size.                         *)
truncate_subs(truncate, fs, subs, size) ==
    LET done[k \in 0 .. Len(subs)] ==
            IF k = 0 THEN fs
            ELSE truncate[[fs |-> done[k - 1], inum |-> subs[k],
                           size |-> IF size > k * CAP THEN size - k * CAP ELSE 0]]
    IN done

(* Called with a size above the file's: adds no block, so the slots that   *)
(* the larger inode.size uncovers hold 0 or an id of an earlier write.     *)
(* The blocks given up are zeroed, marked or not.                          *)
truncate_level(truncate, fs, inum, size) ==
    LET ino == fs.inode[inum]
        remain == blocks_of(size)
        ids == {ino.blocks[i] : i \in remain .. MinOf(ino.size, NDIRECT) - 1}
        freed == free_blocks([fs EXCEPT !.disk = [b \in DOMAIN @ |-> IF b \in ids THEN ZeroBlock
                                                                     ELSE @[b]]], ids)
        subs == table(freed, ino)
        done == truncate_subs(truncate, freed, subs, size)[Len(subs)]
    IN IF inum \notin Inums THEN die(fs, "segv")
       ELSE IF size = 0 THEN free_inode(done, inum)
       ELSE put_inode(done, inum, [ino EXCEPT !.size = inode_size(remain)])

truncate_at[d \in Levels] ==
    [c \in SizeCall |-> IF d = 0 THEN die(c.fs, "segv")
                        ELSE truncate_level(truncate_at[d - 1], c.fs, c.inum, c.size)]
truncate_file(fs, inum, size) == truncate_at[INODE_NUM][[fs |-> fs, inum |-> inum, size |-> size]]

(* The slots past the size get new blocks of zeros; a failed alloc_block   *)
(* is not noticed.                                                         *)
pad_direct(fs, ino, final) ==
    LET done[k \in 0 .. MinOf(final, NDIRECT)] ==
            IF k = 0 THEN [fs |-> fs, ino |-> ino]
            ELSE IF k <= ino.size THEN done[k - 1]
            ELSE LET f == done[k - 1].fs
                     id == find_free_block(f)
                 IN [fs  |-> write_block(alloc_block(f), id, ZeroBlock),
                     ino |-> [done[k - 1].ino EXCEPT !.blocks[k - 1] = id]]
    IN done

(* An entry of the table that is 0 stands for a new inode.                 *)
pad_table(pad, fs, type, inums, final) ==
    LET done[k \in 0 .. MinOf((final - 1) \div NDIRECT, NINDIRECT)] ==
            IF k = 0 THEN fs
            ELSE LET f == done[k - 1]
                     len == MinOf(NDIRECT, final - k * NDIRECT) * BLOCK_SIZE
                 IN IF inums[k] # 0 THEN pad[[fs |-> f, inum |-> inums[k], size |-> len]]
                    ELSE pad[[fs |-> alloc_inode(f, type),
                              inum |-> IF type = 0 THEN 0 ELSE find_free_inode(f), size |-> len]]
    IN done

(* Called with a size below the file's: frees no block.  The table read is *)
(* not written back.                                                       *)
padding_level(pad, fs, inum, size) ==
    LET ino == fs.inode[inum]
        final == blocks_of(size)
        d == pad_direct(fs, ino, final)[MinOf(final, NDIRECT)]
        inums == d.fs.disk[d.ino.blocks[NDIRECT]]
        done == IF final > NDIRECT
                THEN pad_table(pad, d.fs, ino.type, inums, final)
                        [MinOf((final - 1) \div NDIRECT, NINDIRECT)]
                ELSE d.fs
    IN IF inum \notin Inums THEN die(fs, "segv")
       ELSE put_inode(done, inum, [d.ino EXCEPT !.size = inode_size(final)])

padding_at[d \in Levels] ==
    [c \in SizeCall |-> IF d = 0 THEN die(c.fs, "segv")
                        ELSE padding_level(padding_at[d - 1], c.fs, c.inum, c.size)]
padding_file(fs, inum, size) == padding_at[INODE_NUM][[fs |-> fs, inum |-> inum, size |-> size]]

set_attr(fs, inum, size) ==
    IF inum \notin Inums THEN die(fs, "segv")
    ELSE LET attr_size == get_file_size(fs, inum)
         IN IF attr_size < size THEN truncate_file(fs, inum, size)
            ELSE IF attr_size > size THEN padding_file(fs, inum, size)
            ELSE fs
=============================================================================
