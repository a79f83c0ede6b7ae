---------------------------- MODULE BlockManager ----------------------------
(***************************************************************************)
(* The disk and the block layer of inode_manager.cc: an array of blocks    *)
(* laid out as                                                             *)
(*                                                                         *)
(*     0     1     2 .. BBLOCK(NBLOCKS-1)   IBLOCK(1) .. IBLOCK(NINODES)   *)
(*     -     -     free block bitmap        inode table          then data *)
(*                                                                         *)
(* The bitmap is not a table beside the blocks: a bit is read and written  *)
(* through the block that holds it, so the layout arithmetic decides       *)
(* whether marking a block can damage an inode, or an inode the bitmap.    *)
(* The content of a block is the set of its bits that are 1.               *)
(***************************************************************************)
EXTENDS Integers

CONSTANTS NBLOCKS,   \* sb.nblocks: blocks on the disk
          NINODES,   \* sb.ninodes: inodes in the table
          BPB,       \* bits of a block
          Contents   \* the contents the inode layer writes into a block

Bits == 0 .. BPB - 1
Zero == {}
Blocks == 0 .. NBLOCKS - 1
Inums == 1 .. NINODES

(* Block holding inode i (IPB is 1) and block holding the bit of block b.  *)
IBLOCK(i) == NBLOCKS \div BPB + i + 3

BBLOCK_NoOffset(b) == b \div BPB
BBLOCK(b) == b \div BPB + 2

(* alloc_block's first candidate is the block after the last inode's.      *)
first_data == IBLOCK(NINODES) + 1

DataBlocks == {b \in Blocks : b >= first_data}

(* A block has bits, the disk has room for one data block at least, and    *)
(* callers write whole blocks.                                             *)
ASSUME GeometryAssumption ==
    /\ BPB \in Nat \ {0}
    /\ NINODES \in Nat \ {0}
    /\ NBLOCKS \in Nat
    /\ IBLOCK(NINODES) + 1 < NBLOCKS
    /\ Contents \subseteq SUBSET Bits

VARIABLES disk,   \* disk::blocks
          ret     \* what the last alloc_block returned

vars == <<disk, ret>>
-----------------------------------------------------------------------------
(* The bit of block id, in the bitmap block that holds it.                 *)
bit_wide(id) == id % (BPB + 1)
bit(id) == id % BPB

is_free(id) == bit(id) \notin disk[BBLOCK(id)]

mark_bit_overwrite(id) == [disk EXCEPT ![BBLOCK(id)] = {bit(id)}]
mark_bit(id) == [disk EXCEPT ![BBLOCK(id)] = @ \cup {bit(id)}]

unmark_bit(id) == [disk EXCEPT ![BBLOCK(id)] = @ \ {bit(id)}]

Init == disk = [b \in Blocks |-> Zero] /\ ret = 0

(* First fit from first_data; 0 when every data block is marked.           *)
alloc_block ==
    \/ /\ \E id \in DataBlocks :
            /\ is_free(id)
            /\ \A b \in DataBlocks : b < id => ~is_free(b)
            /\ disk' = mark_bit(id)
            /\ ret' = id
    \/ /\ \A b \in DataBlocks : ~is_free(b)
       /\ ret' = 0
       /\ UNCHANGED disk

(* Any id may be given: 0, a table block, or a block that is free already, *)
(* for which the code does nothing.                                        *)
free_block_keep(id) ==
    /\ id >= first_data /\ ~is_free(id)
    /\ disk' = unmark_bit(id)
    /\ UNCHANGED ret
free_block(id) ==
    /\ id >= first_data /\ ~is_free(id)
    /\ disk' = [unmark_bit(id) EXCEPT ![id] = Zero]
    /\ UNCHANGED ret

(* The inode layer writes the blocks it was given by alloc_block, and      *)
(* block 0, the id it finds in a slot that was never filled.  Through an   *)
(* id it kept after free_block it writes only zeros (truncate_file).       *)
write_block(id, buf) ==
    /\ id = 0 \/ (id \in DataBlocks /\ (~is_free(id) \/ buf = Zero))
    /\ disk' = [disk EXCEPT ![id] = buf]
    /\ UNCHANGED ret

(* inode_manager::put_inode, the only writer of the inode table.           *)
put_inode(i, buf) == /\ disk' = [disk EXCEPT ![IBLOCK(i)] = buf]
                     /\ UNCHANGED ret

Next == \/ alloc_block
        \/ \E id \in Blocks : free_block(id)
        \/ \E id \in Blocks, buf \in Contents : write_block(id, buf)
        \/ \E i \in Inums, buf \in Contents : put_inode(i, buf)

Spec == Init /\ [][Next]_vars
-----------------------------------------------------------------------------
(* Every block of the disk holds BPB bits, and alloc_block returns 0 or    *)
(* the id of a data block.                                                 *)
TypeOK == /\ disk \in [Blocks -> SUBSET Bits]
          /\ ret \in {0} \cup DataBlocks

(* A data block whose bit is clear reads as zeros: free_block clears what  *)
(* it frees, and marking another block in the same bitmap block, writing a *)
(* block or putting an inode never changes what it left.  An inode that    *)
(* still names a freed block must not show a dead file's bytes.            *)
FreeBlocksZero == \A b \in DataBlocks : is_free(b) => disk[b] = Zero

(* The bit of block 0, of a bitmap block or of an inode block is never     *)
(* set: the code keeps those blocks out of the pool by the range of        *)
(* alloc_block's loop alone, and free_block refuses them by the same       *)
(* range, so a set bit there could never be cleared.                       *)
OnlyDataMarked == \A b \in Blocks : ~is_free(b) => b \in DataBlocks

(* The layout is sound: through the bitmap and the inode table as they lie *)
(* on the disk, the block layer behaves as the pool of BlockAllocator.     *)
Pool == INSTANCE BlockAllocator
            WITH used   <- {b \in DataBlocks : ~is_free(b)},
                 data   <- [b \in DataBlocks |-> disk[b]],
                 inodes <- [i \in Inums |-> disk[IBLOCK(i)]],
                 block0 <- disk[0]

ImplementsPool == Pool!Spec
=============================================================================
