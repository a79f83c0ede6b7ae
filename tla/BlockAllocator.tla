--------------------------- MODULE BlockAllocator ---------------------------
(***************************************************************************)
(* What the block layer promises to the inode layer above it: a pool of    *)
(* data blocks, each either in use or free, that read as zeros whenever    *)
(* they are free; an inode table; and block 0.  Where the bitmap, the      *)
(* table and the data lie on the disk, and how a bit is found, is left to  *)
(* BlockManager, which is shown to implement this specification.           *)
(***************************************************************************)
EXTENDS Integers

CONSTANTS DataBlocks,  \* the ids alloc_block may return
          Inums,       \* the inode numbers that have a place in the table
          Contents,    \* what a caller writes into a block
          Zero         \* the content of a block of zero bytes

VARIABLES used,     \* the data blocks in use
          data,     \* the content of every data block
          inodes,   \* the content of every inode block
          block0,   \* the content of block 0
          ret       \* what the last alloc_block returned

vars == <<used, data, inodes, block0, ret>>

Init == /\ used = {}
        /\ data = [b \in DataBlocks |-> Zero]
        /\ inodes = [i \in Inums |-> Zero]
        /\ block0 = Zero
        /\ ret = 0

(* Some free block, which one is not promised; 0 only if there is none.    *)
Alloc == /\ \/ \E b \in DataBlocks \ used : used' = used \cup {b} /\ ret' = b
            \/ used = DataBlocks /\ ret' = 0 /\ UNCHANGED used
         /\ UNCHANGED <<data, inodes, block0>>

(* A block in use becomes free and is cleared; on any other id nothing.    *)
Free == /\ \E b \in used : /\ used' = used \ {b}
                           /\ data' = [data EXCEPT ![b] = Zero]
        /\ UNCHANGED <<inodes, block0, ret>>

Write == /\ \E buf \in Contents :
              \/ /\ \E b \in used : data' = [data EXCEPT ![b] = buf]
                 /\ UNCHANGED block0
              \/ block0' = buf /\ UNCHANGED data
         /\ UNCHANGED <<used, inodes, ret>>

PutInode == /\ \E i \in Inums, buf \in Contents :
                  inodes' = [inodes EXCEPT ![i] = buf]
            /\ UNCHANGED <<used, data, block0, ret>>

Next == Alloc \/ Free \/ Write \/ PutInode

Spec == Init /\ [][Next]_vars
=============================================================================
