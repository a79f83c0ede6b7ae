--------------------------- MODULE MCBlockManager ---------------------------
(* BlockManager on a disk of 14 blocks of 4 bits with 2 inodes: data is    *)
(* blocks 9 to 13, whose bits lie in two different bitmap blocks, and the  *)
(* last bitmap block is only partly used.                                  *)
EXTENDS BlockManager

MCContents == {{}, {0, 2}}
=============================================================================
