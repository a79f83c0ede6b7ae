---------------------------- MODULE Directories -----------------------------
(***************************************************************************)
(* The directories of inode_manager.cc, as operators on the file system    *)
(* state fs of InodeManager: a directory has one block for each entry, and *)
(* one that outgrows its inode goes on in the directories of its table.    *)
(***************************************************************************)
EXTENDS InodeManager

(* One block per entry, the inum and then the name.                        *)
Entry == [inum : Nat, name : Nat]
entry(inum, name) == [ZeroBlock EXCEPT ![1] = inum, ![2] = name]
insert[bufs \in Seq(Seq(Entry))] == FlattenSeq(bufs)

(* A table's inode that is no directory any more contributes nothing.      *)
read_dir(fs, inum) ==
    LET read[i \in Nat] ==
            LET ino == fs.inode[i]
                subs == table(fs, ino)
            IN IF i \notin Inums \/ ino.type # T_DIR THEN <<>>
               ELSE [k \in 1 .. Len(direct(ino)) |->
                        LET buf == fs.disk[direct(ino)[k]] IN [inum |-> buf[1], name |-> buf[2]]]
                    \o insert[[k \in 1 .. Len(subs) |-> read[subs[k]]]]
    IN read[inum]

(* Past NDIRECT entries the entry goes to the first inode of the table     *)
(* that has a direct slot left, or to a new one.  No block is allocated    *)
(* for the table: the slot that should name it holds 0, so it is block 0.  *)
RECURSIVE add_to_dir(_, _, _, _)
add_to_dir(fs, parent_inum, inum, name) ==
    LET ino == fs.inode[parent_inum]
        id == find_free_block(fs)
        inum_buf == fs.disk[ino.blocks[NDIRECT]]
        i == Min({k \in 1 .. NINDIRECT : \/ inum_buf[k] = 0
                                         \/ fs.inode[inum_buf[k]].size < NDIRECT
                                         \/ k = NINDIRECT})
        sub == find_free_inode(fs)
        grown == [ino EXCEPT !.size = MinOf(@ + 1, NDIRECT + 1)]
    IN IF parent_inum \notin Inums \/ ino.type # T_DIR THEN fs
       ELSE IF ino.size < NDIRECT
       THEN IF id = 0 THEN die(fs, "bad_alloc")
            ELSE put_inode(write_block(alloc_block(fs), id, entry(inum, name)),
                           parent_inum, [grown EXCEPT !.blocks[ino.size] = id])
       ELSE IF inum_buf[i] = 0
       THEN put_inode(write_block(add_to_dir(alloc_inode(fs, T_DIR), sub, inum, name),
                                  ino.blocks[NDIRECT], [inum_buf EXCEPT ![i] = sub]),
                      parent_inum, grown)
       ELSE put_inode(add_to_dir(fs, inum_buf[i], inum, name), parent_inum, grown)

read_blockid(fs, inum) ==
    LET read[i \in Nat] ==
            LET ino == fs.inode[i]
                subs == table(fs, ino)
            IN IF i \notin Inums THEN <<>>
               ELSE direct(ino) \o merge[[k \in 1 .. Len(subs) |-> read[subs[k]]]]
    IN read[inum]

(* Sets entry index to block_id, and shrinks the directory when that is 0. *)
(* ok says whether the entry was found, inum what the caller's variable    *)
(* holds afterwards.  Entry NDIRECT is in neither branch; the table is not *)
(* written back when its first inode is freed.                             *)
RECURSIVE set_ino_block_id(_, _, _, _, _)
set_ino_block_id(fs, parent_inum, index, block_id, auto_free) ==
    LET ino == fs.inode[parent_inum]
        set == [ino EXCEPT !.blocks[index] = block_id,
                           !.size = IF block_id = 0 THEN @ - 1 ELSE @]
        subs == table(fs, ino)
        try(i) == set_ino_block_id(fs, subs[i + 1], (index - (i + 1) * NDIRECT) % UINT,
                                   block_id, TRUE)
        hits == {i \in 0 .. Len(subs) - 1 : try(i).ok}
        hit == try(Min(hits))
        last == ino.blocks[NDIRECT]
        missed == [fs |-> fs, ok |-> FALSE, inum |-> parent_inum]
    IN IF parent_inum \notin Inums \/ ino.type # T_DIR THEN missed
       ELSE IF index < MinOf(ino.size, NDIRECT)
       THEN IF set.size = 0 /\ auto_free
            THEN [fs |-> free_inode(fs, parent_inum), ok |-> TRUE, inum |-> 0]
            ELSE [fs |-> put_inode(fs, parent_inum, set), ok |-> TRUE, inum |-> parent_inum]
       ELSE IF ino.size > NDIRECT /\ index > NDIRECT /\ hits # {}
       THEN [fs |-> IF Min(hits) = 0 /\ hit.inum = 0
                    THEN put_inode(free_block(hit.fs, last), parent_inum,
                                   [ino EXCEPT !.blocks[NDIRECT] = 0, !.size = NDIRECT])
                    ELSE hit.fs,
             ok |-> TRUE, inum |-> parent_inum]
       ELSE missed

(* Frees the block of inum's entry, and says which entry that was and      *)
(* which block and entry are the last.  An inum that is not there is       *)
(* "found" past the end; without any entry there is no last one to read.   *)
free_and_find_last(fs, parent_inum, inum) ==
    LET ids == read_blockid(fs, parent_inum)
        at == SelectInSeq(ids, LAMBDA id : fs.disk[id][1] = inum)
    IN IF parent_inum \notin Inums \/ fs.inode[parent_inum].type # T_DIR
       THEN [fs |-> fs, index |-> 0, last_block_id |-> 0, last_block_index |-> 0]
       ELSE IF ids = <<>>
       THEN [fs |-> die(fs, "segv"), index |-> 0, last_block_id |-> 0, last_block_index |-> 0]
       ELSE [fs |-> IF at = 0 THEN fs ELSE free_block(fs, ids[at]),
             index |-> IF at = 0 THEN Len(ids) ELSE at - 1,
             last_block_id |-> Last(ids), last_block_index |-> Len(ids) - 1]

(* The last entry's block takes the place of the removed one, and then the *)
(* last entry goes.                                                        *)
remove_from_dir_no_move(fs, parent_inum, inum) ==
    LET r == free_and_find_last(fs, parent_inum, inum)
    IN set_ino_block_id(r.fs, parent_inum, r.last_block_index, 0, FALSE).fs
remove_from_dir(fs, parent_inum, inum) ==
    LET r == free_and_find_last(fs, parent_inum, inum)
        moved == set_ino_block_id(r.fs, parent_inum, r.index, r.last_block_id, FALSE).fs
    IN set_ino_block_id(moved, parent_inum, r.last_block_index, 0, FALSE).fs
=============================================================================
