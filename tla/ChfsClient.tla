----------------------------- MODULE ChfsClient -----------------------------
(***************************************************************************)
(* chfs_client.cc: the file system operations, each a sequence of calls to *)
(* the extent client, which passes them to the inode layer unchanged.      *)
(* Operators on the file system state fs of InodeManager.                  *)
(***************************************************************************)
EXTENDS Directories

(* The predicates on the type that ec->getattr returns, and its size.      *)
isfile(fs, ino) == fs.inode[ino].type = T_FILE
isdir(fs, ino) == fs.inode[ino].type = T_DIR
getfile(fs, ino) == get_file_size(fs, ino)

readdir(fs, dir) == read_dir(fs, dir)

(* The inum of the first entry with the name, 0 when it is not found.      *)
lookup(fs, parent, name) ==
    LET entries == readdir(fs, parent)
        at == SelectInSeq(entries, LAMBDA e : e.name = name)
    IN IF at = 0 THEN 0 ELSE entries[at].inum

(* create, mkdir and ln differ in the type alone: EXIST, or a new inode    *)
(* and then its entry.                                                     *)
create(fs, parent, name, type) ==
    LET ino == find_free_inode(fs)
    IN IF lookup(fs, parent, name) # 0
       THEN [ret |-> "EXIST", fs |-> fs, ino |-> 0]
       ELSE [ret |-> "OK", fs |-> add_to_dir(alloc_inode(fs, type), parent, ino, name), ino |-> ino]

read(fs, ino, size, off) ==
    LET read_str == read_file(fs, ino)
    IN IF Len(read_str) < off THEN <<>>
       ELSE SubSeq(read_str, off + 1, MinOf(off + size, Len(read_str)))

setattr(fs, ino, size) == set_attr(fs, ino, size)

(* The whole file is read, cut to nothing, changed and put back.           *)
write(fs, ino, off, data) ==
    LET read_str == read_file(fs, ino)
        len == IF off + Len(data) > Len(read_str) THEN off + Len(data) ELSE Len(read_str)
        new == [k \in 1 .. len |->
                  IF k > off /\ k <= off + Len(data) THEN data[k - off]
                  ELSE IF k <= Len(read_str) THEN read_str[k] ELSE 0]
    IN write_file(setattr(fs, ino, 0), ino, new)

(* The inode goes before the entry.  A name that is not there is no error. *)
unlink(fs, parent, name) ==
    LET ino == lookup(fs, parent, name)
    IN IF ino = 0 THEN fs ELSE remove_from_dir(remove_file(fs, ino), parent, ino)
=============================================================================
