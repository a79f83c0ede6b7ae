----------------------------- MODULE FuseServer -----------------------------
(***************************************************************************)
(* The handlers of fuse.cc over chfs_client.  main runs fuse_session_loop, *)
(* the loop of one thread, so a handler is one step.  The kernel names     *)
(* directories and files by the inums it was given; it asks for unlink     *)
(* only after a lookup found a name that is not a directory.               *)
(* A file may be unlinked while it is open: the kernel goes on using its   *)
(* inum, until a create is answered with the same one (with generation 0   *)
(* as ever, so that the two are one to the kernel from then on).           *)
(* The handlers that answer from the state alone are operators here.       *)
(***************************************************************************)
EXTENDS ChfsClient

CONSTANTS Names,      \* the names in use, numbers other than 0
          Targets,    \* what symbolic links point to
          Data,       \* what is written
          Offsets,    \* where in a file
          Sizes,      \* what setattr sets
          MaxCalls    \* bound on the calls of a behaviour

VARIABLES fs,     \* the inode_manager
          held,   \* the inums the kernel was given whose names still exist
          gone,   \* the inums of files unlinked while open
          rep,    \* the last call and its answer
          calls   \* how many there were

vars == <<fs, held, gone, rep, calls>>

Root == 1

Init == /\ fs = inode_manager
        /\ held = {Root}
        /\ gone = {}
        /\ rep = <<"init">>
        /\ calls = 0

Dirs == {i \in held : isdir(fs, i)}
Files == {i \in held : isfile(fs, i)}
Links == {i \in held : fs.inode[i].type = T_LNK}

(* The answer r is sent, unless the handler's call ended the process.  The *)
(* files among the inums whose names go stay open.                         *)
Reply(f, h, r) ==
    /\ fs.status = "ok" /\ calls < MaxCalls
    /\ calls' = calls + 1
    /\ IF f.status = "ok"
       THEN fs' = f /\ held' = h /\ rep' = r /\ gone' = (gone \cup (Files \ h)) \ h
       ELSE fs' = [fs EXCEPT !.status = f.status] /\ UNCHANGED <<held, gone, rep>>

(* st_mode and st_size; what is neither file nor directory is a link.      *)
fuseserver_getattr(f, ino) ==
    IF isfile(f, ino) THEN [mode |-> T_FILE, size |-> getfile(f, ino)]
    ELSE IF isdir(f, ino) THEN [mode |-> T_DIR, size |-> 0]
    ELSE [mode |-> T_LNK, size |-> getfile(f, ino)]

(* The inum and its attributes, or ENOENT.                                 *)
ENOENT == [ino |-> 0, attr |-> [mode |-> 0, size |-> 0]]
fuseserver_lookup(parent, name) ==
    LET ino == lookup(fs, parent, name)
    IN IF ino = 0 THEN ENOENT ELSE [ino |-> ino, attr |-> fuseserver_getattr(fs, ino)]

(* The entries of a directory; none for ENOTDIR.                           *)
fuseserver_readdir(ino) == IF isdir(fs, ino) THEN readdir(fs, ino) ELSE <<>>

fuseserver_read(ino, size, off) == read(fs, ino, size, off)

fuseserver_readlink(ino) == read(fs, ino, UINT, 0)

(* Shared by create, mknod, mkdir and symlink: the call, and for a link    *)
(* the write of its target to the new inode.  The answer 0 is EEXIST.      *)
fuseserver_createhelper(parent, name, type, link) ==
    LET r == create(fs, parent, name, type)
        done == IF type = T_LNK THEN write(r.fs, r.ino, 0, link) ELSE r.fs
    IN IF r.ret # "OK" THEN Reply(fs, held, <<"make", parent, name, type, link, 0>>)
       ELSE Reply(done, held \cup {r.ino}, <<"make", parent, name, type, link, r.ino>>)

fuseserver_create(parent, name) == fuseserver_createhelper(parent, name, T_FILE, <<>>)

fuseserver_mkdir(parent, name) == fuseserver_createhelper(parent, name, T_DIR, <<>>)

fuseserver_symlink(parent, name, link) == fuseserver_createhelper(parent, name, T_LNK, link)

fuseserver_write(ino, off, data) ==
    Reply(write(fs, ino, off, data), held, <<"write", ino, off, data, Len(data)>>)

(* With FUSE_SET_ATTR_SIZE; any other request is answered ENOSYS.          *)
fuseserver_setattr(ino, size) ==
    LET f == setattr(fs, ino, size)
    IN Reply(f, held, <<"setattr", ino, size, fuseserver_getattr(f, ino).size>>)

fuseserver_unlink(parent, name) ==
    LET ino == lookup(fs, parent, name)
    IN /\ ino # 0 /\ ~isdir(fs, ino)
       /\ Reply(unlink(fs, parent, name), held \ {ino}, <<"unlink", parent, name>>)

Next == \/ \E parent \in Dirs, name \in Names :
              \/ fuseserver_create(parent, name)
              \/ fuseserver_mkdir(parent, name)
              \/ \E link \in Targets : fuseserver_symlink(parent, name, link)
              \/ fuseserver_unlink(parent, name)
        \/ \E ino \in Files \cup gone :
                              \/ \E off \in Offsets, data \in Data : fuseserver_write(ino, off, data)
                              \/ \E size \in Sizes : fuseserver_setattr(ino, size)

Spec == Init /\ [][Next]_vars
-----------------------------------------------------------------------------
(* The file system state has its shape, and the kernel's inums are inums.  *)
TypeOK == fs \in FsType /\ held \subseteq Inums /\ gone \subseteq Inums \ held

(* The entries readdir lists, with the directory and their place in it.    *)
Entries == UNION {LET ents == fuseserver_readdir(d) IN {<<d, k, ents[k]>> : k \in DOMAIN ents} : d \in Dirs}

(* readdir lists a name once, and every node the kernel holds has exactly  *)
(* one entry in all the directories: moving the last entry into the hole   *)
(* that unlink leaves never doubles, drops or blanks one.                  *)
EntriesUnique ==
    /\ \A p \in Entries : p[3].inum \in held \ {Root} /\ p[3].name \in Names
    /\ \A p, q \in Entries :
          p # q => p[3].inum # q[3].inum /\ (p[1] = q[1] => p[3].name # q[3].name)
    /\ Cardinality(Entries) = Cardinality(held) - 1

(* The answers agree with each other: lookup finds the inode that readdir  *)
(* lists, getattr's size is the length that can be read, and read returns  *)
(* the part of the file asked for and nothing past its end.                *)
AnswersAgree ==
    /\ \A p \in Entries :
          fuseserver_lookup(p[1], p[3].name)
          = [ino |-> p[3].inum, attr |-> fuseserver_getattr(fs, p[3].inum)]
    /\ \A i \in Files \cup Links :
          fuseserver_getattr(fs, i) = [mode |-> fs.inode[i].type, size |-> Len(fuseserver_readlink(i))]
    /\ \A i \in Files, size \in 1 .. CAP, off \in Offsets :
          LET all == fuseserver_readlink(i)
          IN fuseserver_read(i, size, off)
             = [k \in 1 .. (IF off >= Len(all) THEN 0 ELSE MinOf(size, Len(all) - off)) |-> all[off + k]]

(* The mounted file system is the tree of FileTree.                        *)
NamesIn[ents \in Seq(Entry)] ==
    [n \in {ents[k].name : k \in DOMAIN ents} |->
        ents[Min({k \in DOMAIN ents : ents[k].name = n})].inum]

(* The inodes of i's table, of their tables, and so on.                    *)
Below == LET below[d \in Levels] ==
                [i \in Inums |->
                    LET subs == Inums \cap Range(table(fs, fs.inode[i]))
                    IN IF d = 0 THEN {} ELSE subs \cup UNION {below[d - 1][j] : j \in subs}]
         IN below[INODE_NUM]

Tree == INSTANCE FileTree
    WITH Ids     <- Inums,
         kind    <- [i \in Inums |-> IF i \in held THEN fs.inode[i].type ELSE 0],
         names   <- [i \in Inums |-> IF i \in Dirs THEN NamesIn[fuseserver_readdir(i)] ELSE <<>>],
         content <- [i \in Inums |-> IF i \in held \ Dirs THEN fuseserver_readlink(i) ELSE <<>>],
         part    <- [i \in Inums |-> IF i \in held THEN Below[i] ELSE {}],
         up      <- fs.status = "ok"

ImplementsTree == Tree!Spec
-----------------------------------------------------------------------------
(* What comments of fuse.cc say, where the code differs.                   *)
(* readdir: "all the file names / i-numbers pairs in directory @ino".  A   *)
(* node that was created in one directory is not listed in another.        *)
ListedInOneDirectory ==
    \A p, q \in Entries : p[3].inum = q[3].inum => p[1] = q[1]

(* write: "Write @size bytes from @buf to file @ino".  A write through the *)
(* inum of one file changes no other, unlinked files included.             *)
WritesOnlyItsFile ==
    [][\A i \in Files : fs'.status = "ok" /\ rep'[1] = "write" /\ rep'[2] # i
            => read_file(fs', i) = read_file(fs, i)]_vars
=============================================================================
