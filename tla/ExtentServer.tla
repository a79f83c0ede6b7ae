---------------------------- MODULE ExtentServer ----------------------------
(***************************************************************************)
(* extent_server.cc over the inode layer, and extent_client.cc, whose      *)
(* methods pass each call on unchanged within the same process: the calls  *)
(* of one client, one at a time.  The directory calls are in FuseServer.   *)
(***************************************************************************)
EXTENDS InodeManager

CONSTANTS Types,      \* what a client creates
          Payloads,   \* what it puts
          Sizes,      \* the sizes it sets
          MaxCalls    \* bound on the calls of a behaviour

ASSUME CallsAssumption ==
    /\ Types \subseteq {T_DIR, T_FILE, T_LNK}
    /\ Payloads \subseteq Seq(Nat)
    /\ Sizes \subseteq Nat

VARIABLES fs,     \* the inode_manager
          held,   \* the ids the client was given and has not removed
          req,    \* the last call answered
          calls   \* how many there were

vars == <<fs, held, req, calls>>

Init == /\ fs = inode_manager
        /\ held = {1}
        /\ req = <<"init">>
        /\ calls = 0

(* A call that dies takes the process with it.                             *)
Reply(f, h, r) ==
    /\ fs.status = "ok" /\ calls < MaxCalls
    /\ calls' = calls + 1
    /\ IF f.status = "ok"
       THEN fs' = f /\ held' = h /\ req' = r
       ELSE fs' = [fs EXCEPT !.status = f.status] /\ UNCHANGED <<held, req>>

(* A file the client may name in a call; the root stays a directory.       *)
Files == held \ {1}

create(type) == LET id == find_free_inode(fs)
                IN Reply(alloc_inode(fs, type), held \cup {id}, <<"create", id, type>>)

put(id, buf) == Reply(write_file(fs, id, buf), held, <<"put", id, buf>>)

get(f, id) == read_file(f, id)

getattr(f, id) == [type |-> f.inode[id].type, size |-> get_file_size(f, id)]

remove(id) == Reply(remove_file(fs, id), held \ {id}, <<"remove", id>>)

set_attr_call(id, size) == Reply(set_attr(fs, id, size), held, <<"set_attr", id, size>>)

Next == \/ \E type \in Types : create(type)
        \/ \E id \in Files, buf \in Payloads : put(id, buf)
        \/ \E id \in Files : remove(id)
        \/ \E id \in Files, size \in Sizes : set_attr_call(id, size)

Spec == Init /\ [][Next]_vars
-----------------------------------------------------------------------------
(* The file system state has its shape and the client's ids are inums.     *)
TypeOK == fs \in FsType /\ held \subseteq Inums

(* The slots of a live inode that hold an id, also the ones past its size. *)
Slots == {s \in Inums \X (0 .. NDIRECT) :
            /\ fs.inode[s[1]].type # 0
            /\ fs.inode[s[1]].blocks[s[2]] # 0}
BlockOf(s) == fs.inode[s[1]].blocks[s[2]]

(* A block belongs to one slot of one inode, and is marked for as long as  *)
(* it does: no put, set_attr or remove, at any depth of the tables, gives  *)
(* a block away that a slot still names.                                   *)
BlocksExclusive ==
    /\ \A s, t \in Slots : BlockOf(s) = BlockOf(t) => s = t
    /\ \A s \in Slots : BlockOf(s) \in fs.used

(* The inodes in the table of a live file, one level down.                 *)
SubsOf(i) == LET subs == table(fs, fs.inode[i]) IN {subs[k] : k \in DOMAIN subs}

(* write_file takes its further inodes from the pool create takes ids      *)
(* from: an inode in a table is live, is in no other table and is never an *)
(* id a client holds, so no client call reaches into another's file.       *)
SubInodesPrivate ==
    \A i \in Inums : fs.inode[i].type = T_FILE =>
        /\ \A j \in SubsOf(i) : fs.inode[j].type = T_FILE /\ j \notin held
        /\ \A j \in Inums \ {i} : fs.inode[j].type = T_FILE => SubsOf(i) \cap SubsOf(j) = {}

(* getattr, which adds up inode sizes and looks for the last byte that is  *)
(* not NUL, agrees with the length of what get returns.                    *)
AttrSizeIsLength == \A i \in Files : getattr(fs, i).size = Len(get(fs, i))

(* The server is the store of ExtentStore: what was put is what get        *)
(* returns, whatever happened to other extents in between.                 *)
Store == INSTANCE ExtentStore
    WITH Ids     <- Inums,
         kind    <- [i \in Inums |-> IF i \in held THEN getattr(fs, i).type ELSE 0],
         content <- [i \in Inums |-> IF i \in held THEN get(fs, i) ELSE <<>>],
         up      <- fs.status = "ok"

ImplementsStore == Store!Spec

(* A call changes no extent but the one it names: nothing is cut short,    *)
(* overwritten or brought back in a file by a set_attr, put or remove of   *)
(* another.                                                                *)
OthersUntouched ==
    [][\A i \in held \cap held' : fs'.status = "ok" /\ i # req'[2] =>
          get(fs', i) = get(fs, i)]_vars
=============================================================================
