---------------------------- MODULE FuseListing -----------------------------
(***************************************************************************)
(* A directory is listed through several readdir requests.  Each request   *)
(* builds the buffer of all entries anew and replies with the part of it   *)
(* that starts at the offset the kernel asks for, so a listing is spread   *)
(* over states of the directory that differ.  Sizes and offsets are bytes  *)
(* of that buffer.                                                         *)
(***************************************************************************)
EXTENDS FuseServer

CONSTANT MaxReply   \* the bytes the kernel takes in one reply

VARIABLE dir   \* the kernel's open directory

listingVars == <<fs, held, gone, rep, calls, dir>>

(* A header and the name, rounded up: names differ in length.              *)
fuse_dirent_size(name) == 3 + (name % 2)

ASSUME ReplyAssumption == \A name \in Names : fuse_dirent_size(name) <= MaxReply

(* An entry is added with the offset that the one after it will have.      *)
dirbuf_add_own_offset(b, e) ==
    Append(b, [name |-> e.name, inum |-> e.inum, at |-> IF b = <<>> THEN 0 ELSE Last(b).end,
               end |-> (IF b = <<>> THEN 0 ELSE Last(b).end) + fuse_dirent_size(e.name),
               off |-> IF b = <<>> THEN 0 ELSE Last(b).end])
dirbuf_add(b, e) ==
    LET oldsize == IF b = <<>> THEN 0 ELSE Last(b).end
        size == oldsize + fuse_dirent_size(e.name)
    IN Append(b, [name |-> e.name, inum |-> e.inum, at |-> oldsize, end |-> size, off |-> size])

(* The bytes of the buffer from off on that the reply has room for, and of *)
(* those the entries that are complete: the kernel drops the one cut off.  *)
reply_buf_limited(b, off, maxsize) ==
    SelectSeq(b, LAMBDA d : d.at >= off /\ d.end <= off + maxsize)

readdir_reply(ino, size, off) ==
    reply_buf_limited(FoldLeft(dirbuf_add, <<>>, fuseserver_readdir(ino)), off, size)

NoDirectory == [ino |-> 0, off |-> 0, got |-> <<>>, since |-> {}, eof |-> TRUE]

ListingInit == Init /\ dir = NoDirectory

EntriesOf(d) == Range(fuseserver_readdir(d))

(* The kernel opens a directory; fuse.cc has no handler and keeps nothing. *)
opendir(d) ==
    /\ dir.eof
    /\ dir' = [ino |-> d, off |-> 0, got |-> <<>>, since |-> EntriesOf(d), eof |-> FALSE]
    /\ UNCHANGED vars

(* One request.  The listing goes on from the offset of the last entry, and*)
(* ends with the reply that holds none.                                    *)
fuseserver_readdir_page ==
    /\ ~dir.eof /\ fs.status = "ok"
    /\ LET part == readdir_reply(dir.ino, MaxReply, dir.off)
       IN dir' = IF part = <<>> THEN [dir EXCEPT !.eof = TRUE]
                 ELSE [dir EXCEPT !.off = Last(part).off,
                                  !.got = @ \o [k \in DOMAIN part |->
                                                  [inum |-> part[k].inum, name |-> part[k].name]]]
    /\ UNCHANGED vars

(* One directory tree in which files are created while others are listed.  *)
Growing == /\ \E parent \in Dirs, name \in Names : fuseserver_create(parent, name)
           /\ UNCHANGED dir

ListingNext == Growing \/ fuseserver_readdir_page \/ \E d \in Dirs : opendir(d)

ListingSpec == ListingInit /\ [][ListingNext]_listingVars
-----------------------------------------------------------------------------
(* A listing that is interrupted by creates shows nothing that is not in   *)
(* the directory and no entry twice, and once it has ended it has shown    *)
(* every entry that was there when it began: an entry cut off at the end   *)
(* of one reply starts the next, wherever the boundary falls.              *)
ListingComplete ==
    /\ Range(dir.got) \subseteq (IF dir.ino = 0 THEN {} ELSE EntriesOf(dir.ino))
    /\ \A j, k \in DOMAIN dir.got : j # k => dir.got[j].inum # dir.got[k].inum
    /\ dir.eof => dir.since \subseteq Range(dir.got)
=============================================================================
