--------------------------- MODULE ExtentProcess ----------------------------
(***************************************************************************)
(* The stand-alone extent server of extent_smain.cc: get, put and remove,  *)
(* registered with an RPC library that runs each request on a thread of    *)
(* its pool, over one extent_server without a lock.  The handlers are cut  *)
(* at every access to the disk that the threads share: one read_block or   *)
(* write_block is one step.  create is not registered, so the root's inode *)
(* is the only one with a type, and every other extent is written into an  *)
(* inode that counts as free.                                              *)
(*                                                                         *)
(* Extents fit the direct slots; a block's content is one value, 0 when it *)
(* is clear; all bits lie in one bitmap block; IPB is 1, so put_inode      *)
(* replaces the whole block it has read.                                   *)
(***************************************************************************)
EXTENDS Integers, Sequences, FiniteSets, FiniteSetsExt

CONSTANTS Threads,       \* threads of the RPC library's pool
          INODE_NUM,     \* inodes in the table
          NDIRECT,       \* direct slots of an inode
          NDATA,         \* blocks alloc_block can return
          Payloads,      \* what clients put
          MaxCalls       \* bound on the puts and removes of a behaviour

ASSUME ProcessAssumption ==
    /\ IsFiniteSet(Threads) /\ MaxCalls \in Nat
    /\ INODE_NUM \in Nat \ {0} /\ NDIRECT \in Nat \ {0} /\ NDATA \in Nat
    /\ \A buf \in Payloads : buf \in Seq(Nat \ {0}) /\ Len(buf) <= NDIRECT

VARIABLES used,     \* the bitmap block: the data blocks that are marked
          data,     \* the content of the data blocks, and of block 0
          itable,   \* the inode table
          th,       \* per thread, the request it runs and where it is in it
          calls,    \* puts and removes so far
          up,       \* the process has not died of an exception
          content,  \* history: what each extent was last given
          raced     \* history: whether two requests have met

vars == <<used, data, itable, th, calls, up, content, raced>>

DataBlocks == 1 .. NDATA
Inums == 1 .. INODE_NUM
T_DIR == 1
ZeroInode == [type |-> 0, size |-> 0, blocks |-> [k \in 1 .. NDIRECT |-> 0]]

(* A thread's locals: the request, the step of it that comes next, the     *)
(* inode it read, loop index i, the candidate block b, the bitmap block it *)
(* read, the blocks a get has read; alone says that no put or remove of    *)
(* the same extent has been in progress since the request began.           *)
Idle == [op |-> "idle", id |-> 1, buf |-> <<>>, pc |-> "idle", ino |-> ZeroInode,
         i |-> 1, b |-> 1, bits |-> {}, out |-> <<>>, alone |-> FALSE]

Init == /\ used = {}
        /\ data = [b \in 0 .. NDATA |-> 0]
        /\ itable = [[i \in Inums |-> ZeroInode] EXCEPT ![1].type = T_DIR]
        /\ th = [t \in Threads |-> Idle]
        /\ calls = 0
        /\ up = TRUE
        /\ content = [i \in Inums |-> <<>>]
        /\ raced = FALSE

Mutates(t) == th[t].op \in {"put", "remove"}

(* In alloc_block or free_block, between the test of the bit and the end.  *)
Marking(t) == th[t].pc \in {"mark_bit", "mark_write", "unmark_bit", "unmark_write", "clear_block"}

(* No two requests are where a lock would keep them apart, had the server  *)
(* one for the bitmap and one for each extent.                             *)
Apart == \A t, u \in Threads :
            t # u => /\ ~(Marking(t) /\ Marking(u))
                     /\ ~(Mutates(t) /\ Mutates(u) /\ th[t].id = th[u].id)

(* What a step leaves of the shared state, and where its thread goes on.   *)
Goto(t, r) == th' = [th EXCEPT ![t] = r]
At(t, pc) == up /\ th[t].pc = pc
Shared == <<used, data, itable, calls, up, content>>

strip(s) == SubSeq(s, 1, Max({0} \cup {k \in DOMAIN s : s[k] # 0}))
-----------------------------------------------------------------------------
(* The library hands a request to an idle thread.                          *)
dispatch_get(t, id) ==
    /\ At(t, "idle")
    /\ Goto(t, [Idle EXCEPT !.op = "get", !.id = id, !.pc = "get_inode",
                   !.alone = ~\E u \in Threads : Mutates(u) /\ th[u].id = id])
    /\ UNCHANGED Shared

dispatch(t, op, id, buf) ==
    /\ At(t, "idle") /\ calls < MaxCalls
    /\ calls' = calls + 1
    /\ th' = [u \in Threads |->
                IF u = t
                THEN [Idle EXCEPT !.op = op, !.id = id, !.buf = buf, !.pc = "get_inode"]
                ELSE IF th[u].id = id THEN [th[u] EXCEPT !.alone = FALSE] ELSE th[u]]
    /\ UNCHANGED <<used, data, itable, up, content>>

(* get_inode, the first step of each handler.  remove_file goes no further *)
(* with an inode that has no type.                                         *)
get_inode(t) ==
    /\ At(t, "get_inode")
    /\ LET r == th[t]
           ino == itable[r.id]
           next == CASE r.op = "get" -> "read_block"
                     [] r.op = "put" -> "is_free"
                     [] r.op = "remove" -> IF ino.type = 0 THEN "idle" ELSE "free_block"
       IN Goto(t, IF next = "idle" THEN Idle ELSE [r EXCEPT !.ino = ino, !.pc = next])
    /\ UNCHANGED Shared

(* read_file: one block after the other, then the NULs at the end go.      *)
read_block(t) ==
    /\ At(t, "read_block")
    /\ LET r == th[t]
       IN Goto(t, IF r.i <= r.ino.size
                  THEN [r EXCEPT !.out = Append(@, data[r.ino.blocks[r.i]]), !.i = @ + 1]
                  ELSE [r EXCEPT !.out = strip(@), !.pc = "reply"])
    /\ UNCHANGED Shared

reply(t) == At(t, "reply") /\ Goto(t, Idle) /\ UNCHANGED Shared
-----------------------------------------------------------------------------
(* write_file: a free block for each block of buf, found by alloc_block's  *)
(* scan.  Without one the exception ends the process.                      *)
is_free_past_end(t) ==
    /\ At(t, "is_free") /\ th[t].i <= Len(th[t].buf)
    /\ LET r == th[t]
       IN Goto(t, IF r.b \notin used THEN [r EXCEPT !.pc = "mark_bit"]
                                     ELSE [r EXCEPT !.b = @ + 1])
    /\ UNCHANGED Shared
is_free(t) ==
    /\ At(t, "is_free") /\ th[t].i <= Len(th[t].buf)
    /\ LET r == th[t]
       IN IF r.b \in DataBlocks
          THEN /\ Goto(t, IF r.b \notin used THEN [r EXCEPT !.pc = "mark_bit"]
                                             ELSE [r EXCEPT !.b = @ + 1])
               /\ UNCHANGED up
          ELSE /\ up' = FALSE
               /\ UNCHANGED th
    /\ UNCHANGED <<used, data, itable, calls, content>>

(* mark_bit and unmark_bit read the bitmap block,                          *)
read_bits(t) ==
    /\ At(t, "mark_bit") \/ At(t, "unmark_bit")
    /\ Goto(t, [th[t] EXCEPT !.bits = used,
                   !.pc = IF @ = "mark_bit" THEN "mark_write" ELSE "unmark_write"])
    /\ UNCHANGED Shared

(* change the bit of their block in that copy and write the block back.    *)
mark_write_not(t) ==
    /\ At(t, "mark_write")
    /\ Goto(t, [th[t] EXCEPT !.pc = "write_block"])
    /\ UNCHANGED Shared
mark_write(t) ==
    /\ At(t, "mark_write")
    /\ used' = th[t].bits \cup {th[t].b}
    /\ Goto(t, [th[t] EXCEPT !.pc = "write_block"])
    /\ UNCHANGED <<data, itable, calls, up, content>>

write_block(t) ==
    /\ At(t, "write_block")
    /\ LET r == th[t]
       IN /\ data' = [data EXCEPT ![r.b] = r.buf[r.i]]
          /\ Goto(t, [r EXCEPT !.ino.blocks[r.i] = r.b, !.i = @ + 1, !.b = 1, !.pc = "is_free"])
    /\ UNCHANGED <<used, itable, calls, up, content>>

(* Once every block is written the inode is put, with the new size.        *)
put_inode(t) ==
    /\ At(t, "is_free") /\ th[t].i > Len(th[t].buf)
    /\ LET r == th[t]
       IN /\ itable' = [itable EXCEPT ![r.id] = [r.ino EXCEPT !.size = Len(r.buf)]]
          /\ content' = [content EXCEPT ![r.id] = r.buf]
    /\ Goto(t, Idle)
    /\ UNCHANGED <<used, data, calls, up>>
-----------------------------------------------------------------------------
(* remove_file frees the direct slots up to the first empty one; on a      *)
(* block that is free already free_block does nothing.                     *)
LastSlot(r) == r.i <= NDIRECT => r.ino.blocks[r.i] = 0

free_block(t) ==
    /\ At(t, "free_block") /\ ~LastSlot(th[t])
    /\ LET r == th[t]
       IN Goto(t, IF r.ino.blocks[r.i] \in used
                  THEN [r EXCEPT !.b = r.ino.blocks[r.i], !.pc = "unmark_bit"]
                  ELSE [r EXCEPT !.i = @ + 1])
    /\ UNCHANGED Shared

unmark_write(t) ==
    /\ At(t, "unmark_write")
    /\ used' = th[t].bits \ {th[t].b}
    /\ Goto(t, [th[t] EXCEPT !.pc = "clear_block"])
    /\ UNCHANGED <<data, itable, calls, up, content>>

clear_block(t) ==
    /\ At(t, "clear_block")
    /\ data' = [data EXCEPT ![th[t].b] = 0]
    /\ Goto(t, [th[t] EXCEPT !.i = @ + 1, !.pc = "free_block"])
    /\ UNCHANGED <<used, itable, calls, up, content>>

(* free_inode reads the inode again and clears it if it still has a type.  *)
free_inode(t) ==
    /\ At(t, "free_block") /\ LastSlot(th[t])
    /\ Goto(t, IF itable[th[t].id].type # 0 THEN [th[t] EXCEPT !.pc = "clear_inode"] ELSE Idle)
    /\ UNCHANGED Shared

clear_inode_keep(t) ==
    /\ At(t, "clear_inode")
    /\ itable' = [itable EXCEPT ![th[t].id].type = 0]
    /\ content' = [content EXCEPT ![th[t].id] = <<>>]
    /\ Goto(t, Idle)
    /\ UNCHANGED <<used, data, calls, up>>
clear_inode(t) ==
    /\ At(t, "clear_inode")
    /\ itable' = [itable EXCEPT ![th[t].id] = ZeroInode]
    /\ content' = [content EXCEPT ![th[t].id] = <<>>]
    /\ Goto(t, Idle)
    /\ UNCHANGED <<used, data, calls, up>>
-----------------------------------------------------------------------------
Next == /\ \E t \in Threads :
              \/ \E id \in Inums : \/ dispatch_get(t, id)
                                   \/ \E buf \in Payloads : dispatch(t, "put", id, buf)
                                   \/ dispatch(t, "remove", id, <<>>)
              \/ get_inode(t) \/ read_block(t) \/ reply(t)
              \/ is_free(t) \/ read_bits(t) \/ mark_write(t) \/ write_block(t) \/ put_inode(t)
              \/ free_block(t) \/ unmark_write(t) \/ clear_block(t) \/ free_inode(t) \/ clear_inode(t)
        /\ raced' = (raced \/ ~Apart')

Spec == Init /\ [][Next]_vars
-----------------------------------------------------------------------------
(* Only data blocks are marked or named by an inode, on the disk and in    *)
(* the copies the threads have of it; no thread leaves its loops' bounds.  *)
InodeType == [type : {0, T_DIR}, size : 0 .. NDIRECT, blocks : [1 .. NDIRECT -> 0 .. NDATA]]
ThreadType ==
    [op : {"idle", "get", "put", "remove"}, id : Inums, buf : Payloads \cup {<<>>},
     pc : {"idle", "get_inode", "read_block", "reply", "is_free", "mark_bit", "mark_write",
           "write_block", "free_block", "unmark_bit", "unmark_write", "clear_block",
           "clear_inode"},
     ino : InodeType, i : 1 .. NDIRECT + 1, b : 1 .. NDATA + 1,
     bits : SUBSET DataBlocks, out : Seq(Nat), alone : BOOLEAN]
TypeOK ==
    /\ used \subseteq DataBlocks
    /\ data \in [0 .. NDATA -> Nat]
    /\ itable \in [Inums -> InodeType]
    /\ th \in [Threads -> ThreadType]
    /\ calls \in 0 .. MaxCalls
    /\ up \in BOOLEAN
    /\ content \in [Inums -> Payloads \cup {<<>>}]
    /\ raced \in BOOLEAN

(* inode_manager.cc, alloc_block: "Allocate a free disk block."  A block   *)
(* that a put has taken is not in a slot of any inode, nor taken by        *)
(* another put, until that put is done.  Slots that a remove has given     *)
(* back, in an inode it has yet to clear, do not count.                    *)
Taken(t) == IF th[t].op # "put" THEN {}
            ELSE {th[t].ino.blocks[k] : k \in 1 .. th[t].i - 1}
                 \cup (IF th[t].pc = "write_block" THEN {th[t].b} ELSE {})
FreedBy(r, i, k) ==
    /\ r.pc \in {"free_block", "unmark_bit", "unmark_write", "clear_block", "clear_inode"}
    /\ r.id = i
    /\ k < r.i \/ (k = r.i /\ r.pc = "clear_block")
Live(i, k) == \A t \in Threads : ~FreedBy(th[t], i, k)
Named == {itable[s[1]].blocks[s[2]] : s \in {s \in Inums \X (1 .. NDIRECT) : Live(s[1], s[2])}} \ {0}
TakenWasFree ==
    \A t \in Threads : /\ Taken(t) \cap Named = {}
                       /\ \A u \in Threads \ {t} : Taken(t) \cap Taken(u) = {}

(* What a get reads, block by block, beside puts and removes of other      *)
(* extents is what its extent was last given, although the blocks of       *)
(* others are freed, taken and written meanwhile.                          *)
ReadersUndisturbed ==
    \A t \in Threads : th[t].pc = "reply" /\ th[t].alone => th[t].out = content[th[t].id]

(* The two hold of puts, removes and gets that interleave at every access  *)
(* to the disk, for as long as no two requests have met in alloc_block or  *)
(* free_block, nor two put or remove the same extent: all that can go      *)
(* wrong in the rest of the handlers begins there.                         *)
RaceFreeTakes == ~raced => TakenWasFree
RaceFreeReads == ~raced => ReadersUndisturbed
=============================================================================
