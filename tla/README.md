# InodeFS in TLA+

InodeFS is a user-space file system. The kernel's requests arrive through FUSE in
`fuse.cc`, become calls of `chfs_client`, then of `extent_client`, and, in the
same process, of `extent_server`, which keeps everything in an `inode_manager`
over a `block_manager` over an array of blocks in memory. A second program,
`extent_smain.cc`, serves the same `extent_server` over the RPC library of the
course, of which the repository has headers, with the templates in them, and a
binary. The modules here model the first stack from the disk to the FUSE
handlers, and of the second the server process, the RPC templates and the queue
of the thread pool.

    fuse.cc            FuseServer, FuseListing   implements  FileTree
    chfs_client.cc     ChfsClient
    extent_client.cc   (adds no step)
    extent_server.cc   ExtentServer   implements  ExtentStore      (proved)
    inode_manager.cc   InodeManager (files), Directories
      block_manager,
      disk             BlockManager   implements  BlockAllocator   (proved)

    extent_smain.cc    ExtentProcess
    rpc/rpc.h          Rpc
    rpc/marshall.h     Marshall
    rpc/fifo.h         Fifo           implements  FifoQueue        (proved)

## Inventory

| component | state | operations | interaction |
|---|---|---|---|
| disk, block layer (`inode_manager.cc`, `.h`) | the blocks; the free bitmap and the inode table lie in them | `alloc_block`, `free_block`, `read_block`, `write_block`, `put_inode` | called by the inode layer only |
| inode layer, files | an inode is a type, a size in slots, `NDIRECT` direct slots and one slot for a table of further inodes | `alloc_inode`, `free_inode`, `read_file`, `write_file`, `remove_file`, `set_attr` (`truncate_file`, `padding_file`), `get_attr` (`get_file_size`) | recursive: the inodes of a table are files themselves |
| inode layer, directories | one block per entry, the same inodes | `read_dir`, `add_to_dir`, `remove_from_dir` (`free_and_find_last`, `set_ino_block_id`) | the inodes of a table are directories themselves |
| extent server and client | none of their own | `create`, `put`, `get`, `getattr`, `set_attr`, `remove`, directory calls | direct calls within one process |
| chfs client | none | `create`, `mkdir`, `ln`, `lookup`, `readdir`, `read`, `write`, `setattr`, `unlink` | several extent calls per operation, no rollback |
| FUSE server | none; the kernel remembers inums, files it has open and offsets in listings | one handler per request | `fuse_session_loop`: one thread, one request at a time |
| extent server process (`extent_smain.cc`) | an `extent_server` shared by all RPC threads, no lock | `get`, `getattr`, `put`, `remove` | threads of the RPC library |
| bounded queue (`rpc/fifo.h`, `thr_pool.h`) | the jobs, the threads asleep on two condition variables | `enq`, `deq` | one mutex; jobs go to the threads of the pool |
| RPC templates (`rpc/rpc.h`, `marshall.h`) | the client's xid and waiting callers, messages under way | `call`, `call_m`, the handlers made by `reg`, `<<` and `>>` | untyped messages; `call1` and `dispatch` are in the binary |

What is hard in this code, and so what the properties are about:

- The layout. Bitmap, inode table and data share one array and are kept apart by
  integer division alone.
- Lifetimes. Inodes are freed by zeroing them, blocks by a bit; slots past
  `inode.size` keep ids of blocks that may since belong to someone else.
- Depth. A file or directory that outgrows an inode continues in inodes taken
  from the same pool as the inums given to clients, to any depth. The
  boundaries (exactly full, one over, full table) are where indices are off.
- Exhaustion. Running out of blocks or inodes ends the process in the middle of
  an operation: nothing catches the exceptions.
- Composite operations. `unlink` frees the inode before it looks for the entry
  by that inum; `write` cuts the file to nothing before it puts it back.
- Names that outlive what they name. Inums are reused, with generation 0, while
  the kernel still writes to the file that had one; a listing continues at an
  offset into a buffer that is built anew for each request.
- Threads. The handlers of `extent_smain.cc` share bitmap, inodes and blocks
  without a lock; `fifo` wakes one thread per signal, and it may be one that
  finds nothing to do.
- Untyped messages. The two sides of an RPC each have their own idea of a
  procedure's types, and a call may be given up on while its answer is on its
  way.

There is no persistence (the disk is memory), so no crash recovery, and no
concurrency in the mounted system.

## Modules

**BlockManager** has one variable `disk` for `disk::blocks`, each block the set of
its bits that are 1, and `ret`, the result of `alloc_block`. `is_free`,
`mark_bit` and `unmark_bit` go through `BBLOCK` as the code does, `put_inode`
through `IBLOCK`. The actions are the four writers of the disk. `write_block`'s
guard states how the inode layer calls it: on blocks it was given, on block 0
(the id in a slot that was never filled) and, in `truncate_file`, with zeros on
ids it may have freed before.
**BlockAllocator** is the promise: a set of used blocks, their contents, the
inode table, block 0.

**InodeManager** translates the inode layer as operators from a file system state
`fs` to the next one, on top of the pool that BlockManager is proved to be (data
blocks renumbered from 1). Recursion over a table of inodes is written level by level:
`write_at[d]` is the function that `write_file` computes when no chain of tables is
longer than `d`, `write_level` is the body of `write_file` with the function of the level
below for its recursive call, and `write_file` is the function of level `INODE_NUM`;
likewise `read_file` (`file_contents[d]`), `get_file_size` (`file_sizes[d]`),
`remove_file`, `truncate_file` and `padding_file`. A loop is a
recursive function of its counter. So the proofs can go through both by induction.
**Directories** adds the directory operations; the two that change directories at any
depth are RECURSIVE operators. In both, a cell stands for one byte of a file and for one `uint32_t` of a
table; hence `NINDIRECT = BLOCK_SIZE`. `fs.status` is `"ok"` until an operation
throws `std::bad_alloc` or dereferences NULL, which ends the process. Unsigned
subtraction in `set_ino_block_id` wraps at `UINT = 2^20`, which stands for 2^32:
no index of an instance comes near either.

**ExtentServer** has the variables `fs`, `held` (ids a client was given and has
not removed), `req` (the last call answered) and `calls`. One action per call
that changes state; `get` and `getattr` are operators. **ExtentStore** is the
promise: extents that only the call on them changes.

**ChfsClient** composes the operations of the inode layer as `chfs_client.cc`
does. **FuseServer** makes each handler that changes state an action, and the
handlers that only answer operators. `held` are the inums the kernel knows, `rep`
the last request with its answer. The kernel asks for unlink only after a lookup
that found something other than a directory, and calls `write` and `setattr` on
files; those are the guards. `mknod` and `create` differ only in how the reply
is sent, and are one action. `gone` are the files unlinked while open: the kernel
goes on with `write` and `setattr` on their inums, whose inodes are free, until a
`create` is answered with the same inum. A handler whose call throws ends the process and with it
the disk, so `Reply` keeps only the status then. **FileTree** is the promise: a tree of directories
whose names each stand for one node, and files that hold what was written. `part` are the ids
that a node has taken to keep its content in, here the inodes of its table and below
(`Below`). What is done to an unlinked file shows in nothing, unless a file has taken its
id for its table: then that file, and no other node, may hold anything afterwards
(`Orphan`). This much weaker than POSIX it has to be, for the code does it (`doc_orphan`).

**FuseListing** adds the listing of a directory to FuseServer: `dir` is the
kernel's open directory with its offset and the entries it has been given.
`fuseserver_readdir_page` is one request, in which `dirbuf_add` builds the buffer
of all entries, each with the offset of the next, and `reply_buf_limited` sends
the bytes there is room for; the kernel drops an entry that was cut off.

**ExtentProcess** has the shared bitmap block `used`, the blocks `data` and the
inode table `itable`, and for each thread of the RPC pool the request it runs
with its locals (`th`). A step is one `read_block` or `write_block`: testing a bit,
reading the bitmap block, writing it back, writing a data block, reading or
writing an inode. The copy of a block is one step (a torn `memcpy` is finer than
that; no property here relies on half a block being old). `content` is a history
variable, and so is `raced`, which says whether the requests have ever been other than `Apart`:
two of them between the test of a bit and the end of its being written (`Marking`), or
two puts or removes under way on one extent. `create` is not among the registered procedures, so only the root's
inode has a type, and a put goes to an inode that counts as free. Extents fit the
direct slots, and all bits lie in one bitmap block, as those of neighbouring
blocks do (a bitmap block of the real disk has 4096). `getattr` is left out: it changes nothing.

**Fifo** has the queue `q_`, its limit `max_`, the calls under way and the two
condition variables as sets of sleeping threads. `m_` is held from the entry of a
call to its return except in `pthread_cond_wait`, so a step is one turn of the
loop in `enq` or `deq`. `signal` removes some sleeping thread, if there is one;
`spurious_wakeup` may remove one at any time. Callers are `addObjJob`, blocking or
not, and the pool's threads, which only take jobs. **FifoQueue** is the promise:
a bounded first-in first-out queue with calls and returns, and no sleeping.

**Marshall** has a message as a buffer of cells with a write position, and a
reader with its position and its `ok`. An int is one cell, an `extentid_t` two,
`attr` five, a string its length and then its characters. The header is written
last, over the front. **Rpc** has the client's threads in `calls_`, requests and
replies under way as sets, so in any order, `answer` as what `call` returned, and
histories of what was sent and run. `call`, `fn` and `call_m` translate the
templates of every arity as one, over the list of argument types. `call1` (which gives the
call its xid and packs the header), `dispatch`, `got_pdu` and `give_up` stand for the binary: one run per request, the reply to
the caller whose xid it carries, or a timeout at any moment before that.

`MC*` modules hold the instances' constants. `BlockManagerProofs`, `ExtentServerProofs`,
`ExtentStoreProofs`, `FifoProofs`, `ExtentProcessProofs` and `RpcProofs`
hold the proofs, and `NaturalsFacts` the facts about numbers that they share.

## Runs that pass

| run | shows |
|---|---|
| `blocks` | On 14 blocks of 4 bits with 2 inodes: the disk keeps its shape, a free data block reads as zeros, no bit outside the data blocks is ever set, and the block layer implements the pool. |
| `extent_depths` | Files of 2, 7 and 25 cells created, overwritten, cut to 0 and removed in any order of up to 7 calls, on a disk that fills up: no block is in two slots, the inodes of a table are live, in no other table and never a client's id, `getattr`'s size is `get`'s length, and the server implements ExtentStore. |
| `extent_resize` | `set_attr` to sizes 0, 1, 4, 6 and 7 on files of 2 and 5 cells: whatever a resize does to its own file (see the findings), blocks stay exclusive and other files keep their content. |
| `fuse` | create, mkdir, symlink, write at offsets 0 and 3, truncation to 0 and unlink over two names per directory, in any order of up to 6 requests, with inodes running out, files that need a table, and writes and truncations through the inums of files unlinked while open, also when a create or another file's table has taken the inum: names are unique, every node has exactly one entry, the answers of lookup, readdir, getattr and read agree with each other, and the file system implements FileTree. |
| `fuse_grow` | One directory growing from nothing through its table until inodes run out, listed meanwhile with 7 bytes to a reply and entries of 3 or 4: no entry is lost or doubled, a listing shows each entry that was there when it began exactly once and nothing that is not there, and FileTree is implemented. |
| `fifo` | Two producers, two pool threads, four jobs, limits 0 (none), 1 and 2: the limit holds; while a thread sleeps there are enough awake for every item or free slot; the queue implements FifoQueue; a thread waiting for what is there is served, and each job is taken. Deadlock is checked. |
| `process` | Two threads, each with any puts, removes and gets that interleave at every access to the disk: as long as the requests were always `Apart`, a block a put has taken is in no inode and in no other put, and a get during which its own extent was let alone returns what that was last given. |
| `rpc` | Two client threads, two calls out of six, among them one with its arguments in the wrong order, one with an argument too narrow and one with the wrong result type: methods get the arguments of the call, a wrong message is refused or consumed whole, a caller gets the answer of its own run however late others come, only a wrong result type makes a client abort, and vectors and maps read back. |

Bounds. With `BLOCK_SIZE = 3` and `NDIRECT = 2` the direct slots hold 6 cells; 7
cells need a table with one inode, 13 fill the table's entries so that the last
inode is empty, and 25 put a table below the table. These are the boundaries of
`write_file`'s two loops, and the recursion does nothing new below the second
level. `NDATA` and `INODE_NUM` are small enough that the blocks and the inodes
run out within `MaxCalls`, and large enough that one file of each depth, and two
shallow ones, fit. The passing directory runs do not unlink from a directory
with more than `NDIRECT` entries, the passing resize run uses files without a
table, and the passing runs write text without NULs (in `fuse` after a gap of up to 3): beyond that the code does not do what it
promises, which is what the violation runs and the list of other behaviour below show. In `fuse` a write of 4 cells at offset 3
makes a file of 7 cells, which has a table; two names keep
directories within `NDIRECT` entries, so an unlinked inum is taken for the table of a file
but never for that of a directory. `fuse_grow` has a directory with a table, and creates
only: no unlink, no second directory, no write.
`fuse_grow` lists entries of two sizes so that a reply ends within an entry, at
its end, and past the last. In `fifo` both producers can sleep while both
consumers are awake and the reverse, and a woken thread can find its slot or item
gone; two of each are what a lost wakeup takes. `process` has three puts and removes and
any number of gets: an extent of two
blocks put over one of one block, or the reverse, leaves a stale slot, and four
blocks run out. Two threads are what a race takes; the theorems are for any number. In `rpc` two calls are enough for one to be late when the other
waits. `MaxCalls` bounds
the length of a behaviour and a failed allocation ends the process, so the
configurations of these runs say `CHECK_DEADLOCK FALSE`; `blocks` checks for
deadlock.

Fairness. Only `Fifo` states it, and only for the pool: a thread that is awake and
inside `enq` or `deq` gets the mutex in the end (`WF` of one turn of the loop), and
a pool thread, whose body is a loop around `takeJob`, comes back for the next job
(`WF` of `takeJob`). Nothing is assumed of producers, which may never call again,
nor of spurious wakeups, so `WaitingIsServed` and `JobsAreTaken` hold because of the
signals. In the mounted system each request is one terminating call of one
thread, so there is no schedule that fairness could be about.

## Runs that find a disagreement

Each of these states what a comment or a test of the repository says; the code
does something else. The counterexamples are short and can be replayed by hand.

| run | the code does |
|---|---|
| `doc_reuse` | `set_attr` uses `truncate_file` to grow and `padding_file` to shrink, and so frees an inode that a file's table still lists; another file's put takes it, and its data shows in the first file. |
| `doc_listed_in_one` | the tables of all large directories are block 0, so they share entries. |
| `doc_orphan` | a file that grows takes the inode of a file unlinked while open for its table, and a write through the inum of the unlinked one changes it. |
| `doc_race` | two puts of the stand-alone server both find a block free before either marks it, and both take it. |

Other behaviour that the models keep and no run is about: `write_file` never frees
the blocks it replaces; with `truncate_file` and `padding_file` the wrong way round in `set_attr`, a
file set to 0 and then to 1 shows its old bytes again; NULs that fill one inode of a
table vanish on reading, so a write far past the end of a file is not read back where
it was written; `set_ino_block_id` skips index `NDIRECT`, so an unlink from a
directory of `NDIRECT + 1` entries lists its last name twice, and when it frees a directory
inode the table is not written back, and a later create is answered OK and its entry lost;
`padding_file` writes zeros to block 0 when no block is free; `set_attr` does not
reach the size asked for within the last block, NULs at the end of a file are not
part of its size, `remove_file` keeps the block of the table, `find_free_inode`
dereferences NULL when every inode is taken (`status = "segv"`) although
`alloc_inode` tests for 0, and `chfs_client::unlink` returns OK for a name that
is not there although `fuse.cc` asks for ENOENT.

Left out of the models: `read_file` writes `buf[BLOCK_SIZE]`, one past its buffer on the
stack (`inode_manager.cc:254`), and reads `(*buf_out)[adj_size - 1]` also of an empty
file, where that is index -1 (`inode_manager.cc:295`). `read_file` here is what it returns
when neither does harm.

## Proofs

`BlockManagerProofs` proves for every `NBLOCKS`, `NINODES`, `BPB` and `Contents`
that satisfy `GeometryAssumption` (a block has at least one bit, there is an
inode, the disk has room for one data block, and what is written fits a block):

- `TypeCorrect`, `FreeBlocksAreZero`, `OnlyDataIsMarked`: the invariants of run
  `blocks`;
- `Refinement`: `Spec => ImplementsPool`. This is what entitles InodeManager to
  start from a pool of blocks.

The inductive invariant is `TypeOK /\ FreeBlocksZero /\ OnlyDataMarked`.
`FreeBlocksZero` alone is not enough for the refinement of `alloc_block`, and
is needed for that of a write of zeros through a stale id, which must be a
stutter of the pool. The argument rests on the layout: `DivMod` and
`DivMonotone` give what the provers need about `\div` and `%`, `Layout` shows
that bitmap blocks, inode blocks, data blocks and block 0 are pairwise different,
`BitInjective` that two blocks never share a bit, and `MarkEffect`,
`UnmarkEffect` and `WriteEffect` say what each primitive does to `is_free` of
every block. The steps of `Next` then follow one by one.

`ExtentServerProofs` proves for any sizes of blocks, inodes, disk and inode table
(`SizesAssumption`), any types and any payloads (`CallsAssumption`):

- `TypeCorrect`: TypeOK of run `extent_depths`, for all calls and all sizes set;
- `BlocksBelongToOneSlot` and `TablesAreTheirOwn`: `BlocksExclusive` and
  `SubInodesPrivate`, for files of any depth of tables.

The last two have the hypothesis `ZeroOrShallow`: either set_attr only cuts to nothing,
as in run `extent_depths`, or no put is too large for the direct slots, as in
`extent_resize`, and set_attr may ask for any size. A client with both is not served well:
`set_attr` grows with `truncate_file`, which frees what a table still lists (`doc_reuse`).

Neither invariant is inductive by itself: `remove_file` frees the blocks of what a table
lists, so blocks stay apart only if tables do, and what a table lists is in a block.
`Sound(fs, held)` says both, for inodes of every type and for slots past the size too:
what inodes in use name is marked (`Marked`) and in one slot (`Apart`), a table lists files
in use that no client holds (`ListsFiles`) and that no other table lists
(`TablesApart`), and what a client holds is in use. Within a call this does not hold: the
table of a file being written is in no slot yet, and a file being removed still names
blocks that are free.

So the proof is by contract. `Grown(f, S, g)` is what writing the inodes `S` from
`f` to `g` guarantees: blocks marked in `f` are as they were, inodes in use are as they
were but for `S`, and whatever else a slot or a table of `g` names was free in `f`, once.
`Shrunk` is the same for `remove_file`: what is given up belonged to the inode or to one
below it. Contracts compose (one loop turn after another), a level keeps
its contract if the level below does (`WriteLevelGrown` and its counterpart), so by
induction over the level `write_file` and `remove_file` keep theirs, and a call that
keeps its contract keeps `Sound`. Neither contract says that a call succeeds: where
blocks or inodes run out the process ends, and `Reply` keeps only the status, so of
such a call nothing is proved.

For shallow files the invariant also says that they have no table (`Flat`: slot `NDIRECT` names
block 0, and that is empty), so that `set_attr` to any size changes the size of the inode and nothing else
(`FlatSetAttr`): a file's size lies in its last block (`FlatSize`), so `truncate_file`,
called to grow, finds no block beyond the new size to give up, and `padding_file`, called
to cut, no slot before it that is not in use.

`ExtentStoreProofs` goes on from there to what `get` and `getattr` return:

- `OthersStayUntouched`: the action property `OthersUntouched` of run `extent_resize`, if
  `ZeroOrShallow`, for payloads with NULs too;
- `SizeIsLength`: `AttrSizeIsLength` of run `extent_depths`;
- `ExtentsAreTheStore`: `Spec => ImplementsStore`, the refinement of that run.

The last two are for `Sizes \subseteq {0}` and payloads without NULs (`NulFree`), as in
the run. Otherwise they are false: a file that grows by `set_attr` does not read as the store
says (it shows what it held before it was cut), NULs at the end of a file are not read back, and those that fill one inode of a table
vanish in the middle of it.

The contracts say where what was written lies, so three things are left. First, what a
read depends on: the inode, its blocks, and the inodes of its table, down to any level.
A set of inodes that contains what its tables list (`Closed`) and that a call leaves
alone together with its blocks (`Undisturbed`) reads as before (`Frame`, by induction over the level of
`read_file`); `GrownFrame` and `ShrunkFrame` get that from the contracts, and
`TablesApart` is why the inodes below one file are not those of another. Second, that
a file that was written reads as what was given: `Delivers(write_at[k], k)` says that
level `k` of `write_file` leaves an inode from which level `k` of `read_file` reads the data, and level
`k` of `get_file_size` its length. `LevelHolds` carries this up one level. The blocks hold the data chunk by chunk and the
last one is filled up with NULs, which `read_file` strips (`SmallRead`, `SmallLevel`); the table holds the
inums of the inodes written so far, followed by 0, in every turn of the loop
(`Filled`, `TableHolds`), and each of those inodes holds its slice and is not disturbed
by the turns after it (`LargeLevel`). The size is found in the last block in
use alone, which is where NUL-free data ends (`LargeSize`). Third, the calls: `Effects` says
of every call what changes and that all else is `Kept`, and with it the state the client
sees (`Kinds`, `Contents`) makes a step of ExtentStore, or none
(`CallSeen`, `FailSeen`). The invariant is `StoreInv`: `Inv` of ExtentServerProofs and
that the size of every file held is its length; the refinement needs the second half for
`set_attr`, which does nothing if the size it finds is the one asked for.

`FifoProofs` proves for any finite sets of threads, any items and any limits
(`ThreadsAssumption`):

- `TypeCorrect`, `QueueBounded`, `NoLostWakeup`: the invariants of run `fifo`;
- `FifoImplementsQueue`: `Spec => ImplementsQueue`; a wait and a wakeup are stutters
  of FifoQueue, and a turn that returns is its one step.

The two halves of `NoOneOversleeps`, named `ItemsHaveTakers` and
`SlotsHaveFillers`, are inductive together with `TypeOK`, and are what make one
signal per push and per pop enough. They are about counts: a push adds an
item and wakes a consumer if one is asleep, a pop takes an item and the consumer
that was awake for it, a wait happens only with nothing to take. So the proof is
by the cardinality of the awake threads (`CountOne`, `AwakeFinite`,
`AwakeStaysFinite`) and one lemma for each kind of step (`EnqStep`, `DeqStep`,
`OtherStep`).

`ExtentProcessProofs` proves for any number of threads, extents and blocks
(`ProcessAssumption`) and with no other hypothesis:

- `TypeCorrect`, races or not;
- `RaceFreeTakesOnlyFree`: `RaceFreeTakes`, that `TakenWasFree` holds until `raced`;
- `RaceFreeReaders`: `RaceFreeReads`, the same of `ReadersUndisturbed`.

After a race both are false, as `doc_race` shows of the first. What the theorems say is that a
race has nowhere else to begin: a lock around the test and the change of a bit, and one around each put and remove of
an extent, are enough for puts and removes; writing a block, storing an inode and reading
those of other extents need none. The code has no lock at all. Freeing a block counts as one
change with the zeros written to it, since the bit is cleared first.

A step is a fraction of a call, so the inductive invariant (`Inv`, and `RaceFreeInv` says that it
holds until `raced`) says at each `pc` what the thread has done so far: which blocks of its local
inode are fresh (`PutInv`, `Fresh`), and in no other put (`PutsApart`), which slots a remove has
freed already although the inode still names them (`RemoveInv`; the others are `Live`), that
all blocks in live slots are marked and in one slot (`NamedMarked`, `SlotsExclusive`), what
an extent holds that nobody works on (`ContentInv`) and what a get has copied
(`GetInv`). The step of a thread writing the bitmap back is where `Apart` is needed: the copy
that it writes differs from the bitmap in its own bit only.

`RpcProofs` proves for any procedures, argument lists, values and
numbers of threads the invariants `TypeOK`, `MethodGetsArguments`, `MessageConsumed`,
`AnswerIsOwn`, `OnlyWrongResultAborts` and `ContainersReadBack` of run `rpc`. `ProcsAssumption` and
`CallsAssumption` say that what is sent has the type it is sent as, and that what a
method returns is not negative (`xxstatus` is an enum from 0), so that it is never taken
for one of the library's failures, which are negative. They do not say that the
two sides agree on types. The inductive
invariant ties every request, run, reply and answer under way to the call it came
from by xid. What that leaves is that values read back as they were written:
`PutValue` and `GetValue` for one value, `PackHeader` and `UnpackHeader` for the header
that is written over the front afterwards, and the lemmas on `marshalled` and
`unmarshalled` for a list of arguments, one way (what was written is read back) and the
other (what is read whole must have been written like this, whatever it was written as).

A container in a message is such an argument list that starts with a count
(`SentArgs`, `ListRead`), so it reads back, and a message without its last cell runs out at
some argument (`ArgsCut`). `VectorsReadBack` says so of every vector of
strings, `MapsReadBack` of every finite map of ints to strings, whose keys are
written from the smallest on (`KeyOrder`); `ContainersReadBack` is the instance that the
run checks. The containers are of strings and ints because those are what the
extent protocol has; a vector is added to what its variable held, a map replaces it, and
the mutant `get_map_into` (no `d.clear()`) is told apart.

These lemmas are inductions over data. The library's induction theorems take an
operator as parameter, which the provers cannot instantiate, so `NaturalsFacts` proves
what takes their place: a nonempty set of naturals has a least element (`Least`), so a
property of all positions follows by a smallest counterexample; and a function given
by its value at 0 and by a step exists (`Recursion`), so that a recursive function of
the model satisfies its equation. `Induct` is induction for a set of naturals, which is how
the levels and the loops of ExtentServer are gone through.

Only model-checked:

- the liveness of Fifo (`WaitingIsServed`, `JobsAreTaken`), which needs fairness;
- everything from Directories up (`EntriesUnique`, `AnswersAgree`,
  `ListingComplete`, TypeOK of FuseServer and the refinement of FileTree,
  `ImplementsTree`): RECURSIVE operators are
  outside what the proof system supports, and the properties fail for
  large directories with unlink (`doc_listed_in_one`), so they hold of the instances' bounds.

## Not modelled

- Access, modification and change times; nothing depends on them.
- `get_file_block_num`, `ino_next_block`, `using_blocks`, `n2i`, `filename`:
  no caller.
- `open` and `statfs` only send a reply.
- The bodies of the RPC library that are linked as a binary (`librpc`):
  retransmission, the reply window that makes calls at-most-once, binding,
  connections, the poll manager. Rpc has what the templates rely on, in
  particular that a request is run once.
- `method_thread.h` starts a thread with a heap copy of a method's arguments.
- Files with tables in ExtentProcess; and nothing is claimed of the server process from
  the first race on, beyond what `doc_race` shows.
- Unlinks during a listing: the entry that unlink moves may be skipped.
- `gettime`, `lang/`: a clock for another platform and assertion macros.

## Plan

1. *Done*: BlockManager with BlockAllocator and its proofs; InodeManager,
   ExtentServer with ExtentStore; ChfsClient, FuseServer with FileTree, files
   unlinked while open, FuseListing; ExtentProcess; Fifo with FifoQueue, its
   liveness and its proofs; Marshall and Rpc.
2. *Done*: the theorems of ExtentProcess, Marshall and Rpc.
3. *Done*: `BlocksExclusive` and `SubInodesPrivate` of ExtentServer for files of any
   depth.
4. *Done*: `AttrSizeIsLength`, `OthersUntouched` and the refinement of ExtentStore, with
   `read_file` written level by level too, for payloads without NULs.
