------------------------ MODULE ExtentProcessProofs -------------------------
(***************************************************************************)
(* The extent server process, for any number of threads, inodes, slots and *)
(* blocks, and any payloads.  Type correctness holds even while requests   *)
(* race.  That a block is taken by one put only, and that a get reads what *)
(* its extent was last given, is proved of any number of puts, removes and *)
(* gets that interleave, until the first time two of them are at the same  *)
(* bit or extent as no lock would let them; DocRace.cfg has what follows   *)
(* then.  So nothing but the bitmap's read-modify-write, with the zeros    *)
(* written to a freed block, and the inode's is in need of a lock.         *)
(***************************************************************************)
EXTENDS ExtentProcess, NaturalsFacts, SequenceTheorems

(* strip drops the zeros at the end of a sequence, and nothing else.       *)
LEMMA StripTyped ==
    ASSUME NEW s \in Seq(Nat)
    PROVE  strip(s) \in Seq(Nat) /\ (s = <<>> \/ s[Len(s)] # 0 => strip(s) = s)
  <1> DEFINE S == {0} \cup {k \in DOMAIN s : s[k] # 0}
  <1>1. /\ S \in SUBSET Nat /\ S # {} /\ Len(s) \in Nat
        /\ \A x \in S : x <= Len(s)
    OBVIOUS
  <1>2. Max(S) \in S /\ \A y \in S : y <= Max(S)
    <2> HIDE DEF S
    <2> QED BY <1>1, Greatest
  <1>3. Max(S) \in 0 .. Len(s)
    BY <1>1, <1>2
  <1>4. ASSUME NEW n \in 0 .. Len(s) PROVE SubSeq(s, 1, n) \in Seq(Nat)
    OBVIOUS
  <1>5. s = <<>> \/ s[Len(s)] # 0 => Len(s) \in S
    OBVIOUS
  <1>6. s = <<>> \/ s[Len(s)] # 0 => Max(S) = Len(s)
    BY <1>1, <1>2, <1>5
  <1>7. SubSeq(s, 1, Len(s)) = s
    OBVIOUS
  <1> QED BY <1>3, <1>4, <1>6, <1>7 DEF strip
-----------------------------------------------------------------------------
(* The steps of a put, and of a remove, after get_inode.                   *)
PutPcs == {"is_free", "mark_bit", "mark_write", "write_block"}
RemovePcs == {"free_block", "unmark_bit", "unmark_write", "clear_block", "clear_inode"}

(* Where a request of each kind can be, and the bounds of its loops there. *)
PcInv(r) ==
    /\ r.pc = "idle" <=> r.op = "idle"
    /\ r.pc = "get_inode" => r.i = 1 /\ r.out = <<>>
    /\ r.op = "get" => r.pc \in {"get_inode", "read_block", "reply"}
    /\ r.op = "put" => r.pc \in {"get_inode"} \cup PutPcs /\ r.buf \in Payloads
    /\ r.op = "remove" => r.pc \in {"get_inode"} \cup RemovePcs
    /\ r.pc = "read_block" => r.i <= r.ino.size + 1
    /\ r.pc \in PutPcs => r.i <= Len(r.buf) + 1
    /\ r.pc \in PutPcs \ {"is_free"} => r.i <= Len(r.buf) /\ r.b \in DataBlocks
    /\ r.pc \in RemovePcs \ {"free_block", "clear_inode"}
         => r.i <= NDIRECT /\ r.b \in DataBlocks /\ r.b = r.ino.blocks[r.i]
TypeInv == TypeOK /\ \A t \in Threads : PcInv(th[t])

(* The values that threads and inodes are reset to.                        *)
LEMMA InodeTyped == ZeroInode \in InodeType /\ Idle \in ThreadType /\ PcInv(Idle)
  <1>1. ZeroInode \in InodeType
    BY ProcessAssumption DEF ZeroInode, InodeType
  <1>2. 1 \in Inums /\ 1 \in 1 .. NDIRECT + 1 /\ 1 \in 1 .. NDATA + 1 /\ <<>> \in Seq(Nat)
    BY ProcessAssumption DEF Inums
  <1>3. Idle \in ThreadType
    BY <1>1, <1>2 DEF Idle, ThreadType
  <1> QED BY <1>1, <1>3 DEF PcInv, Idle, PutPcs, RemovePcs

(* The process starts in a state of these types.                           *)
LEMMA InitTypeInv == Init => TypeInv
  <1> SUFFICES ASSUME Init PROVE TypeInv
    OBVIOUS
  <1> USE DEF Init, TypeInv, TypeOK
  <1>1. itable \in [Inums -> InodeType]
    BY InodeTyped DEF InodeType, T_DIR
  <1>2. /\ used \subseteq DataBlocks /\ calls \in 0 .. MaxCalls
        /\ data \in [0 .. NDATA -> Nat] /\ content \in [Inums -> Payloads \cup {<<>>}]
    BY ProcessAssumption
  <1>3. th \in [Threads -> ThreadType] /\ \A t \in Threads : PcInv(th[t])
    BY InodeTyped
  <1>4. up \in BOOLEAN /\ raced \in BOOLEAN
    OBVIOUS
  <1> QED BY <1>1, <1>2, <1>3, <1>4

(* A step that gives thread t the record r keeps the invariant of threads. *)
LEMMA GotoTyped ==
    ASSUME TypeInv, NEW t \in Threads, NEW r, r \in ThreadType, PcInv(r), Goto(t, r)
    PROVE  th' \in [Threads -> ThreadType] /\ \A u \in Threads : PcInv(th'[u])
  BY DEF TypeInv, TypeOK, Goto

(* Payloads fit the direct slots and hold no zero.                         *)
LEMMA PayloadTyped ==
    ASSUME NEW buf \in Payloads \cup {<<>>}
    PROVE  /\ buf \in Seq(Nat) /\ Len(buf) \in 0 .. NDIRECT
           /\ \A k \in 1 .. Len(buf) : buf[k] \in Nat /\ buf[k] # 0
  <1>0. <<>> \in Seq(Nat \ {0}) /\ Len(<<>>) = 0 /\ NDIRECT \in Nat
    BY ProcessAssumption
  <1>1. buf \in Seq(Nat \ {0}) /\ Len(buf) <= NDIRECT
    <2>1. CASE buf = <<>> BY <1>0, <2>1
    <2>2. CASE buf \in Payloads BY <2>2, ProcessAssumption
    <2> QED BY <2>1, <2>2
  <1>2. Len(buf) \in Nat /\ \A k \in 1 .. Len(buf) : buf[k] \in Nat /\ buf[k] # 0
    BY <1>1
  <1>3. buf \in Seq(Nat)
    BY <1>1
  <1> QED BY <1>1, <1>2, <1>3, ProcessAssumption

(* The bounds of a thread's locals, one by one.                            *)
LEMMA Fields ==
    ASSUME NEW r \in ThreadType
    PROVE  /\ r.id \in Inums /\ r.i \in Nat /\ r.i >= 1 /\ r.i <= NDIRECT + 1
           /\ r.b \in Nat /\ r.b >= 1 /\ r.b <= NDATA + 1
           /\ Len(r.buf) \in Nat /\ Len(r.buf) <= NDIRECT
           /\ r.ino \in InodeType /\ r.ino.size \in Nat /\ r.ino.size <= NDIRECT
           /\ r.ino.blocks \in [1 .. NDIRECT -> 0 .. NDATA]
           /\ r.out \in Seq(Nat)
  <1>1. Len(r.buf) \in 0 .. NDIRECT
    BY PayloadTyped DEF ThreadType
  <1>2. r.i \in 1 .. NDIRECT + 1 /\ r.b \in 1 .. NDATA + 1 /\ r.ino \in InodeType
        /\ r.id \in Inums /\ r.out \in Seq(Nat)
    BY DEF ThreadType
  <1>3. r.ino.size \in 0 .. NDIRECT /\ r.ino.blocks \in [1 .. NDIRECT -> 0 .. NDATA]
    BY <1>2 DEF InodeType
  <1> QED BY <1>1, <1>2, <1>3, ProcessAssumption

(* Every step of every request stays within the types.                     *)
LEMMA StepTypeInv == TypeInv /\ [Next]_vars => TypeInv'
  <1> SUFFICES ASSUME TypeInv, [Next]_vars PROVE TypeInv'
    OBVIOUS
  <1>r. raced' \in BOOLEAN
    BY DEF TypeInv, TypeOK, Next, vars
  <1> USE <1>r
  <1>0. UNCHANGED vars => TypeInv'
    BY DEF vars, TypeInv, TypeOK, PcInv
  <1>1. ASSUME NEW t \in Threads, NEW id \in Inums, dispatch_get(t, id) PROVE TypeInv'
    <2> DEFINE a == ~\E u \in Threads : Mutates(u) /\ th[u].id = id
               r == [Idle EXCEPT !.op = "get", !.id = id, !.pc = "get_inode", !.alone = a]
    <2>1. a \in BOOLEAN
      OBVIOUS
    <2> HIDE DEF a
    <2>2. r \in ThreadType /\ PcInv(r)
      BY <2>1, InodeTyped DEF Idle, ThreadType, PcInv, PutPcs, RemovePcs
    <2>3. Goto(t, r) /\ UNCHANGED Shared
      BY <1>1 DEF dispatch_get, a
    <2> HIDE DEF r
    <2> QED BY <2>2, <2>3, GotoTyped DEF TypeInv, TypeOK, Shared
  <1>2. ASSUME NEW t \in Threads, NEW op \in {"put", "remove"}, NEW id \in Inums,
               NEW buf \in Payloads \cup {<<>>}, op = "put" => buf \in Payloads,
               dispatch(t, op, id, buf)
        PROVE TypeInv'
    <2> DEFINE r == [Idle EXCEPT !.op = op, !.id = id, !.buf = buf, !.pc = "get_inode"]
    <2>1. r \in ThreadType /\ PcInv(r)
      BY <1>2, InodeTyped DEF Idle, ThreadType, PcInv, PutPcs, RemovePcs
    <2>2. ASSUME NEW u \in Threads
          PROVE [th[u] EXCEPT !.alone = FALSE] \in ThreadType /\ PcInv([th[u] EXCEPT !.alone = FALSE])
      <3> DEFINE v == th[u]
      <3>1. v \in ThreadType /\ PcInv(v)
        BY DEF TypeInv, TypeOK
      <3> HIDE DEF v
      <3>2. [v EXCEPT !.alone = FALSE] \in ThreadType
        BY <3>1 DEF ThreadType
      <3>3. PcInv([v EXCEPT !.alone = FALSE])
        BY <3>1 DEF ThreadType, PcInv
      <3> QED BY <3>2, <3>3 DEF v
    <2>3. th' \in [Threads -> ThreadType] /\ \A u \in Threads : PcInv(th'[u])
      BY <2>1, <2>2, <1>2 DEF dispatch, TypeInv, TypeOK
    <2>4. calls' \in 0 .. MaxCalls
      BY <1>2, ProcessAssumption DEF dispatch, TypeInv, TypeOK
    <2> QED BY <1>2, <2>3, <2>4 DEF dispatch, TypeInv, TypeOK
  <1>3. ASSUME NEW t \in Threads, get_inode(t) PROVE TypeInv'
    <2> DEFINE r == th[t]
               ino == itable[r.id]
    <2>1. r \in ThreadType /\ PcInv(r) /\ r.pc = "get_inode" /\ r.i = 1
      BY <1>3 DEF TypeInv, TypeOK, get_inode, At, PcInv
    <2>2. ino \in InodeType
      BY <2>1 DEF TypeInv, TypeOK, ThreadType
    <2>3. /\ UNCHANGED Shared
          /\ \/ Goto(t, Idle)
             \/ r.op = "get" /\ Goto(t, [r EXCEPT !.ino = ino, !.pc = "read_block"])
             \/ r.op = "put" /\ Goto(t, [r EXCEPT !.ino = ino, !.pc = "is_free"])
             \/ r.op = "remove" /\ Goto(t, [r EXCEPT !.ino = ino, !.pc = "free_block"])
      BY <1>3, <2>1 DEF get_inode, At, PcInv, ThreadType
    <2> HIDE DEF r, ino
    <2>4. ASSUME NEW pc \in {"read_block", "is_free", "free_block"},
                 pc = "read_block" => r.op = "get",
                 pc = "is_free" => r.op = "put",
                 pc = "free_block" => r.op = "remove"
          PROVE  /\ [r EXCEPT !.ino = ino, !.pc = pc] \in ThreadType
                 /\ PcInv([r EXCEPT !.ino = ino, !.pc = pc])
      <3>1. [r EXCEPT !.ino = ino, !.pc = pc] \in ThreadType
        BY <2>1, <2>2 DEF ThreadType
      <3>2. r.op = "put" => Len(r.buf) \in Nat
        BY <2>1, PayloadTyped DEF ThreadType
      <3>3. PcInv([r EXCEPT !.ino = ino, !.pc = pc])
        BY <2>1, <2>2, <2>4, <3>2 DEF ThreadType, InodeType, PcInv, PutPcs, RemovePcs
      <3> QED BY <3>1, <3>3
    <2> QED BY <2>3, <2>4, GotoTyped, InodeTyped DEF TypeInv, TypeOK, Shared
  <1>4. ASSUME NEW t \in Threads, read_block(t) PROVE TypeInv'
    <2> DEFINE r == th[t]
    <2>1. r \in ThreadType /\ PcInv(r) /\ r.pc = "read_block" /\ data \in [0 .. NDATA -> Nat]
      BY <1>4 DEF TypeInv, TypeOK, read_block, At
    <2> DEFINE q == [r EXCEPT !.out = Append(@, data[r.ino.blocks[r.i]]), !.i = @ + 1]
               e == [r EXCEPT !.out = strip(@), !.pc = "reply"]
    <2>2. UNCHANGED Shared /\ Goto(t, IF r.i <= r.ino.size THEN q ELSE e)
      BY <1>4 DEF read_block
    <2> HIDE DEF r
    <2>3. CASE r.i <= r.ino.size
      <3>1. r.i \in 1 .. NDIRECT /\ r.i + 1 \in 1 .. NDIRECT + 1 /\ r.i + 1 <= r.ino.size + 1
        BY <2>1, <2>3, Fields, ProcessAssumption, SMTT(40)
      <3>2. Append(r.out, data[r.ino.blocks[r.i]]) \in Seq(Nat)
        <4>1. r.ino.blocks[r.i] \in 0 .. NDATA /\ r.out \in Seq(Nat)
          BY <2>1, <3>1, Fields
        <4>2. data[r.ino.blocks[r.i]] \in Nat
          <5>1. \A d \in 0 .. NDATA : data[d] \in Nat
            BY <2>1, ProcessAssumption DEF TypeInv, TypeOK
          <5> QED BY <4>1, <5>1
        <4> QED BY <4>1, <4>2
      <3>3. q \in ThreadType
        BY <2>1, <3>1, <3>2 DEF ThreadType
      <3>4. PcInv(q)
        BY <2>1, <3>1 DEF ThreadType, PcInv, PutPcs, RemovePcs
      <3> HIDE DEF q
      <3> QED BY <2>2, <2>3, <3>3, <3>4, GotoTyped DEF TypeInv, TypeOK, Shared
    <2>4. CASE ~(r.i <= r.ino.size)
      <3>1. e \in ThreadType
        BY <2>1, StripTyped DEF ThreadType
      <3>2. PcInv(e)
        BY <2>1 DEF ThreadType, PcInv, PutPcs, RemovePcs
      <3> HIDE DEF e
      <3> QED BY <2>2, <2>4, <3>1, <3>2, GotoTyped DEF TypeInv, TypeOK, Shared
    <2> QED BY <2>3, <2>4
  <1>5. ASSUME NEW t \in Threads, reply(t) PROVE TypeInv'
    BY <1>5, GotoTyped, InodeTyped DEF reply, TypeInv, TypeOK, Shared
  <1>6. ASSUME NEW t \in Threads, is_free(t) PROVE TypeInv'
    <2> DEFINE r == th[t]
    <2>1. r \in ThreadType /\ PcInv(r) /\ r.pc = "is_free" /\ r.i <= Len(r.buf)
      BY <1>6 DEF TypeInv, TypeOK, is_free, At
    <2>2. /\ UNCHANGED <<used, data, itable, calls, content>>
          /\ \/ r.b \in DataBlocks /\ UNCHANGED up /\ Goto(t, [r EXCEPT !.pc = "mark_bit"])
             \/ r.b \in DataBlocks /\ UNCHANGED up /\ Goto(t, [r EXCEPT !.b = @ + 1])
             \/ up' = FALSE /\ UNCHANGED th
      BY <1>6 DEF is_free
    <2> HIDE DEF r
    <2>3. ASSUME r.b \in DataBlocks
          PROVE  /\ [r EXCEPT !.pc = "mark_bit"] \in ThreadType
                 /\ PcInv([r EXCEPT !.pc = "mark_bit"])
                 /\ [r EXCEPT !.b = @ + 1] \in ThreadType
                 /\ PcInv([r EXCEPT !.b = @ + 1])
      <3>1. r.b + 1 \in 1 .. NDATA + 1
        BY <2>3, ProcessAssumption DEF DataBlocks
      <3>2. Len(r.buf) \in Nat
        BY <2>1, PayloadTyped DEF ThreadType
      <3>3. [r EXCEPT !.pc = "mark_bit"] \in ThreadType /\ [r EXCEPT !.b = @ + 1] \in ThreadType
        BY <2>1, <3>1 DEF ThreadType
      <3>4. PcInv([r EXCEPT !.pc = "mark_bit"])
        BY <2>1, <2>3, <3>2 DEF ThreadType, PcInv, PutPcs, RemovePcs
      <3>5. PcInv([r EXCEPT !.b = @ + 1])
        BY <2>1, <2>3, <3>2 DEF ThreadType, PcInv, PutPcs, RemovePcs
      <3> QED BY <3>3, <3>4, <3>5
    <2> QED BY <2>2, <2>3, GotoTyped DEF TypeInv, TypeOK
  <1>7. ASSUME NEW t \in Threads, read_bits(t) PROVE TypeInv'
    <2> DEFINE r == th[t]
    <2>1. r \in ThreadType /\ PcInv(r) /\ r.pc \in {"mark_bit", "unmark_bit"}
          /\ used \subseteq DataBlocks
      BY <1>7 DEF TypeInv, TypeOK, read_bits, At
    <2> DEFINE q == [r EXCEPT !.bits = used,
                              !.pc = IF @ = "mark_bit" THEN "mark_write" ELSE "unmark_write"]
    <2>2. UNCHANGED Shared /\ Goto(t, q)
      BY <1>7 DEF read_bits
    <2> HIDE DEF r
    <2>3. q \in ThreadType
      BY <2>1 DEF ThreadType
    <2>4. PcInv(q)
      BY <2>1 DEF ThreadType, PcInv, PutPcs, RemovePcs
    <2> HIDE DEF q
    <2> QED BY <2>2, <2>3, <2>4, GotoTyped DEF TypeInv, TypeOK, Shared
  <1>8. ASSUME NEW t \in Threads, mark_write(t) PROVE TypeInv'
    <2> DEFINE r == th[t]
               q == [r EXCEPT !.pc = "write_block"]
    <2>1. r \in ThreadType /\ PcInv(r) /\ r.pc = "mark_write"
      BY <1>8 DEF TypeInv, TypeOK, mark_write, At
    <2>2. Goto(t, q) /\ used' = r.bits \cup {r.b} /\ UNCHANGED <<data, itable, calls, up, content>>
      BY <1>8 DEF mark_write
    <2> HIDE DEF r
    <2>3. q \in ThreadType
      BY <2>1 DEF ThreadType
    <2>4. PcInv(q)
      BY <2>1 DEF ThreadType, PcInv, PutPcs, RemovePcs
    <2>5. used' \subseteq DataBlocks
      BY <2>1, <2>2 DEF ThreadType, PcInv, PutPcs
    <2> HIDE DEF q
    <2> QED BY <2>2, <2>3, <2>4, <2>5, GotoTyped DEF TypeInv, TypeOK
  <1>9. ASSUME NEW t \in Threads, write_block(t) PROVE TypeInv'
    <2> DEFINE r == th[t]
               q == [r EXCEPT !.ino.blocks[r.i] = r.b, !.i = @ + 1, !.b = 1, !.pc = "is_free"]
    <2>1. r \in ThreadType /\ PcInv(r) /\ r.pc = "write_block"
      BY <1>9 DEF TypeInv, TypeOK, write_block, At
    <2>2. /\ Goto(t, q) /\ data' = [data EXCEPT ![r.b] = r.buf[r.i]]
          /\ UNCHANGED <<used, itable, calls, up, content>>
      BY <1>9 DEF write_block
    <2> HIDE DEF r
    <2>3. /\ r.i \in 1 .. Len(r.buf) /\ r.i \in 1 .. NDIRECT /\ r.i + 1 \in 1 .. NDIRECT + 1
          /\ r.b \in 0 .. NDATA /\ 1 \in 1 .. NDATA + 1 /\ r.buf[r.i] \in Nat
          /\ r.buf \in Payloads \cup {<<>>}
      <3>1. r.i <= Len(r.buf) /\ r.b \in DataBlocks
        BY <2>1 DEF PcInv, PutPcs
      <3>2. r.buf \in Payloads \cup {<<>>}
        BY <2>1 DEF ThreadType
      <3>3. r.i \in 1 .. Len(r.buf)
        BY <2>1, <3>1, Fields
      <3>4. r.buf[r.i] \in Nat
        BY <3>2, <3>3, PayloadTyped
      <3>5. r.i \in 1 .. NDIRECT /\ r.i + 1 \in 1 .. NDIRECT + 1
        BY <2>1, <3>1, Fields, ProcessAssumption
      <3>6. r.b \in 0 .. NDATA /\ 1 \in 1 .. NDATA + 1
        BY <3>1, ProcessAssumption DEF DataBlocks
      <3> QED BY <3>2, <3>3, <3>4, <3>5, <3>6
    <2>4. [r.ino EXCEPT !.blocks[r.i] = r.b] \in InodeType
      BY <2>1, <2>3, Fields DEF InodeType
    <2>5. q \in ThreadType
      BY <2>1, <2>3, <2>4 DEF ThreadType
    <2>6. PcInv(q)
      BY <2>1, <2>3, Fields DEF ThreadType, PcInv, PutPcs, RemovePcs
    <2>7. data' \in [0 .. NDATA -> Nat]
      BY <2>2, <2>3 DEF TypeInv, TypeOK
    <2> HIDE DEF q
    <2> QED BY <2>2, <2>5, <2>6, <2>7, GotoTyped DEF TypeInv, TypeOK
  <1>10. ASSUME NEW t \in Threads, put_inode(t) PROVE TypeInv'
    <2> DEFINE r == th[t]
    <2>1. r \in ThreadType /\ PcInv(r)
      BY DEF TypeInv, TypeOK
    <2>2. /\ Goto(t, Idle) /\ UNCHANGED <<used, data, calls, up>>
          /\ itable' = [itable EXCEPT ![r.id] = [r.ino EXCEPT !.size = Len(r.buf)]]
          /\ content' = [content EXCEPT ![r.id] = r.buf]
      BY <1>10 DEF put_inode
    <2> HIDE DEF r
    <2>3. Len(r.buf) \in 0 .. NDIRECT /\ r.buf \in Payloads \cup {<<>>}
      BY <2>1, PayloadTyped DEF ThreadType
    <2>4. [r.ino EXCEPT !.size = Len(r.buf)] \in InodeType
      BY <2>1, <2>3, Fields DEF InodeType
    <2>5. itable' \in [Inums -> InodeType] /\ content' \in [Inums -> Payloads \cup {<<>>}]
      BY <2>2, <2>3, <2>4 DEF TypeInv, TypeOK
    <2> QED BY <2>2, <2>5, GotoTyped, InodeTyped DEF TypeInv, TypeOK
  <1>11. ASSUME NEW t \in Threads, free_block(t) PROVE TypeInv'
    <2> DEFINE r == th[t]
    <2>1. r \in ThreadType /\ PcInv(r) /\ r.pc = "free_block" /\ ~LastSlot(r)
      BY <1>11 DEF TypeInv, TypeOK, free_block, At
    <2>2. /\ UNCHANGED Shared
          /\ \/ Goto(t, [r EXCEPT !.b = r.ino.blocks[r.i], !.pc = "unmark_bit"])
             \/ Goto(t, [r EXCEPT !.i = @ + 1])
      BY <1>11 DEF free_block
    <2> HIDE DEF r
    <2>3. /\ r.i \in 1 .. NDIRECT /\ r.i + 1 \in 1 .. NDIRECT + 1
          /\ r.ino.blocks[r.i] \in DataBlocks /\ r.ino.blocks[r.i] \in 1 .. NDATA + 1
      <3>1. r.i <= NDIRECT /\ r.ino.blocks[r.i] # 0 /\ r.i \in 1 .. NDIRECT
        BY <2>1, Fields DEF LastSlot
      <3>2. r.ino.blocks[r.i] \in 0 .. NDATA
        BY <2>1, <3>1, Fields
      <3>3. r.i + 1 \in 1 .. NDIRECT + 1
        BY <3>1, ProcessAssumption
      <3> QED BY <3>1, <3>2, <3>3, ProcessAssumption DEF DataBlocks
    <2>4. /\ [r EXCEPT !.b = r.ino.blocks[r.i], !.pc = "unmark_bit"] \in ThreadType
          /\ [r EXCEPT !.i = @ + 1] \in ThreadType
      BY <2>1, <2>3 DEF ThreadType
    <2>5. PcInv([r EXCEPT !.b = r.ino.blocks[r.i], !.pc = "unmark_bit"])
      BY <2>1, <2>3, Fields DEF ThreadType, PcInv, PutPcs, RemovePcs
    <2>6. PcInv([r EXCEPT !.i = @ + 1])
      BY <2>1, <2>3, Fields DEF ThreadType, PcInv, PutPcs, RemovePcs
    <2> QED BY <2>2, <2>4, <2>5, <2>6, GotoTyped DEF TypeInv, TypeOK, Shared
  <1>12. ASSUME NEW t \in Threads, unmark_write(t) PROVE TypeInv'
    <2> DEFINE r == th[t]
               q == [r EXCEPT !.pc = "clear_block"]
    <2>1. r \in ThreadType /\ PcInv(r) /\ r.pc = "unmark_write"
      BY <1>12 DEF TypeInv, TypeOK, unmark_write, At
    <2>2. Goto(t, q) /\ used' = r.bits \ {r.b} /\ UNCHANGED <<data, itable, calls, up, content>>
      BY <1>12 DEF unmark_write
    <2> HIDE DEF r
    <2>3. q \in ThreadType
      BY <2>1 DEF ThreadType
    <2>4. PcInv(q)
      BY <2>1 DEF ThreadType, PcInv, PutPcs, RemovePcs
    <2>5. used' \subseteq DataBlocks
      BY <2>1, <2>2 DEF ThreadType
    <2> HIDE DEF q
    <2> QED BY <2>2, <2>3, <2>4, <2>5, GotoTyped DEF TypeInv, TypeOK
  <1>13. ASSUME NEW t \in Threads, clear_block(t) PROVE TypeInv'
    <2> DEFINE r == th[t]
               q == [r EXCEPT !.i = @ + 1, !.pc = "free_block"]
    <2>1. r \in ThreadType /\ PcInv(r) /\ r.pc = "clear_block"
      BY <1>13 DEF TypeInv, TypeOK, clear_block, At
    <2>2. /\ Goto(t, q) /\ data' = [data EXCEPT ![r.b] = 0]
          /\ UNCHANGED <<used, itable, calls, up, content>>
      BY <1>13 DEF clear_block
    <2> HIDE DEF r
    <2>3. r.i <= NDIRECT /\ r.i + 1 \in 1 .. NDIRECT + 1
      BY <2>1, Fields, ProcessAssumption DEF PcInv, RemovePcs
    <2>4. q \in ThreadType
      BY <2>1, <2>3 DEF ThreadType
    <2>5. PcInv(q)
      BY <2>1, Fields DEF ThreadType, PcInv, PutPcs, RemovePcs
    <2>6. data' \in [0 .. NDATA -> Nat]
      BY <2>2 DEF TypeInv, TypeOK
    <2> HIDE DEF q
    <2> QED BY <2>2, <2>4, <2>5, <2>6, GotoTyped DEF TypeInv, TypeOK
  <1>14. ASSUME NEW t \in Threads, free_inode(t) PROVE TypeInv'
    <2> DEFINE r == th[t]
               q == [r EXCEPT !.pc = "clear_inode"]
    <2>1. r \in ThreadType /\ PcInv(r) /\ r.pc = "free_block"
      BY <1>14 DEF TypeInv, TypeOK, free_inode, At
    <2>2. UNCHANGED Shared /\ (Goto(t, q) \/ Goto(t, Idle))
      BY <1>14 DEF free_inode
    <2> HIDE DEF r
    <2>3. q \in ThreadType
      BY <2>1 DEF ThreadType
    <2>4. PcInv(q)
      BY <2>1 DEF ThreadType, PcInv, PutPcs, RemovePcs
    <2> HIDE DEF q
    <2> QED BY <2>2, <2>3, <2>4, GotoTyped, InodeTyped DEF TypeInv, TypeOK, Shared
  <1>15. ASSUME NEW t \in Threads, clear_inode(t) PROVE TypeInv'
    <2>1. itable' \in [Inums -> InodeType] /\ content' \in [Inums -> Payloads \cup {<<>>}]
      BY <1>15, InodeTyped DEF clear_inode, TypeInv, TypeOK
    <2> QED BY <1>15, <2>1, GotoTyped, InodeTyped DEF clear_inode, TypeInv, TypeOK
  <1> QED
    BY <1>0, <1>1, <1>2, <1>3, <1>4, <1>5, <1>6, <1>7, <1>8, <1>9, <1>10, <1>11, <1>12,
       <1>13, <1>14, <1>15 DEF Next

(* Only data blocks are ever marked, named by an inode or written, and no  *)
(* loop leaves the inode's slots, even while requests race.                *)
THEOREM TypeCorrect == Spec => []TypeOK
  <1>1. Spec => []TypeInv
    BY InitTypeInv, StepTypeInv, PTL DEF Spec
  <1> QED BY <1>1, PTL DEF TypeInv
-----------------------------------------------------------------------------
(* The parts of the inductive invariant.  A block that an inode names is   *)
(* marked, until a remove gives it back.                                   *)
NamedMarked ==
    \A i \in Inums, k \in 1 .. NDIRECT : Live(i, k) => itable[i].blocks[k] \in used \cup {0}

(* No two slots, of one inode or of two, name the same block.              *)
SlotsExclusive ==
    \A i, j \in Inums, k, l \in 1 .. NDIRECT :
        Live(i, k) /\ Live(j, l) /\ itable[i].blocks[k] = itable[j].blocks[l] =>
            (i = j /\ k = l) \/ itable[i].blocks[k] = 0

(* Block b is marked but not in any inode yet.                             *)
Fresh(b) ==
    b \in used /\ \A i \in Inums, k \in 1 .. NDIRECT : Live(i, k) => itable[i].blocks[k] # b

(* No two puts have taken the same block.                                  *)
PutsApart == \A t, u \in Threads : t # u => Taken(t) \cap Taken(u) = {}

(* A put has replaced the slots before i of its copy of the inode by fresh *)
(* and distinct blocks that hold its buf; the others are as on the disk.   *)
(* The block whose bit it is about to set is still free, and the bitmap it *)
(* has read is still the one on the disk.                                  *)
PutInv(r) ==
    r.pc \in PutPcs =>
        /\ \A k \in 1 .. NDIRECT : k >= r.i => r.ino.blocks[k] = itable[r.id].blocks[k]
        /\ \A k \in 1 .. NDIRECT : k < r.i => /\ Fresh(r.ino.blocks[k])
                                             /\ data[r.ino.blocks[k]] = r.buf[k]
        /\ \A k, l \in 1 .. NDIRECT :
             k < r.i /\ l < r.i /\ r.ino.blocks[k] = r.ino.blocks[l] => k = l
        /\ r.pc \in {"mark_bit", "mark_write"} => r.b \notin used
        /\ r.pc = "mark_write" => r.bits = used
        /\ r.pc = "write_block" => /\ Fresh(r.b)
                                   /\ \A k \in 1 .. NDIRECT : k < r.i => r.ino.blocks[k] # r.b

(* A remove works on the inode as it is on the disk; the block that it is  *)
(* about to clear is still free.                                           *)
RemoveInv(r) ==
    r.pc \in RemovePcs => /\ r.ino = itable[r.id] /\ r.ino.type # 0
                          /\ r.pc = "unmark_write" => r.bits = used
                          /\ r.pc = "clear_block" => r.b \notin used

(* Unless a remove is at work on it, an extent holds what it was given.    *)
Holds(i) == /\ itable[i].size = Len(content[i])
            /\ \A k \in 1 .. Len(content[i]) : /\ itable[i].blocks[k] # 0
                                               /\ data[itable[i].blocks[k]] = content[i][k]
Removing(i) == \E t \in Threads : th[t].pc \in RemovePcs /\ th[t].id = i
ContentInv == \A i \in Inums : Removing(i) \/ Holds(i)

(* A get that is alone on its extent has read, so far, what the extent     *)
(* holds; the inode it read is the one on the disk.                        *)
GetInv(r) ==
    r.op = "get" /\ r.alone =>
        /\ \A u \in Threads : Mutates(u) => th[u].id # r.id
        /\ r.pc = "read_block" => /\ r.ino = itable[r.id] /\ Len(r.out) = r.i - 1
                                  /\ \A k \in 1 .. r.i - 1 : r.out[k] = content[r.id][k]
        /\ r.pc = "reply" => r.out = content[r.id]

(* All of it, until requests race.  GetInv needs ContentInv; that a write  *)
(* leaves other extents' contents alone needs SlotsExclusive for a remove  *)
(* and NamedMarked, with the bitmap clause of PutInv, for a put; that one  *)
(* leaves what other puts have taken alone needs PutsApart.  They hold     *)
(* because the bitmap that mark_bit and unmark_bit read is not overtaken,  *)
(* nor the inode that a put or remove has read, which is Apart.            *)
Inv == /\ TypeInv /\ Apart /\ NamedMarked /\ SlotsExclusive /\ PutsApart /\ ContentInv
       /\ \A t \in Threads : PutInv(th[t]) /\ RemoveInv(th[t]) /\ GetInv(th[t])

(* The step a thread is at tells the request it runs.                      *)
LEMMA Pcs ==
    ASSUME NEW r \in ThreadType, PcInv(r)
    PROVE  /\ r.pc \in PutPcs => r.op = "put"
           /\ r.pc \in RemovePcs => r.op = "remove"
  BY DEF PcInv, ThreadType, PutPcs, RemovePcs

(* Puts and removes that run at a time are of distinct extents, and only   *)
(* one of them is marking.                                                 *)
LEMMA Exclusive ==
    ASSUME TypeInv, Apart, NEW t \in Threads, Mutates(t), NEW u \in Threads \ {t},
           th[u].pc \in PutPcs \cup RemovePcs
    PROVE  Mutates(u) /\ th[u].id # th[t].id /\ (Marking(t) => ~Marking(u))
  <1>1. Mutates(u)
    BY Pcs DEF TypeInv, TypeOK, Mutates
  <1> QED BY <1>1 DEF Apart

(* No slot of an extent that is not being removed is being given back.     *)
LEMMA LiveSlots ==
    ASSUME NEW i \in Inums, NEW k \in 1 .. NDIRECT,
           \A u \in Threads : th[u].pc \in RemovePcs => th[u].id # i
    PROVE  Live(i, k)
  BY DEF Live, FreedBy, RemovePcs

(* A step that does not move t among the steps of a remove gives back no   *)
(* slot and takes none.                                                    *)
LEMMA LiveKept ==
    ASSUME NEW t \in Threads, th[t].pc \notin RemovePcs, th'[t].pc \notin RemovePcs,
           \A u \in Threads \ {t} : th'[u] = th[u]
    PROVE  /\ \A i \in Inums, k \in 1 .. NDIRECT : Live(i, k)' <=> Live(i, k)
           /\ \A i \in Inums : Removing(i)' <=> Removing(i)
  <1>1. \A i \in Inums, k \in 1 .. NDIRECT, u \in Threads : FreedBy(th[u], i, k)' <=> FreedBy(th[u], i, k)
    <2> TAKE i \in Inums, k \in 1 .. NDIRECT, u \in Threads
    <2>1. CASE u = t
      BY <2>1 DEF FreedBy, RemovePcs
    <2>2. CASE u # t
      BY <2>2 DEF FreedBy
    <2> QED BY <2>1, <2>2
  <1> QED BY <1>1 DEF Live, Removing

(* The blocks that a put has taken, in terms of its locals.                *)
LEMMA TakenBlocks ==
    ASSUME NEW t \in Threads, th[t] \in ThreadType, PcInv(th[t])
    PROVE  /\ th[t].pc \notin PutPcs => Taken(t) = {}
           /\ th[t].pc \in PutPcs =>
                /\ \A k \in 1 .. NDIRECT : k < th[t].i => th[t].ino.blocks[k] \in Taken(t)
                /\ th[t].pc = "write_block" => th[t].b \in Taken(t)
                /\ \A b \in Taken(t) : \/ th[t].pc = "write_block" /\ b = th[t].b
                                       \/ \E k \in 1 .. NDIRECT : k < th[t].i /\ b = th[t].ino.blocks[k]
  <1> DEFINE r == th[t]
  <1>1. r.i \in Nat /\ r.i >= 1 /\ r.i <= NDIRECT + 1 /\ NDIRECT \in Nat
    BY Fields, ProcessAssumption
  <1>2. CASE r.pc \notin PutPcs
    <2>1. r.op = "put" => r.i = 1 /\ r.pc = "get_inode"
      BY <1>2 DEF PcInv
    <2>2. CASE r.op = "put"
      <3>1. 1 .. r.i - 1 = {}
        BY <2>1, <2>2
      <3> QED BY <1>2, <2>1, <2>2, <3>1 DEF Taken
    <2>3. CASE r.op # "put"
      BY <1>2, <2>3 DEF Taken
    <2> QED BY <2>2, <2>3
  <1>3. CASE r.pc \in PutPcs
    <2>1. r.op = "put"
      BY <1>3, Pcs
    <2>2. \A k \in 1 .. NDIRECT : k < r.i => k \in 1 .. r.i - 1
      BY <1>1
    <2>3. \A k \in 1 .. r.i - 1 : k \in 1 .. NDIRECT /\ k < r.i
      BY <1>1
    <2>4. \A b : b \in Taken(t) <=> \/ r.pc = "write_block" /\ b = r.b
                                   \/ \E k \in 1 .. r.i - 1 : b = r.ino.blocks[k]
      BY <2>1 DEF Taken
    <2> HIDE DEF r
    <2> QED BY <1>3, <2>2, <2>3, <2>4 DEF r
  <1> QED BY <1>2, <1>3

(* What a put has taken is fresh.                                          *)
LEMMA TakenFresh ==
    ASSUME Inv, NEW t \in Threads, NEW b \in Taken(t)
    PROVE  Fresh(b)
  <1> DEFINE r == th[t]
  <1>1. r \in ThreadType /\ PcInv(r) /\ PutInv(r)
    BY DEF Inv, TypeInv, TypeOK
  <1>2. CASE r.pc \notin PutPcs
    BY <1>1, <1>2, TakenBlocks
  <1>3. CASE r.pc \in PutPcs
    <2>1. \/ r.pc = "write_block" /\ b = r.b
          \/ \E k \in 1 .. NDIRECT : k < r.i /\ b = r.ino.blocks[k]
      BY <1>1, <1>3, TakenBlocks
    <2> QED BY <1>1, <1>3, <2>1 DEF PutInv
  <1> QED BY <1>2, <1>3

(* A step of the writer that changes its own extent only disturbs no get.  *)
LEMMA ReadersKept ==
    ASSUME Inv, TypeInv', NEW t \in Threads, Mutates(t),
           th'[t].op = "idle" \/ (th'[t].op = th[t].op /\ th'[t].id = th[t].id),
           \A u \in Threads \ {t} : th'[u] = th[u],
           \A i \in Inums \ {th[t].id} : itable'[i] = itable[i] /\ content'[i] = content[i]
    PROVE  \A u \in Threads : GetInv(th[u])'
  <1> TAKE u \in Threads
  <1>1. CASE u = t
    BY <1>1 DEF GetInv, Mutates
  <1>2. CASE u # t
    <2>1. th'[u] = th[u] /\ th[u].id \in Inums
      BY <1>2, Fields DEF Inv, TypeInv, TypeOK
    <2>2. SUFFICES ASSUME th[u].op = "get", th[u].alone PROVE GetInv(th[u])'
      BY <2>1 DEF GetInv
    <2>3. GetInv(th[u])
      BY DEF Inv
    <2>4. th[u].id # th[t].id
      BY <2>2, <2>3 DEF GetInv
    <2>5. \A v \in Threads : Mutates(v)' => Mutates(v) /\ th'[v].id = th[v].id
      BY DEF Mutates
    <2>6. itable'[th[u].id] = itable[th[u].id] /\ content'[th[u].id] = content[th[u].id]
      BY <2>1, <2>4
    <2> QED BY <2>1, <2>2, <2>3, <2>5, <2>6 DEF GetInv
  <1> QED BY <1>1, <1>2

(* A step of a thread that only reads keeps the invariant if it keeps its  *)
(* own part of it.                                                         *)
LEMMA ReaderStep ==
    ASSUME Inv, TypeInv', Apart', NEW t \in Threads, ~Mutates(t), ~Mutates(t)',
           \A u \in Threads \ {t} : th'[u] = th[u],
           UNCHANGED <<used, data, itable, content>>, GetInv(th[t])'
    PROVE  Inv'
  <1>1. \A u \in Threads : /\ Mutates(u)' <=> Mutates(u)
                           /\ Mutates(u) => th'[u] = th[u]
    BY DEF Mutates
  <1>2. \A u \in Threads : /\ th[u].pc \in PutPcs \cup RemovePcs => Mutates(u)
                           /\ th'[u].pc \in PutPcs \cup RemovePcs => Mutates(u)
    <2> TAKE u \in Threads
    <2>1. th[u] \in ThreadType /\ PcInv(th[u]) /\ th'[u] \in ThreadType /\ PcInv(th'[u])
      BY DEF Inv, TypeInv, TypeOK
    <2> QED BY <1>1, <2>1, Pcs DEF Mutates
  <1>3. \A i \in Inums, k \in 1 .. NDIRECT : Live(i, k)' => Live(i, k)
    <2> SUFFICES ASSUME NEW i \in Inums, NEW k \in 1 .. NDIRECT, NEW u \in Threads,
                        FreedBy(th[u], i, k)
                 PROVE  FreedBy(th[u], i, k)'
      BY DEF Live
    <2>1. th'[u] = th[u]
      BY <1>1, <1>2 DEF FreedBy, RemovePcs
    <2> QED BY <2>1 DEF FreedBy
  <1>4. NamedMarked' /\ SlotsExclusive' /\ \A b : Fresh(b) => Fresh(b)'
    BY <1>3 DEF Inv, NamedMarked, SlotsExclusive, Fresh
  <1>5. ContentInv'
    BY <1>1, <1>2 DEF Inv, ContentInv, Removing, Holds
  <1>6. \A u \in Threads : PutInv(th[u])' /\ RemoveInv(th[u])'
    <2> TAKE u \in Threads
    <2>1. CASE th'[u].pc \notin PutPcs \cup RemovePcs
      BY <2>1 DEF PutInv, RemoveInv
    <2>2. CASE th'[u] = th[u]
      BY <1>4, <2>2 DEF Inv, PutInv, RemoveInv
    <2> QED BY <1>1, <1>2, <2>1, <2>2
  <1>7. \A u \in Threads : GetInv(th[u])'
    <2> TAKE u \in Threads
    <2>1. CASE u = t
      BY <2>1
    <2>2. CASE u # t
      BY <1>1, <2>2 DEF Inv, GetInv
    <2> QED BY <2>1, <2>2
  <1>8. PutsApart'
    <2>1. \A u \in Threads : Taken(u)' = Taken(u)
      BY DEF Taken, Mutates
    <2> QED BY <2>1 DEF Inv, PutsApart
  <1> QED BY <1>4, <1>5, <1>6, <1>7, <1>8 DEF Inv

(* A step of a writer that changes the disk at most where no other request *)
(* is at work leaves the others their part of the invariant: what they     *)
(* have taken stays fresh and holds what they wrote.                       *)
LEMMA WritersKept ==
    ASSUME Inv, NEW t \in Threads, Mutates(t),
           \A u \in Threads \ {t} : th'[u] = th[u],
           \A i \in Inums \ {th[t].id} : itable'[i] = itable[i],
           used' = used \/ Marking(t),
           \A u \in Threads \ {t} : \A b \in Taken(u) : Fresh(b)' /\ data'[b] = data[b]
    PROVE  \A u \in Threads \ {t} : PutInv(th[u])' /\ RemoveInv(th[u])'
  <1> TAKE u \in Threads \ {t}
  <1> DEFINE r == th[u]
  <1>1. /\ th'[u] = r /\ r \in ThreadType /\ PcInv(r) /\ PutInv(r) /\ RemoveInv(r)
        /\ r.id \in Inums
    BY Fields DEF Inv, TypeInv, TypeOK
  <1>2. CASE r.pc \notin PutPcs \cup RemovePcs
    BY <1>1, <1>2 DEF PutInv, RemoveInv
  <1>3. CASE r.pc \in PutPcs \cup RemovePcs
    <2>1. r.id # th[t].id /\ (Marking(t) => ~Marking(u))
      BY <1>3, Exclusive DEF Inv
    <2>2. itable'[r.id] = itable[r.id]
      BY <1>1, <2>1
    <2>3. Marking(u) => used' = used
      BY <2>1
    <2>4. RemoveInv(th[u])'
      BY <1>1, <2>2, <2>3 DEF RemoveInv, Marking
    <2>5. PutInv(th[u])'
      <3> SUFFICES ASSUME r.pc \in PutPcs PROVE PutInv(th[u])'
        BY <1>1 DEF PutInv
      <3>1. /\ \A k \in 1 .. NDIRECT : k < r.i => r.ino.blocks[k] \in Taken(u)
            /\ r.pc = "write_block" => r.b \in Taken(u)
        BY <1>1, TakenBlocks
      <3>2. /\ \A k \in 1 .. NDIRECT : k < r.i => /\ Fresh(r.ino.blocks[k])'
                                                 /\ data'[r.ino.blocks[k]] = r.buf[k]
            /\ r.pc = "write_block" => Fresh(r.b)'
        BY <1>1, <3>1 DEF PutInv
      <3>3. r.pc \in {"mark_bit", "mark_write"} => used' = used
        BY <2>3 DEF Marking
      <3>4. /\ \A k \in 1 .. NDIRECT : k >= r.i => r.ino.blocks[k] = itable'[r.id].blocks[k]
            /\ \A k, l \in 1 .. NDIRECT :
                 k < r.i /\ l < r.i /\ r.ino.blocks[k] = r.ino.blocks[l] => k = l
            /\ r.pc \in {"mark_bit", "mark_write"} => r.b \notin used'
            /\ r.pc = "mark_write" => r.bits = used'
            /\ r.pc = "write_block" => \A k \in 1 .. NDIRECT : k < r.i => r.ino.blocks[k] # r.b
        BY <1>1, <2>2, <3>3 DEF PutInv
      <3>5. th'[u] = r
        BY <1>1
      <3> QED BY <3>2, <3>4, <3>5 DEF PutInv
    <2> QED BY <2>4, <2>5
  <1> QED BY <1>2, <1>3

(* So does a step of a writer that leaves the disk alone.                  *)
LEMMA MutatorStep ==
    ASSUME Inv, TypeInv', Apart', NEW t \in Threads, Mutates(t),
           th'[t].op = "idle" \/ (th'[t].op = th[t].op /\ th'[t].id = th[t].id),
           th[t].pc \in RemovePcs =>
               /\ th'[t].pc \in RemovePcs /\ th'[t].id = th[t].id /\ th'[t].i >= th[t].i
               /\ th[t].pc # "clear_block",
           Taken(t)' \subseteq Taken(t),
           \A u \in Threads \ {t} : th'[u] = th[u],
           UNCHANGED <<used, data, itable, content>>, PutInv(th[t])', RemoveInv(th[t])'
    PROVE  Inv'
  <1>1. \A i \in Inums, k \in 1 .. NDIRECT : Live(i, k)' => Live(i, k)
    <2> SUFFICES ASSUME NEW i \in Inums, NEW k \in 1 .. NDIRECT, NEW u \in Threads,
                        FreedBy(th[u], i, k)
                 PROVE  FreedBy(th[u], i, k)'
      BY DEF Live
    <2>1. CASE u = t
      <3>1. th[t].i \in Nat /\ th'[t].i \in Nat
        BY Fields DEF Inv, TypeInv, TypeOK
      <3> QED BY <2>1, <3>1 DEF FreedBy, RemovePcs
    <2>2. CASE u # t
      BY <2>2 DEF FreedBy
    <2> QED BY <2>1, <2>2
  <1>2. NamedMarked' /\ SlotsExclusive' /\ \A b : Fresh(b) => Fresh(b)'
    BY <1>1 DEF Inv, NamedMarked, SlotsExclusive, Fresh
  <1>3. ContentInv'
    BY DEF Inv, ContentInv, Removing, Holds
  <1>4. \A u \in Threads : PutInv(th[u])' /\ RemoveInv(th[u])'
    <2>1. \A u \in Threads \ {t} : PutInv(th[u])' /\ RemoveInv(th[u])'
      BY <1>2, TakenFresh, WritersKept
    <2> QED BY <2>1
  <1>5. \A u \in Threads : GetInv(th[u])'
    BY ReadersKept
  <1>6. PutsApart'
    <2>1. \A u \in Threads : Taken(u)' \subseteq Taken(u)
      BY DEF Taken
    <2> QED BY <2>1 DEF Inv, PutsApart
  <1> QED BY <1>2, <1>3, <1>4, <1>5, <1>6 DEF Inv

(* The invariant holds of the empty disk and of idle threads.              *)
LEMMA InitInv == Init => Inv
  <1> SUFFICES ASSUME Init PROVE Inv
    OBVIOUS
  <1>1. TypeInv
    BY InitTypeInv
  <1>2. \A t \in Threads : th[t].op = "idle" /\ th[t].pc = "idle"
    BY DEF Init, Idle
  <1>3. \A i \in Inums : /\ itable[i].size = 0 /\ \A k \in 1 .. NDIRECT : itable[i].blocks[k] = 0
                         /\ content[i] = <<>>
    BY DEF Init, ZeroInode
  <1>4. Apart /\ PutsApart
    BY <1>2 DEF Apart, Mutates, Marking, PutsApart, Taken
  <1>5. NamedMarked /\ SlotsExclusive
    BY <1>3 DEF NamedMarked, SlotsExclusive
  <1>6. ContentInv
    BY <1>3 DEF ContentInv, Holds
  <1>7. \A t \in Threads : PutInv(th[t]) /\ RemoveInv(th[t]) /\ GetInv(th[t])
    BY <1>2 DEF PutInv, RemoveInv, GetInv, PutPcs, RemovePcs
  <1> QED BY <1>1, <1>4, <1>5, <1>6, <1>7 DEF Inv
-----------------------------------------------------------------------------
(* The requests that only read.  A get starts alone if no put or remove of *)
(* its extent is running.                                                  *)
LEMMA DispatchGet ==
    ASSUME Inv, TypeInv', Apart', NEW t \in Threads, NEW id \in Inums, dispatch_get(t, id)
    PROVE  Inv'
  <1>1. th[t].pc = "idle" /\ th[t].op = "idle"
    BY DEF dispatch_get, At, Inv, TypeInv, PcInv
  <1>2. /\ th'[t].op = "get" /\ th'[t].id = id /\ th'[t].pc = "get_inode"
        /\ th'[t].alone => \A u \in Threads : Mutates(u) => th[u].id # id
        /\ \A u \in Threads \ {t} : th'[u] = th[u]
    BY DEF dispatch_get, Goto, Idle, Inv, TypeInv, TypeOK
  <1>3. ~Mutates(t) /\ ~Mutates(t)'
    BY <1>1, <1>2 DEF Mutates
  <1>4. GetInv(th[t])'
    BY <1>2, <1>3 DEF GetInv, Mutates
  <1>5. UNCHANGED <<used, data, itable, content>>
    BY DEF dispatch_get, Shared
  <1> QED BY <1>2, <1>3, <1>4, <1>5, ReaderStep

(* The answer of a get leaves its thread idle.                             *)
LEMMA ReplyStep ==
    ASSUME Inv, TypeInv', Apart', NEW t \in Threads, reply(t)
    PROVE  Inv'
  <1>1. th[t].op = "get"
    BY DEF reply, At, Inv, TypeInv, TypeOK, ThreadType, PcInv, PutPcs, RemovePcs
  <1>2. th'[t].op = "idle" /\ \A u \in Threads \ {t} : th'[u] = th[u]
    BY DEF reply, Goto, Idle, Inv, TypeInv, TypeOK
  <1>3. ~Mutates(t) /\ ~Mutates(t)' /\ GetInv(th[t])'
    BY <1>1, <1>2 DEF Mutates, GetInv
  <1>4. UNCHANGED <<used, data, itable, content>>
    BY DEF reply, Shared
  <1> QED BY <1>2, <1>3, <1>4, ReaderStep

(* An extent no request is changing holds what it was given.               *)
LEMMA Undisturbed ==
    ASSUME Inv, NEW t \in Threads, th[t].op = "get", th[t].alone
    PROVE  Holds(th[t].id)
  <1>1. th[t].id \in Inums
    BY Fields DEF Inv, TypeInv, TypeOK
  <1>2. ~Removing(th[t].id)
    <2> SUFFICES ASSUME NEW u \in Threads, th[u].pc \in RemovePcs, th[u].id = th[t].id
                 PROVE  FALSE
      BY DEF Removing
    <2>1. Mutates(u)
      BY Pcs DEF Inv, TypeInv, TypeOK, Mutates
    <2> QED BY <2>1 DEF Inv, GetInv
  <1> QED BY <1>1, <1>2 DEF Inv, ContentInv

(* Each block a get reads is the next one of the content; at the end strip *)
(* has nothing to drop, as payloads do not end in a zero.                  *)
LEMMA ReadBlock ==
    ASSUME Inv, TypeInv', Apart', NEW t \in Threads, read_block(t)
    PROVE  Inv'
  <1> DEFINE r == th[t]
  <1>0. r \in ThreadType /\ PcInv(r) /\ r.pc = "read_block" /\ GetInv(r)
    BY DEF read_block, At, Inv, TypeInv, TypeOK
  <1>1. r.op = "get"
    BY <1>0 DEF ThreadType, PcInv, PutPcs, RemovePcs
  <1>2. /\ UNCHANGED <<used, data, itable, content>>
        /\ \A u \in Threads \ {t} : th'[u] = th[u]
        /\ th'[t] = IF r.i <= r.ino.size
                    THEN [r EXCEPT !.out = Append(@, data[r.ino.blocks[r.i]]), !.i = @ + 1]
                    ELSE [r EXCEPT !.out = strip(@), !.pc = "reply"]
    BY DEF read_block, Goto, Shared, Inv, TypeInv, TypeOK
  <1>3. /\ th'[t].op = "get" /\ th'[t].alone = r.alone /\ th'[t].id = r.id /\ th'[t].ino = r.ino
        /\ r.i <= r.ino.size => /\ th'[t].pc = "read_block" /\ th'[t].i = r.i + 1
                                /\ th'[t].out = Append(r.out, data[r.ino.blocks[r.i]])
        /\ ~(r.i <= r.ino.size) => th'[t].pc = "reply" /\ th'[t].out = strip(r.out)
    BY <1>0, <1>1, <1>2 DEF ThreadType
  <1>4. ~Mutates(t) /\ ~Mutates(t)'
    BY <1>1, <1>3 DEF Mutates
  <1>5. GetInv(th[t])'
    <2> SUFFICES ASSUME r.alone PROVE GetInv(th[t])'
      BY <1>3 DEF GetInv
    <2> DEFINE c == content[r.id]
    <2>1. /\ \A u \in Threads : Mutates(u)' => th'[u].id # r.id
      BY <1>0, <1>1, <1>2, <1>4 DEF GetInv, Mutates
    <2>2. /\ r.ino = itable[r.id] /\ Len(r.out) = r.i - 1
          /\ \A k \in 1 .. r.i - 1 : r.out[k] = c[k]
      BY <1>0, <1>1 DEF GetInv
    <2>3. /\ r.ino.size = Len(c)
          /\ \A k \in 1 .. Len(c) : data[r.ino.blocks[k]] = c[k]
      BY <1>1, <2>2, Undisturbed DEF Holds
    <2>4. c \in Payloads \cup {<<>>}
      BY <1>0, Fields DEF Inv, TypeInv, TypeOK
    <2>5. c \in Seq(Nat) /\ Len(c) \in Nat /\ \A k \in 1 .. Len(c) : c[k] # 0
      BY <2>4, PayloadTyped, ProcessAssumption
    <2>6. r.i \in Nat /\ r.i >= 1 /\ r.out \in Seq(Nat) /\ r.i <= Len(c) + 1
      BY <1>0, <2>3, Fields DEF PcInv
    <2> HIDE DEF r, c
    <2>7. CASE r.i <= Len(c)
      <3>1. th'[t].pc = "read_block" /\ th'[t].i = r.i + 1 /\ th'[t].out = Append(r.out, c[r.i])
        BY <1>3, <2>3, <2>6, <2>7
      <3>2. Len(th'[t].out) = th'[t].i - 1
        BY <2>2, <2>6, <3>1
      <3>3. \A k \in 1 .. th'[t].i - 1 : th'[t].out[k] = c[k]
        <4>0. th'[t].i - 1 = r.i
          BY <2>6, <3>1
        <4> SUFFICES ASSUME NEW k \in 1 .. r.i PROVE Append(r.out, c[r.i])[k] = c[k]
          BY <3>1, <4>0
        <4>1. c[r.i] \in Nat /\ k \in 1 .. Len(r.out) + 1
          BY <2>2, <2>5, <2>6, <2>7
        <4>2. Append(r.out, c[r.i])[k] = IF k <= Len(r.out) THEN r.out[k] ELSE c[r.i]
          BY <2>6, <4>1, AppendProperties
        <4> QED BY <2>2, <2>6, <4>2
      <3> QED BY <1>2, <1>3, <2>1, <2>2, <3>1, <3>2, <3>3 DEF GetInv, c
    <2>8. CASE ~(r.i <= Len(c))
      <3>1. r.i = Len(c) + 1 /\ Len(r.out) = Len(c)
        BY <2>2, <2>5, <2>6, <2>8
      <3>2. r.out = c
        BY <2>2, <2>5, <2>6, <3>1, SeqEqual
      <3>3. strip(r.out) = c
        BY <2>5, <3>2, StripTyped
      <3> QED BY <1>2, <1>3, <2>1, <2>3, <2>8, <3>3 DEF GetInv, c
    <2> QED BY <2>7, <2>8
  <1> QED BY <1>2, <1>4, <1>5, ReaderStep
-----------------------------------------------------------------------------
(* The requests that write.  A get of the extent that a put or remove is   *)
(* about to change is not alone any more.                                  *)
LEMMA DispatchMutator ==
    ASSUME Inv, TypeInv', Apart', NEW t \in Threads, NEW op \in {"put", "remove"},
           NEW id \in Inums, NEW buf, dispatch(t, op, id, buf)
    PROVE  Inv'
  <1>1. th[t].pc = "idle" /\ th[t].op = "idle" /\ Taken(t) = {}
    <2>1. th[t].pc = "idle" /\ th[t].op = "idle"
      BY DEF dispatch, At, Inv, TypeInv, PcInv
    <2> QED BY <2>1 DEF Taken
  <1>2. /\ th'[t].op = op /\ th'[t].id = id /\ th'[t].pc = "get_inode" /\ th'[t].i = 1
        /\ \A u \in Threads \ {t} :
              th'[u] = IF th[u].id = id THEN [th[u] EXCEPT !.alone = FALSE] ELSE th[u]
    BY DEF dispatch, Idle
  <1>3. ASSUME NEW u \in Threads \ {t}
        PROVE  /\ th'[u].op = th[u].op /\ th'[u].id = th[u].id /\ th'[u].pc = th[u].pc
               /\ th'[u].i = th[u].i /\ th'[u].ino = th[u].ino /\ th'[u].out = th[u].out
               /\ th'[u].buf = th[u].buf /\ th'[u].b = th[u].b /\ th'[u].bits = th[u].bits
               /\ th'[u].alone => th[u].alone /\ th[u].id # id
    <2> DEFINE v == th[u]
    <2>1. v \in ThreadType /\ th'[u] = IF v.id = id THEN [v EXCEPT !.alone = FALSE] ELSE v
      BY <1>2 DEF Inv, TypeInv, TypeOK
    <2> HIDE DEF v
    <2>2. /\ th'[u].op = v.op /\ th'[u].id = v.id /\ th'[u].pc = v.pc
          /\ th'[u].i = v.i /\ th'[u].ino = v.ino /\ th'[u].out = v.out
          /\ th'[u].buf = v.buf /\ th'[u].b = v.b /\ th'[u].bits = v.bits
          /\ th'[u].alone => v.alone /\ v.id # id
      BY <2>1 DEF ThreadType
    <2> QED BY <2>2 DEF v
  <1>4. UNCHANGED <<used, data, itable, content>>
    BY DEF dispatch
  <1>5. /\ th[t].pc \notin PutPcs \cup RemovePcs
        /\ th'[t].pc \notin PutPcs \cup RemovePcs
    BY <1>1, <1>2 DEF PutPcs, RemovePcs
  <1>6. \A i \in Inums, k \in 1 .. NDIRECT : Live(i, k)' => Live(i, k)
    <2> SUFFICES ASSUME NEW i \in Inums, NEW k \in 1 .. NDIRECT, NEW u \in Threads,
                        FreedBy(th[u], i, k)
                 PROVE  FreedBy(th[u], i, k)'
      BY DEF Live
    <2>1. u # t
      BY <1>5 DEF FreedBy, RemovePcs
    <2> QED BY <1>3, <2>1 DEF FreedBy
  <1>7. NamedMarked' /\ SlotsExclusive' /\ \A b : Fresh(b) => Fresh(b)'
    BY <1>4, <1>6 DEF Inv, NamedMarked, SlotsExclusive, Fresh
  <1>8. ContentInv'
    <2>1. \A i \in Inums : Removing(i) => Removing(i)'
      BY <1>3, <1>5 DEF Removing
    <2> QED BY <1>4, <2>1 DEF Inv, ContentInv, Holds
  <1>9. \A u \in Threads : PutInv(th[u])' /\ RemoveInv(th[u])'
    <2> TAKE u \in Threads
    <2>1. CASE u = t
      BY <1>5, <2>1 DEF PutInv, RemoveInv
    <2>2. CASE u # t
      <3>1. PutInv(th[u])'
        BY <1>3, <1>4, <1>7, <2>2 DEF Inv, PutInv
      <3>2. RemoveInv(th[u])'
        BY <1>3, <1>4, <2>2 DEF Inv, RemoveInv
      <3> QED BY <3>1, <3>2
    <2> QED BY <2>1, <2>2
  <1>10. \A u \in Threads : GetInv(th[u])'
    <2> TAKE u \in Threads
    <2>1. CASE u = t
      BY <1>2, <2>1 DEF GetInv
    <2>2. CASE u # t
      <3>1. GetInv(th[u])
        BY DEF Inv
      <3>2. \A v \in Threads : Mutates(v)' => v = t \/ (Mutates(v) /\ th'[v].id = th[v].id)
        BY <1>3 DEF Mutates
      <3> QED BY <1>2, <1>3, <1>4, <2>2, <3>1, <3>2 DEF GetInv
    <2> QED BY <2>1, <2>2
  <1>11. PutsApart'
    <2>1. Taken(t)' = {}
      <3>1. 1 .. th'[t].i - 1 = {}
        BY <1>2
      <3> QED BY <1>2, <3>1 DEF Taken
    <2>2. \A u \in Threads \ {t} : Taken(u)' = Taken(u)
      BY <1>3 DEF Taken
    <2> QED BY <2>1, <2>2 DEF Inv, PutsApart
  <1> QED BY <1>7, <1>8, <1>9, <1>10, <1>11 DEF Inv

(* The inode a request reads is the one on the disk.                       *)
LEMMA GetInode ==
    ASSUME Inv, TypeInv', Apart', NEW t \in Threads, get_inode(t)
    PROVE  Inv'
  <1> DEFINE r == th[t]
             ino == itable[r.id]
  <1>1. r \in ThreadType /\ PcInv(r) /\ GetInv(r) /\ r.pc = "get_inode" /\ r.i = 1
        /\ Len(r.out) = 0
    BY DEF Inv, TypeInv, TypeOK, get_inode, At, PcInv
  <1>2. /\ UNCHANGED <<used, data, itable, content>>
        /\ \A u \in Threads \ {t} : th'[u] = th[u]
        /\ \/ r.op = "remove" /\ th'[t] = Idle
           \/ r.op = "get" /\ th'[t] = [r EXCEPT !.ino = ino, !.pc = "read_block"]
           \/ r.op = "put" /\ th'[t] = [r EXCEPT !.ino = ino, !.pc = "is_free"]
           \/ /\ r.op = "remove" /\ ino.type # 0
              /\ th'[t] = [r EXCEPT !.ino = ino, !.pc = "free_block"]
    <2>1. r.op \in {"get", "put", "remove"}
      BY <1>1 DEF PcInv, ThreadType
    <2>2. th \in [Threads -> ThreadType]
      BY DEF Inv, TypeInv, TypeOK
    <2>3. CASE r.op = "get"
      BY <2>2, <2>3 DEF get_inode, Goto, Shared
    <2>4. CASE r.op = "put"
      BY <2>2, <2>4 DEF get_inode, Goto, Shared
    <2>5. CASE r.op = "remove"
      BY <2>2, <2>5 DEF get_inode, Goto, Shared
    <2> QED BY <2>1, <2>3, <2>4, <2>5
  <1>3. CASE r.op = "get"
    <2>1. /\ th'[t].op = "get" /\ th'[t].id = r.id /\ th'[t].alone = r.alone /\ th'[t].i = 1
          /\ th'[t].ino = ino /\ th'[t].pc = "read_block" /\ th'[t].out = r.out
      BY <1>1, <1>2, <1>3 DEF ThreadType
    <2>2. ~Mutates(t) /\ ~Mutates(t)'
      BY <1>3, <2>1 DEF Mutates
    <2>3. GetInv(th[t])'
      BY <1>1, <1>2, <1>3, <2>1, <2>2 DEF GetInv, Mutates
    <2> QED BY <1>2, <2>2, <2>3, ReaderStep
  <1>4. CASE r.op # "get"
    <2>1. Mutates(t) /\ r.pc \notin RemovePcs
      BY <1>1, <1>2, <1>4 DEF Mutates, RemovePcs
    <2>2. th[t].i \in Nat /\ th'[t].i \in Nat /\ r.id \in Inums /\ ino \in InodeType
          /\ \A k \in 1 .. NDIRECT : k >= 1 /\ ~(k < 1)
      BY <1>1, Fields DEF Inv, TypeInv, TypeOK
    <2>3. \/ th'[t].op = "idle" /\ th'[t].pc = "idle"
          \/ /\ th'[t].op = r.op /\ th'[t].id = r.id /\ th'[t].i = 1 /\ th'[t].ino = ino
             /\ th'[t].pc = "is_free" \/ (th'[t].pc = "free_block" /\ ino.type # 0)
      <3> HIDE DEF r, ino
      <3>1. CASE th'[t] = Idle
        BY <3>1 DEF Idle
      <3>2. CASE r.op = "put" /\ th'[t] = [r EXCEPT !.ino = ino, !.pc = "is_free"]
        BY <1>1, <3>2 DEF ThreadType
      <3>3. CASE ino.type # 0 /\ th'[t] = [r EXCEPT !.ino = ino, !.pc = "free_block"]
        BY <1>1, <3>3 DEF ThreadType
      <3> QED BY <1>2, <1>4, <3>1, <3>2, <3>3
    <2>4. PutInv(th[t])'
      BY <1>2, <2>2, <2>3 DEF PutInv, PutPcs
    <2>5. RemoveInv(th[t])'
      BY <1>2, <2>3 DEF RemoveInv, RemovePcs
    <2>6. Taken(t)' = {}
      <3>1. th'[t].op = "put" => th'[t].i = 1 /\ th'[t].pc = "is_free"
        BY <1>1, <1>2, <1>4, <2>3 DEF Idle, ThreadType
      <3>2. 1 .. 1 - 1 = {}
        OBVIOUS
      <3> QED BY <3>1, <3>2 DEF Taken
    <2> QED BY <1>2, <2>1, <2>3, <2>4, <2>5, <2>6, MutatorStep
  <1> QED BY <1>3, <1>4

(* alloc_block's scan stops at a block that is not marked.                 *)
LEMMA IsFree ==
    ASSUME Inv, TypeInv', Apart', NEW t \in Threads, is_free(t)
    PROVE  Inv'
  <1> DEFINE r == th[t]
  <1>1. r \in ThreadType /\ PcInv(r) /\ PutInv(r) /\ r.pc = "is_free"
    BY DEF Inv, TypeInv, TypeOK, is_free, At
  <1>2. Mutates(t) /\ r.pc \notin RemovePcs
    BY <1>1, Pcs DEF Mutates, PutPcs, RemovePcs
  <1>3. /\ UNCHANGED <<used, data, itable, content>>
        /\ \A u \in Threads \ {t} : th'[u] = th[u]
        /\ \/ th'[t] = r
           \/ th'[t] = [r EXCEPT !.b = @ + 1]
           \/ r.b \notin used /\ th'[t] = [r EXCEPT !.pc = "mark_bit"]
    BY DEF is_free, Goto, Inv, TypeInv, TypeOK
  <1>4. /\ th'[t].op = r.op /\ th'[t].id = r.id /\ th'[t].i = r.i /\ th'[t].ino = r.ino
        /\ th'[t].buf = r.buf
        /\ th'[t].pc = "is_free" \/ (th'[t].pc = "mark_bit" /\ th'[t].b = r.b /\ r.b \notin used)
    BY <1>1, <1>3 DEF ThreadType
  <1>5. PutInv(th[t])'
    <2>1. \A b : Fresh(b) => Fresh(b)'
      BY <1>2, <1>3, <1>4, LiveKept DEF Fresh, RemovePcs
    <2> QED BY <1>1, <1>3, <1>4, <2>1 DEF PutInv, PutPcs
  <1>6. RemoveInv(th[t])'
    BY <1>4 DEF RemoveInv, RemovePcs
  <1>7. Taken(t)' = Taken(t)
    BY <1>1, <1>4 DEF Taken
  <1> QED BY <1>2, <1>3, <1>4, <1>5, <1>6, <1>7, MutatorStep

(* mark_bit and unmark_bit read the bitmap as it is.                       *)
LEMMA ReadBits ==
    ASSUME Inv, TypeInv', Apart', NEW t \in Threads, read_bits(t)
    PROVE  Inv'
  <1> DEFINE r == th[t]
  <1>1. /\ r \in ThreadType /\ PcInv(r) /\ PutInv(r) /\ RemoveInv(r)
        /\ r.pc \in {"mark_bit", "unmark_bit"}
    BY DEF Inv, TypeInv, TypeOK, read_bits, At
  <1>2. Mutates(t) /\ r.pc # "clear_block" /\ r.i \in Nat
    BY <1>1, Pcs, Fields DEF Mutates, PutPcs, RemovePcs
  <1>3. /\ UNCHANGED <<used, data, itable, content>>
        /\ \A u \in Threads \ {t} : th'[u] = th[u]
        /\ th'[t] = [r EXCEPT !.bits = used,
                        !.pc = IF @ = "mark_bit" THEN "mark_write" ELSE "unmark_write"]
    BY DEF read_bits, Goto, Shared, Inv, TypeInv, TypeOK
  <1>4. /\ th'[t].op = r.op /\ th'[t].id = r.id /\ th'[t].i = r.i /\ th'[t].ino = r.ino
        /\ th'[t].buf = r.buf /\ th'[t].b = r.b /\ th'[t].bits = used
        /\ th'[t].pc = IF r.pc = "mark_bit" THEN "mark_write" ELSE "unmark_write"
    BY <1>1, <1>3 DEF ThreadType
  <1>5. PutInv(th[t])'
    <2>1. CASE r.pc = "mark_bit"
      <3>1. \A b : Fresh(b) => Fresh(b)'
        BY <1>3, <1>4, <2>1, LiveKept DEF Fresh, RemovePcs
      <3> QED BY <1>1, <1>3, <1>4, <2>1, <3>1 DEF PutInv, PutPcs
    <2>2. CASE r.pc = "unmark_bit"
      BY <1>4, <2>2 DEF PutInv, PutPcs
    <2> QED BY <1>1, <2>1, <2>2
  <1>6. RemoveInv(th[t])'
    BY <1>1, <1>3, <1>4 DEF RemoveInv, RemovePcs
  <1>7. th'[t].i >= th[t].i /\ (r.pc \in RemovePcs => th'[t].pc \in RemovePcs)
    BY <1>1, <1>2, <1>4 DEF RemovePcs
  <1>8. Taken(t)' \subseteq Taken(t)
    BY <1>1, <1>4 DEF Taken
  <1> QED BY <1>2, <1>3, <1>4, <1>5, <1>6, <1>7, <1>8, MutatorStep

(* remove_file goes from slot to slot.                                     *)
LEMMA FreeBlock ==
    ASSUME Inv, TypeInv', Apart', NEW t \in Threads, free_block(t)
    PROVE  Inv'
  <1> DEFINE r == th[t]
  <1>1. r \in ThreadType /\ PcInv(r) /\ RemoveInv(r) /\ r.pc = "free_block"
    BY DEF Inv, TypeInv, TypeOK, free_block, At
  <1>2. Mutates(t) /\ r.pc # "clear_block" /\ r.i \in Nat
    BY <1>1, Pcs, Fields DEF Mutates, PutPcs, RemovePcs
  <1>3. /\ UNCHANGED <<used, data, itable, content>>
        /\ \A u \in Threads \ {t} : th'[u] = th[u]
        /\ \/ th'[t] = [r EXCEPT !.b = r.ino.blocks[r.i], !.pc = "unmark_bit"]
           \/ th'[t] = [r EXCEPT !.i = @ + 1]
    BY DEF free_block, Goto, Shared, Inv, TypeInv, TypeOK
  <1>4. /\ th'[t].op = r.op /\ th'[t].id = r.id /\ th'[t].ino = r.ino
        /\ th'[t].i = r.i \/ th'[t].i = r.i + 1
        /\ th'[t].pc \in {"free_block", "unmark_bit"}
    BY <1>1, <1>3 DEF ThreadType
  <1>5. PutInv(th[t])'
    BY <1>4 DEF PutInv, PutPcs
  <1>6. RemoveInv(th[t])'
    BY <1>1, <1>3, <1>4 DEF RemoveInv, RemovePcs
  <1>7. th'[t].pc \in RemovePcs /\ th'[t].i >= th[t].i
    BY <1>2, <1>4 DEF RemovePcs
  <1>8. Taken(t)' \subseteq Taken(t)
    BY <1>1, <1>4, Pcs DEF Taken, RemovePcs
  <1> QED BY <1>2, <1>3, <1>4, <1>5, <1>6, <1>7, <1>8, MutatorStep

(* free_inode finds the type that remove_file saw.                         *)
LEMMA FreeInode ==
    ASSUME Inv, TypeInv', Apart', NEW t \in Threads, free_inode(t)
    PROVE  Inv'
  <1> DEFINE r == th[t]
  <1>1. r \in ThreadType /\ PcInv(r) /\ RemoveInv(r) /\ r.pc = "free_block"
    BY DEF Inv, TypeInv, TypeOK, free_inode, At
  <1>2. Mutates(t) /\ r.pc # "clear_block" /\ r.i \in Nat /\ itable[r.id].type # 0
    BY <1>1, Pcs, Fields DEF Mutates, PutPcs, RemovePcs, RemoveInv
  <1>3. /\ UNCHANGED <<used, data, itable, content>>
        /\ \A u \in Threads \ {t} : th'[u] = th[u]
        /\ th'[t] = [r EXCEPT !.pc = "clear_inode"]
    BY <1>2 DEF free_inode, Goto, Shared, Inv, TypeInv, TypeOK
  <1>4. /\ th'[t].op = r.op /\ th'[t].id = r.id /\ th'[t].ino = r.ino /\ th'[t].i = r.i
        /\ th'[t].pc = "clear_inode"
    BY <1>1, <1>3 DEF ThreadType
  <1>5. PutInv(th[t])'
    BY <1>4 DEF PutInv, PutPcs
  <1>6. RemoveInv(th[t])'
    BY <1>1, <1>3, <1>4 DEF RemoveInv, RemovePcs
  <1>7. th'[t].pc \in RemovePcs /\ th'[t].i >= th[t].i
    BY <1>2, <1>4 DEF RemovePcs
  <1>8. Taken(t)' \subseteq Taken(t)
    BY <1>1, <1>4, Pcs DEF Taken, RemovePcs
  <1> QED BY <1>2, <1>3, <1>4, <1>5, <1>6, <1>7, <1>8, MutatorStep
-----------------------------------------------------------------------------
(* The steps that write to the disk: besides the parts of the invariant    *)
(* that they are about, they keep those of other puts, removes and gets.   *)
LEMMA WriteStep ==
    ASSUME Inv, TypeInv', Apart', NEW t \in Threads, Mutates(t),
           th'[t].op = "idle" \/ (th'[t].op = th[t].op /\ th'[t].id = th[t].id),
           \A u \in Threads \ {t} : th'[u] = th[u],
           \A i \in Inums \ {th[t].id} : itable'[i] = itable[i] /\ content'[i] = content[i],
           used' = used \/ Marking(t),
           \A u \in Threads \ {t} : \A b \in Taken(u) :
               Fresh(b)' /\ data'[b] = data[b] /\ b \notin Taken(t)',
           NamedMarked', SlotsExclusive', ContentInv', PutInv(th[t])', RemoveInv(th[t])'
    PROVE  Inv'
  <1>1. \A u \in Threads : PutInv(th[u])' /\ RemoveInv(th[u])'
    <2>1. \A u \in Threads \ {t} : PutInv(th[u])' /\ RemoveInv(th[u])'
      BY WritersKept
    <2> QED BY <2>1
  <1>2. \A u \in Threads : GetInv(th[u])'
    BY ReadersKept
  <1>3. PutsApart'
    <2> SUFFICES ASSUME NEW u \in Threads, NEW v \in Threads, u # v
                 PROVE  Taken(u)' \cap Taken(v)' = {}
      BY DEF PutsApart
    <2>1. \A w \in Threads \ {t} : Taken(w)' = Taken(w)
      BY DEF Taken
    <2>2. CASE u # t /\ v # t
      BY <2>1, <2>2 DEF Inv, PutsApart
    <2>3. CASE u = t \/ v = t
      BY <2>1, <2>3
    <2> QED BY <2>2, <2>3
  <1> QED BY <1>1, <1>2, <1>3 DEF Inv

(* Slots hold block numbers.                                               *)
LEMMA SlotTyped ==
    /\ Inv => \A i \in Inums, k \in 1 .. NDIRECT : itable[i].blocks[k] \in 0 .. NDATA
    /\ \A r \in ThreadType, k \in 1 .. NDIRECT : r.ino.blocks[k] \in 0 .. NDATA
  <1>1. ASSUME NEW ino \in InodeType, NEW k \in 1 .. NDIRECT PROVE ino.blocks[k] \in 0 .. NDATA
    BY DEF InodeType
  <1>2. ASSUME Inv, NEW i \in Inums PROVE itable[i] \in InodeType
    BY <1>2 DEF Inv, TypeInv, TypeOK
  <1>3. ASSUME NEW r \in ThreadType PROVE r.ino \in InodeType
    BY Fields
  <1> QED BY <1>1, <1>2, <1>3

(* Fresh blocks are data blocks.                                           *)
LEMMA FreshTyped == ASSUME Inv, NEW b, Fresh(b) PROVE b \in 0 .. NDATA /\ b # 0 /\ b \in used
  BY ProcessAssumption DEF Inv, TypeInv, TypeOK, Fresh, DataBlocks

(* A write to a block that no live slot names, or none but a free one's,   *)
(* changes the content of no extent that is not being removed.             *)
LEMMA ContentKept ==
    ASSUME Inv, NEW i \in Inums, ~Removing(i), NEW d,
           \A b \in 0 .. NDATA : b # d => data'[b] = data[b],
           Fresh(d) \/ d \notin used,
           itable'[i] = itable[i], content'[i] = content[i]
    PROVE  Holds(i)'
  <1>1. Holds(i)
    BY DEF Inv, ContentInv
  <1>2. Len(content[i]) \in Nat /\ Len(content[i]) <= NDIRECT
    BY PayloadTyped, ProcessAssumption DEF Inv, TypeInv, TypeOK
  <1>3. ASSUME NEW k \in 1 .. Len(content[i])
        PROVE  data'[itable[i].blocks[k]] = data[itable[i].blocks[k]]
    <2>1. k \in 1 .. NDIRECT
      BY <1>2, ProcessAssumption
    <2>2. Live(i, k)
      BY <2>1, LiveSlots DEF Removing
    <2>3. itable[i].blocks[k] \in 0 .. NDATA /\ itable[i].blocks[k] # 0
      BY <1>1, <2>1, SlotTyped DEF Holds
    <2>4. itable[i].blocks[k] \in used
      BY <2>1, <2>2, <2>3 DEF Inv, NamedMarked
    <2>5. itable[i].blocks[k] # d
      BY <2>1, <2>2, <2>4 DEF Fresh
    <2> QED BY <2>3, <2>5
  <1> QED BY <1>1, <1>3 DEF Holds

(* The block that mark_bit takes was free, so no inode names it and no     *)
(* other put has it.                                                       *)
LEMMA MarkWrite ==
    ASSUME Inv, TypeInv', Apart', NEW t \in Threads, mark_write(t)
    PROVE  Inv'
  <1> DEFINE r == th[t]
  <1>1. r \in ThreadType /\ PcInv(r) /\ PutInv(r) /\ r.pc = "mark_write"
    BY DEF Inv, TypeInv, TypeOK, mark_write, At
  <1>2. r.op = "put" /\ Mutates(t) /\ r.i \in Nat /\ r.bits = used /\ r.b \notin used
        /\ r.b \in DataBlocks
    BY <1>1, Pcs, Fields DEF Mutates, PutPcs, PutInv, PcInv
  <1>3. /\ used' = used \cup {r.b}
        /\ UNCHANGED <<data, itable, content>>
        /\ \A u \in Threads \ {t} : th'[u] = th[u]
        /\ th'[t] = [r EXCEPT !.pc = "write_block"]
    BY <1>2 DEF mark_write, Goto, Inv, TypeInv, TypeOK
  <1>4. /\ th'[t].op = r.op /\ th'[t].id = r.id /\ th'[t].i = r.i /\ th'[t].ino = r.ino
        /\ th'[t].buf = r.buf /\ th'[t].b = r.b /\ th'[t].pc = "write_block"
    BY <1>1, <1>3 DEF ThreadType
  <1>5. /\ \A i \in Inums, k \in 1 .. NDIRECT : Live(i, k)' <=> Live(i, k)
        /\ \A i \in Inums : Removing(i)' <=> Removing(i)
    BY <1>1, <1>3, <1>4, LiveKept DEF RemovePcs
  <1>6. /\ r.b # 0
        /\ \A i \in Inums, k \in 1 .. NDIRECT : Live(i, k) => itable[i].blocks[k] # r.b
    <2>1. r.b # 0
      BY <1>2 DEF DataBlocks
    <2> QED BY <1>2, <2>1 DEF Inv, NamedMarked
  <1>7. NamedMarked' /\ SlotsExclusive' /\ (\A b : Fresh(b) => Fresh(b)') /\ Fresh(r.b)'
    BY <1>3, <1>5, <1>6 DEF Inv, NamedMarked, SlotsExclusive, Fresh
  <1>8. ContentInv'
    BY <1>3, <1>5 DEF Inv, ContentInv, Holds
  <1>9. PutInv(th[t])'
    <2>1. \A k \in 1 .. NDIRECT : k < r.i => r.ino.blocks[k] # r.b
      BY <1>1, <1>2 DEF PutInv, PutPcs, Fresh
    <2> QED BY <1>1, <1>3, <1>4, <1>7, <2>1 DEF PutInv, PutPcs
  <1>10. RemoveInv(th[t])'
    BY <1>4 DEF RemoveInv, RemovePcs
  <1>11. ASSUME NEW u \in Threads \ {t}, NEW b \in Taken(u)
         PROVE  Fresh(b)' /\ data'[b] = data[b] /\ b \notin Taken(t)'
    <2>1. Fresh(b) /\ b # r.b
      BY <1>2, TakenFresh DEF Fresh
    <2>2. Taken(t)' \subseteq Taken(t) \cup {r.b}
      BY <1>2, <1>4 DEF Taken
    <2>3. b \notin Taken(t)
      BY DEF Inv, PutsApart
    <2> QED BY <1>3, <1>7, <2>1, <2>2, <2>3
  <1>12. Marking(t)
    BY <1>1 DEF Marking
  <1> QED BY <1>2, <1>3, <1>4, <1>7, <1>8, <1>9, <1>10, <1>11, <1>12, WriteStep

(* The block that is written is the put's own: no extent changes with it.  *)
LEMMA WriteBlock ==
    ASSUME Inv, TypeInv', Apart', NEW t \in Threads, write_block(t)
    PROVE  Inv'
  <1> DEFINE r == th[t]
  <1>1. r \in ThreadType /\ PcInv(r) /\ PutInv(r) /\ r.pc = "write_block"
    BY DEF Inv, TypeInv, TypeOK, write_block, At
  <1>2. /\ r.op = "put" /\ Mutates(t) /\ r.i \in 1 .. NDIRECT /\ r.i <= Len(r.buf)
        /\ r.b \in DataBlocks /\ Fresh(r.b)
        /\ \A k \in 1 .. NDIRECT : k < r.i => r.ino.blocks[k] # r.b
    <2>1. r.op = "put" /\ Mutates(t)
      BY <1>1, Pcs DEF Mutates, PutPcs
    <2>2. r.i <= Len(r.buf) /\ r.b \in DataBlocks
      BY <1>1 DEF PutPcs, PcInv
    <2>3. r.i \in 1 .. NDIRECT
      BY <1>1, <2>2, Fields, ProcessAssumption
    <2> QED BY <1>1, <2>1, <2>2, <2>3 DEF PutPcs, PutInv
  <1>3. /\ data' = [data EXCEPT ![r.b] = r.buf[r.i]]
        /\ UNCHANGED <<used, itable, content>>
        /\ \A u \in Threads \ {t} : th'[u] = th[u]
        /\ th'[t] = [r EXCEPT !.ino.blocks[r.i] = r.b, !.i = @ + 1, !.b = 1, !.pc = "is_free"]
    BY <1>2 DEF write_block, Goto, Inv, TypeInv, TypeOK
  <1>4. /\ th'[t].op = r.op /\ th'[t].id = r.id /\ th'[t].i = r.i + 1 /\ th'[t].buf = r.buf
        /\ th'[t].ino.blocks = [r.ino.blocks EXCEPT ![r.i] = r.b] /\ th'[t].pc = "is_free"
    BY <1>1, <1>3 DEF ThreadType, InodeType
  <1>5. /\ data'[r.b] = r.buf[r.i] /\ \A d \in 0 .. NDATA : d # r.b => data'[d] = data[d]
    BY <1>2, <1>3 DEF Inv, TypeInv, TypeOK, DataBlocks
  <1>6. /\ \A k \in 1 .. NDIRECT : r.ino.blocks[k] \in 0 .. NDATA
        /\ r.ino.blocks \in [1 .. NDIRECT -> 0 .. NDATA]
    BY <1>1, Fields, SlotTyped
  <1>l. /\ \A i \in Inums, k \in 1 .. NDIRECT : Live(i, k)' <=> Live(i, k)
        /\ \A i \in Inums : Removing(i)' <=> Removing(i)
    BY <1>1, <1>3, <1>4, LiveKept DEF RemovePcs
  <1>7. NamedMarked' /\ SlotsExclusive' /\ \A b : Fresh(b)' <=> Fresh(b)
    BY <1>3, <1>l DEF Inv, NamedMarked, SlotsExclusive, Fresh
  <1>8. ContentInv'
    BY <1>2, <1>3, <1>5, <1>l, ContentKept DEF ContentInv
  <1>t. \A k \in 1 .. NDIRECT : th'[t].ino.blocks[k] = IF k = r.i THEN r.b ELSE r.ino.blocks[k]
    BY <1>2, <1>4, <1>6
  <1>9. PutInv(th[t])'
    <2>2. \A k \in 1 .. NDIRECT : /\ k < th'[t].i <=> k < r.i \/ k = r.i
                                  /\ k >= th'[t].i => k >= r.i /\ k # r.i
                                  /\ ~(k < r.i /\ k = r.i)
      BY <1>2, <1>4
    <2>3. \A k \in 1 .. NDIRECT : k >= th'[t].i => th'[t].ino.blocks[k] = itable'[r.id].blocks[k]
      BY <1>1, <1>3, <1>t, <2>2 DEF PutInv, PutPcs
    <2>4. \A k \in 1 .. NDIRECT : k < th'[t].i => Fresh(th'[t].ino.blocks[k])
      BY <1>1, <1>2, <1>t, <2>2 DEF PutInv, PutPcs
    <2>5. \A k \in 1 .. NDIRECT : k < th'[t].i => data'[th'[t].ino.blocks[k]] = r.buf[k]
      <3> SUFFICES ASSUME NEW k \in 1 .. NDIRECT, k < th'[t].i
                   PROVE  data'[th'[t].ino.blocks[k]] = r.buf[k]
        OBVIOUS
      <3>1. CASE k = r.i
        BY <1>5, <1>t, <3>1
      <3>2. CASE k < r.i
        <4>1. r.ino.blocks[k] \in 0 .. NDATA /\ r.ino.blocks[k] # r.b
          BY <1>2, <1>6, <3>2
        <4>2. data[r.ino.blocks[k]] = r.buf[k]
          BY <1>1, <3>2 DEF PutInv, PutPcs
        <4>3. th'[t].ino.blocks[k] = r.ino.blocks[k]
          BY <1>t, <2>2, <3>2
        <4> QED BY <1>5, <4>1, <4>2, <4>3
      <3> QED BY <2>2, <3>1, <3>2
    <2>6. \A k, l \in 1 .. NDIRECT :
            k < th'[t].i /\ l < th'[t].i /\ th'[t].ino.blocks[k] = th'[t].ino.blocks[l] => k = l
      BY <1>1, <1>2, <1>t, <2>2 DEF PutInv, PutPcs
    <2> QED BY <1>4, <1>7, <2>3, <2>4, <2>5, <2>6 DEF PutInv
  <1>10. RemoveInv(th[t])'
    BY <1>4 DEF RemoveInv, RemovePcs
  <1>11. Taken(t)' \subseteq Taken(t)
    <2> SUFFICES ASSUME NEW b \in Taken(t)' PROVE b \in Taken(t)
      OBVIOUS
    <2>1. PICK k \in 1 .. r.i : b = th'[t].ino.blocks[k]
      <3>1. th'[t].i - 1 = r.i
        BY <1>2, <1>4
      <3> QED BY <1>2, <1>4, <3>1 DEF Taken
    <2>2. k \in 1 .. NDIRECT /\ (k = r.i \/ k < r.i)
      BY <1>2, ProcessAssumption
    <2>3. /\ r.b \in Taken(t)
          /\ k < r.i => r.ino.blocks[k] \in Taken(t)
      BY <1>1, <2>2, TakenBlocks DEF PutPcs
    <2> QED BY <1>t, <2>1, <2>2, <2>3
  <1>12. ASSUME NEW u \in Threads \ {t}, NEW b \in Taken(u)
         PROVE  Fresh(b)' /\ data'[b] = data[b] /\ b \notin Taken(t)'
    <2>1. Fresh(b) /\ b \in 0 .. NDATA
      BY TakenFresh, FreshTyped
    <2>2. r.b \in Taken(t) /\ b \notin Taken(t)
      BY <1>1, TakenBlocks DEF Inv, PutsApart, PutPcs
    <2> QED BY <1>5, <1>7, <1>11, <2>1, <2>2
  <1> QED BY <1>2, <1>3, <1>4, <1>7, <1>8, <1>9, <1>10, <1>12, WriteStep

(* The inode that is put names its fresh blocks and its old slots.         *)
LEMMA PutInode ==
    ASSUME Inv, TypeInv', Apart', NEW t \in Threads, put_inode(t)
    PROVE  Inv'
  <1> DEFINE r == th[t]
             new == [r.ino EXCEPT !.size = Len(r.buf)]
  <1>1. r \in ThreadType /\ PcInv(r) /\ PutInv(r) /\ r.pc = "is_free" /\ r.i > Len(r.buf)
    BY DEF Inv, TypeInv, TypeOK, put_inode, At
  <1>2. /\ r.op = "put" /\ Mutates(t) /\ r.id \in Inums /\ r.i \in Nat
        /\ Len(r.buf) \in Nat /\ r.i = Len(r.buf) + 1 /\ Len(r.buf) <= NDIRECT
    <2>1. r.op = "put" /\ Mutates(t) /\ r.i <= Len(r.buf) + 1
      BY <1>1, Pcs DEF Mutates, PutPcs, PcInv
    <2> QED BY <1>1, <2>1, Fields
  <1>3. /\ itable' = [itable EXCEPT ![r.id] = new]
        /\ content' = [content EXCEPT ![r.id] = r.buf]
        /\ UNCHANGED <<used, data>> /\ th'[t] = Idle
        /\ \A u \in Threads \ {t} : th'[u] = th[u]
    BY DEF put_inode, Goto, Inv, TypeInv, TypeOK
  <1>4. /\ itable'[r.id].blocks = r.ino.blocks /\ itable'[r.id].size = Len(r.buf)
        /\ content'[r.id] = r.buf
        /\ \A i \in Inums \ {r.id} : itable'[i] = itable[i] /\ content'[i] = content[i]
    <2>1. new.blocks = r.ino.blocks /\ new.size = Len(r.buf)
      BY <1>1, Fields DEF InodeType
    <2> HIDE DEF new
    <2> QED BY <1>2, <1>3, <2>1 DEF Inv, TypeInv, TypeOK
  <1>l. /\ \A i \in Inums, k \in 1 .. NDIRECT : Live(i, k)' <=> Live(i, k)
        /\ \A i \in Inums : Removing(i)' <=> Removing(i)
    BY <1>1, <1>3, LiveKept DEF RemovePcs, Idle
  <1>5. ASSUME NEW a \in Inums, NEW m \in 1 .. NDIRECT
        PROVE  \/ itable'[a].blocks[m] = itable[a].blocks[m]
               \/ /\ Fresh(itable'[a].blocks[m]) /\ a = r.id /\ m < r.i
                  /\ itable'[a].blocks[m] = r.ino.blocks[m]
    <2>1. m < r.i \/ m >= r.i
      BY <1>2
    <2>2. \/ r.ino.blocks[m] = itable[r.id].blocks[m]
          \/ Fresh(r.ino.blocks[m]) /\ m < r.i
      BY <1>1, <2>1 DEF PutInv, PutPcs
    <2> QED BY <1>4, <2>2
  <1>7. NamedMarked'
    <2> SUFFICES ASSUME NEW i \in Inums, NEW k \in 1 .. NDIRECT, Live(i, k)
                 PROVE  itable'[i].blocks[k] \in used \cup {0}
      BY <1>3, <1>l DEF NamedMarked
    <2> QED BY <1>5 DEF Inv, NamedMarked, Fresh
  <1>8. SlotsExclusive'
    <2> SUFFICES ASSUME NEW i \in Inums, NEW j \in Inums, NEW k \in 1 .. NDIRECT, NEW l \in 1 .. NDIRECT,
                        Live(i, k), Live(j, l),
                        itable'[i].blocks[k] = itable'[j].blocks[l], itable'[i].blocks[k] # 0
                 PROVE  i = j /\ k = l
      BY <1>l DEF SlotsExclusive
    <2>2. CASE itable'[i].blocks[k] = itable[i].blocks[k] /\ itable'[j].blocks[l] = itable[j].blocks[l]
      <3>1. itable[i].blocks[k] = itable[j].blocks[l] /\ itable[i].blocks[k] # 0
        BY <2>2
      <3>2. SlotsExclusive
        BY DEF Inv
      <3> QED BY <3>1, <3>2 DEF SlotsExclusive
    <2>3. CASE Fresh(itable'[i].blocks[k]) /\ itable'[j].blocks[l] = itable[j].blocks[l]
      BY <2>3 DEF Fresh
    <2>4. CASE itable'[i].blocks[k] = itable[i].blocks[k] /\ Fresh(itable'[j].blocks[l])
      BY <2>4 DEF Fresh
    <2>5. CASE /\ i = r.id /\ k < r.i /\ itable'[i].blocks[k] = r.ino.blocks[k]
               /\ j = r.id /\ l < r.i /\ itable'[j].blocks[l] = r.ino.blocks[l]
      BY <1>1, <2>5 DEF PutInv, PutPcs
    <2> QED BY <1>5, <2>2, <2>3, <2>4, <2>5
  <1>9. ContentInv'
    <2> SUFFICES ASSUME NEW i \in Inums PROVE Removing(i) \/ Holds(i)'
      BY <1>l DEF ContentInv
    <2>1. CASE i # r.id
      BY <1>3, <1>4, <2>1 DEF Inv, ContentInv, Holds
    <2>2. CASE i = r.id
      <3> SUFFICES ASSUME NEW k \in 1 .. Len(r.buf)
                   PROVE  r.ino.blocks[k] # 0 /\ data[r.ino.blocks[k]] = r.buf[k]
        BY <1>3, <1>4, <2>2 DEF Holds
      <3>1. k \in 1 .. NDIRECT /\ k < r.i
        BY <1>2, ProcessAssumption
      <3>2. Fresh(r.ino.blocks[k]) /\ data[r.ino.blocks[k]] = r.buf[k]
        BY <1>1, <3>1 DEF PutInv, PutPcs
      <3> QED BY <3>2, FreshTyped
    <2> QED BY <2>1, <2>2
  <1>10. PutInv(th[t])' /\ RemoveInv(th[t])' /\ th'[t].op = "idle"
    BY <1>3 DEF PutInv, RemoveInv, PutPcs, RemovePcs, Idle
  <1>11. ASSUME NEW u \in Threads \ {t}, NEW b \in Taken(u)
         PROVE  Fresh(b)' /\ data'[b] = data[b] /\ b \notin Taken(t)'
    <2>1. Fresh(b) /\ b \notin Taken(t)
      BY TakenFresh DEF Inv, PutsApart
    <2>2. ASSUME NEW i \in Inums, NEW k \in 1 .. NDIRECT, Live(i, k) PROVE itable'[i].blocks[k] # b
      <3>1. CASE itable'[i].blocks[k] = itable[i].blocks[k]
        BY <2>1, <2>2, <3>1 DEF Fresh
      <3>2. CASE k < r.i /\ itable'[i].blocks[k] = r.ino.blocks[k]
        BY <1>1, <2>1, <3>2, TakenBlocks DEF PutPcs
      <3> QED BY <1>5, <3>1, <3>2
    <2>3. Fresh(b)'
      BY <1>3, <1>l, <2>1, <2>2 DEF Fresh
    <2>4. Taken(t)' = {}
      BY <1>10 DEF Taken
    <2> QED BY <1>3, <2>3, <2>4
  <1> QED BY <1>2, <1>3, <1>4, <1>7, <1>8, <1>9, <1>10, <1>11, WriteStep

(* The mark that goes is that of one slot, which counts as given back; no  *)
(* put has taken its block.                                                *)
LEMMA UnmarkWrite ==
    ASSUME Inv, TypeInv', Apart', NEW t \in Threads, unmark_write(t)
    PROVE  Inv'
  <1> DEFINE r == th[t]
  <1>1. r \in ThreadType /\ PcInv(r) /\ RemoveInv(r) /\ r.pc = "unmark_write"
    BY DEF Inv, TypeInv, TypeOK, unmark_write, At
  <1>2. /\ r.op = "remove" /\ Mutates(t) /\ r.bits = used /\ r.id \in Inums
        /\ r.i \in 1 .. NDIRECT /\ r.b = itable[r.id].blocks[r.i] /\ r.b # 0
    <2>1. r.op = "remove" /\ Mutates(t) /\ r.bits = used /\ r.ino = itable[r.id]
      BY <1>1, Pcs DEF Mutates, RemovePcs, RemoveInv
    <2>2. r.i <= NDIRECT /\ r.b \in DataBlocks /\ r.b = r.ino.blocks[r.i]
      BY <1>1 DEF PcInv, RemovePcs
    <2> QED BY <1>1, <2>1, <2>2, Fields, ProcessAssumption DEF DataBlocks
  <1>3. /\ used' = used \ {r.b}
        /\ UNCHANGED <<data, itable, content>>
        /\ \A u \in Threads \ {t} : th'[u] = th[u]
        /\ th'[t] = [r EXCEPT !.pc = "clear_block"]
    BY <1>2 DEF unmark_write, Goto, Inv, TypeInv, TypeOK
  <1>4. /\ th'[t].op = r.op /\ th'[t].id = r.id /\ th'[t].i = r.i /\ th'[t].ino = r.ino
        /\ th'[t].b = r.b /\ th'[t].pc = "clear_block"
    BY <1>1, <1>3 DEF ThreadType
  <1>5. Live(r.id, r.i)
    <2> SUFFICES ASSUME NEW u \in Threads, FreedBy(th[u], r.id, r.i) PROVE FALSE
      BY DEF Live
    <2>1. CASE u = t
      BY <1>1, <1>2, <2>1 DEF FreedBy
    <2>2. CASE u # t
      <3>1. th[u].op = "remove" /\ th[u].id = r.id
        BY Pcs DEF FreedBy, RemovePcs, Inv, TypeInv, TypeOK
      <3> QED BY <1>2, <2>2, <3>1 DEF Inv, Apart, Mutates
    <2> QED BY <2>1, <2>2
  <1>6. ASSUME NEW i \in Inums, NEW k \in 1 .. NDIRECT, Live(i, k)'
        PROVE  Live(i, k) /\ ~(i = r.id /\ k = r.i)
    <2>1. ~(i = r.id /\ k = r.i)
      BY <1>4, <1>6 DEF Live, FreedBy
    <2>2. ASSUME NEW u \in Threads, FreedBy(th[u], i, k) PROVE FreedBy(th[u], i, k)'
      <3>1. CASE u = t
        BY <1>1, <1>4, <2>2, <3>1 DEF FreedBy
      <3>2. CASE u # t
        BY <1>3, <2>2, <3>2 DEF FreedBy
      <3> QED BY <3>1, <3>2
    <2> QED BY <1>6, <2>1, <2>2 DEF Live
  <1>7. ASSUME NEW i \in Inums, NEW k \in 1 .. NDIRECT, Live(i, k)' PROVE itable[i].blocks[k] # r.b
    BY <1>2, <1>5, <1>6, <1>7 DEF Inv, SlotsExclusive
  <1>8. NamedMarked' /\ SlotsExclusive'
    <2>1. NamedMarked'
      BY <1>3, <1>6, <1>7 DEF Inv, NamedMarked
    <2>2. SlotsExclusive'
      BY <1>3, <1>6 DEF Inv, SlotsExclusive
    <2> QED BY <2>1, <2>2
  <1>9. ContentInv'
    <2>1. \A i \in Inums : Removing(i) => Removing(i)'
      <3> SUFFICES ASSUME NEW i \in Inums, NEW u \in Threads, th[u].pc \in RemovePcs, th[u].id = i
                   PROVE  th'[u].pc \in RemovePcs /\ th'[u].id = i
        BY DEF Removing
      <3>1. CASE u = t
        BY <1>4, <3>1 DEF RemovePcs
      <3>2. CASE u # t
        BY <1>3, <3>2
      <3> QED BY <3>1, <3>2
    <2> QED BY <1>3, <2>1 DEF Inv, ContentInv, Holds
  <1>10. PutInv(th[t])' /\ RemoveInv(th[t])'
    BY <1>1, <1>3, <1>4 DEF PutInv, RemoveInv, PutPcs, RemovePcs
  <1>11. ASSUME NEW u \in Threads \ {t}, NEW b \in Taken(u)
         PROVE  Fresh(b)' /\ data'[b] = data[b] /\ b \notin Taken(t)'
    <2>1. Fresh(b)
      BY TakenFresh
    <2>2. b # r.b
      BY <1>2, <1>5, <2>1 DEF Fresh
    <2>3. Fresh(b)'
      BY <1>3, <1>6, <2>1, <2>2 DEF Fresh
    <2>4. Taken(t)' = {}
      BY <1>2, <1>4 DEF Taken
    <2> QED BY <1>3, <2>3, <2>4
  <1>12. Marking(t)
    BY <1>1 DEF Marking
  <1> QED BY <1>2, <1>3, <1>4, <1>8, <1>9, <1>10, <1>11, <1>12, WriteStep

(* The block that is cleared is free: it is in no extent, nor taken.       *)
LEMMA ClearBlock ==
    ASSUME Inv, TypeInv', Apart', NEW t \in Threads, clear_block(t)
    PROVE  Inv'
  <1> DEFINE r == th[t]
  <1>1. r \in ThreadType /\ PcInv(r) /\ RemoveInv(r) /\ r.pc = "clear_block"
    BY DEF Inv, TypeInv, TypeOK, clear_block, At
  <1>2. r.op = "remove" /\ Mutates(t) /\ r.i \in Nat /\ r.b \notin used
    BY <1>1, Pcs, Fields DEF Mutates, RemovePcs, RemoveInv
  <1>3. /\ data' = [data EXCEPT ![r.b] = 0]
        /\ UNCHANGED <<used, itable, content>>
        /\ \A u \in Threads \ {t} : th'[u] = th[u]
        /\ th'[t] = [r EXCEPT !.i = @ + 1, !.pc = "free_block"]
    BY DEF clear_block, Goto, Inv, TypeInv, TypeOK
  <1>4. /\ th'[t].op = r.op /\ th'[t].id = r.id /\ th'[t].i = r.i + 1 /\ th'[t].ino = r.ino
        /\ th'[t].pc = "free_block"
    BY <1>1, <1>3 DEF ThreadType
  <1>5. ASSUME NEW i \in Inums, NEW k \in 1 .. NDIRECT, Live(i, k)' PROVE Live(i, k)
    <2> SUFFICES ASSUME NEW u \in Threads, FreedBy(th[u], i, k) PROVE FreedBy(th[u], i, k)'
      BY <1>5 DEF Live
    <2>1. CASE u = t
      <3>1. k <= r.i
        BY <1>2, <2>1 DEF FreedBy
      <3> QED BY <1>2, <1>4, <2>1, <3>1 DEF FreedBy
    <2>2. CASE u # t
      BY <1>3, <2>2 DEF FreedBy
    <2> QED BY <2>1, <2>2
  <1>6. NamedMarked' /\ SlotsExclusive' /\ \A b : Fresh(b) => Fresh(b)'
    BY <1>3, <1>5 DEF Inv, NamedMarked, SlotsExclusive, Fresh
  <1>7. \A d \in 0 .. NDATA : d # r.b => data'[d] = data[d]
    BY <1>3 DEF Inv, TypeInv, TypeOK
  <1>8. ContentInv'
    <2>1. \A i \in Inums : Removing(i) => Removing(i)'
      <3> SUFFICES ASSUME NEW i \in Inums, NEW u \in Threads, th[u].pc \in RemovePcs, th[u].id = i
                   PROVE  th'[u].pc \in RemovePcs /\ th'[u].id = i
        BY DEF Removing
      <3>1. CASE u = t
        BY <1>4, <3>1 DEF RemovePcs
      <3>2. CASE u # t
        BY <1>3, <3>2
      <3> QED BY <3>1, <3>2
    <2> QED BY <1>2, <1>3, <1>7, <2>1, ContentKept DEF ContentInv
  <1>9. PutInv(th[t])' /\ RemoveInv(th[t])'
    BY <1>1, <1>3, <1>4 DEF PutInv, RemoveInv, PutPcs, RemovePcs
  <1>10. ASSUME NEW u \in Threads \ {t}, NEW b \in Taken(u)
         PROVE  Fresh(b)' /\ data'[b] = data[b] /\ b \notin Taken(t)'
    <2>1. Fresh(b) /\ b \in 0 .. NDATA /\ b \in used
      BY TakenFresh, FreshTyped
    <2>2. Taken(t)' = {}
      BY <1>2, <1>4 DEF Taken
    <2> QED BY <1>2, <1>6, <1>7, <2>1, <2>2
  <1> QED BY <1>2, <1>3, <1>4, <1>6, <1>8, <1>9, <1>10, WriteStep

(* The inode of the extent removed names no block any more.                *)
LEMMA ClearInode ==
    ASSUME Inv, TypeInv', Apart', NEW t \in Threads, clear_inode(t)
    PROVE  Inv'
  <1> DEFINE r == th[t]
  <1>1. r \in ThreadType /\ PcInv(r) /\ RemoveInv(r) /\ r.pc = "clear_inode"
    BY DEF Inv, TypeInv, TypeOK, clear_inode, At
  <1>2. r.op = "remove" /\ Mutates(t) /\ r.id \in Inums
    BY <1>1, Pcs, Fields DEF Mutates, RemovePcs
  <1>3. /\ UNCHANGED <<used, data>> /\ th'[t] = Idle
        /\ \A u \in Threads \ {t} : th'[u] = th[u]
        /\ itable'[r.id] = ZeroInode /\ content'[r.id] = <<>>
        /\ \A i \in Inums \ {r.id} : itable'[i] = itable[i] /\ content'[i] = content[i]
    BY <1>2 DEF clear_inode, Goto, Inv, TypeInv, TypeOK
  <1>4. \A k \in 1 .. NDIRECT : itable'[r.id].blocks[k] = 0
    BY <1>3 DEF ZeroInode
  <1>5. ASSUME NEW i \in Inums \ {r.id}, NEW k \in 1 .. NDIRECT, Live(i, k)' PROVE Live(i, k)
    <2> SUFFICES ASSUME NEW u \in Threads, FreedBy(th[u], i, k) PROVE FreedBy(th[u], i, k)'
      BY <1>5 DEF Live
    <2>1. u # t
      BY DEF FreedBy
    <2> QED BY <1>3, <2>1 DEF FreedBy
  <1>6. NamedMarked'
    BY <1>3, <1>4, <1>5 DEF Inv, NamedMarked
  <1>7. SlotsExclusive'
    <2> SUFFICES ASSUME NEW i \in Inums, NEW j \in Inums, NEW k \in 1 .. NDIRECT, NEW l \in 1 .. NDIRECT,
                        Live(i, k)', Live(j, l)',
                        itable'[i].blocks[k] = itable'[j].blocks[l], itable'[i].blocks[k] # 0
                 PROVE  i = j /\ k = l
      BY DEF SlotsExclusive
    <2>1. i # r.id /\ j # r.id
      BY <1>4
    <2> QED BY <1>3, <1>5, <2>1 DEF Inv, SlotsExclusive
  <1>8. ContentInv'
    <2> SUFFICES ASSUME NEW i \in Inums PROVE Removing(i)' \/ Holds(i)'
      BY DEF ContentInv
    <2>1. CASE i = r.id
      <3>1. itable'[i].size = 0 /\ content'[i] = <<>>
        BY <1>3, <2>1 DEF ZeroInode
      <3> QED BY <3>1 DEF Holds
    <2>2. CASE i # r.id
      <3>1. Removing(i) => Removing(i)'
        BY <1>3, <2>2 DEF Removing
      <3> QED BY <1>3, <2>2, <3>1 DEF Inv, ContentInv, Holds
    <2> QED BY <2>1, <2>2
  <1>9. PutInv(th[t])' /\ RemoveInv(th[t])' /\ th'[t].op = "idle"
    BY <1>3 DEF PutInv, RemoveInv, PutPcs, RemovePcs, Idle
  <1>10. ASSUME NEW u \in Threads \ {t}, NEW b \in Taken(u)
         PROVE  Fresh(b)' /\ data'[b] = data[b] /\ b \notin Taken(t)'
    <2>1. Fresh(b) /\ b # 0
      BY TakenFresh, FreshTyped
    <2>2. Fresh(b)'
      BY <1>3, <1>4, <1>5, <2>1 DEF Fresh
    <2>3. Taken(t)' = {}
      BY <1>9 DEF Taken
    <2> QED BY <1>3, <2>2, <2>3
  <1> QED BY <1>2, <1>3, <1>6, <1>7, <1>8, <1>9, <1>10, WriteStep
-----------------------------------------------------------------------------
(* Every step keeps the invariant, unless requests race in it.             *)
LEMMA StepInv == Inv /\ [Next]_vars /\ ~raced' => Inv'
  <1> SUFFICES ASSUME Inv, [Next]_vars, ~raced' PROVE Inv'
    OBVIOUS
  <1>1. TypeInv'
    BY StepTypeInv DEF Inv
  <1>2. CASE UNCHANGED vars
    <2>1. UNCHANGED <<used, data, itable, th, content>>
      BY <1>2 DEF vars
    <2>2. /\ Apart' /\ PutsApart'
          /\ \A i \in Inums, k \in 1 .. NDIRECT : Live(i, k)' <=> Live(i, k)
      <3>1. Apart'
        BY <2>1 DEF Inv, Apart, Marking, Mutates
      <3>2. PutsApart'
        <4>1. \A u \in Threads : Taken(u)' = Taken(u)
          BY <2>1 DEF Taken
        <4> QED BY <4>1 DEF Inv, PutsApart
      <3>3. \A i \in Inums, k \in 1 .. NDIRECT : Live(i, k)' <=> Live(i, k)
        BY <2>1 DEF Live, FreedBy
      <3> QED BY <3>1, <3>2, <3>3
    <2>3. NamedMarked' /\ SlotsExclusive' /\ \A b : Fresh(b)' <=> Fresh(b)
      BY <2>1, <2>2 DEF Inv, NamedMarked, SlotsExclusive, Fresh
    <2>4. ContentInv'
      BY <2>1 DEF Inv, ContentInv, Removing, Holds
    <2>5. \A t \in Threads : PutInv(th[t])' /\ RemoveInv(th[t])' /\ GetInv(th[t])'
      BY <2>1, <2>3 DEF Inv, PutInv, RemoveInv, GetInv, Mutates
    <2> QED BY <1>1, <2>2, <2>3, <2>4, <2>5 DEF Inv
  <1>3. CASE Next
    <2>1. Apart'
      BY <1>3 DEF Next
    <2> PICK t \in Threads :
          \/ \E id \in Inums : \/ dispatch_get(t, id)
                               \/ \E buf \in Payloads : dispatch(t, "put", id, buf)
                               \/ dispatch(t, "remove", id, <<>>)
          \/ get_inode(t) \/ read_block(t) \/ reply(t)
          \/ is_free(t) \/ read_bits(t) \/ mark_write(t) \/ write_block(t) \/ put_inode(t)
          \/ free_block(t) \/ unmark_write(t) \/ clear_block(t) \/ free_inode(t) \/ clear_inode(t)
      BY <1>3 DEF Next
    <2> QED
      BY <1>1, <2>1, DispatchGet, DispatchMutator, GetInode, ReadBlock, ReplyStep, IsFree, ReadBits,
         MarkWrite, WriteBlock, PutInode, FreeBlock, UnmarkWrite, ClearBlock, FreeInode, ClearInode
  <1> QED BY <1>2, <1>3

(* Until requests race all of it holds: raced is never reset.              *)
LEMMA RaceFreeInv == Spec => [](~raced => Inv)
  <1> DEFINE RInv == TypeInv /\ (~raced => Inv)
  <1>1. Init => RInv
    BY InitTypeInv, InitInv
  <1>2. RInv /\ [Next]_vars => RInv'
    <2> SUFFICES ASSUME RInv, [Next]_vars PROVE RInv'
      OBVIOUS
    <2>1. ~raced' => ~raced
      BY DEF Next, vars
    <2> QED BY <2>1, StepTypeInv, StepInv
  <1>3. RInv => (~raced => Inv)
    OBVIOUS
  <1> HIDE DEF RInv
  <1> QED BY <1>1, <1>2, <1>3, PTL DEF Spec

(* What a put has taken is fresh, and no other put's.                      *)
LEMMA InvTaken == Inv => TakenWasFree
  <1> SUFFICES ASSUME Inv, NEW t \in Threads PROVE Taken(t) \cap Named = {}
    BY DEF TakenWasFree, Inv, PutsApart
  <1> SUFFICES ASSUME NEW b \in Taken(t), b \in Named PROVE FALSE
    OBVIOUS
  <1>1. PICK i \in Inums, k \in 1 .. NDIRECT : Live(i, k) /\ b = itable[i].blocks[k]
    BY DEF Named
  <1> QED BY <1>1, TakenFresh DEF Fresh

(* What a get answers is what its extent was given.                        *)
LEMMA InvReaders == Inv => ReadersUndisturbed
  <1> SUFFICES ASSUME Inv, NEW t \in Threads, th[t].pc = "reply", th[t].alone
               PROVE  th[t].out = content[th[t].id]
    BY DEF ReadersUndisturbed
  <1>1. th[t].op = "get"
    BY DEF Inv, TypeInv, TypeOK, ThreadType, PcInv, PutPcs, RemovePcs
  <1> QED BY <1>1 DEF Inv, GetInv

(* Any number of puts and removes of distinct extents may interleave at    *)
(* every access to the disk: until two of them meet between the test of a  *)
(* bit and its being written, alloc_block gives out no block that is in an *)
(* inode or that another put has.                                          *)
THEOREM RaceFreeTakesOnlyFree == Spec => []RaceFreeTakes
  <1>1. (~raced => Inv) => RaceFreeTakes
    BY InvTaken DEF RaceFreeTakes
  <1> QED BY <1>1, RaceFreeInv, PTL

(* Until then a get without a lock, cut at every block it reads, returns   *)
(* the last content of its extent, whatever puts and removes of others do. *)
THEOREM RaceFreeReaders == Spec => []RaceFreeReads
  <1>1. (~raced => Inv) => RaceFreeReads
    BY InvReaders DEF RaceFreeReads
  <1> QED BY <1>1, RaceFreeInv, PTL
=============================================================================
