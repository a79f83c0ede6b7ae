------------------------- MODULE BlockManagerProofs -------------------------
(***************************************************************************)
(* For every geometry the constants may have, the regions of the disk do   *)
(* not overlap, free blocks are zero, only data blocks are marked, and the *)
(* block layer implements the pool of BlockAllocator.                      *)
(***************************************************************************)
EXTENDS BlockManager, TLAPS

(* What \div and % mean, for the provers.                                  *)
LEMMA DivMod ==
    ASSUME NEW b \in Nat
    PROVE  /\ b \div BPB \in Nat
           /\ b % BPB \in Bits
           /\ b = BPB * (b \div BPB) + (b % BPB)
  BY GeometryAssumption, SMT DEF Bits

(* The bitmap block of a smaller id does not come after that of a larger.  *)
LEMMA DivMonotone ==
    ASSUME NEW b \in Nat, NEW c \in Nat, b <= c
    PROVE  b \div BPB <= c \div BPB
  <1> DEFINE p == b \div BPB
             q == c \div BPB
  <1>1. /\ p \in Nat /\ q \in Nat
        /\ BPB * p <= b /\ c < BPB * q + BPB
    BY DivMod, GeometryAssumption DEF Bits
  <1>2. SUFFICES ASSUME q + 1 <= p PROVE FALSE
    BY <1>1
  <1>3. BPB * (q + 1) <= BPB * p
    BY <1>1, <1>2, GeometryAssumption
  <1>4. BPB * (q + 1) = BPB * q + BPB
    BY <1>1, GeometryAssumption
  <1> QED
    BY <1>1, <1>3, <1>4, GeometryAssumption

(* A block and its bit in the bitmap determine each other.                 *)
LEMMA BitInjective ==
    ASSUME NEW b \in Nat, NEW c \in Nat, BBLOCK(b) = BBLOCK(c), bit(b) = bit(c)
    PROVE  b = c
  <1>1. b \div BPB = c \div BPB /\ b % BPB = c % BPB
    BY DivMod DEF BBLOCK, bit
  <1> QED
    BY <1>1, DivMod

(* The three regions lie on the disk, in order and apart from each other   *)
(* and from block 0.  This is what IBLOCK's "+ 3" and alloc_block's first  *)
(* candidate are for.                                                      *)
LEMMA Layout ==
    /\ \A b \in Blocks : BBLOCK(b) \in Blocks /\ BBLOCK(b) # 0
    /\ \A i \in Inums : IBLOCK(i) \in Blocks /\ IBLOCK(i) # 0
    /\ \A b \in Blocks, i \in Inums : BBLOCK(b) # IBLOCK(i)
    /\ \A b \in Blocks, d \in DataBlocks : BBLOCK(b) # d
    /\ \A i \in Inums, d \in DataBlocks : IBLOCK(i) # d
    /\ \A i, j \in Inums : IBLOCK(i) = IBLOCK(j) => i = j
    /\ DataBlocks \subseteq Blocks \ {0}
    /\ 0 \in Blocks
    /\ Blocks \subseteq Nat
  <1> DEFINE n == NBLOCKS \div BPB
  <1>1. n \in Nat /\ IBLOCK(NINODES) = n + NINODES + 3
    BY DivMod, GeometryAssumption DEF IBLOCK
  <1>2. \A b \in Blocks : b \in Nat /\ b \div BPB \in Nat /\ b \div BPB <= n
    <2> SUFFICES ASSUME NEW b \in Blocks
                 PROVE  b \in Nat /\ b \div BPB \in Nat /\ b \div BPB <= n
      OBVIOUS
    <2>1. b \in Nat /\ NBLOCKS \in Nat /\ b <= NBLOCKS
      BY GeometryAssumption DEF Blocks
    <2> QED BY <2>1, DivMod, DivMonotone
  <1>3. \A b \in Blocks : BBLOCK(b) \in Nat /\ 2 <= BBLOCK(b) /\ BBLOCK(b) <= n + 2
    <2> HIDE DEF n
    <2> QED BY <1>1, <1>2 DEF BBLOCK
  <1>4. \A i \in Inums : /\ IBLOCK(i) \in Nat /\ IBLOCK(i) = n + i + 3
                         /\ IBLOCK(i) < first_data
    BY <1>1, GeometryAssumption DEF IBLOCK, Inums, first_data
  <1> HIDE DEF n
  <1>5. first_data = n + NINODES + 4 /\ first_data < NBLOCKS
    BY <1>1, GeometryAssumption DEF first_data
  <1> QED
    BY <1>1, <1>3, <1>4, <1>5, GeometryAssumption DEF Blocks, Inums, DataBlocks

(* mark_bit and unmark_bit change the state of the one block they are      *)
(* given, and no byte outside the bitmap.                                  *)
LEMMA MarkEffect ==
    ASSUME disk \in [Blocks -> SUBSET Bits], NEW id \in Blocks, disk' = mark_bit(id)
    PROVE  /\ disk' \in [Blocks -> SUBSET Bits]
           /\ \A b \in Blocks : is_free(b)' <=> is_free(b) /\ b # id
           /\ \A b \in Blocks : (\A c \in Blocks : BBLOCK(c) # b) => disk'[b] = disk[b]
  <1>1. BBLOCK(id) \in Blocks /\ bit(id) \in Bits
    BY Layout, DivMod DEF bit
  <1>2. disk' = [disk EXCEPT ![BBLOCK(id)] = @ \cup {bit(id)}]
    BY DEF mark_bit
  <1>3. \A b \in Blocks : BBLOCK(b) \in Blocks
                          /\ (BBLOCK(b) = BBLOCK(id) /\ bit(b) = bit(id) => b = id)
    BY Layout, BitInjective
  <1>4. ASSUME NEW b \in Blocks PROVE is_free(b)' <=> is_free(b) /\ b # id
    BY <1>1, <1>2, <1>3 DEF is_free
  <1> QED
    BY <1>1, <1>2, <1>4

(* free_block clears one mark and one block, and nothing else that counts. *)
LEMMA UnmarkEffect ==
    ASSUME disk \in [Blocks -> SUBSET Bits], NEW id \in DataBlocks,
           disk' = [unmark_bit(id) EXCEPT ![id] = Zero]
    PROVE  /\ disk' \in [Blocks -> SUBSET Bits]
           /\ \A b \in Blocks : is_free(b)' <=> is_free(b) \/ b = id
           /\ disk'[id] = Zero
           /\ \A b \in Blocks \ {id} :
                (\A c \in Blocks : BBLOCK(c) # b) => disk'[b] = disk[b]
  <1>1. BBLOCK(id) \in Blocks /\ bit(id) \in Bits /\ id \in Blocks
    BY Layout, DivMod DEF bit
  <1>2. disk' = [[disk EXCEPT ![BBLOCK(id)] = @ \ {bit(id)}] EXCEPT ![id] = {}]
    BY DEF unmark_bit, Zero
  <1>3. \A b \in Blocks : BBLOCK(b) \in Blocks /\ BBLOCK(b) # id
                          /\ (BBLOCK(b) = BBLOCK(id) /\ bit(b) = bit(id) => b = id)
    BY Layout, BitInjective
  <1>4. ASSUME NEW b \in Blocks PROVE is_free(b)' <=> is_free(b) \/ b = id
    BY <1>1, <1>2, <1>3 DEF is_free
  <1> QED
    BY <1>1, <1>2, <1>4 DEF Zero

(* A write outside the bitmap leaves the state of every block as it was.   *)
LEMMA WriteEffect ==
    ASSUME disk \in [Blocks -> SUBSET Bits], NEW id \in Blocks, NEW buf \in Contents,
           disk' = [disk EXCEPT ![id] = buf],
           \A c \in Blocks : BBLOCK(c) # id
    PROVE  /\ disk' \in [Blocks -> SUBSET Bits]
           /\ \A b \in Blocks : is_free(b)' <=> is_free(b)
           /\ disk'[id] = buf
           /\ \A b \in Blocks \ {id} : disk'[b] = disk[b]
  <1>1. buf \in SUBSET Bits
    BY GeometryAssumption
  <1>2. \A b \in Blocks : BBLOCK(b) \in Blocks
    BY Layout
  <1> QED
    BY <1>1, <1>2 DEF is_free
-----------------------------------------------------------------------------
(* The conjunction is inductive and no conjunct is without the others:     *)
(* that a free block is zero needs that nothing outside the pool is marked *)
(* (else clearing a marked block could clear the bitmap), and both need    *)
(* the shape of the disk.                                                  *)
Inv == TypeOK /\ FreeBlocksZero /\ OnlyDataMarked

(* The zeroed disk satisfies it: every bit is clear, every block is zero.  *)
LEMMA InitInv == Init => Inv
  <1> SUFFICES ASSUME Init PROVE Inv
    OBVIOUS
  <1>1. TypeOK
    BY DEF Init, TypeOK, Zero
  <1>2. \A b \in Blocks : is_free(b)
    BY Layout DEF Init, is_free, Zero
  <1>3. FreeBlocksZero
    BY Layout DEF Init, FreeBlocksZero
  <1>4. OnlyDataMarked
    BY <1>2 DEF OnlyDataMarked
  <1> QED
    BY <1>1, <1>3, <1>4 DEF Inv

(* Every call of the block layer preserves it.                             *)
LEMMA NextInv == Inv /\ [Next]_vars => Inv'
  <1> SUFFICES ASSUME Inv, [Next]_vars PROVE Inv'
    OBVIOUS
  <1> USE DEF Inv
  <1>0. disk \in [Blocks -> SUBSET Bits]
    BY DEF TypeOK
  <1>1. CASE alloc_block
    <2>1. CASE \E id \in DataBlocks :
                 is_free(id) /\ disk' = mark_bit(id) /\ ret' = id
      <3>1. PICK id \in DataBlocks : is_free(id) /\ disk' = mark_bit(id) /\ ret' = id
        BY <2>1
      <3>2. id \in Blocks
        BY Layout
      <3>3. /\ disk' \in [Blocks -> SUBSET Bits]
            /\ \A b \in Blocks : is_free(b)' <=> is_free(b) /\ b # id
            /\ \A b \in Blocks : (\A c \in Blocks : BBLOCK(c) # b) => disk'[b] = disk[b]
        BY <1>0, <3>1, <3>2, MarkEffect
      <3>4. TypeOK'
        BY <3>1, <3>3 DEF TypeOK
      <3>5. FreeBlocksZero'
        BY <3>3, Layout DEF FreeBlocksZero
      <3>6. OnlyDataMarked'
        BY <3>3 DEF OnlyDataMarked
      <3> QED BY <3>4, <3>5, <3>6
    <2>2. CASE ret' = 0 /\ UNCHANGED disk
      BY <2>2 DEF TypeOK, FreeBlocksZero, OnlyDataMarked, is_free
    <2> QED BY <1>1, <2>1, <2>2 DEF alloc_block
  <1>2. ASSUME NEW id \in Blocks, free_block(id) PROVE Inv'
    <2>1. id \in DataBlocks /\ disk' = [unmark_bit(id) EXCEPT ![id] = Zero] /\ ret' = ret
      BY <1>2 DEF free_block, DataBlocks
    <2>2. /\ disk' \in [Blocks -> SUBSET Bits]
          /\ \A b \in Blocks : is_free(b)' <=> is_free(b) \/ b = id
          /\ disk'[id] = Zero
          /\ \A b \in Blocks \ {id} :
               (\A c \in Blocks : BBLOCK(c) # b) => disk'[b] = disk[b]
      BY <1>0, <2>1, UnmarkEffect
    <2>3. TypeOK'
      BY <2>1, <2>2 DEF TypeOK
    <2>4. FreeBlocksZero'
      BY <2>2, Layout DEF FreeBlocksZero
    <2>5. OnlyDataMarked'
      BY <2>2 DEF OnlyDataMarked
    <2> QED BY <2>3, <2>4, <2>5
  <1>3. ASSUME NEW id \in Blocks, NEW buf \in Contents, write_block(id, buf) PROVE Inv'
    <2>1. /\ disk' = [disk EXCEPT ![id] = buf] /\ ret' = ret
          /\ id = 0 \/ (id \in DataBlocks /\ (~is_free(id) \/ buf = Zero))
      BY <1>3 DEF write_block
    <2>2. \A c \in Blocks : BBLOCK(c) # id
      BY <2>1, Layout
    <2>3. /\ disk' \in [Blocks -> SUBSET Bits]
          /\ \A b \in Blocks : is_free(b)' <=> is_free(b)
          /\ \A b \in Blocks \ {id} : disk'[b] = disk[b]
      BY <1>0, <2>1, <2>2, WriteEffect
    <2>4. TypeOK'
      BY <2>1, <2>3 DEF TypeOK
    <2>5. FreeBlocksZero'
      BY <2>1, <2>3, Layout DEF FreeBlocksZero
    <2>6. OnlyDataMarked'
      BY <2>3 DEF OnlyDataMarked
    <2> QED BY <2>4, <2>5, <2>6
  <1>4. ASSUME NEW i \in Inums, NEW buf \in Contents, put_inode(i, buf) PROVE Inv'
    <2>1. disk' = [disk EXCEPT ![IBLOCK(i)] = buf] /\ ret' = ret
      BY <1>4 DEF put_inode
    <2>2. IBLOCK(i) \in Blocks /\ \A c \in Blocks : BBLOCK(c) # IBLOCK(i)
      BY Layout
    <2>3. /\ disk' \in [Blocks -> SUBSET Bits]
          /\ \A b \in Blocks : is_free(b)' <=> is_free(b)
          /\ \A b \in Blocks \ {IBLOCK(i)} : disk'[b] = disk[b]
      BY <1>0, <2>1, <2>2, WriteEffect
    <2>4. TypeOK'
      BY <2>1, <2>3 DEF TypeOK
    <2>5. FreeBlocksZero'
      BY <2>3, Layout DEF FreeBlocksZero
    <2>6. OnlyDataMarked'
      BY <2>3 DEF OnlyDataMarked
    <2> QED BY <2>4, <2>5, <2>6
  <1>5. CASE UNCHANGED vars
    BY <1>5 DEF vars, TypeOK, FreeBlocksZero, OnlyDataMarked, is_free
  <1> QED
    BY <1>1, <1>2, <1>3, <1>4, <1>5 DEF Next

(* It therefore holds in every reachable state.                            *)
LEMMA SpecInv == Spec => []Inv
  BY InitInv, NextInv, PTL DEF Spec

(* alloc_block returns 0 or a data block, and the disk keeps its shape.    *)
THEOREM TypeCorrect == Spec => []TypeOK
  BY SpecInv, PTL DEF Inv

(* On every disk, however long it has run, a block that is free reads as   *)
(* zeros.                                                                  *)
THEOREM FreeBlocksAreZero == Spec => []FreeBlocksZero
  BY SpecInv, PTL DEF Inv

(* No sequence of calls marks a block outside the data region.             *)
THEOREM OnlyDataIsMarked == Spec => []OnlyDataMarked
  BY SpecInv, PTL DEF Inv
-----------------------------------------------------------------------------
(* Every step of the block layer is a step of the pool.                    *)
LEMMA PoolStep == Inv /\ [Next]_vars => [Pool!Next]_Pool!vars
  <1> SUFFICES ASSUME Inv, [Next]_vars PROVE [Pool!Next]_Pool!vars
    OBVIOUS
  <1> DEFINE used == {b \in DataBlocks : ~is_free(b)}
             data == [b \in DataBlocks |-> disk[b]]
             inodes == [i \in Inums |-> disk[IBLOCK(i)]]
  <1>0. disk \in [Blocks -> SUBSET Bits]
    BY DEF Inv, TypeOK
  <1>1. CASE alloc_block
    <2>1. CASE \E id \in DataBlocks :
                 is_free(id) /\ disk' = mark_bit(id) /\ ret' = id
      <3>1. PICK id \in DataBlocks : is_free(id) /\ disk' = mark_bit(id) /\ ret' = id
        BY <2>1
      <3>2. id \in Blocks
        BY Layout
      <3>3. /\ \A b \in Blocks : is_free(b)' <=> is_free(b) /\ b # id
            /\ \A b \in Blocks : (\A c \in Blocks : BBLOCK(c) # b) => disk'[b] = disk[b]
        BY <1>0, <3>1, <3>2, MarkEffect
      <3>4. used' = used \cup {id} /\ id \in DataBlocks \ used
        BY <3>1, <3>3, Layout
      <3>5. data' = data /\ inodes' = inodes /\ disk'[0] = disk[0]
        BY <3>3, Layout
      <3>6. Pool!Alloc
        BY <3>1, <3>4, <3>5 DEF Pool!Alloc
      <3> QED BY <3>6 DEF Pool!Next
    <2>2. CASE (\A b \in DataBlocks : ~is_free(b)) /\ ret' = 0 /\ UNCHANGED disk
      <3>1. used = DataBlocks /\ used' = used
        BY <2>2 DEF is_free
      <3>2. data' = data /\ inodes' = inodes /\ disk'[0] = disk[0]
        BY <2>2
      <3>3. Pool!Alloc
        BY <2>2, <3>1, <3>2 DEF Pool!Alloc
      <3> QED BY <3>3 DEF Pool!Next
    <2> QED BY <1>1, <2>1, <2>2 DEF alloc_block
  <1>2. ASSUME NEW id \in Blocks, free_block(id) PROVE Pool!Next
    <2>1. /\ id \in DataBlocks /\ ~is_free(id)
          /\ disk' = [unmark_bit(id) EXCEPT ![id] = Zero] /\ ret' = ret
      BY <1>2 DEF free_block, DataBlocks
    <2>2. /\ \A b \in Blocks : is_free(b)' <=> is_free(b) \/ b = id
          /\ disk'[id] = Zero
          /\ \A b \in Blocks \ {id} :
               (\A c \in Blocks : BBLOCK(c) # b) => disk'[b] = disk[b]
      BY <1>0, <2>1, UnmarkEffect
    <2>3. id \in used /\ used' = used \ {id}
      BY <2>1, <2>2, Layout
    <2>4. data' = [data EXCEPT ![id] = Zero]
      BY <2>1, <2>2, Layout
    <2>5. inodes' = inodes /\ disk'[0] = disk[0]
      BY <2>1, <2>2, Layout
    <2>6. Pool!Free
      BY <2>1, <2>3, <2>4, <2>5 DEF Pool!Free
    <2> QED BY <2>6 DEF Pool!Next
  <1>3. ASSUME NEW id \in Blocks, NEW buf \in Contents, write_block(id, buf)
        PROVE  [Pool!Next]_Pool!vars
    <2>1. /\ disk' = [disk EXCEPT ![id] = buf] /\ ret' = ret
          /\ id = 0 \/ (id \in DataBlocks /\ (~is_free(id) \/ buf = Zero))
      BY <1>3 DEF write_block
    <2>2. \A c \in Blocks : BBLOCK(c) # id
      BY <2>1, Layout
    <2>3. /\ \A b \in Blocks : is_free(b)' <=> is_free(b)
          /\ disk'[id] = buf
          /\ \A b \in Blocks \ {id} : disk'[b] = disk[b]
      BY <1>0, <2>1, <2>2, WriteEffect
    <2>4. used' = used /\ inodes' = inodes
      BY <2>1, <2>3, Layout
    <2>5. CASE id = 0
      <3>1. data' = data /\ disk'[0] = buf
        BY <2>3, <2>5, Layout
      <3>2. Pool!Write
        BY <2>1, <2>4, <3>1 DEF Pool!Write
      <3> QED BY <3>2 DEF Pool!Next
    <2>6. CASE id \in DataBlocks /\ ~is_free(id)
      <3>1. data' = [data EXCEPT ![id] = buf] /\ disk'[0] = disk[0] /\ id \in used
        BY <2>3, <2>6, Layout
      <3>2. Pool!Write
        BY <2>1, <2>4, <3>1 DEF Pool!Write
      <3> QED BY <3>2 DEF Pool!Next
    <2>7. CASE id \in DataBlocks /\ is_free(id) /\ buf = Zero
      <3>1. disk[id] = Zero
        BY <2>7 DEF Inv, FreeBlocksZero
      <3>2. data' = data /\ disk'[0] = disk[0]
        BY <2>3, <2>7, <3>1, Layout
      <3> QED BY <2>1, <2>4, <3>2 DEF Pool!vars
    <2> QED BY <2>1, <2>5, <2>6, <2>7
  <1>4. ASSUME NEW i \in Inums, NEW buf \in Contents, put_inode(i, buf)
        PROVE  Pool!Next
    <2>1. disk' = [disk EXCEPT ![IBLOCK(i)] = buf] /\ ret' = ret
      BY <1>4 DEF put_inode
    <2>2. IBLOCK(i) \in Blocks /\ \A c \in Blocks : BBLOCK(c) # IBLOCK(i)
      BY Layout
    <2>3. /\ \A b \in Blocks : is_free(b)' <=> is_free(b)
          /\ disk'[IBLOCK(i)] = buf
          /\ \A b \in Blocks \ {IBLOCK(i)} : disk'[b] = disk[b]
      BY <1>0, <2>1, <2>2, WriteEffect
    <2>4. used' = used /\ data' = data /\ disk'[0] = disk[0]
      BY <2>3, Layout
    <2>5. inodes' = [inodes EXCEPT ![i] = buf]
      BY <2>3, Layout
    <2>6. Pool!PutInode
      BY <2>1, <2>4, <2>5 DEF Pool!PutInode
    <2> QED BY <2>6 DEF Pool!Next
  <1>5. CASE UNCHANGED vars
    BY <1>5 DEF vars, Pool!vars, is_free
  <1> QED
    BY <1>1, <1>2, <1>3, <1>4, <1>5 DEF Next

(* The bitmap and the table, read and written through the blocks they lie  *)
(* in, are together nothing more than the pool the inode layer relies on:  *)
(* an allocation is of a block nobody has, and a write through one id is   *)
(* seen through no other.                                                  *)
THEOREM Refinement == Spec => ImplementsPool
  <1>1. Init => Pool!Init
    <2> SUFFICES ASSUME Init PROVE Pool!Init
      OBVIOUS
    <2>1. \A b \in Blocks : is_free(b)
      BY Layout DEF Init, is_free, Zero
    <2> QED BY <2>1, Layout DEF Init, Pool!Init
  <1> QED
    BY <1>1, PoolStep, SpecInv, PTL DEF Spec, ImplementsPool, Pool!Spec
=============================================================================
