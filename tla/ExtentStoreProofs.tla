-------------------------- MODULE ExtentStoreProofs --------------------------
(***************************************************************************)
(* What was put is what get returns: for data without NULs, files of any   *)
(* depth and every size of blocks, inodes and disk, the extent server is   *)
(* the store of ExtentStore, and getattr gives the length of the content.  *)
(*                                                                         *)
(* First what a read depends on: the inode, its blocks and the inodes of   *)
(* its table.  Then that a level of write_file leaves what the same level  *)
(* of read_file returns, which is carried up level by level.  Then, call   *)
(* by call, that every other file reads as before.                         *)
(***************************************************************************)
EXTENDS ExtentServerProofs

(* Sequences as functions.                                                 *)
LEMMA SeqOfFunction ==
    ASSUME NEW n \in Nat, NEW S, NEW w \in [1 .. n -> S]
    PROVE  w \in Seq(S) /\ Len(w) = n
  <1>1. w \in Seq(S)
    BY SeqDef
  <1>2. Len(w) \in Nat /\ DOMAIN w = 1 .. Len(w) /\ DOMAIN w = 1 .. n
    BY <1>1, LenProperties
  <1> QED BY <1>1, <1>2

LEMMA ConcatAt ==
    ASSUME NEW S, NEW a \in Seq(S), NEW b \in Seq(S)
    PROVE  /\ a \o b \in Seq(S)
           /\ Len(a \o b) = Len(a) + Len(b)
           /\ \A k \in 1 .. Len(a) : (a \o b)[k] = a[k]
           /\ \A k \in 1 .. Len(b) : (a \o b)[Len(a) + k] = b[k]
  OBVIOUS

(* Two parts of a sequence that meet are one.                              *)
LEMMA PartsMeet ==
    ASSUME NEW s \in Seq(Nat), NEW a \in Nat, NEW b \in Nat, a <= b, b <= Len(s)
    PROVE  SubSeq(s, 1, a) \o SubSeq(s, a + 1, b) = SubSeq(s, 1, b)
  OBVIOUS

LEMMA WholePart ==
    ASSUME NEW s \in Seq(Nat)
    PROVE  SubSeq(s, 1, Len(s)) = s /\ SubSeq(s, 1, 0) = <<>>
  OBVIOUS

LEMMA PartTyped ==
    ASSUME NEW s \in Seq(Nat), NEW a \in Nat, NEW b \in Nat, a <= b, b <= Len(s)
    PROVE  /\ SubSeq(s, a + 1, b) \in Seq(Nat) /\ Len(SubSeq(s, a + 1, b)) = b - a
           /\ \A k \in 1 .. b - a : SubSeq(s, a + 1, b)[k] = s[a + k]
  OBVIOUS

(* What merge does: the sequences one after the other.                     *)
LEMMA Merged ==
    ASSUME NEW bufs \in Seq(Seq(Nat))
    PROVE  \E h \in [0 .. Len(bufs) -> Seq(Nat)] :
             /\ h[0] = <<>> /\ \A k \in 1 .. Len(bufs) : h[k] = h[k - 1] \o bufs[k]
             /\ merge[bufs] = h[Len(bufs)]
  <1> DEFINE n == Len(bufs)
             S == Seq(Nat)
             F == [k \in 1 .. n |-> [s \in S |-> s \o bufs[k]]]
             Eq(g) == g = [i \in 1 .. n |-> IF i = 1 THEN bufs[i] ELSE g[i - 1] \o bufs[i]]
             D == CHOOSE g : Eq(g)
  <1>1. n \in Nat /\ \A k \in 1 .. n : bufs[k] \in S
    BY LenProperties, ElementOfSeq
  <1>2. <<>> \in S /\ \A s \in S, t \in S : s \o t \in S /\ <<>> \o t = t
    OBVIOUS
  <1>3. F \in [1 .. n -> [S -> S]]
    BY <1>1, <1>2
  <1>4. PICK h \in [0 .. n -> S] : Iterates(h, n, <<>>, F)
    <2> HIDE DEF F
    <2> QED BY <1>1, <1>2, <1>3, Recursion
  <1>5. h[0] = <<>> /\ \A k \in 1 .. n : h[k] = h[k - 1] \o bufs[k]
    <2>1. \A k \in 1 .. n : k - 1 \in 0 .. n
      BY <1>1
    <2> HIDE DEF n, S
    <2>2. \A k \in 1 .. n : h[k - 1] \in S
      BY <2>1
    <2> QED BY <1>4, <2>2 DEF Iterates
  <1>6. merge[bufs] = FlattenSeq(bufs)
    BY DEF merge
  <1>7. CASE n = 0
    <2>1. bufs = <<>>
      BY <1>7
    <2>2. merge[bufs] = h[n]
      BY <1>5, <1>6, <1>7, <2>1 DEF FlattenSeq
    <2> QED BY <1>4, <1>5, <2>2
  <1>8. CASE n # 0
    <2> DEFINE r == [i \in 1 .. n |-> h[i]]
    <2>1. Eq(r)
      <3>1. ASSUME NEW i \in 1 .. n
            PROVE  r[i] = IF i = 1 THEN bufs[i] ELSE r[i - 1] \o bufs[i]
        <4>1. CASE i = 1
          <5>1. h[1] = h[0] \o bufs[1] /\ bufs[1] \in S
            <6>1. 1 \in 1 .. n /\ 1 - 1 = 0
              BY <4>1
            <6> HIDE DEF n, S
            <6> QED BY <1>1, <1>5, <6>1
          <5> QED BY <1>2, <1>5, <4>1, <5>1
        <4>2. CASE i # 1
          <5>1. i - 1 \in 1 .. n
            BY <1>1, <4>2
          <5> QED BY <1>5, <4>2, <5>1
        <4> QED BY <4>1, <4>2
      <3> QED BY <3>1
    <2>2. Eq(D)
      <3> HIDE DEF Eq, r
      <3> QED BY <2>1
    <2>3. FlattenSeq(bufs) = D[n]
      BY <1>8 DEF FlattenSeq
    <2> HIDE DEF D
    <2> DEFINE T == {i \in 0 .. n : i = 0 \/ D[i] = h[i]}
    <2>4. 0 \in T
      BY <1>1
    <2>5. ASSUME NEW i \in 1 .. n, i - 1 \in T PROVE i \in T
      <3>1. D[i] = IF i = 1 THEN bufs[i] ELSE D[i - 1] \o bufs[i]
        BY <2>2
      <3>2. CASE i = 1
        <4>1. h[1] = h[0] \o bufs[1] /\ bufs[1] \in S
          <5>1. 1 \in 1 .. n /\ 1 - 1 = 0
            BY <3>2
          <5> HIDE DEF n, S
          <5> QED BY <1>1, <1>5, <5>1
        <4> QED BY <1>1, <1>2, <1>5, <3>1, <3>2, <4>1
      <3>3. CASE i # 1
        <4>1. D[i - 1] = h[i - 1] /\ i \in 0 .. n
          BY <1>1, <2>5, <3>3
        <4> QED BY <1>5, <3>1, <3>3, <4>1
      <3> QED BY <3>2, <3>3
    <2>6. \A i \in 0 .. n : i \in T
      <3> HIDE DEF T
      <3> QED BY <1>1, <2>4, <2>5, Induct
    <2>7. merge[bufs] = h[n]
      BY <1>1, <1>6, <1>8, <2>3, <2>6
    <2> QED BY <1>4, <1>5, <2>7
  <1> QED BY <1>7, <1>8

LEMMA MergeTyped ==
    ASSUME NEW bufs \in Seq(Seq(Nat)) PROVE merge[bufs] \in Seq(Nat)
  <1>1. PICK h \in [0 .. Len(bufs) -> Seq(Nat)] : merge[bufs] = h[Len(bufs)]
    BY Merged
  <1>2. Len(bufs) \in 0 .. Len(bufs)
    BY LenProperties
  <1> QED BY <1>1, <1>2

(* What is cut into parts that follow each other is put together again.    *)
LEMMA Joined ==
    ASSUME NEW bufs \in Seq(Seq(Nat)), NEW s \in Seq(Nat), NEW ends \in [0 .. Len(bufs) -> Nat],
           ends[0] = 0, ends[Len(bufs)] = Len(s),
           \A k \in 1 .. Len(bufs) : /\ ends[k - 1] <= ends[k] /\ ends[k] <= Len(s)
                                     /\ bufs[k] = SubSeq(s, ends[k - 1] + 1, ends[k])
    PROVE  merge[bufs] = s
  <1> DEFINE n == Len(bufs)
  <1>1. PICK h \in [0 .. n -> Seq(Nat)] :
          /\ h[0] = <<>> /\ \A k \in 1 .. n : h[k] = h[k - 1] \o bufs[k]
          /\ merge[bufs] = h[n]
    BY Merged
  <1>2. n \in Nat
    BY LenProperties
  <1> HIDE DEF n
  <1> DEFINE T == {k \in 0 .. n : h[k] = SubSeq(s, 1, ends[k])}
  <1>3. 0 \in T
    BY <1>1, <1>2, WholePart DEF n
  <1>4. ASSUME NEW k \in 1 .. n, k - 1 \in T PROVE k \in T
    <2>1. k \in 0 .. n /\ k - 1 \in 0 .. n
      BY <1>2
    <2>2. ends[k - 1] \in Nat /\ ends[k] \in Nat /\ ends[k - 1] <= ends[k] /\ ends[k] <= Len(s)
      BY <2>1 DEF n
    <2>3. h[k] = SubSeq(s, 1, ends[k - 1]) \o SubSeq(s, ends[k - 1] + 1, ends[k])
      BY <1>1, <1>4 DEF n
    <2>4. h[k] = SubSeq(s, 1, ends[k])
      BY <2>2, <2>3, PartsMeet
    <2> QED BY <2>1, <2>4
  <1>5. \A k \in 0 .. n : k \in T
    <2> HIDE DEF T
    <2> QED BY <1>2, <1>3, <1>4, Induct
  <1>6. h[n] = SubSeq(s, 1, Len(s))
    BY <1>2, <1>5 DEF n
  <1> QED BY <1>1, <1>6, WholePart

(* strip drops the zeros at the end of a sequence, and nothing else.       *)
LEMMA Stripped ==
    ASSUME NEW s \in Seq(Nat)
    PROVE  /\ strip[s] \in Seq(Nat)
           /\ \A m \in 0 .. Len(s) :
                /\ m = 0 \/ s[m] # 0
                /\ \A k \in m + 1 .. Len(s) : s[k] = 0
                => strip[s] = SubSeq(s, 1, m)
  <1> DEFINE S == {0} \cup {k \in DOMAIN s : s[k] # 0}
  <1>1. Len(s) \in Nat /\ DOMAIN s = 1 .. Len(s)
    BY LenProperties
  <1>2. S \in SUBSET Nat /\ S # {} /\ \A x \in S : x <= Len(s)
    BY <1>1
  <1>3. strip[s] = SubSeq(s, 1, Max(S))
    BY DEF strip
  <1>4. \A x \in S : x = 0 \/ s[x] # 0
    OBVIOUS
  <1>5. \A k \in 1 .. Len(s) : s[k] # 0 => k \in S
    BY <1>1
  <1>6. 0 \in S
    OBVIOUS
  <1> HIDE DEF S
  <1>7. Max(S) \in S /\ \A y \in S : y <= Max(S)
    BY <1>1, <1>2, Greatest
  <1> DEFINE x == Max(S)
  <1>8. x \in Nat /\ x <= Len(s)
    BY <1>2, <1>7
  <1> HIDE DEF x
  <1>9. SubSeq(s, 1, x) \in Seq(Nat)
    <2>1. SubSeq(s, 0 + 1, x) \in Seq(Nat)
      BY <1>8, PartTyped
    <2> QED BY <2>1
  <1>10. ASSUME NEW m \in 0 .. Len(s), m = 0 \/ s[m] # 0,
                \A k \in m + 1 .. Len(s) : s[k] = 0
         PROVE  x = m
    <2>1. m \in S
      BY <1>1, <1>5, <1>6, <1>10
    <2>2. m <= x
      BY <1>7, <2>1 DEF x
    <2>3. CASE x > m
      <3>1. x \in m + 1 .. Len(s) /\ x # 0
        BY <1>1, <1>8, <2>3
      <3> QED BY <1>4, <1>7, <1>10, <3>1 DEF x
    <2> QED BY <1>1, <1>8, <2>2, <2>3
  <1> QED BY <1>3, <1>9, <1>10 DEF x
-----------------------------------------------------------------------------
(* What read_file puts together for file i, where w has what the files in  *)
(* its table hold.                                                         *)
Buffers(f, w, n) ==
    LET subs == table(f, n)
    IN [k \in 1 .. Len(direct(n)) |-> f.disk[direct(n)[k]]]
       \o [k \in 1 .. Len(subs) |-> w[subs[k]]]
ReadOver(f, w, i) == IF i \notin Inums THEN <<>> ELSE strip[merge[Buffers(f, w, f.inode[i])]]
InUse(n) == MinOf(n.size, NDIRECT)

LEMMA DirectSlots ==
    ASSUME NEW n \in InodeType
    PROVE  /\ InUse(n) \in Nat /\ InUse(n) <= NDIRECT /\ Len(direct(n)) = InUse(n)
           /\ \A k \in 1 .. InUse(n) : /\ direct(n)[k] = n.blocks[k - 1]
                                       /\ k - 1 \in 0 .. NDIRECT /\ k - 1 \in 0 .. NDIRECT - 1
                                       /\ n.blocks[k - 1] \in 0 .. NDATA
  <1>1. n.size \in Nat /\ NDIRECT \in Nat
    <2>1. n.size \in 0 .. NDIRECT + 1
      BY InodeParts
    <2> QED BY <2>1, SizesAssumption
  <1>2. InUse(n) \in Nat /\ InUse(n) <= NDIRECT
    BY <1>1 DEF InUse, MinOf
  <1>3. \A k \in 1 .. InUse(n) : /\ k - 1 \in 0 .. NDIRECT /\ k - 1 \in 0 .. NDIRECT - 1
                                 /\ n.blocks[k - 1] \in 0 .. NDATA
    <2>1. \A k \in 1 .. InUse(n) : k - 1 \in 0 .. NDIRECT /\ k - 1 \in 0 .. NDIRECT - 1
      BY <1>1, <1>2
    <2> QED BY <2>1, InodeParts
  <1> DEFINE w == [k \in 1 .. InUse(n) |-> n.blocks[k - 1]]
  <1>4. direct(n) = w
    BY DEF direct, InUse
  <1>5. w \in [1 .. InUse(n) -> 0 .. NDATA]
    BY <1>3
  <1>6. \A k \in 1 .. InUse(n) : w[k] = n.blocks[k - 1]
    OBVIOUS
  <1> HIDE DEF w
  <1>7. Len(w) = InUse(n)
    BY <1>2, <1>5, SeqOfFunction
  <1> QED BY <1>2, <1>3, <1>4, <1>6, <1>7

LEMMA BuffersTyped ==
    ASSUME NEW f \in FsType, NEW w \in [Nat -> Seq(Nat)], NEW n \in InodeType
    PROVE  LET B == Buffers(f, w, n)
               t == table(f, n)
               m == InUse(n)
           IN /\ B \in Seq(Seq(Nat)) /\ Len(B) = m + Len(t)
              /\ \A k \in 1 .. m : B[k] = f.disk[n.blocks[k - 1]]
              /\ \A k \in 1 .. Len(t) : B[m + k] = w[t[k]]
  <1> DEFINE t == table(f, n)
             m == InUse(n)
             a == [k \in 1 .. Len(direct(n)) |-> f.disk[direct(n)[k]]]
             b == [k \in 1 .. Len(t) |-> w[t[k]]]
  <1>1. t \in Seq(Nat) /\ Len(t) \in Nat
    BY TableDef, LenProperties
  <1>2. /\ m \in Nat /\ Len(direct(n)) = m
        /\ \A k \in 1 .. m : direct(n)[k] = n.blocks[k - 1] /\ n.blocks[k - 1] \in 0 .. NDATA
    BY DirectSlots
  <1>3. Buffers(f, w, n) = a \o b
    BY DEF Buffers
  <1> HIDE DEF t, m
  <1>4. \A k \in 1 .. m : f.disk[n.blocks[k - 1]] \in Seq(Nat)
    <2>1. \A k \in 1 .. m : f.disk[n.blocks[k - 1]] \in BlockType
      BY <1>2, FsParts
    <2> QED BY <2>1, BlockIsSeq
  <1>5. a \in [1 .. m -> Seq(Nat)] /\ \A k \in 1 .. m : a[k] = f.disk[n.blocks[k - 1]]
    BY <1>2, <1>4
  <1>6. b \in [1 .. Len(t) -> Seq(Nat)] /\ \A k \in 1 .. Len(t) : b[k] = w[t[k]]
    BY <1>1, ElementOfSeq
  <1> HIDE DEF a, b
  <1>7. a \in Seq(Seq(Nat)) /\ Len(a) = m /\ b \in Seq(Seq(Nat)) /\ Len(b) = Len(t)
    BY <1>1, <1>2, <1>5, <1>6, SeqOfFunction
  <1>8. /\ a \o b \in Seq(Seq(Nat)) /\ Len(a \o b) = Len(a) + Len(b)
        /\ \A k \in 1 .. Len(a) : (a \o b)[k] = a[k]
        /\ \A k \in 1 .. Len(b) : (a \o b)[Len(a) + k] = b[k]
    <2> DEFINE S == Seq(Nat)
    <2>1. a \in Seq(S) /\ b \in Seq(S)
      BY <1>7
    <2> HIDE DEF S
    <2>2. a \o b \in Seq(S)
      BY <2>1, ConcatAt, Zenon
    <2>3. /\ Len(a \o b) = Len(a) + Len(b)
          /\ \A k \in 1 .. Len(a) : (a \o b)[k] = a[k]
          /\ \A k \in 1 .. Len(b) : (a \o b)[Len(a) + k] = b[k]
      BY ONLY <2>1
    <2> QED BY <2>2, <2>3 DEF S
  <1> QED BY <1>3, <1>5, <1>6, <1>7, <1>8 DEF t, m

LEMMA ReadOverTyped ==
    ASSUME NEW f \in FsType, NEW w \in [Nat -> Seq(Nat)], NEW i \in Nat
    PROVE  ReadOver(f, w, i) \in Seq(Nat)
  <1>1. CASE i \notin Inums
    BY <1>1 DEF ReadOver
  <1>2. CASE i \in Inums
    <2> DEFINE B == Buffers(f, w, f.inode[i])
    <2>1. B \in Seq(Seq(Nat))
      BY <1>2, FsParts, BuffersTyped
    <2>2. ReadOver(f, w, i) = strip[merge[B]]
      BY <1>2 DEF ReadOver
    <2> HIDE DEF B
    <2>3. strip[merge[B]] \in Seq(Nat)
      BY <2>1, MergeTyped, Stripped
    <2> QED BY <2>2, <2>3
  <1> QED BY <1>1, <1>2

LEMMA ContentsDef ==
    ASSUME NEW f \in FsType
    PROVE  LET D == file_contents(f)
           IN /\ D \in [Levels -> [Nat -> Seq(Nat)]]
              /\ \A i \in Nat : D[0][i] = <<>>
              /\ \A k \in 1 .. INODE_NUM : \A i \in Nat : D[k][i] = ReadOver(f, D[k - 1], i)
  <1> DEFINE n == INODE_NUM
             S == [Nat -> Seq(Nat)]
             ino(i) == f.inode[i]
             subs(i) == table(f, ino(i))
             Step(w) == [i \in Nat |-> ReadOver(f, w, i)]
             a == [i \in Nat |-> <<>>]
             F == [k \in 1 .. n |-> [w \in S |-> Step(w)]]
             Value(g, k, i) ==
                IF k = 0 \/ i \notin Inums THEN <<>>
                ELSE strip[merge[[l \in 1 .. Len(direct(ino(i))) |-> f.disk[direct(ino(i))[l]]]
                                 \o [l \in 1 .. Len(subs(i)) |-> g[k - 1][subs(i)[l]]]]]
             Body(g, k) == [i \in Nat |-> Value(g, k, i)]
             Eq(g) == g = [k \in 0 .. n |-> Body(g, k)]
             D == CHOOSE g : Eq(g)
  <1>1. n \in Nat
    BY SizesAssumption
  <1>2. a \in S
    OBVIOUS
  <1>3. ASSUME NEW w \in S PROVE Step(w) \in S
    BY ReadOverTyped
  <1>4. F \in [1 .. n -> [S -> S]]
    <2> HIDE DEF Step, S
    <2> QED BY <1>3
  <1>5. \A g : Body(g, 0) = a
    OBVIOUS
  <1>6. \A g : \A k \in 1 .. n : Body(g, k) = Step(g[k - 1])
    <2> SUFFICES ASSUME NEW g, NEW k \in 1 .. n PROVE Body(g, k) = Step(g[k - 1])
      OBVIOUS
    <2>1. k # 0
      BY <1>1
    <2>2. \A i \in Nat : Value(g, k, i) = ReadOver(f, g[k - 1], i)
      BY <2>1 DEF ReadOver, Buffers
    <2> QED BY <2>2
  <1>7. file_contents(f) = D
    BY DEF file_contents, Levels
  <1>8. \A k \in 1 .. n : k - 1 \in 0 .. n /\ k \in 0 .. n /\ k # 0
    BY <1>1
  <1>9. \A k \in 0 .. n : k # 0 => k \in 1 .. n
    BY <1>1
  <1> HIDE DEF a, n, S, Step, Body
  <1>10. PICK h \in [0 .. n -> S] : Iterates(h, n, a, F)
    <2> HIDE DEF F
    <2> QED BY <1>1, <1>2, <1>4, Recursion
  <1>11. Eq(h)
    <2>1. \A k \in 1 .. n : h[k] = Step(h[k - 1])
      BY <1>8, <1>10 DEF Iterates
    <2>2. \A k \in 0 .. n : h[k] = Body(h, k)
      BY <1>5, <1>6, <1>9, <1>10, <2>1 DEF Iterates
    <2> QED BY <1>10, <2>2
  <1>12. Eq(D)
    <2> HIDE DEF Eq
    <2> QED BY <1>11
  <1> HIDE DEF D
  <1>13. D[0] = a /\ \A k \in 1 .. n : D[k] = Step(D[k - 1])
    <2>1. \A k \in 0 .. n : D[k] = Body(D, k)
      BY <1>12
    <2>2. 0 \in 0 .. n
      BY <1>1
    <2> QED BY <1>5, <1>6, <1>8, <2>1, <2>2
  <1>14. \A k \in 0 .. n : D[k] \in S
    <2> DEFINE T == {k \in 0 .. n : D[k] \in S}
    <2>1. 0 \in T
      BY <1>1, <1>2, <1>13
    <2>2. ASSUME NEW k \in 1 .. n, k - 1 \in T PROVE k \in T
      BY <1>3, <1>8, <1>13, <2>2
    <2> HIDE DEF T
    <2>3. \A k \in 0 .. n : k \in T
      BY <1>1, <2>1, <2>2, Induct
    <2> QED BY <2>3 DEF T
  <1>15. D \in [0 .. n -> S]
    BY <1>12, <1>14
  <1>16. \A i \in Nat : D[0][i] = <<>>
    BY <1>13 DEF a
  <1>17. \A k \in 1 .. n : \A i \in Nat : D[k][i] = ReadOver(f, D[k - 1], i)
    BY <1>13 DEF Step
  <1> QED BY <1>7, <1>15, <1>16, <1>17 DEF n, S, Levels
-----------------------------------------------------------------------------
(* A file reads as before while its inode and its blocks are as they were, *)
(* and so are those of the files in its table: K is closed under tables.   *)
Undisturbed(f, g, K) ==
    /\ K \subseteq Inums
    /\ \A i \in K : g.inode[i] = f.inode[i] /\ SubsIn(f, i) \subseteq K
    /\ \A i \in K, k \in 0 .. NDIRECT : LET b == f.inode[i].blocks[k] IN g.disk[b] = f.disk[b]
SameFiles(f, g, K) ==
    \A d \in Levels, i \in K : /\ file_contents(g)[d][i] = file_contents(f)[d][i]
                               /\ file_sizes(g)[d][i] = file_sizes(f)[d][i]

LEMMA AddSizesSame ==
    ASSUME NEW v \in [Nat -> Nat], NEW w \in [Nat -> Nat], NEW subs \in Seq(Nat),
           \A k \in 1 .. Len(subs) : w[subs[k]] = v[subs[k]]
    PROVE  add_sizes(w, subs)[Len(subs)] = add_sizes(v, subs)[Len(subs)]
  <1> DEFINE n == Len(subs)
             D == add_sizes(v, subs)
             E == add_sizes(w, subs)
  <1>1. n \in Nat
    BY LenProperties
  <1>2. /\ D[0] = 0 /\ \A k \in 1 .. n : D[k] = D[k - 1] + v[subs[k]]
        /\ E[0] = 0 /\ \A k \in 1 .. n : E[k] = E[k - 1] + w[subs[k]]
    BY AddSizes
  <1>3. \A k \in 1 .. n : w[subs[k]] = v[subs[k]]
    OBVIOUS
  <1> HIDE DEF n, D, E
  <1> DEFINE T == {k \in 0 .. n : E[k] = D[k]}
  <1>4. 0 \in T
    <2>1. 0 \in 0 .. n
      BY <1>1
    <2>2. E[0] = D[0]
      BY <1>2
    <2> QED BY <2>1, <2>2
  <1>5. ASSUME NEW k \in 1 .. n, k - 1 \in T PROVE k \in T
    <2>1. k \in 0 .. n
      BY <1>1
    <2>2. E[k - 1] = D[k - 1]
      BY <1>5
    <2>3. E[k] = E[k - 1] + w[subs[k]] /\ D[k] = D[k - 1] + v[subs[k]] /\ w[subs[k]] = v[subs[k]]
      BY <1>2, <1>3
    <2>4. E[k] = D[k]
      BY <2>2, <2>3, Zenon
    <2> QED BY <2>1, <2>4
  <1>6. \A k \in 0 .. n : k \in T
    <2> HIDE DEF T
    <2> QED BY <1>1, <1>4, <1>5, Induct
  <1>7. n \in 0 .. n
    BY <1>1
  <1> QED BY <1>6, <1>7 DEF n, D, E

(* One level of reading and of sizes: what the level below gives.          *)
LevelType == [read : [Nat -> Seq(Nat)], size : [Nat -> Nat]]
SameBelow(K, p, q) == \A j \in K : q.read[j] = p.read[j] /\ q.size[j] = p.size[j]

LEMMA FrameLevel ==
    ASSUME NEW f \in FsType, NEW g \in FsType, NEW K, Undisturbed(f, g, K),
           NEW p \in LevelType, NEW q \in LevelType, SameBelow(K, p, q),
           NEW i \in K
    PROVE  /\ ReadOver(g, q.read, i) = ReadOver(f, p.read, i)
           /\ SizeOver(g, q.size, i) = SizeOver(f, p.size, i)
  <1> DEFINE r == p.read
             s == q.read
             v == p.size
             w == q.size
  <1>0. /\ r \in [Nat -> Seq(Nat)] /\ s \in [Nat -> Seq(Nat)]
        /\ v \in [Nat -> Nat] /\ w \in [Nat -> Nat]
        /\ \A j \in K : s[j] = r[j] /\ w[j] = v[j]
    BY DEF LevelType, SameBelow
  <1> HIDE DEF r, s, v, w
  <1> USE <1>0
  <1> DEFINE n == f.inode[i]
             t == table(f, n)
             m == InUse(n)
             A == Buffers(f, r, n)
             B == Buffers(g, s, n)
  <1>1. i \in Inums /\ g.inode[i] = n /\ n \in InodeType
    BY FsParts DEF Undisturbed
  <1>2. \A k \in 0 .. NDIRECT : g.disk[n.blocks[k]] = f.disk[n.blocks[k]]
    BY DEF Undisturbed
  <1>3. NDIRECT \in 0 .. NDIRECT
    BY SizesAssumption
  <1>4. table(g, n) = t
    BY <1>2, <1>3 DEF table
  <1>5. t \in Seq(Nat) /\ Len(t) \in Nat /\ DOMAIN t = 1 .. Len(t)
    BY <1>1, TableDef, LenProperties
  <1>6. \A k \in 1 .. Len(t) : t[k] \in K
    BY <1>5 DEF Undisturbed, SubsIn
  <1> HIDE DEF n
  <1>7. /\ m \in Nat /\ \A k \in 1 .. m : k - 1 \in 0 .. NDIRECT
    BY <1>1, DirectSlots
  <1>8. /\ A \in Seq(Seq(Nat)) /\ Len(A) = m + Len(t)
        /\ \A k \in 1 .. m : A[k] = f.disk[n.blocks[k - 1]]
        /\ \A k \in 1 .. Len(t) : A[m + k] = r[t[k]]
    BY <1>1, BuffersTyped
  <1>9. /\ B \in Seq(Seq(Nat)) /\ Len(B) = m + Len(t)
        /\ \A k \in 1 .. m : B[k] = g.disk[n.blocks[k - 1]]
        /\ \A k \in 1 .. Len(t) : B[m + k] = s[t[k]]
    <2>1. LET u == table(g, n)
          IN /\ B \in Seq(Seq(Nat)) /\ Len(B) = m + Len(u)
             /\ \A k \in 1 .. m : B[k] = g.disk[n.blocks[k - 1]]
             /\ \A k \in 1 .. Len(u) : B[m + k] = s[u[k]]
      BY <1>1, BuffersTyped
    <2> HIDE DEF B, t
    <2> QED BY <1>4, <2>1
  <1>10. B = A
    <2> HIDE DEF A, B, m, t
    <2>1. ASSUME NEW k \in 1 .. m + Len(t) PROVE B[k] = A[k]
      <3>1. CASE k <= m
        <4>1. k \in 1 .. m
          BY <1>7, <3>1
        <4>2. k - 1 \in 0 .. NDIRECT
          BY <1>7, <4>1
        <4>3. g.disk[n.blocks[k - 1]] = f.disk[n.blocks[k - 1]]
          BY <1>2, <4>2
        <4>4. B[k] = g.disk[n.blocks[k - 1]] /\ A[k] = f.disk[n.blocks[k - 1]]
          BY <1>8, <1>9, <4>1
        <4> QED BY <4>3, <4>4
      <3>2. CASE ~(k <= m)
        <4> DEFINE l == k - m
        <4>1. l \in 1 .. Len(t) /\ m + l = k
          BY <1>5, <1>7, <3>2
        <4> HIDE DEF l
        <4>2. B[m + l] = s[t[l]] /\ A[m + l] = r[t[l]] /\ t[l] \in K
          BY <1>6, <1>8, <1>9, <4>1
        <4>3. s[t[l]] = r[t[l]]
          BY <4>2
        <4> QED BY <4>1, <4>2, <4>3
      <3> QED BY <3>1, <3>2
    <2> DEFINE S == Seq(Nat)
    <2>2. A \in Seq(S) /\ B \in Seq(S)
      BY <1>8, <1>9
    <2> HIDE DEF S
    <2> QED BY <1>8, <1>9, <2>1, <2>2, SeqEqual
  <1>11. ReadOver(g, s, i) = ReadOver(f, r, i)
    BY <1>1, <1>10 DEF ReadOver, n
  <1>12. add_sizes(w, t)[Len(t)] = add_sizes(v, t)[Len(t)]
    <2> HIDE DEF t
    <2> QED BY <1>5, <1>6, AddSizesSame
  <1>13. ASSUME n.size # 0, n.size < NDIRECT + 1
         PROVE  last_non_zero_element_index_in_block(g, n.blocks[n.size - 1])
                  = last_non_zero_element_index_in_block(f, n.blocks[n.size - 1])
    <2>1. n.size \in 0 .. NDIRECT + 1
      BY <1>1, InodeParts
    <2>2. n.size - 1 \in 0 .. NDIRECT
      <3> DEFINE x == n.size
      <3>1. x \in 0 .. NDIRECT + 1 /\ x # 0 /\ NDIRECT \in Nat
        BY <1>13, <2>1, SizesAssumption
      <3> HIDE DEF x
      <3>2. x - 1 \in 0 .. NDIRECT
        BY <3>1
      <3> QED BY <3>2 DEF x
    <2>3. g.disk[n.blocks[n.size - 1]] = f.disk[n.blocks[n.size - 1]]
      BY <1>2, <2>2
    <2> QED BY <2>3 DEF last_non_zero_element_index_in_block
  <1> DEFINE lf == last_non_zero_element_index_in_block(f, n.blocks[n.size - 1])
             lg == last_non_zero_element_index_in_block(g, n.blocks[n.size - 1])
             af == add_sizes(v, t)[Len(t)]
             ag == add_sizes(w, t)[Len(t)]
  <1>14. /\ SizeOver(f, v, i) = IF n.size = 0 THEN 0
                                ELSE IF n.size < NDIRECT + 1 THEN (n.size - 1) * BLOCK_SIZE + lf + 1
                                ELSE CAP + af
         /\ SizeOver(g, w, i) = IF n.size = 0 THEN 0
                                ELSE IF n.size < NDIRECT + 1 THEN (n.size - 1) * BLOCK_SIZE + lg + 1
                                ELSE CAP + ag
    BY <1>1, <1>4, Zenon DEF SizeOver, n
  <1>15. ag = af /\ (n.size # 0 /\ n.size < NDIRECT + 1 => lg = lf)
    BY <1>12, <1>13
  <1> HIDE DEF lf, lg, af, ag
  <1>16. SizeOver(g, w, i) = SizeOver(f, v, i)
    <2>1. CASE n.size = 0
      BY <1>14, <2>1, Zenon
    <2>2. CASE n.size # 0 /\ n.size < NDIRECT + 1
      BY <1>14, <1>15, <2>2, Zenon
    <2>3. CASE n.size # 0 /\ ~(n.size < NDIRECT + 1)
      BY <1>14, <1>15, <2>3, Zenon
    <2> QED BY <2>1, <2>2, <2>3
  <1> QED BY <1>11, <1>16 DEF r, s, v, w

LEMMA Frame ==
    ASSUME NEW f \in FsType, NEW g \in FsType, NEW K, Undisturbed(f, g, K)
    PROVE  SameFiles(f, g, K)
  <1> DEFINE n == INODE_NUM
             A == file_contents(f)
             B == file_contents(g)
             V == file_sizes(f)
             W == file_sizes(g)
             T == {d \in 0 .. n : \A i \in K : B[d][i] = A[d][i] /\ W[d][i] = V[d][i]}
  <1>1. n \in Nat /\ \A i \in K : i \in Nat
    BY SizesAssumption DEF Undisturbed, Inums
  <1>2. /\ A \in [0 .. n -> [Nat -> Seq(Nat)]] /\ B \in [0 .. n -> [Nat -> Seq(Nat)]]
        /\ \A i \in Nat : A[0][i] = <<>> /\ B[0][i] = <<>>
        /\ \A k \in 1 .. n : \A i \in Nat : A[k][i] = ReadOver(f, A[k - 1], i)
        /\ \A k \in 1 .. n : \A i \in Nat : B[k][i] = ReadOver(g, B[k - 1], i)
    BY ContentsDef DEF Levels
  <1>3. /\ V \in [0 .. n -> [Nat -> Nat]] /\ W \in [0 .. n -> [Nat -> Nat]]
        /\ \A i \in Nat : V[0][i] = 0 /\ W[0][i] = 0
        /\ \A k \in 1 .. n : \A i \in Nat : V[k][i] = SizeOver(f, V[k - 1], i)
        /\ \A k \in 1 .. n : \A i \in Nat : W[k][i] = SizeOver(g, W[k - 1], i)
    BY SizesDef DEF Levels
  <1> HIDE DEF A, B, V, W, n
  <1>4. 0 \in T
    <2>1. \A i \in K : B[0][i] = A[0][i] /\ W[0][i] = V[0][i]
      BY <1>1, <1>2, <1>3
    <2>2. 0 \in 0 .. n
      BY <1>1
    <2> QED BY <2>1, <2>2
  <1>5. ASSUME NEW k \in 1 .. n, k - 1 \in T PROVE k \in T
    <2> DEFINE p == [read |-> A[k - 1], size |-> V[k - 1]]
               q == [read |-> B[k - 1], size |-> W[k - 1]]
    <2>1. k \in 0 .. n /\ k - 1 \in 0 .. n
      BY <1>1
    <2>2. p \in LevelType /\ q \in LevelType
      BY <1>2, <1>3, <2>1 DEF LevelType
    <2>3. SameBelow(K, p, q)
      BY <1>5 DEF SameBelow
    <2>4. ASSUME NEW i \in K
          PROVE  /\ B[k][i] = ReadOver(g, q.read, i) /\ A[k][i] = ReadOver(f, p.read, i)
                 /\ W[k][i] = SizeOver(g, q.size, i) /\ V[k][i] = SizeOver(f, p.size, i)
      BY <1>1, <1>2, <1>3
    <2> HIDE DEF p, q
    <2>5. ASSUME NEW i \in K
          PROVE  /\ ReadOver(g, q.read, i) = ReadOver(f, p.read, i)
                 /\ SizeOver(g, q.size, i) = SizeOver(f, p.size, i)
      BY <2>2, <2>3, FrameLevel
    <2>6. \A i \in K : B[k][i] = A[k][i] /\ W[k][i] = V[k][i]
      BY <2>4, <2>5
    <2> QED BY <2>1, <2>6
  <1>6. \A k \in 0 .. n : k \in T
    <2> HIDE DEF T
    <2> QED BY <1>1, <1>4, <1>5, Induct
  <1> QED BY <1>6 DEF SameFiles, Levels, n, A, B, V, W

(* get and getattr look at the highest level.                              *)
LEMMA SameGets ==
    ASSUME NEW f, NEW g, NEW K, SameFiles(f, g, K), NEW i \in K
    PROVE  read_file(g, i) = read_file(f, i) /\ get_file_size(g, i) = get_file_size(f, i)
  <1>1. INODE_NUM \in Levels
    BY SizesAssumption DEF Levels
  <1> QED BY <1>1 DEF SameFiles, read_file, get_file_size
-----------------------------------------------------------------------------
(* What leaves files undisturbed.                                          *)
Closed(f, K) == \A i \in K : SubsIn(f, i) \subseteq K

LEMMA UndisturbedTwice ==
    ASSUME NEW f, NEW g, NEW h, NEW K, Undisturbed(f, g, K), Undisturbed(g, h, K)
    PROVE  Undisturbed(f, h, K)
  BY DEF Undisturbed

(* What an inode in use names is block 0 or a data block.                  *)
LEMMA Named ==
    ASSUME NEW f \in FsType, NEW i \in Live(f), NEW k \in 0 .. NDIRECT
    PROVE  LET b == f.inode[i].blocks[k]
           IN /\ i \in Inums /\ b \in 0 .. NDATA
              /\ b = 0 \/ (b \in DataBlocks /\ NamesBlock(f, i, k, b))
  <1> DEFINE b == f.inode[i].blocks[k]
  <1>1. i \in Inums
    BY DEF Live
  <1>2. b \in 0 .. NDATA
    BY <1>1, FsParts, InodeParts
  <1>3. b # 0 => NamesBlock(f, i, k, b)
    BY DEF NamesBlock
  <1> HIDE DEF b
  <1>4. b # 0 => b \in DataBlocks
    BY <1>2, SizesAssumption DEF DataBlocks
  <1> QED BY <1>1, <1>2, <1>3, <1>4 DEF b

LEMMA SameDisk ==
    ASSUME NEW f, NEW g, NEW K, K \subseteq Inums, Closed(f, K), g.disk = f.disk,
           \A i \in K : g.inode[i] = f.inode[i]
    PROVE  Undisturbed(f, g, K)
  BY DEF Undisturbed, Closed

LEMMA GrownFrame ==
    ASSUME NEW f \in FsType, NEW g \in FsType, Marked(f), NEW X, Grown(f, X, g),
           NEW K, K \subseteq Live(f), K \cap X = {}, Closed(f, K)
    PROVE  Undisturbed(f, g, K)
  <1>1. KeepsBlocks(f, g) /\ \A i \in K : g.inode[i] = f.inode[i]
    BY DEF Grown, KeepsInodes
  <1>2. ASSUME NEW i \in K, NEW k \in 0 .. NDIRECT
        PROVE  LET b == f.inode[i].blocks[k] IN g.disk[b] = f.disk[b]
    <2> DEFINE b == f.inode[i].blocks[k]
    <2>1. i \in Inums /\ (b = 0 \/ (b \in DataBlocks /\ NamesBlock(f, i, k, b)))
      BY Named
    <2>2. b = 0 \/ b \in f.used
      BY <2>1 DEF Marked
    <2> HIDE DEF b
    <2>3. g.disk[b] = f.disk[b]
      BY <1>1, <2>2 DEF KeepsBlocks
    <2> QED BY <2>3 DEF b
  <1>3. K \subseteq Inums
    BY DEF Live
  <1> QED BY <1>1, <1>2, <1>3 DEF Undisturbed, Closed

LEMMA ShrunkFrame ==
    ASSUME NEW f \in FsType, NEW g \in FsType, Apart(f), NEW X, Shrunk(f, X, g),
           NEW K, K \subseteq Live(g), Closed(f, K)
    PROVE  Undisturbed(f, g, K)
  <1>1. /\ Live(g) \subseteq Live(f) /\ \A i \in K : g.inode[i] = f.inode[i]
        /\ FreesTheirBlocks(f, g)
    BY ShrunkLive DEF Shrunk
  <1>2. ASSUME NEW i \in K, NEW k \in 0 .. NDIRECT
        PROVE  LET b == f.inode[i].blocks[k] IN g.disk[b] = f.disk[b]
    <2> DEFINE b == f.inode[i].blocks[k]
    <2>1. i \in Live(f) /\ i \in Live(g)
      BY <1>1
    <2>2. i \in Inums /\ b \in 0 .. NDATA /\ (b = 0 \/ (b \in DataBlocks /\ NamesBlock(f, i, k, b)))
      BY <2>1, Named
    <2>3. b \notin f.used \ g.used
      <3> SUFFICES ASSUME b \in f.used \ g.used PROVE FALSE
        OBVIOUS
      <3> HIDE DEF b
      <3>1. b \in DataBlocks /\ NamesBlock(f, i, k, b)
        <4>1. b \in DataBlocks
          BY FsParts
        <4>2. b # 0
          BY <4>1, SizesAssumption DEF DataBlocks
        <4> QED BY <2>2, <4>1, <4>2
      <3>2. PICK j \in Gone(f, g), l \in 0 .. NDIRECT - 1 : NamesBlock(f, j, l, b)
        BY <1>1 DEF FreesTheirBlocks
      <3>3. l \in 0 .. NDIRECT /\ j \in Inums /\ j \notin Live(g)
        BY SizesAssumption DEF Gone, Live
      <3>4. i = j
        BY <2>2, <3>1, <3>2, <3>3 DEF Apart
      <3> QED BY <2>1, <3>3, <3>4
    <2> HIDE DEF b
    <2>4. g.disk[b] = f.disk[b]
      BY <1>1, <2>2, <2>3 DEF FreesTheirBlocks
    <2> QED BY <2>4 DEF b
  <1>3. K \subseteq Inums
    BY DEF Live
  <1> QED BY <1>1, <1>2, <1>3 DEF Undisturbed, Closed
-----------------------------------------------------------------------------
(* What the loop over the direct slots writes: block k of data through     *)
(* slot k - 1.                                                             *)
Written(data, k, acc) == \A l \in 1 .. k : acc.fs.disk[acc.ino.blocks[l - 1]] = Chunk(data, l - 1)

LEMMA DirectWritten ==
    ASSUME NEW f \in FsType, NEW n \in InodeType, NEW data \in Seq(Nat)
    PROVE  LET D == write_direct(f, n, data)
           IN \A k \in 0 .. ndirect(data) : D[k].fs.status = "ok" => Written(data, k, D[k])
  <1> DEFINE D == write_direct(f, n, data)
             M == ndirect(data)
             T == {k \in 0 .. M : D[k].fs.status = "ok" => Written(data, k, D[k])}
  <1>1. M \in Nat /\ M <= NDIRECT /\ NDIRECT \in Nat
    BY NDirect, SizesAssumption
  <1>2. /\ D \in [0 .. M -> DirectAcc] /\ D[0] = [fs |-> f, ino |-> n]
        /\ \A k \in 1 .. M : D[k] = write_one(D[k - 1], data, k)
    BY WriteDirectDef
  <1>3. \A k \in 0 .. M : D[k] \in DirectAcc /\ (D[k].fs.status = "ok" => Placed(f, n, k, D[k]))
    BY WriteDirect
  <1> HIDE DEF D, M
  <1>4. 0 \in T
    <2>1. Written(data, 0, D[0]) /\ 0 \in 0 .. M
      BY <1>1 DEF Written
    <2> QED BY <2>1
  <1>5. ASSUME NEW k \in 1 .. M, k - 1 \in T PROVE k \in T
    <2> DEFINE acc == D[k - 1]
               r == D[k]
               b == r.ino.blocks[k - 1]
    <2>1. k \in 0 .. M /\ k \in 1 .. NDIRECT /\ k - 1 \in 0 .. M /\ k \in Nat
      BY <1>1
    <2>2. /\ acc \in DirectAcc /\ acc.fs \in FsType
          /\ acc.fs.status = "ok" => Placed(f, n, k - 1, acc) /\ Written(data, k - 1, acc)
      BY <1>3, <1>5, <2>1 DEF DirectAcc
    <2>3. /\ \A l \in 0 .. NDIRECT : l # k - 1 => r.ino.blocks[l] = acc.ino.blocks[l]
          /\ r.fs.status = "ok" =>
               /\ acc.fs.status = "ok" /\ b \in DataBlocks \ acc.fs.used
               /\ \A c \in 0 .. NDATA : c # b => r.fs.disk[c] = acc.fs.disk[c]
               /\ r.fs.disk[b] = Chunk(data, k - 1)
      <3>1. r = write_one(acc, data, k)
        BY <1>2
      <3> HIDE DEF r, acc
      <3> QED BY <2>1, <2>2, <3>1, WriteOne, SMTT(40)
    <2> HIDE DEF r, acc
    <2>4. ASSUME r.fs.status = "ok", NEW l \in 1 .. k
          PROVE  r.fs.disk[r.ino.blocks[l - 1]] = Chunk(data, l - 1)
      <3>1. CASE l = k
        BY <2>3, <2>4, <3>1
      <3>2. CASE l # k
        <4> DEFINE c == acc.ino.blocks[l - 1]
        <4>1. l \in 1 .. k - 1 /\ l - 1 \in 0 .. (k - 1) - 1 /\ l - 1 # k - 1 /\ l - 1 \in 0 .. NDIRECT
          BY <1>1, <2>1, <3>2
        <4>2. r.ino.blocks[l - 1] = c /\ acc.fs.disk[c] = Chunk(data, l - 1)
          BY <2>2, <2>3, <2>4, <4>1 DEF Written
        <4>3. c \in acc.fs.used
          BY <2>2, <2>3, <2>4, <4>1 DEF Placed
        <4> HIDE DEF c
        <4>4. c \in 0 .. NDATA /\ c # b
          BY <2>2, <2>3, <2>4, <4>3, FsParts, SizesAssumption DEF DataBlocks
        <4> QED BY <2>3, <2>4, <4>2, <4>4
      <3> QED BY <3>1, <3>2
    <2>5. r.fs.status = "ok" => Written(data, k, r)
      BY <2>4 DEF Written
    <2> QED BY <2>1, <2>5 DEF r
  <1>6. \A k \in 0 .. M : k \in T
    <2> HIDE DEF T
    <2> QED BY <1>1, <1>4, <1>5, Induct
  <1> QED BY <1>6 DEF D, M
-----------------------------------------------------------------------------
(* At level d file i holds data: that is what is read, and its length is   *)
(* what the sizes add up to.                                               *)
NulFree(data) == \A k \in 1 .. Len(data) : data[k] # 0
Holds(f, d, i, data) ==
    file_contents(f)[d][i] = data /\ file_sizes(f)[d][i] = Len(data)
Delivers(write, d) ==
    \A f \in FsType, i \in Inums, data \in Seq(Nat) :
        i \in Live(f) /\ Marked(f) /\ NulFree(data) =>
            LET g == write[[fs |-> f, inum |-> i, data |-> data]]
            IN g.status = "ok" => Holds(g, d, i, data)

LEMMA StillHolds ==
    ASSUME NEW f \in FsType, NEW g \in FsType, NEW K, Undisturbed(f, g, K), NEW d \in Levels,
           NEW i \in K, NEW data, Holds(f, d, i, data)
    PROVE  Holds(g, d, i, data)
  <1>1. SameFiles(f, g, K)
    BY Frame
  <1> QED BY <1>1 DEF SameFiles, Holds

(* The last cell of the data that entry m of the table holds; those of     *)
(* entry 0 are what the direct slots hold.                                 *)
End(data, m) == IF m < NINDIRECT THEN MinOf((m + 1) * CAP, Len(data)) ELSE Len(data)

LEMMA CapFacts ==
    /\ CAP \in Nat \ {0} /\ NINDIRECT \in Nat /\ NINDIRECT > 1 /\ NINDIRECT = BLOCK_SIZE
    /\ \A m \in Nat : /\ m * CAP \in Nat /\ (m + 1) * CAP \in Nat /\ (m + 2) * CAP \in Nat
                      /\ (m + 1) * CAP = m * CAP + CAP
                      /\ (m + 2) * CAP = (m + 1) * CAP + CAP
  <1>1. CAP \in Nat \ {0}
    BY SizesAssumption DEF CAP
  <1>2. \A m \in Nat : /\ m * CAP \in Nat /\ (m + 1) * CAP \in Nat /\ (m + 2) * CAP \in Nat
                       /\ (m + 1) * CAP = m * CAP + CAP
                       /\ (m + 2) * CAP = (m + 1) * CAP + CAP
    BY <1>1
  <1> QED BY <1>1, <1>2, SizesAssumption DEF NINDIRECT

(* The entries of the table follow each other.                             *)
LEMMA Slices ==
    ASSUME NEW data \in Seq(Nat), Len(data) > CAP
    PROVE  LET E == entries_of(data)
           IN /\ E \in Nat /\ E <= BLOCK_SIZE
              /\ \A m \in 0 .. E : End(data, m) \in Nat /\ End(data, m) <= Len(data)
              /\ End(data, 0) = CAP /\ End(data, E) = Len(data)
              /\ \A m \in 1 .. E :
                   /\ End(data, m - 1) <= End(data, m)
                   /\ Slice(data, m - 1) = SubSeq(data, End(data, m - 1) + 1, End(data, m))
  <1> DEFINE L == Len(data)
             E == entries_of(data)
             q == (L - 1) \div CAP
  <1>1. L \in Nat /\ L > CAP
    BY LenProperties
  <1>2. E \in Nat /\ E <= BLOCK_SIZE
    BY Entries
  <1>3. q \in Nat /\ CAP * q <= L - 1 /\ L - 1 < CAP * q + CAP
    <2> DEFINE l == L - 1
    <2>1. l \in Nat
      BY <1>1, CapFacts
    <2> HIDE DEF l
    <2> QED BY <2>1, CapFacts, Div DEF l
  <1>4. E = IF MinOf(q, NINDIRECT - 1) = NINDIRECT - 1 THEN NINDIRECT ELSE MinOf(q, NINDIRECT - 1)
    BY DEF entries_of
  <1> HIDE DEF E, q
  <1>5. E = NINDIRECT \/ (E = q /\ q < NINDIRECT - 1)
    BY <1>3, <1>4, CapFacts DEF MinOf
  <1>6. \A m \in 0 .. E : End(data, m) \in Nat /\ End(data, m) <= L
    <2> SUFFICES ASSUME NEW m \in 0 .. E PROVE End(data, m) \in Nat /\ End(data, m) <= L
      OBVIOUS
    <2> DEFINE x == (m + 1) * CAP
    <2>1. x \in Nat
      BY <1>2, CapFacts
    <2>2. End(data, m) = IF m < NINDIRECT THEN MinOf(x, L) ELSE L
      BY DEF End
    <2> HIDE DEF x, L
    <2> QED BY <1>1, <2>1, <2>2 DEF MinOf
  <1>7. End(data, 0) = CAP
    <2>1. (0 + 1) * CAP = CAP
      BY CapFacts
    <2>2. End(data, 0) = MinOf((0 + 1) * CAP, L)
      BY CapFacts DEF End
    <2> HIDE DEF L
    <2> QED BY <1>1, <2>1, <2>2, CapFacts DEF MinOf
  <1>8. End(data, E) = L
    <2>1. CASE E = NINDIRECT
      BY <2>1, CapFacts DEF End
    <2>2. CASE E = q /\ q < NINDIRECT - 1
      <3> DEFINE x == (q + 1) * CAP
                 y == CAP * q
      <3>1. x = y + CAP /\ y \in Nat
        BY <1>3, CapFacts
      <3>2. End(data, E) = MinOf(x, L)
        <4>1. E < NINDIRECT
          BY <1>3, <2>2, CapFacts
        <4> QED BY <2>2, <4>1 DEF End
      <3>3. L - 1 < y + CAP
        BY <1>3
      <3> HIDE DEF x, y, L
      <3> QED BY <1>1, <3>1, <3>2, <3>3, CapFacts DEF MinOf
    <2> QED BY <1>5, <2>1, <2>2
  <1>9. ASSUME NEW m \in 1 .. E
        PROVE  /\ End(data, m - 1) <= End(data, m)
               /\ Slice(data, m - 1) = SubSeq(data, End(data, m - 1) + 1, End(data, m))
    <2> DEFINE k == m - 1
               a == m * CAP
               b == (m + 1) * CAP
    <2>1. m \in Nat /\ m <= NINDIRECT /\ k < NINDIRECT /\ k + 1 = m /\ k + 2 = m + 1
          /\ (k < NINDIRECT - 1 <=> m < NINDIRECT)
      BY <1>2, CapFacts
    <2>2. a \in Nat /\ b = a + CAP
      BY <2>1, CapFacts
    <2>3. End(data, m) = IF m < NINDIRECT THEN MinOf(b, L) ELSE L
      BY DEF End
    <2>4. End(data, k) = MinOf(a, L)
      BY <2>1 DEF End
    <2>5. Slice(data, k) = SubSeq(data, a + 1, End(data, m))
      <3>1. Slice(data, k) = SubSeq(data, (k + 1) * CAP + 1,
                                    IF k < NINDIRECT - 1 THEN MinOf((k + 2) * CAP, L) ELSE L)
        BY DEF Slice
      <3> HIDE DEF k
      <3> QED BY <2>1, <2>3, <3>1
    <2> HIDE DEF a, b, k, L
    <2>6. CASE a <= L
      <3>1. End(data, k) = a
        BY <1>1, <2>2, <2>4, <2>6 DEF MinOf
      <3>2. a <= End(data, m)
        BY <1>1, <2>2, <2>3, <2>6, CapFacts DEF MinOf
      <3> QED BY <2>5, <3>1, <3>2 DEF k
    <2>7. CASE ~(a <= L)
      <3>1. End(data, k) = L /\ End(data, m) = L
        BY <1>1, <2>2, <2>3, <2>4, <2>7, CapFacts DEF MinOf
      <3>2. SubSeq(data, a + 1, L) = SubSeq(data, L + 1, L)
        <4>1. a \in Nat /\ L \in Nat /\ a > L
          BY <1>1, <2>2, <2>7
        <4> QED BY <4>1
      <3>3. End(data, k) <= End(data, m)
        BY <1>1, <3>1
      <3>4. Slice(data, k) = SubSeq(data, End(data, k) + 1, End(data, m))
        BY <2>5, <3>1, <3>2
      <3> QED BY <3>3, <3>4 DEF k
    <2> QED BY <2>6, <2>7
  <1> QED BY <1>2, <1>6, <1>7, <1>8, <1>9 DEF E

LEMMA SliceNulFree ==
    ASSUME NEW data \in Seq(Nat), Len(data) > CAP, NulFree(data), NEW m \in 1 .. entries_of(data)
    PROVE  /\ Slice(data, m - 1) \in Seq(Nat) /\ NulFree(Slice(data, m - 1))
           /\ Len(Slice(data, m - 1)) = End(data, m) - End(data, m - 1)
  <1> DEFINE a == End(data, m - 1)
             b == End(data, m)
             s == Slice(data, m - 1)
  <1>1. a \in Nat /\ b \in Nat /\ a <= b /\ b <= Len(data) /\ s = SubSeq(data, a + 1, b)
    <2>1. m - 1 \in 0 .. entries_of(data) /\ m \in 0 .. entries_of(data)
      BY Slices
    <2> QED BY <2>1, Slices
  <1> HIDE DEF a, b, s
  <1>2. s \in Seq(Nat) /\ Len(s) = b - a /\ \A k \in 1 .. b - a : s[k] = data[a + k]
    BY <1>1, PartTyped
  <1>3. \A k \in 1 .. b - a : a + k \in 1 .. Len(data)
    BY <1>1, LenProperties
  <1> QED BY <1>2, <1>3 DEF NulFree, a, b, s
-----------------------------------------------------------------------------
(* What the inodes of the table hold as the loop fills it: entry m its     *)
(* part of data, which no later entry disturbs.                            *)
Filled(acc, k, d, data) ==
    \A m \in 1 .. k : Holds(acc.fs, d, acc.inodes[m], Slice(data, m - 1))

LEMMA TableHolds ==
    ASSUME NEW write \in [DataCall -> FsType], KeepsStatus(write), Writes(write),
           NEW d \in Levels, Delivers(write, d),
           NEW z \in FsType, Marked(z), NEW data \in Seq(Nat), Len(data) > CAP, NulFree(data)
    PROVE  LET D == write_table(write, z, data)
           IN \A k \in 0 .. entries_of(data) : D[k].fs.status = "ok" => Filled(D[k], k, d, data)
  <1> DEFINE D == write_table(write, z, data)
             E == entries_of(data)
             T == {k \in 0 .. E : D[k].fs.status = "ok" => Filled(D[k], k, d, data)}
  <1>1. E \in Nat /\ E <= BLOCK_SIZE
    BY Entries
  <1>2. \A k \in 1 .. E : D[k] = write_sub(write, D[k - 1], data, k)
    BY WriteTableDef
  <1>3. \A k \in 0 .. E :
          /\ D[k] \in TableAcc
          /\ D[k].fs.status = "ok" => /\ Grown(z, {}, D[k].fs) /\ Marked(D[k].fs)
                                      /\ Unlisted(z, D[k].fs, Entered(D[k], k))
    BY WriteTable
  <1>4. \A m \in 1 .. E : Slice(data, m - 1) \in Seq(Nat) /\ NulFree(Slice(data, m - 1))
    BY SliceNulFree
  <1> HIDE DEF D, E
  <1>5. 0 \in T
    <2>1. Filled(D[0], 0, d, data) /\ 0 \in 0 .. E
      BY <1>1 DEF Filled
    <2> QED BY <2>1
  <1>6. ASSUME NEW k \in 1 .. E, k - 1 \in T PROVE k \in T
    <2> DEFINE acc == D[k - 1]
               r == D[k]
               f == acc.fs
               g == r.fs
               a == alloc_inode(f, T_FILE)
               sub == find_free_inode(f)
               part == Slice(data, k - 1)
               K == New(z, f)
    <2>1. k \in 0 .. E /\ k \in 1 .. BLOCK_SIZE /\ k - 1 \in 0 .. E /\ k \in Nat
      BY <1>1, SizesAssumption
    <2>2. acc \in TableAcc /\ f \in FsType /\ r \in TableAcc /\ g \in FsType
      BY <1>3, <2>1 DEF TableAcc
    <2>3. /\ a \in FsType /\ [fs |-> a, inum |-> sub, data |-> part] \in DataCall
          /\ g = write[[fs |-> a, inum |-> sub, data |-> part]]
          /\ r.inodes[k] = sub
          /\ \A m \in 1 .. BLOCK_SIZE : m # k => r.inodes[m] = acc.inodes[m]
      BY <1>2, <2>1, <2>2, WriteSub
    <2> SUFFICES ASSUME g.status = "ok" PROVE Filled(r, k, d, data)
      BY <2>1
    <2>4. a.status = "ok"
      BY <2>3 DEF KeepsStatus
    <2>5. /\ f.status = "ok" /\ sub \in Inums /\ sub \notin Live(f) /\ Live(a) = Live(f) \cup {sub}
          /\ a.used = f.used /\ a.disk = f.disk
          /\ \A j \in Live(f) : a.inode[j] = f.inode[j]
          /\ \A b : \A j \in Inums, l \in 0 .. NDIRECT : NamesBlock(a, j, l, b) <=> NamesBlock(f, j, l, b)
      BY <2>2, <2>4, TakenInode
    <2>6. /\ Grown(z, {}, f) /\ Marked(f) /\ Unlisted(z, f, Entered(acc, k - 1))
          /\ Filled(acc, k - 1, d, data)
      BY <1>3, <1>6, <2>1, <2>5
    <2>7. Marked(a)
      BY <2>5, <2>6 DEF Marked
    <2>8. part \in Seq(Nat) /\ NulFree(part)
      BY <1>4
    <2> HIDE DEF a, sub, part, f, g, r, acc
    <2>9. Grown(a, {sub}, g) /\ Holds(g, d, sub, part)
      <3>1. sub \in Live(a)
        BY <2>5
      <3> QED BY <2>3, <2>5, <2>7, <2>8, <3>1 DEF Writes, Delivers
    <2>10. K \subseteq Live(f) /\ K \subseteq Inums /\ Closed(f, K)
      <3>1. K \subseteq Live(f) /\ K \subseteq Inums
        BY DEF New, Live
      <3>2. \A j \in K : SubsIn(f, j) \subseteq K
        BY <2>6 DEF Grown, ListsNewInodes
      <3> QED BY <3>1, <3>2 DEF Closed
    <2> HIDE DEF K
    <2>11. Undisturbed(f, a, K)
      BY <2>5, <2>10, SameDisk
    <2>12. Undisturbed(a, g, K)
      <3>1. K \subseteq Live(a) /\ K \cap {sub} = {}
        BY <2>5, <2>10
      <3>2. \A j \in K : SubsIn(a, j) = SubsIn(f, j)
        <4> SUFFICES ASSUME NEW j \in K PROVE SubsIn(a, j) = SubsIn(f, j)
          OBVIOUS
        <4>1. j \in Inums /\ a.inode[j] = f.inode[j]
          BY <2>5, <2>10
        <4> QED BY <2>2, <2>3, <2>5, <4>1, SameSubs
      <3>3. Closed(a, K)
        BY <2>10, <3>2 DEF Closed
      <3> QED BY <2>2, <2>3, <2>7, <2>9, <3>1, <3>3, GrownFrame
    <2>13. Undisturbed(f, g, K)
      BY <2>11, <2>12, UndisturbedTwice
    <2>14. ASSUME NEW m \in 1 .. k PROVE Holds(g, d, r.inodes[m], Slice(data, m - 1))
      <3>1. CASE m = k
        BY <2>3, <2>9, <3>1 DEF part
      <3>2. CASE m # k
        <4>1. m \in 1 .. k - 1 /\ m \in 1 .. BLOCK_SIZE
          BY <2>1, <3>2, SizesAssumption
        <4>2. Holds(f, d, acc.inodes[m], Slice(data, m - 1)) /\ r.inodes[m] = acc.inodes[m]
          BY <2>3, <2>6, <3>2, <4>1 DEF Filled, f
        <4>3. acc.inodes[m] \in K
          BY <2>6, <4>1 DEF Unlisted, Entered, K
        <4> QED BY <2>2, <2>13, <4>2, <4>3, StillHolds
      <3> QED BY <3>1, <3>2
    <2> QED BY <2>14 DEF Filled, g
  <1>7. \A k \in 0 .. E : k \in T
    <2> HIDE DEF T
    <2> QED BY <1>1, <1>5, <1>6, Induct
  <1> QED BY <1>7 DEF D, E
-----------------------------------------------------------------------------
(* How blocks of cells cover the data.                                     *)
LEMMA BlocksBound ==
    ASSUME NEW n \in Nat
    PROVE  LET q == blocks_of(n)
           IN q \in Nat /\ n <= q * BLOCK_SIZE /\ (q # 0 => (q - 1) * BLOCK_SIZE < n)
  <1> DEFINE q == blocks_of(n)
             B == BLOCK_SIZE
             a == n + B - 1
  <1>1. B \in Nat \ {0} /\ a \in Nat
    BY SizesAssumption
  <1>2. q \in Nat /\ B * q <= a /\ a < B * q + B
    <2> HIDE DEF B, a
    <2>1. a \div B \in Nat /\ B * (a \div B) <= a /\ a < B * (a \div B) + B
      BY <1>1, Div
    <2> QED BY <2>1 DEF blocks_of, a, B
  <1> DEFINE x == B * q
  <1>3. x \in Nat /\ q * B = x /\ (q - 1) * B = x - B
    <2> HIDE DEF B, q
    <2> QED BY <1>1, <1>2
  <1>4. n <= x /\ x - B < n
    <2>1. x <= a /\ a < x + B
      BY <1>2
    <2> HIDE DEF x, B
    <2> QED BY <1>1, <1>3, <2>1
  <1> HIDE DEF x, q
  <1> QED BY <1>2, <1>3, <1>4 DEF q

LEMMA CellOf ==
    ASSUME NEW q \in Nat
    PROVE  /\ q * BLOCK_SIZE \in Nat /\ (q + 1) * BLOCK_SIZE = q * BLOCK_SIZE + BLOCK_SIZE
           /\ BLOCK_SIZE \in Nat /\ BLOCK_SIZE > 1
           /\ q <= NDIRECT => q * BLOCK_SIZE <= CAP
  <1> DEFINE B == BLOCK_SIZE
  <1>1. B \in Nat /\ B > 1 /\ NDIRECT \in Nat
    BY SizesAssumption
  <1>2. q * B \in Nat /\ (q + 1) * B = q * B + B
    BY <1>1
  <1>3. ASSUME q <= NDIRECT PROVE q * B <= NDIRECT * B
    <2> DEFINE r == NDIRECT - q
    <2>1. r \in Nat /\ q + r = NDIRECT
      BY <1>1, <1>3
    <2> HIDE DEF r, B
    <2>2. (q + r) * B = q * B + r * B /\ r * B \in Nat
      BY <1>1, <2>1
    <2> QED BY <1>1, <1>2, <2>1, <2>2
  <1> QED BY <1>1, <1>2, <1>3 DEF CAP

LEMMA ChunkAt ==
    ASSUME NEW data \in Seq(Nat), NEW q \in Nat
    PROVE  LET c == Chunk(data, q)
           IN /\ c \in BlockType /\ c \in Seq(Nat) /\ Len(c) = BLOCK_SIZE
              /\ \A j \in 1 .. BLOCK_SIZE :
                   c[j] = IF q * BLOCK_SIZE + j <= Len(data) THEN data[q * BLOCK_SIZE + j] ELSE 0
  <1>1. Chunk(data, q) \in BlockType
    BY ChunkTyped
  <1> QED BY <1>1, BlockIsSeq DEF Chunk

(* A block in the middle of s, which has data before its zeros.            *)
LEMMA ChunkIsPart ==
    ASSUME NEW data \in Seq(Nat), NEW s \in Seq(Nat), NEW q \in Nat,
           (q + 1) * BLOCK_SIZE <= Len(s),
           \A k \in 1 .. Len(s) : s[k] = IF k <= Len(data) THEN data[k] ELSE 0
    PROVE  Chunk(data, q) = SubSeq(s, q * BLOCK_SIZE + 1, (q + 1) * BLOCK_SIZE)
  <1> DEFINE c == Chunk(data, q)
             a == q * BLOCK_SIZE
             b == (q + 1) * BLOCK_SIZE
             B == BLOCK_SIZE
             p == SubSeq(s, a + 1, b)
  <1>1. a \in Nat /\ b = a + B /\ B \in Nat
    BY CellOf
  <1>2. /\ c \in Seq(Nat) /\ Len(c) = B
        /\ \A j \in 1 .. B : c[j] = IF a + j <= Len(data) THEN data[a + j] ELSE 0
    BY ChunkAt
  <1>3. b <= Len(s)
    OBVIOUS
  <1> HIDE DEF a, b, B, c
  <1>4. a <= b /\ b \in Nat /\ b - a = B
    BY <1>1
  <1>5. p \in Seq(Nat) /\ Len(p) = B /\ \A j \in 1 .. B : p[j] = s[a + j]
    BY <1>1, <1>3, <1>4, PartTyped
  <1>6. \A j \in 1 .. B : a + j \in 1 .. Len(s)
    BY <1>1, <1>3
  <1>7. \A j \in 1 .. B : p[j] = c[j]
    BY <1>2, <1>5, <1>6
  <1> HIDE DEF p
  <1>8. p = c
    BY <1>2, <1>5, <1>7, SeqEqual
  <1> QED BY <1>8 DEF a, b, c, p

(* Data without NULs at its end is what strip leaves of it.                *)
LEMMA StripPadded ==
    ASSUME NEW data \in Seq(Nat), NulFree(data), NEW s \in Seq(Nat), Len(data) <= Len(s),
           \A k \in 1 .. Len(s) : s[k] = IF k <= Len(data) THEN data[k] ELSE 0
    PROVE  strip[s] = data
  <1> DEFINE m == Len(data)
             p == SubSeq(s, 1, m)
  <1>1. m \in Nat /\ Len(s) \in Nat /\ m <= Len(s)
    BY LenProperties
  <1>2. /\ m \in 0 .. Len(s)
        /\ m = 0 \/ s[m] # 0
        /\ \A k \in m + 1 .. Len(s) : s[k] = 0
    <2>1. m # 0 => m \in 1 .. Len(s) /\ m \in 1 .. Len(data)
      BY <1>1
    <2>2. m # 0 => s[m] # 0
      BY <1>1, <2>1 DEF NulFree
    <2>3. \A k \in m + 1 .. Len(s) : k \in 1 .. Len(s) /\ ~(k <= m)
      BY <1>1
    <2> QED BY <1>1, <2>2, <2>3
  <1>3. strip[s] = p
    BY <1>2, Stripped
  <1>4. p \in Seq(Nat) /\ Len(p) = m /\ \A k \in 1 .. m : p[k] = s[k]
    <2> DEFINE r == SubSeq(s, 0 + 1, m)
    <2>1. r \in Seq(Nat) /\ Len(r) = m - 0 /\ \A k \in 1 .. m - 0 : r[k] = s[0 + k]
      BY <1>1, PartTyped
    <2> QED BY <1>1, <2>1
  <1> HIDE DEF p
  <1>5. \A k \in 1 .. m : p[k] = data[k]
    BY <1>1, <1>4
  <1>6. p = data
    BY <1>4, <1>5, SeqEqual
  <1> QED BY <1>3, <1>6

(* A file that fits its direct slots: the last block is filled with zeros, *)
(* which the reading drops and the size does not count.                    *)
LEMMA SmallRead ==
    ASSUME NEW data \in Seq(Nat), NulFree(data), NEW M \in Nat, Len(data) <= M * BLOCK_SIZE,
           NEW bufs \in Seq(Seq(Nat)), Len(bufs) = M, \A k \in 1 .. M : bufs[k] = Chunk(data, k - 1)
    PROVE  strip[merge[bufs]] = data
  <1> DEFINE N == M * BLOCK_SIZE
             s == [k \in 1 .. N |-> IF k <= Len(data) THEN data[k] ELSE 0]
             ends == [k \in 0 .. M |-> k * BLOCK_SIZE]
  <1>1. N \in Nat /\ Len(data) \in Nat
    BY CellOf, LenProperties
  <1>2. s \in [1 .. N -> Nat]
    BY <1>1, ElementOfSeq
  <1>3. \A k \in 1 .. N : s[k] = IF k <= Len(data) THEN data[k] ELSE 0
    OBVIOUS
  <1>4. /\ ends \in [0 .. M -> Nat] /\ ends[0] = 0 /\ ends[M] = N
        /\ \A k \in 0 .. M : ends[k] = k * BLOCK_SIZE
    <2>1. \A k \in 0 .. M : k * BLOCK_SIZE \in Nat
      BY SizesAssumption
    <2>2. 0 * BLOCK_SIZE = 0 /\ M \in 0 .. M /\ 0 \in 0 .. M
      BY SizesAssumption
    <2> QED BY <2>1, <2>2
  <1> HIDE DEF s, ends
  <1>5. s \in Seq(Nat) /\ Len(s) = N
    <2> HIDE DEF N
    <2> QED BY <1>1, <1>2, SeqOfFunction
  <1>6. ASSUME NEW k \in 1 .. M
        PROVE  /\ ends[k - 1] <= ends[k] /\ ends[k] <= Len(s)
               /\ bufs[k] = SubSeq(s, ends[k - 1] + 1, ends[k])
    <2> DEFINE q == k - 1
    <2>1. q \in Nat /\ q \in 0 .. M /\ k \in 0 .. M /\ q + 1 = k
      OBVIOUS
    <2> HIDE DEF q
    <2>2. ends[q] = q * BLOCK_SIZE /\ ends[k] = (q + 1) * BLOCK_SIZE
      BY <1>4, <2>1
    <2>3. q * BLOCK_SIZE \in Nat /\ (q + 1) * BLOCK_SIZE = q * BLOCK_SIZE + BLOCK_SIZE /\ BLOCK_SIZE \in Nat
      BY <2>1, CellOf
    <2>4. (q + 1) * BLOCK_SIZE <= N
      <3> DEFINE r == M - k
      <3>1. r \in Nat /\ k + r = M
        OBVIOUS
      <3> HIDE DEF r
      <3>2. (k + r) * BLOCK_SIZE = k * BLOCK_SIZE + r * BLOCK_SIZE /\ r * BLOCK_SIZE \in Nat
            /\ k * BLOCK_SIZE \in Nat
        BY <2>1, <3>1, SizesAssumption
      <3> DEFINE x == k * BLOCK_SIZE
                 y == r * BLOCK_SIZE
      <3>3. N = x + y /\ y \in Nat /\ x \in Nat /\ (q + 1) * BLOCK_SIZE = x
        BY <2>1, <3>1, <3>2
      <3> HIDE DEF x, y, N
      <3> QED BY <3>3
    <2>5. bufs[k] = Chunk(data, q)
      BY DEF q
    <2>6. Chunk(data, q) = SubSeq(s, q * BLOCK_SIZE + 1, (q + 1) * BLOCK_SIZE)
      BY <1>3, <1>5, <2>1, <2>4, ChunkIsPart
    <2>7. ends[q] <= ends[k] /\ ends[k] <= Len(s)
      <3> DEFINE x == q * BLOCK_SIZE
                 y == (q + 1) * BLOCK_SIZE
      <3> HIDE DEF x, y, N
      <3> QED BY <1>5, <2>2, <2>3, <2>4 DEF x, y
    <2> QED BY <2>2, <2>5, <2>6, <2>7 DEF q
  <1>7. merge[bufs] = s
    <2> HIDE DEF N
    <2> QED BY <1>4, <1>5, <1>6, Joined
  <1>8. strip[s] = data
    <2> HIDE DEF N
    <2>1. Len(data) <= N
      BY DEF N
    <2> QED BY <1>3, <1>5, <2>1, StripPadded
  <1> QED BY <1>7, <1>8

(* A file with a table: full blocks, then what the inodes of the table     *)
(* hold.                                                                   *)
LEMMA LargeRead ==
    ASSUME NEW data \in Seq(Nat), NulFree(data), Len(data) > CAP,
           NEW bufs \in Seq(Seq(Nat)), Len(bufs) = NDIRECT + entries_of(data),
           \A k \in 1 .. NDIRECT : bufs[k] = Chunk(data, k - 1),
           \A m \in 1 .. entries_of(data) : bufs[NDIRECT + m] = Slice(data, m - 1)
    PROVE  strip[merge[bufs]] = data
  <1> DEFINE E == entries_of(data)
             D == NDIRECT
             N == D + E
             ends == [k \in 0 .. N |-> IF k <= D THEN k * BLOCK_SIZE ELSE End(data, k - D)]
  <1>1. D \in Nat /\ E \in Nat /\ N \in Nat /\ Len(data) \in Nat
    BY SizesAssumption, Entries, LenProperties
  <1>2. /\ \A m \in 0 .. E : End(data, m) \in Nat /\ End(data, m) <= Len(data)
        /\ End(data, 0) = CAP /\ End(data, E) = Len(data)
        /\ \A m \in 1 .. E : /\ End(data, m - 1) <= End(data, m)
                             /\ Slice(data, m - 1) = SubSeq(data, End(data, m - 1) + 1, End(data, m))
    BY Slices
  <1>3. \A k \in 0 .. D : k * BLOCK_SIZE \in Nat /\ k * BLOCK_SIZE <= CAP
    <2> SUFFICES ASSUME NEW k \in 0 .. D
                 PROVE  k * BLOCK_SIZE \in Nat /\ k * BLOCK_SIZE <= CAP
      OBVIOUS
    <2>1. k \in Nat /\ k <= NDIRECT
      BY <1>1
    <2> QED BY <2>1, CellOf
  <1>4. D * BLOCK_SIZE = CAP /\ 0 * BLOCK_SIZE = 0
    BY SizesAssumption DEF CAP
  <1>5. ends \in [0 .. N -> Nat]
    <2> SUFFICES ASSUME NEW k \in 0 .. N
                 PROVE  (IF k <= D THEN k * BLOCK_SIZE ELSE End(data, k - D)) \in Nat
      OBVIOUS
    <2>1. CASE k <= D
      <3>1. k \in 0 .. D
        BY <1>1, <2>1
      <3> QED BY <1>3, <2>1, <3>1
    <2>2. CASE ~(k <= D)
      <3>1. k - D \in 0 .. E
        BY <1>1, <2>2
      <3> QED BY <1>2, <2>2, <3>1
    <2> QED BY <2>1, <2>2
  <1>6. /\ \A k \in 0 .. N : k <= D => ends[k] = k * BLOCK_SIZE
        /\ \A m \in 0 .. E : ends[D + m] = End(data, m)
    <2>1. \A k \in 0 .. N : k <= D => ends[k] = k * BLOCK_SIZE
      OBVIOUS
    <2>2. ASSUME NEW m \in 0 .. E PROVE ends[D + m] = End(data, m)
      <3>1. D + m \in 0 .. N /\ (D + m) - D = m /\ (D + m <= D <=> m = 0)
        BY <1>1
      <3>2. ends[D + m] = IF D + m <= D THEN (D + m) * BLOCK_SIZE ELSE End(data, m)
        BY <3>1
      <3>3. CASE m = 0
        BY <1>1, <1>2, <1>4, <3>2, <3>3
      <3>4. CASE m # 0
        BY <3>1, <3>2, <3>4
      <3> QED BY <3>3, <3>4
    <2> QED BY <2>1, <2>2
  <1> HIDE DEF ends, E
  <1>7. ends[0] = 0 /\ ends[N] = Len(data)
    <2>1. 0 \in 0 .. N /\ 0 <= D /\ E \in 0 .. E
      BY <1>1
    <2> QED BY <1>2, <1>4, <1>6, <2>1
  <1>8. ASSUME NEW k \in 1 .. N
        PROVE  /\ ends[k - 1] <= ends[k] /\ ends[k] <= Len(data)
               /\ bufs[k] = SubSeq(data, ends[k - 1] + 1, ends[k])
    <2>1. CASE k <= D
      <3> DEFINE q == k - 1
      <3>1. k \in 1 .. D /\ q \in Nat /\ q \in 0 .. N /\ k \in 0 .. N /\ q <= D /\ q + 1 = k /\ k \in 0 .. D
        BY <1>1, <2>1
      <3>2. bufs[k] = Chunk(data, q)
        BY <3>1
      <3> HIDE DEF q
      <3>3. ends[q] = q * BLOCK_SIZE /\ ends[k] = (q + 1) * BLOCK_SIZE
        BY <1>6, <2>1, <3>1
      <3>4. (q + 1) * BLOCK_SIZE \in Nat /\ (q + 1) * BLOCK_SIZE <= CAP
        BY <1>3, <3>1
      <3>5. q * BLOCK_SIZE \in Nat /\ (q + 1) * BLOCK_SIZE = q * BLOCK_SIZE + BLOCK_SIZE /\ BLOCK_SIZE \in Nat
        BY <3>1, CellOf
      <3>6. ends[q] <= ends[k] /\ ends[k] <= Len(data)
        <4> DEFINE x == q * BLOCK_SIZE
                   y == (q + 1) * BLOCK_SIZE
        <4>1. CAP \in Nat
          BY CapFacts
        <4>2. x \in Nat /\ y = x + BLOCK_SIZE /\ y <= CAP
          BY <3>4, <3>5
        <4>3. ends[q] = x /\ ends[k] = y
          BY <3>3
        <4> HIDE DEF x, y
        <4> QED BY <1>1, <3>5, <4>1, <4>2, <4>3
      <3>7. (q + 1) * BLOCK_SIZE <= Len(data)
        BY <3>3, <3>6
      <3>8. \A l \in 1 .. Len(data) : data[l] = IF l <= Len(data) THEN data[l] ELSE 0
        OBVIOUS
      <3>9. Chunk(data, q) = SubSeq(data, q * BLOCK_SIZE + 1, (q + 1) * BLOCK_SIZE)
        BY <3>1, <3>7, <3>8, ChunkIsPart
      <3> QED BY <3>2, <3>3, <3>6, <3>9 DEF q
    <2>2. CASE ~(k <= D)
      <3> DEFINE m == k - D
      <3>1. m \in 1 .. E /\ m \in 0 .. E /\ m - 1 \in 0 .. E /\ D + m = k /\ D + (m - 1) = k - 1
        BY <1>1, <2>2
      <3> HIDE DEF m
      <3>2. ends[D + m] = End(data, m) /\ ends[D + (m - 1)] = End(data, m - 1)
        BY <1>6, <3>1
      <3>3. ends[k] = End(data, m) /\ ends[k - 1] = End(data, m - 1)
        BY <3>1, <3>2
      <3>4. bufs[D + m] = Slice(data, m - 1)
        BY <3>1 DEF E
      <3>5. bufs[k] = Slice(data, m - 1)
        BY <3>1, <3>4
      <3> QED BY <1>2, <3>1, <3>3, <3>5
    <2> QED BY <2>1, <2>2
  <1>9. Len(bufs) = N
    BY DEF E
  <1>10. merge[bufs] = data
    <2> HIDE DEF N
    <2> QED BY <1>5, <1>7, <1>8, <1>9, Joined
  <1>11. strip[data] = data
    <2>1. \A l \in 1 .. Len(data) : data[l] = IF l <= Len(data) THEN data[l] ELSE 0
      OBVIOUS
    <2>2. Len(data) <= Len(data)
      BY <1>1
    <2> QED BY <2>1, <2>2, StripPadded
  <1> QED BY <1>10, <1>11

(* The size of a file that fits its direct slots is found in the last one. *)
LEMMA LastOfChunk ==
    ASSUME NEW f, NEW id, NEW data \in Seq(Nat), NulFree(data), NEW q \in Nat,
           f.disk[id] = Chunk(data, q),
           q * BLOCK_SIZE < Len(data), Len(data) <= (q + 1) * BLOCK_SIZE
    PROVE  q * BLOCK_SIZE + last_non_zero_element_index_in_block(f, id) + 1 = Len(data)
  <1> DEFINE B == BLOCK_SIZE
             a == q * B
             c == Chunk(data, q)
             S == {0} \cup {k \in 0 .. B - 1 : f.disk[id][k + 1] # 0}
             l == Len(data) - a - 1
  <1>1. a \in Nat /\ (q + 1) * B = a + B /\ B \in Nat /\ Len(data) \in Nat
    BY CellOf, LenProperties
  <1>2. a < Len(data) /\ Len(data) <= a + B
    BY <1>1
  <1>3. \A j \in 1 .. B : c[j] = IF a + j <= Len(data) THEN data[a + j] ELSE 0
    BY ChunkAt
  <1>4. last_non_zero_element_index_in_block(f, id) = Max(S)
    BY DEF last_non_zero_element_index_in_block
  <1>5. S = {0} \cup {k \in 0 .. B - 1 : c[k + 1] # 0}
    OBVIOUS
  <1> HIDE DEF a, B, c, S
  <1>6. l \in 0 .. B - 1 /\ l + 1 \in 1 .. B /\ a + (l + 1) = Len(data) /\ Len(data) \in 1 .. Len(data)
    BY <1>1, <1>2
  <1> HIDE DEF l
  <1>7. l \in S
    <2>1. c[l + 1] = data[Len(data)]
      <3> DEFINE j == l + 1
      <3>1. j \in 1 .. B /\ a + j = Len(data) /\ Len(data) <= Len(data)
        BY <1>1, <1>6
      <3> HIDE DEF j
      <3>2. c[j] = data[Len(data)]
        BY <1>3, <3>1
      <3> QED BY <3>2 DEF j
    <2>2. data[Len(data)] # 0
      BY <1>6 DEF NulFree
    <2> QED BY <1>5, <1>6, <2>1, <2>2
  <1>8. S \in SUBSET Nat /\ \A x \in S : x <= B
    BY <1>1, <1>5
  <1>9. Max(S) \in S /\ \A y \in S : y <= Max(S)
    BY <1>1, <1>7, <1>8, Greatest
  <1> DEFINE x == Max(S)
  <1>10. x \in Nat
    BY <1>8, <1>9
  <1>11. l <= x
    BY <1>7, <1>9
  <1>12. x \in S
    BY <1>9
  <1> HIDE DEF x
  <1>13. x <= l
    <2> SUFFICES ASSUME x > l PROVE FALSE
      BY <1>6, <1>10
    <2>1. x # 0 /\ x \in 0 .. B - 1 /\ c[x + 1] # 0
      BY <1>5, <1>6, <1>12
    <2>2. x + 1 \in 1 .. B /\ ~(a + (x + 1) <= Len(data))
      BY <1>1, <1>6, <2>1
    <2> QED BY <1>3, <2>1, <2>2
  <1>14. x = l
    BY <1>6, <1>10, <1>11, <1>13
  <1>15. a + l + 1 = Len(data)
    BY <1>1, <1>6
  <1> QED BY <1>4, <1>14, <1>15 DEF a, B, x

(* The size of a file with a table is added up from those of its inodes.   *)
LEMMA LargeSize ==
    ASSUME NEW data \in Seq(Nat), NulFree(data), Len(data) > CAP,
           NEW w \in [Nat -> Nat], NEW subs \in Seq(Nat), Len(subs) = entries_of(data),
           \A m \in 1 .. entries_of(data) : w[subs[m]] = Len(Slice(data, m - 1))
    PROVE  CAP + add_sizes(w, subs)[Len(subs)] = Len(data)
  <1> DEFINE E == entries_of(data)
             D == add_sizes(w, subs)
             T == {m \in 0 .. E : CAP + D[m] = End(data, m)}
  <1>1. E \in Nat /\ CAP \in Nat
    BY Entries, CapFacts
  <1>2. /\ \A m \in 0 .. E : D[m] \in Nat
        /\ D[0] = 0 /\ \A m \in 1 .. E : D[m] = D[m - 1] + w[subs[m]]
    BY AddSizes
  <1>3. /\ \A m \in 0 .. E : End(data, m) \in Nat
        /\ End(data, 0) = CAP /\ End(data, E) = Len(data)
    BY Slices
  <1>4. \A m \in 1 .. E : w[subs[m]] = End(data, m) - End(data, m - 1)
    BY SliceNulFree
  <1> HIDE DEF E, D
  <1>5. 0 \in T
    <2>1. 0 \in 0 .. E /\ CAP + 0 = CAP
      BY <1>1
    <2>2. CAP + D[0] = CAP
      BY <1>2, <2>1
    <2> QED BY <1>3, <2>1, <2>2
  <1>6. ASSUME NEW m \in 1 .. E, m - 1 \in T PROVE m \in T
    <2>1. m \in 0 .. E /\ m - 1 \in 0 .. E
      BY <1>1
    <2>2. CAP + D[m - 1] = End(data, m - 1)
      BY <1>6
    <2>3. D[m] = D[m - 1] + (End(data, m) - End(data, m - 1))
      BY <1>2, <1>4
    <2>4. D[m - 1] \in Nat /\ End(data, m) \in Nat /\ End(data, m - 1) \in Nat
      BY <1>2, <1>3, <2>1
    <2>5. CAP + D[m] = End(data, m)
      <3> DEFINE x == D[m - 1]
                 y == D[m]
                 p == End(data, m - 1)
                 q == End(data, m)
      <3> HIDE DEF x, y, p, q
      <3>1. CAP + x = p /\ y = x + (q - p) /\ x \in Nat /\ p \in Nat /\ q \in Nat
        BY <2>2, <2>3, <2>4 DEF x, y, p, q
      <3>2. CAP + y = q
        BY <1>1, <3>1
      <3> QED BY <3>2 DEF y, q
    <2> QED BY <2>1, <2>5
  <1>7. \A m \in 0 .. E : m \in T
    <2> HIDE DEF T
    <2> QED BY <1>1, <1>5, <1>6, Induct
  <1>8. CAP + D[E] = Len(data)
    <2>1. E \in 0 .. E
      BY <1>1
    <2> QED BY <1>3, <1>7, <2>1
  <1> QED BY <1>8 DEF E, D
-----------------------------------------------------------------------------
(* When a file holds data: its blocks are those of data and the inodes of  *)
(* its table hold their parts.                                             *)
LEMMA UpToZeroExact ==
    ASSUME NEW s \in Seq(Nat), NEW E \in Nat, E <= Len(s),
           \A m \in 1 .. E : s[m] # 0, \A m \in E + 1 .. Len(s) : s[m] = 0
    PROVE  /\ Len(UpToZero[s]) = E
           /\ \A m \in 1 .. E : UpToZero[s][m] = s[m]
  <1> DEFINE zeros == {k \in DOMAIN s : s[k] = 0}
             u == UpToZero[s]
  <1>1. u = IF zeros = {} THEN s ELSE SubSeq(s, 1, Min(zeros) - 1)
    BY DEF UpToZero
  <1>2. Len(s) \in Nat /\ DOMAIN s = 1 .. Len(s)
    BY LenProperties
  <1>3. zeros = E + 1 .. Len(s)
    BY <1>2
  <1> HIDE DEF zeros, u
  <1>4. CASE E = Len(s)
    <2>1. zeros = {}
      BY <1>2, <1>3, <1>4
    <2> QED BY <1>1, <1>4, <2>1 DEF u
  <1>5. CASE E # Len(s)
    <2> DEFINE z == Min(zeros)
    <2>1. E + 1 \in zeros /\ \A y \in zeros : E + 1 <= y
      <3> DEFINE L == Len(s)
      <3>1. L \in Nat /\ E <= L /\ E # L
        BY <1>2, <1>5
      <3> HIDE DEF L
      <3>2. E + 1 \in E + 1 .. L /\ \A y \in E + 1 .. L : E + 1 <= y
        BY <3>1
      <3> QED BY <1>3, <3>2 DEF L
    <2>2. z \in zeros /\ \A y \in zeros : z <= y
      BY <2>1 DEF Min
    <2>3. zeros # {} /\ \A y \in zeros : y \in Nat
      BY <1>3, <2>1
    <2> HIDE DEF z
    <2>4. z = E + 1
      BY <2>1, <2>2, <2>3
    <2>5. z - 1 = E
      BY <2>4
    <2>6. u = SubSeq(s, 1, E)
      BY <1>1, <2>3, <2>5 DEF z
    <2> DEFINE r == SubSeq(s, 0 + 1, E)
    <2>7. Len(r) = E - 0 /\ \A k \in 1 .. E - 0 : r[k] = s[0 + k]
      BY <1>2, PartTyped
    <2>8. u = r
      BY <2>6
    <2> HIDE DEF r
    <2>9. Len(u) = E /\ \A k \in 1 .. E : u[k] = s[k]
      BY <2>7, <2>8
    <2> QED BY <2>9 DEF u
  <1> QED BY <1>4, <1>5

LEMMA HoldsSmall ==
    ASSUME NEW g \in FsType, NEW i \in Inums, NEW data \in Seq(Nat), NulFree(data),
           g.inode[i].size <= NDIRECT, g.inode[i].size = blocks_of(Len(data)),
           \A l \in 1 .. blocks_of(Len(data)) :
              g.disk[g.inode[i].blocks[l - 1]] = Chunk(data, l - 1),
           NEW d \in 1 .. INODE_NUM
    PROVE  Holds(g, d, i, data)
  <1> DEFINE n == g.inode[i]
             M == blocks_of(Len(data))
             A == file_contents(g)
             V == file_sizes(g)
             w == A[d - 1]
             v == V[d - 1]
             B == Buffers(g, w, n)
  <1>1. n \in InodeType
    BY FsParts
  <1>2. M \in Nat /\ Len(data) \in Nat /\ Len(data) <= M * BLOCK_SIZE
        /\ (M # 0 => (M - 1) * BLOCK_SIZE < Len(data))
    BY BlocksBound, LenProperties
  <1>3. d \in Levels /\ d - 1 \in Levels /\ i \in Nat /\ NDIRECT \in Nat
    BY SizesAssumption DEF Levels, Inums
  <1>4. /\ w \in [Nat -> Seq(Nat)] /\ A[d][i] = ReadOver(g, w, i)
        /\ v \in [Nat -> Nat] /\ V[d][i] = SizeOver(g, v, i)
    BY <1>3, ContentsDef, SizesDef
  <1> HIDE DEF M, A, V, w, v
  <1>5. n.size = M /\ M <= NDIRECT /\ InUse(n) = M
        /\ \A l \in 1 .. M : g.disk[n.blocks[l - 1]] = Chunk(data, l - 1)
    <2>1. n.size = M /\ n.size <= NDIRECT
      BY DEF M
    <2>2. InUse(n) = M
      <3> HIDE DEF n
      <3>1. InUse(n) = MinOf(M, NDIRECT)
        BY <2>1 DEF InUse
      <3> QED BY <1>2, <1>3, <2>1, <3>1 DEF MinOf
    <2> QED BY <2>1, <2>2 DEF M
  <1>6. table(g, n) = <<>> /\ Len(table(g, n)) = 0
    <2>1. table(g, n) = <<>>
      BY <1>1, <1>5, TableDef
    <2> QED BY <2>1
  <1> HIDE DEF n
  <1>7. /\ B \in Seq(Seq(Nat)) /\ Len(B) = M /\ \A k \in 1 .. M : B[k] = Chunk(data, k - 1)
    <2>1. LET m == InUse(n)
              u == table(g, n)
          IN /\ B \in Seq(Seq(Nat)) /\ Len(B) = m + Len(u)
             /\ \A k \in 1 .. m : B[k] = g.disk[n.blocks[k - 1]]
      BY <1>1, <1>4, BuffersTyped
    <2> HIDE DEF B
    <2>2. B \in Seq(Seq(Nat)) /\ Len(B) = M + 0 /\ \A k \in 1 .. M : B[k] = g.disk[n.blocks[k - 1]]
      BY <1>5, <1>6, <2>1
    <2>3. M + 0 = M
      BY <1>2
    <2>4. \A k \in 1 .. M : B[k] = Chunk(data, k - 1)
      BY <1>5, <2>2
    <2> QED BY <2>2, <2>3, <2>4
  <1>8. A[d][i] = data
    <2>1. A[d][i] = strip[merge[B]]
      BY <1>4 DEF ReadOver, n
    <2> HIDE DEF B
    <2> QED BY <1>2, <1>7, <2>1, SmallRead
  <1>9. V[d][i] = Len(data)
    <2> DEFINE l == last_non_zero_element_index_in_block(g, n.blocks[M - 1])
    <2>1. SizeOver(g, v, i) = IF M = 0 THEN 0
                              ELSE IF M < NDIRECT + 1 THEN (M - 1) * BLOCK_SIZE + l + 1
                              ELSE CAP + add_sizes(v, table(g, n))[Len(table(g, n))]
      BY <1>5 DEF SizeOver, n
    <2>2. CASE M = 0
      <3>1. M * BLOCK_SIZE = 0
        BY <2>2, SizesAssumption
      <3>2. Len(data) = 0
        <4> DEFINE x == M * BLOCK_SIZE
        <4>1. x = 0 /\ Len(data) <= x
          BY <1>2, <3>1
        <4> HIDE DEF x
        <4> QED BY <1>2, <4>1
      <3> QED BY <1>4, <2>1, <2>2, <3>2
    <2>3. CASE M # 0
      <3> DEFINE q == M - 1
      <3>1. q \in Nat /\ q + 1 = M /\ M < NDIRECT + 1 /\ M \in 1 .. M
        BY <1>2, <1>3, <1>5, <2>3
      <3>2. g.disk[n.blocks[q]] = Chunk(data, q)
        BY <1>5, <3>1
      <3>3. q * BLOCK_SIZE < Len(data)
        BY <1>2, <2>3
      <3> HIDE DEF q, l
      <3>4. Len(data) <= (q + 1) * BLOCK_SIZE
        BY <1>2, <3>1
      <3>5. q * BLOCK_SIZE + last_non_zero_element_index_in_block(g, n.blocks[q]) + 1 = Len(data)
        BY <3>1, <3>2, <3>3, <3>4, LastOfChunk
      <3>6. (M - 1) * BLOCK_SIZE + l + 1 = Len(data)
        BY <3>5 DEF q, l
      <3>7. SizeOver(g, v, i) = (M - 1) * BLOCK_SIZE + l + 1
        BY <2>1, <2>3, <3>1, Zenon
      <3> QED BY <1>4, <3>6, <3>7, Zenon
    <2> QED BY <2>2, <2>3
  <1> QED BY <1>8, <1>9 DEF Holds, A, V

LEMMA HoldsLarge ==
    ASSUME NEW g \in FsType, NEW i \in Inums, NEW data \in Seq(Nat), NulFree(data), Len(data) > CAP,
           g.inode[i].size = NDIRECT + 1,
           \A l \in 1 .. NDIRECT : g.disk[g.inode[i].blocks[l - 1]] = Chunk(data, l - 1),
           NEW t, t = table(g, g.inode[i]), Len(t) = entries_of(data),
           NEW d \in 1 .. INODE_NUM,
           \A m \in 1 .. entries_of(data) : Holds(g, d - 1, t[m], Slice(data, m - 1))
    PROVE  Holds(g, d, i, data)
  <1> DEFINE n == g.inode[i]
             E == entries_of(data)
             A == file_contents(g)
             V == file_sizes(g)
             w == A[d - 1]
             v == V[d - 1]
             B == Buffers(g, w, n)
  <1>1. n \in InodeType /\ t \in Seq(Nat)
    <2>1. n \in InodeType
      BY FsParts
    <2> QED BY <2>1, TableDef
  <1>2. d \in Levels /\ d - 1 \in Levels /\ i \in Nat /\ NDIRECT \in Nat /\ E \in Nat
    BY SizesAssumption, Entries DEF Levels, Inums
  <1>3. /\ w \in [Nat -> Seq(Nat)] /\ A[d][i] = ReadOver(g, w, i)
        /\ v \in [Nat -> Nat] /\ V[d][i] = SizeOver(g, v, i)
    BY <1>2, ContentsDef, SizesDef
  <1>4. \A m \in 1 .. E : w[t[m]] = Slice(data, m - 1) /\ v[t[m]] = Len(Slice(data, m - 1))
    BY DEF Holds
  <1> HIDE DEF A, V, w, v
  <1>5. InUse(n) = NDIRECT
    <2>1. InUse(n) = MinOf(NDIRECT + 1, NDIRECT)
      BY DEF InUse
    <2> QED BY <1>2, <2>1 DEF MinOf
  <1> HIDE DEF E
  <1>6. /\ B \in Seq(Seq(Nat)) /\ Len(B) = NDIRECT + E
        /\ \A k \in 1 .. NDIRECT : B[k] = Chunk(data, k - 1)
        /\ \A m \in 1 .. E : B[NDIRECT + m] = Slice(data, m - 1)
    <2>1. t = table(g, n) /\ Len(t) = E
          /\ \A k \in 1 .. NDIRECT : g.disk[n.blocks[k - 1]] = Chunk(data, k - 1)
      BY DEF E
    <2> HIDE DEF n
    <2>2. LET l == InUse(n)
              u == table(g, n)
          IN /\ B \in Seq(Seq(Nat)) /\ Len(B) = l + Len(u)
             /\ \A k \in 1 .. l : B[k] = g.disk[n.blocks[k - 1]]
             /\ \A k \in 1 .. Len(u) : B[l + k] = w[u[k]]
      BY <1>1, <1>3, BuffersTyped
    <2> HIDE DEF B
    <2>3. /\ B \in Seq(Seq(Nat)) /\ Len(B) = NDIRECT + E
          /\ \A k \in 1 .. NDIRECT : B[k] = g.disk[n.blocks[k - 1]]
          /\ \A m \in 1 .. E : B[NDIRECT + m] = w[t[m]]
      BY <1>5, <2>1, <2>2
    <2>4. \A k \in 1 .. NDIRECT : B[k] = Chunk(data, k - 1)
      BY <2>1, <2>3
    <2>5. \A m \in 1 .. E : B[NDIRECT + m] = Slice(data, m - 1)
      BY <1>4, <2>3
    <2> QED BY <2>3, <2>4, <2>5
  <1>7. A[d][i] = data
    <2>1. A[d][i] = strip[merge[B]]
      BY <1>3 DEF ReadOver
    <2> HIDE DEF B
    <2>2. strip[merge[B]] = data
      BY <1>6, LargeRead DEF E
    <2> QED BY <2>1, <2>2
  <1>8. V[d][i] = Len(data)
    <2>1. CAP + add_sizes(v, t)[Len(t)] = Len(data)
      BY <1>1, <1>3, <1>4, LargeSize DEF E
    <2>2. n.size # 0 /\ ~(n.size < NDIRECT + 1)
      BY <1>2
    <2>3. SizeOver(g, v, i) = IF n.size = 0 THEN 0
                              ELSE IF n.size < NDIRECT + 1
                              THEN (n.size - 1) * BLOCK_SIZE
                                   + last_non_zero_element_index_in_block(g, n.blocks[n.size - 1]) + 1
                              ELSE CAP + add_sizes(v, t)[Len(t)]
      BY Zenon DEF SizeOver
    <2> QED BY <1>3, <2>1, <2>2, <2>3, Zenon
  <1> QED BY <1>7, <1>8 DEF Holds, A, V
-----------------------------------------------------------------------------
(* The size a write leaves in the inode.                                   *)
LEMMA SizeWritten ==
    ASSUME NEW data \in Seq(Nat)
    PROVE  LET q == blocks_of(Len(data))
           IN /\ q \in Nat
              /\ Len(data) <= CAP => q <= NDIRECT /\ ndirect(data) = q /\ inode_size(q) = q
              /\ Len(data) > CAP => ndirect(data) = NDIRECT /\ inode_size(q) = NDIRECT + 1
  <1> DEFINE q == blocks_of(Len(data))
             L == Len(data)
  <1>1. L \in Nat /\ NDIRECT \in Nat
    BY SizesAssumption, LenProperties
  <1>2. q \in Nat /\ (L <= CAP => q <= NDIRECT) /\ L <= q * BLOCK_SIZE
    BY <1>1, BlocksOf, BlocksBound
  <1>3. ASSUME L > CAP PROVE q > NDIRECT
    <2> SUFFICES ASSUME q <= NDIRECT PROVE FALSE
      BY <1>1, <1>2
    <2> HIDE DEF q
    <2>1. q * BLOCK_SIZE <= CAP /\ q * BLOCK_SIZE \in Nat /\ CAP \in Nat
      BY <1>2, CellOf, CapFacts
    <2> DEFINE x == q * BLOCK_SIZE
    <2>2. x <= CAP /\ x \in Nat /\ L <= x /\ CAP \in Nat
      BY <1>2, <2>1
    <2> HIDE DEF x, L
    <2> QED BY <1>1, <1>3, <2>2
  <1>4. ndirect(data) = MinOf(q, NDIRECT) /\ inode_size(q) = MinOf(q, NDIRECT + 1)
    BY DEF ndirect, inode_size
  <1> HIDE DEF q, L
  <1>5. L <= CAP => ndirect(data) = q /\ inode_size(q) = q
    BY <1>1, <1>2, <1>4 DEF MinOf
  <1>6. L > CAP => ndirect(data) = NDIRECT /\ inode_size(q) = NDIRECT + 1
    BY <1>1, <1>2, <1>3, <1>4 DEF MinOf
  <1> QED BY <1>2, <1>5, <1>6 DEF q, L

(* The direct slots after a write.                                         *)
LEMMA DirectHolds ==
    ASSUME NEW f \in FsType, NEW i \in Inums, NEW data \in Seq(Nat),
           NEW d, d = DirectPart(f, i, data), d.fs.status = "ok"
    PROVE  /\ d \in DirectAcc /\ d.fs \in FsType /\ d.fs.inode = f.inode /\ f.used \subseteq d.fs.used
           /\ \A l \in 1 .. ndirect(data) : /\ d.fs.disk[d.ino.blocks[l - 1]] = Chunk(data, l - 1)
                                            /\ d.ino.blocks[l - 1] \in d.fs.used
  <1> DEFINE n == f.inode[i]
             M == ndirect(data)
             D == write_direct(f, n, data)
  <1>1. n \in InodeType /\ M \in Nat /\ M <= NDIRECT /\ NDIRECT \in Nat
    BY FsParts, NDirect, SizesAssumption
  <1>2. d = D[M] /\ M \in 0 .. M
    BY <1>1 DEF DirectPart
  <1> HIDE DEF n, M
  <1>3. /\ d \in DirectAcc /\ Placed(f, n, M, d)
    BY <1>1, <1>2, WriteDirect DEF M
  <1>4. Written(data, M, d)
    BY <1>1, <1>2, DirectWritten DEF M
  <1>5. \A l \in 1 .. M : l - 1 \in 0 .. M - 1
    BY <1>1
  <1> QED BY <1>3, <1>4, <1>5 DEF DirectAcc, Placed, Written, M

(* One level of write_file for what fits the direct slots.                 *)
LEMMA SmallLevel ==
    ASSUME NEW write \in [DataCall -> FsType],
           NEW f \in FsType, NEW i \in Inums, NEW data \in Seq(Nat), NulFree(data), Len(data) <= CAP,
           NEW g, g = write_level(write, f, i, data), g.status = "ok", NEW k \in 1 .. INODE_NUM
    PROVE  Holds(g, k, i, data)
  <1> DEFINE d == DirectPart(f, i, data)
             e == d.fs
             ino == NewInode(f, i, data)
             q == blocks_of(Len(data))
  <1>1. /\ d \in DirectAcc /\ e \in FsType
        /\ ino \in InodeType /\ ino.blocks = d.ino.blocks /\ d.ino \in InodeType
        /\ g = put_inode(e, i, ino)
    <2> DEFINE h == write_level(write, f, i, data)
    <2>1. /\ d \in DirectAcc /\ d.fs \in FsType /\ d.ino \in InodeType
          /\ ino \in InodeType /\ ino.blocks = d.ino.blocks
          /\ Len(data) <= CAP => ino.size <= NDIRECT /\ h = put_inode(d.fs, i, ino)
      BY WriteLevelCases, Zenon
    <2> QED BY <2>1
  <1>2. q \in Nat /\ q <= NDIRECT /\ ndirect(data) = q /\ inode_size(q) = q
    BY SizeWritten
  <1>3. ino.size = q
    <2>1. ino = [d.ino EXCEPT !.size = q]
      BY <1>2 DEF NewInode
    <2>2. q \in 0 .. NDIRECT + 1
      BY <1>2, SizesAssumption
    <2> HIDE DEF d, ino, q
    <2> QED BY <1>1, <2>1, <2>2, Resized
  <1> HIDE DEF d, e, ino, q
  <1>4. /\ g \in FsType /\ g.disk = e.disk /\ g.status = e.status /\ g.inode[i] = ino
    BY <1>1, PutInode
  <1>5. \A l \in 1 .. q : e.disk[d.ino.blocks[l - 1]] = Chunk(data, l - 1)
    <2>1. d = DirectPart(f, i, data) /\ d.fs.status = "ok"
      BY <1>4 DEF d, e
    <2>2. \A l \in 1 .. ndirect(data) : d.fs.disk[d.ino.blocks[l - 1]] = Chunk(data, l - 1)
      BY <2>1, DirectHolds
    <2> QED BY <1>2, <2>2 DEF e
  <1>6. /\ g.inode[i].size = q /\ g.inode[i].size <= NDIRECT
        /\ \A l \in 1 .. q : g.disk[g.inode[i].blocks[l - 1]] = Chunk(data, l - 1)
    BY <1>1, <1>2, <1>3, <1>4, <1>5
  <1> QED BY <1>4, <1>6, HoldsSmall DEF q

(* What the table of a write holds when it is written to its block.        *)
LEMMA TableFilled ==
    ASSUME NEW write \in [DataCall -> FsType], KeepsStatus(write), Writes(write),
           NEW k \in Levels, Delivers(write, k),
           NEW f \in FsType, NEW i \in Inums, NEW data \in Seq(Nat), Len(data) > CAP, NulFree(data),
           NEW z, z = alloc_block(DirectPart(f, i, data).fs), z \in FsType, Marked(z),
           NEW s, s = TablePart(write, f, i, data), s.fs.status = "ok"
    PROVE  Filled(s, entries_of(data), k, data)
  <1> DEFINE D == write_table(write, z, data)
             E == entries_of(data)
  <1>1. E \in 0 .. E
    BY Entries
  <1>2. s = D[E]
    BY DEF TablePart
  <1>3. \A m \in 0 .. E : D[m].fs.status = "ok" => Filled(D[m], m, k, data)
    BY TableHolds
  <1> QED BY <1>1, <1>2, <1>3

(* The files of the table are undisturbed when the table is written to its *)
(* block, which none of them names, and the inode is put.                  *)
LEMMA TableFrame ==
    ASSUME NEW z \in FsType, NEW h \in FsType, Grown(z, {}, h),
           NEW id \in z.used, NEW i \in Live(z), NEW g \in FsType,
           \A c \in 0 .. NDATA : c # id => g.disk[c] = h.disk[c],
           \A j \in Inums : j # i => g.inode[j] = h.inode[j]
    PROVE  Undisturbed(h, g, New(z, h))
  <1> DEFINE K == New(z, h)
  <1>1. K \subseteq Live(h) /\ K \subseteq Inums /\ i \notin K /\ \A j \in K : j \notin Live(z)
    BY DEF New, Live
  <1>2. \A j \in K : SubsIn(h, j) \subseteq K
    BY DEF Grown, ListsNewInodes
  <1>3. id \in DataBlocks /\ id # 0
    <2>1. id \in DataBlocks
      BY FsParts
    <2> QED BY <2>1, SizesAssumption DEF DataBlocks
  <1> HIDE DEF K
  <1>4. ASSUME NEW j \in K, NEW l \in 0 .. NDIRECT
        PROVE  LET b == h.inode[j].blocks[l] IN g.disk[b] = h.disk[b]
    <2> DEFINE b == h.inode[j].blocks[l]
    <2>1. j \in Live(h)
      BY <1>1
    <2>2. j \in Inums /\ b \in 0 .. NDATA /\ (b = 0 \/ NamesBlock(h, j, l, b))
      BY <2>1, Named
    <2>3. b # id
      <3> SUFFICES ASSUME b = id PROVE FALSE
        OBVIOUS
      <3>1. NamesBlock(h, j, l, id)
        BY <1>3, <2>2
      <3>2. NamesBlock(z, j, l, id) \/ id \in h.used \ z.used
        BY <1>3, <2>2, <3>1 DEF Grown, NamesNewBlocks
      <3>3. ~NamesBlock(z, j, l, id)
        BY <1>1 DEF NamesBlock
      <3> QED BY <3>2, <3>3
    <2> HIDE DEF b
    <2>4. g.disk[b] = h.disk[b]
      BY <2>2, <2>3
    <2> QED BY <2>4 DEF b
  <1>5. \A j \in K : g.inode[j] = h.inode[j]
    BY <1>1
  <1> QED BY <1>1, <1>2, <1>4, <1>5 DEF Undisturbed, K

(* One level of write_file for what needs a table.                         *)
LEMMA LargeLevel ==
    ASSUME NEW write \in [DataCall -> FsType], KeepsStatus(write), Writes(write),
           NEW k \in 1 .. INODE_NUM, Delivers(write, k - 1),
           NEW f \in FsType, NEW i \in Live(f), Marked(f),
           NEW data \in Seq(Nat), NulFree(data), Len(data) > CAP,
           NEW g, g = write_level(write, f, i, data), g.status = "ok"
    PROVE  Holds(g, k, i, data)
  <1> DEFINE d == DirectPart(f, i, data)
             e == d.fs
             ino == NewInode(f, i, data)
             id == TableBlock(f, i, data)
             z == alloc_block(d.fs)
             s == TablePart(write, f, i, data)
             h == s.fs
             E == entries_of(data)
             w == write_block(s.fs, id, s.inodes)
             ino2 == [ino EXCEPT !.blocks[NDIRECT] = id]
             q == blocks_of(Len(data))
  <1>1. i \in Inums /\ k - 1 \in Levels /\ k \in Levels /\ NDIRECT \in Nat
    BY SizesAssumption DEF Live, Levels
  <1>2. /\ d \in DirectAcc /\ e \in FsType /\ d.ino \in InodeType
        /\ ino \in InodeType /\ ino.blocks = d.ino.blocks
        /\ id = 0 => g = die(e, "bad_alloc")
        /\ id # 0 => g = put_inode(w, i, ino2)
    <2> DEFINE r == write_level(write, f, i, data)
    <2>1. /\ d \in DirectAcc /\ d.fs \in FsType /\ d.ino \in InodeType
          /\ ino \in InodeType /\ ino.blocks = d.ino.blocks
          /\ Len(data) > CAP /\ id = 0 => r = die(d.fs, "bad_alloc")
          /\ Len(data) > CAP /\ id # 0 => r = put_inode(w, i, ino2)
      BY <1>1, WriteLevelCases, Zenon
    <2> QED BY <2>1
  <1>3. id # 0
    <2> SUFFICES ASSUME id = 0 PROVE FALSE
      OBVIOUS
    <2> HIDE DEF e, id
    <2>1. g.status # "ok"
      BY <1>2, DieEffect DEF StatusType
    <2> QED BY <2>1
  <1>4. /\ E \in Nat /\ E <= BLOCK_SIZE
        /\ id \in DataBlocks \ e.used
        /\ z \in FsType /\ z.used = e.used \cup {id} /\ z.disk = e.disk
        /\ z.inode = e.inode /\ z.status = e.status
        /\ s \in TableAcc /\ h \in FsType /\ s.inodes \in BlockType
        /\ h.status = "ok" => z.status = "ok"
        /\ Marked(z) =>
             /\ \A m \in 1 .. BLOCK_SIZE : m > E => s.inodes[m] = 0
             /\ h.status = "ok" => Grown(z, {}, h) /\ Unlisted(z, h, Entered(s, E))
    BY <1>1, <1>3, TablePartDef, SMTT(40)
  <1>5. q \in Nat /\ ndirect(data) = NDIRECT /\ inode_size(q) = NDIRECT + 1
    BY SizeWritten
  <1>6. ino.size = NDIRECT + 1
    <2>1. ino = [d.ino EXCEPT !.size = NDIRECT + 1]
      BY <1>5 DEF NewInode
    <2>2. NDIRECT + 1 \in 0 .. NDIRECT + 1
      BY SizesAssumption
    <2> HIDE DEF d, ino
    <2> QED BY <1>2, <2>1, <2>2, Resized
  <1> HIDE DEF d, e, ino, id, z, s, h, E
  <1>7. id \in 0 .. NDATA
    BY <1>4, SizesAssumption DEF DataBlocks
  <1>8. /\ w \in FsType /\ w.inode = h.inode /\ w.status = h.status
        /\ w.disk[id] = s.inodes
        /\ \A c \in 0 .. NDATA : c # id => w.disk[c] = h.disk[c]
    BY <1>4, <1>7, WriteBlock DEF h
  <1>9. /\ ino2 \in InodeType /\ ino2.size = ino.size
        /\ ino2.blocks[NDIRECT] = id
        /\ \A l \in 0 .. NDIRECT : l # NDIRECT => ino2.blocks[l] = ino.blocks[l]
    BY <1>2, <1>7, WithTable
  <1> HIDE DEF w, ino2
  <1>10. /\ g \in FsType /\ g.disk = w.disk /\ g.status = w.status
         /\ g.inode[i] = ino2
         /\ \A j \in Inums : j # i => g.inode[j] = w.inode[j]
    <2>1. i \in Inums /\ w \in FsType /\ ino2 \in InodeType /\ g = put_inode(w, i, ino2)
      BY <1>1, <1>2, <1>3, <1>8, <1>9
    <2> QED BY <2>1, PutInode
  <1>11. h.status = "ok" /\ z.status = "ok" /\ e.status = "ok"
    BY <1>4, <1>8, <1>10
  <1>12. /\ e.inode = f.inode /\ f.used \subseteq e.used
         /\ \A l \in 1 .. NDIRECT : /\ e.disk[d.ino.blocks[l - 1]] = Chunk(data, l - 1)
                                    /\ d.ino.blocks[l - 1] \in e.used
    <2>1. d = DirectPart(f, i, data) /\ d.fs.status = "ok"
      BY <1>11 DEF d, e
    <2>2. /\ d.fs.inode = f.inode /\ f.used \subseteq d.fs.used
          /\ \A l \in 1 .. ndirect(data) : /\ d.fs.disk[d.ino.blocks[l - 1]] = Chunk(data, l - 1)
                                           /\ d.ino.blocks[l - 1] \in d.fs.used
      BY <1>1, <2>1, DirectHolds
    <2> QED BY <1>5, <2>2 DEF e
  <1>13. Marked(z) /\ i \in Live(z) /\ id \in z.used
    BY <1>4, <1>12 DEF Marked, NamesBlock, Live
  <1>14. /\ Grown(z, {}, h) /\ Unlisted(z, h, Entered(s, E))
         /\ \A m \in 1 .. BLOCK_SIZE : m > E => s.inodes[m] = 0
    BY <1>4, <1>11, <1>13
  <1>15. ASSUME NEW l \in 1 .. NDIRECT PROVE g.disk[g.inode[i].blocks[l - 1]] = Chunk(data, l - 1)
    <2> DEFINE b == d.ino.blocks[l - 1]
    <2>1. l - 1 \in 0 .. NDIRECT /\ l - 1 # NDIRECT
      BY <1>1
    <2>2. g.inode[i].blocks[l - 1] = b
      BY <1>2, <1>9, <1>10, <2>1
    <2>3. e.disk[b] = Chunk(data, l - 1) /\ b \in e.used
      BY <1>12
    <2> HIDE DEF b
    <2>4. b # id /\ b \in z.used /\ b \in 0 .. NDATA
      BY <1>2, <1>4, <2>3, FsParts, SizesAssumption DEF DataBlocks
    <2>5. h.disk[b] = z.disk[b]
      BY <1>14, <2>4 DEF Grown, KeepsBlocks
    <2> QED BY <1>4, <1>8, <1>10, <2>2, <2>3, <2>4, <2>5
  <1>16. Undisturbed(h, g, New(z, h))
    <2>1. \A c \in 0 .. NDATA : c # id => g.disk[c] = h.disk[c]
      BY <1>8, <1>10
    <2>2. \A j \in Inums : j # i => g.inode[j] = h.inode[j]
      BY <1>8, <1>10
    <2>3. z \in FsType /\ h \in FsType /\ g \in FsType /\ Grown(z, {}, h)
      BY <1>4, <1>10, <1>14
    <2>4. id \in z.used /\ i \in Live(z)
      BY <1>13
    <2> QED BY <2>1, <2>2, <2>3, <2>4, TableFrame
  <1>17. \A m \in 1 .. E : s.inodes[m] \in New(z, h) /\ s.inodes[m] # 0
    <2>1. \A m \in 1 .. E : s.inodes[m] \in New(z, h)
      BY <1>14 DEF Unlisted, Entered
    <2> QED BY <2>1, SizesAssumption DEF New, Live, Inums
  <1> DEFINE t == table(g, g.inode[i])
  <1>18. Len(t) = E /\ \A m \in 1 .. E : t[m] = s.inodes[m]
    <2>1. ino2.size > NDIRECT
      BY <1>1, <1>6, <1>9
    <2>2. t = UpToZero[s.inodes]
      BY <1>8, <1>9, <1>10, <2>1 DEF table
    <2>3. s.inodes \in Seq(Nat) /\ Len(s.inodes) = BLOCK_SIZE
      BY <1>4, BlockIsSeq
    <2>4. \A m \in E + 1 .. Len(s.inodes) : s.inodes[m] = 0
      <3>1. \A m \in E + 1 .. BLOCK_SIZE : m \in 1 .. BLOCK_SIZE /\ m > E
        BY <1>4, SizesAssumption
      <3> QED BY <1>14, <2>3, <3>1
    <2> HIDE DEF t
    <2> QED BY <1>4, <1>17, <2>2, <2>3, <2>4, UpToZeroExact
  <1>19. \A m \in 1 .. E : Holds(g, k - 1, t[m], Slice(data, m - 1))
    <2>1. Filled(s, E, k - 1, data)
      <3>1. z = alloc_block(DirectPart(f, i, data).fs) /\ s = TablePart(write, f, i, data)
            /\ s.fs.status = "ok"
        BY <1>11 DEF z, d, s, h
      <3> QED BY <1>1, <1>4, <1>13, <3>1, TableFilled DEF E
    <2> SUFFICES ASSUME NEW m \in 1 .. E PROVE Holds(g, k - 1, t[m], Slice(data, m - 1))
      OBVIOUS
    <2>2. Holds(h, k - 1, s.inodes[m], Slice(data, m - 1))
      BY <2>1 DEF Filled, h
    <2>3. Holds(g, k - 1, s.inodes[m], Slice(data, m - 1))
      BY <1>1, <1>4, <1>10, <1>16, <1>17, <2>2, StillHolds
    <2> HIDE DEF t
    <2> QED BY <1>18, <2>3
  <1>20. g.inode[i].size = NDIRECT + 1
    BY <1>6, <1>9, <1>10
  <1> DEFINE u == t
  <1>21. u = table(g, g.inode[i]) /\ Len(u) = E
         /\ \A m \in 1 .. E : Holds(g, k - 1, u[m], Slice(data, m - 1))
    BY <1>18, <1>19
  <1> HIDE DEF u
  <1> QED BY <1>1, <1>10, <1>15, <1>20, <1>21, HoldsLarge DEF E

LEMMA LevelHolds ==
    ASSUME NEW write \in [DataCall -> FsType], KeepsStatus(write), Writes(write),
           NEW k \in 1 .. INODE_NUM, Delivers(write, k - 1),
           NEW f \in FsType, NEW i \in Live(f), Marked(f), NEW data \in Seq(Nat), NulFree(data),
           NEW g, g = write_level(write, f, i, data), g.status = "ok"
    PROVE  Holds(g, k, i, data)
  <1>1. Len(data) <= CAP \/ Len(data) > CAP
    BY LenProperties, CapFacts
  <1>2. i \in Inums
    BY DEF Live
  <1> QED BY <1>1, <1>2, SmallLevel, LargeLevel

(* Writing at any depth: level k of write_file leaves what level k of      *)
(* read_file returns.                                                      *)
LEMMA WriteAtDelivers == \A k \in Levels : Delivers(write_at[k], k)
  <1> DEFINE n == INODE_NUM
             T == {k \in 0 .. n : Delivers(write_at[k], k)}
  <1>1. n \in Nat
    BY SizesAssumption
  <1>2. /\ \A c \in DataCall : write_at[0][c] = die(c.fs, "segv")
        /\ \A k \in 1 .. n : \A c \in DataCall :
             write_at[k][c] = write_level(write_at[k - 1], c.fs, c.inum, c.data)
    BY WriteAtDef
  <1>3. \A f \in FsType, i \in Inums, data \in Seq(Nat) : [fs |-> f, inum |-> i, data |-> data] \in DataCall
    BY SizesAssumption DEF DataCall, Inums
  <1>4. 0 \in T
    <2>1. \A c \in DataCall : write_at[0][c].status # "ok"
      BY <1>2, CallParts, DieEffect DEF StatusType
    <2>2. Delivers(write_at[0], 0)
      BY <1>3, <2>1 DEF Delivers
    <2> QED BY <1>1, <2>2
  <1>5. ASSUME NEW k \in 1 .. n, k - 1 \in T PROVE k \in T
    <2> DEFINE w == write_at[k - 1]
    <2>1. k \in 0 .. n /\ k - 1 \in Levels
      BY <1>1 DEF Levels
    <2>2. w \in [DataCall -> FsType] /\ KeepsStatus(w) /\ Writes(w) /\ Delivers(w, k - 1)
      BY <1>5, <2>1, WriteAtDepth
    <2>3. \A c \in DataCall : write_at[k][c] = write_level(w, c.fs, c.inum, c.data)
      BY <1>2
    <2> HIDE DEF w
    <2>4. Delivers(write_at[k], k)
      <3> SUFFICES ASSUME NEW f \in FsType, NEW i \in Inums, NEW data \in Seq(Nat),
                          i \in Live(f), Marked(f), NulFree(data),
                          write_at[k][[fs |-> f, inum |-> i, data |-> data]].status = "ok"
                   PROVE  Holds(write_at[k][[fs |-> f, inum |-> i, data |-> data]], k, i, data)
        BY DEF Delivers
      <3> DEFINE c == [fs |-> f, inum |-> i, data |-> data]
                 g == write_at[k][c]
      <3>1. c \in DataCall /\ c.fs = f /\ c.inum = i /\ c.data = data
        BY <1>3
      <3> HIDE DEF c
      <3>2. g = write_level(w, f, i, data)
        BY <2>3, <3>1
      <3>3. g.status = "ok"
        BY DEF c
      <3> HIDE DEF g
      <3>4. Holds(g, k, i, data)
        BY <2>2, <3>2, <3>3, LevelHolds
      <3> QED BY <3>4 DEF g, c
    <2> QED BY <2>1, <2>4
  <1>6. \A k \in 0 .. n : k \in T
    <2> HIDE DEF T
    <2> QED BY <1>1, <1>4, <1>5, Induct
  <1> QED BY <1>6 DEF Levels

(* A file written is what is then read.                                    *)
LEMMA WriteFileReads ==
    ASSUME NEW f \in FsType, NEW i \in Live(f), Marked(f), NEW data \in Seq(Nat), NulFree(data),
           NEW g, g = write_file(f, i, data), g.status = "ok"
    PROVE  read_file(g, i) = data /\ get_file_size(g, i) = Len(data)
  <1> DEFINE w == write_at[INODE_NUM]
  <1>1. INODE_NUM \in Levels /\ i \in Inums
    BY SizesAssumption DEF Levels, Live
  <1>2. Delivers(w, INODE_NUM)
    BY <1>1, WriteAtDelivers
  <1>3. g = w[[fs |-> f, inum |-> i, data |-> data]]
    BY DEF write_file
  <1> HIDE DEF w
  <1>4. Holds(g, INODE_NUM, i, data)
    BY <1>1, <1>2, <1>3 DEF Delivers
  <1> QED BY <1>4 DEF Holds, read_file, get_file_size
-----------------------------------------------------------------------------
(* Call by call: the files of the ids in K read as before.                 *)
SameGot(f, g, K) ==
    \A i \in K : read_file(g, i) = read_file(f, i) /\ get_file_size(g, i) = get_file_size(f, i)

LEMMA GotSame ==
    ASSUME NEW f \in FsType, NEW g \in FsType, NEW K, Undisturbed(f, g, K), NEW h, h \subseteq K
    PROVE  SameGot(f, g, h)
  <1>1. SameFiles(f, g, K)
    BY Frame
  <1> QED BY <1>1, SameGets DEF SameGot

(* A file without blocks in use is empty.                                  *)
LEMMA EmptyFile ==
    ASSUME NEW f \in FsType, NEW i \in Inums, f.inode[i].size = 0
    PROVE  read_file(f, i) = <<>> /\ get_file_size(f, i) = 0
  <1> DEFINE data == <<>>
             q == blocks_of(Len(data))
  <1>1. data \in Seq(Nat) /\ Len(data) = 0 /\ NulFree(data)
    BY DEF NulFree
  <1>2. q = 0
    <2>1. q \in Nat /\ (q # 0 => (q - 1) * BLOCK_SIZE < Len(data))
      BY <1>1, BlocksBound
    <2> SUFFICES ASSUME q # 0 PROVE FALSE
      OBVIOUS
    <2> HIDE DEF q
    <2>2. q - 1 \in Nat
      BY <2>1
    <2>3. (q - 1) * BLOCK_SIZE \in Nat
      BY <2>2, CellOf
    <2> DEFINE x == (q - 1) * BLOCK_SIZE
    <2>4. x \in Nat /\ x < 0
      BY <1>1, <2>1, <2>3
    <2> HIDE DEF x
    <2> QED BY <2>4
  <1> HIDE DEF data
  <1>3. f.inode[i].size <= NDIRECT /\ f.inode[i].size = q /\ INODE_NUM \in 1 .. INODE_NUM
    BY <1>2, SizesAssumption
  <1>4. \A l \in 1 .. q : f.disk[f.inode[i].blocks[l - 1]] = Chunk(data, l - 1)
    BY <1>2
  <1>5. Holds(f, INODE_NUM, i, data)
    BY <1>1, <1>3, <1>4, HoldsSmall
  <1> QED BY <1>1, <1>5 DEF Holds, read_file, get_file_size, data

(* What a client sees of the files in K is the same in f and in g.         *)
Kept(f, g, K) == SameGot(f, g, K) /\ \A i \in K : g.inode[i].type = f.inode[i].type

(* No table names a file the client holds, so what is read of the others   *)
(* does not go through it.                                                 *)
LEMMA OthersClosed ==
    ASSUME NEW f \in FsType, NEW h, Sound(f, h), NEW X, X \subseteq h
    PROVE  LET K == Live(f) \ X IN K \subseteq Live(f) /\ K \subseteq Inums /\ Closed(f, K) /\ h \ X \subseteq K
  <1> DEFINE K == Live(f) \ X
  <1>1. K \subseteq Live(f) /\ K \subseteq Inums /\ h \ X \subseteq K
    BY DEF Sound, Live
  <1>2. \A i \in K : SubsIn(f, i) \subseteq K
    BY <1>1 DEF Sound, ListsFiles
  <1> QED BY <1>1, <1>2 DEF Closed

(* The status is nothing a client reads.                                   *)
LEMMA DiedKeeps ==
    ASSUME NEW f \in FsType, NEW h, Sound(f, h), NEW why \in StatusType
    PROVE  Kept(f, [f EXCEPT !.status = why], h)
  <1> DEFINE g == [f EXCEPT !.status = why]
             K == Live(f) \ {}
  <1>1. g = [used |-> f.used, disk |-> f.disk, inode |-> f.inode, status |-> why]
    BY FsParts
  <1>2. g \in FsType /\ g.disk = f.disk /\ g.inode = f.inode
    BY <1>1, FsParts, FsWhole
  <1>3. K \subseteq Inums /\ Closed(f, K) /\ h \subseteq K
    <2>1. {} \subseteq h /\ h \ {} = h
      OBVIOUS
    <2>2. K \subseteq Inums /\ Closed(f, K) /\ h \ {} \subseteq K
      BY <2>1, OthersClosed
    <2> QED BY <2>1, <2>2
  <1> HIDE DEF g, K
  <1>4. Undisturbed(f, g, K)
    BY <1>2, <1>3, SameDisk
  <1>5. SameGot(f, g, h)
    BY <1>2, <1>3, <1>4, GotSame
  <1> QED BY <1>2, <1>5 DEF Kept, g

(* create: the new file is empty, and the others are as they were.         *)
LEMMA CreateKeeps ==
    ASSUME NEW f \in FsType, NEW h, Sound(f, h), NEW type \in {T_DIR, T_FILE, T_LNK},
           NEW g, g = alloc_inode(f, type), g.status = "ok"
    PROVE  LET i == find_free_inode(f)
           IN /\ i \in Inums \ h /\ Kept(f, g, h) /\ g.inode[i].type = type
              /\ read_file(g, i) = <<>> /\ get_file_size(g, i) = 0
  <1> DEFINE i == find_free_inode(f)
             n == [ZeroInode EXCEPT !.type = type]
             K == Live(f) \ {}
  <1>1. /\ g \in FsType /\ i \in Inums /\ f.inode[i].type = 0
        /\ g.disk = f.disk /\ g.inode[i] = n
        /\ \A j \in Inums : j # i => g.inode[j] = f.inode[j]
    BY TakeInode
  <1>2. n.type = type /\ n.size = 0
    BY Zeros DEF ZeroInode
  <1>3. K \subseteq Inums /\ Closed(f, K) /\ h \subseteq K /\ i \notin K
    <2>1. {} \subseteq h /\ h \ {} = h
      OBVIOUS
    <2>2. K \subseteq Inums /\ Closed(f, K) /\ h \ {} \subseteq K
      BY <2>1, OthersClosed
    <2> QED BY <1>1, <2>1, <2>2 DEF Live
  <1> HIDE DEF i, n, K
  <1>4. \A j \in K : g.inode[j] = f.inode[j]
    BY <1>1, <1>3
  <1>5. Undisturbed(f, g, K)
    BY <1>1, <1>3, <1>4, SameDisk
  <1>6. SameGot(f, g, h)
    BY <1>1, <1>3, <1>5, GotSame
  <1>7. Kept(f, g, h)
    BY <1>3, <1>4, <1>6 DEF Kept
  <1>8. read_file(g, i) = <<>> /\ get_file_size(g, i) = 0
    BY <1>1, <1>2, EmptyFile
  <1> QED BY <1>1, <1>2, <1>3, <1>7, <1>8 DEF i

(* put: only the file that is named.                                       *)
LEMMA PutKeeps ==
    ASSUME NEW f \in FsType, NEW h, Sound(f, h), NEW i \in h, NEW g \in FsType, Grown(f, {i}, g)
    PROVE  Kept(f, g, h \ {i}) /\ g.inode[i].type = f.inode[i].type
  <1> DEFINE K == Live(f) \ {i}
  <1>1. K \subseteq Live(f) /\ Closed(f, K) /\ h \ {i} \subseteq K
    <2>1. {i} \subseteq h
      OBVIOUS
    <2> QED BY <2>1, OthersClosed
  <1>2. Marked(f) /\ i \in Live(f) /\ K \cap {i} = {}
    BY DEF Sound
  <1> HIDE DEF K
  <1>3. Undisturbed(f, g, K)
    BY <1>1, <1>2, GrownFrame
  <1>4. SameGot(f, g, h \ {i})
    BY <1>1, <1>3, GotSame
  <1>5. \A j \in Live(f) : g.inode[j].type = f.inode[j].type
    BY DEF Grown, KeepsInodes
  <1> QED BY <1>1, <1>2, <1>4, <1>5 DEF Kept

(* remove: the inodes that go are those of the file.                       *)
LEMMA RemoveKeeps ==
    ASSUME NEW f \in FsType, NEW h, Sound(f, h), NEW i \in h, NEW g \in FsType, Shrunk(f, {i}, g)
    PROVE  Kept(f, g, h \ {i})
  <1> DEFINE K == Live(g)
  <1>1. Apart(f) /\ Sound(g, h \ {i})
    BY Removed DEF Sound
  <1>2. /\ K \subseteq Live(f) /\ \A j \in K : j \in Live(f) /\ g.inode[j] = f.inode[j]
        /\ \A p \in K : SubsIn(g, p) = SubsIn(f, p)
    <2>1. ZeroesInodes(f, g) /\ FreesTheirBlocks(f, g)
      BY DEF Shrunk
    <2> QED BY <1>1, <2>1, ShrunkLive, ShrunkSubs
  <1>3. Closed(f, K)
    <2>1. \A p \in K : SubsIn(g, p) \subseteq K
      BY <1>1 DEF Sound, ListsFiles
    <2> HIDE DEF K
    <2> QED BY <1>2, <2>1 DEF Closed
  <1>4. h \ {i} \subseteq K
    BY <1>1 DEF Sound
  <1>5. Undisturbed(f, g, K)
    BY <1>1, <1>3, ShrunkFrame
  <1> HIDE DEF K
  <1>6. SameGot(f, g, h \ {i})
    BY <1>4, <1>5, GotSame
  <1> QED BY <1>2, <1>4, <1>6 DEF Kept

(* set_attr to 0: nothing is left of the file, unless it had no size.      *)
LEMMA SetAttrKeeps ==
    ASSUME ZeroOrShallow, NEW f \in FsType, Shallow => Flat(f), NEW h, Sound(f, h), NEW i \in h,
           NEW size \in Sizes, NEW g, g = set_attr(f, i, size)
    PROVE  g.status = f.status /\ Kept(f, g, h \ {i}) /\ g.inode[i].type = f.inode[i].type
  <1>1. i \in Inums
    BY DEF Sound, Live
  <1>2. Sized(f, i, g)
    BY <1>1, SetAttrSized
  <1>3. /\ g \in FsType /\ g.disk = f.disk
        /\ \A j \in Inums : j # i => g.inode[j] = f.inode[j]
    BY <1>2 DEF Sized
  <1> DEFINE K == Live(f) \ {i}
  <1>4. K \subseteq Inums /\ Closed(f, K) /\ h \ {i} \subseteq K /\ \A j \in K : j # i
    <2>1. {i} \subseteq h
      OBVIOUS
    <2> QED BY <2>1, OthersClosed
  <1> HIDE DEF K
  <1>5. \A j \in K : g.inode[j] = f.inode[j]
    BY <1>3, <1>4
  <1>6. Undisturbed(f, g, K)
    BY <1>3, <1>4, <1>5, SameDisk
  <1>7. SameGot(f, g, h \ {i})
    BY <1>3, <1>4, <1>6, GotSame
  <1> QED BY <1>2, <1>4, <1>5, <1>7 DEF Kept, Sized

LEMMA SetAttrEmpties ==
    ASSUME NEW f \in FsType, NEW i \in Inums, NEW g, g = set_attr(f, i, 0)
    PROVE  /\ get_file_size(g, i) = 0
           /\ read_file(g, i) = <<>> \/ (g = f /\ get_file_size(f, i) = 0)
  <1>1. CASE g = f /\ get_file_size(f, i) = 0
    BY <1>1
  <1>2. CASE ~(g = f /\ get_file_size(f, i) = 0)
    <2>1. g \in FsType /\ g.inode[i].size = 0
      BY <1>2, SetAttrZero
    <2> QED BY <2>1, EmptyFile
  <1> QED BY <1>1, <1>2
-----------------------------------------------------------------------------
(* What a call does to what the client sees.                               *)
DidFail == /\ fs'.status # "ok" /\ held' = held /\ req' = req
           /\ Kept(fs, fs', held)
DidCreate(type, id) ==
    /\ id \in Inums \ held /\ held' = held \cup {id} /\ req' = <<"create", id, type>>
    /\ Kept(fs, fs', held)
    /\ fs'.inode[id].type = type /\ read_file(fs', id) = <<>> /\ get_file_size(fs', id) = 0
DidPut(id, buf) ==
    /\ id \in held /\ held' = held /\ req' = <<"put", id, buf>>
    /\ Kept(fs, fs', held \ {id}) /\ fs'.inode[id].type = fs.inode[id].type
    /\ NulFree(buf) => read_file(fs', id) = buf /\ get_file_size(fs', id) = Len(buf)
DidRemove(id) ==
    /\ id \in held /\ held' = held \ {id} /\ req' = <<"remove", id>>
    /\ Kept(fs, fs', held \ {id})
DidResize(id, size) ==
    /\ id \in held /\ held' = held /\ req' = <<"set_attr", id, size>>
    /\ Kept(fs, fs', held \ {id}) /\ fs'.inode[id].type = fs.inode[id].type
    /\ size = 0 => /\ get_file_size(fs', id) = 0
                   /\ read_file(fs', id) = <<>> \/ (fs' = fs /\ get_file_size(fs, id) = 0)
Answered == /\ fs'.status = "ok"
            /\ \/ \E type \in Types, id \in Inums : DidCreate(type, id)
               \/ \E id \in held, buf \in Payloads : DidPut(id, buf)
               \/ \E id \in held : DidRemove(id)
               \/ \E id \in held, size \in Sizes : DidResize(id, size)

LEMMA Effects ==
    ASSUME ZeroOrShallow, Inv, Next
    PROVE  fs.status = "ok" /\ (DidFail \/ Answered)
  <1>1. fs \in FsType /\ Sound(fs, held) /\ (Shallow => Flat(fs))
    BY DEF Inv, TypeOK
  <1>2. /\ held \subseteq Live(fs) /\ Marked(fs) /\ Apart(fs)
        /\ \A id \in Files : id \in held /\ id \in Live(fs) /\ id \in Inums
    BY <1>1 DEF Sound, Files, Live
  <1>3. ASSUME NEW f, f \in FsType, NEW h, NEW r, Reply(f, h, r)
        PROVE  /\ fs.status = "ok"
               /\ \/ f.status = "ok" /\ fs' = f /\ held' = h /\ req' = r
                  \/ f.status # "ok" /\ DidFail
    <2>1. CASE f.status = "ok"
      BY <1>3, <2>1 DEF Reply
    <2>2. CASE f.status # "ok"
      <3> DEFINE why == f.status
      <3>1. why \in StatusType /\ why # "ok"
        BY <1>3, <2>2, FsParts
      <3>2. fs' = [fs EXCEPT !.status = why] /\ held' = held /\ req' = req /\ fs.status = "ok"
        BY <1>3, <2>2 DEF Reply
      <3> HIDE DEF why
      <3>3. Kept(fs, [fs EXCEPT !.status = why], held)
        BY <1>1, <3>1, DiedKeeps
      <3>4. [fs EXCEPT !.status = why].status = why
        <4>1. [fs EXCEPT !.status = why]
                = [used |-> fs.used, disk |-> fs.disk, inode |-> fs.inode, status |-> why]
          BY <1>1, FsParts
        <4> QED BY <4>1
      <3> QED BY <2>2, <3>1, <3>2, <3>3, <3>4 DEF DidFail
    <2> QED BY <2>1, <2>2
  <1>4. ASSUME NEW type \in Types, create(type) PROVE fs.status = "ok" /\ (DidFail \/ Answered)
    <2> DEFINE f == alloc_inode(fs, type)
               id == find_free_inode(fs)
    <2>1. type \in {T_DIR, T_FILE, T_LNK}
      BY CallTypes
    <2>2. f \in FsType
      BY <1>1, <2>1, TakeInode
    <2>3. f.status = "ok" => /\ id \in Inums \ held /\ Kept(fs, f, held) /\ f.inode[id].type = type
                             /\ read_file(f, id) = <<>> /\ get_file_size(f, id) = 0
      BY <1>1, <2>1, CreateKeeps
    <2>4. Reply(f, held \cup {id}, <<"create", id, type>>)
      BY <1>4 DEF create
    <2> HIDE DEF f, id
    <2>5. /\ fs.status = "ok"
          /\ \/ f.status = "ok" /\ fs' = f /\ held' = held \cup {id} /\ req' = <<"create", id, type>>
             \/ f.status # "ok" /\ DidFail
      BY <1>3, <2>2, <2>4
    <2>6. f.status = "ok" => DidCreate(type, id)
      BY <2>3, <2>5 DEF DidCreate
    <2> QED BY <2>3, <2>5, <2>6 DEF Answered
  <1>5. ASSUME NEW id \in Files, NEW buf \in Payloads, put(id, buf)
        PROVE  fs.status = "ok" /\ (DidFail \/ Answered)
    <2> DEFINE f == write_file(fs, id, buf)
    <2>1. id \in held /\ id \in Live(fs) /\ buf \in Seq(Nat)
      BY <1>2, CallTypes
    <2>2. Reply(f, held, <<"put", id, buf>>)
      BY <1>5 DEF put
    <2>3. f \in FsType /\ (f.status = "ok" => Grown(fs, {id}, f))
      BY <1>1, <1>2, <2>1, WriteFile
    <2>4. f.status = "ok" /\ NulFree(buf) => read_file(f, id) = buf /\ get_file_size(f, id) = Len(buf)
      BY <1>1, <1>2, <2>1, WriteFileReads
    <2> HIDE DEF f
    <2>5. f.status = "ok" => Kept(fs, f, held \ {id}) /\ f.inode[id].type = fs.inode[id].type
      BY <1>1, <2>1, <2>3, PutKeeps
    <2>6. /\ fs.status = "ok"
          /\ \/ f.status = "ok" /\ fs' = f /\ held' = held /\ req' = <<"put", id, buf>>
             \/ f.status # "ok" /\ DidFail
      BY <1>3, <2>2, <2>3
    <2>7. f.status = "ok" => DidPut(id, buf)
      BY <2>1, <2>4, <2>5, <2>6 DEF DidPut
    <2> QED BY <2>1, <2>6, <2>7 DEF Answered
  <1>6. ASSUME NEW id \in Files, remove(id) PROVE fs.status = "ok" /\ (DidFail \/ Answered)
    <2> DEFINE f == remove_file(fs, id)
    <2>1. id \in held /\ id \in Inums
      BY <1>2
    <2>2. Reply(f, held \ {id}, <<"remove", id>>)
      BY <1>6 DEF remove
    <2>3. f \in FsType /\ (f.status = "ok" => Shrunk(fs, {id}, f))
      BY <1>1, <1>2, <2>1, RemoveFile
    <2> HIDE DEF f
    <2>4. f.status = "ok" => Kept(fs, f, held \ {id})
      BY <1>1, <2>1, <2>3, RemoveKeeps
    <2>5. /\ fs.status = "ok"
          /\ \/ f.status = "ok" /\ fs' = f /\ held' = held \ {id} /\ req' = <<"remove", id>>
             \/ f.status # "ok" /\ DidFail
      BY <1>3, <2>2, <2>3
    <2>6. f.status = "ok" => DidRemove(id)
      BY <2>1, <2>4, <2>5 DEF DidRemove
    <2> QED BY <2>1, <2>5, <2>6 DEF Answered
  <1>7. ASSUME NEW id \in Files, NEW size \in Sizes, set_attr_call(id, size)
        PROVE  fs.status = "ok" /\ (DidFail \/ Answered)
    <2> DEFINE f == set_attr(fs, id, size)
    <2>1. id \in held /\ id \in Inums /\ size \in Nat
      BY <1>2, CallTypes
    <2>2. f \in FsType
      BY <1>1, <2>1, SetAttrTyped
    <2>3. Reply(f, held, <<"set_attr", id, size>>)
      BY <1>7 DEF set_attr_call
    <2>4. Kept(fs, f, held \ {id}) /\ f.inode[id].type = fs.inode[id].type
      BY <1>1, <2>1, SetAttrKeeps
    <2>5. size = 0 => /\ get_file_size(f, id) = 0
                      /\ read_file(f, id) = <<>> \/ (f = fs /\ get_file_size(fs, id) = 0)
      BY <1>1, <2>1, SetAttrEmpties
    <2> HIDE DEF f
    <2>6. /\ fs.status = "ok"
          /\ \/ f.status = "ok" /\ fs' = f /\ held' = held /\ req' = <<"set_attr", id, size>>
             \/ f.status # "ok" /\ DidFail
      BY <1>3, <2>2, <2>3
    <2>7. f.status = "ok" => DidResize(id, size)
      BY <2>1, <2>4, <2>5, <2>6 DEF DidResize
    <2> QED BY <2>1, <2>6, <2>7 DEF Answered
  <1> QED BY <1>4, <1>5, <1>6, <1>7 DEF Next

(* set_attr, put and remove of one file leave what get returns of every    *)
(* other as it was, whatever was put and however deep the files are; and   *)
(* where none has a table, whatever size set_attr grows or cuts one to.    *)
THEOREM OthersStayUntouched == ZeroOrShallow => (Spec => OthersUntouched)
  <1> SUFFICES ASSUME ZeroOrShallow PROVE Spec => OthersUntouched
    OBVIOUS
  <1>1. ASSUME Inv, Next, NEW i \in held \cap held', fs'.status = "ok", i # req'[2]
        PROVE  get(fs', i) = get(fs, i)
    <2>1. DidFail \/ Answered
      BY <1>1, Effects
    <2>2. \E id : Kept(fs, fs', held \ {id}) /\ req'[2] = id
      <3>1. ~DidFail
        BY <1>1 DEF DidFail
      <3>2. \A type, id : DidCreate(type, id) => Kept(fs, fs', held \ {id}) /\ req'[2] = id
        BY DEF DidCreate, Kept, SameGot
      <3>3. \A id, buf : DidPut(id, buf) => Kept(fs, fs', held \ {id}) /\ req'[2] = id
        BY DEF DidPut
      <3>4. \A id : DidRemove(id) => Kept(fs, fs', held \ {id}) /\ req'[2] = id
        BY DEF DidRemove
      <3>5. \A id, size : DidResize(id, size) => Kept(fs, fs', held \ {id}) /\ req'[2] = id
        BY DEF DidResize
      <3> QED BY <2>1, <3>1, <3>2, <3>3, <3>4, <3>5 DEF Answered
    <2> QED BY <1>1, <2>2 DEF Kept, SameGot, get
  <1>2. Inv /\ [Next]_vars => [\A i \in held \cap held' : fs'.status = "ok" /\ i # req'[2] =>
                                  get(fs', i) = get(fs, i)]_vars
    BY <1>1
  <1>3. Spec => []Inv
    BY InvAlways
  <1> QED BY <1>2, <1>3, PTL DEF Spec, OthersUntouched

(* The sizes that getattr gives are the lengths of what get returns.       *)
Lengths == \A i \in held : get_file_size(fs, i) = Len(read_file(fs, i))
StoreInv == Inv /\ Lengths

LEMMA LengthsKept ==
    ASSUME NEW K, K \subseteq held, Lengths, Kept(fs, fs', K), NEW i \in K
    PROVE  get_file_size(fs', i) = Len(read_file(fs', i))
  BY DEF Lengths, Kept, SameGot

LEMMA StoreInvStep ==
    ASSUME Sizes \subseteq {0}, \A p \in Payloads : NulFree(p), StoreInv, [Next]_vars
    PROVE  StoreInv'
  <1>1. Inv' /\ Inv /\ Lengths /\ ZeroOrShallow
    BY InvStep DEF StoreInv, ZeroOrShallow
  <1>2. CASE UNCHANGED vars
    BY <1>1, <1>2 DEF vars, StoreInv, Lengths
  <1>3. CASE Next
    <2>1. DidFail \/ Answered
      BY <1>1, <1>3, Effects
    <2>2. CASE DidFail
      <3>1. \A i \in held : get_file_size(fs', i) = Len(read_file(fs', i))
        BY <1>1, <2>2, LengthsKept DEF DidFail
      <3>2. Lengths'
        BY <2>2, <3>1 DEF DidFail, Lengths
      <3> QED BY <1>1, <3>2 DEF StoreInv
    <2>3. ASSUME NEW type \in Types, NEW id \in Inums, DidCreate(type, id) PROVE Lengths'
      <3>1. \A i \in held : get_file_size(fs', i) = Len(read_file(fs', i))
        BY <1>1, <2>3, LengthsKept DEF DidCreate
      <3>2. get_file_size(fs', id) = Len(read_file(fs', id))
        BY <2>3 DEF DidCreate
      <3> QED BY <2>3, <3>1, <3>2 DEF DidCreate, Lengths
    <2>4. ASSUME NEW id \in held, NEW buf \in Payloads, DidPut(id, buf) PROVE Lengths'
      <3>1. \A i \in held \ {id} : get_file_size(fs', i) = Len(read_file(fs', i))
        BY <1>1, <2>4, LengthsKept DEF DidPut
      <3>2. get_file_size(fs', id) = Len(read_file(fs', id))
        BY <2>4 DEF DidPut
      <3> QED BY <2>4, <3>1, <3>2 DEF DidPut, Lengths
    <2>5. ASSUME NEW id \in held, DidRemove(id) PROVE Lengths'
      <3>1. \A i \in held \ {id} : get_file_size(fs', i) = Len(read_file(fs', i))
        BY <1>1, <2>5, LengthsKept DEF DidRemove
      <3> QED BY <2>5, <3>1 DEF DidRemove, Lengths
    <2>6. ASSUME NEW id \in held, DidResize(id, 0) PROVE Lengths'
      <3>1. \A i \in held \ {id} : get_file_size(fs', i) = Len(read_file(fs', i))
        BY <1>1, <2>6, LengthsKept DEF DidResize
      <3>2. get_file_size(fs', id) = Len(read_file(fs', id))
        <4>1. CASE read_file(fs', id) = <<>>
          BY <2>6, <4>1 DEF DidResize
        <4>2. CASE fs' = fs
          BY <1>1, <4>2 DEF Lengths
        <4> QED BY <2>6, <4>1, <4>2 DEF DidResize
      <3> QED BY <2>6, <3>1, <3>2 DEF DidResize, Lengths
    <2>7. \A size \in Sizes : size = 0
      OBVIOUS
    <2> QED BY <1>1, <2>1, <2>2, <2>3, <2>4, <2>5, <2>6, <2>7 DEF Answered, StoreInv
  <1> QED BY <1>2, <1>3

LEMMA StoreInvInit == Init => StoreInv
  <1> SUFFICES ASSUME Init PROVE StoreInv
    OBVIOUS
  <1>1. Inv /\ RootAlone
    BY InitInv
  <1>2. fs \in FsType /\ 1 \in Inums
    BY <1>1 DEF Inv, TypeOK, RootAlone
  <1>3. read_file(fs, 1) = <<>> /\ get_file_size(fs, 1) = 0
    BY <1>1, <1>2, EmptyFile DEF RootAlone
  <1>4. Lengths
    BY <1>1, <1>3 DEF RootAlone, Lengths
  <1> QED BY <1>1, <1>4 DEF StoreInv

LEMMA StoreInvAlways ==
    Sizes \subseteq {0} /\ (\A p \in Payloads : NulFree(p)) => (Spec => []StoreInv)
  <1> SUFFICES ASSUME Sizes \subseteq {0}, \A p \in Payloads : NulFree(p)
               PROVE  Spec => []StoreInv
    OBVIOUS
  <1>1. StoreInv /\ [Next]_vars => StoreInv'
    BY StoreInvStep
  <1> QED BY StoreInvInit, <1>1, PTL DEF Spec

(* getattr finds the size of a file from the sizes of the inodes of its    *)
(* tables and the last byte of its last block that is not NUL: for data    *)
(* that holds no NUL this is the length of what get returns.               *)
THEOREM SizeIsLength ==
    Sizes \subseteq {0} /\ (\A p \in Payloads : NulFree(p)) => (Spec => []AttrSizeIsLength)
  <1>1. StoreInv => AttrSizeIsLength
    BY DEF StoreInv, Lengths, AttrSizeIsLength, Files, getattr, get
  <1> QED BY <1>1, StoreInvAlways, PTL

(* The state the client sees, which is the one of the store.               *)
Kinds == [i \in Inums |-> IF i \in held THEN fs.inode[i].type ELSE 0]
Contents == [i \in Inums |-> IF i \in held THEN read_file(fs, i) ELSE <<>>]

LEMMA StoreSeen ==
    ASSUME held \subseteq Inums
    PROVE  /\ DOMAIN Kinds = Inums /\ DOMAIN Contents = Inums
           /\ \A i \in held : Kinds[i] = fs.inode[i].type /\ Contents[i] = read_file(fs, i)
           /\ \A i \in Inums \ held : Kinds[i] = 0 /\ Contents[i] = <<>>
  BY DEF Kinds, Contents

LEMMA StoreSeenNext ==
    ASSUME held' \subseteq Inums
    PROVE  /\ Kinds' = [i \in Inums |-> IF i \in held' THEN fs'.inode[i].type ELSE 0]
           /\ Contents' = [i \in Inums |-> IF i \in held' THEN read_file(fs', i) ELSE <<>>]
  BY DEF Kinds, Contents

(* What is kept is seen as it was.                                         *)
LEMMA SeenKept ==
    ASSUME held \subseteq Inums, held' \subseteq Inums, NEW id \in Inums,
           held' \ {id} = held \ {id}, Kept(fs, fs', held \ {id})
    PROVE  /\ Kinds' = [Kinds EXCEPT ![id] = IF id \in held' THEN fs'.inode[id].type ELSE 0]
           /\ Contents' = [Contents EXCEPT ![id] = IF id \in held' THEN read_file(fs', id)
                                                                  ELSE <<>>]
  <1>1. \A i \in held \ {id} : /\ fs'.inode[i].type = fs.inode[i].type
                              /\ read_file(fs', i) = read_file(fs, i)
    BY DEF Kept, SameGot
  <1>2. \A i \in Inums \ {id} : i \in held' <=> i \in held
    OBVIOUS
  <1>3. Kinds' = [Kinds EXCEPT ![id] = IF id \in held' THEN fs'.inode[id].type ELSE 0]
    BY <1>1, <1>2 DEF Kinds
  <1>4. Contents' = [Contents EXCEPT ![id] = IF id \in held' THEN read_file(fs', id) ELSE <<>>]
    BY <1>1, <1>2 DEF Contents
  <1> QED BY <1>3, <1>4
LEMMA ReadTyped ==
    ASSUME NEW f \in FsType, NEW i \in Inums
    PROVE  read_file(f, i) \in Seq(Nat)
  <1> DEFINE D == file_contents(f)
  <1>1. D \in [Levels -> [Nat -> Seq(Nat)]]
    BY ContentsDef
  <1> HIDE DEF D
  <1>2. INODE_NUM \in Levels /\ i \in Nat
    BY SizesAssumption DEF Levels, Inums
  <1>3. D[INODE_NUM][i] \in Seq(Nat)
    BY <1>1, <1>2
  <1> QED BY <1>3 DEF D, read_file

(* An answered call is the call of the store on the id it names.           *)
LEMMA CallSeen ==
    ASSUME Sizes \subseteq {0}, \A p \in Payloads : NulFree(p), StoreInv, StoreInv', Answered
    PROVE  \/ \E type \in Types, id \in Inums :
                 /\ Kinds[id] = 0 /\ req' = <<"create", id, type>>
                 /\ Kinds' = [Kinds EXCEPT ![id] = type]
                 /\ Contents' = [Contents EXCEPT ![id] = <<>>]
           \/ \E id \in Inums, buf \in Payloads :
                 /\ Kinds[id] # 0 /\ req' = <<"put", id, buf>>
                 /\ Kinds' = Kinds /\ Contents' = [Contents EXCEPT ![id] = buf]
           \/ \E id \in Inums :
                 /\ Kinds[id] # 0 /\ req' = <<"remove", id>>
                 /\ Kinds' = [Kinds EXCEPT ![id] = 0]
                 /\ Contents' = [Contents EXCEPT ![id] = <<>>]
           \/ \E id \in Inums :
                 /\ 0 \in Sizes /\ Kinds[id] # 0 /\ req' = <<"set_attr", id, 0>>
                 /\ Kinds' = Kinds /\ Contents' = [Contents EXCEPT ![id] = <<>>]
  <1>1. /\ fs \in FsType /\ held \subseteq Inums /\ held' \subseteq Inums
        /\ held \subseteq Live(fs) /\ Lengths
        /\ \A i \in held : read_file(fs, i) = <<>> \/ get_file_size(fs, i) # 0
    <2>1. fs \in FsType /\ held \subseteq Inums /\ held' \subseteq Inums /\ held \subseteq Live(fs) /\ Lengths
      BY DEF StoreInv, Inv, TypeOK, Sound
    <2>2. ASSUME NEW i \in held PROVE read_file(fs, i) = <<>> \/ get_file_size(fs, i) # 0
      <3> DEFINE w == read_file(fs, i)
      <3>1. w \in Seq(Nat) /\ get_file_size(fs, i) = Len(w)
        BY <2>1, ReadTyped DEF Lengths
      <3> HIDE DEF w
      <3>2. w = <<>> \/ Len(w) # 0
        BY <3>1
      <3> QED BY <3>1, <3>2 DEF w
    <2> QED BY <2>1, <2>2
  <1>2. \A i \in held : Kinds[i] # 0
    BY <1>1, StoreSeen DEF Live
  <1>3. /\ DOMAIN Kinds = Inums /\ DOMAIN Contents = Inums
        /\ Kinds = [i \in Inums |-> Kinds[i]] /\ Contents = [i \in Inums |-> Contents[i]]
    BY DEF Kinds, Contents
  <1>4. CASE \E type \in Types, id \in Inums : DidCreate(type, id)
    <2> PICK type \in Types, id \in Inums : DidCreate(type, id)
      BY <1>4
    <2>1. id \in held' /\ id \notin held /\ Kept(fs, fs', held \ {id}) /\ held' \ {id} = held \ {id}
      BY DEF DidCreate, Kept, SameGot
    <2>2. Kinds' = [Kinds EXCEPT ![id] = type] /\ Contents' = [Contents EXCEPT ![id] = <<>>]
      BY <1>1, <2>1, SeenKept DEF DidCreate
    <2>3. Kinds[id] = 0 /\ req' = <<"create", id, type>>
      BY <1>1, <2>1, StoreSeen DEF DidCreate
    <2> QED BY <2>2, <2>3
  <1>5. CASE \E id \in held, buf \in Payloads : DidPut(id, buf)
    <2> PICK id \in held, buf \in Payloads : DidPut(id, buf)
      BY <1>5
    <2>1. /\ id \in Inums /\ id \in held' /\ held' \ {id} = held \ {id} /\ Kept(fs, fs', held \ {id})
          /\ fs'.inode[id].type = Kinds[id] /\ read_file(fs', id) = buf
      BY <1>1, StoreSeen DEF DidPut
    <2>2. Kinds' = [Kinds EXCEPT ![id] = Kinds[id]] /\ Contents' = [Contents EXCEPT ![id] = buf]
      BY <1>1, <2>1, SeenKept
    <2>3. Kinds' = Kinds
      BY <1>3, <2>2
    <2>4. Kinds[id] # 0 /\ req' = <<"put", id, buf>>
      BY <1>2 DEF DidPut
    <2> QED BY <2>1, <2>2, <2>3, <2>4
  <1>6. CASE \E id \in held : DidRemove(id)
    <2> PICK id \in held : DidRemove(id)
      BY <1>6
    <2>1. id \in Inums /\ id \notin held' /\ held' \ {id} = held \ {id} /\ Kept(fs, fs', held \ {id})
      BY <1>1 DEF DidRemove
    <2>2. Kinds' = [Kinds EXCEPT ![id] = 0] /\ Contents' = [Contents EXCEPT ![id] = <<>>]
      BY <1>1, <2>1, SeenKept
    <2>3. Kinds[id] # 0 /\ req' = <<"remove", id>>
      BY <1>2 DEF DidRemove
    <2> QED BY <2>1, <2>2, <2>3
  <1>7. CASE \E id \in held, size \in Sizes : DidResize(id, size)
    <2> PICK id \in held, size \in Sizes : DidResize(id, size)
      BY <1>7
    <2>0. size = 0 /\ 0 \in Sizes /\ DidResize(id, 0)
      OBVIOUS
    <2>1. /\ id \in Inums /\ id \in held' /\ held' \ {id} = held \ {id} /\ Kept(fs, fs', held \ {id})
          /\ fs'.inode[id].type = Kinds[id]
      BY <1>1, <2>0, StoreSeen DEF DidResize
    <2>2. read_file(fs', id) = <<>>
      <3>1. read_file(fs', id) = <<>> \/ (fs' = fs /\ get_file_size(fs, id) = 0)
        BY <2>0 DEF DidResize
      <3> QED BY <1>1, <3>1
    <2>3. Kinds' = [Kinds EXCEPT ![id] = Kinds[id]] /\ Contents' = [Contents EXCEPT ![id] = <<>>]
      BY <1>1, <2>1, <2>2, SeenKept
    <2>4. Kinds' = Kinds
      BY <1>3, <2>3
    <2>5. Kinds[id] # 0 /\ req' = <<"set_attr", id, 0>>
      BY <1>2, <2>0 DEF DidResize
    <2> QED BY <2>0, <2>1, <2>3, <2>4, <2>5
  <1> QED BY <1>4, <1>5, <1>6, <1>7 DEF Answered

(* A call that dies changes nothing the client sees.                       *)
LEMMA FailSeen ==
    ASSUME StoreInv, StoreInv', DidFail
    PROVE  Kinds' = Kinds /\ Contents' = Contents /\ req' = req
  <1>1. held \subseteq Inums /\ held' \subseteq Inums /\ held' = held /\ req' = req
    BY DEF StoreInv, Inv, TypeOK, DidFail
  <1>2. \A i \in held : fs'.inode[i].type = fs.inode[i].type /\ read_file(fs', i) = read_file(fs, i)
    BY DEF DidFail, Kept, SameGot
  <1> QED BY <1>1, <1>2 DEF Kinds, Contents
(* Every call of the extent server is, for its clients, the call of the    *)
(* store: what was put is what get returns, until the next put, set_attr   *)
(* or remove of that file.                                                 *)
THEOREM ExtentsAreTheStore ==
    Sizes \subseteq {0} /\ (\A p \in Payloads : NulFree(p)) => (Spec => ImplementsStore)
  <1> SUFFICES ASSUME Sizes \subseteq {0}, \A p \in Payloads : NulFree(p)
               PROVE  Spec => ImplementsStore
    OBVIOUS
  <1> DEFINE kind == [i \in Inums |-> IF i \in held THEN getattr(fs, i).type ELSE 0]
             content == [i \in Inums |-> IF i \in held THEN get(fs, i) ELSE <<>>]
  <1>1. kind = Kinds /\ content = Contents /\ kind' = Kinds' /\ content' = Contents'
    BY DEF Kinds, Contents, getattr, get
  <1> HIDE DEF kind, content
  <1>2. Init => Store!Init
    <2> SUFFICES ASSUME Init PROVE Store!Init
      OBVIOUS
    <2>1. RootAlone /\ StoreInv
      BY InitInv, StoreInvInit
    <2>2. fs \in FsType /\ 1 \in Inums
      BY <2>1 DEF StoreInv, Inv, TypeOK, RootAlone
    <2>3. read_file(fs, 1) = <<>>
      BY <2>1, <2>2, EmptyFile DEF RootAlone
    <2>4. Kinds \in [Inums -> {0, 1}] /\ Contents = [i \in Inums |-> <<>>]
      BY <2>1, <2>3 DEF RootAlone, Kinds, Contents, T_DIR
    <2>5. kind \in [Inums -> {0, 1}] /\ content = [i \in Inums |-> <<>>]
      BY <1>1, <2>4
    <2>6. req = <<"init">> /\ (fs.status = "ok") = TRUE
      BY <2>1 DEF Init, RootAlone
    <2> QED BY <2>5, <2>6 DEF Store!Init, kind, content
  <1>3. ASSUME StoreInv, [Next]_vars PROVE [Store!Next]_(Store!vars)
    <2>1. StoreInv'
      BY <1>3, StoreInvStep
    <2>2. CASE UNCHANGED vars
      BY <2>2 DEF vars, Store!vars
    <2>3. CASE Next
      <3>1. fs.status = "ok" /\ (DidFail \/ Answered)
        BY <1>3, <2>3, Effects DEF StoreInv, ZeroOrShallow
      <3>2. CASE DidFail
        <4>1. kind' = kind /\ content' = content /\ req' = req /\ fs'.status # "ok"
          BY <1>1, <1>3, <2>1, <3>2, FailSeen DEF DidFail
        <4>2. Store!Exhausted
          BY <4>1 DEF Store!Exhausted, kind, content
        <4> QED BY <3>1, <4>2 DEF Store!Next
      <3>3. CASE Answered
        <4>1. fs'.status = "ok"
          BY <3>3 DEF Answered
        <4>2. \/ \E type \in Types : Store!Create(type)
              \/ \E id \in Inums, buf \in Payloads : Store!Put(id, buf)
              \/ \E id \in Inums : Store!Remove(id)
              \/ \E id \in Inums, size \in Sizes : Store!SetAttr(id, size)
          <5>1. ASSUME NEW type \in Types, NEW id \in Inums,
                       kind[id] = 0, req' = <<"create", id, type>>,
                       kind' = [kind EXCEPT ![id] = type],
                       content' = [content EXCEPT ![id] = <<>>]
                PROVE  Store!Create(type)
            BY <5>1 DEF Store!Create, kind, content
          <5>2. ASSUME NEW id \in Inums, NEW buf \in Payloads,
                       kind[id] # 0, req' = <<"put", id, buf>>, kind' = kind,
                       content' = [content EXCEPT ![id] = buf]
                PROVE  Store!Put(id, buf)
            BY <5>2 DEF Store!Put, kind, content
          <5>3. ASSUME NEW id \in Inums,
                       kind[id] # 0, req' = <<"remove", id>>,
                       kind' = [kind EXCEPT ![id] = 0],
                       content' = [content EXCEPT ![id] = <<>>]
                PROVE  Store!Remove(id)
            BY <5>3 DEF Store!Remove, kind, content
          <5>4. ASSUME NEW id \in Inums,
                       kind[id] # 0, req' = <<"set_attr", id, 0>>, kind' = kind,
                       content' = [content EXCEPT ![id] = <<>>]
                PROVE  Store!SetAttr(id, 0)
            <6>1. \A w : [k \in 1 .. 0 |-> IF k <= Len(w) THEN w[k] ELSE 0] = <<>>
              OBVIOUS
            <6> QED BY <5>4, <6>1 DEF Store!SetAttr, kind, content
          <5> QED BY <1>1, <1>3, <2>1, <3>3, <5>1, <5>2, <5>3, <5>4, CallSeen
        <4> QED BY <3>1, <4>1, <4>2 DEF Store!Next
      <3> QED BY <3>1, <3>2, <3>3
    <2> QED BY <1>3, <2>2, <2>3
  <1>4. StoreInv /\ [Next]_vars => [Store!Next]_(Store!vars)
    BY <1>3
  <1>5. Spec => []StoreInv
    BY StoreInvAlways
  <1> QED BY <1>2, <1>4, <1>5, PTL DEF Spec, ImplementsStore, Store!Spec
=============================================================================
