----------------------------- MODULE RpcProofs ------------------------------
(***************************************************************************)
(* The templates of rpc.h, for any procedures, any calls with arguments of *)
(* any number and length, any results and any number of threads: what a    *)
(* method is given, what a call returns, and when a client aborts.         *)
(*                                                                         *)
(* First what marshall.h writes and reads: a value adds its cells to the   *)
(* message, is read back from where they are, and is read without an error *)
(* only from its cells; the header lies before the values.  Then argument  *)
(* lists, one argument after the other: by the least argument at which a   *)
(* claim would fail.  Then the invariant of the messages under way, one    *)
(* lemma per action.  Last the vectors and maps: a container in a message  *)
(* is an argument list that starts with a count.                           *)
(***************************************************************************)
EXTENDS Rpc, NaturalsFacts, SequenceTheorems, FiniteSetTheorems

(* A function on 1 .. n is a sequence of length n.                         *)
LEMMA SeqOfFunction ==
    ASSUME NEW n \in Nat, NEW S, NEW w \in [1 .. n -> S]
    PROVE  w \in Seq(S) /\ Len(w) = n
  <1>1. w \in Seq(S)
    BY SeqDef
  <1>2. Len(w) \in Nat /\ DOMAIN w = 1 .. Len(w) /\ DOMAIN w = 1 .. n
    BY <1>1, LenProperties
  <1> QED BY <1>1, <1>2

(* Concatenation of cells is associative, and adds the lengths.            *)
LEMMA ConcatCells ==
    ASSUME NEW a \in Seq(Int), NEW b \in Seq(Int), NEW c \in Seq(Int)
    PROVE  /\ (a \o b) \o c = a \o (b \o c)
           /\ Len(a \o b) + Len(c) = Len(a) + Len(b \o c)
  <1>1. (a \o b) \o c = a \o (b \o c)
    BY ConcatAssociative
  <1>2. Len(a \o b) = Len(a) + Len(b) /\ Len(b \o c) = Len(b) + Len(c)
    OBVIOUS
  <1>3. Len(a) \in Nat /\ Len(b) \in Nat /\ Len(c) \in Nat
    OBVIOUS
  <1> QED BY <1>1, <1>2, <1>3

(* What a concatenation of cells holds, position by position.              *)
LEMMA ConcatAt ==
    ASSUME NEW a \in Seq(Int), NEW b \in Seq(Int)
    PROVE  /\ a \o b \in Seq(Int)
           /\ Len(a \o b) = Len(a) + Len(b)
           /\ \A k \in 1 .. Len(a) : (a \o b)[k] = a[k]
           /\ \A k \in 1 .. Len(b) : (a \o b)[Len(a) + k] = b[k]
  OBVIOUS

(* A marshall that is written at its end, as it is until its header is.    *)
Writer == [buf : Seq(Int), ind : Nat]
AtEnd(m) == m \in Writer /\ m.ind = Len(m.buf)

(* The sizes of the headers, whose space is that of the larger.            *)
LEMMA HeaderSize == RPC_HEADER_SZ = 6 /\ sizeof_rpc_sz = 1
                    /\ sizeof_req_header = 5 /\ sizeof_reply_header = 2
  <1>1. Max({5, 2}) = 5
    <2> DEFINE S == {5, 2}
    <2>1. S \in SUBSET Nat /\ S # {} /\ \A x \in S : x <= 5
      OBVIOUS
    <2>2. Max(S) \in S /\ \A y \in S : y <= Max(S)
      <3> HIDE DEF S
      <3> QED BY <2>1, Greatest
    <2> QED BY <2>2
  <1> QED BY <1>1 DEF RPC_HEADER_SZ, sizeof_rpc_sz, sizeof_req_header, sizeof_reply_header

(* Cells written at the end are added.                                     *)
LEMMA RawBytesAtEnd ==
    ASSUME NEW m, AtEnd(m), NEW cells \in Seq(Int)
    PROVE  /\ rawbytes(m, cells) = [buf |-> m.buf \o cells, ind |-> Len(m.buf) + Len(cells)]
           /\ AtEnd(rawbytes(m, cells))
  <1> DEFINE b == m.buf
  <1>1. b \in Seq(Int) /\ m.ind = Len(b) /\ Len(b) \in Nat /\ Len(cells) \in Nat
    BY DEF AtEnd, Writer
  <1> HIDE DEF b
  <1>2. SubSeq(b, 1, Len(b)) = b
    BY <1>1
  <1>3. SubSeq(b, Len(b) + Len(cells) + 1, Len(b)) = <<>>
    BY <1>1
  <1>4. b \o cells \in Seq(Int) /\ Len(b \o cells) = Len(b) + Len(cells)
    BY <1>1
  <1>5. (b \o cells) \o <<>> = b \o cells
    BY <1>4
  <1>6. rawbytes(m, cells) = [buf |-> b \o cells, ind |-> Len(b) + Len(cells)]
    BY <1>1, <1>2, <1>3, <1>5 DEF rawbytes, b
  <1> QED BY <1>1, <1>4, <1>6 DEF AtEnd, Writer, b
-----------------------------------------------------------------------------
(* The cells that stand for a value in a message.                          *)
Cells(type, v) == IF type = "string" THEN <<Len(v)>> \o v ELSE v

(* The types of the extent protocol have their sizes.                      *)
LEMMA WidthTyped == Types = {"string", "int", "extentid_t", "attr"}
                    /\ \A type \in Types \ {"string"} : Width[type] \in Nat \ {0}
  BY DEF Types, Width

(* A string's cells are its length and its chars.                          *)
LEMMA CellsTyped ==
    ASSUME NEW type, NEW v \in Seq(Nat)
    PROVE  /\ Cells(type, v) \in Seq(Nat)
           /\ Cells(type, v) \in Seq(Int)
           /\ type = "string" => /\ Len(Cells(type, v)) = Len(v) + 1
                                 /\ Cells(type, v)[1] = Len(v)
                                 /\ \A k \in 1 .. Len(v) : Cells(type, v)[k + 1] = v[k]
  <1>1. <<Len(v)>> \in Seq(Nat) /\ Len(<<Len(v)>>) = 1
    OBVIOUS
  <1>2. Cells(type, v) \in Seq(Nat)
    BY <1>1 DEF Cells
  <1>3. Cells(type, v) \in Seq(Int)
    BY <1>2
  <1>4. ASSUME type = "string"
        PROVE  /\ Len(Cells(type, v)) = Len(v) + 1
               /\ Cells(type, v)[1] = Len(v)
               /\ \A k \in 1 .. Len(v) : Cells(type, v)[k + 1] = v[k]
    BY <1>4 DEF Cells
  <1> QED BY <1>2, <1>3, <1>4

(* << adds the cells of a value to the message.                            *)
LEMMA PutValue ==
    ASSUME NEW m, AtEnd(m), NEW type, NEW v \in Seq(Nat)
    PROVE  /\ put_value(m, type, v) = [buf |-> m.buf \o Cells(type, v),
                                       ind |-> Len(m.buf) + Len(Cells(type, v))]
           /\ AtEnd(put_value(m, type, v))
  <1>1. v \in Seq(Int)
    OBVIOUS
  <1>2. CASE type # "string"
    BY <1>1, <1>2, RawBytesAtEnd DEF put_value, Cells
  <1>3. CASE type = "string"
    <2> DEFINE n == <<Len(v)>>
               p == rawbytes(m, n)
    <2>1. n \in Seq(Int) /\ Len(n) = 1
      OBVIOUS
    <2> HIDE DEF n
    <2>2. p = [buf |-> m.buf \o n, ind |-> Len(m.buf) + Len(n)] /\ AtEnd(p)
      BY <2>1, RawBytesAtEnd
    <2> HIDE DEF p
    <2>3. /\ rawbytes(p, v) = [buf |-> p.buf \o v, ind |-> Len(p.buf) + Len(v)]
          /\ AtEnd(rawbytes(p, v))
      BY <1>1, <2>2, RawBytesAtEnd
    <2>4. put_value(m, type, v) = rawbytes(p, v)
      BY <1>3 DEF put_value, put_string, pack, p, n
    <2>5. m.buf \in Seq(Int)
      BY DEF AtEnd, Writer
    <2>6. /\ (m.buf \o n) \o v = m.buf \o (n \o v)
          /\ Len(m.buf \o n) + Len(v) = Len(m.buf) + Len(n \o v)
      BY <1>1, <2>1, <2>5, ConcatCells
    <2>7. p.buf = m.buf \o n /\ Cells(type, v) = n \o v
      BY <1>3, <2>2 DEF Cells, n
    <2> QED BY <2>3, <2>4, <2>6, <2>7
  <1> QED BY <1>2, <1>3

(* A reader, and the reader after n more cells.                            *)
Reader == [buf : Seq(Int), ind : Nat, ok : BOOLEAN]

LEMMA ReadCells ==
    ASSUME NEW u \in Reader, NEW n \in Nat, u.ind + n <= Len(u.buf)
    PROVE  /\ read_cells(u, n).u = [buf |-> u.buf, ind |-> u.ind + n, ok |-> u.ok]
           /\ read_cells(u, n).v = [k \in 1 .. n |-> u.buf[u.ind + k]]
           /\ read_cells(u, n).v \in Seq(Int) /\ Len(read_cells(u, n).v) = n
           /\ u.buf \in Seq(Nat) => read_cells(u, n).v \in Seq(Nat)
  <1> DEFINE b == u.buf
             d == u.ind
             w == [k \in 1 .. n |-> b[d + k]]
  <1>1. b \in Seq(Int) /\ d \in Nat /\ d + n <= Len(b) /\ u = [buf |-> b, ind |-> d, ok |-> u.ok]
    BY DEF Reader
  <1>2. \A k \in 1 .. n : d + k <= Len(b) /\ d + k \in 1 .. Len(b)
    BY <1>1
  <1>3. /\ read_cells(u, n).u = [buf |-> b, ind |-> d + n, ok |-> u.ok]
        /\ read_cells(u, n).v = w
    BY <1>1, <1>2 DEF read_cells, Reader
  <1> HIDE DEF b, d
  <1>4. w \in Seq(Int) /\ Len(w) = n
    BY <1>1, <1>2, SeqOfFunction
  <1>5. b \in Seq(Nat) => w \in Seq(Nat)
    BY <1>1, <1>2
  <1> QED BY <1>3, <1>4, <1>5 DEF b, d

(* Whether or not the cells are there, the reader stays one; it is ok      *)
(* afterwards only if they were, and it was ok before.                     *)
LEMMA ReadCellsOk ==
    ASSUME NEW u \in Reader, u.ind <= Len(u.buf), NEW n \in Nat
    PROVE  /\ read_cells(u, n).u \in Reader
           /\ read_cells(u, n).u.buf = u.buf
           /\ read_cells(u, n).u.ind <= Len(u.buf)
           /\ read_cells(u, n).u.ok => u.ok /\ u.ind + n <= Len(u.buf)
           /\ u.buf \in Seq(Nat) => read_cells(u, n).v \in Seq(Nat)
  <1>1. u.buf \in Seq(Int) /\ u.ind \in Nat /\ u.ok \in BOOLEAN /\ Len(u.buf) \in Nat
    BY DEF Reader
  <1>2. CASE u.ind + n <= Len(u.buf)
    <2>1. read_cells(u, n).u = [buf |-> u.buf, ind |-> u.ind + n, ok |-> u.ok]
      BY <1>2, ReadCells
    <2>2. u.buf \in Seq(Nat) => read_cells(u, n).v \in Seq(Nat)
      BY <1>2, ReadCells
    <2> QED BY <1>1, <1>2, <2>1, <2>2 DEF Reader
  <1>3. CASE ~(u.ind + n <= Len(u.buf))
    <2>1. read_cells(u, n).u = [u EXCEPT !.ind = Len(u.buf), !.ok = FALSE]
      BY <1>1, <1>3 DEF read_cells, Reader
    <2> DEFINE r == [u EXCEPT !.ind = Len(u.buf), !.ok = FALSE]
    <2>2. r.buf = u.buf /\ r.ind = Len(u.buf) /\ r.ok = FALSE /\ r \in Reader
      BY <1>1 DEF Reader
    <2> HIDE DEF r
    <2>3. read_cells(u, n).u = r
      BY <2>1 DEF r
    <2>4. ASSUME u.buf \in Seq(Nat) PROVE read_cells(u, n).v \in Seq(Nat)
      <3> DEFINE w == [k \in 1 .. n |-> IF u.ind + k <= Len(u.buf) THEN u.buf[u.ind + k] ELSE 0]
      <3>1. \A k \in 1 .. n : u.ind + k <= Len(u.buf) => u.ind + k \in 1 .. Len(u.buf)
        BY <1>1
      <3>2. w \in [1 .. n -> Nat]
        BY <2>4, <3>1
      <3>3. read_cells(u, n).v = w
        BY DEF read_cells
      <3> HIDE DEF w
      <3> QED BY <3>2, <3>3, SeqOfFunction
    <2> QED BY <1>1, <2>2, <2>3, <2>4
  <1> QED BY <1>2, <1>3

(* The cells of b after position d are those of c.                         *)
Follows(b, d, c) == d + Len(c) <= Len(b) /\ \A k \in 1 .. Len(c) : b[d + k] = c[k]

(* Reading a value where its cells are gives it back, and goes past it.    *)
LEMMA GetValue ==
    ASSUME NEW u \in Reader, u.ok, NEW type \in Types, NEW v \in ValuesOf(type),
           Follows(u.buf, u.ind, Cells(type, v))
    PROVE  /\ get_value(u, type).v = v
           /\ get_value(u, type).u
                = [buf |-> u.buf, ind |-> u.ind + Len(Cells(type, v)), ok |-> TRUE]
  <1> DEFINE b == u.buf
             d == u.ind
             c == Cells(type, v)
  <1>0. d \in Nat /\ Len(v) \in Nat
    BY DEF Reader, ValuesOf
  <1>1. b \in Seq(Int) /\ v \in Seq(Nat)
    BY DEF Reader, ValuesOf
  <1>4. u.ok = TRUE
    BY DEF Reader
  <1>5. d + Len(c) <= Len(b)
    BY DEF Follows
  <1>6. \A k \in 1 .. Len(c) : b[d + k] = c[k]
    BY DEF Follows
  <1>7. b = u.buf /\ d = u.ind /\ c = Cells(type, v)
    OBVIOUS
  <1>2. CASE type # "string"
    <2>1. Width[type] = Len(v) /\ c = v
      BY <1>2 DEF ValuesOf, Cells
    <2> HIDE DEF b, d, c
    <2>2. d + Len(v) <= Len(b) /\ \A k \in 1 .. Len(v) : b[d + k] = v[k]
      BY <1>5, <1>6, <2>1
    <2>5. u.ind + Len(v) <= Len(u.buf)
      BY <1>7, <2>2
    <2>3. /\ read_cells(u, Len(v)).u = [buf |-> b, ind |-> d + Len(v), ok |-> TRUE]
          /\ read_cells(u, Len(v)).v = [k \in 1 .. Len(v) |-> b[d + k]]
      <3>1. /\ read_cells(u, Len(v)).u = [buf |-> u.buf, ind |-> u.ind + Len(v), ok |-> u.ok]
            /\ read_cells(u, Len(v)).v = [k \in 1 .. Len(v) |-> u.buf[u.ind + k]]
        BY <1>0, <2>5, ReadCells
      <3> QED BY <1>4, <1>7, <3>1
    <2>4. [k \in 1 .. Len(v) |-> b[d + k]] = v
      <3>1. v = [k \in 1 .. Len(v) |-> v[k]]
        BY <1>1
      <3> QED BY <2>2, <3>1
    <2> QED BY <1>2, <1>7, <2>1, <2>3, <2>4 DEF get_value
  <1>3. CASE type = "string"
    <2>1. /\ Len(c) = Len(v) + 1 /\ c[1] = Len(v)
          /\ \A k \in 1 .. Len(v) : c[k + 1] = v[k]
      <3>1. /\ Len(Cells(type, v)) = Len(v) + 1 /\ Cells(type, v)[1] = Len(v)
            /\ \A k \in 1 .. Len(v) : Cells(type, v)[k + 1] = v[k]
        <4> HIDE DEF b, d, c
        <4>1. v \in Seq(Nat)
          BY <1>1
        <4>2. type = "string" => /\ Len(Cells(type, v)) = Len(v) + 1
                                 /\ Cells(type, v)[1] = Len(v)
                                 /\ \A k \in 1 .. Len(v) : Cells(type, v)[k + 1] = v[k]
          BY <4>1, CellsTyped, Zenon
        <4> QED BY <1>3, <4>2, Zenon
      <3> HIDE DEF b, d, c
      <3> QED BY <1>7, <3>1, Zenon
    <2> HIDE DEF b, d, c
    <2>2. d + (Len(v) + 1) <= Len(b) /\ b[d + 1] = Len(v)
      BY <1>0, <1>5, <1>6, <2>1
    <2>3. \A k \in 1 .. Len(v) : b[(d + 1) + k] = v[k]
      <3> TAKE k \in 1 .. Len(v)
      <3>1. k + 1 \in 1 .. Len(c) /\ d + (k + 1) = (d + 1) + k
        BY <1>0, <2>1
      <3> QED BY <1>6, <2>1, <3>1
    <2> DEFINE n == read_cells(u, 1)
               w == [buf |-> b, ind |-> d + 1, ok |-> TRUE]
    <2>4. n.u = w /\ n.v = [k \in 1 .. 1 |-> b[d + k]]
      <3>1. u.ind + 1 <= Len(u.buf)
        BY <1>0, <1>7, <2>2
      <3>2. /\ n.u = [buf |-> u.buf, ind |-> u.ind + 1, ok |-> u.ok]
            /\ n.v = [k \in 1 .. 1 |-> u.buf[u.ind + k]]
        BY <3>1, ReadCells
      <3> QED BY <1>4, <1>7, <3>2
    <2>5. n.v[1] = Len(v)
      BY <2>2, <2>4
    <2>6. w \in Reader /\ w.ind = d + 1 /\ w.buf = b /\ w.ok = TRUE
      BY <1>0, <1>1 DEF Reader
    <2>7. get_value(u, type) = IF n.u.ok /\ n.u.ind + n.v[1] <= Len(n.u.buf)
                               THEN read_cells(n.u, n.v[1])
                               ELSE [u |-> [n.u EXCEPT !.ok = FALSE], v |-> <<>>]
      BY <1>3 DEF get_value, get_string, unpack
    <2> HIDE DEF n, w
    <2>8. w.ind + Len(v) <= Len(w.buf)
      BY <1>0, <2>2, <2>6
    <2>9. get_value(u, type) = read_cells(w, Len(v))
      BY <2>4, <2>5, <2>6, <2>7, <2>8
    <2>10. /\ read_cells(w, Len(v)).u = [buf |-> b, ind |-> (d + 1) + Len(v), ok |-> TRUE]
           /\ read_cells(w, Len(v)).v = [k \in 1 .. Len(v) |-> b[(d + 1) + k]]
      <3>1. /\ read_cells(w, Len(v)).u = [buf |-> w.buf, ind |-> w.ind + Len(v), ok |-> w.ok]
            /\ read_cells(w, Len(v)).v = [k \in 1 .. Len(v) |-> w.buf[w.ind + k]]
        BY <1>0, <2>6, <2>8, ReadCells
      <3> QED BY <2>6, <3>1
    <2>11. [k \in 1 .. Len(v) |-> b[(d + 1) + k]] = v
      <3>1. v = [k \in 1 .. Len(v) |-> v[k]]
        BY <1>1
      <3> QED BY <2>3, <3>1
    <2>12. (d + 1) + Len(v) = d + Len(c)
      BY <1>0, <2>1
    <2> QED BY <1>7, <2>9, <2>10, <2>11, <2>12
  <1> QED BY <1>2, <1>3

(* Conversely, what is read without an error is a value whose cells were   *)
(* there: an error is never forgotten, and no cell is skipped.             *)
LEMMA GetValueOk ==
    ASSUME NEW u \in Reader, u.buf \in Seq(Nat), u.ind <= Len(u.buf), NEW type \in Types
    PROVE  LET a == get_value(u, type)
           IN /\ a.u \in Reader /\ a.u.buf = u.buf /\ a.u.ind <= Len(u.buf)
              /\ a.v \in Seq(Nat)
              /\ a.u.ok => /\ u.ok /\ a.v \in ValuesOf(type)
                           /\ a.u.ind = u.ind + Len(Cells(type, a.v))
                           /\ Follows(u.buf, u.ind, Cells(type, a.v))
  <1> DEFINE a == get_value(u, type)
  <1>0. u.ind \in Nat
    BY DEF Reader
  <1>1. ASSUME NEW w \in Reader, w.buf \in Seq(Nat), w.ind <= Len(w.buf), NEW n \in Nat,
               read_cells(w, n).u.ok
        PROVE  /\ read_cells(w, n).v \in Seq(Nat) /\ Len(read_cells(w, n).v) = n
               /\ w.ind + n <= Len(w.buf) /\ read_cells(w, n).u.ind = w.ind + n
               /\ \A k \in 1 .. n : read_cells(w, n).v[k] = w.buf[w.ind + k]
    <2>1. w.ind + n <= Len(w.buf)
      BY <1>1, ReadCellsOk
    <2>2. /\ read_cells(w, n).u = [buf |-> w.buf, ind |-> w.ind + n, ok |-> w.ok]
          /\ read_cells(w, n).v = [k \in 1 .. n |-> w.buf[w.ind + k]]
          /\ read_cells(w, n).v \in Seq(Nat) /\ Len(read_cells(w, n).v) = n
      BY <1>1, <2>1, ReadCells
    <2> QED BY <2>1, <2>2
  <1>2. CASE type # "string"
    <2> DEFINE n == Width[type]
               rd == read_cells(u, n)
    <2>1. n \in Nat /\ a = rd
      BY <1>2, WidthTyped DEF get_value
    <2> HIDE DEF n
    <2>2. /\ rd.u \in Reader /\ rd.u.buf = u.buf /\ rd.u.ind <= Len(u.buf)
          /\ (rd.u.ok => u.ok) /\ rd.v \in Seq(Nat)
      BY <2>1, ReadCellsOk
    <2>3. rd.u.ok => /\ rd.v \in Seq(Nat) /\ Len(rd.v) = n
                     /\ u.ind + n <= Len(u.buf) /\ rd.u.ind = u.ind + n
                     /\ \A k \in 1 .. n : rd.v[k] = u.buf[u.ind + k]
      BY <2>1, <1>1
    <2>4. Cells(type, rd.v) = rd.v
      BY <1>2 DEF Cells
    <2>5. rd.u.ok => rd.v \in ValuesOf(type)
      BY <1>2, <2>3 DEF ValuesOf, n
    <2> HIDE DEF rd, a
    <2> QED BY <2>1, <2>2, <2>3, <2>4, <2>5 DEF Follows, a
  <1>3. CASE type = "string"
    <2> DEFINE n == read_cells(u, 1)
               l == n.v[1]
               rd == read_cells(n.u, l)
    <2>1. n.u \in Reader /\ n.u.buf = u.buf /\ n.u.ind <= Len(u.buf) /\ (n.u.ok => u.ok)
      BY ReadCellsOk
    <2>2. n.u.ok => /\ n.v \in Seq(Nat) /\ Len(n.v) = 1 /\ n.u.ind = u.ind + 1
                    /\ n.v[1] = u.buf[u.ind + 1]
      <3> SUFFICES ASSUME n.u.ok
                   PROVE  /\ n.v \in Seq(Nat) /\ Len(n.v) = 1 /\ n.u.ind = u.ind + 1
                          /\ n.v[1] = u.buf[u.ind + 1]
        OBVIOUS
      <3>1. /\ n.v \in Seq(Nat) /\ Len(n.v) = 1 /\ n.u.ind = u.ind + 1
            /\ \A k \in 1 .. 1 : n.v[k] = u.buf[u.ind + k]
        BY <1>1, ZenonT(40)
      <3> QED BY <3>1
    <2>3. a = IF n.u.ok /\ n.u.ind + l <= Len(n.u.buf)
              THEN rd ELSE [u |-> [n.u EXCEPT !.ok = FALSE], v |-> <<>>]
      BY <1>3 DEF get_value, get_string, unpack
    <2> HIDE DEF n
    <2>4. CASE n.u.ok /\ n.u.ind + l <= Len(n.u.buf)
      <3>0. l \in Nat
        BY <2>2, <2>4
      <3>1. l = u.buf[u.ind + 1] /\ n.u.ind = u.ind + 1
        BY <2>2, <2>4
      <3> HIDE DEF l
      <3>2. /\ rd.u \in Reader /\ rd.u.buf = u.buf /\ rd.u.ind <= Len(u.buf)
            /\ (rd.u.ok => u.ok) /\ rd.v \in Seq(Nat)
        BY <2>1, <3>0, ReadCellsOk
      <3>3. rd.u.ok => /\ rd.v \in Seq(Nat) /\ Len(rd.v) = l
                       /\ (u.ind + 1) + l <= Len(u.buf) /\ rd.u.ind = (u.ind + 1) + l
                       /\ \A k \in 1 .. l : rd.v[k] = u.buf[(u.ind + 1) + k]
        <4>1. rd.u.ok => /\ rd.v \in Seq(Nat) /\ Len(rd.v) = l
                         /\ n.u.ind + l <= Len(n.u.buf) /\ rd.u.ind = n.u.ind + l
                         /\ \A k \in 1 .. l : rd.v[k] = n.u.buf[n.u.ind + k]
          BY <1>1, <2>1, <3>0
        <4> HIDE DEF rd
        <4> QED BY <2>1, <3>1, <4>1
      <3> HIDE DEF rd, a
      <3>4. ASSUME rd.u.ok
            PROVE  /\ rd.u.ind = u.ind + Len(Cells(type, rd.v))
                   /\ Follows(u.buf, u.ind, Cells(type, rd.v))
        <4> DEFINE c == Cells(type, rd.v)
        <4>0. Len(c) = l + 1
          BY <1>3, <3>3, <3>4, CellsTyped
        <4>1. c[1] = l /\ \A k \in 1 .. l : c[k + 1] = rd.v[k]
          BY <1>3, <3>3, <3>4, CellsTyped, SMTT(40)
        <4> HIDE DEF c
        <4>2. u.ind + Len(c) = (u.ind + 1) + l
          BY <1>0, <3>0, <4>0, SMTT(40)
        <4>3. ASSUME NEW k \in 1 .. Len(c) PROVE u.buf[u.ind + k] = c[k]
          <5>1. CASE k = 1
            BY <3>1, <4>1, <5>1
          <5>2. CASE k # 1
            <6>1. k - 1 \in 1 .. l /\ (k - 1) + 1 = k /\ (u.ind + 1) + (k - 1) = u.ind + k
              BY <1>0, <3>0, <4>0, <5>2
            <6>2. c[k] = rd.v[k - 1] /\ rd.v[k - 1] = u.buf[u.ind + k]
              BY <3>3, <3>4, <4>1, <6>1
            <6> QED BY <6>2
          <5> QED BY <5>1, <5>2
        <4> QED BY <3>3, <3>4, <4>2, <4>3 DEF Follows, c
      <3>5. rd.u.ok => rd.v \in ValuesOf(type)
        BY <1>3, <3>2 DEF ValuesOf
      <3> QED BY <2>3, <2>4, <3>2, <3>3, <3>4, <3>5 DEF a
    <2>5. CASE ~(n.u.ok /\ n.u.ind + l <= Len(n.u.buf))
      <3>1. a.u = [n.u EXCEPT !.ok = FALSE] /\ a.v \in Seq(Nat)
        BY <2>3, <2>5
      <3> QED BY <2>1, <3>1 DEF Reader
    <2> QED BY <2>4, <2>5
  <1> QED BY <1>2, <1>3
-----------------------------------------------------------------------------
(* msg is what m wrote, but for the header with these cells.               *)
Headed(msg, m, cells) ==
    /\ msg \in Seq(Int) /\ Len(msg) = Len(m.buf)
    /\ \A k \in 1 .. Len(msg) : k > RPC_HEADER_SZ => msg[k] = m.buf[k]
    /\ m.buf \in Seq(Nat) /\ cells \in Seq(Nat) => msg \in Seq(Nat)

(* The header is written into the space before the values, and read from   *)
(* there: a message is its header and then the values as they were.        *)
LEMMA PackHeader ==
    ASSUME NEW m, AtEnd(m), RPC_HEADER_SZ <= Len(m.buf),
           NEW cells \in Seq(Int), Len(cells) <= sizeof_req_header
    PROVE  LET msg == take_buf(pack_header(m, cells))
           IN /\ Headed(msg, m, cells)
              /\ \A k \in 1 .. Len(cells) : msg[1 + k] = cells[k]
  <1> DEFINE b == m.buf
             n == Len(cells)
             l == Len(b)
             head == SubSeq(b, 1, 1)
             tail == SubSeq(b, n + 2, l)
             all == (head \o cells) \o tail
             msg == take_buf(pack_header(m, cells))
  <1>1. b \in Seq(Int) /\ m.ind = Len(b)
    BY DEF AtEnd, Writer
  <1>2. l \in Nat /\ n \in Nat /\ n <= 5 /\ 6 <= l
    BY <1>1, HeaderSize
  <1>3. pack_header(m, cells) = [buf |-> all, ind |-> l]
    <2>1. [m EXCEPT !.ind = 1] = [buf |-> b, ind |-> 1]
      BY <1>1 DEF AtEnd, Writer
    <2>2. 1 + n + 1 = n + 2
      BY <1>2
    <2>3. rawbytes([m EXCEPT !.ind = 1], cells) = [buf |-> all, ind |-> 1 + n]
      BY <2>1, <2>2 DEF rawbytes
    <2> HIDE DEF all
    <2>4. [[buf |-> all, ind |-> 1 + n] EXCEPT !.ind = l] = [buf |-> all, ind |-> l]
      OBVIOUS
    <2> QED BY <1>1, <2>3, <2>4, HeaderSize DEF pack_header
  <1>4. /\ head \in Seq(Int) /\ Len(head) = 1 /\ head[1] = b[1]
        /\ tail \in Seq(Int) /\ Len(tail) = l - (n + 1)
        /\ \A k \in 1 .. l - (n + 1) : tail[k] = b[n + 1 + k]
    <2>1. \A i \in 1 .. 1 : b[i] \in Int
      BY <1>1, <1>2
    <2>2. \A i \in n + 2 .. l : b[i] \in Int
      BY <1>1, <1>2
    <2> HIDE DEF b, l, n
    <2>3. /\ SubSeq(b, 1, 1) \in Seq(Int) /\ Len(SubSeq(b, 1, 1)) = 1
          /\ SubSeq(b, 1, 1)[1] = b[1]
      BY <2>1, SubSeqProperties
    <2>4. /\ SubSeq(b, n + 2, l) \in Seq(Int)
          /\ Len(SubSeq(b, n + 2, l)) = IF n + 2 <= l THEN l - (n + 2) + 1 ELSE 0
          /\ \A i \in 1 .. l - (n + 2) + 1 : SubSeq(b, n + 2, l)[i] = b[n + 2 + i - 1]
      <3> DEFINE lo == n + 2
      <3>1. lo \in Int /\ l \in Int
        BY <1>2
      <3>2. \A i \in lo .. l : b[i] \in Int
        BY <2>2
      <3> HIDE DEF lo
      <3>3. /\ SubSeq(b, lo, l) \in Seq(Int)
            /\ Len(SubSeq(b, lo, l)) = IF lo <= l THEN l - lo + 1 ELSE 0
            /\ \A i \in 1 .. l - lo + 1 : SubSeq(b, lo, l)[i] = b[lo + i - 1]
        BY <3>1, <3>2, SubSeqProperties
      <3> QED BY <3>3 DEF lo
    <2>5. /\ (IF n + 2 <= l THEN l - (n + 2) + 1 ELSE 0) = l - (n + 1)
          /\ l - (n + 2) + 1 = l - (n + 1)
      BY <1>2
    <2>6. \A i \in 1 .. l - (n + 1) : n + 2 + i - 1 = n + 1 + i
      BY <1>2
    <2> QED BY <2>3, <2>4, <2>5, <2>6
  <1> HIDE DEF head, tail
  <1>5. /\ all \in Seq(Int) /\ Len(all) = l
        /\ all[1] = head[1]
        /\ \A k \in 1 .. n : all[1 + k] = cells[k]
        /\ \A k \in 1 .. l : k > n + 1 => all[k] = b[k]
    <2> HIDE DEF b, l, n
    <2> DEFINE f == head \o cells
    <2>0. /\ f \in Seq(Int) /\ Len(f) = Len(head) + Len(cells)
          /\ \A k \in 1 .. Len(head) : f[k] = head[k]
          /\ \A k \in 1 .. Len(cells) : f[Len(head) + k] = cells[k]
      <3>1. head \in Seq(Int)
        BY <1>4
      <3> QED BY <3>1, ConcatAt
    <2> HIDE DEF f
    <2>1. f \in Seq(Int) /\ Len(f) = n + 1
      BY <1>2, <1>4, <2>0 DEF n
    <2>2. all = f \o tail
      BY DEF f
    <2> HIDE DEF all
    <2>3. /\ all \in Seq(Int) /\ Len(all) = Len(f) + Len(tail)
          /\ \A k \in 1 .. Len(f) : all[k] = f[k]
          /\ \A k \in 1 .. Len(tail) : all[Len(f) + k] = tail[k]
      <3>1. tail \in Seq(Int)
        BY <1>4
      <3> QED BY <2>1, <2>2, <3>1, ConcatAt
    <2>4. Len(all) = l
      <3>1. Len(all) = (n + 1) + (l - (n + 1))
        BY <1>4, <2>1, <2>3
      <3> QED BY <1>2, <3>1
    <2>5. Len(head) = 1 /\ Len(cells) = n /\ Len(tail) = l - (n + 1)
      BY <1>4 DEF n
    <2>6. all[1] = head[1]
      <3>1. 1 \in 1 .. Len(f) /\ 1 \in 1 .. Len(head)
        BY <1>2, <2>1, <2>5
      <3> QED BY <2>0, <2>3, <3>1
    <2>7. ASSUME NEW k \in 1 .. n PROVE all[1 + k] = cells[k]
      <3>1. 1 + k \in 1 .. Len(f) /\ k \in 1 .. Len(cells)
        BY <1>2, <2>1, <2>5
      <3> QED BY <2>0, <2>3, <2>5, <3>1
    <2>8. ASSUME NEW k \in 1 .. l, k > n + 1 PROVE all[k] = b[k]
      <3> DEFINE j == k - (n + 1)
      <3>1. j \in 1 .. l - (n + 1) /\ n + 1 + j = k
        BY <1>2, <2>8
      <3> HIDE DEF j
      <3>2. all[k] = tail[j]
        BY <2>1, <2>3, <2>5, <3>1
      <3> QED BY <1>4, <3>1, <3>2
    <2> QED BY <2>3, <2>4, <2>6, <2>7, <2>8
  <1> HIDE DEF all
  <1>6. msg = all
    <2>1. msg = SubSeq(all, 1, l)
      BY <1>3 DEF take_buf
    <2> QED BY <1>5, <2>1, SubSeqFull
  <1>7. ASSUME b \in Seq(Nat), cells \in Seq(Nat) PROVE all \in Seq(Nat)
    <2>1. ASSUME NEW k \in 1 .. l PROVE all[k] \in Nat
      <3>1. CASE k = 1
        BY <1>2, <1>4, <1>5, <1>7, <3>1, SMTT(40)
      <3>2. CASE k > 1 /\ k <= n + 1
        <4>1. k - 1 \in 1 .. n /\ 1 + (k - 1) = k
          BY <1>2, <3>2
        <4>2. all[k] = cells[k - 1]
          BY <1>5, <4>1
        <4> QED BY <1>7, <4>1, <4>2
      <3>3. CASE k > n + 1
        BY <1>5, <1>7, <3>3
      <3> QED BY <1>2, <3>1, <3>2, <3>3
    <2>2. all \in [1 .. l -> Nat]
      BY <1>5, <2>1
    <2> QED BY <1>2, <2>2, SeqOfFunction
  <1>8. \A k \in 1 .. l : k > 6 => k > n + 1
    BY <1>2
  <1> QED BY <1>5, <1>6, <1>7, <1>8, HeaderSize DEF Headed

(* A reader that is moved.                                                 *)
LEMMA ReaderMoved ==
    ASSUME NEW b, NEW i, NEW j
    PROVE  [[buf |-> b, ind |-> i, ok |-> TRUE] EXCEPT !.ind = j]
             = [buf |-> b, ind |-> j, ok |-> TRUE]
  <1>1. PICK o : o = TRUE
    OBVIOUS
  <1>2. ASSUME NEW l PROVE [buf |-> b, ind |-> l, ok |-> o] = [buf |-> b, ind |-> l, ok |-> TRUE]
    BY <1>1
  <1>3. [[buf |-> b, ind |-> i, ok |-> o] EXCEPT !.ind = j] = [buf |-> b, ind |-> j, ok |-> o]
    OBVIOUS
  <1>4. [[buf |-> b, ind |-> i, ok |-> o] EXCEPT !.ind = j]
          = [[buf |-> b, ind |-> i, ok |-> TRUE] EXCEPT !.ind = j]
    BY <1>2, Zenon
  <1> QED BY <1>2, <1>3, <1>4

(* The header's cells are read where they were written, and the reader is  *)
(* left behind the header.                                                 *)
LEMMA UnpackHeader ==
    ASSUME NEW msg \in Seq(Int), RPC_HEADER_SZ <= Len(msg),
           NEW cells \in Seq(Int), Len(cells) <= sizeof_req_header,
           \A k \in 1 .. Len(cells) : msg[1 + k] = cells[k]
    PROVE  unpack_header(unmarshall(msg), Len(cells))
             = [u |-> [buf |-> msg, ind |-> RPC_HEADER_SZ, ok |-> TRUE], v |-> cells]
  <1> DEFINE w == [buf |-> msg, ind |-> 1, ok |-> TRUE]
             n == Len(cells)
             rd == read_cells(w, n)
  <1>1. w \in Reader /\ w.buf = msg /\ w.ind = 1 /\ w.ok = TRUE
    BY DEF Reader
  <1>2. n \in Nat /\ n <= 5 /\ 6 <= Len(msg) /\ Len(msg) \in Nat
    BY HeaderSize
  <1>3. [unmarshall(msg) EXCEPT !.ind = 1] = w
    BY ReaderMoved DEF unmarshall
  <1> HIDE DEF w
  <1>4. w.ind + n <= Len(w.buf)
    BY <1>1, <1>2
  <1>5. /\ rd.u = [buf |-> w.buf, ind |-> w.ind + n, ok |-> w.ok]
        /\ rd.v = [k \in 1 .. n |-> w.buf[w.ind + k]]
    BY <1>1, <1>2, <1>4, ReadCells
  <1>6. rd.v = cells
    <2>1. rd.v = [k \in 1 .. Len(cells) |-> cells[k]]
      BY <1>1, <1>5
    <2>2. cells = [k \in 1 .. Len(cells) |-> cells[k]]
      OBVIOUS
    <2> QED BY <2>1, <2>2
  <1>7. unpack_header(unmarshall(msg), n) = [u |-> [rd.u EXCEPT !.ind = 6], v |-> rd.v]
    BY <1>3, HeaderSize DEF unpack_header
  <1>8. [rd.u EXCEPT !.ind = 6] = [buf |-> msg, ind |-> 6, ok |-> TRUE]
    <2>1. rd.u = [buf |-> msg, ind |-> 1 + n, ok |-> TRUE]
      BY <1>1, <1>5
    <2> HIDE DEF rd, n
    <2> QED BY <2>1, ReaderMoved
  <1> QED BY <1>6, <1>7, <1>8, HeaderSize

(* A request header is read as it was written, whatever the values after.  *)
LEMMA ReqHeader ==
    ASSUME NEW m, AtEnd(m), RPC_HEADER_SZ <= Len(m.buf),
           NEW h \in [xid : Int, proc : Int, clt_nonce : Int, srv_nonce : Int, xid_rep : Int]
    PROVE  LET msg == take_buf(pack_req_header(m, h))
           IN /\ Headed(msg, m, <<h.xid, h.proc, h.clt_nonce, h.srv_nonce, h.xid_rep>>)
              /\ unpack_req_header(unmarshall(msg))
                   = [u |-> [buf |-> msg, ind |-> RPC_HEADER_SZ, ok |-> TRUE], h |-> h]
  <1> DEFINE msg == take_buf(pack_req_header(m, h))
             cells == <<h.xid, h.proc, h.clt_nonce, h.srv_nonce, h.xid_rep>>
  <1>1. /\ cells \in Seq(Int) /\ Len(cells) = 5
        /\ cells[1] = h.xid /\ cells[2] = h.proc /\ cells[3] = h.clt_nonce
        /\ cells[4] = h.srv_nonce /\ cells[5] = h.xid_rep
    OBVIOUS
  <1>2. msg = take_buf(pack_header(m, cells))
    BY DEF pack_req_header
  <1> HIDE DEF cells, msg
  <1>6. Len(cells) <= sizeof_req_header
    BY <1>1, HeaderSize
  <1>3. Headed(msg, m, cells) /\ \A k \in 1 .. Len(cells) : msg[1 + k] = cells[k]
    BY <1>1, <1>2, <1>6, PackHeader, ZenonT(40)
  <1>7. msg \in Seq(Int) /\ RPC_HEADER_SZ <= Len(msg)
    BY <1>3 DEF Headed
  <1>4. unpack_header(unmarshall(msg), Len(cells))
          = [u |-> [buf |-> msg, ind |-> RPC_HEADER_SZ, ok |-> TRUE], v |-> cells]
    BY <1>1, <1>3, <1>6, <1>7, UnpackHeader
  <1>5. unpack_req_header(unmarshall(msg))
          = [u |-> [buf |-> msg, ind |-> RPC_HEADER_SZ, ok |-> TRUE], h |-> h]
    <2> DEFINE r == [buf |-> msg, ind |-> RPC_HEADER_SZ, ok |-> TRUE]
    <2>1. unpack_header(unmarshall(msg), 5) = [u |-> r, v |-> cells]
      BY <1>1, <1>4
    <2> HIDE DEF r
    <2>2. unpack_req_header(unmarshall(msg)) = [u |-> r, h |-> h]
      BY <1>1, <2>1, HeaderSize DEF unpack_req_header
    <2> QED BY <2>2 DEF r
  <1> QED BY <1>3, <1>5 DEF msg, cells

(* So is a reply header, which is shorter.                                 *)
LEMMA ReplyHeader ==
    ASSUME NEW m, AtEnd(m), RPC_HEADER_SZ <= Len(m.buf), NEW h \in [xid : Int, ret : Int]
    PROVE  LET msg == take_buf(pack_reply_header(m, h))
           IN /\ Headed(msg, m, <<h.xid, h.ret>>)
              /\ unpack_reply_header(unmarshall(msg))
                   = [u |-> [buf |-> msg, ind |-> RPC_HEADER_SZ, ok |-> TRUE], h |-> h]
  <1> DEFINE msg == take_buf(pack_reply_header(m, h))
             cells == <<h.xid, h.ret>>
  <1>1. cells \in Seq(Int) /\ Len(cells) = 2 /\ cells[1] = h.xid /\ cells[2] = h.ret
    OBVIOUS
  <1>2. msg = take_buf(pack_header(m, cells))
    BY DEF pack_reply_header
  <1> HIDE DEF cells, msg
  <1>6. Len(cells) <= sizeof_req_header
    BY <1>1, HeaderSize
  <1>3. Headed(msg, m, cells) /\ \A k \in 1 .. Len(cells) : msg[1 + k] = cells[k]
    BY <1>1, <1>2, <1>6, PackHeader, ZenonT(40)
  <1>7. msg \in Seq(Int) /\ RPC_HEADER_SZ <= Len(msg)
    BY <1>3 DEF Headed
  <1>4. unpack_header(unmarshall(msg), Len(cells))
          = [u |-> [buf |-> msg, ind |-> RPC_HEADER_SZ, ok |-> TRUE], v |-> cells]
    BY <1>1, <1>3, <1>6, <1>7, UnpackHeader
  <1>5. unpack_reply_header(unmarshall(msg))
          = [u |-> [buf |-> msg, ind |-> RPC_HEADER_SZ, ok |-> TRUE], h |-> h]
    <2> DEFINE r == [buf |-> msg, ind |-> RPC_HEADER_SZ, ok |-> TRUE]
    <2>1. unpack_header(unmarshall(msg), 2) = [u |-> r, v |-> cells]
      BY <1>1, <1>4
    <2> HIDE DEF r
    <2>2. unpack_reply_header(unmarshall(msg)) = [u |-> r, h |-> h]
      BY <1>1, <2>1, HeaderSize DEF unpack_reply_header
    <2> QED BY <2>2 DEF r
  <1> QED BY <1>3, <1>5 DEF msg, cells
-----------------------------------------------------------------------------

(* A list of arguments, as cells, and the type of each.                    *)
WellTyped(q) == /\ q.types \in Seq(Types) /\ q.args \in Seq(Seq(Nat))
                /\ Len(q.types) = Len(q.args)

(* What a marshall is while values are added to it.                        *)
NatWriter == {m \in Writer : /\ m.buf \in Seq(Nat) /\ m.ind = Len(m.buf)
                             /\ RPC_HEADER_SZ <= Len(m.buf)}

LEMMA Empty == /\ marshall \in NatWriter
               /\ marshall.buf = [k \in 1 .. 6 |-> 0] /\ Len(marshall.buf) = 6
  <1> DEFINE z == [k \in 1 .. 6 |-> 0]
  <1>1. z \in [1 .. 6 -> Nat] /\ z \in [1 .. 6 -> Int]
    OBVIOUS
  <1>2. marshall = [buf |-> z, ind |-> 6]
    BY HeaderSize DEF marshall
  <1> HIDE DEF z
  <1>3. z \in Seq(Nat) /\ z \in Seq(Int) /\ Len(z) = 6
    BY <1>1, SeqOfFunction
  <1>4. marshall.buf = z /\ marshall.ind = 6 /\ marshall \in Writer
    BY <1>2, <1>3 DEF Writer
  <1>5. marshall.ind = Len(marshall.buf) /\ RPC_HEADER_SZ <= Len(marshall.buf)
    <2>1. Len(marshall.buf) = 6
      BY <1>3, <1>4
    <2> QED BY <1>4, <2>1, HeaderSize
  <1>6. marshall \in NatWriter
    BY <1>3, <1>4, <1>5 DEF NatWriter
  <1> QED BY <1>3, <1>4, <1>6 DEF z

(* A value is added at the end.                                            *)
LEMMA PutNat ==
    ASSUME NEW m \in NatWriter, NEW type, NEW v \in Seq(Nat)
    PROVE  /\ put_value(m, type, v) \in NatWriter
           /\ put_value(m, type, v) = [buf |-> m.buf \o Cells(type, v),
                                       ind |-> Len(m.buf) + Len(Cells(type, v))]
  <1>1. AtEnd(m)
    BY DEF AtEnd, NatWriter
  <1>2. /\ put_value(m, type, v) = [buf |-> m.buf \o Cells(type, v),
                                    ind |-> Len(m.buf) + Len(Cells(type, v))]
        /\ AtEnd(put_value(m, type, v))
    BY <1>1, PutValue
  <1>3. Cells(type, v) \in Seq(Nat) /\ m.buf \in Seq(Nat) /\ 6 <= Len(m.buf)
    BY CellsTyped, HeaderSize DEF NatWriter
  <1>4. m.buf \o Cells(type, v) \in Seq(Nat) /\ 6 <= Len(m.buf \o Cells(type, v))
    <2>1. /\ m.buf \o Cells(type, v) \in Seq(Nat)
          /\ Len(m.buf \o Cells(type, v)) = Len(m.buf) + Len(Cells(type, v))
      BY <1>3
    <2>2. Len(m.buf) \in Nat /\ Len(Cells(type, v)) \in Nat
      BY <1>3
    <2> QED BY <1>3, <2>1, <2>2
  <1> DEFINE p == put_value(m, type, v)
  <1>5. p.buf = m.buf \o Cells(type, v)
    BY <1>2
  <1>6. p \in Writer /\ p.ind = Len(p.buf)
    BY <1>2 DEF AtEnd
  <1>7. p \in NatWriter
    <2> HIDE DEF p
    <2>1. p.buf \in Seq(Nat) /\ RPC_HEADER_SZ <= Len(p.buf)
      BY <1>4, <1>5, HeaderSize
    <2> QED BY <1>6, <2>1 DEF NatWriter
  <1> QED BY <1>2, <1>7

(* What marshalled(q) stands for: the equations of its definition.         *)
LEMMA MarshalledDef ==
    ASSUME NEW q, WellTyped(q)
    PROVE  /\ marshalled(q) \in [0 .. Len(q.args) -> NatWriter]
           /\ marshalled(q)[0] = marshall
           /\ \A k \in 1 .. Len(q.args) :
                 marshalled(q)[k] = put_value(marshalled(q)[k - 1], q.types[k], q.args[k])
  <1> DEFINE n == Len(q.args)
             F == [k \in 1 .. n |-> [m \in NatWriter |-> put_value(m, q.types[k], q.args[k])]]
  <1>1. n \in Nat /\ \A k \in 1 .. n : q.args[k] \in Seq(Nat)
    BY DEF WellTyped
  <1>2. F \in [1 .. n -> [NatWriter -> NatWriter]]
    BY <1>1, PutNat
  <1>3. marshall \in NatWriter
    BY Empty
  <1>4. PICK f \in [0 .. n -> NatWriter] : Iterates(f, n, marshall, F)
    <2> HIDE DEF F, n
    <2> QED BY <1>1, <1>2, <1>3, Recursion
  <1>5. \A k \in 1 .. n : k - 1 \in 0 .. n /\ k \in 0 .. n
    BY <1>1
  <1>6. \A k \in 1 .. n : f[k] = put_value(f[k - 1], q.types[k], q.args[k])
    BY <1>4, <1>5 DEF Iterates
  <1> DEFINE Eq(g) == g = [k \in 0 .. n |-> IF k = 0 THEN marshall
                                            ELSE put_value(g[k - 1], q.types[k], q.args[k])]
  <1>7. Eq(f)
    <2>1. \A k \in 0 .. n : k # 0 => k \in 1 .. n
      BY <1>1
    <2>2. \A k \in 0 .. n : f[k] = IF k = 0 THEN marshall
                                   ELSE put_value(f[k - 1], q.types[k], q.args[k])
      BY <1>4, <1>6, <2>1 DEF Iterates
    <2>3. f = [k \in 0 .. n |-> f[k]]
      BY <1>4
    <2> QED BY <2>2, <2>3
  <1> DEFINE g == marshalled(q)
  <1>8. Eq(g)
    <2>1. g = CHOOSE h : Eq(h)
      BY DEF marshalled
    <2> HIDE DEF Eq, g
    <2> QED BY <1>7, <2>1
  <1>9. g[0] = marshall
    BY <1>1, <1>8
  <1>10. \A k \in 1 .. n : g[k] = put_value(g[k - 1], q.types[k], q.args[k])
    <2> HIDE DEF g
    <2> TAKE k \in 1 .. n
    <2>1. k \in 0 .. n /\ k # 0
      BY <1>1
    <2> QED BY <1>8, <2>1
  <1>11. g \in [0 .. n -> NatWriter]
    <2> HIDE DEF g
    <2>1. g = [k \in 0 .. n |-> g[k]]
      BY <1>8
    <2> DEFINE T == {k \in 0 .. n : g[k] \notin NatWriter}
    <2>2. SUFFICES ASSUME T # {} PROVE FALSE
      BY <2>1
    <2>3. PICK k \in T : \A y \in T : k <= y
      <3>1. T \in SUBSET Nat
        BY <1>1
      <3> HIDE DEF T
      <3> QED BY <2>2, <3>1, Least
    <2>4. k # 0
      BY <1>3, <1>9
    <2>5. k \in 1 .. n /\ k - 1 \in 0 .. n /\ ~(k <= k - 1)
      BY <1>1, <2>4
    <2>6. g[k - 1] \in NatWriter
      BY <2>3, <2>5
    <2>7. g[k] \in NatWriter
      BY <1>1, <1>10, <2>5, <2>6, PutNat
    <2> QED BY <2>7
  <1> QED BY <1>9, <1>10, <1>11

(* b is a with c behind it.                                                *)
Extended(a, b, c) == /\ a \in Seq(Nat) /\ b \in Seq(Nat) /\ c \in Seq(Nat)
                     /\ Len(b) = Len(a) + Len(c)
                     /\ \A i \in 1 .. Len(a) : b[i] = a[i]
                     /\ \A i \in 1 .. Len(c) : b[Len(a) + i] = c[i]

(* Each argument's cells are added behind what is there.                   *)
LEMMA MarshalledStep ==
    ASSUME NEW q, WellTyped(q), NEW k \in 1 .. Len(q.args)
    PROVE  Extended(marshalled(q)[k - 1].buf, marshalled(q)[k].buf, Cells(q.types[k], q.args[k]))
  <1> DEFINE a == marshalled(q)[k - 1].buf
             b == marshalled(q)[k].buf
             c == Cells(q.types[k], q.args[k])
             m == marshalled(q)[k - 1]
  <1>1. k - 1 \in 0 .. Len(q.args) /\ k \in 0 .. Len(q.args) /\ q.args[k] \in Seq(Nat)
    BY DEF WellTyped
  <1>2. m \in NatWriter /\ marshalled(q)[k] = put_value(m, q.types[k], q.args[k])
    BY <1>1, MarshalledDef
  <1>3. b = a \o c
    <2> DEFINE p == put_value(m, q.types[k], q.args[k])
               l == Len(m.buf) + Len(c)
               s == m.buf \o c
    <2> HIDE DEF m
    <2>1. p = [buf |-> s, ind |-> l]
      BY <1>1, <1>2, PutNat, ZenonT(40)
    <2> HIDE DEF p, s, l
    <2>2. p.buf = s
      BY <2>1
    <2> QED BY <1>2, <2>2 DEF m, p, s
  <1>4. a \in Seq(Nat) /\ c \in Seq(Nat)
    BY <1>1, <1>2, CellsTyped DEF NatWriter
  <1> HIDE DEF a, b, c
  <1>5. /\ a \o c \in Seq(Nat) /\ Len(a \o c) = Len(a) + Len(c)
        /\ \A i \in 1 .. Len(a) : (a \o c)[i] = a[i]
        /\ \A i \in 1 .. Len(c) : (a \o c)[Len(a) + i] = c[i]
    BY <1>4
  <1> QED BY <1>3, <1>4, <1>5 DEF a, b, c, Extended

(* What is there stays as it is when more is added.                        *)
Prefix(a, b) == Len(a) <= Len(b) /\ \A i \in 1 .. Len(a) : b[i] = a[i]

LEMMA MarshalledPrefix ==
    ASSUME NEW q, WellTyped(q), NEW j \in 0 .. Len(q.args)
    PROVE  Prefix(marshalled(q)[j].buf, marshal_args(q).buf)
  <1> DEFINE n == Len(q.args)
             Buf(k) == marshalled(q)[k].buf
             T == {k \in 0 .. n : j <= k /\ ~Prefix(Buf(j), Buf(k))}
  <1>1. n \in Nat
    BY DEF WellTyped
  <1>2. \A k \in 0 .. n : Buf(k) \in Seq(Nat) /\ Len(Buf(k)) \in Nat
    <2> TAKE k \in 0 .. n
    <2>1. marshalled(q)[k] \in NatWriter
      BY MarshalledDef
    <2> QED BY <2>1 DEF NatWriter
  <1>3. ASSUME NEW k \in 1 .. n PROVE Prefix(Buf(k - 1), Buf(k))
    <2>1. /\ Len(Buf(k)) = Len(Buf(k - 1)) + Len(Cells(q.types[k], q.args[k]))
          /\ Cells(q.types[k], q.args[k]) \in Seq(Nat)
          /\ \A i \in 1 .. Len(Buf(k - 1)) : Buf(k)[i] = Buf(k - 1)[i]
      BY MarshalledStep, ZenonT(40) DEF Extended
    <2>2. Len(Cells(q.types[k], q.args[k])) \in Nat
      BY <2>1
    <2>3. k - 1 \in 0 .. n
      BY <1>1
    <2> HIDE DEF Buf
    <2>4. Len(Buf(k - 1)) <= Len(Buf(k))
      <3>1. Len(Buf(k - 1)) \in Nat
        BY <1>2, <2>3
      <3> QED BY <2>1, <2>2, <3>1
    <2> QED BY <2>1, <2>4 DEF Prefix
  <1> HIDE DEF Buf
  <1>4. SUFFICES ASSUME T # {} PROVE FALSE
    <2>1. n \in 0 .. n /\ j <= n
      BY <1>1
    <2> QED BY <2>1 DEF marshal_args, Buf
  <1>5. PICK k \in T : \A y \in T : k <= y
    <2>1. T \in SUBSET Nat
      BY <1>1
    <2> HIDE DEF T
    <2> QED BY <1>4, <2>1, Least
  <1>6. k # j
    BY <1>2, <1>5 DEF Prefix
  <1>7. k \in 1 .. n /\ k - 1 \in 0 .. n /\ j <= k - 1 /\ ~(k <= k - 1)
    BY <1>1, <1>5, <1>6
  <1>8. Prefix(Buf(j), Buf(k - 1)) /\ Prefix(Buf(k - 1), Buf(k))
    BY <1>3, <1>5, <1>7
  <1>9. /\ Len(Buf(j)) \in Nat /\ Len(Buf(k - 1)) \in Nat /\ Len(Buf(k)) \in Nat
        /\ Len(Buf(j)) <= Len(Buf(k - 1)) /\ Len(Buf(k - 1)) <= Len(Buf(k))
    BY <1>2, <1>7, <1>8 DEF Prefix
  <1>10. ASSUME NEW i \in 1 .. Len(Buf(j)) PROVE Buf(k)[i] = Buf(j)[i]
    <2>1. i \in 1 .. Len(Buf(k - 1))
      BY <1>9
    <2> QED BY <1>8, <2>1 DEF Prefix
  <1>11. Prefix(Buf(j), Buf(k))
    <2>1. Len(Buf(j)) <= Len(Buf(k))
      BY <1>9
    <2> QED BY <1>10, <2>1 DEF Prefix
  <1> QED BY <1>5, <1>11
-----------------------------------------------------------------------------
(* The states of reading arguments from u.                                 *)
NatReader == {u \in Reader : u.buf \in Seq(Nat) /\ u.ind <= Len(u.buf)}
ReadsOf(u) == {rd \in [u : NatReader, v : Seq(Seq(Nat))] : rd.u.buf = u.buf}

(* One argument is read; without an error, its cells were the next.        *)
LEMMA GetArgTyped ==
    ASSUME NEW u \in NatReader, NEW rd \in ReadsOf(u), NEW type \in Types
    PROVE  LET a == get_value(rd.u, type)
           IN /\ GetArg(rd, type) \in ReadsOf(u)
              /\ GetArg(rd, type) = [u |-> a.u, v |-> Append(rd.v, a.v)]
              /\ a.v \in Seq(Nat)
              /\ a.u.ok => /\ rd.u.ok
                           /\ a.u.ind = rd.u.ind + Len(Cells(type, a.v))
                           /\ Follows(u.buf, rd.u.ind, Cells(type, a.v))
  <1> DEFINE a == get_value(rd.u, type)
             w == rd.u
  <1>1. w \in NatReader /\ w.buf = u.buf /\ rd.v \in Seq(Seq(Nat))
    BY DEF ReadsOf
  <1>2. w \in Reader /\ w.buf \in Seq(Nat) /\ w.ind <= Len(w.buf)
    BY <1>1 DEF NatReader
  <1>3. /\ a.u \in Reader /\ a.u.buf = w.buf /\ a.u.ind <= Len(w.buf) /\ a.v \in Seq(Nat)
        /\ a.u.ok => /\ w.ok
                     /\ a.u.ind = w.ind + Len(Cells(type, a.v))
                     /\ Follows(w.buf, w.ind, Cells(type, a.v))
    BY <1>2, GetValueOk
  <1>4. GetArg(rd, type) = [u |-> a.u, v |-> Append(rd.v, a.v)]
    BY DEF GetArg
  <1> HIDE DEF a, w
  <1>5. a.u \in NatReader
    BY <1>2, <1>3 DEF NatReader
  <1>6. Append(rd.v, a.v) \in Seq(Seq(Nat))
    BY <1>1, <1>3
  <1>7. GetArg(rd, type) \in ReadsOf(u)
    BY <1>1, <1>3, <1>4, <1>5, <1>6 DEF ReadsOf
  <1> QED BY <1>1, <1>3, <1>4, <1>7 DEF a, w

(* What unmarshalled stands for: the equations of its definition.          *)
LEMMA UnmarshalledDef ==
    ASSUME NEW u \in NatReader, NEW types \in Seq(Types)
    PROVE  /\ unmarshalled(u, types) \in [0 .. Len(types) -> ReadsOf(u)]
           /\ unmarshalled(u, types)[0] = [u |-> u, v |-> <<>>]
           /\ \A k \in 1 .. Len(types) :
                 unmarshalled(u, types)[k] = GetArg(unmarshalled(u, types)[k - 1], types[k])
  <1> DEFINE n == Len(types)
             S == ReadsOf(u)
             none == [u |-> u, v |-> <<>>]
             F == [k \in 1 .. n |-> [rd \in S |-> GetArg(rd, types[k])]]
  <1>1. n \in Nat /\ \A k \in 1 .. n : types[k] \in Types
    OBVIOUS
  <1>2. ASSUME NEW rd \in S, NEW k \in 1 .. n PROVE GetArg(rd, types[k]) \in S
    BY <1>1, GetArgTyped
  <1>3. none \in S
    BY DEF ReadsOf
  <1> HIDE DEF S, none, n
  <1>4. F \in [1 .. n -> [S -> S]]
    BY <1>2
  <1>5. PICK f \in [0 .. n -> S] : Iterates(f, n, none, F)
    <2> HIDE DEF F
    <2>1. n \in Nat
      BY <1>1
    <2> QED BY <1>3, <1>4, <2>1, Recursion
  <1>6. \A k \in 1 .. n : k - 1 \in 0 .. n /\ k \in 0 .. n
    BY <1>1
  <1>7. \A k \in 1 .. n : f[k] = GetArg(f[k - 1], types[k])
    BY <1>5, <1>6 DEF Iterates
  <1> DEFINE Eq(g) == g = [k \in 0 .. n |-> IF k = 0 THEN none ELSE GetArg(g[k - 1], types[k])]
  <1>8. Eq(f)
    <2>1. \A k \in 0 .. n : k # 0 => k \in 1 .. n
      BY <1>1
    <2>2. \A k \in 0 .. n : f[k] = IF k = 0 THEN none ELSE GetArg(f[k - 1], types[k])
      BY <1>5, <1>7, <2>1 DEF Iterates
    <2>3. f = [k \in 0 .. n |-> f[k]]
      BY <1>5
    <2> QED BY <2>2, <2>3
  <1> DEFINE g == unmarshalled(u, types)
  <1>9. Eq(g)
    <2>1. g = CHOOSE h : Eq(h)
      BY DEF unmarshalled, none, n
    <2> HIDE DEF Eq, g
    <2> QED BY <1>8, <2>1
  <1> HIDE DEF g
  <1>10. g[0] = none
    BY <1>1, <1>9
  <1>11. \A k \in 1 .. n : g[k] = GetArg(g[k - 1], types[k])
    <2> TAKE k \in 1 .. n
    <2>1. k \in 0 .. n /\ k # 0
      BY <1>1
    <2> QED BY <1>9, <2>1
  <1>12. g \in [0 .. n -> S]
    <2>1. g = [k \in 0 .. n |-> g[k]]
      BY <1>9
    <2> DEFINE T == {k \in 0 .. n : g[k] \notin S}
    <2>2. SUFFICES ASSUME T # {} PROVE FALSE
      BY <2>1
    <2>3. PICK k \in T : \A y \in T : k <= y
      <3>1. T \in SUBSET Nat
        BY <1>1
      <3> HIDE DEF T
      <3> QED BY <2>2, <3>1, Least
    <2>4. k # 0
      BY <1>3, <1>10
    <2>5. k \in 1 .. n /\ k - 1 \in 0 .. n /\ ~(k <= k - 1)
      BY <1>1, <2>4
    <2>6. g[k - 1] \in S
      BY <2>3, <2>5
    <2>7. g[k] \in S
      BY <1>2, <1>11, <2>5, <2>6
    <2> QED BY <2>7
  <1> QED BY <1>10, <1>11, <1>12 DEF g, n, none, S
-----------------------------------------------------------------------------
(* A reader of the request with the arguments of q: past the header its    *)
(* cells are those the client wrote.                                       *)
ReaderOf(u, q) ==
    LET body == marshal_args(q).buf
    IN /\ u \in NatReader /\ u.ok = TRUE /\ u.ind = RPC_HEADER_SZ
       /\ Len(u.buf) = Len(body)
       /\ \A k \in 1 .. Len(body) : k > RPC_HEADER_SZ => u.buf[k] = body[k]

(* A reader of a message that starts with the arguments of q, and may go   *)
(* on after them.                                                          *)
ReaderOver(u, q) ==
    LET body == marshal_args(q).buf
    IN /\ u \in NatReader /\ u.ok = TRUE /\ u.ind = RPC_HEADER_SZ
       /\ Len(body) <= Len(u.buf)
       /\ \A k \in 1 .. Len(body) : k > RPC_HEADER_SZ => u.buf[k] = body[k]

(* Read with the types they were written with, the arguments are those of  *)
(* the call, one by one, whatever there is behind them.                    *)
LEMMA ArgsRead ==
    ASSUME NEW q, WellTyped(q), \A k \in 1 .. Len(q.args) : q.args[k] \in ValuesOf(q.types[k]),
           NEW u, ReaderOver(u, q)
    PROVE  /\ \A k \in 0 .. Len(q.args) :
                unmarshalled(u, q.types)[k]
                  = [u |-> [buf |-> u.buf, ind |-> Len(marshalled(q)[k].buf), ok |-> TRUE],
                     v |-> SubSeq(q.args, 1, k)]
           /\ \A k \in 1 .. Len(q.args) :
                get_value(unmarshalled(u, q.types)[k - 1].u, q.types[k]).v = q.args[k]
  <1> DEFINE n == Len(q.args)
             get == unmarshalled(u, q.types)
             Buf(k) == marshalled(q)[k].buf
             At(k) == [u |-> [buf |-> u.buf, ind |-> Len(Buf(k)), ok |-> TRUE],
                       v |-> SubSeq(q.args, 1, k)]
             T == {k \in 0 .. n : get[k] # At(k)}
  <1>1. n \in Nat /\ Len(q.types) = n /\ q.types \in Seq(Types) /\ q.args \in Seq(Seq(Nat))
    BY DEF WellTyped
  <1>2. u \in NatReader /\ u \in Reader /\ u.buf \in Seq(Nat) /\ u.buf \in Seq(Int)
    BY DEF ReaderOver, NatReader, Reader
  <1>3. \A k \in 0 .. n : Buf(k) \in Seq(Nat) /\ Len(Buf(k)) \in Nat /\ 6 <= Len(Buf(k))
    <2> TAKE k \in 0 .. n
    <2>1. marshalled(q)[k] \in NatWriter
      BY MarshalledDef
    <2> QED BY <2>1, HeaderSize DEF NatWriter
  <1>4. /\ get[0] = [u |-> u, v |-> <<>>]
        /\ \A k \in 1 .. n : get[k] = GetArg(get[k - 1], q.types[k])
    BY <1>1, <1>2, UnmarshalledDef
  <1>5. get[0] = At(0)
    <2>1. Len(Buf(0)) = 6
      BY MarshalledDef, Empty
    <2>2. u = [buf |-> u.buf, ind |-> 6, ok |-> TRUE]
      BY <1>2, HeaderSize DEF Reader, ReaderOver
    <2>3. SubSeq(q.args, 1, 0) = <<>>
      BY <1>1
    <2> QED BY <1>4, <2>1, <2>2, <2>3
  <1>6. ASSUME NEW k \in 1 .. n, get[k - 1] = At(k - 1)
        PROVE  get[k] = At(k) /\ get_value(get[k - 1].u, q.types[k]).v = q.args[k]
    <2> DEFINE w == [buf |-> u.buf, ind |-> Len(Buf(k - 1)), ok |-> TRUE]
               c == Cells(q.types[k], q.args[k])
    <2>1. k - 1 \in 0 .. n /\ k \in 0 .. n /\ q.types[k] \in Types
      BY <1>1
    <2>2. w \in Reader /\ w.ok /\ w.buf = u.buf /\ w.ind = Len(Buf(k - 1))
      BY <1>2, <1>3, <2>1 DEF Reader
    <2>3. Follows(u.buf, Len(Buf(k - 1)), c) /\ Len(Buf(k)) = Len(Buf(k - 1)) + Len(c)
      <3> DEFINE body == marshal_args(q).buf
                 a == Buf(k - 1)
                 b == Buf(k)
      <3>1. /\ Len(b) = Len(a) + Len(c) /\ c \in Seq(Nat)
            /\ \A i \in 1 .. Len(c) : b[Len(a) + i] = c[i]
        BY MarshalledStep DEF Extended
      <3>2. Prefix(b, body)
        BY <2>1, MarshalledPrefix
      <3>3. Len(a) \in Nat /\ 6 <= Len(a) /\ Len(b) \in Nat
        BY <1>3, <2>1
      <3>4. Len(body) <= Len(u.buf) /\ \A i \in 1 .. Len(body) : i > 6 => u.buf[i] = body[i]
        BY HeaderSize DEF ReaderOver
      <3>9. Len(body) \in Nat
        BY <1>1, <1>3 DEF marshal_args
      <3> HIDE DEF body, a, b, c
      <3>5. Len(c) \in Nat
        BY <3>1
      <3>10. Len(u.buf) \in Nat
        BY <1>2
      <3>6. Len(a) + Len(c) <= Len(u.buf) /\ Len(b) <= Len(body)
        BY <3>1, <3>2, <3>3, <3>4, <3>5, <3>9, <3>10 DEF Prefix
      <3>7. ASSUME NEW i \in 1 .. Len(c) PROVE u.buf[Len(a) + i] = c[i]
        <4> DEFINE d == Len(a) + i
        <4>1. d \in 1 .. Len(b) /\ d > 6 /\ d \in 1 .. Len(body)
          <5>1. Len(b) = Len(a) + Len(c)
            BY <3>1
          <5> QED BY <3>3, <3>5, <3>6, <3>9, <5>1
        <4>2. b[d] = c[i]
          BY <3>1
        <4> HIDE DEF d
        <4>3. u.buf[d] = c[i]
          BY <3>2, <3>4, <4>1, <4>2 DEF Prefix
        <4> QED BY <4>3 DEF d
      <3>8. Follows(u.buf, Len(a), c)
        BY <3>6, <3>7 DEF Follows
      <3> QED BY <3>1, <3>8 DEF a, b
    <2> DEFINE r == get_value(w, q.types[k])
               s == [buf |-> u.buf, ind |-> Len(Buf(k)), ok |-> TRUE]
    <2>4. r.v = q.args[k] /\ r.u = s
      <3> HIDE DEF w
      <3>1. q.args[k] \in ValuesOf(q.types[k]) /\ Follows(w.buf, w.ind, c)
        BY <2>2, <2>3
      <3>2. /\ r.v = q.args[k]
            /\ r.u = [buf |-> w.buf, ind |-> w.ind + Len(c), ok |-> TRUE]
        BY <2>1, <2>2, <3>1, GetValue
      <3> HIDE DEF r, c
      <3> QED BY <2>2, <2>3, <3>2
    <2>5. Append(SubSeq(q.args, 1, k - 1), q.args[k]) = SubSeq(q.args, 1, k)
      BY <1>1
    <2>6. get[k - 1] = [u |-> w, v |-> SubSeq(q.args, 1, k - 1)]
      BY <1>6
    <2>7. At(k) = [u |-> s, v |-> SubSeq(q.args, 1, k)]
      OBVIOUS
    <2>8. get[k] = GetArg(get[k - 1], q.types[k])
      BY <1>4
    <2> HIDE DEF w, s, get, At
    <2>9. get[k - 1].u = w /\ get[k - 1].v = SubSeq(q.args, 1, k - 1)
      BY <2>6
    <2>10. get[k] = [u |-> r.u, v |-> Append(SubSeq(q.args, 1, k - 1), r.v)]
      BY <2>8, <2>9 DEF GetArg
    <2>11. get_value(get[k - 1].u, q.types[k]).v = q.args[k]
      BY <2>4, <2>9
    <2> HIDE DEF r
    <2> QED BY <2>4, <2>5, <2>7, <2>10, <2>11
  <1>7. \A k \in 0 .. n : get[k] = At(k)
    <2>1. SUFFICES ASSUME T # {} PROVE FALSE
      OBVIOUS
    <2>2. PICK k \in T : \A y \in T : k <= y
      <3>1. T \in SUBSET Nat
        BY <1>1
      <3> HIDE DEF T
      <3> QED BY <2>1, <3>1, Least
    <2>3. k # 0
      BY <1>5
    <2>4. k \in 1 .. n /\ k - 1 \in 0 .. n /\ ~(k <= k - 1)
      BY <1>1, <2>3
    <2> HIDE DEF At, get
    <2> QED BY <1>6, <2>2, <2>4
  <1>8. ASSUME NEW k \in 1 .. n PROVE get_value(get[k - 1].u, q.types[k]).v = q.args[k]
    <2>1. k - 1 \in 0 .. n
      BY <1>1
    <2> HIDE DEF get, At
    <2> QED BY <1>6, <1>7, <2>1
  <1>9. \A k \in 0 .. n : get[k] = [u |-> [buf |-> u.buf, ind |-> Len(Buf(k)), ok |-> TRUE],
                                   v |-> SubSeq(q.args, 1, k)]
    BY <1>7
  <1> QED BY <1>8, <1>9

(* To the end of the message, if they are all there is.                    *)
LEMMA ArgsRoundTrip ==
    ASSUME NEW q, WellTyped(q), \A k \in 1 .. Len(q.args) : q.args[k] \in ValuesOf(q.types[k]),
           NEW u, ReaderOf(u, q)
    PROVE  /\ unmarshal_args(u, q.types).v = q.args
           /\ okdone(unmarshal_args(u, q.types).u)
  <1> DEFINE n == Len(q.args)
             l == Len(marshalled(q)[n].buf)
  <1>1. n \in Nat /\ Len(q.types) = n /\ q.args \in Seq(Seq(Nat))
    BY DEF WellTyped
  <1>2. l \in Nat /\ l = Len(u.buf)
    <2>1. marshalled(q)[n] \in NatWriter
      <3>1. marshalled(q) \in [0 .. n -> NatWriter]
        BY MarshalledDef
      <3>2. n \in 0 .. n
        BY <1>1
      <3> HIDE DEF n
      <3> QED BY <3>1, <3>2
    <2> QED BY <2>1 DEF NatWriter, ReaderOf, marshal_args
  <1>3. ReaderOver(u, q)
    BY <1>2 DEF ReaderOver, ReaderOf, marshal_args
  <1>4. unmarshal_args(u, q.types) = [u |-> [buf |-> u.buf, ind |-> l, ok |-> TRUE],
                                      v |-> SubSeq(q.args, 1, n)]
    <2>1. n \in 0 .. n
      BY <1>1
    <2>2. \A k \in 0 .. n :
             unmarshalled(u, q.types)[k]
               = [u |-> [buf |-> u.buf, ind |-> Len(marshalled(q)[k].buf), ok |-> TRUE],
                  v |-> SubSeq(q.args, 1, k)]
      BY <1>3, ArgsRead
    <2>3. unmarshal_args(u, q.types) = unmarshalled(u, q.types)[n]
      BY <1>1 DEF unmarshal_args
    <2> HIDE DEF n
    <2> QED BY <2>1, <2>2, <2>3
  <1>5. SubSeq(q.args, 1, n) = q.args
    BY <1>1
  <1> HIDE DEF n, l
  <1> QED BY <1>2, <1>4, <1>5 DEF okdone

(* Read with other types, but without an error and to the end, what was    *)
(* read and what was written are the same cells.                           *)
LEMMA ArgsConsumed ==
    ASSUME NEW q, WellTyped(q), NEW u, ReaderOf(u, q), NEW types \in Seq(Types),
           okdone(unmarshal_args(u, types).u),
           NEW p, p.types = types, p.args = unmarshal_args(u, types).v
    PROVE  WellTyped(p) /\ marshal_args(p) = marshal_args(q)
  <1> DEFINE n == Len(types)
             get == unmarshalled(u, types)
             V(k) == get_value(get[k - 1].u, types[k]).v
             C(k) == Cells(types[k], V(k))
  <1>1. n \in Nat
    OBVIOUS
  <1>2. u \in NatReader /\ u.buf \in Seq(Nat)
    BY DEF ReaderOf, NatReader
  <1>3. /\ get \in [0 .. n -> ReadsOf(u)]
        /\ get[0] = [u |-> u, v |-> <<>>]
        /\ \A k \in 1 .. n : get[k] = GetArg(get[k - 1], types[k])
    BY <1>2, UnmarshalledDef
  <1>4. unmarshal_args(u, types) = get[n]
    BY DEF unmarshal_args
  <1>5. ASSUME NEW k \in 1 .. n
        PROVE  /\ V(k) \in Seq(Nat)
               /\ get[k].v = Append(get[k - 1].v, V(k))
               /\ get[k].u.ok => /\ get[k - 1].u.ok
                                 /\ get[k].u.ind = get[k - 1].u.ind + Len(C(k))
                                 /\ Follows(u.buf, get[k - 1].u.ind, C(k))
    <2> DEFINE rd == get[k - 1]
               type == types[k]
               a == get_value(rd.u, type)
    <2>1. rd \in ReadsOf(u) /\ type \in Types
      BY <1>1, <1>3
    <2>2. get[k] = GetArg(rd, type)
      BY <1>3
    <2> HIDE DEF rd, type
    <2>3. /\ GetArg(rd, type) = [u |-> a.u, v |-> Append(rd.v, a.v)]
          /\ a.v \in Seq(Nat)
          /\ a.u.ok => /\ rd.u.ok
                       /\ a.u.ind = rd.u.ind + Len(Cells(type, a.v))
                       /\ Follows(u.buf, rd.u.ind, Cells(type, a.v))
      BY <1>2, <2>1, GetArgTyped
    <2> HIDE DEF a
    <2>4. get[k].u = a.u /\ get[k].v = Append(rd.v, a.v)
      <3> HIDE DEF get
      <3> QED BY <2>2, <2>3
    <2>5. a.v = V(k) /\ Cells(type, a.v) = C(k) /\ rd = get[k - 1]
      BY DEF a, rd, type
    <2> HIDE DEF V, C, get
    <2> QED BY <2>3, <2>4, <2>5
  <1>6. \A k \in 0 .. n : get[k].v \in Seq(Seq(Nat)) /\ get[k].u \in NatReader
    BY <1>3 DEF ReadsOf
  <1>7. get[0].u = u /\ get[0].v = <<>>
    BY <1>3
  <1>8. okdone(get[n].u) /\ p.args = get[n].v
    BY <1>4
  <1> HIDE DEF get, V, C
  <1>9. ASSUME NEW k \in 0 .. n PROVE get[k].u.ok
    <2> DEFINE T == {d \in 0 .. n : ~get[n - d].u.ok}
    <2>1. SUFFICES ASSUME T # {} PROVE FALSE
      <3>1. n - k \in 0 .. n /\ n - (n - k) = k
        BY <1>1
      <3> QED BY <3>1
    <2>2. PICK d \in T : \A y \in T : d <= y
      <3>1. T \in SUBSET Nat
        BY <1>1
      <3> HIDE DEF T
      <3> QED BY <2>1, <3>1, Least
    <2>3. d # 0
      BY <1>1, <1>8 DEF okdone
    <2>4. /\ d - 1 \in 0 .. n /\ ~(d <= d - 1) /\ n - (d - 1) \in 1 .. n
          /\ (n - (d - 1)) - 1 = n - d
      BY <1>1, <2>3
    <2>5. get[n - (d - 1)].u.ok
      BY <2>2, <2>4
    <2>6. get[(n - (d - 1)) - 1].u.ok
      BY <1>5, <2>4, <2>5
    <2> QED BY <2>4, <2>6
  <1> DEFINE Read(k) == Len(get[k].v) = k /\ \A j \in 1 .. k : get[k].v[j] = V(j)
  <1>10. Read(n)
    <2> DEFINE T == {k \in 0 .. n : ~Read(k)}
    <2>1. SUFFICES ASSUME T # {} PROVE FALSE
      <3>1. n \in 0 .. n
        BY <1>1
      <3> QED BY <3>1
    <2>2. PICK k \in T : \A y \in T : k <= y
      <3>1. T \in SUBSET Nat
        BY <1>1
      <3> HIDE DEF T
      <3> QED BY <2>1, <3>1, Least
    <2>3. k # 0
      BY <1>7
    <2>4. k \in 1 .. n /\ k - 1 \in 0 .. n /\ ~(k <= k - 1) /\ (k - 1) + 1 = k
      BY <1>1, <2>3
    <2>5. Read(k - 1)
      BY <2>2, <2>4
    <2> DEFINE a == get[k - 1].v
               b == get[k].v
    <2>6. a \in Seq(Seq(Nat)) /\ V(k) \in Seq(Nat) /\ b = Append(a, V(k)) /\ Len(a) = k - 1
      BY <1>5, <1>6, <2>4, <2>5
    <2>7. \A j \in 1 .. k - 1 : a[j] = V(j)
      BY <2>5
    <2> HIDE DEF a, b
    <2>8. /\ Len(b) = (k - 1) + 1 /\ b[(k - 1) + 1] = V(k)
          /\ \A j \in 1 .. k - 1 : b[j] = a[j]
      BY <2>6
    <2>9. \A j \in 1 .. k : j # k => j \in 1 .. k - 1
      BY <2>4
    <2>10. Len(b) = k /\ \A j \in 1 .. k : b[j] = V(j)
      BY <2>4, <2>7, <2>8, <2>9
    <2> QED BY <2>10 DEF b
  <1>11. WellTyped(p) /\ Len(p.args) = n /\ \A k \in 1 .. n : p.args[k] = V(k)
    <2>1. get[n].v \in Seq(Seq(Nat))
      BY <1>1, <1>6
    <2> QED BY <1>8, <1>10, <2>1 DEF WellTyped
  <1> DEFINE B(k) == marshalled(p)[k].buf
             Same(k) == /\ Len(B(k)) = get[k].u.ind
                        /\ \A i \in 1 .. Len(B(k)) : B(k)[i] = IF i <= 6 THEN 0 ELSE u.buf[i]
  <1>12. Same(0)
    <2>1. marshalled(p)[0] = marshall
      BY <1>11, MarshalledDef
    <2>2. get[0].u.ind = 6
      BY <1>7, HeaderSize DEF ReaderOf
    <2> QED BY <2>1, <2>2, Empty
  <1>13. ASSUME NEW k \in 1 .. n, Same(k - 1) PROVE Same(k)
    <2> DEFINE a == B(k - 1)
               b == B(k)
               c == C(k)
               d == get[k - 1].u.ind
    <2>1. /\ a \in Seq(Nat) /\ c \in Seq(Nat) /\ Len(b) = Len(a) + Len(c)
          /\ \A i \in 1 .. Len(a) : b[i] = a[i]
          /\ \A i \in 1 .. Len(c) : b[Len(a) + i] = c[i]
      <3>1. Cells(p.types[k], p.args[k]) = c
        BY <1>11 DEF C
      <3>2. k \in 1 .. Len(p.args)
        BY <1>11
      <3>3. WellTyped(p)
        BY <1>11
      <3>4. Extended(a, b, Cells(p.types[k], p.args[k]))
        BY <3>2, <3>3, MarshalledStep
      <3> HIDE DEF c, a, b
      <3> QED BY <3>1, <3>4 DEF Extended
    <2>2. k \in 0 .. n /\ k - 1 \in 0 .. n
      BY <1>1
    <2>3. get[k].u.ind = d + Len(c) /\ Follows(u.buf, d, c)
      BY <1>5, <1>9, <2>2
    <2>4. Len(a) = d /\ \A i \in 1 .. Len(a) : a[i] = IF i <= 6 THEN 0 ELSE u.buf[i]
      BY <1>13
    <2>5. d \in Nat /\ 6 <= d
      <3>1. marshalled(p)[k - 1] \in NatWriter
        BY <1>11, <2>2, MarshalledDef
      <3> QED BY <2>4, <3>1, HeaderSize, SMTT(40) DEF NatWriter
    <2>6. Len(c) \in Nat
      BY <2>1
    <2> HIDE DEF a, b, c, d
    <2>7. Len(b) = get[k].u.ind
      BY <2>1, <2>3, <2>4
    <2>8. ASSUME NEW i \in 1 .. Len(b) PROVE b[i] = IF i <= 6 THEN 0 ELSE u.buf[i]
      <3>1. CASE i <= d
        <4>1. i \in 1 .. Len(a)
          BY <2>4, <2>5, <3>1
        <4> QED BY <2>1, <2>4, <4>1
      <3>2. CASE ~(i <= d)
        <4> DEFINE j == i - d
        <4>1. Len(b) = d + Len(c)
          BY <2>1, <2>4
        <4>2. j \in 1 .. Len(c) /\ d + j = i /\ ~(i <= 6)
          BY <2>5, <2>6, <3>2, <4>1
        <4> HIDE DEF j
        <4>3. b[d + j] = c[j] /\ u.buf[d + j] = c[j]
          BY <2>1, <2>3, <2>4, <4>2 DEF Follows
        <4> QED BY <4>2, <4>3
      <3> QED BY <3>1, <3>2
    <2> QED BY <2>7, <2>8 DEF b
  <1>14. Same(n)
    <2> DEFINE T == {k \in 0 .. n : ~Same(k)}
    <2> HIDE DEF Same
    <2>1. SUFFICES ASSUME T # {} PROVE FALSE
      <3>1. n \in 0 .. n
        BY <1>1
      <3> QED BY <3>1
    <2>2. PICK k \in T : \A y \in T : k <= y
      <3>1. T \in SUBSET Nat
        BY <1>1
      <3> HIDE DEF T
      <3> QED BY <2>1, <3>1, Least
    <2>3. k # 0
      BY <1>12
    <2>4. k \in 1 .. n /\ k - 1 \in 0 .. n /\ ~(k <= k - 1)
      BY <1>1, <2>3
    <2> QED BY <1>13, <2>2, <2>4
  <1> DEFINE body == marshal_args(q).buf
             mine == marshal_args(p).buf
  <1>15. mine = B(n)
    BY <1>11 DEF marshal_args
  <1>16. marshal_args(p) \in NatWriter /\ marshal_args(q) \in NatWriter
    <2>1. ASSUME NEW m, WellTyped(m) PROVE marshal_args(m) \in NatWriter
      <3>1. Len(m.args) \in 0 .. Len(m.args)
        BY <2>1 DEF WellTyped
      <3> QED BY <2>1, <3>1, MarshalledDef DEF marshal_args
    <2> QED BY <1>11, <2>1
  <1>17. mine \in Seq(Nat) /\ body \in Seq(Nat)
    BY <1>16 DEF NatWriter
  <1>18. /\ Len(mine) = Len(u.buf)
         /\ \A i \in 1 .. Len(mine) : mine[i] = IF i <= 6 THEN 0 ELSE u.buf[i]
    <2>1. get[n].u.ind = Len(get[n].u.buf) /\ get[n].u.buf = u.buf
      <3>1. get[n] \in ReadsOf(u)
        BY <1>1, <1>3
      <3> QED BY <1>8, <3>1 DEF okdone, ReadsOf
    <2> HIDE DEF B, mine
    <2> QED BY <1>14, <1>15, <2>1
  <1>19. Len(body) = Len(u.buf) /\ \A i \in 1 .. Len(body) : i > 6 => u.buf[i] = body[i]
    BY HeaderSize DEF ReaderOf
  <1>20. \A i \in 1 .. 6 : body[i] = 0
    <2>1. Prefix(marshalled(q)[0].buf, body)
      <3>1. 0 \in 0 .. Len(q.args)
        BY DEF WellTyped
      <3> QED BY <3>1, MarshalledPrefix
    <2>2. marshalled(q)[0] = marshall
      BY MarshalledDef
    <2> HIDE DEF body
    <2> QED BY <2>1, <2>2, Empty DEF Prefix
  <1>21. mine = body
    <2> HIDE DEF mine, body
    <2>1. ASSUME NEW i \in 1 .. Len(mine) PROVE mine[i] = body[i]
      <3>1. i \in 1 .. Len(body) /\ (i <= 6 => i \in 1 .. 6) /\ (~(i <= 6) => i > 6)
        <4>1. Len(mine) = Len(body) /\ Len(body) \in Nat
          BY <1>17, <1>18, <1>19
        <4> QED BY <4>1
      <3> QED BY <1>18, <1>19, <1>20, <3>1
    <2> QED BY <1>17, <1>18, <1>19, <2>1, SeqEqual
  <1>22. \A m \in NatWriter : m = [buf |-> m.buf, ind |-> Len(m.buf)]
    BY DEF NatWriter, Writer
  <1> HIDE DEF mine, body
  <1>23. marshal_args(p) = marshal_args(q)
    BY <1>16, <1>21, <1>22 DEF mine, body
  <1> QED BY <1>11, <1>23
-----------------------------------------------------------------------------
(* The request of call q under xid x, and what the server reads from it.   *)
ReqHead(q, x) == [xid |-> x, proc |-> q.proc, clt_nonce |-> 1, srv_nonce |-> 1, xid_rep |-> x - 1]
Request(q, x) == take_buf(pack_req_header(marshal_args(q), ReqHead(q, x)))
Reading(q, x) == [buf |-> Request(q, x), ind |-> RPC_HEADER_SZ, ok |-> TRUE]
Given(q, x) == unmarshal_args(Reading(q, x), Procs[q.proc].args)
Runs(q, x) == okdone(Given(q, x).u)

(* The reply to a request that does not fit, and that of a method's run.   *)
ReplyMsg(rep, x, ret) == take_buf(pack_reply_header(rep, [xid |-> x, ret |-> ret]))
Failure(x) == ReplyMsg(marshall, x, unmarshal_args_failure)
Result(q, e) == ReplyMsg(put_value(marshall, Procs[q.proc].ret, e.r), e.xid, e.b)

(* The inductive invariant.  A request under way has not been run yet; a   *)
(* method was run on what its request held, once, and only if that fits,   *)
(* which depends on the request alone; a reply is that of a run, or the    *)
(* failure of a request that does not fit.                                 *)
CallsInv == \A c \in Callers : calls_[c] # NoCall =>
               /\ calls_[c].q = sent[calls_[c].xid]
               /\ \A d \in Callers : c # d => calls_[d].xid # calls_[c].xid
RequestsInv == \A msg \in requests : \E x \in 1 .. xid_ :
                  msg = Request(sent[x], x) /\ \A e \in ran : e.xid # x
RanInv == \A e \in ran : LET q == sent[e.xid]
                         IN /\ Runs(q, e.xid) /\ e.args = Given(q, e.xid).v
                            /\ e.r \in Results[Procs[q.proc].ret]
                            /\ \A f \in ran : e.xid = f.xid => e = f
RepliesInv == \A msg \in replies : \E x \in 1 .. xid_ :
                 \/ msg = Failure(x) /\ ~Runs(sent[x], x)
                 \/ \E e \in ran : e.xid = x /\ msg = Result(sent[x], e)
AnswersInv == \A c \in Callers : LET a == answer[c] IN
                 a.xid # 0 =>
                   /\ a.ret >= 0 /\ SameRet(sent[a.xid]) =>
                         \E e \in ran : e.xid = a.xid /\ e.b = a.ret /\ e.r = a.r
                   /\ a.ret = unmarshal_args_failure => ~Runs(sent[a.xid], a.xid)
Inv == /\ TypeOK /\ CallsInv /\ RequestsInv /\ RanInv /\ RepliesInv
       /\ AnswersInv /\ OnlyWrongResultAborts
-----------------------------------------------------------------------------
(* What the assumptions say of a call.                                     *)
LEMMA CallTyped ==
    ASSUME NEW q \in Calls
    PROVE  /\ WellTyped(q) /\ q.ret \in Types
           /\ q.proc \in DOMAIN Procs /\ q.proc \in Nat
           /\ Procs[q.proc].args \in Seq(Types) /\ Procs[q.proc].ret \in Types
           /\ \A k \in 1 .. Len(q.args) : q.args[k] \in ValuesOf(q.types[k])
           /\ marshal_args(q) \in NatWriter
  <1>1. q \in [proc : DOMAIN Procs, types : Seq(Types), args : Seq(Seq(Nat)), ret : Types]
    BY CallsAssumption
  <1>2. /\ Len(q.types) = Len(q.args)
        /\ \A k \in 1 .. Len(q.args) : q.args[k] \in ValuesOf(q.types[k])
    BY CallsAssumption
  <1>3. q.proc \in DOMAIN Procs /\ q.ret \in Types /\ WellTyped(q)
    BY <1>1, <1>2 DEF WellTyped
  <1>4. q.proc \in Nat /\ Procs[q.proc].args \in Seq(Types) /\ Procs[q.proc].ret \in Types
    BY <1>3, ProcsAssumption
  <1>5. Len(q.args) \in 0 .. Len(q.args)
    BY <1>3 DEF WellTyped
  <1>6. marshal_args(q) \in NatWriter
    BY <1>3, <1>5, MarshalledDef DEF marshal_args
  <1> QED BY <1>2, <1>3, <1>4, <1>6

(* The server reads the header of a request as it was written, and is left *)
(* before the arguments.                                                   *)
LEMMA RequestRead ==
    ASSUME NEW q \in Calls, NEW x \in Nat \ {0}
    PROVE  /\ Request(q, x) \in Seq(Int)
           /\ unpack_req_header(unmarshall(Request(q, x)))
                = [u |-> Reading(q, x), h |-> ReqHead(q, x)]
           /\ ReaderOf(Reading(q, x), q)
  <1> DEFINE m == marshal_args(q)
             h == ReqHead(q, x)
             msg == Request(q, x)
             r == Reading(q, x)
  <1>1. m \in NatWriter /\ q.proc \in Nat
    BY CallTyped
  <1>2. AtEnd(m) /\ RPC_HEADER_SZ <= Len(m.buf) /\ m.buf \in Seq(Nat)
    BY <1>1 DEF NatWriter, AtEnd
  <1>3. x \in Int /\ q.proc \in Int /\ x - 1 \in Int /\ x - 1 \in Nat
    BY <1>1
  <1> HIDE DEF m
  <1>4. /\ msg \in Seq(Int) /\ Len(msg) = Len(m.buf)
        /\ \A k \in 1 .. Len(msg) : k > RPC_HEADER_SZ => msg[k] = m.buf[k]
        /\ m.buf \in Seq(Nat) /\ <<x, q.proc, 1, 1, x - 1>> \in Seq(Nat) => msg \in Seq(Nat)
        /\ unpack_req_header(unmarshall(msg)) = [u |-> r, h |-> h]
    <2> DEFINE w == take_buf(pack_req_header(m, h))
    <2>1. h \in [xid : Int, proc : Int, clt_nonce : Int, srv_nonce : Int, xid_rep : Int]
      BY <1>3 DEF ReqHead
    <2>4. <<h.xid, h.proc, h.clt_nonce, h.srv_nonce, h.xid_rep>> = <<x, q.proc, 1, 1, x - 1>>
      BY DEF ReqHead
    <2> HIDE DEF h
    <2>5. /\ Headed(w, m, <<h.xid, h.proc, h.clt_nonce, h.srv_nonce, h.xid_rep>>)
          /\ unpack_req_header(unmarshall(w))
               = [u |-> [buf |-> w, ind |-> RPC_HEADER_SZ, ok |-> TRUE], h |-> h]
      BY <1>2, <2>1, ReqHeader
    <2>2. msg = w
      BY DEF Request, m, h
    <2>3. r = [buf |-> msg, ind |-> RPC_HEADER_SZ, ok |-> TRUE]
      BY DEF Reading
    <2> HIDE DEF w, msg, r
    <2> QED BY <2>2, <2>3, <2>4, <2>5 DEF Headed
  <1>5. <<x, q.proc, 1, 1, x - 1>> \in Seq(Nat)
    BY <1>1, <1>3
  <1>6. msg \in Seq(Nat)
    BY <1>2, <1>4, <1>5
  <1>7. r.buf = msg /\ r.ind = RPC_HEADER_SZ /\ r.ok = TRUE
    BY DEF Reading
  <1>8. r \in Reader
    BY <1>4, HeaderSize DEF Reader, Reading
  <1> HIDE DEF msg, r
  <1>9. ReaderOf(r, q)
    <2>1. RPC_HEADER_SZ <= Len(msg)
      BY <1>2, <1>4
    <2>2. r \in NatReader
      BY <1>6, <1>7, <1>8, <2>1 DEF NatReader
    <2> QED BY <1>4, <1>7, <2>2 DEF ReaderOf, m
  <1> QED BY <1>4, <1>9 DEF msg, r

(* What a method is given.                                                 *)
LEMMA MethodArguments ==
    ASSUME NEW q \in Calls, NEW x \in Nat \ {0}, Runs(q, x)
    PROVE  LET v == Given(q, x).v
           IN /\ v \in Seq(Seq(Nat))
              /\ SameArgs(q) => v = q.args
              /\ marshal_args(q)
                   = marshal_args([q EXCEPT !.types = Procs[q.proc].args, !.args = v])
  <1> DEFINE types == Procs[q.proc].args
             u == Reading(q, x)
             v == Given(q, x).v
             p == [q EXCEPT !.types = types, !.args = v]
  <1>1. WellTyped(q) /\ types \in Seq(Types) /\ ReaderOf(u, q)
    BY CallTyped, RequestRead
  <1>2. v = unmarshal_args(u, types).v /\ okdone(unmarshal_args(u, types).u)
    BY DEF Given, Runs
  <1>3. p.types = types /\ p.args = v
    <2>1. q \in [proc : DOMAIN Procs, types : Seq(Types), args : Seq(Seq(Nat)), ret : Types]
      BY CallsAssumption
    <2> HIDE DEF types, v
    <2> QED BY <2>1
  <1>4. SameArgs(q) => v = q.args
    <2>1. \A k \in 1 .. Len(q.args) : q.args[k] \in ValuesOf(q.types[k])
      BY CallTyped
    <2> HIDE DEF u, v, types
    <2>2. unmarshal_args(u, q.types).v = q.args
      BY <1>1, <2>1, ArgsRoundTrip
    <2>3. SameArgs(q) => q.types = types
      BY DEF SameArgs, types
    <2> QED BY <1>2, <2>2, <2>3
  <1>5. WellTyped(p) /\ marshal_args(p) = marshal_args(q)
    <2> HIDE DEF u, v, types, p
    <2>1. p.args = unmarshal_args(u, types).v
      BY <1>2, <1>3
    <2> QED BY <1>1, <1>2, <1>3, <2>1, ArgsConsumed
  <1>6. v \in Seq(Seq(Nat))
    <2> HIDE DEF v, p, types
    <2> QED BY <1>3, <1>5 DEF WellTyped
  <1> QED BY <1>4, <1>5, <1>6

(* The client reads the header of a reply as it was written.               *)
LEMMA ReplyRead ==
    ASSUME NEW m \in NatWriter, NEW x \in Nat, NEW ret \in Int
    PROVE  LET msg == ReplyMsg(m, x, ret)
           IN /\ Headed(msg, m, <<x, ret>>)
              /\ unpack_reply_header(unmarshall(msg))
                   = [u |-> [buf |-> msg, ind |-> RPC_HEADER_SZ, ok |-> TRUE],
                      h |-> [xid |-> x, ret |-> ret]]
  <1> DEFINE h == [xid |-> x, ret |-> ret]
             msg == take_buf(pack_reply_header(m, h))
  <1>1. AtEnd(m) /\ RPC_HEADER_SZ <= Len(m.buf)
    BY DEF NatWriter, AtEnd
  <1>2. h \in [xid : Int, ret : Int] /\ <<h.xid, h.ret>> = <<x, ret>>
    OBVIOUS
  <1>3. ReplyMsg(m, x, ret) = msg
    BY DEF ReplyMsg
  <1> HIDE DEF h
  <1>4. /\ Headed(msg, m, <<h.xid, h.ret>>)
        /\ unpack_reply_header(unmarshall(msg))
             = [u |-> [buf |-> msg, ind |-> RPC_HEADER_SZ, ok |-> TRUE], h |-> h]
    BY <1>1, <1>2, ReplyHeader
  <1> HIDE DEF msg
  <1> QED BY <1>2, <1>3, <1>4 DEF h

(* A result is read back with its own type, to the end of the message.     *)
LEMMA ResultRead ==
    ASSUME NEW type \in Types, NEW r \in ValuesOf(type), NEW x \in Nat, NEW b \in Nat,
           NEW msg, msg = ReplyMsg(put_value(marshall, type, r), x, b)
    PROVE  LET rp == unpack_reply_header(unmarshall(msg))
           IN /\ msg \in Seq(Int)
              /\ rp.h = [xid |-> x, ret |-> b]
              /\ \A t \in Types : get_value(rp.u, t).v \in Seq(Nat)
              /\ get_value(rp.u, type).v = r
              /\ okdone(get_value(rp.u, type).u)
  <1> DEFINE m == put_value(marshall, type, r)
             c == Cells(type, r)
             rp == unpack_reply_header(unmarshall(msg))
             w == [buf |-> msg, ind |-> RPC_HEADER_SZ, ok |-> TRUE]
  <1>1. r \in Seq(Nat)
    BY DEF ValuesOf
  <1>2. m \in NatWriter /\ m = [buf |-> marshall.buf \o c, ind |-> Len(marshall.buf) + Len(c)]
    <2>1. marshall \in NatWriter
      BY Empty
    <2> QED BY <1>1, <2>1, PutNat
  <1>3. c \in Seq(Nat) /\ marshall.buf \in Seq(Nat) /\ Len(marshall.buf) = 6
    BY <1>1, CellsTyped, Empty DEF NatWriter
  <1> DEFINE z == marshall.buf
             mb == m.buf
  <1>4. mb = z \o c /\ mb \in Seq(Nat)
    <2> HIDE DEF m
    <2> QED BY <1>2 DEF NatWriter
  <1>5. Headed(msg, m, <<x, b>>) /\ rp = [u |-> w, h |-> [xid |-> x, ret |-> b]]
    <2>1. msg = ReplyMsg(m, x, b)
      OBVIOUS
    <2> HIDE DEF m
    <2> DEFINE ms == ReplyMsg(m, x, b)
    <2>2. b \in Int /\ m \in NatWriter
      BY <1>2
    <2>3. /\ Headed(ms, m, <<x, b>>)
          /\ unpack_reply_header(unmarshall(ms))
               = [u |-> [buf |-> ms, ind |-> RPC_HEADER_SZ, ok |-> TRUE],
                  h |-> [xid |-> x, ret |-> b]]
      BY <2>2, ReplyRead
    <2> HIDE DEF ms
    <2>4. ms = msg
      BY <2>1 DEF ms
    <2> QED BY <2>3, <2>4
  <1>6. msg \in Seq(Nat) /\ msg \in Seq(Int) /\ Len(msg) = Len(mb)
    <2>1. <<x, b>> \in Seq(Nat)
      OBVIOUS
    <2> HIDE DEF m
    <2> QED BY <1>4, <1>5, <2>1 DEF Headed
  <1>7. \A k \in 1 .. Len(msg) : k > 6 => msg[k] = mb[k]
    BY <1>5, HeaderSize DEF Headed
  <1> HIDE DEF m, mb, z, c
  <1>8. Len(mb) = 6 + Len(c) /\ Len(c) \in Nat /\ \A i \in 1 .. Len(c) : mb[6 + i] = c[i]
    <2>1. Len(z) = 6 /\ z \in Seq(Nat)
      BY <1>3 DEF z
    <2>2. /\ Len(z \o c) = Len(z) + Len(c) /\ Len(c) \in Nat
          /\ \A i \in 1 .. Len(c) : (z \o c)[Len(z) + i] = c[i]
      <3>1. z \in Seq(Int) /\ c \in Seq(Int) /\ Len(c) \in Nat
        BY <1>3, <2>1
      <3> QED BY <3>1, ConcatAt
    <2> QED BY <1>4, <2>1, <2>2
  <1>9. Follows(msg, 6, c)
    <2>1. ASSUME NEW i \in 1 .. Len(c) PROVE msg[6 + i] = c[i]
      <3>1. 6 + i \in 1 .. Len(msg) /\ 6 + i > 6
        BY <1>6, <1>8
      <3> QED BY <1>7, <1>8, <3>1
    <2>2. 6 + Len(c) <= Len(msg)
      BY <1>6, <1>8
    <2> QED BY <2>1, <2>2 DEF Follows
  <1>10. w \in Reader /\ w.ok /\ w.buf = msg /\ w.ind = 6
    BY <1>6, HeaderSize DEF Reader
  <1>11. rp.u = w /\ rp.h = [xid |-> x, ret |-> b]
    <2> HIDE DEF rp, w
    <2> QED BY <1>5
  <1> HIDE DEF rp, w
  <1>12. \A t \in Types : get_value(w, t).v \in Seq(Nat)
    <2>1. w.ind <= Len(w.buf) /\ w.buf \in Seq(Nat)
      BY <1>6, <1>8, <1>10
    <2> QED BY <1>10, <2>1, GetValueOk
  <1>13. /\ get_value(w, type).v = r
         /\ get_value(w, type).u = [buf |-> w.buf, ind |-> w.ind + Len(c), ok |-> TRUE]
    <2>1. Follows(w.buf, w.ind, Cells(type, r))
      BY <1>9, <1>10 DEF c
    <2> QED BY <1>10, <2>1, GetValue DEF c
  <1>14. okdone(get_value(w, type).u)
    BY <1>6, <1>8, <1>10, <1>13 DEF okdone
  <1> QED BY <1>6, <1>11, <1>12, <1>13, <1>14 DEF rp
-----------------------------------------------------------------------------
(* No call has been made.                                                  *)
LEMMA InitInv == Init => Inv
  <1> SUFFICES ASSUME Init PROVE Inv
    OBVIOUS
  <1>1. TypeOK
    <2>1. NoAnswer \in [xid : 0 .. 0, ret : Int, r : Seq(Nat)]
      BY DEF NoAnswer
    <2>2. sent \in Seq(Calls) /\ Len(sent) = xid_ /\ xid_ = 0 /\ xid_ \in 0 .. MaxXid
      BY ProcsAssumption DEF Init
    <2> QED BY <2>1, <2>2 DEF Init, TypeOK
  <1>2. CallsInv /\ RequestsInv /\ RanInv /\ RepliesInv /\ OnlyWrongResultAborts
    BY DEF Init, CallsInv, RequestsInv, RanInv, RepliesInv, OnlyWrongResultAborts
  <1>3. AnswersInv
    BY DEF Init, AnswersInv, NoAnswer
  <1> QED BY <1>1, <1>2, <1>3 DEF Inv

(* The call of each xid stays what it was; a new one is added.             *)
LEMMA CallStep ==
    ASSUME Inv, NEW c \in Callers, NEW q \in Calls, call(c, q)
    PROVE  Inv'
  <1> DEFINE x == xid_ + 1
  <1>1. /\ xid_ \in Nat /\ xid_ < MaxXid /\ xid_' = x /\ x \in Nat \ {0} /\ x - 1 = xid_
        /\ x \in 1 .. x /\ x \notin 1 .. xid_
        /\ \A y \in 1 .. xid_ : y \in 1 .. x
        /\ \A y \in 1 .. x : y # x => y \in 1 .. xid_
    <2>1. xid_ \in Nat /\ xid_ < MaxXid /\ xid_' = x
      BY ProcsAssumption DEF Inv, TypeOK, call, call1
    <2> QED BY <2>1
  <1>2. /\ calls_' = [calls_ EXCEPT ![c] = [xid |-> x, q |-> q]]
        /\ requests' = requests \cup {Request(q, x)}
        /\ sent' = Append(sent, q)
        /\ UNCHANGED <<replies, answer, aborted, ran>>
    BY <1>1 DEF call, call1, Request, ReqHead
  <1> HIDE DEF x
  <1>3. sent' \in Seq(Calls) /\ Len(sent') = x
    BY <1>2 DEF Inv, TypeOK, x
  <1>4. sent'[x] = q /\ \A y \in 1 .. xid_ : sent'[y] = sent[y]
    BY <1>2 DEF Inv, TypeOK, x
  <1>5. /\ calls_ \in [Callers -> {NoCall} \cup [xid : 1 .. xid_, q : Calls]]
        /\ answer \in [Callers -> [xid : 0 .. xid_, ret : Int, r : Seq(Nat)]]
        /\ ran \subseteq [xid : 1 .. xid_, args : Seq(Seq(Nat)), b : Statuses, r : Seq(Nat)]
        /\ aborted \subseteq 1 .. xid_
        /\ requests \cup replies \subseteq Seq(Int)
    BY DEF Inv, TypeOK
  <1>6. \A d \in Callers : d # c => calls_'[d] = calls_[d]
    BY <1>2, <1>5
  <1>7. calls_'[c] = [xid |-> x, q |-> q]
    BY <1>2, <1>5
  <1>8. \A d \in Callers : calls_[d] # NoCall => calls_[d].xid \in 1 .. xid_
    BY <1>5
  <1>9. \A d \in Callers : calls_[d].xid # x
    <2>1. NoCall.xid # x
      BY <1>1 DEF NoCall
    <2> QED BY <1>1, <1>8, <2>1
  <1>10. TypeOK'
    <2>1. x \in 0 .. MaxXid
      BY <1>1, ProcsAssumption DEF x
    <2>2. calls_' \in [Callers -> {NoCall} \cup [xid : 1 .. x, q : Calls]]
      BY <1>1, <1>2, <1>5
    <2>3. answer' \in [Callers -> [xid : 0 .. x, ret : Int, r : Seq(Nat)]]
      <3>1. \A y \in 0 .. xid_ : y \in 0 .. x
        BY <1>1 DEF x
      <3> QED BY <1>2, <1>5, <3>1
    <2>4. ran' \subseteq [xid : 1 .. x, args : Seq(Seq(Nat)), b : Statuses, r : Seq(Nat)]
      BY <1>1, <1>2, <1>5
    <2>5. aborted' \subseteq 1 .. x
      BY <1>1, <1>2, <1>5
    <2>6. requests' \cup replies' \subseteq Seq(Int)
      BY <1>1, <1>2, <1>5, RequestRead
    <2>7. \A d, e \in Callers : calls_'[d] # NoCall /\ d # e => calls_'[d] # calls_'[e]
      <3>1. [xid |-> x, q |-> q].xid = x
        OBVIOUS
      <3>2. \A d \in Callers : calls_[d] # [xid |-> x, q |-> q]
        BY <1>9, <3>1
      <3>3. \A d, e \in Callers : calls_[d] # NoCall /\ d # e => calls_[d] # calls_[e]
        BY DEF Inv, TypeOK
      <3> QED BY <1>6, <1>7, <3>2, <3>3
    <2> QED BY <1>1, <1>3, <2>1, <2>2, <2>3, <2>4, <2>5, <2>6, <2>7 DEF TypeOK
  <1>11. CallsInv'
    <2>1. ASSUME NEW d \in Callers, calls_'[d] # NoCall
          PROVE  /\ calls_'[d].q = sent'[calls_'[d].xid]
                 /\ \A e \in Callers : d # e => calls_'[e].xid # calls_'[d].xid
      <3>1. CASE d = c
        BY <1>4, <1>6, <1>7, <1>9, <3>1
      <3>2. CASE d # c
        <4>1. calls_'[d] = calls_[d] /\ calls_[d].xid \in 1 .. xid_
          BY <1>6, <1>8, <2>1, <3>2
        <4>2. /\ calls_[d].q = sent[calls_[d].xid]
              /\ \A e \in Callers : d # e => calls_[e].xid # calls_[d].xid
          BY <2>1, <4>1 DEF Inv, CallsInv
        <4>3. calls_'[d].q = sent'[calls_'[d].xid]
          BY <1>4, <4>1, <4>2
        <4>4. calls_'[c].xid # calls_[d].xid
          BY <1>7, <1>9
        <4> QED BY <1>6, <4>1, <4>2, <4>3, <4>4
      <3> QED BY <3>1, <3>2
    <2> QED BY <2>1 DEF CallsInv
  <1>12. RequestsInv'
    <2>1. ASSUME NEW msg \in requests'
          PROVE  \E y \in 1 .. x : msg = Request(sent'[y], y) /\ \A e \in ran : e.xid # y
      <3>1. CASE msg \in requests
        <4>1. PICK y \in 1 .. xid_ : msg = Request(sent[y], y) /\ \A e \in ran : e.xid # y
          BY <3>1 DEF Inv, RequestsInv
        <4>2. y \in 1 .. x /\ sent'[y] = sent[y]
          BY <1>1, <1>4
        <4> QED BY <4>1, <4>2
      <3>2. CASE msg = Request(q, x)
        <4>1. \A e \in ran : e.xid # x
          BY <1>1, <1>5
        <4> QED BY <1>1, <1>4, <3>2, <4>1
      <3> QED BY <1>2, <3>1, <3>2
    <2> QED BY <1>1, <1>2, <2>1 DEF RequestsInv
  <1>13. \A e \in ran : e.xid \in 1 .. xid_ /\ sent'[e.xid] = sent[e.xid]
    BY <1>4, <1>5
  <1>14. RanInv'
    BY <1>2, <1>13 DEF Inv, RanInv
  <1>15. RepliesInv'
    <2>1. ASSUME NEW msg \in replies
          PROVE  \E y \in 1 .. x : \/ msg = Failure(y) /\ ~Runs(sent'[y], y)
                                   \/ \E e \in ran : e.xid = y /\ msg = Result(sent'[y], e)
      <3>1. PICK y \in 1 .. xid_ : \/ msg = Failure(y) /\ ~Runs(sent[y], y)
                                   \/ \E e \in ran : e.xid = y /\ msg = Result(sent[y], e)
        BY DEF Inv, RepliesInv
      <3>2. y \in 1 .. x /\ sent'[y] = sent[y]
        BY <1>1, <1>4
      <3> QED BY <3>1, <3>2
    <2> QED BY <1>1, <1>2, <2>1 DEF RepliesInv
  <1>16. AnswersInv'
    <2>1. \A d \in Callers : answer[d].xid # 0 => answer[d].xid \in 1 .. xid_
      BY <1>1, <1>5
    <2>2. \A d \in Callers : answer[d].xid # 0 => sent'[answer[d].xid] = sent[answer[d].xid]
      BY <1>4, <2>1
    <2> QED BY <1>2, <2>2 DEF Inv, AnswersInv
  <1>17. OnlyWrongResultAborts'
    BY <1>2, <1>4, <1>5 DEF Inv, OnlyWrongResultAborts
  <1> QED BY <1>10, <1>11, <1>12, <1>14, <1>15, <1>16, <1>17 DEF Inv

(* A request is run on what it holds, or fails, and is gone.               *)
LEMMA DispatchStep ==
    ASSUME Inv, NEW msg \in requests, dispatch(msg)
    PROVE  Inv'
  <1>1. PICK x \in 1 .. xid_ : msg = Request(sent[x], x) /\ \A e \in ran : e.xid # x
    BY DEF Inv, RequestsInv
  <1>2. PICK q \in Calls : q = sent[x]
    BY DEF Inv, TypeOK
  <1>3. x \in Nat \ {0}
    BY DEF Inv, TypeOK
  <1> DEFINE type == Procs[q.proc].ret
             h == ReqHead(q, x)
             u == Reading(q, x)
  <1>4. unpack_req_header(unmarshall(msg)) = [u |-> u, h |-> h] /\ msg \in Seq(Int)
    BY <1>1, <1>2, <1>3, RequestRead
  <1>5. h.xid = x /\ h.proc = q.proc
    BY DEF ReqHead
  <1> DEFINE rq == unpack_req_header(unmarshall(msg))
  <1>6. rq.u = u /\ rq.h = h
    BY <1>4
  <1> HIDE DEF h, u, rq
  <1>7. /\ requests' = requests \ {msg}
        /\ UNCHANGED <<xid_, calls_, answer, aborted, sent>>
    BY DEF dispatch
  <1>8. PICK b \in Statuses, r \in Results[type] :
           LET f == fn(h, u, b, r)
           IN /\ replies' = replies \cup
                   {take_buf(pack_reply_header(f.rep, [xid |-> x, ret |-> f.ret]))}
              /\ ran' = ran \cup f.ran
    BY <1>5, <1>6 DEF dispatch, rq
  <1> DEFINE f == fn(h, u, b, r)
             e == [xid |-> x, args |-> Given(q, x).v, b |-> b, r |-> r]
  <1>9. /\ CallsInv' /\ OnlyWrongResultAborts'
        /\ calls_' = calls_ /\ xid_' = xid_ /\ sent' = sent /\ answer' = answer
        /\ aborted' = aborted
    BY <1>7 DEF Inv, CallsInv, OnlyWrongResultAborts
  <1>10. type \in Types /\ r \in ValuesOf(type) /\ r \in Seq(Nat) /\ b \in Nat /\ x \in Nat
    <2>1. q.proc \in DOMAIN Procs
      BY CallTyped
    <2>2. b \in Nat /\ type \in Types /\ r \in ValuesOf(type)
      BY <1>8, <2>1, ProcsAssumption
    <2> QED BY <1>3, <2>2 DEF ValuesOf
  <1>11. unmarshal_args(u, Procs[h.proc].args) = Given(q, x)
    BY <1>5 DEF Given, u
  <1>12. /\ x \in 1 .. xid_' /\ sent'[x] = q
         /\ \A y \in 1 .. xid_ : y \in 1 .. xid_' /\ sent'[y] = sent[y]
    BY <1>2, <1>9
  <1>13. CASE Runs(q, x)
    <2>1. f = [ret |-> b, rep |-> put_value(marshall, type, r), ran |-> {e}]
      BY <1>5, <1>11, <1>13 DEF fn, Runs
    <2>2. f.ret = b /\ f.rep = put_value(marshall, type, r) /\ f.ran = {e}
      BY <2>1
    <2>3. e.xid = x /\ e.args = Given(q, x).v /\ e.b = b /\ e.r = r
      OBVIOUS
    <2>4. e \in [xid : 1 .. xid_, args : Seq(Seq(Nat)), b : Statuses, r : Seq(Nat)]
      <3>1. Given(q, x).v \in Seq(Seq(Nat))
        BY <1>3, <1>13, MethodArguments
      <3> QED BY <1>10, <3>1
    <2> HIDE DEF f, e
    <2> DEFINE rep == Result(q, e)
    <2>5. ran' = ran \cup {e} /\ replies' = replies \cup {rep}
      BY <1>8, <2>2, <2>3 DEF Result, ReplyMsg, f
    <2>6. rep \in Seq(Int)
      <3>1. rep = ReplyMsg(put_value(marshall, type, r), x, b)
        BY <2>3 DEF Result
      <3> HIDE DEF rep, type
      <3> QED BY <1>10, <3>1, ResultRead
    <2> HIDE DEF rep
    <2>7. TypeOK'
      BY <1>7, <1>9, <2>4, <2>5, <2>6 DEF Inv, TypeOK
    <2>8. RequestsInv'
      <3>1. ASSUME NEW m \in requests'
            PROVE  \E y \in 1 .. xid_' : m = Request(sent'[y], y) /\ \A g \in ran' : g.xid # y
        <4>1. m \in requests /\ m # msg
          BY <1>7
        <4>2. PICK y \in 1 .. xid_ : m = Request(sent[y], y) /\ \A g \in ran : g.xid # y
          BY <4>1 DEF Inv, RequestsInv
        <4>3. y # x
          BY <1>1, <4>1, <4>2
        <4> QED BY <1>12, <2>3, <2>5, <4>2, <4>3
      <3> QED BY <3>1 DEF RequestsInv
    <2>9. RanInv'
      <3>1. ASSUME NEW g \in ran'
            PROVE  /\ Runs(sent'[g.xid], g.xid) /\ g.args = Given(sent'[g.xid], g.xid).v
                   /\ g.r \in Results[Procs[sent'[g.xid].proc].ret]
                   /\ \A d \in ran' : g.xid = d.xid => g = d
        <4>1. CASE g = e
          BY <1>1, <1>8, <1>12, <1>13, <2>3, <2>5, <4>1
        <4>2. CASE g \in ran
          <5>1. /\ Runs(sent[g.xid], g.xid) /\ g.args = Given(sent[g.xid], g.xid).v
                /\ g.r \in Results[Procs[sent[g.xid].proc].ret]
                /\ \A d \in ran : g.xid = d.xid => g = d
            BY <4>2 DEF Inv, RanInv
          <5>2. g.xid # e.xid
            BY <1>1, <2>3, <4>2
          <5> QED BY <1>9, <2>5, <5>1, <5>2
        <4> QED BY <2>5, <4>1, <4>2
      <3> QED BY <3>1 DEF RanInv
    <2>10. RepliesInv'
      <3>1. ASSUME NEW m \in replies'
            PROVE  \E y \in 1 .. xid_' :
                      \/ m = Failure(y) /\ ~Runs(sent'[y], y)
                      \/ \E g \in ran' : g.xid = y /\ m = Result(sent'[y], g)
        <4>1. CASE m = rep
          BY <1>12, <2>3, <2>5, <4>1 DEF rep
        <4>2. CASE m \in replies
          <5>1. PICK y \in 1 .. xid_ : \/ m = Failure(y) /\ ~Runs(sent[y], y)
                                       \/ \E g \in ran : g.xid = y /\ m = Result(sent[y], g)
            BY <4>2 DEF Inv, RepliesInv
          <5> QED BY <1>12, <2>5, <5>1
        <4> QED BY <2>5, <4>1, <4>2
      <3> QED BY <3>1 DEF RepliesInv
    <2>11. AnswersInv'
      BY <1>9, <2>5 DEF Inv, AnswersInv
    <2> QED BY <1>9, <2>7, <2>8, <2>9, <2>10, <2>11 DEF Inv
  <1>14. CASE ~Runs(q, x)
    <2>1. f = [ret |-> unmarshal_args_failure, rep |-> marshall, ran |-> {}]
      BY <1>11, <1>14 DEF fn, Runs
    <2>2. f.ret = unmarshal_args_failure /\ f.rep = marshall /\ f.ran = {}
      BY <2>1
    <2> HIDE DEF f
    <2>3. ran' = ran /\ replies' = replies \cup {Failure(x)}
      BY <1>8, <2>2 DEF Failure, ReplyMsg, f
    <2>4. Failure(x) \in Seq(Int)
      <3>1. marshall \in NatWriter /\ unmarshal_args_failure \in Int
        BY Empty DEF unmarshal_args_failure
      <3> QED BY <1>10, <3>1, ReplyRead DEF Failure, Headed
    <2>5. TypeOK'
      BY <1>7, <1>9, <2>3, <2>4 DEF Inv, TypeOK
    <2>6. RequestsInv'
      BY <1>7, <1>9, <2>3 DEF Inv, RequestsInv
    <2>7. RanInv' /\ AnswersInv'
      BY <1>9, <2>3 DEF Inv, RanInv, AnswersInv
    <2>8. RepliesInv'
      BY <1>2, <1>9, <1>14, <2>3 DEF Inv, RepliesInv
    <2> QED BY <1>9, <2>5, <2>6, <2>7, <2>8 DEF Inv
  <1> QED BY <1>13, <1>14

(* A call returns, with an answer of its own, or at the abort it is due.   *)
Returns(c, ret, r) ==
    LET x == calls_[c].xid
    IN /\ ret \in Int /\ r \in Seq(Nat)
       /\ answer' = [answer EXCEPT ![c] = [xid |-> x, ret |-> ret, r |-> r]]
       /\ aborted' = aborted
       /\ ret >= 0 /\ SameRet(sent[x]) => \E e \in ran : e.xid = x /\ e.b = ret /\ e.r = r
       /\ ret = unmarshal_args_failure => ~Runs(sent[x], x)
FailsVerify(c) == /\ aborted' = aborted \cup {calls_[c].xid} /\ answer' = answer
                  /\ ~SameRet(sent[calls_[c].xid])

LEMMA ReturnStep ==
    ASSUME Inv, NEW c \in Callers, calls_[c] # NoCall,
           calls_' = [calls_ EXCEPT ![c] = NoCall],
           replies' \subseteq replies, UNCHANGED <<xid_, requests, sent, ran>>,
           FailsVerify(c) \/ \E ret, r : Returns(c, ret, r)
    PROVE  Inv'
  <1> DEFINE x == calls_[c].xid
  <1>1. /\ calls_ \in [Callers -> {NoCall} \cup [xid : 1 .. xid_, q : Calls]]
        /\ answer \in [Callers -> [xid : 0 .. xid_, ret : Int, r : Seq(Nat)]]
        /\ aborted \subseteq 1 .. xid_ /\ xid_ \in Nat
    BY DEF Inv, TypeOK
  <1>2. x \in 1 .. xid_ /\ x \in 0 .. xid_
    BY <1>1
  <1>3. /\ calls_'[c] = NoCall /\ \A d \in Callers : d # c => calls_'[d] = calls_[d]
        /\ calls_' \in [Callers -> {NoCall} \cup [xid : 1 .. xid_, q : Calls]]
    BY <1>1
  <1>4. CallsInv'
    <2>1. ASSUME NEW d \in Callers, calls_'[d] # NoCall
          PROVE  /\ calls_'[d].q = sent'[calls_'[d].xid]
                 /\ \A e \in Callers : d # e => calls_'[e].xid # calls_'[d].xid
      <3>1. d # c /\ calls_'[d] = calls_[d] /\ calls_[d].xid \in 1 .. xid_
        BY <1>1, <1>3, <2>1
      <3>2. /\ calls_[d].q = sent[calls_[d].xid]
            /\ \A e \in Callers : d # e => calls_[e].xid # calls_[d].xid
        BY <2>1, <3>1 DEF Inv, CallsInv
      <3>3. NoCall.xid # calls_[d].xid
        BY <3>1 DEF NoCall
      <3> QED BY <1>3, <3>1, <3>2, <3>3
    <2> QED BY <2>1 DEF CallsInv
  <1>5. \A d, e \in Callers : calls_'[d] # NoCall /\ d # e => calls_'[d] # calls_'[e]
    BY <1>3 DEF Inv, TypeOK
  <1>6. RequestsInv' /\ RanInv' /\ RepliesInv'
    BY DEF Inv, RequestsInv, RanInv, RepliesInv
  <1>7. CASE FailsVerify(c)
    <2>1. TypeOK'
      BY <1>2, <1>3, <1>5, <1>7 DEF Inv, TypeOK, FailsVerify
    <2>2. AnswersInv' /\ OnlyWrongResultAborts'
      BY <1>7 DEF Inv, AnswersInv, OnlyWrongResultAborts, FailsVerify
    <2> QED BY <1>4, <1>6, <2>1, <2>2 DEF Inv
  <1>8. ASSUME NEW ret, NEW r, Returns(c, ret, r) PROVE Inv'
    <2> DEFINE a == [xid |-> x, ret |-> ret, r |-> r]
    <2>1. answer' = [answer EXCEPT ![c] = a] /\ aborted' = aborted
      BY <1>8 DEF Returns
    <2>2. a \in [xid : 0 .. xid_, ret : Int, r : Seq(Nat)]
      BY <1>2, <1>8 DEF Returns
    <2>3. a.xid = x /\ a.ret = ret /\ a.r = r
      OBVIOUS
    <2>4. /\ ret >= 0 /\ SameRet(sent[x]) => \E e \in ran : e.xid = x /\ e.b = ret /\ e.r = r
          /\ ret = unmarshal_args_failure => ~Runs(sent[x], x)
      BY <1>8 DEF Returns
    <2> HIDE DEF a, x
    <2>5. answer'[c] = a /\ \A d \in Callers : d # c => answer'[d] = answer[d]
      BY <1>1, <2>1
    <2>6. TypeOK'
      BY <1>1, <1>3, <1>5, <2>1, <2>2 DEF Inv, TypeOK
    <2>7. AnswersInv'
      <3>1. ASSUME NEW d \in Callers, answer'[d].xid # 0
            PROVE  LET w == answer'[d]
                   IN /\ w.ret >= 0 /\ SameRet(sent[w.xid]) =>
                            \E e \in ran : e.xid = w.xid /\ e.b = w.ret /\ e.r = w.r
                      /\ w.ret = unmarshal_args_failure => ~Runs(sent[w.xid], w.xid)
        <4>1. CASE d = c
          BY <2>3, <2>4, <2>5, <4>1
        <4>2. CASE d # c
          BY <2>5, <3>1, <4>2 DEF Inv, AnswersInv
        <4> QED BY <4>1, <4>2
      <3> QED BY <3>1 DEF AnswersInv
    <2>8. OnlyWrongResultAborts'
      BY <2>1 DEF Inv, OnlyWrongResultAborts
    <2> QED BY <1>4, <1>6, <2>6, <2>7, <2>8 DEF Inv
  <1> QED BY <1>7, <1>8

(* A reply under the caller's xid is the reply to its call.                *)
LEMMA GotPduStep ==
    ASSUME Inv, NEW c \in Callers, NEW msg \in replies, got_pdu(c, msg)
    PROVE  Inv'
  <1>1. PICK x : x = calls_[c].xid
    OBVIOUS
  <1>2. calls_[c] # NoCall /\ x \in 1 .. xid_ /\ x \in Nat \ {0} /\ xid_ \in Nat
    BY <1>1 DEF got_pdu, Inv, TypeOK
  <1>3. PICK q \in Calls : q = sent[x]
    BY <1>2 DEF Inv, TypeOK
  <1>4. calls_[c].q = q
    BY <1>1, <1>2, <1>3 DEF Inv, CallsInv
  <1> DEFINE rp == unpack_reply_header(unmarshall(msg))
             rd == get_value(rp.u, q.ret)
             ret == rp.h.ret
  <1>5. rp.h.xid = x /\ call_m(c, rp.u, ret)
    BY <1>1 DEF got_pdu
  <1>6. /\ calls_' = [calls_ EXCEPT ![c] = NoCall]
        /\ replies' \subseteq replies /\ UNCHANGED <<xid_, requests, sent, ran>>
    BY DEF got_pdu
  <1> DEFINE Answered(r) == /\ answer' = [answer EXCEPT ![c] = [xid |-> x, ret |-> ret, r |-> r]]
                            /\ aborted' = aborted
  <1>7. IF ret < 0 THEN Answered(<<>>)
        ELSE IF okdone(rd.u) THEN Answered(rd.v)
        ELSE aborted' = aborted \cup {x} /\ answer' = answer
    BY <1>1, <1>4, <1>5 DEF call_m
  <1>8. PICK y \in 1 .. xid_ : \/ msg = Failure(y) /\ ~Runs(sent[y], y)
                               \/ \E e \in ran : e.xid = y /\ msg = Result(sent[y], e)
    BY DEF Inv, RepliesInv
  <1>9. y \in Nat
    BY <1>2
  <1>10. CASE msg = Failure(y) /\ ~Runs(sent[y], y)
    <2>1. marshall \in NatWriter /\ unmarshal_args_failure \in Int
      BY Empty DEF unmarshal_args_failure
    <2>2. rp.h = [xid |-> y, ret |-> unmarshal_args_failure]
      <3> DEFINE ms == ReplyMsg(marshall, y, unmarshal_args_failure)
      <3>1. unpack_reply_header(unmarshall(ms))
              = [u |-> [buf |-> ms, ind |-> RPC_HEADER_SZ, ok |-> TRUE],
                 h |-> [xid |-> y, ret |-> unmarshal_args_failure]]
        BY <1>9, <2>1, ReplyRead
      <3>2. msg = ms
        BY <1>10 DEF Failure
      <3> HIDE DEF ms
      <3> QED BY <3>1, <3>2
    <2>3. x = y /\ ret = unmarshal_args_failure
      <3> HIDE DEF rp
      <3> QED BY <1>5, <2>2
    <2> HIDE DEF ret, rp, rd
    <2>4. Returns(c, ret, <<>>)
      <3>1. ret < 0 /\ ret \in Int /\ ~(ret >= 0)
        BY <2>3 DEF unmarshal_args_failure
      <3>2. Answered(<<>>)
        BY <1>7, <3>1
      <3>3. <<>> \in Seq(Nat)
        OBVIOUS
      <3> QED BY <1>1, <1>10, <2>3, <3>1, <3>2, <3>3 DEF Returns
    <2> QED BY <1>2, <1>6, <2>4, ReturnStep
  <1>11. CASE \E e \in ran : e.xid = y /\ msg = Result(sent[y], e)
    <2>1. PICK e \in ran : e.xid = y /\ msg = Result(sent[y], e)
      BY <1>11
    <2>2. PICK p \in Calls : p = sent[y]
      BY DEF Inv, TypeOK
    <2> DEFINE type == Procs[p.proc].ret
    <2>3. e.r \in Results[type] /\ e.b \in Statuses
      BY <2>1, <2>2 DEF Inv, RanInv, TypeOK
    <2>4. type \in Types /\ e.r \in ValuesOf(type) /\ e.b \in Nat
      <3>1. p.proc \in DOMAIN Procs
        BY CallTyped
      <3> QED BY <2>3, <3>1, ProcsAssumption
    <2>5. msg = ReplyMsg(put_value(marshall, type, e.r), y, e.b)
      BY <2>1, <2>2 DEF Result
    <2> HIDE DEF type
    <2>6. /\ rp.h = [xid |-> y, ret |-> e.b]
          /\ \A t \in Types : get_value(rp.u, t).v \in Seq(Nat)
          /\ get_value(rp.u, type).v = e.r
          /\ okdone(get_value(rp.u, type).u)
      BY <1>9, <2>4, <2>5, ResultRead
    <2> HIDE DEF rp
    <2>7. x = y /\ ret = e.b /\ p = q /\ ~(ret < 0) /\ ret \in Int /\ ret # unmarshal_args_failure
      <3>1. x = y /\ ret = e.b
        BY <1>5, <2>6
      <3> QED BY <1>3, <2>2, <2>4, <3>1 DEF unmarshal_args_failure
    <2>8. SameRet(q) => q.ret = type
      BY <2>7 DEF SameRet, type
    <2>9. rd.v \in Seq(Nat) /\ (SameRet(q) => rd.v = e.r /\ okdone(rd.u))
      <3>1. q.ret \in Types
        BY CallTyped
      <3> QED BY <2>6, <2>8, <3>1
    <2> HIDE DEF rd, ret
    <2>10. CASE okdone(rd.u)
      <3>1. Answered(rd.v)
        BY <1>7, <2>7, <2>10
      <3>2. Returns(c, ret, rd.v)
        BY <1>1, <1>3, <2>1, <2>7, <2>9, <3>1 DEF Returns
      <3> QED BY <1>2, <1>6, <3>2, ReturnStep
    <2>11. CASE ~okdone(rd.u)
      <3>1. FailsVerify(c)
        BY <1>1, <1>3, <1>7, <2>7, <2>9, <2>11 DEF FailsVerify
      <3> QED BY <1>2, <1>6, <3>1, ReturnStep
    <2> QED BY <2>10, <2>11
  <1> QED BY <1>8, <1>10, <1>11

(* A call that times out returns no result.                                *)
LEMMA GiveUpStep ==
    ASSUME Inv, NEW c \in Callers, give_up(c)
    PROVE  Inv'
  <1>1. timeout_failure < 0 /\ timeout_failure \in Int /\ ~(timeout_failure >= 0)
        /\ timeout_failure # unmarshal_args_failure
    BY DEF timeout_failure, unmarshal_args_failure
  <1>2. call_m(c, unmarshall(<<>>), timeout_failure)
    BY DEF give_up
  <1>3. <<>> \in Seq(Nat)
    OBVIOUS
  <1>4. Returns(c, timeout_failure, <<>>)
    BY <1>1, <1>2, <1>3 DEF call_m, Returns
  <1> QED BY <1>4, ReturnStep DEF give_up

(* The invariant holds initially and is kept by every step.                *)
LEMMA InvInductive == Spec => []Inv
  <1>1. Inv /\ [Next]_vars => Inv'
    <2> SUFFICES ASSUME Inv, [Next]_vars PROVE Inv'
      OBVIOUS
    <2>1. CASE UNCHANGED vars
      BY <2>1 DEF vars, Inv, TypeOK, CallsInv, RequestsInv, RanInv, RepliesInv, AnswersInv,
                  OnlyWrongResultAborts
    <2>2. CASE Next
      BY <2>2, CallStep, DispatchStep, GotPduStep, GiveUpStep DEF Next
    <2> QED BY <2>1, <2>2
  <1> QED BY <1>1, InitInv, PTL DEF Spec
-----------------------------------------------------------------------------
(* Every xid in use was given out, by rpcc::call1, to one call, and no two *)
(* threads wait for the same call.                                         *)
THEOREM TypeCorrect == Spec => []TypeOK
  BY InvInductive, PTL DEF Inv

(* However the calls interleave, a handler made by rpcs::reg runs its      *)
(* method at most once per call, and if the client's argument types are    *)
(* the server's, on the arguments the client passed to rpcc::call.         *)
THEOREM ArgumentsReachMethod == Spec => []MethodGetsArguments
  <1>1. Inv => MethodGetsArguments
    <2> SUFFICES ASSUME Inv, NEW e \in ran
                 PROVE  /\ SameArgs(sent[e.xid]) => e.args = sent[e.xid].args
                        /\ \A f \in ran : e.xid = f.xid => e = f
      BY DEF MethodGetsArguments
    <2>1. e.xid \in Nat \ {0} /\ sent[e.xid] \in Calls
      BY DEF Inv, TypeOK
    <2>2. /\ Runs(sent[e.xid], e.xid) /\ e.args = Given(sent[e.xid], e.xid).v
          /\ \A f \in ran : e.xid = f.xid => e = f
      BY DEF Inv, RanInv
    <2> QED BY <2>1, <2>2, MethodArguments
  <1> QED BY <1>1, InvInductive, PTL

(* Whatever types client and server use, okdone lets a method run only on  *)
(* arguments that, written again, are the cells of the client's message:   *)
(* none is left over, skipped, read twice or made up.                      *)
THEOREM WholeMessageConsumed == Spec => []MessageConsumed
  <1>1. Inv => MessageConsumed
    <2> SUFFICES ASSUME Inv, NEW e \in ran
                 PROVE  LET q == sent[e.xid]
                        IN marshal_args(q) = marshal_args(
                             [q EXCEPT !.types = Procs[q.proc].args, !.args = e.args])
      BY DEF MessageConsumed
    <2>1. e.xid \in Nat \ {0} /\ sent[e.xid] \in Calls
      BY DEF Inv, TypeOK
    <2>2. Runs(sent[e.xid], e.xid) /\ e.args = Given(sent[e.xid], e.xid).v
      BY DEF Inv, RanInv
    <2> QED BY <2>1, <2>2, MethodArguments
  <1> QED BY <1>1, InvInductive, PTL

(* rpcc::call_m returns the status and the result of the method's run for  *)
(* this very call; unmarshal_args_failure says that it was not run.        *)
THEOREM AnswersAreOwn == Spec => []AnswerIsOwn
  <1>1. Inv => AnswerIsOwn
    <2> SUFFICES ASSUME Inv PROVE AnswerIsOwn
      OBVIOUS
    <2>1. \A e \in ran : Runs(sent[e.xid], e.xid)
      BY DEF Inv, RanInv
    <2> QED BY <2>1 DEF Inv, AnswersInv, AnswerIsOwn
  <1> QED BY <1>1, InvInductive, PTL

(* VERIFY(0) in rpcc::call_m is reached only if the client reads the       *)
(* result with a type the server's method does not have.                   *)
THEOREM AbortsOnlyOnResultType == Spec => []OnlyWrongResultAborts
  BY InvInductive, PTL DEF Inv
-----------------------------------------------------------------------------
(* A message that ends before its arguments do is not read without an      *)
(* error: as long as there is none every argument is as long as it was     *)
(* written, and the last would end past the end.                           *)
LEMMA ArgsCut ==
    ASSUME NEW q, WellTyped(q), \A k \in 1 .. Len(q.args) : q.args[k] \in ValuesOf(q.types[k]),
           NEW u \in NatReader, u.ind = RPC_HEADER_SZ,
           Len(u.buf) < Len(marshal_args(q).buf),
           \A i \in 1 .. Len(u.buf) : i > RPC_HEADER_SZ => u.buf[i] = marshal_args(q).buf[i]
    PROVE  ~unmarshal_args(u, q.types).u.ok
  <1> DEFINE n == Len(q.args)
             get == unmarshalled(u, q.types)
             Buf(k) == marshalled(q)[k].buf
             body == marshal_args(q).buf
             T == {k \in 0 .. n : get[k].u.ok => get[k].u.ind = Len(Buf(k))}
  <1>1. n \in Nat /\ Len(q.types) = n /\ q.types \in Seq(Types) /\ q.args \in Seq(Seq(Nat))
    BY DEF WellTyped
  <1>2. /\ get \in [0 .. n -> ReadsOf(u)]
        /\ get[0] = [u |-> u, v |-> <<>>]
        /\ \A k \in 1 .. n : get[k] = GetArg(get[k - 1], q.types[k])
    BY <1>1, UnmarshalledDef
  <1>3. \A k \in 0 .. n : Buf(k) \in Seq(Nat) /\ Len(Buf(k)) \in Nat /\ 6 <= Len(Buf(k))
    <2> TAKE k \in 0 .. n
    <2>1. marshalled(q)[k] \in NatWriter
      BY MarshalledDef
    <2> QED BY <2>1, HeaderSize DEF NatWriter
  <1>4. 0 \in T
    <2>1. Len(Buf(0)) = 6
      BY MarshalledDef, Empty
    <2>2. 0 \in 0 .. n
      BY <1>1
    <2>3. get[0].u.ind = 6
      BY <1>2, HeaderSize
    <2> HIDE DEF get, Buf
    <2> QED BY <2>1, <2>2, <2>3
  <1>5. ASSUME NEW k \in 1 .. n, k - 1 \in T PROVE k \in T
    <2> DEFINE type == q.types[k]
               rd == get[k - 1]
               a == get_value(rd.u, type)
               c == Cells(type, q.args[k])
               e == Cells(type, a.v)
               d == Len(Buf(k - 1))
    <2>1. k - 1 \in 0 .. n /\ k \in 0 .. n /\ type \in Types /\ rd \in ReadsOf(u)
      <3>1. k - 1 \in 0 .. n /\ k \in 0 .. n /\ type \in Types
        BY <1>1
      <3> HIDE DEF get
      <3> QED BY <1>2, <3>1
    <2>2. /\ GetArg(rd, type) = [u |-> a.u, v |-> Append(rd.v, a.v)]
          /\ a.u.ok => rd.u.ok /\ a.u.ind = rd.u.ind + Len(e) /\ Follows(u.buf, rd.u.ind, e)
      <3> HIDE DEF rd, type
      <3> QED BY <2>1, GetArgTyped
    <2>3. get[k].u = a.u
      <3>1. get[k] = GetArg(rd, type)
        BY <1>2
      <3> HIDE DEF get, rd, type, a
      <3> QED BY <2>2, <3>1
    <2>4. a.u.ok => a.v \in ValuesOf(type) /\ a.v \in Seq(Nat)
      <3>1. rd.u \in Reader /\ rd.u.buf \in Seq(Nat) /\ rd.u.ind <= Len(rd.u.buf)
        BY <2>1 DEF ReadsOf, NatReader
      <3> HIDE DEF rd, type
      <3> QED BY <2>1, <3>1, GetValueOk
    <2>5. SUFFICES ASSUME a.u.ok PROVE a.u.ind = Len(Buf(k))
      BY <2>1, <2>3
    <2>6. rd.u.ind = d
      BY <1>5, <2>2, <2>5
    <2>7. /\ Len(Buf(k)) = d + Len(c)
          /\ \A i \in 1 .. Len(c) : Buf(k)[d + i] = c[i]
      <3>1. Extended(Buf(k - 1), Buf(k), c)
        BY MarshalledStep
      <3> HIDE DEF Buf, c
      <3> QED BY <3>1 DEF Extended
    <2>8. Prefix(Buf(k), body)
      BY <2>1, MarshalledPrefix
    <2>9. Len(e) = Len(c)
      <3>1. q.args[k] \in ValuesOf(type)
        OBVIOUS
      <3>2. CASE type # "string"
        BY <2>4, <2>5, <3>1, <3>2 DEF ValuesOf, Cells
      <3>3. CASE type = "string"
        <4>1. /\ Len(c) = Len(q.args[k]) + 1 /\ c[1] = Len(q.args[k])
              /\ Len(e) = Len(a.v) + 1 /\ e[1] = Len(a.v)
              /\ Len(a.v) \in Nat /\ Len(q.args[k]) \in Nat
          <5> HIDE DEF a, type
          <5>1. q.args[k] \in Seq(Nat) /\ a.v \in Seq(Nat)
            BY <1>1, <2>4, <2>5
          <5>2. Len(c) = Len(q.args[k]) + 1 /\ c[1] = Len(q.args[k])
            BY <3>3, <5>1, CellsTyped
          <5>3. Len(e) = Len(a.v) + 1 /\ e[1] = Len(a.v)
            BY <3>3, <5>1, CellsTyped
          <5> QED BY <5>1, <5>2, <5>3
        <4>2. d + Len(e) <= Len(u.buf) /\ u.buf[d + 1] = e[1]
          <5>1. 1 \in 1 .. Len(e)
            BY <4>1
          <5>2. Follows(u.buf, d, e)
            BY <2>2, <2>5, <2>6
          <5> HIDE DEF e, d
          <5> QED BY <5>1, <5>2 DEF Follows
        <4>3. d \in Nat /\ 6 <= d /\ Len(u.buf) \in Nat
          BY <1>3, <2>1 DEF NatReader
        <4>4. u.buf[d + 1] = body[d + 1]
          <5> HIDE DEF d, body, e
          <5>1. d + 1 \in 1 .. Len(u.buf) /\ d + 1 > 6
            BY <4>1, <4>2, <4>3
          <5> QED BY <5>1, HeaderSize DEF body
        <4>5. body[d + 1] = c[1]
          <5> HIDE DEF d, body, c
          <5> HIDE DEF Buf
          <5>2. Len(c) \in Nat /\ 1 <= Len(c)
            BY <4>1
          <5>3. Len(Buf(k)) = d + Len(c)
            BY <2>7
          <5>1. 1 \in 1 .. Len(c) /\ d + 1 \in 1 .. Len(Buf(k))
            BY <4>3, <5>2, <5>3
          <5> QED BY <2>7, <2>8, <5>1 DEF Prefix
        <4> HIDE DEF a, c, e, d, body, type
        <4> QED BY <4>1, <4>2, <4>4, <4>5
      <3> QED BY <3>2, <3>3
    <2> HIDE DEF a, c, e, d, rd
    <2> QED BY <2>2, <2>5, <2>6, <2>7, <2>9
  <1>6. n \in T
    <2>1. n \in 0 .. n
      BY <1>1
    <2> HIDE DEF T, n
    <2> QED BY <1>1, <1>4, <1>5, <2>1, Induct
  <1>7. get[n].u.buf = u.buf /\ get[n].u.ind <= Len(u.buf) /\ get[n].u.ind \in Nat
    <2>1. n \in 0 .. n
      BY <1>1
    <2>2. get[n] \in ReadsOf(u)
      BY <1>2, <2>1
    <2> HIDE DEF get, n
    <2> QED BY <2>2 DEF ReadsOf, NatReader, Reader
  <1>8. get[n].u.ok => get[n].u.ind = Len(body)
    BY <1>6 DEF marshal_args
  <1>9. Len(u.buf) \in Nat /\ Len(body) \in Nat
    BY <1>1, <1>3 DEF NatReader, marshal_args
  <1>10. unmarshal_args(u, q.types) = get[n]
    BY <1>1 DEF unmarshal_args
  <1> HIDE DEF get, n, body
  <1> QED BY <1>7, <1>8, <1>9, <1>10 DEF body

(* A list that starts with a count: its first cell.                        *)
Counted(q, c) == /\ WellTyped(q) /\ Len(q.args) # 0
                 /\ c \in Nat /\ q.types[1] = "int" /\ q.args[1] = <<c>>
                 /\ \A k \in 1 .. Len(q.args) : q.args[k] \in ValuesOf(q.types[k])

LEMMA FirstCell ==
    ASSUME NEW q, NEW c, Counted(q, c)
    PROVE  /\ marshal_args(q) \in NatWriter
           /\ marshal_args(q).buf \in Seq(Nat) /\ Len(marshal_args(q).buf) \in Nat
           /\ 7 <= Len(marshal_args(q).buf) /\ marshal_args(q).buf[7] = c
  <1> DEFINE n == Len(q.args)
             a == marshalled(q)[0].buf
             b == marshalled(q)[1].buf
             body == marshal_args(q).buf
  <1>1. WellTyped(q) /\ n \in Nat /\ 1 \in 1 .. n /\ n \in 0 .. n /\ 1 \in 0 .. n
    <2>1. WellTyped(q) /\ n # 0
      BY DEF Counted
    <2>2. n \in Nat
      BY <2>1 DEF WellTyped
    <2> HIDE DEF n
    <2> QED BY <2>1, <2>2
  <1>2. marshal_args(q) \in NatWriter
    BY <1>1, MarshalledDef DEF marshal_args
  <1>3. a = marshall.buf /\ Len(a) = 6
    BY <1>1, MarshalledDef, Empty
  <1>4. Cells(q.types[1], q.args[1]) = <<c>>
    BY DEF Counted, Cells
  <1>5. Len(b) = 7 /\ b[7] = c
    <2>1. Extended(marshalled(q)[1 - 1].buf, b, Cells(q.types[1], q.args[1]))
      BY <1>1, MarshalledStep
    <2>2. Extended(a, b, <<c>>)
      BY <1>4, <2>1
    <2> HIDE DEF a, b
    <2>3. Len(b) = 6 + 1 /\ b[6 + 1] = c
      BY <1>3, <2>2 DEF Extended
    <2> QED BY <2>3
  <1>6. Prefix(b, body)
    BY <1>1, MarshalledPrefix
  <1>7. body \in Seq(Nat) /\ Len(body) \in Nat
    BY <1>2 DEF NatWriter
  <1>8. 7 <= Len(body) /\ body[7] = c
    <2> HIDE DEF b, body
    <2> QED BY <1>5, <1>6, <1>7 DEF Prefix
  <1> QED BY <1>2, <1>7, <1>8 DEF body

(* The three messages whose reading is compared: what was written, the     *)
(* same without its last cell, and with one more.                          *)
LEMMA SentArgs ==
    ASSUME NEW q, NEW n, Counted(q, n)
    PROVE  LET u == Sent(marshal_args(q))
               l == Len(marshal_args(q).buf)
           IN /\ ReaderOf(u, q)
              /\ Longer(u) \in NatReader /\ Longer(u).ok = TRUE
              /\ Longer(u).ind = RPC_HEADER_SZ /\ Len(Longer(u).buf) = l + 1
              /\ \A k \in 1 .. l : Longer(u).buf[k] = u.buf[k]
              /\ Cut(u) \in NatReader /\ Cut(u).ok = TRUE
              /\ Cut(u).ind = RPC_HEADER_SZ /\ Len(Cut(u).buf) = l - 1
              /\ \A k \in 1 .. l - 1 : Cut(u).buf[k] = u.buf[k]
  <1> DEFINE m == marshal_args(q)
             h == [xid |-> 1, proc |-> 1, clt_nonce |-> 1, srv_nonce |-> 1, xid_rep |-> 0]
             b == take_buf(pack_req_header(m, h))
             l == Len(m.buf)
             u == Sent(m)
             e == Append(b, 0)
             s == SubSeq(b, 1, l - 1)
  <1>1. m \in NatWriter /\ m.buf \in Seq(Nat) /\ l \in Nat /\ 7 <= l
    BY FirstCell
  <1>2. AtEnd(m) /\ RPC_HEADER_SZ <= Len(m.buf)
    BY <1>1 DEF NatWriter, AtEnd
  <1>3. /\ b \in Seq(Nat) /\ Len(b) = l
        /\ \A k \in 1 .. l : k > RPC_HEADER_SZ => b[k] = m.buf[k]
    <2>1. h \in [xid : Int, proc : Int, clt_nonce : Int, srv_nonce : Int, xid_rep : Int]
      OBVIOUS
    <2>2. <<h.xid, h.proc, h.clt_nonce, h.srv_nonce, h.xid_rep>> = <<1, 1, 1, 1, 0>>
      OBVIOUS
    <2>3. <<1, 1, 1, 1, 0>> \in Seq(Nat)
      OBVIOUS
    <2> HIDE DEF h, m
    <2>4. Headed(b, m, <<h.xid, h.proc, h.clt_nonce, h.srv_nonce, h.xid_rep>>)
      BY <1>2, <2>1, ReqHeader
    <2> HIDE DEF b
    <2> QED BY <1>1, <2>2, <2>3, <2>4 DEF Headed
  <1>4. u = [buf |-> b, ind |-> 6, ok |-> TRUE]
    BY ReaderMoved, HeaderSize DEF Sent, unmarshall
  <1>5. u.buf = b
    BY <1>4
  <1> HIDE DEF b, m, u
  <1>6. /\ e \in Seq(Nat) /\ e \in Seq(Int) /\ Len(e) = l + 1 /\ \A k \in 1 .. l : e[k] = b[k]
        /\ s \in Seq(Nat) /\ s \in Seq(Int) /\ Len(s) = l - 1 /\ \A k \in 1 .. l - 1 : s[k] = b[k]
        /\ b \in Seq(Int)
    <2> HIDE DEF l
    <2>1. b \in Seq(Int)
      BY <1>3
    <2>2. e \in Seq(Nat) /\ Len(e) = l + 1 /\ \A k \in 1 .. l : e[k] = b[k]
      BY <1>1, <1>3
    <2>3. \A k \in 1 .. l - 1 : b[k] \in Nat
      BY <1>1, <1>3
    <2> DEFINE i == l - 1
    <2>4. i \in Nat /\ i - 1 + 1 = i /\ 1 <= i
      BY <1>1
    <2>5. /\ SubSeq(b, 1, i) \in Seq(Nat)
          /\ Len(SubSeq(b, 1, i)) = IF 1 <= i THEN i - 1 + 1 ELSE 0
          /\ \A k \in 1 .. i - 1 + 1 : SubSeq(b, 1, i)[k] = b[1 + k - 1]
      <3> HIDE DEF i
      <3> QED BY <2>3, <2>4, SubSeqProperties DEF i
    <2>6. \A k \in 1 .. i : 1 + k - 1 = k
      BY <2>4
    <2>7. s \in Seq(Nat) /\ Len(s) = i /\ \A k \in 1 .. i : s[k] = b[k]
      <3> HIDE DEF i
      <3> QED BY <2>4, <2>5, <2>6 DEF i
    <2> HIDE DEF s, e
    <2> QED BY <2>1, <2>2, <2>7
  <1>7. /\ Longer(u) = [u EXCEPT !.buf = e]
        /\ Cut(u) = [u EXCEPT !.buf = s]
    BY <1>3, <1>5 DEF Longer, Cut
  <1> HIDE DEF e, s
  <1>8. /\ Longer(u).buf = e /\ Longer(u).ind = 6 /\ Longer(u).ok = TRUE
        /\ Cut(u).buf = s /\ Cut(u).ind = 6 /\ Cut(u).ok = TRUE
        /\ u.buf = b /\ u.ind = 6 /\ u.ok = TRUE
    BY <1>4, <1>7
  <1>9. u \in Reader /\ Longer(u) \in Reader /\ Cut(u) \in Reader
    <2>1. [u EXCEPT !.buf = e] \in Reader /\ [u EXCEPT !.buf = s] \in Reader
      BY <1>4, <1>6 DEF Reader
    <2> QED BY <1>4, <1>6, <1>7, <2>1 DEF Reader
  <1>10. u \in NatReader /\ Longer(u) \in NatReader /\ Cut(u) \in NatReader
    <2>1. 6 <= Len(b) /\ 6 <= Len(e) /\ 6 <= Len(s)
      <3> HIDE DEF l
      <3> QED BY <1>1, <1>3, <1>6
    <2> QED BY <1>3, <1>6, <1>8, <1>9, <2>1 DEF NatReader
  <1>11. ReaderOf(u, q)
    BY <1>3, <1>8, <1>10, HeaderSize DEF ReaderOf, m
  <1> QED BY <1>5, <1>6, <1>8, <1>10, <1>11, HeaderSize DEF u, m

(* A count is read where it was written; where it was cut off, there is    *)
(* none.                                                                   *)
LEMMA CountRead ==
    ASSUME NEW u \in NatReader, u.ind = RPC_HEADER_SZ, u.ok = TRUE
    PROVE  /\ unpack(u) = get_value(u, "int")
           /\ unpack(u).v[1] \in Nat
           /\ 7 <= Len(u.buf) => unpack(u).v[1] = u.buf[7]
           /\ Len(u.buf) = 6 => unpack(u).v[1] = 0 /\ ~unpack(u).u.ok
  <1>1. unpack(u) = get_value(u, "int")
    BY DEF get_value, unpack, Width
  <1>2. u \in Reader /\ u.buf \in Seq(Nat) /\ Len(u.buf) \in Nat /\ u.ind = 6
    BY HeaderSize DEF NatReader
  <1>3. unpack(u).v[1] = IF 7 <= Len(u.buf) THEN u.buf[7] ELSE 0
    BY <1>2 DEF unpack, read_cells
  <1>4. Len(u.buf) = 6 => ~unpack(u).u.ok
    <2> SUFFICES ASSUME Len(u.buf) = 6, read_cells(u, 1).u.ok PROVE FALSE
      BY DEF unpack
    <2>0. u.ind <= Len(u.buf) /\ 1 \in Nat
      BY <1>2
    <2>1. u.ind + 1 <= Len(u.buf)
      BY <1>2, <2>0, ReadCellsOk
    <2> QED BY <1>2, <2>1
  <1>5. 7 <= Len(u.buf) => u.buf[7] \in Nat
    BY <1>2
  <1> DEFINE c == unpack(u).v[1]
             l == Len(u.buf)
             d == u.buf[7]
  <1>6. (c = IF 7 <= l THEN d ELSE 0) /\ (7 <= l => d \in Nat) /\ l \in Nat
    BY <1>2, <1>3, <1>5
  <1>7. c \in Nat /\ (7 <= l => c = d) /\ (l = 6 => c = 0)
    <2> HIDE DEF c, l, d
    <2> QED BY <1>6
  <1> QED BY <1>1, <1>4, <1>7

(* A counted list read by its types: to its end if it is all there is, and *)
(* not without an error, or not to the end, if it is cut or longer.        *)
LEMMA ListRead ==
    ASSUME NEW q, NEW c, Counted(q, c)
    PROVE  LET u == Sent(marshal_args(q))
               n == Len(q.args)
           IN /\ u \in NatReader /\ u.ind = RPC_HEADER_SZ /\ u.ok = TRUE
              /\ ReaderOver(u, q) /\ unpack(u).v[1] = c
              /\ okdone(unmarshalled(u, q.types)[n].u)
              /\ Longer(u) \in NatReader
              /\ Longer(u).ind = RPC_HEADER_SZ /\ Longer(u).ok = TRUE
              /\ unpack(Longer(u)).v[1] = c
              /\ ~okdone(unmarshalled(Longer(u), q.types)[n].u)
              /\ Cut(u) \in NatReader
              /\ Cut(u).ind = RPC_HEADER_SZ /\ Cut(u).ok = TRUE
              /\ \/ unpack(Cut(u)).v[1] = c /\ ~okdone(unmarshalled(Cut(u), q.types)[n].u)
                 \/ unpack(Cut(u)).v[1] = 0 /\ ~unpack(Cut(u)).u.ok
  <1> DEFINE u == Sent(marshal_args(q))
             n == Len(q.args)
             b == marshal_args(q).buf
             l == Len(b)
             x == Longer(u)
             s == Cut(u)
  <1>1. /\ WellTyped(q) /\ n \in Nat /\ n \in 0 .. n /\ Len(q.types) = n
        /\ \A k \in 1 .. n : q.args[k] \in ValuesOf(q.types[k])
    BY DEF Counted, WellTyped
  <1>2. l \in Nat /\ 7 <= l /\ b[7] = c
    BY FirstCell
  <1>3. /\ ReaderOf(u, q)
        /\ x \in NatReader /\ x.ok = TRUE /\ x.ind = RPC_HEADER_SZ /\ Len(x.buf) = l + 1
        /\ \A k \in 1 .. l : x.buf[k] = u.buf[k]
        /\ s \in NatReader /\ s.ok = TRUE /\ s.ind = RPC_HEADER_SZ /\ Len(s.buf) = l - 1
        /\ \A k \in 1 .. l - 1 : s.buf[k] = u.buf[k]
    BY SentArgs
  <1> HIDE DEF u, x, s
  <1>4. /\ u \in NatReader /\ u.ok = TRUE /\ u.ind = RPC_HEADER_SZ /\ Len(u.buf) = l
        /\ \A k \in 1 .. l : k > 6 => u.buf[k] = b[k]
    BY <1>3, HeaderSize DEF ReaderOf
  <1> HIDE DEF b, l, n
  <1>5. /\ ReaderOver(u, q) /\ ReaderOver(x, q)
        /\ \A k \in 1 .. Len(s.buf) : k > 6 => s.buf[k] = b[k]
    <2>1. l <= l /\ l <= l + 1 /\ \A k \in 1 .. l - 1 : k \in 1 .. l
      BY <1>2
    <2> QED BY <1>3, <1>4, <2>1, HeaderSize DEF ReaderOver, b, l
  <1>6. unpack(u).v[1] = c /\ unpack(x).v[1] = c
    <2>1. 7 \in 1 .. l /\ 7 > 6 /\ 7 <= l + 1
      BY <1>2
    <2> QED BY <1>2, <1>3, <1>4, <2>1, CountRead
  <1>7. /\ unmarshalled(u, q.types)[n].u = [buf |-> u.buf, ind |-> l, ok |-> TRUE]
        /\ unmarshalled(x, q.types)[n].u = [buf |-> x.buf, ind |-> l, ok |-> TRUE]
    <2>1. ASSUME NEW r, ReaderOver(r, q)
          PROVE  unmarshalled(r, q.types)[n].u = [buf |-> r.buf, ind |-> l, ok |-> TRUE]
      <3>1. unmarshalled(r, q.types)[n]
              = [u |-> [buf |-> r.buf, ind |-> Len(marshalled(q)[n].buf), ok |-> TRUE],
                 v |-> SubSeq(q.args, 1, n)]
        BY <1>1, <2>1, ArgsRead DEF n
      <3>2. Len(marshalled(q)[n].buf) = l
        BY DEF l, b, n, marshal_args
      <3> QED BY <3>1, <3>2
    <2> QED BY <1>5, <2>1
  <1>8. okdone(unmarshalled(u, q.types)[n].u) /\ ~okdone(unmarshalled(x, q.types)[n].u)
    <2>1. l # l + 1
      BY <1>2
    <2> QED BY <1>3, <1>4, <1>7, <2>1 DEF okdone
  <1>9. ~unmarshalled(s, q.types)[n].u.ok
    <2>1. Len(s.buf) < Len(marshal_args(q).buf)
      BY <1>2, <1>3 DEF l, b
    <2>2. ~unmarshal_args(s, q.types).u.ok
      BY <1>1, <1>3, <1>5, <2>1, ArgsCut, HeaderSize DEF b, n
    <2> QED BY <1>1, <2>2 DEF unmarshal_args
  <1>10. \/ unpack(s).v[1] = c
         \/ unpack(s).v[1] = 0 /\ ~unpack(s).u.ok
    <2>1. CASE l = 7
      <3>1. Len(s.buf) = 6
        BY <1>3, <2>1
      <3> QED BY <1>3, <3>1, CountRead
    <2>2. CASE l # 7
      <3>1. 7 <= Len(s.buf) /\ 7 \in 1 .. Len(s.buf) /\ 7 > 6
        BY <1>2, <1>3, <2>2
      <3> QED BY <1>2, <1>3, <1>5, <3>1, CountRead
    <2> QED BY <2>1, <2>2
  <1>11. ~okdone(unmarshalled(s, q.types)[n].u)
    BY <1>9 DEF okdone
  <1> QED BY <1>3, <1>4, <1>5, <1>6, <1>8, <1>10, <1>11 DEF u, x, s, n
-----------------------------------------------------------------------------
(* A vector in a message is an argument list: its length and its strings.  *)
VectorTypes(n) == [k \in 1 .. n + 1 |-> IF k = 1 THEN "int" ELSE "string"]
VectorArgs(v) == [types |-> VectorTypes(Len(v)),
                  args |-> [k \in 1 .. Len(v) + 1 |-> IF k = 1 THEN <<Len(v)>> ELSE v[k - 1]]]

LEMMA VectorCounted ==
    ASSUME NEW v \in Seq(Seq(Nat))
    PROVE  /\ Counted(VectorArgs(v), Len(v))
           /\ Len(VectorArgs(v).args) = Len(v) + 1
           /\ \A i \in 1 .. Len(v) : VectorArgs(v).args[i + 1] = v[i]
  <1> DEFINE n == Len(v)
             t == VectorTypes(n)
             a == [k \in 1 .. n + 1 |-> IF k = 1 THEN <<n>> ELSE v[k - 1]]
             q == VectorArgs(v)
  <1>1. n \in Nat /\ n + 1 \in Nat /\ <<n>> \in Seq(Nat) /\ Len(<<n>>) = 1
    OBVIOUS
  <1>2. ASSUME NEW k \in 1 .. n + 1
        PROVE  /\ t[k] \in Types /\ a[k] \in Seq(Nat) /\ a[k] \in ValuesOf(t[k])
    <2>1. t[k] = IF k = 1 THEN "int" ELSE "string"
      BY DEF VectorTypes
    <2>2. k # 1 => k - 1 \in 1 .. n
      BY <1>1
    <2>3. Width["int"] = 1
      BY DEF Width
    <2>4. a[k] \in Seq(Nat) /\ (k = 1 => Len(a[k]) = 1)
      BY <1>1, <2>2
    <2> HIDE DEF a, t
    <2> QED BY <2>1, <2>3, <2>4, WidthTyped DEF ValuesOf
  <1>3. t \in [1 .. n + 1 -> Types] /\ a \in [1 .. n + 1 -> Seq(Nat)]
    BY <1>2 DEF VectorTypes
  <1>4. /\ t \in Seq(Types) /\ Len(t) = n + 1
        /\ a \in Seq(Seq(Nat)) /\ Len(a) = n + 1
    <2> HIDE DEF t, a, n
    <2> QED BY <1>1, <1>3, SeqOfFunction
  <1>5. q.types = t /\ q.args = a
    BY DEF VectorArgs
  <1>6. t[1] = "int" /\ a[1] = <<n>> /\ n + 1 # 0 /\ 1 \in 1 .. n + 1
    BY <1>1 DEF VectorTypes
  <1>7. ASSUME NEW i \in 1 .. n PROVE a[i + 1] = v[i]
    <2>1. i + 1 \in 1 .. n + 1 /\ i + 1 # 1 /\ (i + 1) - 1 = i
      BY <1>1
    <2> QED BY <2>1
  <1> HIDE DEF t, a, q, n
  <1>8. Counted(q, n)
    BY <1>1, <1>2, <1>4, <1>5, <1>6 DEF Counted, WellTyped
  <1> QED BY <1>4, <1>5, <1>7, <1>8 DEF q, n

(* What is written of a vector is what is written of its argument list.    *)
LEMMA VectorPut ==
    ASSUME NEW v \in Seq(Seq(Nat))
    PROVE  put_vector(marshall, v) = marshal_args(VectorArgs(v))
  <1> DEFINE n == Len(v)
             q == VectorArgs(v)
             f == [i \in 0 .. n |-> marshalled(q)[i + 1]]
             g == elements_put(marshall, v)
             Eq(h) == h = [i \in 0 .. n |-> IF i = 0 THEN pack(marshall, n)
                                            ELSE put_string(h[i - 1], v[i])]
  <1>1. n \in Nat /\ WellTyped(q) /\ Len(q.args) = n + 1
    BY VectorCounted DEF Counted
  <1>2. f[0] = pack(marshall, n)
    <2>1. 1 \in 1 .. n + 1 /\ 0 \in 0 .. n
      BY <1>1
    <2>2. marshalled(q)[1] = put_value(marshalled(q)[1 - 1], q.types[1], q.args[1])
      BY <1>1, <2>1, MarshalledDef
    <2>3. marshalled(q)[1 - 1] = marshall
      BY <1>1, MarshalledDef
    <2>4. q.types[1] = "int" /\ q.args[1] = <<n>>
      BY VectorCounted DEF Counted
    <2>5. put_value(marshall, "int", <<n>>) = pack(marshall, n)
      BY DEF put_value, pack
    <2>6. f[0] = marshalled(q)[1]
      BY <2>1
    <2> HIDE DEF f, q, n
    <2> QED BY <2>2, <2>3, <2>4, <2>5, <2>6
  <1>3. ASSUME NEW i \in 1 .. n PROVE f[i] = put_string(f[i - 1], v[i])
    <2>1. /\ i + 1 \in 1 .. n + 1 /\ i \in 0 .. n /\ i - 1 \in 0 .. n
          /\ (i + 1) - 1 = i /\ (i - 1) + 1 = i /\ i + 1 # 1
      BY <1>1
    <2>2. marshalled(q)[i + 1] = put_value(marshalled(q)[(i + 1) - 1], q.types[i + 1], q.args[i + 1])
      BY <1>1, <2>1, MarshalledDef
    <2>3. q.args[i + 1] = v[i]
      BY VectorCounted
    <2>4. q.types[i + 1] = "string"
      BY <2>1 DEF VectorArgs, VectorTypes
    <2>5. f[i] = marshalled(q)[i + 1] /\ f[i - 1] = marshalled(q)[i]
      BY <2>1
    <2> HIDE DEF f, q
    <2> QED BY <2>1, <2>2, <2>3, <2>4, <2>5 DEF put_value
  <1>4. Eq(f)
    <2>1. \A i \in 0 .. n : i # 0 => i \in 1 .. n
      BY <1>1
    <2>2. f = [i \in 0 .. n |-> f[i]]
      OBVIOUS
    <2> HIDE DEF f
    <2>3. \A i \in 0 .. n : f[i] = IF i = 0 THEN pack(marshall, n) ELSE put_string(f[i - 1], v[i])
      BY <1>2, <1>3, <2>1
    <2> QED BY <2>2, <2>3
  <1>5. Eq(g)
    <2>1. g = CHOOSE h : Eq(h)
      BY DEF elements_put
    <2> HIDE DEF Eq, g, f
    <2> QED BY <1>4, <2>1
  <1>6. g[n] = f[n]
    <2> DEFINE T == {i \in 0 .. n : g[i] = f[i]}
    <2>1. 0 \in T
      <3>1. 0 \in 0 .. n
        BY <1>1
      <3> HIDE DEF f, g
      <3> QED BY <1>2, <1>5, <3>1
    <2>2. ASSUME NEW i \in 1 .. n, i - 1 \in T PROVE i \in T
      <3>1. i \in 0 .. n /\ i # 0
        BY <1>1
      <3> HIDE DEF f, g
      <3> QED BY <1>3, <1>5, <2>2, <3>1
    <2>3. n \in 0 .. n
      BY <1>1
    <2> HIDE DEF T
    <2>4. n \in T
      BY <1>1, <2>1, <2>2, <2>3, Induct
    <2> QED BY <2>4 DEF T
  <1>7. f[n] = marshalled(q)[n + 1]
    <2>1. n \in 0 .. n
      BY <1>1
    <2> QED BY <2>1
  <1> HIDE DEF f, n
  <1> QED BY <1>1, <1>6, <1>7 DEF put_vector, marshal_args, g, n

(* A reader at a count of n.                                               *)
AtCount(u, n) == /\ u \in NatReader /\ u.ind = RPC_HEADER_SZ /\ u.ok = TRUE
                 /\ n \in Nat /\ unpack(u).v[1] = n

(* Reading n strings into w is reading them as arguments.                  *)
ReadsAsArgs(u, w, n) ==
    LET get == elements_got(u, w)
        um == unmarshalled(u, VectorTypes(n))
    IN /\ get_vector(u, w) = get[n]
       /\ \A i \in 0 .. n : get[i].u = um[i + 1].u
       /\ get[0] = [u |-> unpack(u).u, v |-> w]
       /\ \A i \in 1 .. n :
             get[i].v = Append(get[i - 1].v, get_value(um[i].u, "string").v)

(* An element is read like an argument of that type, and added.            *)
LEMMA VectorGot ==
    ASSUME NEW u, NEW n, AtCount(u, n), NEW w \in Seq(Seq(Nat))
    PROVE  ReadsAsArgs(u, w, n)
  <1> DEFINE get == elements_got(u, w)
             types == VectorTypes(n)
             um == unmarshalled(u, types)
             S == ReadsOf(u)
             none == [u |-> unpack(u).u, v |-> w]
             F == [k \in 1 .. n |-> [rd \in S |-> PushBack(rd)]]
  <1>0. u \in NatReader /\ u.ind = RPC_HEADER_SZ /\ u.ok = TRUE /\ n \in Nat /\ unpack(u).v[1] = n
    BY DEF AtCount
  <1>1. n + 1 \in Nat /\ types \in Seq(Types) /\ Len(types) = n + 1
        /\ types[1] = "int" /\ \A i \in 1 .. n : types[i + 1] = "string"
    <2>1. types \in [1 .. n + 1 -> Types]
      BY WidthTyped DEF VectorTypes
    <2>2. n + 1 \in Nat /\ 1 \in 1 .. n + 1
          /\ \A i \in 1 .. n : i + 1 \in 1 .. n + 1 /\ i + 1 # 1
      BY <1>0
    <2>3. types[1] = "int" /\ \A i \in 1 .. n : types[i + 1] = "string"
      BY <2>2 DEF VectorTypes
    <2> HIDE DEF types
    <2> QED BY <2>1, <2>2, <2>3, SeqOfFunction
  <1>2. ASSUME NEW rd \in S
        PROVE  /\ PushBack(rd) \in S
               /\ PushBack(rd).u = GetArg(rd, "string").u
               /\ PushBack(rd).v = Append(rd.v, get_value(rd.u, "string").v)
    <2>1. PushBack(rd) = GetArg(rd, "string")
      BY DEF PushBack, GetArg, get_value
    <2>2. GetArg(rd, "string") \in S
      BY <1>0, WidthTyped, GetArgTyped
    <2>3. GetArg(rd, "string").v = Append(rd.v, get_value(rd.u, "string").v)
      BY DEF GetArg
    <2> QED BY <2>1, <2>2, <2>3
  <1>3. none \in S /\ none.u = GetArg([u |-> u, v |-> <<>>], "int").u
    <2> DEFINE rd == [u |-> u, v |-> <<>>]
    <2>1. rd \in S /\ rd.u = u
      BY <1>0 DEF ReadsOf
    <2>2. GetArg(rd, "int") \in S
      BY <1>0, <2>1, WidthTyped, GetArgTyped
    <2>3. GetArg(rd, "int").u = unpack(u).u
      BY <1>0, <2>1, CountRead DEF GetArg
    <2>4. unpack(u).u \in NatReader /\ unpack(u).u.buf = u.buf
      BY <2>2, <2>3 DEF ReadsOf
    <2> QED BY <2>3, <2>4 DEF ReadsOf
  <1> HIDE DEF S, types
  <1>4. F \in [1 .. n -> [S -> S]]
    BY <1>2
  <1>5. PICK f \in [0 .. n -> S] : Iterates(f, n, none, F)
    <2> HIDE DEF F, none
    <2> QED BY <1>0, <1>3, <1>4, Recursion
  <1>6. \A k \in 1 .. n : k - 1 \in 0 .. n /\ k \in 0 .. n
    BY <1>0
  <1>7. \A k \in 1 .. n : f[k] = PushBack(f[k - 1])
    BY <1>5, <1>6 DEF Iterates
  <1> DEFINE Eq(g) == g = [k \in 0 .. n |-> IF k = 0 THEN none ELSE PushBack(g[k - 1])]
  <1>8. Eq(f)
    <2>1. \A k \in 0 .. n : k # 0 => k \in 1 .. n
      BY <1>0
    <2> HIDE DEF none
    <2>2. \A k \in 0 .. n : f[k] = IF k = 0 THEN none ELSE PushBack(f[k - 1])
      BY <1>5, <1>7, <2>1 DEF Iterates
    <2>3. f = [k \in 0 .. n |-> f[k]]
      BY <1>5
    <2> QED BY <2>2, <2>3
  <1>9. Eq(get)
    <2>1. get = CHOOSE h : Eq(h)
      BY <1>0 DEF elements_got
    <2> HIDE DEF Eq, get
    <2> QED BY <1>8, <2>1
  <1>10. get_vector(u, w) = get[n]
    BY <1>0 DEF get_vector
  <1> HIDE DEF get, none
  <1>11. get[0] = none /\ \A k \in 1 .. n : get[k] = PushBack(get[k - 1])
    <2>1. 0 \in 0 .. n /\ \A k \in 1 .. n : k \in 0 .. n /\ k # 0
      BY <1>0
    <2> QED BY <1>9, <2>1
  <1>12. /\ um[0] = [u |-> u, v |-> <<>>]
         /\ um[1] = GetArg(um[0], "int")
         /\ \A i \in 1 .. n : um[i + 1] = GetArg(um[i], "string")
    <2>1. um[0] = [u |-> u, v |-> <<>>] /\ \A k \in 1 .. n + 1 : um[k] = GetArg(um[k - 1], types[k])
      BY <1>0, <1>1, UnmarshalledDef
    <2>2. 1 \in 1 .. n + 1 /\ \A i \in 1 .. n : i + 1 \in 1 .. n + 1 /\ (i + 1) - 1 = i
      BY <1>0
    <2> HIDE DEF um
    <2>3. um[1] = GetArg(um[0], "int")
      BY <1>1, <2>1, <2>2
    <2>4. ASSUME NEW i \in 1 .. n PROVE um[i + 1] = GetArg(um[i], "string")
      BY <1>1, <2>1, <2>2
    <2> QED BY <2>1, <2>3, <2>4
  <1> HIDE DEF um
  <1> DEFINE T == {i \in 0 .. n : get[i] \in S /\ get[i].u = um[i + 1].u}
  <1>13. 0 \in T
    BY <1>0, <1>3, <1>11, <1>12
  <1>14. ASSUME NEW i \in 1 .. n, i - 1 \in T PROVE i \in T
    <2>1. get[i - 1] \in S /\ get[i - 1].u = um[i].u /\ i \in 0 .. n
      BY <1>14
    <2>2. get[i] \in S /\ get[i].u = GetArg(get[i - 1], "string").u
      BY <1>2, <1>11, <2>1
    <2>3. GetArg(get[i - 1], "string").u = GetArg(um[i], "string").u
      BY <2>1 DEF GetArg
    <2> QED BY <1>12, <2>1, <2>2, <2>3
  <1>15. \A i \in 0 .. n : i \in T
    <2> HIDE DEF T
    <2> QED BY <1>0, <1>13, <1>14, Induct
  <1>16. ASSUME NEW i \in 1 .. n
         PROVE  get[i].v = Append(get[i - 1].v, get_value(um[i].u, "string").v)
    <2>1. i - 1 \in 0 .. n /\ (i - 1) + 1 = i
      BY <1>0
    <2>2. get[i - 1] \in S /\ get[i - 1].u = um[i].u
      BY <1>15, <2>1
    <2> QED BY <1>2, <1>11, <2>2
  <1>17. get[0] = [u |-> unpack(u).u, v |-> w]
    BY <1>11 DEF none
  <1> QED BY <1>10, <1>15, <1>16, <1>17 DEF ReadsAsArgs, get, um, types

(* An element added to a concatenation is added to its second part.        *)
LEMMA AppendConcat ==
    ASSUME NEW S, NEW a \in Seq(S), NEW b \in Seq(S), NEW x \in S
    PROVE  Append(a \o b, x) = a \o Append(b, x)
  OBVIOUS

(* A vector read back is added to what the variable held, and none is      *)
(* accepted from a message that is cut short or too long: marshall.h's <<  *)
(* and >> of a vector, for any vector of strings.                          *)
THEOREM VectorsReadBack == \A v, w \in Seq(Seq(Nat)) : VectorReadBack(v, w)
  <1> SUFFICES ASSUME NEW v \in Seq(Seq(Nat)), NEW w \in Seq(Seq(Nat))
               PROVE  VectorReadBack(v, w)
    OBVIOUS
  <1> DEFINE n == Len(v)
             q == VectorArgs(v)
             types == VectorTypes(n)
             u == Sent(put_vector(marshall, v))
             get == elements_got(u, w)
             um == unmarshalled(u, types)
  <1>1. Counted(q, n) /\ Len(q.args) = n + 1 /\ \A i \in 1 .. n : q.args[i + 1] = v[i]
    BY VectorCounted
  <1>2. n \in Nat /\ q.types = types
    BY DEF VectorArgs
  <1>3. u = Sent(marshal_args(q))
    BY VectorPut
  <1>4. \A i \in 1 .. n : types[i + 1] = "string"
    <2>1. \A i \in 1 .. n : i + 1 \in 1 .. n + 1 /\ i + 1 # 1
      BY <1>2
    <2> QED BY <2>1 DEF VectorTypes
  <1> HIDE DEF n, q, types, u
  <1>5. /\ u \in NatReader /\ u.ind = RPC_HEADER_SZ /\ u.ok = TRUE
        /\ ReaderOver(u, q) /\ unpack(u).v[1] = n
        /\ okdone(unmarshalled(u, types)[n + 1].u)
        /\ Longer(u) \in NatReader /\ Longer(u).ind = RPC_HEADER_SZ /\ Longer(u).ok = TRUE
        /\ unpack(Longer(u)).v[1] = n
        /\ ~okdone(unmarshalled(Longer(u), types)[n + 1].u)
        /\ Cut(u) \in NatReader /\ Cut(u).ind = RPC_HEADER_SZ /\ Cut(u).ok = TRUE
        /\ \/ unpack(Cut(u)).v[1] = n /\ ~okdone(unmarshalled(Cut(u), types)[n + 1].u)
           \/ unpack(Cut(u)).v[1] = 0 /\ ~unpack(Cut(u)).u.ok
    BY <1>1, <1>2, <1>3, ListRead
  <1>6. ASSUME NEW r, AtCount(r, n)
        PROVE  get_vector(r, w).u = unmarshalled(r, types)[n + 1].u
    <2>1. n \in 0 .. n
      BY <1>2
    <2>2. /\ get_vector(r, w) = elements_got(r, w)[n]
          /\ \A i \in 0 .. n : elements_got(r, w)[i].u = unmarshalled(r, VectorTypes(n))[i + 1].u
      <3>1. ReadsAsArgs(r, w, n)
        BY <1>6, VectorGot
      <3> QED BY <3>1 DEF ReadsAsArgs
    <2> QED BY <2>1, <2>2 DEF types
  <1>7. okdone(get_vector(u, w).u) /\ ~okdone(get_vector(Longer(u), w).u)
    <2>1. AtCount(u, n) /\ AtCount(Longer(u), n)
      BY <1>2, <1>5 DEF AtCount
    <2> QED BY <1>5, <1>6, <2>1
  <1>8. ~okdone(get_vector(Cut(u), w).u)
    <2>1. CASE unpack(Cut(u)).v[1] = n /\ ~okdone(unmarshalled(Cut(u), types)[n + 1].u)
      <3>1. AtCount(Cut(u), n)
        BY <1>2, <1>5, <2>1 DEF AtCount
      <3> QED BY <1>6, <2>1, <3>1
    <2>2. CASE unpack(Cut(u)).v[1] = 0 /\ ~unpack(Cut(u)).u.ok
      <3>1. AtCount(Cut(u), 0)
        BY <1>5, <2>2 DEF AtCount
      <3>2. get_vector(Cut(u), w) = [u |-> unpack(Cut(u)).u, v |-> w]
        <4>1. ReadsAsArgs(Cut(u), w, 0)
          BY <3>1, VectorGot
        <4> QED BY <4>1 DEF ReadsAsArgs
      <3> QED BY <2>2, <3>2 DEF okdone
    <2> QED BY <1>5, <2>1, <2>2
  <1>9. /\ get_vector(u, w) = get[n]
        /\ get[0].v = w
        /\ \A i \in 1 .. n : get[i].v = Append(get[i - 1].v, v[i])
    <2>1. /\ get_vector(u, w) = get[n] /\ get[0].v = w
          /\ \A i \in 1 .. n : get[i].v = Append(get[i - 1].v, get_value(um[i].u, "string").v)
      <3>1. AtCount(u, n)
        BY <1>2, <1>5 DEF AtCount
      <3>2. ReadsAsArgs(u, w, n)
        BY <3>1, VectorGot
      <3> QED BY <3>2 DEF ReadsAsArgs, types
    <2> HIDE DEF get
    <2>2. ASSUME NEW i \in 1 .. n PROVE get_value(um[i].u, "string").v = v[i]
      <3>1. i + 1 \in 1 .. Len(q.args) /\ (i + 1) - 1 = i
        BY <1>1, <1>2
      <3>2. WellTyped(q) /\ \A k \in 1 .. Len(q.args) : q.args[k] \in ValuesOf(q.types[k])
        BY <1>1 DEF Counted
      <3>3. \A k \in 1 .. Len(q.args) :
               get_value(unmarshalled(u, q.types)[k - 1].u, q.types[k]).v = q.args[k]
        <4>1. ReaderOver(u, q)
          BY <1>5
        <4> QED BY <3>2, <4>1, ArgsRead
      <3>4. get_value(unmarshalled(u, q.types)[(i + 1) - 1].u, q.types[i + 1]).v = q.args[i + 1]
        BY <3>1, <3>3
      <3> QED BY <1>1, <1>2, <1>4, <3>1, <3>4
    <2> QED BY <2>1, <2>2
  <1> HIDE DEF get
  <1>10. get[n].v = w \o v
    <2> DEFINE T == {i \in 0 .. n : get[i].v = w \o SubSeq(v, 1, i)}
    <2>1. 0 \in T
      <3>1. w \o SubSeq(v, 1, 0) = w
        OBVIOUS
      <3> QED BY <1>2, <1>9, <3>1
    <2>2. ASSUME NEW i \in 1 .. n, i - 1 \in T PROVE i \in T
      <3>1. i \in 0 .. n /\ i \in 1 .. Len(v)
        BY <1>2 DEF n
      <3>2. Append(w \o SubSeq(v, 1, i - 1), v[i]) = w \o Append(SubSeq(v, 1, i - 1), v[i])
        <4>1. SubSeq(v, 1, i - 1) \in Seq(Seq(Nat)) /\ v[i] \in Seq(Nat)
          BY <3>1
        <4> DEFINE a == w
                   b == SubSeq(v, 1, i - 1)
                   x == v[i]
                   S == Seq(Nat)
        <4>2. a \in Seq(S) /\ b \in Seq(S) /\ x \in S
          BY <4>1
        <4> HIDE DEF S, a, b, x
        <4>3. Append(a \o b, x) = a \o Append(b, x)
          BY <4>2, AppendConcat, SMTT(30)
        <4> QED BY <4>3 DEF a, b, x
      <3>3. Append(SubSeq(v, 1, i - 1), v[i]) = SubSeq(v, 1, i)
        BY <3>1
      <3> QED BY <1>9, <2>2, <3>1, <3>2, <3>3
    <2>3. n \in T
      <3>1. n \in 0 .. n
        BY <1>2
      <3> HIDE DEF T
      <3> QED BY <1>2, <2>1, <2>2, <3>1, Induct
    <2>4. SubSeq(v, 1, n) = v
      BY DEF n
    <2> QED BY <2>3, <2>4
  <1> QED BY <1>7, <1>8, <1>9, <1>10 DEF VectorReadBack, u
-----------------------------------------------------------------------------
(* The keys of a map in the order of its iteration: what is left after i   *)
(* of them, the least of which is the next.                                *)
Order(K, n, left) == /\ left \in [0 .. n -> SUBSET K]
                     /\ left[0] = K /\ left[n] = {}
                     /\ \A i \in 1 .. n : /\ Min(left[i - 1]) \in left[i - 1]
                                          /\ left[i] = left[i - 1] \ {Min(left[i - 1])}

LEMMA KeyOrder ==
    ASSUME NEW K \in SUBSET Nat, IsFiniteSet(K), NEW n, n = Cardinality(K)
    PROVE  n \in Nat /\ \E left : Order(K, n, left)
  <1> DEFINE S == SUBSET K
             F == [k \in 1 .. n |-> [L \in S |-> L \ {Min(L)}]]
  <1>1. n \in Nat
    BY FS_CardinalityType
  <1>2. F \in [1 .. n -> [S -> S]] /\ K \in S
    OBVIOUS
  <1>3. PICK f \in [0 .. n -> S] : Iterates(f, n, K, F)
    <2> HIDE DEF F, S
    <2> QED BY <1>1, <1>2, Recursion
  <1>4. f[0] = K /\ \A k \in 1 .. n : f[k] = f[k - 1] \ {Min(f[k - 1])}
    <2>1. \A k \in 1 .. n : k - 1 \in 0 .. n
      BY <1>1
    <2> QED BY <1>3, <2>1 DEF Iterates
  <1>5. ASSUME NEW L \in S, L # {} PROVE Min(L) \in L
    <2>1. L \in SUBSET Nat
      BY <1>5
    <2>2. PICK x \in L : \A y \in L : x <= y
      BY <1>5, <2>1, Least
    <2> QED BY <2>2 DEF Min
  <1> DEFINE T == {i \in 0 .. n : IsFiniteSet(f[i]) /\ Cardinality(f[i]) = n - i}
  <1>6. 0 \in T
    BY <1>1, <1>4
  <1>7. ASSUME NEW i \in 1 .. n, i - 1 \in T
        PROVE  i \in T /\ Min(f[i - 1]) \in f[i - 1]
    <2> DEFINE L == f[i - 1]
    <2>1. i \in 0 .. n /\ i - 1 \in 0 .. n /\ n - (i - 1) # 0 /\ (n - (i - 1)) - 1 = n - i
      BY <1>1
    <2>2. L \in S /\ IsFiniteSet(L) /\ Cardinality(L) = n - (i - 1)
      BY <1>7, <2>1
    <2>3. f[i] = L \ {Min(L)}
      BY <1>4
    <2> HIDE DEF L, S
    <2>4. Min(L) \in L
      <3>1. L # {}
        BY <2>1, <2>2, FS_EmptySet
      <3> QED BY <1>5, <2>2, <3>1
    <2>5. IsFiniteSet(L \ {Min(L)}) /\ Cardinality(L \ {Min(L)}) = Cardinality(L) - 1
      BY <2>2, <2>4, FS_RemoveElement
    <2> QED BY <2>1, <2>2, <2>3, <2>4, <2>5 DEF L
  <1>8. \A i \in 0 .. n : i \in T
    <2>1. \A i \in 1 .. n : i - 1 \in T => i \in T
      BY <1>7
    <2> HIDE DEF T
    <2> QED BY <1>1, <1>6, <2>1, Induct
  <1>9. f[n] = {}
    <2>1. n \in T
      BY <1>1, <1>8
    <2>2. IsFiniteSet(f[n]) /\ Cardinality(f[n]) = 0
      BY <1>1, <2>1
    <2> QED BY <2>2, FS_EmptySet
  <1>10. ASSUME NEW i \in 1 .. n PROVE Min(f[i - 1]) \in f[i - 1]
    <2>1. i - 1 \in 0 .. n
      BY <1>1
    <2>2. i - 1 \in T
      BY <1>8, <2>1
    <2> HIDE DEF T
    <2> QED BY <1>7, <2>2
  <1>11. Order(K, n, f)
    BY <1>3, <1>4, <1>9, <1>10 DEF Order
  <1> QED BY <1>1, <1>11

(* Positions of the i-th key and of its value in the list.                 *)
LEMMA Halves ==
    /\ \A i \in Nat : /\ (2 * i) % 2 = 0 /\ (2 * i) \div 2 = i
                      /\ (2 * i + 1) % 2 = 1 /\ (2 * i + 1) \div 2 = i
    /\ \A n \in Nat : \A k \in 1 .. 2 * n + 1 : k # 1 => k \div 2 \in 1 .. n
  OBVIOUS

(* A map in a message is an argument list: its size, then each key and its *)
(* value.                                                                  *)
MapTypes(n) == [k \in 1 .. 2 * n + 1 |-> IF k = 1 \/ k % 2 = 0 THEN "int" ELSE "string"]
MapArgs(d, n, key) ==
    [types |-> MapTypes(n),
     args |-> [k \in 1 .. 2 * n + 1 |->
                 IF k = 1 THEN <<n>>
                 ELSE IF k % 2 = 0 THEN <<key[k \div 2]>> ELSE d[key[k \div 2]]]]

LEMMA MapTypesAre ==
    ASSUME NEW n \in Nat
    PROVE  /\ MapTypes(n) \in Seq(Types) /\ Len(MapTypes(n)) = 2 * n + 1
           /\ MapTypes(n)[1] = "int"
           /\ \A i \in 1 .. n : MapTypes(n)[2 * i] = "int" /\ MapTypes(n)[2 * i + 1] = "string"
  <1> DEFINE t == MapTypes(n)
             l == 2 * n + 1
  <1>1. l \in Nat /\ 1 \in 1 .. l
        /\ \A i \in 1 .. n : 2 * i \in 1 .. l /\ 2 * i + 1 \in 1 .. l /\ 2 * i + 1 # 1 /\ i \in Nat
    OBVIOUS
  <1>2. t = [k \in 1 .. l |-> IF k = 1 \/ k % 2 = 0 THEN "int" ELSE "string"]
    BY DEF MapTypes
  <1> HIDE DEF t, l
  <1>3. t \in [1 .. l -> Types]
    BY <1>2, WidthTyped
  <1>4. t \in Seq(Types) /\ Len(t) = l
    BY <1>1, <1>3, SeqOfFunction
  <1>5. t[1] = "int"
    BY <1>1, <1>2
  <1>6. ASSUME NEW i \in 1 .. n PROVE t[2 * i] = "int" /\ t[2 * i + 1] = "string"
    <2>1. (2 * i) % 2 = 0 /\ (2 * i + 1) % 2 # 0
      BY <1>1, Halves
    <2> QED BY <1>1, <1>2, <2>1
  <1> QED BY <1>4, <1>5, <1>6 DEF t, l

LEMMA MapCounted ==
    ASSUME NEW K \in SUBSET Nat, NEW d \in [K -> Seq(Nat)], NEW n \in Nat, NEW key \in [1 .. n -> K]
    PROVE  LET q == MapArgs(d, n, key)
           IN /\ Counted(q, n) /\ q.types = MapTypes(n) /\ Len(q.args) = 2 * n + 1
              /\ \A i \in 1 .. n : q.args[2 * i] = <<key[i]>> /\ q.args[2 * i + 1] = d[key[i]]
  <1> DEFINE t == MapTypes(n)
             l == 2 * n + 1
             a == [k \in 1 .. l |->
                     IF k = 1 THEN <<n>>
                     ELSE IF k % 2 = 0 THEN <<key[k \div 2]>> ELSE d[key[k \div 2]]]
             q == MapArgs(d, n, key)
  <1>1. l \in Nat /\ l # 0 /\ 1 \in 1 .. l
        /\ \A i \in 1 .. n : 2 * i \in 1 .. l /\ 2 * i + 1 \in 1 .. l
                             /\ 2 * i + 1 # 1 /\ 2 * i # 1 /\ i \in Nat
    OBVIOUS
  <1>2. \A k \in 1 .. l : k # 1 => key[k \div 2] \in K /\ key[k \div 2] \in Nat
    <2>1. \A k \in 1 .. l : k # 1 => k \div 2 \in 1 .. n
      BY Halves
    <2> QED BY <2>1
  <1>3. ASSUME NEW k \in 1 .. l PROVE a[k] \in Seq(Nat) /\ a[k] \in ValuesOf(t[k])
    <2>1. t[k] = IF k = 1 \/ k % 2 = 0 THEN "int" ELSE "string"
      BY DEF MapTypes
    <2>2. Width["int"] = 1
      BY DEF Width
    <2>3. CASE k = 1
      <3>1. a[k] = <<n>>
        BY <2>3
      <3>2. <<n>> \in Seq(Nat) /\ Len(<<n>>) = 1
        OBVIOUS
      <3> HIDE DEF a, t
      <3> QED BY <2>1, <2>2, <2>3, <3>1, <3>2 DEF ValuesOf
    <2>4. CASE k # 1 /\ k % 2 = 0
      <3> DEFINE x == key[k \div 2]
      <3>1. a[k] = <<x>> /\ x \in Nat
        BY <1>2, <2>4
      <3> HIDE DEF x
      <3>2. <<x>> \in Seq(Nat) /\ Len(<<x>>) = 1
        BY <3>1
      <3> HIDE DEF a, t
      <3> QED BY <2>1, <2>2, <2>4, <3>1, <3>2 DEF ValuesOf
    <2>5. CASE k # 1 /\ k % 2 # 0
      <3>1. a[k] \in Seq(Nat)
        BY <1>2, <2>5
      <3> HIDE DEF a, t
      <3> QED BY <2>1, <2>5, <3>1 DEF ValuesOf
    <2> QED BY <2>3, <2>4, <2>5
  <1>4. a \in Seq(Seq(Nat)) /\ Len(a) = l
    <2>1. a \in [1 .. l -> Seq(Nat)]
      BY <1>3
    <2> HIDE DEF a, l
    <2> QED BY <1>1, <2>1, SeqOfFunction
  <1>5. q.types = t /\ q.args = a
    BY DEF MapArgs
  <1>6. a[1] = <<n>>
    BY <1>1
  <1>7. ASSUME NEW i \in 1 .. n PROVE a[2 * i] = <<key[i]>> /\ a[2 * i + 1] = d[key[i]]
    <2>1. /\ (2 * i) % 2 = 0 /\ (2 * i) \div 2 = i
          /\ (2 * i + 1) % 2 # 0 /\ (2 * i + 1) \div 2 = i
      BY <1>1, Halves
    <2> QED BY <1>1, <2>1
  <1>8. t \in Seq(Types) /\ Len(t) = l /\ t[1] = "int"
    BY MapTypesAre
  <1> HIDE DEF t, a, q, l
  <1>9. Counted(q, n)
    BY <1>1, <1>3, <1>4, <1>5, <1>6, <1>8 DEF Counted, WellTyped
  <1> QED BY <1>4, <1>5, <1>7, <1>9 DEF t, q, l

(* What is written of a map is what is written of its argument list.       *)
LEMMA MapPut ==
    ASSUME NEW K \in SUBSET Nat, NEW n \in Nat, n = Cardinality(K),
           NEW d \in [K -> Seq(Nat)], NEW left, Order(K, n, left),
           NEW key, key = [i \in 1 .. n |-> Min(left[i - 1])]
    PROVE  put_map(marshall, d) = marshal_args(MapArgs(d, n, key))
  <1> DEFINE q == MapArgs(d, n, key)
             f == [i \in 0 .. n |-> [m |-> marshalled(q)[2 * i + 1], left |-> left[i]]]
             none == [m |-> pack(marshall, n), left |-> K]
             g == pairs_put(marshall, d)
             Eq(h) == h = [i \in 0 .. n |-> IF i = 0 THEN none ELSE PutPair(h[i - 1], d)]
  <1>1. DOMAIN d = K
    OBVIOUS
  <1>2. key \in [1 .. n -> K] /\ \A i \in 1 .. n : key[i] = Min(left[i - 1])
    <2>1. ASSUME NEW i \in 1 .. n PROVE Min(left[i - 1]) \in K
      <3>1. i - 1 \in 0 .. n
        OBVIOUS
      <3> QED BY <3>1 DEF Order
    <2> QED BY <2>1
  <1>3. /\ Counted(q, n) /\ q.types = MapTypes(n) /\ Len(q.args) = 2 * n + 1
        /\ \A i \in 1 .. n : q.args[2 * i] = <<key[i]>> /\ q.args[2 * i + 1] = d[key[i]]
    BY <1>2, MapCounted
  <1> HIDE DEF q
  <1>4. /\ marshalled(q)[0] = marshall
        /\ \A k \in 1 .. 2 * n + 1 :
              marshalled(q)[k] = put_value(marshalled(q)[k - 1], q.types[k], q.args[k])
    <2>1. WellTyped(q)
      BY <1>3 DEF Counted
    <2>2. /\ marshalled(q)[0] = marshall
          /\ \A k \in 1 .. Len(q.args) :
                marshalled(q)[k] = put_value(marshalled(q)[k - 1], q.types[k], q.args[k])
      BY <2>1, MarshalledDef
    <2> QED BY <1>3, <2>2
  <1>12. \A i \in 1 .. n : q.types[2 * i] = "int" /\ q.types[2 * i + 1] = "string"
    <2>1. \A i \in 1 .. n : MapTypes(n)[2 * i] = "int" /\ MapTypes(n)[2 * i + 1] = "string"
      BY MapTypesAre
    <2> QED BY <1>3, <2>1
  <1>5. f[0] = none
    <2>1. 1 \in 1 .. 2 * n + 1 /\ 0 \in 0 .. n /\ 2 * 0 + 1 = 1 /\ 1 - 1 = 0
      OBVIOUS
    <2>2. marshalled(q)[1] = put_value(marshall, "int", <<n>>)
      <3>1. marshalled(q)[1] = put_value(marshalled(q)[1 - 1], q.types[1], q.args[1])
        BY <1>4, <2>1
      <3> QED BY <1>3, <1>4, <2>1, <3>1 DEF Counted
    <2>3. put_value(marshall, "int", <<n>>) = pack(marshall, n)
      BY DEF put_value, pack
    <2>4. f[0] = [m |-> marshalled(q)[1], left |-> left[0]]
      BY <2>1
    <2>5. left[0] = K
      BY DEF Order
    <2> HIDE DEF f
    <2> QED BY <2>2, <2>3, <2>4, <2>5
  <1>6. ASSUME NEW i \in 1 .. n PROVE f[i] = PutPair(f[i - 1], d)
    <2>1. /\ i \in 0 .. n /\ i - 1 \in 0 .. n
          /\ 2 * i \in 1 .. 2 * n + 1 /\ 2 * i + 1 \in 1 .. 2 * n + 1
          /\ (2 * i + 1) - 1 = 2 * i /\ 2 * (i - 1) + 1 = 2 * i - 1
      OBVIOUS
    <2> DEFINE m == marshalled(q)[2 * i - 1]
               a == key[i]
    <2>2. f[i - 1] = [m |-> m, left |-> left[i - 1]]
      BY <2>1
    <2>3. f[i] = [m |-> marshalled(q)[2 * i + 1], left |-> left[i]]
      BY <2>1
    <2> HIDE DEF f
    <2>4. marshalled(q)[2 * i] = put_value(m, "int", <<a>>)
      <3>1. marshalled(q)[2 * i] = put_value(marshalled(q)[2 * i - 1], q.types[2 * i], q.args[2 * i])
        BY <1>4, <2>1
      <3>2. q.types[2 * i] = "int" /\ q.args[2 * i] = <<a>>
        BY <1>3, <1>12
      <3> QED BY <3>1, <3>2
    <2>5. marshalled(q)[2 * i + 1] = put_value(marshalled(q)[2 * i], "string", d[a])
      <3>1. marshalled(q)[2 * i + 1]
              = put_value(marshalled(q)[(2 * i + 1) - 1], q.types[2 * i + 1], q.args[2 * i + 1])
        BY <1>4, <2>1
      <3>2. q.types[2 * i + 1] = "string" /\ q.args[2 * i + 1] = d[a]
        BY <1>3, <1>12
      <3> QED BY <2>1, <3>1, <3>2
    <2>6. put_value(m, "int", <<a>>) = pack(m, a)
      BY DEF put_value, pack
    <2>7. marshalled(q)[2 * i + 1] = put_string(pack(m, a), d[a])
      BY <2>4, <2>5, <2>6 DEF put_value
    <2>8. a = Min(left[i - 1]) /\ left[i] = left[i - 1] \ {a}
      BY <1>2 DEF Order
    <2> HIDE DEF m, a
    <2>9. PutPair([m |-> m, left |-> left[i - 1]], d)
            = [m |-> put_string(pack(m, a), d[a]), left |-> left[i - 1] \ {a}]
      BY <2>8 DEF PutPair
    <2> QED BY <2>2, <2>3, <2>7, <2>8, <2>9
  <1>7. Eq(f)
    <2>1. \A i \in 0 .. n : i # 0 => i \in 1 .. n
      OBVIOUS
    <2>2. f = [i \in 0 .. n |-> f[i]]
      OBVIOUS
    <2> HIDE DEF f, none
    <2>3. \A i \in 0 .. n : f[i] = IF i = 0 THEN none ELSE PutPair(f[i - 1], d)
      BY <1>5, <1>6, <2>1
    <2> QED BY <2>2, <2>3
  <1>8. Eq(g)
    <2>1. g = CHOOSE h : Eq(h)
      BY <1>1 DEF pairs_put
    <2> HIDE DEF Eq, g, f
    <2> QED BY <1>7, <2>1
  <1>9. g[n] = f[n]
    <2> DEFINE T == {i \in 0 .. n : g[i] = f[i]}
    <2>1. 0 \in T
      <3>1. 0 \in 0 .. n
        OBVIOUS
      <3> HIDE DEF f, g, none
      <3> QED BY <1>5, <1>8, <3>1
    <2>2. ASSUME NEW i \in 1 .. n, i - 1 \in T PROVE i \in T
      <3>1. i \in 0 .. n /\ i # 0
        OBVIOUS
      <3> HIDE DEF f, g, none
      <3> QED BY <1>6, <1>8, <2>2, <3>1
    <2>3. n \in 0 .. n
      OBVIOUS
    <2> HIDE DEF T
    <2>4. n \in T
      BY <2>1, <2>2, <2>3, Induct
    <2> QED BY <2>4 DEF T
  <1>10. f[n] = [m |-> marshalled(q)[2 * n + 1], left |-> left[n]]
    <2>1. n \in 0 .. n
      OBVIOUS
    <2> QED BY <2>1
  <1>11. put_map(marshall, d) = g[n].m
    BY <1>1 DEF put_map
  <1> HIDE DEF f, g
  <1>13. marshal_args(q) = marshalled(q)[2 * n + 1]
    BY <1>3 DEF marshal_args
  <1>14. f[n].m = marshalled(q)[2 * n + 1]
    BY <1>10
  <1> QED BY <1>9, <1>11, <1>13, <1>14 DEF q

(* What a map of the strings may be, and a reader with one.                *)
Maps == UNION {[K -> Seq(Nat)] : K \in SUBSET Nat}
MapReads(u) == {rd \in [u : NatReader, v : Maps] : rd.u.buf = u.buf}

(* A reader goes on where it is.                                           *)
LEMMA ReadsOn ==
    ASSUME NEW r \in NatReader, NEW type \in Types
    PROVE  /\ get_value(r, type).u \in NatReader
           /\ get_value(r, type).u.buf = r.buf
           /\ get_value(r, type).v \in Seq(Nat)
           /\ unpack(r) = get_value(r, "int") /\ unpack(r).v[1] \in Nat
           /\ get_string(r) = get_value(r, "string")
  <1>1. r \in Reader /\ r.buf \in Seq(Nat) /\ r.ind <= Len(r.buf)
    BY DEF NatReader
  <1> DEFINE a == get_value(r, type)
  <1>2. a.u \in Reader /\ a.u.buf = r.buf /\ a.u.ind <= Len(r.buf) /\ a.v \in Seq(Nat)
    BY <1>1, GetValueOk
  <1> HIDE DEF a
  <1>3. a.u \in NatReader
    BY <1>1, <1>2 DEF NatReader
  <1>4. unpack(r) = get_value(r, "int") /\ get_string(r) = get_value(r, "string")
    BY DEF get_value, unpack, Width
  <1>5. unpack(r).v[1] \in Nat
    <2>1. unpack(r).v[1] = IF r.ind + 1 <= Len(r.buf) THEN r.buf[r.ind + 1] ELSE 0
      BY DEF unpack, read_cells
    <2>2. r.ind \in Nat /\ Len(r.buf) \in Nat
      BY <1>1 DEF Reader
    <2>3. r.ind + 1 <= Len(r.buf) => r.buf[r.ind + 1] \in Nat
      BY <1>1, <2>2
    <2> DEFINE c == unpack(r).v[1]
               e == r.buf[r.ind + 1]
    <2>4. c = (IF r.ind + 1 <= Len(r.buf) THEN e ELSE 0)
          /\ (r.ind + 1 <= Len(r.buf) => e \in Nat)
      BY <2>1, <2>3
    <2> HIDE DEF c, e
    <2>5. c \in Nat
      BY <2>4
    <2> QED BY <2>5 DEF c
  <1> QED BY <1>2, <1>3, <1>4, <1>5 DEF a

(* A map after d[a] = b.                                                   *)
Added(d, a, b) == [k \in {a} \cup DOMAIN d |-> IF k = a THEN b ELSE d[k]]

(* Reading n pairs is reading their keys and values as arguments.          *)
ReadsAsPairs(u, e, n) ==
    LET get == pairs_got(u, <<>>)
        um == unmarshalled(u, MapTypes(n))
    IN /\ get_map(u, e) = get[n]
       /\ \A i \in 0 .. n : get[i].u = um[2 * i + 1].u
       /\ get[0] = [u |-> unpack(u).u, v |-> <<>>]
       /\ \A i \in 1 .. n :
             get[i].v = Added(get[i - 1].v, get_value(um[2 * i - 1].u, "int").v[1],
                              get_value(um[2 * i].u, "string").v)

LEMMA InsertRead ==
    ASSUME NEW u \in NatReader, NEW rd \in MapReads(u)
    PROVE  /\ Insert(rd) \in MapReads(u)
           /\ Insert(rd).u = get_value(get_value(rd.u, "int").u, "string").u
           /\ Insert(rd).v = Added(rd.v, get_value(rd.u, "int").v[1],
                                   get_value(get_value(rd.u, "int").u, "string").v)
  <1> DEFINE a == get_value(rd.u, "int")
             b == get_value(a.u, "string")
             d == Added(rd.v, a.v[1], b.v)
  <1>1. rd.u \in NatReader /\ rd.u.buf = u.buf /\ rd.v \in Maps
    BY DEF MapReads
  <1>2. "int" \in Types /\ "string" \in Types
    BY WidthTyped
  <1>3. /\ a.u \in NatReader /\ a.u.buf = u.buf
        /\ unpack(rd.u) = a /\ a.v[1] \in Nat
    BY <1>1, <1>2, ReadsOn
  <1> HIDE DEF a
  <1>4. /\ b.u \in NatReader /\ b.u.buf = u.buf /\ b.v \in Seq(Nat)
        /\ get_string(a.u) = b
    BY <1>2, <1>3, ReadsOn
  <1> HIDE DEF b
  <1>5. d \in Maps
    <2>1. PICK K \in SUBSET Nat : rd.v \in [K -> Seq(Nat)]
      BY <1>1 DEF Maps
    <2> DEFINE L == {a.v[1]} \cup K
    <2>2. L \in SUBSET Nat /\ DOMAIN rd.v = K
      BY <1>3, <2>1
    <2>3. d \in [L -> Seq(Nat)]
      BY <1>4, <2>1, <2>2 DEF Added
    <2> HIDE DEF L, d
    <2> QED BY <2>2, <2>3 DEF Maps
  <1>6. Insert(rd) = [u |-> b.u, v |-> d]
    BY <1>3, <1>4 DEF Insert, Added
  <1> HIDE DEF d
  <1>7. Insert(rd) \in MapReads(u)
    BY <1>4, <1>5, <1>6 DEF MapReads
  <1> QED BY <1>6, <1>7 DEF a, b, d

LEMMA MapGot ==
    ASSUME NEW u, NEW n, AtCount(u, n), NEW e
    PROVE  ReadsAsPairs(u, e, n)
  <1> DEFINE get == pairs_got(u, <<>>)
             types == MapTypes(n)
             um == unmarshalled(u, types)
             S == MapReads(u)
             none == [u |-> unpack(u).u, v |-> <<>>]
             F == [k \in 1 .. n |-> [rd \in S |-> Insert(rd)]]
  <1>0. u \in NatReader /\ u.ind = RPC_HEADER_SZ /\ u.ok = TRUE /\ n \in Nat /\ unpack(u).v[1] = n
    BY DEF AtCount
  <1>1. /\ types \in Seq(Types) /\ Len(types) = 2 * n + 1 /\ types[1] = "int"
        /\ \A i \in 1 .. n : types[2 * i] = "int" /\ types[2 * i + 1] = "string"
    BY <1>0, MapTypesAre
  <1>2. ASSUME NEW rd \in S
        PROVE  /\ Insert(rd) \in S
               /\ Insert(rd).u = GetArg(GetArg(rd, "int"), "string").u
               /\ Insert(rd).v = Added(rd.v, get_value(rd.u, "int").v[1],
                                       get_value(GetArg(rd, "int").u, "string").v)
    <2>1. GetArg(rd, "int").u = get_value(rd.u, "int").u
      BY DEF GetArg
    <2>2. GetArg(GetArg(rd, "int"), "string").u = get_value(GetArg(rd, "int").u, "string").u
      BY DEF GetArg
    <2> QED BY <1>0, <2>1, <2>2, InsertRead
  <1>3. none \in S
    <2>1. "int" \in Types /\ <<>> \in Maps
      <3>1. <<>> \in [{} -> Seq(Nat)] /\ {} \in SUBSET Nat
        OBVIOUS
      <3> QED BY <3>1, WidthTyped DEF Maps
    <2>2. unpack(u).u \in NatReader /\ unpack(u).u.buf = u.buf
      BY <1>0, <2>1, ReadsOn
    <2> QED BY <2>1, <2>2 DEF MapReads
  <1> HIDE DEF S, types
  <1>4. F \in [1 .. n -> [S -> S]]
    BY <1>2
  <1>5. PICK f \in [0 .. n -> S] : Iterates(f, n, none, F)
    <2> HIDE DEF F, none
    <2> QED BY <1>0, <1>3, <1>4, Recursion
  <1>6. \A k \in 1 .. n : k - 1 \in 0 .. n /\ k \in 0 .. n
    BY <1>0
  <1>7. \A k \in 1 .. n : f[k] = Insert(f[k - 1])
    BY <1>5, <1>6 DEF Iterates
  <1> DEFINE Eq(g) == g = [k \in 0 .. n |-> IF k = 0 THEN none ELSE Insert(g[k - 1])]
  <1>8. Eq(f)
    <2>1. \A k \in 0 .. n : k # 0 => k \in 1 .. n
      BY <1>0
    <2> HIDE DEF none
    <2>2. \A k \in 0 .. n : f[k] = IF k = 0 THEN none ELSE Insert(f[k - 1])
      BY <1>5, <1>7, <2>1 DEF Iterates
    <2>3. f = [k \in 0 .. n |-> f[k]]
      BY <1>5
    <2> QED BY <2>2, <2>3
  <1>9. Eq(get)
    <2>1. get = CHOOSE h : Eq(h)
      BY <1>0 DEF pairs_got
    <2> HIDE DEF Eq, get
    <2> QED BY <1>8, <2>1
  <1>10. get_map(u, e) = get[n]
    BY <1>0 DEF get_map
  <1> HIDE DEF get, none
  <1>11. get[0] = none /\ \A k \in 1 .. n : get[k] = Insert(get[k - 1])
    <2>1. 0 \in 0 .. n /\ \A k \in 1 .. n : k \in 0 .. n /\ k # 0
      BY <1>0
    <2> QED BY <1>9, <2>1
  <1>12. /\ um[0] = [u |-> u, v |-> <<>>]
         /\ \A k \in 1 .. 2 * n + 1 : um[k] = GetArg(um[k - 1], types[k])
    BY <1>0, <1>1, UnmarshalledDef
  <1> HIDE DEF um
  <1>13. um[1].u = unpack(u).u
    <2>1. 1 \in 1 .. 2 * n + 1
      BY <1>0
    <2>2. um[1] = GetArg(um[0], "int")
      BY <1>1, <1>12, <2>1
    <2>3. unpack(u) = get_value(u, "int")
      BY <1>0, CountRead
    <2> QED BY <1>12, <2>2, <2>3 DEF GetArg
  <1>14. ASSUME NEW i \in 1 .. n
         PROVE  /\ um[2 * i] = GetArg(um[2 * i - 1], "int")
                /\ um[2 * i + 1] = GetArg(um[2 * i], "string")
    <2>1. /\ 2 * i \in 1 .. 2 * n + 1 /\ 2 * i + 1 \in 1 .. 2 * n + 1 /\ (2 * i + 1) - 1 = 2 * i
      BY <1>0
    <2>2. um[2 * i + 1] = GetArg(um[(2 * i + 1) - 1], types[2 * i + 1])
      BY <1>12, <2>1
    <2>3. um[2 * i] = GetArg(um[2 * i - 1], types[2 * i])
      BY <1>12, <2>1
    <2> QED BY <1>1, <2>1, <2>2, <2>3
  <1> DEFINE T == {i \in 0 .. n : get[i] \in S /\ get[i].u = um[2 * i + 1].u}
  <1>15. 0 \in T
    <2>1. 0 \in 0 .. n /\ 2 * 0 + 1 = 1
      BY <1>0
    <2>2. get[0].u = unpack(u).u
      BY <1>11 DEF none
    <2> QED BY <1>3, <1>11, <1>13, <2>1, <2>2
  <1>16. ASSUME NEW i \in 1 .. n, i - 1 \in T
         PROVE  /\ i \in T
                /\ get[i].v = Added(get[i - 1].v, get_value(um[2 * i - 1].u, "int").v[1],
                                    get_value(um[2 * i].u, "string").v)
    <2> DEFINE rd == get[i - 1]
               r == um[2 * i - 1]
    <2>1. i \in 0 .. n /\ 2 * (i - 1) + 1 = 2 * i - 1
      BY <1>0
    <2>2. rd \in S /\ rd.u = r.u
      BY <1>16, <2>1
    <2>3. get[i] = Insert(rd)
      BY <1>11
    <2>4. um[2 * i] = GetArg(r, "int") /\ um[2 * i + 1] = GetArg(um[2 * i], "string")
      BY <1>14
    <2> HIDE DEF rd, r
    <2>5. GetArg(rd, "int").u = GetArg(r, "int").u
      BY <2>2 DEF GetArg
    <2>6. GetArg(GetArg(rd, "int"), "string").u = GetArg(GetArg(r, "int"), "string").u
      BY <2>5 DEF GetArg
    <2>7. get[i] \in S /\ get[i].u = um[2 * i + 1].u
      BY <1>2, <2>2, <2>3, <2>4, <2>6
    <2>8. get[i].v = Added(rd.v, get_value(r.u, "int").v[1], get_value(um[2 * i].u, "string").v)
      BY <1>2, <2>2, <2>3, <2>4, <2>5
    <2> QED BY <2>1, <2>7, <2>8 DEF rd, r
  <1>17. \A i \in 0 .. n : i \in T
    <2>1. \A i \in 1 .. n : i - 1 \in T => i \in T
      BY <1>16
    <2> HIDE DEF T
    <2> QED BY <1>0, <1>15, <2>1, Induct
  <1>18. \A i \in 1 .. n :
            get[i].v = Added(get[i - 1].v, get_value(um[2 * i - 1].u, "int").v[1],
                             get_value(um[2 * i].u, "string").v)
    <2> TAKE i \in 1 .. n
    <2>1. i - 1 \in T
      BY <1>6, <1>17
    <2> HIDE DEF T
    <2> QED BY <1>16, <2>1
  <1>19. get[0] = [u |-> unpack(u).u, v |-> <<>>]
    BY <1>11 DEF none
  <1> QED BY <1>10, <1>17, <1>18, <1>19 DEF ReadsAsPairs, get, um, types

(* A map read back replaces what the variable held, and none is accepted   *)
(* from a message that is cut short or too long: marshall.h's << and >> of *)
(* a map, for any finite map of ints to strings.                           *)
THEOREM MapsReadBack ==
    \A K \in SUBSET Nat : IsFiniteSet(K) =>
        \A d \in [K -> Seq(Nat)] : \A e : MapReadBack(d, e)
  <1> SUFFICES ASSUME NEW K \in SUBSET Nat, IsFiniteSet(K), NEW d \in [K -> Seq(Nat)], NEW e
               PROVE  MapReadBack(d, e)
    OBVIOUS
  <1> DEFINE n == Cardinality(K)
  <1>1. n \in Nat /\ \E left : Order(K, n, left)
    BY KeyOrder
  <1> HIDE DEF n
  <1>2. PICK left : Order(K, n, left)
    BY <1>1
  <1> DEFINE key == [i \in 1 .. n |-> Min(left[i - 1])]
             q == MapArgs(d, n, key)
             types == MapTypes(n)
             u == Sent(put_map(marshall, d))
             get == pairs_got(u, <<>>)
             um == unmarshalled(u, types)
  <1>3. \A i \in 1 .. n : /\ key[i] \in left[i - 1] /\ left[i] = left[i - 1] \ {key[i]}
                          /\ left[i - 1] \in SUBSET K
    <2>1. \A i \in 1 .. n : i - 1 \in 0 .. n
      BY <1>1
    <2> QED BY <1>2, <2>1 DEF Order
  <1>4. key \in [1 .. n -> K]
    <2>1. \A i \in 1 .. n : Min(left[i - 1]) \in K
      BY <1>3
    <2> QED BY <2>1
  <1>5. /\ Counted(q, n) /\ q.types = types /\ Len(q.args) = 2 * n + 1
        /\ \A i \in 1 .. n : q.args[2 * i] = <<key[i]>> /\ q.args[2 * i + 1] = d[key[i]]
    BY <1>1, <1>4, MapCounted
  <1>6. put_map(marshall, d) = marshal_args(q)
    <2>1. n = Cardinality(K)
      BY DEF n
    <2>2. PICK y : y = key
      OBVIOUS
    <2> HIDE DEF q
    <2>3. put_map(marshall, d) = marshal_args(MapArgs(d, n, y))
      BY <1>1, <1>2, <2>1, <2>2, MapPut
    <2> QED BY <2>2, <2>3 DEF q
  <1>7. \A i \in 1 .. n : types[2 * i] = "int" /\ types[2 * i + 1] = "string"
    BY <1>1, MapTypesAre
  <1> HIDE DEF key, q, types, u
  <1>8. /\ u \in NatReader /\ u.ind = RPC_HEADER_SZ /\ u.ok = TRUE
        /\ ReaderOver(u, q) /\ unpack(u).v[1] = n
        /\ okdone(unmarshalled(u, types)[2 * n + 1].u)
        /\ Longer(u) \in NatReader /\ Longer(u).ind = RPC_HEADER_SZ /\ Longer(u).ok = TRUE
        /\ unpack(Longer(u)).v[1] = n
        /\ ~okdone(unmarshalled(Longer(u), types)[2 * n + 1].u)
        /\ Cut(u) \in NatReader /\ Cut(u).ind = RPC_HEADER_SZ /\ Cut(u).ok = TRUE
        /\ \/ unpack(Cut(u)).v[1] = n /\ ~okdone(unmarshalled(Cut(u), types)[2 * n + 1].u)
           \/ unpack(Cut(u)).v[1] = 0 /\ ~unpack(Cut(u)).u.ok
    <2>1. u = Sent(marshal_args(q))
      BY <1>6 DEF u
    <2> QED BY <1>5, <2>1, ListRead
  <1>9. ASSUME NEW r, AtCount(r, n)
        PROVE  get_map(r, e).u = unmarshalled(r, types)[2 * n + 1].u
    <2>1. n \in 0 .. n
      BY <1>1
    <2>2. ReadsAsPairs(r, e, n)
      BY <1>9, MapGot
    <2>3. /\ get_map(r, e) = pairs_got(r, <<>>)[n]
          /\ \A i \in 0 .. n :
                pairs_got(r, <<>>)[i].u = unmarshalled(r, MapTypes(n))[2 * i + 1].u
      BY <2>2 DEF ReadsAsPairs
    <2> QED BY <2>1, <2>3 DEF types
  <1>10. okdone(get_map(u, e).u) /\ ~okdone(get_map(Longer(u), e).u)
    <2>1. AtCount(u, n) /\ AtCount(Longer(u), n)
      BY <1>1, <1>8 DEF AtCount
    <2> QED BY <1>8, <1>9, <2>1
  <1>11. ~okdone(get_map(Cut(u), e).u)
    <2>1. CASE unpack(Cut(u)).v[1] = n /\ ~okdone(unmarshalled(Cut(u), types)[2 * n + 1].u)
      <3>1. AtCount(Cut(u), n)
        BY <1>1, <1>8, <2>1 DEF AtCount
      <3> QED BY <1>9, <2>1, <3>1
    <2>2. CASE unpack(Cut(u)).v[1] = 0 /\ ~unpack(Cut(u)).u.ok
      <3>1. AtCount(Cut(u), 0)
        BY <1>8, <2>2 DEF AtCount
      <3>2. get_map(Cut(u), e) = [u |-> unpack(Cut(u)).u, v |-> <<>>]
        <4>1. ReadsAsPairs(Cut(u), e, 0)
          BY <3>1, MapGot
        <4> QED BY <4>1 DEF ReadsAsPairs
      <3> QED BY <2>2, <3>2 DEF okdone
    <2> QED BY <1>8, <2>1, <2>2
  <1>12. /\ get_map(u, e) = get[n]
         /\ get[0].v = <<>>
         /\ \A i \in 1 .. n : get[i].v = Added(get[i - 1].v, key[i], d[key[i]])
    <2>1. /\ get_map(u, e) = get[n] /\ get[0].v = <<>>
          /\ \A i \in 1 .. n :
                get[i].v = Added(get[i - 1].v, get_value(um[2 * i - 1].u, "int").v[1],
                                 get_value(um[2 * i].u, "string").v)
      <3>1. AtCount(u, n)
        BY <1>1, <1>8 DEF AtCount
      <3>2. ReadsAsPairs(u, e, n)
        BY <3>1, MapGot
      <3> QED BY <3>2 DEF ReadsAsPairs, types
    <2> HIDE DEF get
    <2>2. ASSUME NEW i \in 1 .. n
          PROVE  /\ get_value(um[2 * i - 1].u, "int").v[1] = key[i]
                 /\ get_value(um[2 * i].u, "string").v = d[key[i]]
      <3>1. /\ 2 * i \in 1 .. Len(q.args) /\ 2 * i + 1 \in 1 .. Len(q.args)
            /\ (2 * i + 1) - 1 = 2 * i
        BY <1>1, <1>5
      <3>2. WellTyped(q) /\ \A k \in 1 .. Len(q.args) : q.args[k] \in ValuesOf(q.types[k])
        BY <1>5 DEF Counted
      <3>3. \A k \in 1 .. Len(q.args) :
               get_value(unmarshalled(u, q.types)[k - 1].u, q.types[k]).v = q.args[k]
        <4>1. ReaderOver(u, q)
          BY <1>8
        <4> QED BY <3>2, <4>1, ArgsRead
      <3>4. get_value(unmarshalled(u, q.types)[2 * i - 1].u, q.types[2 * i]).v = q.args[2 * i]
        BY <3>1, <3>3
      <3>5. get_value(unmarshalled(u, q.types)[(2 * i + 1) - 1].u, q.types[2 * i + 1]).v
              = q.args[2 * i + 1]
        BY <3>1, <3>3
      <3>6. get_value(um[2 * i - 1].u, "int").v = <<key[i]>>
        BY <1>5, <1>7, <3>4
      <3>7. get_value(um[2 * i].u, "string").v = d[key[i]]
        BY <1>5, <1>7, <3>1, <3>5
      <3> QED BY <3>6, <3>7
    <2> QED BY <2>1, <2>2
  <1> HIDE DEF get
  <1>13. get[n].v = d
    <2> DEFINE T == {i \in 0 .. n : get[i].v = [k \in K \ left[i] |-> d[k]]}
    <2>1. 0 \in T
      <3>1. K \ left[0] = {}
        BY <1>2 DEF Order
      <3>2. <<>> = [k \in {} |-> d[k]]
        OBVIOUS
      <3>3. [k \in K \ left[0] |-> d[k]] = [k \in {} |-> d[k]]
        BY <3>1
      <3>4. 0 \in 0 .. n
        BY <1>1
      <3> QED BY <1>12, <3>2, <3>3, <3>4
    <2>2. ASSUME NEW i \in 1 .. n, i - 1 \in T PROVE i \in T
      <3> DEFINE a == key[i]
                 L == K \ left[i - 1]
      <3>1. i \in 0 .. n
        BY <1>1
      <3>2. {a} \cup L = K \ left[i]
        BY <1>3
      <3>3. get[i].v = Added([k \in L |-> d[k]], a, d[a])
        BY <1>12, <2>2
      <3> HIDE DEF a, L
      <3>4. Added([k \in L |-> d[k]], a, d[a]) = [k \in {a} \cup L |-> d[k]]
        BY DEF Added
      <3> QED BY <3>1, <3>2, <3>3, <3>4
    <2>3. n \in T
      <3>1. n \in 0 .. n
        BY <1>1
      <3> HIDE DEF T
      <3> QED BY <1>1, <2>1, <2>2, <3>1, Induct
    <2>4. K \ left[n] = K
      BY <1>2 DEF Order
    <2>5. d = [k \in K |-> d[k]]
      OBVIOUS
    <2> QED BY <2>3, <2>4, <2>5
  <1> QED BY <1>10, <1>11, <1>12, <1>13 DEF MapReadBack, u

(* What the run rpc checks of the containers holds whatever a method may   *)
(* leave in a string: of marshall.h's templates for a vector and a map.    *)
THEOREM ContainersAreReadBack == Spec => []ContainersReadBack
  <1> DEFINE strings == Results["string"]
             vectors == {<<>>} \cup {<<s, t>> : s, t \in strings}
             maps == UNION {[K -> strings] : K \in SUBSET {1, 2}}
  <1>1. strings \subseteq Seq(Nat)
    BY ProcsAssumption DEF ValuesOf
  <1>2. vectors \subseteq Seq(Seq(Nat))
    <2> HIDE DEF strings
    <2>1. ASSUME NEW s \in strings, NEW t \in strings PROVE <<s, t>> \in Seq(Seq(Nat))
      <3>1. s \in Seq(Nat) /\ t \in Seq(Nat)
        BY <1>1
      <3> QED BY <3>1
    <2>2. <<>> \in Seq(Seq(Nat))
      OBVIOUS
    <2>3. ASSUME NEW x \in vectors PROVE x \in Seq(Seq(Nat))
      <3>1. CASE x = <<>>
        BY <2>2, <3>1
      <3>2. CASE x # <<>>
        <4>1. PICK s \in strings, t \in strings : x = <<s, t>>
          BY <3>2
        <4> QED BY <2>1, <4>1
      <3> QED BY <3>1, <3>2
    <2> HIDE DEF vectors
    <2> QED BY <2>3
  <1>3. \A v, w \in vectors : VectorReadBack(v, w)
    <2> HIDE DEF vectors
    <2> QED BY <1>2, VectorsReadBack
  <1>4. \A d, e \in maps : MapReadBack(d, e)
    <2> TAKE d, e \in maps
    <2>1. PICK K \in SUBSET {1, 2} : d \in [K -> strings]
      OBVIOUS
    <2>2. K \in SUBSET Nat /\ 2 \in Nat /\ \A k \in K : k <= 2
      OBVIOUS
    <2>3. IsFiniteSet(K)
      BY <2>2, FS_BoundedSetOfNaturals
    <2>4. d \in [K -> Seq(Nat)]
      BY <1>1, <2>1
    <2> HIDE DEF maps
    <2> QED BY <2>2, <2>3, <2>4, MapsReadBack
  <1>5. ContainersReadBack
    <2> HIDE DEF vectors, maps
    <2> QED BY <1>3, <1>4 DEF ContainersReadBack, vectors, maps, strings
  <1> QED BY <1>5, PTL DEF Spec
=============================================================================
