------------------------------ MODULE Marshall ------------------------------
(***************************************************************************)
(* marshall.h: a message is a buffer in which a header of fixed size comes *)
(* first and then the values, one after the other and without their types. *)
(* The values are written first and the header over the front of the       *)
(* buffer afterwards, with the write position moved there and back.        *)
(*                                                                         *)
(* The unit is a cell, which stands for an int and for a char of a string. *)
(* A value is the sequence of its cells: an int is one, an unsigned long   *)
(* long two, extent_protocol::attr five, a string its chars.               *)
(* The build does not define RPC_CHECKSUMMING.                             *)
(***************************************************************************)
EXTENDS Integers, Sequences, SequencesExt

sizeof_req_header == 5     \* xid, proc, clt_nonce, srv_nonce, xid_rep
sizeof_reply_header == 2   \* xid, ret
sizeof_rpc_sz == 1         \* filled in by the channel

RPC_HEADER_SZ_no_sz == Max({sizeof_req_header, sizeof_reply_header})
RPC_HEADER_SZ == Max({sizeof_req_header, sizeof_reply_header}) + sizeof_rpc_sz
-----------------------------------------------------------------------------
(* class marshall: the buffer and the write position.                      *)
marshall == [buf |-> [k \in 1 .. RPC_HEADER_SZ |-> 0], ind |-> RPC_HEADER_SZ]

(* Cells are written over what is at the write position, or added there.   *)
rawbytes(m, cells) ==
    [buf |-> SubSeq(m.buf, 1, m.ind) \o cells \o SubSeq(m.buf, m.ind + Len(cells) + 1, Len(m.buf)),
     ind |-> m.ind + Len(cells)]
pack(m, cell) == rawbytes(m, <<cell>>)

pack_header(m, cells) ==
    [rawbytes([m EXCEPT !.ind = sizeof_rpc_sz], cells) EXCEPT !.ind = m.ind]
pack_req_header_proc_first(m, h) ==
    pack_header(m, <<h.proc, h.xid, h.clt_nonce, h.srv_nonce, h.xid_rep>>)
pack_req_header(m, h) ==
    pack_header(m, <<h.xid, h.proc, h.clt_nonce, h.srv_nonce, h.xid_rep>>)
pack_reply_header(m, h) == pack_header(m, <<h.xid, h.ret>>)

(* What is sent: the buffer up to the write position.                      *)
take_buf(m) == SubSeq(m.buf, 1, m.ind)
-----------------------------------------------------------------------------
(* class unmarshall: the buffer, the read position, and whether it ever    *)
(* ran past the end.  A read returns the reader and the cells read; past   *)
(* the end it reads zeros and stays there.                                 *)
unmarshall(b) == [buf |-> b, ind |-> 0, ok |-> TRUE]

read_cells(u, n) ==
    LET fits == u.ind + n <= Len(u.buf)
    IN [u |-> [u EXCEPT !.ind = IF fits THEN @ + n ELSE Len(u.buf), !.ok = @ /\ fits],
        v |-> [k \in 1 .. n |-> IF u.ind + k <= Len(u.buf) THEN u.buf[u.ind + k] ELSE 0]]
unpack(u) == read_cells(u, 1)

okdone_prefix(u) == u.ok
okdone(u) == u.ok /\ u.ind = Len(u.buf)

unpack_header(u, n) ==
    LET rd == read_cells([u EXCEPT !.ind = sizeof_rpc_sz], n)
    IN [u |-> [rd.u EXCEPT !.ind = RPC_HEADER_SZ], v |-> rd.v]
unpack_req_header(u) ==
    LET rd == unpack_header(u, sizeof_req_header)
    IN [u |-> rd.u, h |-> [xid |-> rd.v[1], proc |-> rd.v[2], clt_nonce |-> rd.v[3],
                           srv_nonce |-> rd.v[4], xid_rep |-> rd.v[5]]]
unpack_reply_header(u) ==
    LET rd == unpack_header(u, sizeof_reply_header)
    IN [u |-> rd.u, h |-> [xid |-> rd.v[1], ret |-> rd.v[2]]]
-----------------------------------------------------------------------------
(* The operators << and >> of the types in the extent protocol.            *)
Width == [int |-> 1, extentid_t |-> 2, attr |-> 5]
Types == {"string"} \cup DOMAIN Width
ValuesOf(type) == {v \in Seq(Nat) : type # "string" => Len(v) = Width[type]}

put_string(m, s) == rawbytes(pack(m, Len(s)), s)
put_value(m, type, v) == IF type = "string" THEN put_string(m, v) ELSE rawbytes(m, v)

get_string(u) == LET n == unpack(u)
                 IN IF n.u.ok /\ n.u.ind + n.v[1] <= Len(n.u.buf)
                    THEN read_cells(n.u, n.v[1])
                    ELSE [u |-> [n.u EXCEPT !.ok = FALSE], v |-> <<>>]
get_value(u, type) == IF type = "string" THEN get_string(u) ELSE read_cells(u, Width[type])
-----------------------------------------------------------------------------
(* Containers, here of strings.  >> adds to what a vector holds already,   *)
(* but replaces what a map holds.  What the loops have written or read     *)
(* after i elements is the i-th value of a function.                       *)
elements_put(m, v) ==
    LET put[i \in 0 .. Len(v)] ==
            IF i = 0 THEN pack(m, Len(v)) ELSE put_string(put[i - 1], v[i])
    IN put
put_vector(m, v) == elements_put(m, v)[Len(v)]

PushBack(rd) == LET z == get_string(rd.u) IN [u |-> z.u, v |-> Append(rd.v, z.v)]
elements_got(u, v) ==
    LET n == unpack(u)
        get[i \in 0 .. n.v[1]] == IF i = 0 THEN [u |-> n.u, v |-> v] ELSE PushBack(get[i - 1])
    IN get
get_vector(u, v) == elements_got(u, v)[unpack(u).v[1]]

(* A map is iterated by its keys, the least first.                         *)
PutPair(at, d) ==
    LET a == Min(at.left)
    IN [m |-> put_string(pack(at.m, a), d[a]), left |-> at.left \ {a}]
pairs_put(m, d) ==
    LET n == Cardinality(DOMAIN d)
        put[i \in 0 .. n] ==
            IF i = 0 THEN [m |-> pack(m, n), left |-> DOMAIN d] ELSE PutPair(put[i - 1], d)
    IN put
put_map(m, d) == pairs_put(m, d)[Cardinality(DOMAIN d)].m

Insert(rd) ==
    LET a == unpack(rd.u)
        b == get_string(a.u)
    IN [u |-> b.u,
        v |-> [k \in {a.v[1]} \cup DOMAIN rd.v |-> IF k = a.v[1] THEN b.v ELSE rd.v[k]]]
pairs_got(u, d) ==
    LET n == unpack(u)
        get[i \in 0 .. n.v[1]] == IF i = 0 THEN [u |-> n.u, v |-> d] ELSE Insert(get[i - 1])
    IN get
get_map_into(u, d) == pairs_got(u, d)[unpack(u).v[1]]
get_map(u, d) == pairs_got(u, <<>>)[unpack(u).v[1]]
=============================================================================
