-------------------------------- MODULE Rpc ---------------------------------
(***************************************************************************)
(* The templates of rpc.h: rpcc::call and call_m on the client's threads,  *)
(* the handlers that rpcs::reg makes on the server's, and the messages of  *)
(* Marshall between them.  A message carries no types: client and server   *)
(* each bring their own idea of a procedure's, and whether the whole       *)
(* message was consumed is all that is compared.                           *)
(*                                                                         *)
(* What lies between, rpcc::call1 and rpcs::dispatch, is in the library    *)
(* and known here by its use: a reply is given to the caller whose xid it  *)
(* carries, in any order, and call1 may give up before that.               *)
(***************************************************************************)
EXTENDS Marshall

CONSTANTS Callers,     \* client threads
          Procs,       \* registered: proc |-> [args : types, ret : type]
          Calls,       \* what clients call: [proc, types, args, ret]
          Results,     \* type |-> what a method may leave in r
          Statuses,    \* what a method may return
          MaxXid       \* bound on the calls of a behaviour

(* Every value is one of its type; a method's status is one of the enum of *)
(* extent_protocol, none of which is negative.                             *)
ASSUME ProcsAssumption ==
    /\ DOMAIN Procs \subseteq Nat
    /\ \A p \in DOMAIN Procs : /\ Procs[p].args \in Seq(Types) /\ Procs[p].ret \in Types
                              /\ Results[Procs[p].ret] \subseteq ValuesOf(Procs[p].ret)
    /\ Results["string"] \subseteq ValuesOf("string")
    /\ Statuses \subseteq Nat /\ MaxXid \in Nat
ASSUME CallsAssumption ==
    /\ Calls \subseteq [proc : DOMAIN Procs, types : Seq(Types), args : Seq(Seq(Nat)), ret : Types]
    /\ \A q \in Calls : /\ Len(q.types) = Len(q.args)
                        /\ \A k \in 1 .. Len(q.args) : q.args[k] \in ValuesOf(q.types[k])

timeout_failure == -1
unmarshal_args_failure == -2

VARIABLES xid_,       \* the last xid used
          calls_,     \* per thread, the xid and call it waits for
          requests,   \* requests under way
          replies,    \* replies under way
          answer,     \* per thread, what its last call returned
          aborted,    \* the calls at which a client failed VERIFY(0)
          sent,       \* history: the call of each xid
          ran         \* history: the methods run, for which xid, and how

vars == <<xid_, calls_, requests, replies, answer, aborted, sent, ran>>

NoCall == [xid |-> 0]
NoAnswer == [xid |-> 0, ret |-> 0, r |-> <<>>]

Init == /\ xid_ = 0
        /\ calls_ = [c \in Callers |-> NoCall]
        /\ requests = {} /\ replies = {}
        /\ answer = [c \in Callers |-> NoAnswer]
        /\ aborted = {}
        /\ sent = <<>>
        /\ ran = {}
-----------------------------------------------------------------------------
(* m << a1; m << a2; ...                                                   *)
marshalled(q) ==
    LET put[k \in 0 .. Len(q.args)] ==
            IF k = 0 THEN marshall ELSE put_value(put[k - 1], q.types[k], q.args[k])
    IN put
marshal_args(q) == marshalled(q)[Len(q.args)]

(* call1, up to where it waits: the request goes out under a new xid.      *)
call1(c, q, req) ==
    /\ calls_[c] = NoCall /\ xid_ < MaxXid /\ aborted = {}
    /\ xid_' = xid_ + 1
    /\ calls_' = [calls_ EXCEPT ![c] = [xid |-> xid_', q |-> q]]
    /\ requests' = requests \cup
         {take_buf(pack_req_header(req,
              [xid |-> xid_', proc |-> q.proc, clt_nonce |-> 1, srv_nonce |-> 1, xid_rep |-> xid_]))}
    /\ sent' = Append(sent, q)
    /\ UNCHANGED <<replies, answer, aborted, ran>>

(* call, through call_m into call1.                                        *)
call(c, q) == call1(c, q, marshal_args(q))
-----------------------------------------------------------------------------
(* args >> a1; args >> a2; ...                                             *)
GetArg(rd, type) == LET a == get_value(rd.u, type) IN [u |-> a.u, v |-> Append(rd.v, a.v)]
unmarshalled(u, types) ==
    LET get[k \in 0 .. Len(types)] ==
            IF k = 0 THEN [u |-> u, v |-> <<>>] ELSE GetArg(get[k - 1], types[k])
    IN get
unmarshal_args(u, types) == unmarshalled(u, types)[Len(types)]

(* h1::fn, for a request with header h: the method's result and status, or *)
(* the failure without a result when the arguments do not fit.             *)
fn_marshal_first(h, u, b, r) ==
    LET rd == unmarshal_args(u, Procs[h.proc].args)
        uninit == CHOOSE v \in Results[Procs[h.proc].ret] : TRUE
    IN IF ~okdone(rd.u)
       THEN [ret |-> unmarshal_args_failure, rep |-> marshall, ran |-> {}]
       ELSE [ret |-> b, rep |-> put_value(marshall, Procs[h.proc].ret, uninit),
             ran |-> {[xid |-> h.xid, args |-> rd.v, b |-> b, r |-> r]}]
fn(h, u, b, r) ==
    LET rd == unmarshal_args(u, Procs[h.proc].args)
    IN IF ~okdone(rd.u)
       THEN [ret |-> unmarshal_args_failure, rep |-> marshall, ran |-> {}]
       ELSE [ret |-> b, rep |-> put_value(marshall, Procs[h.proc].ret, r),
             ran |-> {[xid |-> h.xid, args |-> rd.v, b |-> b, r |-> r]}]

(* rpcs::dispatch on a thread of the pool: some request is run, and its    *)
(* answer sent under its xid.                                              *)
dispatch(msg) ==
    LET rq == unpack_req_header(unmarshall(msg))
    IN /\ rq.h.proc \in DOMAIN Procs
       /\ \E b \in Statuses, r \in Results[Procs[rq.h.proc].ret] :
            LET f == fn(rq.h, rq.u, b, r)
            IN /\ replies' = replies \cup
                    {take_buf(pack_reply_header(f.rep, [xid |-> rq.h.xid, ret |-> f.ret]))}
               /\ ran' = ran \cup f.ran
       /\ requests' = requests \ {msg}
       /\ UNCHANGED <<xid_, calls_, answer, aborted, sent>>
-----------------------------------------------------------------------------
(* call_m, once call1 is back: r is read, and the whole reply must have    *)
(* been consumed, unless the status is negative.                           *)
call_m_always_reads(c, u, intret) ==
    LET q == calls_[c].q
        rd == get_value(u, q.ret)
    IN IF okdone(rd.u)
       THEN /\ answer' = [answer EXCEPT ![c] = [xid |-> calls_[c].xid, ret |-> intret, r |-> rd.v]]
            /\ UNCHANGED aborted
       ELSE /\ aborted' = aborted \cup {calls_[c].xid}
            /\ UNCHANGED answer
call_m(c, u, intret) ==
    LET q == calls_[c].q
        rd == get_value(u, q.ret)
        Answer(r) == [xid |-> calls_[c].xid, ret |-> intret, r |-> r]
    IN IF intret < 0
       THEN answer' = [answer EXCEPT ![c] = Answer(<<>>)] /\ UNCHANGED aborted
       ELSE IF okdone(rd.u)
       THEN answer' = [answer EXCEPT ![c] = Answer(rd.v)] /\ UNCHANGED aborted
       ELSE aborted' = aborted \cup {calls_[c].xid} /\ UNCHANGED answer

(* call1 returns with the reply that carries the caller's xid,             *)
got_pdu(c, msg) ==
    LET rp == unpack_reply_header(unmarshall(msg))
    IN /\ calls_[c] # NoCall /\ aborted = {} /\ rp.h.xid = calls_[c].xid
       /\ call_m(c, rp.u, rp.h.ret)
       /\ calls_' = [calls_ EXCEPT ![c] = NoCall]
       /\ replies' = replies \ {msg}
       /\ UNCHANGED <<xid_, requests, sent, ran>>

(* or gives up, while the request or the reply is still under way; a reply *)
(* that comes too late has no caller.                                      *)
give_up(c) ==
    /\ calls_[c] # NoCall /\ aborted = {}
    /\ call_m(c, unmarshall(<<>>), timeout_failure)
    /\ calls_' = [calls_ EXCEPT ![c] = NoCall]
    /\ UNCHANGED <<xid_, requests, replies, sent, ran>>

Next == \/ \E c \in Callers : \/ \E q \in Calls : call(c, q)
                              \/ \E msg \in replies : got_pdu(c, msg)
                              \/ give_up(c)
        \/ \E msg \in requests : dispatch(msg)

Spec == Init /\ [][Next]_vars
-----------------------------------------------------------------------------
(* Every xid in use is one that was given out, to one call, and by no two  *)
(* threads at a time.                                                      *)
TypeOK == /\ xid_ \in 0 .. MaxXid /\ sent \in Seq(Calls) /\ Len(sent) = xid_
          /\ calls_ \in [Callers -> {NoCall} \cup [xid : 1 .. xid_, q : Calls]]
          /\ answer \in [Callers -> [xid : 0 .. xid_, ret : Int, r : Seq(Nat)]]
          /\ aborted \subseteq 1 .. xid_
          /\ requests \cup replies \subseteq Seq(Int)
          /\ ran \subseteq [xid : 1 .. xid_, args : Seq(Seq(Nat)), b : Statuses, r : Seq(Nat)]
          /\ \A c, d \in Callers : calls_[c] # NoCall /\ c # d => calls_[c] # calls_[d]

SameArgs(q) == q.types = Procs[q.proc].args
SameRet(q) == q.ret = Procs[q.proc].ret

(* If the client's types for a procedure are the server's, the method runs *)
(* with the arguments of the call, and runs once: the header is written    *)
(* over none of them, and no value runs into the next.                     *)
MethodGetsArguments ==
    \A e \in ran : /\ SameArgs(sent[e.xid]) => e.args = sent[e.xid].args
                   /\ \A f \in ran : e.xid = f.xid => e = f

(* Also with the wrong types a method never runs on part of a message, or  *)
(* on more than there was: what it is given, written again by the server's *)
(* types, is the message the client wrote by its own.                      *)
MessageConsumed ==
    \A e \in ran : LET q == sent[e.xid]
                   IN marshal_args(q)
                      = marshal_args([q EXCEPT !.types = Procs[q.proc].args, !.args = e.args])

(* A call that returns a status of the method returns the status and the   *)
(* result of its own run, whatever other calls, timeouts and late replies  *)
(* there were; one that returns unmarshal_args_failure has not been run.   *)
AnswerIsOwn ==
    \A c \in Callers : LET a == answer[c] IN
        a.xid # 0 =>
          /\ a.ret >= 0 /\ SameRet(sent[a.xid]) =>
                \E e \in ran : e.xid = a.xid /\ e.b = a.ret /\ e.r = a.r
          /\ a.ret = unmarshal_args_failure => \A e \in ran : e.xid # a.xid

(* A client aborts only over a result type the server does not have; wrong *)
(* arguments, for which the server sends a reply without a result, give it *)
(* an error and leave it alive.                                            *)
OnlyWrongResultAborts == \A x \in aborted : ~SameRet(sent[x])

(* A reader positioned after the header of what m sends.                   *)
Sent(m) == [unmarshall(take_buf(pack_req_header(m,
               [xid |-> 1, proc |-> 1, clt_nonce |-> 1, srv_nonce |-> 1, xid_rep |-> 0])))
            EXCEPT !.ind = RPC_HEADER_SZ]

(* The same message with its last cell cut off, or with one more.          *)
Cut(u) == [u EXCEPT !.buf = SubSeq(@, 1, Len(@) - 1)]
Longer(u) == [u EXCEPT !.buf = Append(@, 0)]

(* The map d, read into a variable that holds e, is d: what e held is      *)
(* gone; the vector v is added to the w of the variable.  And neither is   *)
(* accepted when the message was cut short or is too long.                 *)
MapReadBack(d, e) ==
    LET u == Sent(put_map(marshall, d))
    IN /\ get_map(u, e).v = d /\ okdone(get_map(u, e).u)
       /\ ~okdone(get_map(Cut(u), e).u) /\ ~okdone(get_map(Longer(u), e).u)
VectorReadBack(v, w) ==
    LET u == Sent(put_vector(marshall, v))
    IN /\ get_vector(u, w).v = w \o v /\ okdone(get_vector(u, w).u)
       /\ ~okdone(get_vector(Cut(u), w).u) /\ ~okdone(get_vector(Longer(u), w).u)

(* The container templates against what they stand for, a map and a        *)
(* vector, on small ones.  No state has a part in it: one is enough to     *)
(* check it.                                                               *)
ContainersReadBack ==
    xid_ = 0 =>
    LET strings == Results["string"]
        vectors == {<<>>} \cup {<<s, t>> : s, t \in strings}
        maps == UNION {[K -> strings] : K \in SUBSET {1, 2}}
    IN /\ \A d, e \in maps : MapReadBack(d, e)
       /\ \A v, w \in vectors : VectorReadBack(v, w)
=============================================================================
