----------------------------- MODULE ExtentStore -----------------------------
(***************************************************************************)
(* What the extent server promises its clients: a set of extents, each     *)
(* with a type and a content, that only the call on it changes.  The last  *)
(* call is part of the interface, so an implementation has to do what was  *)
(* asked and not merely something a client could have asked.               *)
(***************************************************************************)
EXTENDS Integers, Sequences

CONSTANTS Ids, Types, Payloads, Sizes

VARIABLES kind,     \* the type of every extent, 0 for one that does not exist
          content,  \* its data
          req,      \* the last call that was answered
          up        \* FALSE once the server has run out of room and ended

vars == <<kind, content, req, up>>

Init == /\ kind \in [Ids -> {0, 1}]
        /\ content = [i \in Ids |-> <<>>]
        /\ req = <<"init">>
        /\ up = TRUE

Create(type) == \E id \in Ids :
    /\ kind[id] = 0
    /\ kind' = [kind EXCEPT ![id] = type]
    /\ content' = [content EXCEPT ![id] = <<>>]
    /\ req' = <<"create", id, type>>

Put(id, buf) == /\ kind[id] # 0
                /\ content' = [content EXCEPT ![id] = buf]
                /\ req' = <<"put", id, buf>>
                /\ UNCHANGED kind

Remove(id) == /\ kind[id] # 0
              /\ kind' = [kind EXCEPT ![id] = 0]
              /\ content' = [content EXCEPT ![id] = <<>>]
              /\ req' = <<"remove", id>>

(* Cut at size, or filled up to it with NULs.                              *)
SetAttr(id, size) ==
    /\ kind[id] # 0
    /\ content' = [content EXCEPT ![id] =
                     [k \in 1 .. size |-> IF k <= Len(@) THEN @[k] ELSE 0]]
    /\ req' = <<"set_attr", id, size>>
    /\ UNCHANGED kind

Exhausted == up' = FALSE /\ UNCHANGED <<kind, content, req>>

Next == /\ up
        /\ \/ Exhausted
           \/ /\ UNCHANGED up
              /\ \/ \E type \in Types : Create(type)
                 \/ \E id \in Ids, buf \in Payloads : Put(id, buf)
                 \/ \E id \in Ids : Remove(id)
                 \/ \E id \in Ids, size \in Sizes : SetAttr(id, size)

Spec == Init /\ [][Next]_vars
=============================================================================
