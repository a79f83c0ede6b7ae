----------------------------- MODULE FifoQueue ------------------------------
(***************************************************************************)
(* What the queue of rpc/fifo.h promises to the threads that share it: a   *)
(* bounded first-in first-out queue, in which a call that can be served is *)
(* served, by one indivisible step, as long as the threads run.  Mutex,    *)
(* condition variables and sleeping threads belong to Fifo, which is shown *)
(* to implement this specification.                                        *)
(***************************************************************************)
EXTENDS Integers, Sequences

CONSTANTS Producers,   \* threads that call enq
          Consumers,   \* threads that call deq
          Items,       \* what is queued
          Limits       \* capacities a queue may be constructed with

VARIABLES limit,       \* the capacity, 0 for none
          queue,       \* the items queued, the oldest first
          enqueuing,   \* per producer, the call of enq it is in
          dequeuing,   \* the consumers inside deq
          refused,     \* the producers whose last enq returned false
          taken        \* per consumer, what its last deq stored

vars == <<limit, queue, enqueuing, dequeuing, refused, taken>>

NoCall == <<>>
NoItem == <<>>
HasRoom == limit = 0 \/ Len(queue) < limit

Init ==
    /\ limit \in Limits
    /\ queue = <<>>
    /\ enqueuing = [p \in Producers |-> NoCall]
    /\ dequeuing = {}
    /\ refused = {}
    /\ taken = [c \in Consumers |-> NoItem]

CallEnq(p) ==
    /\ enqueuing[p] = NoCall
    /\ \E e \in Items, blocking \in BOOLEAN :
          enqueuing' = [enqueuing EXCEPT ![p] = <<e, blocking>>]
    /\ refused' = refused \ {p}
    /\ UNCHANGED <<limit, queue, dequeuing, taken>>

CallDeq(c) ==
    /\ c \notin dequeuing
    /\ dequeuing' = dequeuing \cup {c}
    /\ taken' = [taken EXCEPT ![c] = NoItem]
    /\ UNCHANGED <<limit, queue, enqueuing, refused>>

Return(p, b) == /\ enqueuing' = [enqueuing EXCEPT ![p] = NoCall]
                /\ refused' = IF b THEN refused ELSE refused \cup {p}
                /\ UNCHANGED <<limit, dequeuing, taken>>

Put(p) == /\ enqueuing[p] # NoCall /\ HasRoom
          /\ queue' = Append(queue, enqueuing[p][1])
          /\ Return(p, TRUE)

Refuse(p) == /\ enqueuing[p] # NoCall /\ ~HasRoom /\ ~enqueuing[p][2]
             /\ UNCHANGED queue
             /\ Return(p, FALSE)

Take(c) == /\ c \in dequeuing /\ queue # <<>>
           /\ queue' = Tail(queue)
           /\ taken' = [taken EXCEPT ![c] = Head(queue)]
           /\ dequeuing' = dequeuing \ {c}
           /\ UNCHANGED <<limit, enqueuing, refused>>

Next == \/ \E p \in Producers : CallEnq(p) \/ Put(p) \/ Refuse(p)
        \/ \E c \in Consumers : CallDeq(c) \/ Take(c)

(* The queue does not sit on an item while someone waits for one, nor on   *)
(* room while someone waits for room.  Which of the waiting threads is     *)
(* served is not promised.                                                 *)
Fairness == /\ WF_vars(\E p \in Producers : Put(p))
            /\ WF_vars(\E c \in Consumers : Take(c))

Spec == Init /\ [][Next]_vars
=============================================================================
