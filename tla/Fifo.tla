-------------------------------- MODULE Fifo --------------------------------
(***************************************************************************)
(* The bounded queue of rpc/fifo.h, through which the RPC library hands    *)
(* jobs to the threads of its pool (thr_pool.h).  enq and deq hold m_ from *)
(* entry to return except inside pthread_cond_wait, so a call is a series  *)
(* of steps, each from taking m_ to releasing it: one turn of the loop.    *)
(* A condition variable is the set of the threads asleep on it.            *)
(***************************************************************************)
EXTENDS Integers, Sequences, FiniteSets

CONSTANTS Producers,   \* threads that call enq
          Consumers,   \* threads that call deq: the pool's
          Items,       \* the jobs
          Limits       \* capacities a queue may be constructed with

ASSUME ThreadsAssumption ==
    /\ IsFiniteSet(Producers) /\ IsFiniteSet(Consumers)
    /\ Limits \subseteq Nat

VARIABLES max_,           \* capacity of the queue, 0 for none
          q_,             \* the items, front first
          enqueuing,      \* per producer, <<e, blocking>> of its call of enq
          dequeuing,      \* the consumers inside deq
          refused,        \* the producers whose last enq returned false
          taken,          \* per consumer, what its last deq stored in *e
          non_empty_c_,   \* the consumers asleep on non_empty_c_
          has_space_c_    \* the producers asleep on has_space_c_

vars == <<max_, q_, enqueuing, dequeuing, refused, taken,
          non_empty_c_, has_space_c_>>

NoCall == <<>>
NoItem == <<>>

(* pthread_cond_signal wakes one of the threads asleep, if there are any.  *)
signal(cond, after) ==
    \/ cond = {} /\ after = {}
    \/ \E t \in cond : after = cond \ {t}

Init == /\ max_ \in Limits
        /\ q_ = <<>>
        /\ enqueuing = [p \in Producers |-> NoCall]
        /\ dequeuing = {}
        /\ refused = {}
        /\ taken = [c \in Consumers |-> NoItem]
        /\ non_empty_c_ = {}
        /\ has_space_c_ = {}
-----------------------------------------------------------------------------
(* The caller's side.  addObjJob queues a job it has just allocated, so no *)
(* two jobs in flight are the same; the pool was built blocking or not.    *)
InFlight(e) == \/ \E i \in DOMAIN q_ : q_[i] = e
               \/ \E p \in Producers : enqueuing[p] # NoCall /\ enqueuing[p][1] = e

addObjJob(p) ==
    /\ enqueuing[p] = NoCall
    /\ \E e \in Items, blocking \in BOOLEAN :
          /\ ~InFlight(e)
          /\ enqueuing' = [enqueuing EXCEPT ![p] = <<e, blocking>>]
    /\ refused' = refused \ {p}
    /\ UNCHANGED <<max_, q_, dequeuing, taken, non_empty_c_, has_space_c_>>

takeJob(c) ==
    /\ c \notin dequeuing
    /\ dequeuing' = dequeuing \cup {c}
    /\ taken' = [taken EXCEPT ![c] = NoItem]
    /\ UNCHANGED <<max_, q_, enqueuing, refused, non_empty_c_, has_space_c_>>
-----------------------------------------------------------------------------
(* One turn of enq's loop, by a thread that holds m_.                      *)
enq_room_closed == max_ = 0 \/ Len(q_) <= max_
enq_room == max_ = 0 \/ Len(q_) < max_

enq_return(p, b) == /\ enqueuing' = [enqueuing EXCEPT ![p] = NoCall]
                    /\ refused' = IF b THEN refused ELSE refused \cup {p}

enq_push_first_only(p) ==
    /\ enq_room
    /\ q_' = Append(q_, enqueuing[p][1])
    /\ IF q_ = <<>> THEN signal(non_empty_c_, non_empty_c_')
                    ELSE UNCHANGED non_empty_c_
    /\ enq_return(p, TRUE)
    /\ UNCHANGED <<max_, dequeuing, taken, has_space_c_>>
enq_push(p) ==
    /\ enq_room
    /\ q_' = Append(q_, enqueuing[p][1])
    /\ signal(non_empty_c_, non_empty_c_')
    /\ enq_return(p, TRUE)
    /\ UNCHANGED <<max_, dequeuing, taken, has_space_c_>>

enq_wait(p) ==
    /\ ~enq_room /\ enqueuing[p][2]
    /\ has_space_c_' = has_space_c_ \cup {p}
    /\ UNCHANGED <<max_, q_, enqueuing, dequeuing, refused, taken, non_empty_c_>>

enq_refuse_true(p) ==
    /\ ~enq_room /\ ~enqueuing[p][2]
    /\ enq_return(p, TRUE)
    /\ UNCHANGED <<max_, q_, dequeuing, taken, non_empty_c_, has_space_c_>>
enq_refuse(p) ==
    /\ ~enq_room /\ ~enqueuing[p][2]
    /\ enq_return(p, FALSE)
    /\ UNCHANGED <<max_, q_, dequeuing, taken, non_empty_c_, has_space_c_>>

enq(p) == /\ enqueuing[p] # NoCall /\ p \notin has_space_c_
          /\ enq_push(p) \/ enq_wait(p) \/ enq_refuse(p)
-----------------------------------------------------------------------------
(* One turn of deq's loop, by a thread that holds m_.                      *)
deq_wait_wrong_cond(c) ==
    /\ q_ = <<>>
    /\ has_space_c_' = has_space_c_ \cup {c}
    /\ UNCHANGED <<max_, q_, enqueuing, dequeuing, refused, taken, non_empty_c_>>
deq_wait(c) ==
    /\ q_ = <<>>
    /\ non_empty_c_' = non_empty_c_ \cup {c}
    /\ UNCHANGED <<max_, q_, enqueuing, dequeuing, refused, taken, has_space_c_>>

deq_return(c, e) == /\ taken' = [taken EXCEPT ![c] = e]
                    /\ dequeuing' = dequeuing \ {c}

deq_signal_when_full(q) ==
    IF max_ # 0 /\ Len(q) + 1 = max_ THEN signal(has_space_c_, has_space_c_')
                                     ELSE UNCHANGED has_space_c_
deq_signal(q) ==
    IF max_ # 0 /\ Len(q) < max_ THEN signal(has_space_c_, has_space_c_')
                                 ELSE UNCHANGED has_space_c_

deq_pop_back(c) ==
    /\ q_ # <<>>
    /\ q_' = SubSeq(q_, 1, Len(q_) - 1)
    /\ deq_return(c, q_[Len(q_)])
    /\ deq_signal(q_')
    /\ UNCHANGED <<max_, enqueuing, refused, non_empty_c_>>
deq_pop(c) ==
    /\ q_ # <<>>
    /\ q_' = Tail(q_)
    /\ deq_return(c, Head(q_))
    /\ deq_signal(q_')
    /\ UNCHANGED <<max_, enqueuing, refused, non_empty_c_>>

deq(c) == /\ c \in dequeuing /\ c \notin non_empty_c_
          /\ deq_wait(c) \/ deq_pop(c)
-----------------------------------------------------------------------------
(* pthread_cond_wait may return although nobody signalled.                 *)
spurious_wakeup ==
    /\ \/ \E c \in non_empty_c_ : /\ non_empty_c_' = non_empty_c_ \ {c}
                                  /\ UNCHANGED has_space_c_
       \/ \E p \in has_space_c_ : /\ has_space_c_' = has_space_c_ \ {p}
                                  /\ UNCHANGED non_empty_c_
    /\ UNCHANGED <<max_, q_, enqueuing, dequeuing, refused, taken>>

Next == \/ \E p \in Producers : addObjJob(p) \/ enq(p)
        \/ \E c \in Consumers : takeJob(c) \/ deq(c)
        \/ spurious_wakeup

(* A thread that is awake gets m_ in the end, and a pool thread, which     *)
(* does nothing but take jobs and run them, comes back for the next one.   *)
(* Producers may stop calling, and no wakeup comes by itself.              *)
Fairness == /\ \A p \in Producers : WF_vars(enq(p))
            /\ \A c \in Consumers : WF_vars(deq(c)) /\ WF_vars(takeJob(c))

Spec == Init /\ [][Next]_vars
FairSpec == Spec /\ Fairness
-----------------------------------------------------------------------------
(* A producer sleeps only inside a blocking enq and a consumer only inside *)
(* deq; what is queued are items.                                          *)
TypeOK ==
    /\ max_ \in Limits
    /\ q_ \in Seq(Items)
    /\ enqueuing \in [Producers -> {NoCall} \cup (Items \X BOOLEAN)]
    /\ dequeuing \subseteq Consumers
    /\ refused \subseteq Producers
    /\ taken \in [Consumers -> Items \cup {NoItem}]
    /\ non_empty_c_ \subseteq dequeuing
    /\ has_space_c_ \subseteq {p \in Producers : enqueuing[p] # NoCall}

(* "block enq threads if exceeds this limit": a producer that was woken,   *)
(* for a slot that another has filled before it got m_, waits again.       *)
Bounded == max_ # 0 => Len(q_) <= max_

(* Nobody oversleeps.  enq signals non_empty_c_ on every push and deq      *)
(* has_space_c_ on every pop, one thread each, and the signals go to       *)
(* whoever sleeps there: while a consumer is asleep, every queued item has *)
(* a consumer of its own that is awake and on its way to it, and while a   *)
(* producer is asleep, every free slot has a producer.                     *)
NoOneOversleeps ==
    /\ non_empty_c_ # {} => Len(q_) <= Cardinality(dequeuing \ non_empty_c_)
    /\ has_space_c_ # {} =>
          max_ - Len(q_) <= Cardinality({p \in Producers \ has_space_c_ :
                                            enqueuing[p] # NoCall})

(* The queue seen by its callers is the bounded first-in first-out queue   *)
(* of FifoQueue: a wakeup, or a wait, changes nothing they can see.        *)
Queue == INSTANCE FifoQueue WITH limit <- max_, queue <- q_

ImplementsQueue == Queue!Spec

(* A thread waiting for an item while one is queued, or for room while     *)
(* there is some, is not left waiting forever: each time, some thread is   *)
(* served.  This needs the signals, not only the loops around the waits.   *)
WaitingIsServed == Queue!Fairness

(* Every queued job is handed to a pool thread in the end, even though     *)
(* producers keep queueing others behind it.                               *)
JobsAreTaken ==
    \A e \in Items :
        (\E i \in DOMAIN q_ : q_[i] = e) ~> (\A i \in DOMAIN q_ : q_[i] # e)
=============================================================================
