---------------------------- MODULE FifoProofs ------------------------------
(***************************************************************************)
(* For any number of threads, any capacity and any jobs: the queue is      *)
(* bounded, nobody oversleeps, and its callers see a first-in first-out    *)
(* queue.                                                                  *)
(***************************************************************************)
EXTENDS Fifo, TLAPS, FiniteSetTheorems

(* The threads inside a call that are not asleep.                          *)
AwakeC == dequeuing \ non_empty_c_
AwakeP == {p \in Producers \ has_space_c_ : enqueuing[p] # NoCall}

(* What adding and removing one element does to the size of a set.         *)
LEMMA CountOne ==
    ASSUME NEW S, IsFiniteSet(S), NEW x
    PROVE  /\ Cardinality(S) \in Nat
           /\ IsFiniteSet(S \cup {x}) /\ IsFiniteSet(S \ {x})
           /\ x \notin S => Cardinality(S \cup {x}) = Cardinality(S) + 1
           /\ x \in S => Cardinality(S \ {x}) = Cardinality(S) - 1
           /\ Cardinality(S \cup {x}) >= Cardinality(S)
  <1>1. Cardinality(S) \in Nat
    BY FS_CardinalityType
  <1>2. /\ IsFiniteSet(S \cup {x})
        /\ Cardinality(S \cup {x}) = IF x \in S THEN Cardinality(S) ELSE Cardinality(S) + 1
    BY FS_AddElement
  <1>3. /\ IsFiniteSet(S \ {x})
        /\ Cardinality(S \ {x}) = IF x \in S THEN Cardinality(S) - 1 ELSE Cardinality(S)
    BY FS_RemoveElement
  <1> QED
    BY <1>1, <1>2, <1>3

(* Only finitely many threads are awake.                                   *)
LEMMA AwakeFinite ==
    TypeOK => IsFiniteSet(AwakeC) /\ IsFiniteSet(AwakeP)
  <1> SUFFICES ASSUME TypeOK PROVE IsFiniteSet(AwakeC) /\ IsFiniteSet(AwakeP)
    OBVIOUS
  <1>1. AwakeC \subseteq Consumers /\ AwakeP \subseteq Producers
    BY DEF AwakeC, AwakeP, TypeOK
  <1> QED
    BY <1>1, FS_Subset, ThreadsAssumption

(* And after any step that keeps the types.                                *)
LEMMA AwakeStaysFinite ==
    TypeOK' => IsFiniteSet(AwakeC)' /\ IsFiniteSet(AwakeP)'
  BY AwakeFinite, PTL

-----------------------------------------------------------------------------
(* Types are preserved.                                                    *)
LEMMA TypeStep == TypeOK /\ [Next]_vars => TypeOK'
  <1> SUFFICES ASSUME TypeOK, [Next]_vars PROVE TypeOK'
    OBVIOUS
  <1> USE DEF TypeOK
  <1>1. ASSUME NEW p \in Producers, addObjJob(p) PROVE TypeOK'
    BY <1>1 DEF addObjJob, NoCall
  <1>2. ASSUME NEW p \in Producers, enq(p) PROVE TypeOK'
    <2>1. enqueuing[p] \in Items \X BOOLEAN
      BY <1>2 DEF enq
    <2>2. CASE enq_push(p)
      <3>1. q_' \in Seq(Items)
        BY <2>1, <2>2 DEF enq_push
      <3>2. non_empty_c_' \subseteq dequeuing'
        BY <2>2 DEF enq_push, signal
      <3>3. has_space_c_' \subseteq {r \in Producers : enqueuing'[r] # NoCall}
        BY <1>2, <2>2 DEF enq, enq_push, enq_return
      <3> QED
        BY <2>2, <3>1, <3>2, <3>3 DEF enq_push, enq_return
    <2>3. CASE enq_wait(p)
      BY <1>2, <2>3 DEF enq, enq_wait
    <2>4. CASE enq_refuse(p)
      BY <1>2, <2>4 DEF enq, enq_refuse, enq_return
    <2> QED
      BY <1>2, <2>2, <2>3, <2>4 DEF enq
  <1>3. ASSUME NEW c \in Consumers, takeJob(c) PROVE TypeOK'
    BY <1>3 DEF takeJob
  <1>4. ASSUME NEW c \in Consumers, deq(c) PROVE TypeOK'
    <2>1. CASE deq_wait(c)
      BY <1>4, <2>1 DEF deq, deq_wait
    <2>2. CASE deq_pop(c)
      <3>1. q_' \in Seq(Items) /\ Head(q_) \in Items
        BY <2>2 DEF deq_pop
      <3>2. has_space_c_' \subseteq has_space_c_
        BY <2>2 DEF deq_pop, deq_signal, signal
      <3> QED
        BY <1>4, <2>2, <3>1, <3>2 DEF deq, deq_pop, deq_return
    <2> QED
      BY <1>4, <2>1, <2>2 DEF deq
  <1>5. CASE spurious_wakeup
    BY <1>5 DEF spurious_wakeup
  <1>6. CASE UNCHANGED vars
    BY <1>6 DEF vars
  <1> QED
    BY <1>1, <1>2, <1>3, <1>4, <1>5, <1>6 DEF Next

(* The types hold throughout: in particular a thread sleeps only inside    *)
(* the call that put it to sleep.                                          *)
THEOREM TypeCorrect == Spec => []TypeOK
  <1>1. Init => TypeOK
    BY DEF Init, TypeOK
  <1> QED
    BY <1>1, TypeStep, PTL DEF Spec

-----------------------------------------------------------------------------
(* The loop around the wait re-checks the capacity, so the queue never     *)
(* grows past it.                                                          *)
THEOREM QueueBounded == Spec => []Bounded
  <1>1. Init => Bounded
    BY ThreadsAssumption DEF Init, Bounded
  <1>2. TypeOK /\ Bounded /\ [Next]_vars => Bounded'
    <2> SUFFICES ASSUME TypeOK, Bounded, [Next]_vars PROVE Bounded'
      OBVIOUS
    <2>1. max_ \in Nat /\ q_ \in Seq(Items) /\ max_' = max_
      BY ThreadsAssumption
      DEF TypeOK, Next, vars, addObjJob, takeJob, spurious_wakeup, enq, deq,
          enq_push, enq_wait, enq_refuse, deq_wait, deq_pop
    <2>2. \/ q_' = q_
          \/ \E p \in Producers : enq_push(p) /\ enq(p)
          \/ \E c \in Consumers : deq_pop(c)
      BY DEF Next, vars, addObjJob, takeJob, spurious_wakeup, enq, deq,
             enq_wait, enq_refuse, deq_wait
    <2>3. ASSUME NEW p \in Producers, enq_push(p), enq(p) PROVE Bounded'
      <3>1. enqueuing[p][1] \in Items
        BY <2>3 DEF enq, TypeOK
      <3>2. Len(q_') = Len(q_) + 1
        BY <2>1, <2>3, <3>1 DEF enq_push
      <3> QED
        BY <2>1, <2>3, <3>2 DEF enq_push, enq_room, Bounded
    <2>4. ASSUME NEW c \in Consumers, deq_pop(c) PROVE Bounded'
      <3>1. Len(q_') = Len(q_) - 1
        BY <2>1, <2>4 DEF deq_pop
      <3> QED
        BY <2>1, <3>1 DEF Bounded
    <2> QED
      BY <2>1, <2>2, <2>3, <2>4 DEF Bounded
  <1> QED
    BY <1>1, <1>2, TypeCorrect, PTL DEF Spec

-----------------------------------------------------------------------------
(* The two halves of NoOneOversleeps, each about one condition variable.   *)
ItemsHaveTakers == non_empty_c_ # {} => Len(q_) <= Cardinality(AwakeC)
SlotsHaveFillers == has_space_c_ # {} => max_ - Len(q_) <= Cardinality(AwakeP)

(* An enq, whatever it finds, leaves both halves true.                     *)
LEMMA EnqStep ==
    ASSUME TypeOK, ItemsHaveTakers, SlotsHaveFillers,
           NEW p \in Producers, enq(p)
    PROVE  ItemsHaveTakers' /\ SlotsHaveFillers'
  <1>1. /\ max_ \in Nat /\ q_ \in Seq(Items) /\ Len(q_) \in Nat
        /\ enqueuing[p] \in Items \X BOOLEAN /\ enqueuing[p][1] \in Items
    BY ThreadsAssumption DEF TypeOK, enq
  <1>2. IsFiniteSet(AwakeC) /\ IsFiniteSet(AwakeP) /\ p \in AwakeP
    BY AwakeFinite DEF enq, AwakeP
  <1>3. CASE enq_push(p)
    <2>1. Len(q_') = Len(q_) + 1
      BY <1>1, <1>3 DEF enq_push
    <2>2. ItemsHaveTakers'
      <3> SUFFICES ASSUME non_empty_c_' # {}
                   PROVE  Len(q_)' <= Cardinality(AwakeC')
        BY DEF ItemsHaveTakers
      <3>1. PICK t \in non_empty_c_ : non_empty_c_' = non_empty_c_ \ {t}
        BY <1>3 DEF enq_push, signal
      <3>2. t \notin AwakeC /\ AwakeC' = AwakeC \cup {t}
        BY <1>3, <3>1 DEF AwakeC, enq_push, TypeOK
      <3>3. Cardinality(AwakeC') = Cardinality(AwakeC) + 1 /\ Cardinality(AwakeC) \in Nat
        BY <1>2, <3>2, CountOne
      <3>4. Len(q_) <= Cardinality(AwakeC)
        BY <3>1 DEF ItemsHaveTakers
      <3> QED
        BY <1>1, <2>1, <3>3, <3>4
    <2>3. SlotsHaveFillers'
      <3> SUFFICES ASSUME has_space_c_' # {}
                   PROVE  max_' - Len(q_)' <= Cardinality(AwakeP')
        BY DEF SlotsHaveFillers
      <3>1. max_' = max_ /\ has_space_c_' = has_space_c_
        BY <1>3 DEF enq_push
      <3>2. AwakeP' = AwakeP \ {p}
        BY <1>2, <1>3, <3>1 DEF AwakeP, enq_push, enq_return, TypeOK
      <3>3. Cardinality(AwakeP') = Cardinality(AwakeP) - 1 /\ Cardinality(AwakeP) \in Nat
        BY <1>2, <3>2, CountOne
      <3>4. max_ - Len(q_) <= Cardinality(AwakeP)
        BY <3>1 DEF SlotsHaveFillers
      <3> QED
        BY <1>1, <2>1, <3>1, <3>3, <3>4
    <2> QED
      BY <2>2, <2>3
  <1>4. ASSUME enq_wait(p) \/ enq_refuse(p)
        PROVE  ItemsHaveTakers' /\ SlotsHaveFillers'
    <2>1. /\ q_' = q_ /\ max_' = max_
          /\ dequeuing' = dequeuing /\ non_empty_c_' = non_empty_c_
          /\ ~enq_room
      BY <1>4 DEF enq_wait, enq_refuse
    <2>2. ItemsHaveTakers'
      BY <2>1 DEF ItemsHaveTakers, AwakeC
    <2>3. Cardinality(AwakeP') \in Nat
      <3>1. TypeOK'
        BY TypeStep DEF Next
      <3>2. IsFiniteSet(AwakeP')
        BY <3>1, AwakeStaysFinite
      <3> QED
        BY <3>2, FS_CardinalityType
    <2>4. SlotsHaveFillers'
      BY <1>1, <2>1, <2>3 DEF SlotsHaveFillers, enq_room
    <2> QED
      BY <2>2, <2>4
  <1> QED
    BY <1>3, <1>4 DEF enq

(* A deq, whatever it finds, leaves both halves true.                      *)
LEMMA DeqStep ==
    ASSUME TypeOK, ItemsHaveTakers, SlotsHaveFillers,
           NEW c \in Consumers, deq(c)
    PROVE  ItemsHaveTakers' /\ SlotsHaveFillers'
  <1>1. max_ \in Nat /\ q_ \in Seq(Items) /\ Len(q_) \in Nat
    BY ThreadsAssumption DEF TypeOK
  <1>2. IsFiniteSet(AwakeC) /\ IsFiniteSet(AwakeP) /\ c \in AwakeC
    BY AwakeFinite DEF deq, AwakeC
  <1>3. IsFiniteSet(AwakeC') /\ IsFiniteSet(AwakeP')
    <2>1. TypeOK'
      BY TypeStep DEF Next
    <2> QED
      BY <2>1, AwakeStaysFinite
  <1>4. Cardinality(AwakeC') \in Nat /\ Cardinality(AwakeP') \in Nat
    BY <1>3, FS_CardinalityType
  <1>5. CASE deq_wait(c)
    <2>1. /\ Len(q_') = 0 /\ q_' = q_ /\ max_' = max_
          /\ enqueuing' = enqueuing /\ has_space_c_' = has_space_c_
      BY <1>5 DEF deq_wait
    <2>2. ItemsHaveTakers'
      BY <1>4, <2>1 DEF ItemsHaveTakers
    <2>3. SlotsHaveFillers'
      BY <2>1 DEF SlotsHaveFillers, AwakeP
    <2> QED
      BY <2>2, <2>3
  <1>6. CASE deq_pop(c)
    <2>1. Len(q_') = Len(q_) - 1
      BY <1>1, <1>6 DEF deq_pop
    <2>2. ItemsHaveTakers'
      <3>1. non_empty_c_' = non_empty_c_ /\ AwakeC' = AwakeC \ {c}
        BY <1>6 DEF deq_pop, deq_return, AwakeC
      <3>2. Cardinality(AwakeC') = Cardinality(AwakeC) - 1 /\ Cardinality(AwakeC) \in Nat
        BY <1>2, <3>1, CountOne
      <3> QED
        BY <1>1, <2>1, <3>1, <3>2 DEF ItemsHaveTakers
    <2>3. SlotsHaveFillers'
      <3>1. max_' = max_ /\ enqueuing' = enqueuing
        BY <1>6 DEF deq_pop
      <3>2. CASE max_ # 0 /\ Len(q_') < max_
        <4> SUFFICES ASSUME has_space_c_' # {}
                     PROVE  max_' - Len(q_)' <= Cardinality(AwakeP')
          BY DEF SlotsHaveFillers
        <4>1. PICK t \in has_space_c_ : has_space_c_' = has_space_c_ \ {t}
          BY <1>6, <3>2 DEF deq_pop, deq_signal, signal
        <4>2. t \notin AwakeP /\ AwakeP' = AwakeP \cup {t}
          BY <3>1, <4>1 DEF AwakeP, TypeOK
        <4>3. Cardinality(AwakeP') = Cardinality(AwakeP) + 1 /\ Cardinality(AwakeP) \in Nat
          BY <1>2, <4>2, CountOne
        <4>4. max_ - Len(q_) <= Cardinality(AwakeP)
          BY <4>1 DEF SlotsHaveFillers
        <4> QED
          BY <1>1, <2>1, <3>1, <4>3, <4>4
      <3>3. CASE ~(max_ # 0 /\ Len(q_') < max_)
        <4>1. max_ - Len(q_') <= 0
          <5>1. q_' \in Seq(Items)
            BY <1>1, <1>6 DEF deq_pop
          <5> QED
            BY <1>1, <3>3, <5>1
        <4> QED
          BY <1>1, <1>4, <2>1, <3>1, <4>1 DEF SlotsHaveFillers
      <3> QED
        BY <3>2, <3>3
    <2> QED
      BY <2>2, <2>3
  <1> QED
    BY <1>5, <1>6 DEF deq

(* A new call or a spurious wakeup only adds threads that are awake.       *)
LEMMA OtherStep ==
    ASSUME TypeOK, ItemsHaveTakers, SlotsHaveFillers,
           \/ \E p \in Producers : addObjJob(p)
           \/ \E c \in Consumers : takeJob(c)
           \/ spurious_wakeup
           \/ UNCHANGED vars
    PROVE  ItemsHaveTakers' /\ SlotsHaveFillers'
  <1>1. max_ \in Nat /\ Len(q_) \in Nat
    BY ThreadsAssumption DEF TypeOK
  <1>2. max_' = max_ /\ q_' = q_
    BY DEF addObjJob, takeJob, spurious_wakeup, vars
  <1>3. /\ non_empty_c_' \subseteq non_empty_c_ /\ AwakeC \subseteq AwakeC'
        /\ has_space_c_' \subseteq has_space_c_
    BY DEF addObjJob, takeJob, spurious_wakeup, vars, AwakeC
  <1>4. AwakeP \subseteq AwakeP'
    <2>1. ASSUME NEW p \in Producers, addObjJob(p) PROVE AwakeP \subseteq AwakeP'
      <3>1. \A r \in Producers : r # p => enqueuing'[r] = enqueuing[r]
        BY <2>1 DEF addObjJob, TypeOK
      <3>2. p \notin AwakeP /\ has_space_c_' = has_space_c_
        BY <2>1 DEF addObjJob, AwakeP
      <3> QED
        BY <3>1, <3>2 DEF AwakeP
    <2> QED
      BY <2>1 DEF takeJob, spurious_wakeup, vars, AwakeP
  <1>5. IsFiniteSet(AwakeC') /\ IsFiniteSet(AwakeP')
    <2>1. TypeOK'
      BY TypeStep DEF Next
    <2> QED
      BY <2>1, AwakeStaysFinite
  <1>6. /\ Cardinality(AwakeC) <= Cardinality(AwakeC')
        /\ Cardinality(AwakeP) <= Cardinality(AwakeP')
    BY <1>3, <1>4, <1>5, FS_Subset
  <1>7. /\ Cardinality(AwakeC) \in Nat /\ Cardinality(AwakeC') \in Nat
        /\ Cardinality(AwakeP) \in Nat /\ Cardinality(AwakeP') \in Nat
    BY <1>5, AwakeFinite, FS_CardinalityType
  <1> QED
    BY <1>1, <1>2, <1>3, <1>6, <1>7 DEF ItemsHaveTakers, SlotsHaveFillers

(* One signal per push and one per pop are enough, for any number of       *)
(* threads: no item waits for a sleeping consumer and no slot for a        *)
(* sleeping producer that nobody has been sent for.                        *)
THEOREM NoLostWakeup == Spec => []NoOneOversleeps
  <1> DEFINE Inv == ItemsHaveTakers /\ SlotsHaveFillers
  <1>1. Init => Inv
    BY DEF Init, ItemsHaveTakers, SlotsHaveFillers
  <1>2. TypeOK /\ Inv /\ [Next]_vars => Inv'
    BY EnqStep, DeqStep, OtherStep DEF Next
  <1>3. Inv => NoOneOversleeps
    BY DEF ItemsHaveTakers, SlotsHaveFillers, AwakeC, AwakeP, NoOneOversleeps
  <1> HIDE DEF Inv
  <1> QED
    BY <1>1, <1>2, <1>3, TypeCorrect, PTL DEF Spec

-----------------------------------------------------------------------------
(* Every step of the queue is, for its callers, a step of FifoQueue or no  *)
(* step at all: waiting and waking up cannot be observed.                  *)
THEOREM FifoImplementsQueue == Spec => ImplementsQueue
  <1>1. Init => Queue!Init
    BY DEF Init, Queue!Init, NoCall, NoItem, Queue!NoCall, Queue!NoItem
  <1>2. TypeOK /\ [Next]_vars => [Queue!Next]_(Queue!vars)
    <2> SUFFICES ASSUME TypeOK, [Next]_vars PROVE [Queue!Next]_(Queue!vars)
      OBVIOUS
    <2>1. ASSUME NEW p \in Producers, addObjJob(p) PROVE Queue!CallEnq(p)
      BY <2>1 DEF addObjJob, Queue!CallEnq, NoCall, Queue!NoCall
    <2>2. ASSUME NEW p \in Producers, enq(p)
          PROVE  Queue!Put(p) \/ Queue!Refuse(p) \/ UNCHANGED Queue!vars
      <3>1. CASE enq_push(p)
        BY <2>2, <3>1 DEF enq, enq_push, enq_return, enq_room, NoCall,
            Queue!Put, Queue!Return, Queue!HasRoom, Queue!NoCall
      <3>2. CASE enq_wait(p)
        BY <3>2 DEF enq_wait, Queue!vars
      <3>3. CASE enq_refuse(p)
        BY <2>2, <3>3 DEF enq, enq_refuse, enq_return, enq_room, NoCall,
            Queue!Refuse, Queue!Return, Queue!HasRoom, Queue!NoCall
      <3> QED
        BY <2>2, <3>1, <3>2, <3>3 DEF enq
    <2>3. ASSUME NEW c \in Consumers, takeJob(c) PROVE Queue!CallDeq(c)
      BY <2>3 DEF takeJob, Queue!CallDeq, NoItem, Queue!NoItem
    <2>4. ASSUME NEW c \in Consumers, deq(c)
          PROVE  Queue!Take(c) \/ UNCHANGED Queue!vars
      <3>1. CASE deq_wait(c)
        BY <3>1 DEF deq_wait, Queue!vars
      <3>2. CASE deq_pop(c)
        BY <2>4, <3>2 DEF deq, deq_pop, deq_return, Queue!Take
      <3> QED
        BY <2>4, <3>1, <3>2 DEF deq
    <2>5. CASE spurious_wakeup
      BY <2>5 DEF spurious_wakeup, Queue!vars
    <2>6. CASE UNCHANGED vars
      BY <2>6 DEF vars, Queue!vars
    <2> QED
      BY <2>1, <2>2, <2>3, <2>4, <2>5, <2>6 DEF Next, Queue!Next
  <1> QED
    BY <1>1, <1>2, TypeCorrect, PTL DEF Spec, ImplementsQueue, Queue!Spec
=============================================================================
