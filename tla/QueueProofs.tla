---------------------------- MODULE QueueProofs ----------------------------
(***************************************************************************)
(* Proofs about Queue for any number of threads and any capacity.          *)
(***************************************************************************)
EXTENDS Queue, FiniteSetTheorems, TLAPS

(* The remainder the code uses as an index is an integer. *)
LEMMA RemainderType == \A a \in Int : CRemainder(a, Capacity) \in Int
  BY QueueAssumption DEF CRemainder

(* atomic_increment keeps an int an int. *)
LEMMA IncrementType == \A a \in Int : Increment(a) \in Int
  BY QueueAssumption DEF Increment

(* Every step of a pushing thread keeps every variable in its type. *)
LEMMA ProducerType ==
  ASSUME TypeOK, NEW p \in Producers, Producer(p)
  PROVE  TypeOK'
<1> USE QueueAssumption DEF TypeOK, shared, Goto, Threads, Release
<1>1. ASSUME NEW v \in Values, PushCall(p, v) PROVE TypeOK'
  BY <1>1 DEF PushCall
<1>2. ASSUME NEW v \in Values, TryPush(p, v) PROVE TypeOK'
  BY <1>2 DEF TryPush
<1>3. CASE TryPushFull(p) BY <1>3 DEF TryPushFull
<1>4. CASE PushAcquire(p) BY <1>4 DEF PushAcquire
<1>5. CASE PushClaim(p) BY <1>5, RemainderType, IncrementType DEF PushClaim
<1>6. CASE PushWrite(p) BY <1>6 DEF PushWrite
<1>7. CASE PushRelease(p) BY <1>7 DEF PushRelease
<1> QED BY <1>1, <1>2, <1>3, <1>4, <1>5, <1>6, <1>7 DEF Producer, PushStep

(* Every step of a popping thread keeps every variable in its type. *)
LEMMA ConsumerType ==
  ASSUME TypeOK, NEW c \in Consumers, Consumer(c)
  PROVE  TypeOK'
<1> USE QueueAssumption DEF TypeOK, shared, Goto, Threads, Release
<1>1. CASE PopCall(c) BY <1>1 DEF PopCall
<1>2. CASE TryPop(c) BY <1>2 DEF TryPop
<1>3. CASE TryPopEmpty(c) BY <1>3 DEF TryPopEmpty
<1>4. CASE PopAcquire(c) BY <1>4 DEF PopAcquire
<1>5. CASE PopClaim(c) BY <1>5, RemainderType, IncrementType DEF PopClaim
<1>6. CASE PopRead(c) BY <1>6 DEF PopRead
<1>7. CASE PopRelease(c) BY <1>7 DEF PopRelease
<1> QED BY <1>1, <1>2, <1>3, <1>4, <1>5, <1>6, <1>7 DEF Consumer

(* Type correctness of the queue. *)
THEOREM TypeCorrect == Spec => []TypeOK
<1>1. Init => TypeOK
  BY QueueAssumption DEF Init, TypeOK, Threads, Slots
<1>2. TypeOK /\ [Next]_vars => TypeOK'
  <2>1. CASE UNCHANGED vars BY <2>1 DEF vars, shared, TypeOK, Threads
  <2> QED BY <2>1, ProducerType, ConsumerType DEF Next
<1> QED BY <1>1, <1>2, PTL DEF Spec
-----------------------------------------------------------------------------
(* Adding a thread to or removing it from a set of threads counts by one. *)
LEMMA Counting ==
  ASSUME NEW S, IsFiniteSet(S), NEW T \in SUBSET S, NEW x
  PROVE  /\ Cardinality(T) \in Nat
         /\ x \in T => Cardinality(T) >= 1
         /\ x \notin T => Cardinality(T \cup {x}) = Cardinality(T) + 1
         /\ x \in T => Cardinality(T \ {x}) = Cardinality(T) - 1
<1>1. IsFiniteSet(T) BY FS_Subset
<1>2. Cardinality(T) \in Nat BY <1>1, FS_CardinalityType
<1>3. Cardinality(T \ {x}) \in Nat BY <1>1, FS_RemoveElement, FS_CardinalityType
<1>4. Cardinality(T \cup {x}) = IF x \in T THEN Cardinality(T) ELSE Cardinality(T) + 1
  BY <1>1, FS_AddElement
<1>5. Cardinality(T \ {x}) = IF x \in T THEN Cardinality(T) - 1 ELSE Cardinality(T)
  BY <1>1, FS_RemoveElement
<1> QED BY <1>2, <1>3, <1>4, <1>5

(* A step of a pushing thread moves permits and loses none. *)
LEMMA ProducerPermits ==
  ASSUME TypeOK, PermitConservation, NEW p \in Producers, Producer(p)
  PROVE  PermitConservation'
<1> USE QueueAssumption DEF TypeOK, PermitConservation, shared, Goto, Threads
<1>0. /\ Pushing \in SUBSET Producers
      /\ Popping \in SUBSET Consumers
      /\ Cardinality(Pushing) \in Nat /\ Cardinality(Popping) \in Nat
  BY Counting DEF Pushing, Popping
<1>1. ASSUME NEW v \in Values, PushCall(p, v) PROVE PermitConservation'
  <2>1. Pushing' = Pushing /\ Popping' = Popping BY <1>1 DEF PushCall, Pushing, Popping
  <2> QED BY <1>1, <2>1 DEF PushCall
<1>2. ASSUME PushAcquire(p) \/ \E v \in Values : TryPush(p, v) PROVE PermitConservation'
  <2>1. /\ p \notin Pushing /\ Pushing' = Pushing \cup {p} /\ Popping' = Popping
        /\ used_items' = used_items /\ free_items' = free_items - 1
    BY <1>2 DEF PushAcquire, TryPush, Pushing, Popping
  <2>2. Cardinality(Pushing') = Cardinality(Pushing) + 1 BY <1>0, <2>1, Counting
  <2> QED BY <1>0, <2>1, <2>2
<1>3. CASE TryPushFull(p)
  <2>1. Pushing' = Pushing /\ Popping' = Popping BY <1>3 DEF TryPushFull, Pushing, Popping
  <2> QED BY <1>3, <2>1 DEF TryPushFull
<1>4. ASSUME PushClaim(p) \/ PushWrite(p) PROVE PermitConservation'
  <2>1. /\ Pushing' = Pushing /\ Popping' = Popping
        /\ used_items' = used_items /\ free_items' = free_items
    BY <1>4 DEF PushClaim, PushWrite, Pushing, Popping
  <2> QED BY <2>1
<1>5. CASE PushRelease(p)
  <2>1. p \in Pushing /\ Pushing' = Pushing \ {p} /\ Popping' = Popping
    BY <1>5 DEF PushRelease, Pushing, Popping
  <2>2. Cardinality(Pushing') = Cardinality(Pushing) - 1 /\ Cardinality(Pushing) >= 1
    BY <1>0, <2>1, Counting
  <2>3. used_items' = used_items + 1 /\ free_items' = free_items
    BY <1>0, <1>5, <2>2 DEF PushRelease, Release
  <2> QED BY <1>0, <2>1, <2>2, <2>3
<1> QED BY <1>1, <1>2, <1>3, <1>4, <1>5 DEF Producer, PushStep

(* A step of a popping thread moves permits and loses none. *)
LEMMA ConsumerPermits ==
  ASSUME TypeOK, PermitConservation, NEW c \in Consumers, Consumer(c)
  PROVE  PermitConservation'
<1> USE QueueAssumption DEF TypeOK, PermitConservation, shared, Goto, Threads
<1>0. /\ Pushing \in SUBSET Producers
      /\ Popping \in SUBSET Consumers
      /\ Cardinality(Pushing) \in Nat /\ Cardinality(Popping) \in Nat
  BY Counting DEF Pushing, Popping
<1>1. ASSUME PopCall(c) \/ TryPopEmpty(c) \/ PopClaim(c) \/ PopRead(c)
      PROVE  PermitConservation'
  <2>1. /\ Pushing' = Pushing /\ Popping' = Popping
        /\ used_items' = used_items /\ free_items' = free_items
    BY <1>1 DEF PopCall, TryPopEmpty, PopClaim, PopRead, Pushing, Popping
  <2> QED BY <2>1
<1>2. ASSUME PopAcquire(c) \/ TryPop(c) PROVE PermitConservation'
  <2>1. /\ c \notin Popping /\ Popping' = Popping \cup {c} /\ Pushing' = Pushing
        /\ free_items' = free_items /\ used_items' = used_items - 1
    BY <1>2 DEF PopAcquire, TryPop, Pushing, Popping
  <2>2. Cardinality(Popping') = Cardinality(Popping) + 1 BY <1>0, <2>1, Counting
  <2> QED BY <1>0, <2>1, <2>2
<1>3. CASE PopRelease(c)
  <2>1. c \in Popping /\ Popping' = Popping \ {c} /\ Pushing' = Pushing
    BY <1>3 DEF PopRelease, Pushing, Popping
  <2>2. Cardinality(Popping') = Cardinality(Popping) - 1 /\ Cardinality(Popping) >= 1
    BY <1>0, <2>1, Counting
  <2>3. free_items' = free_items + 1 /\ used_items' = used_items
    BY <1>0, <1>3, <2>2 DEF PopRelease, Release
  <2> QED BY <1>0, <2>1, <2>2, <2>3
<1> QED BY <1>1, <1>2, <1>3 DEF Consumer

(* Permits are conserved: no call to semaphore_release is refused, and no slot
   is lost, for any number of threads pushing and popping. *)
THEOREM PermitsConserved == Spec => []PermitConservation
<1>1. Init => PermitConservation
  <2> SUFFICES ASSUME Init PROVE PermitConservation OBVIOUS
  <2>1. Pushing = {} /\ Popping = {} BY DEF Init, Pushing, Popping, Threads
  <2> QED BY <2>1, FS_EmptySet, QueueAssumption DEF Init, PermitConservation
<1>2. TypeOK /\ PermitConservation /\ [Next]_vars => PermitConservation'
  <2>1. CASE UNCHANGED vars
    BY <2>1 DEF vars, shared, PermitConservation, Pushing, Popping
  <2> QED BY <2>1, ProducerPermits, ConsumerPermits DEF Next
<1> QED BY <1>1, <1>2, TypeCorrect, PTL DEF Spec
-----------------------------------------------------------------------------
(* The model's pushes stop before tail_index can reach INT_MAX. *)
NoOverflow == PushBound + Cardinality(Producers) <= IntMax

(* Pushes called that have not claimed their slot. *)
Called == {p \in Producers : pc[p] \in {"acquire", "claim"}}

(* What keeps the indices inside an int and the array's bounds: beside their
   accounting, a bound on the pushes that may still claim a slot. *)
IndexInv ==
  /\ IndexAccounting
  /\ IndexInRange
  /\ head_index >= 0
  /\ tail_index + Cardinality(Called) <= PushBound + Cardinality(Producers)

(* The sets IndexInv counts are finite. *)
LEMMA IndexSets ==
  ASSUME TypeOK
  PROVE  /\ Writing \in SUBSET Producers /\ Claiming \in SUBSET Consumers
         /\ Called \in SUBSET Producers /\ Pushing \in SUBSET Producers
         /\ Popping \in SUBSET Consumers
         /\ Cardinality(Writing) \in Nat /\ Cardinality(Claiming) \in Nat
         /\ Cardinality(Called) \in Nat /\ Cardinality(Pushing) \in Nat
         /\ Cardinality(Popping) \in Nat /\ Cardinality(Producers) \in Nat
         /\ Cardinality(Called) <= Cardinality(Producers)
<1>1. /\ Writing \in SUBSET Producers /\ Claiming \in SUBSET Consumers
      /\ Called \in SUBSET Producers /\ Pushing \in SUBSET Producers
      /\ Popping \in SUBSET Consumers
  BY DEF Writing, Claiming, Called, Pushing, Popping
<1>2. Producers \in SUBSET Producers OBVIOUS
<1> QED BY <1>1, <1>2, Counting, FS_Subset, QueueAssumption

(* A non-negative count modulo Capacity is a position in the array. *)
LEMMA RemainderInRange == \A a \in Nat : CRemainder(a, Capacity) \in Slots
  BY QueueAssumption DEF CRemainder, Slots

(* A step of a pushing thread keeps IndexInv. *)
LEMMA ProducerIndex ==
  ASSUME NoOverflow, TypeOK, PermitConservation, IndexInv,
         TypeOK', NEW p \in Producers, Producer(p)
  PROVE  IndexInv'
<1> USE QueueAssumption DEF TypeOK, IndexInv, IndexAccounting, IndexInRange, shared, Goto, Threads
<1>0. /\ Writing \in SUBSET Producers /\ Claiming \in SUBSET Consumers
      /\ Called \in SUBSET Producers /\ Pushing \in SUBSET Producers
      /\ Cardinality(Writing) \in Nat /\ Cardinality(Claiming) \in Nat
      /\ Cardinality(Called) \in Nat /\ Cardinality(Pushing) \in Nat
      /\ Cardinality(Popping) \in Nat /\ Cardinality(Producers) \in Nat
      /\ Cardinality(Called') <= Cardinality(Producers)
      /\ Cardinality(Called') \in Nat
  <2>1. Called' \in SUBSET Producers BY DEF Called
  <2> QED BY <2>1, IndexSets, FS_Subset, Counting
<1>1. ASSUME \E v \in Values : PushCall(p, v) \/ TryPush(p, v) PROVE IndexInv'
  <2>1. /\ Writing' = Writing /\ Claiming' = Claiming /\ tail_index < PushBound
        /\ UNCHANGED <<used_items, head_index, tail_index, index>>
    BY <1>1 DEF PushCall, TryPush, Writing, Claiming
  <2>2. IndexInRange' BY <2>1
  <2> QED BY <1>0, <2>1, <2>2
<1>2. ASSUME PushAcquire(p) \/ TryPushFull(p) PROVE IndexInv'
  <2>1. /\ Writing' = Writing /\ Claiming' = Claiming /\ Called' = Called
        /\ UNCHANGED <<used_items, head_index, tail_index, index>>
    BY <1>2 DEF PushAcquire, TryPushFull, Writing, Claiming, Called
  <2>2. IndexInRange' BY <2>1
  <2> QED BY <2>1, <2>2
<1>3. CASE PushClaim(p)
  <2>1. /\ p \notin Writing /\ Writing' = Writing \cup {p} /\ Claiming' = Claiming
        /\ p \in Called /\ Called' = Called \ {p}
        /\ UNCHANGED <<used_items, head_index>>
    BY <1>3 DEF PushClaim, Writing, Claiming, Called
  <2>2. /\ Cardinality(Writing') = Cardinality(Writing) + 1
        /\ Cardinality(Called') = Cardinality(Called) - 1 /\ Cardinality(Called) >= 1
    BY <1>0, <2>1, Counting
  <2>3. tail_index \in Nat /\ tail_index < IntMax
    BY <1>0, <2>2 DEF NoOverflow
  <2>4. tail_index' = tail_index + 1
    BY <1>3, <2>3 DEF PushClaim, Increment
  <2>5. IndexInRange' BY <1>3, <2>3, RemainderInRange DEF PushClaim
  <2> QED BY <1>0, <2>1, <2>2, <2>4, <2>5
<1>4. CASE PushWrite(p)
  <2>1. /\ Writing' = Writing /\ Claiming' = Claiming /\ Called' = Called
        /\ UNCHANGED <<used_items, head_index, tail_index, index>>
    BY <1>4 DEF PushWrite, Writing, Claiming, Called
  <2>2. IndexInRange' BY <2>1
  <2> QED BY <2>1, <2>2
<1>5. CASE PushRelease(p)
  <2>1. /\ p \in Writing /\ Writing' = Writing \ {p} /\ Claiming' = Claiming
        /\ p \in Pushing /\ Called' = Called
        /\ UNCHANGED <<head_index, tail_index, index>>
    BY <1>5 DEF PushRelease, Writing, Claiming, Called, Pushing
  <2>2. /\ Cardinality(Writing') = Cardinality(Writing) - 1
        /\ Cardinality(Pushing) >= 1
    BY <1>0, <2>1, Counting
  <2>3. used_items' = used_items + 1
    BY <1>0, <1>5, <2>2 DEF PushRelease, Release, PermitConservation
  <2>4. IndexInRange' BY <2>1
  <2> QED BY <1>0, <2>1, <2>2, <2>3, <2>4
<1> QED BY <1>1, <1>2, <1>3, <1>4, <1>5 DEF Producer, PushStep

(* A step of a popping thread keeps IndexInv. *)
LEMMA ConsumerIndex ==
  ASSUME NoOverflow, TypeOK, IndexInv, NEW c \in Consumers, Consumer(c)
  PROVE  IndexInv'
<1> USE QueueAssumption DEF TypeOK, IndexInv, IndexAccounting, IndexInRange, shared, Goto, Threads
<1>0. /\ Writing \in SUBSET Producers /\ Claiming \in SUBSET Consumers
      /\ Cardinality(Writing) \in Nat /\ Cardinality(Claiming) \in Nat
      /\ Cardinality(Called) \in Nat /\ Cardinality(Producers) \in Nat
  BY IndexSets
<1>1. Writing' = Writing /\ Called' = Called
  BY DEF Consumer, PopCall, TryPop, TryPopEmpty, PopAcquire, PopClaim, PopRead,
         PopRelease, Writing, Called
<1>2. ASSUME PopCall(c) \/ TryPopEmpty(c) \/ PopRead(c) \/ PopRelease(c)
      PROVE  IndexInv'
  <2>1. Claiming' = Claiming /\ UNCHANGED <<used_items, head_index, tail_index, index>>
    BY <1>2 DEF PopCall, TryPopEmpty, PopRead, PopRelease, Claiming
  <2>2. IndexInRange' BY <2>1
  <2> QED BY <1>1, <2>1, <2>2
<1>3. ASSUME PopAcquire(c) \/ TryPop(c) PROVE IndexInv'
  <2>1. /\ c \notin Claiming /\ Claiming' = Claiming \cup {c}
        /\ used_items' = used_items - 1 /\ UNCHANGED <<head_index, tail_index, index>>
    BY <1>3 DEF PopAcquire, TryPop, Claiming
  <2>2. Cardinality(Claiming') = Cardinality(Claiming) + 1 BY <1>0, <2>1, Counting
  <2>3. IndexInRange' BY <2>1
  <2> QED BY <1>0, <1>1, <2>1, <2>2, <2>3
<1>4. CASE PopClaim(c)
  <2>1. /\ c \in Claiming /\ Claiming' = Claiming \ {c}
        /\ UNCHANGED <<used_items, tail_index>>
    BY <1>4 DEF PopClaim, Claiming
  <2>2. Cardinality(Claiming') = Cardinality(Claiming) - 1 /\ Cardinality(Claiming) >= 1
    BY <1>0, <2>1, Counting
  <2>3. head_index \in Nat /\ head_index < IntMax
    BY <1>0, <2>2 DEF NoOverflow
  <2>4. head_index' = head_index + 1 BY <1>4, <2>3 DEF PopClaim, Increment
  <2>5. IndexInRange' BY <1>4, <2>3, RemainderInRange DEF PopClaim
  <2> QED BY <1>0, <1>1, <2>1, <2>2, <2>4, <2>5
<1> QED BY <1>2, <1>3, <1>4 DEF Consumer

(* While fewer pushes are made than an int counts, the two indices stay apart
   by what is queued or being queued, so a pop never claims a position before a
   push has, and the array is only indexed inside its bounds: for any number of
   threads. *)
THEOREM IndicesAgree ==
  ASSUME NoOverflow
  PROVE  Spec => []IndicesSound
<1>1. Init => IndexInv
  <2> SUFFICES ASSUME Init PROVE IndexInv OBVIOUS
  <2>1. Writing = {} /\ Claiming = {} /\ Called = {}
    BY DEF Init, Writing, Claiming, Called, Threads
  <2>2. Cardinality(Producers) \in Nat BY FS_CardinalityType, QueueAssumption
  <2> QED
    BY <2>1, <2>2, FS_EmptySet, QueueAssumption
    DEF Init, IndexInv, IndexAccounting, IndexInRange, Slots
<1>2. TypeOK /\ TypeOK' /\ PermitConservation /\ IndexInv /\ [Next]_vars => IndexInv'
  <2>1. CASE UNCHANGED vars
    BY <2>1 DEF vars, shared, IndexInv, IndexAccounting, IndexInRange, Writing,
                Claiming, Called
  <2> QED BY <2>1, ProducerIndex, ConsumerIndex DEF Next
<1>3. IndexInv => IndicesSound BY DEF IndexInv, IndicesSound
<1> QED BY <1>1, <1>2, <1>3, TypeCorrect, PermitsConserved, PTL DEF Spec
=============================================================================
