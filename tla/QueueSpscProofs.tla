-------------------------- MODULE QueueSpscProofs --------------------------
(***************************************************************************)
(* With one thread on each side the queue implements BoundedFifo, for any  *)
(* capacity, any items and any number of pushes below INT_MAX.             *)
(***************************************************************************)
EXTENDS QueueSpsc, QueueProofs, SequenceTheorems

(* Positions less than Capacity apart fall on different slots. *)
LEMMA SlotsDiffer ==
  ASSUME NEW a \in Nat, NEW d \in Nat, 0 < d, d < Capacity
  PROVE  a % Capacity # (a + d) % Capacity
<1> SUFFICES ASSUME a % Capacity = (a + d) % Capacity PROVE FALSE OBVIOUS
<1> DEFINE q == a \div Capacity
           r == (a + d) \div Capacity
<1>1. Capacity \in Nat /\ Capacity > 0 BY QueueAssumption
<1>2. q \in Int /\ r \in Int BY <1>1
<1>3. a = Capacity * q + (a % Capacity) BY <1>1
<1>4. a + d = Capacity * r + ((a + d) % Capacity) BY <1>1
<1> HIDE DEF q, r
<1>5. d = Capacity * (r - q)
  <2>1. a % Capacity \in Int BY <1>1
  <2>2. Capacity * r - Capacity * q = Capacity * (r - q) BY <1>1, <1>2
  <2> QED BY <1>1, <1>2, <1>3, <1>4, <2>1, <2>2
<1>6. r - q \in Int BY <1>2
<1>7. CASE r - q <= 0 BY <1>1, <1>5, <1>6, <1>7
<1>8. CASE r - q >= 1 BY <1>1, <1>5, <1>6, <1>8
<1> QED BY <1>6, <1>7, <1>8
-----------------------------------------------------------------------------
PAt == pc[Producer1]
CAt == pc[Consumer1]
One(b) == IF b THEN 1 ELSE 0

(* The inductive invariant, first half: the accounting of permits and indices. *)
SpscCounts ==
  /\ tail_index = head_index + used_items
                    + One(PAt \in {"write", "release"}) + One(CAt = "claim")
  /\ used_items + free_items + One(PAt \in {"claim", "write", "release"})
       + One(CAt \in {"claim", "read", "release"}) = Capacity
  /\ head_index >= 0 /\ tail_index <= PushBound
  /\ PAt \in {"acquire", "claim"} => tail_index < PushBound
  /\ CAt \in {"read", "release"} => head_index >= 1

(* Second half: what the two threads know in the middle of their calls. *)
SpscSlots ==
  /\ PAt # "idle" => item[Producer1] \in Values
  /\ PAt \in {"write", "release"} => index[Producer1] = SlotOf(tail_index - 1)
  /\ PAt = "release" => items[index[Producer1]] = item[Producer1]
  /\ CAt \in {"read", "release"} => index[Consumer1] = SlotOf(head_index - 1)
  /\ CAt = "release" => item[Consumer1] = items[index[Consumer1]]

SpscInv == SpscCounts /\ SpscSlots

(* The two threads are all the threads. *)
LEMMA TwoThreads ==
  /\ Producer1 \in Producers /\ Consumer1 \in Consumers
  /\ Producer1 \in Threads /\ Consumer1 \in Threads
  /\ Producer1 # Consumer1
  /\ \A p \in Producers : p = Producer1
  /\ \A c \in Consumers : c = Consumer1
  BY QueueAssumption, SpscAssumption DEF Threads

(* A count modulo Capacity is a position in the array, and the C remainder of
   a count is the mathematical one. *)
LEMMA CountIndex ==
  \A a \in Nat : CRemainder(a, Capacity) = SlotOf(a) /\ SlotOf(a) \in Slots
  BY QueueAssumption DEF CRemainder, Slots, SlotOf

(* The slot the producer claimed is Pending positions past the oldest item,
   and differs from the slot of every item in the buffer and from the slot the
   consumer is reading. *)
LEMMA ClaimedSlot ==
  ASSUME TypeOK, SpscInv, PAt \in {"write", "release"}
  PROVE  /\ First \in Nat /\ Pending \in Nat /\ Pending < Capacity
         /\ index[Producer1] = SlotOf(First + Pending)
         /\ index[Producer1] \in Slots
         /\ \A i \in 1 .. Pending : SlotOf(First + i - 1) # index[Producer1]
         /\ CAt \in {"read", "release"} => index[Consumer1] # index[Producer1]
<1> USE QueueAssumption
<1>1. Consumer1 \in Popping <=> CAt \in {"claim", "read", "release"}
  BY TwoThreads DEF Popping, CAt
<1>2. /\ First \in Nat /\ Pending \in Nat /\ Pending < Capacity
      /\ First + Pending = tail_index - 1
      /\ CAt \in {"read", "release"} => First = head_index - 1 /\ Pending >= 1
  BY <1>1 DEF TypeOK, SpscInv, SpscCounts, First, Pending, One, CAt, PAt
<1>3. index[Producer1] = SlotOf(First + Pending) /\ index[Producer1] \in Slots
  BY <1>2, CountIndex DEF SpscInv, SpscSlots
<1>4. ASSUME NEW i \in 1 .. Pending
      PROVE  SlotOf(First + i - 1) # index[Producer1]
  <2>1. First + i - 1 \in Nat /\ Pending - i + 1 \in Nat BY <1>2
  <2>2. 0 < Pending - i + 1 /\ Pending - i + 1 < Capacity BY <1>2
  <2>3. (First + i - 1) % Capacity # (First + i - 1 + (Pending - i + 1)) % Capacity
    BY <2>1, <2>2, SlotsDiffer
  <2>4. First + i - 1 + (Pending - i + 1) = First + Pending BY <1>2
  <2> QED BY <1>3, <2>3, <2>4 DEF SlotOf
<1>5. CAt \in {"read", "release"} => index[Consumer1] # index[Producer1]
  <2>1. SUFFICES ASSUME CAt \in {"read", "release"}
                 PROVE  index[Consumer1] # index[Producer1]
    OBVIOUS
  <2>2. 1 \in 1 .. Pending BY <1>2, <2>1
  <2>3. head_index - 1 = First + 1 - 1 BY <1>2, <2>1
  <2>4. index[Consumer1] = SlotOf(First + 1 - 1)
    BY <2>1, <2>3 DEF SpscInv, SpscSlots
  <2> QED BY <1>4, <2>2, <2>4
<1> QED BY <1>2, <1>3, <1>4, <1>5

(* A step of the producer keeps SpscCounts. *)
LEMMA ProducerCounts ==
  ASSUME TypeOK, SpscCounts, Producer(Producer1)
  PROVE  SpscCounts'
<1> USE QueueAssumption, SpscAssumption, TwoThreads
    DEF SpscCounts, PAt, CAt, One, TypeOK, shared, Goto
<1>1. ASSUME \E v \in Values : PushCall(Producer1, v) \/ TryPush(Producer1, v)
      PROVE  SpscCounts'
  BY <1>1 DEF PushCall, TryPush
<1>2. CASE PushAcquire(Producer1) BY <1>2 DEF PushAcquire
<1>3. CASE TryPushFull(Producer1) BY <1>3 DEF TryPushFull
<1>4. CASE PushClaim(Producer1) BY <1>4 DEF PushClaim, Increment
<1>5. CASE PushWrite(Producer1) BY <1>5 DEF PushWrite
<1>6. CASE PushRelease(Producer1) BY <1>6 DEF PushRelease, Release
<1> QED BY <1>1, <1>2, <1>3, <1>4, <1>5, <1>6 DEF Producer, PushStep

(* A step of the consumer keeps SpscCounts. *)
LEMMA ConsumerCounts ==
  ASSUME TypeOK, SpscCounts, Consumer(Consumer1)
  PROVE  SpscCounts'
<1> USE QueueAssumption, SpscAssumption, TwoThreads
    DEF SpscCounts, PAt, CAt, One, TypeOK, shared, Goto
<1>1. CASE PopCall(Consumer1) BY <1>1 DEF PopCall
<1>2. CASE TryPop(Consumer1) BY <1>2 DEF TryPop
<1>3. CASE TryPopEmpty(Consumer1) BY <1>3 DEF TryPopEmpty
<1>4. CASE PopAcquire(Consumer1) BY <1>4 DEF PopAcquire
<1>5. CASE PopClaim(Consumer1) BY <1>5 DEF PopClaim, Increment
<1>6. CASE PopRead(Consumer1) BY <1>6 DEF PopRead
<1>7. CASE PopRelease(Consumer1) BY <1>7 DEF PopRelease, Release
<1> QED BY <1>1, <1>2, <1>3, <1>4, <1>5, <1>6, <1>7 DEF Consumer

(* A step of the producer keeps SpscSlots. *)
LEMMA ProducerSlots ==
  ASSUME TypeOK, SpscInv, Producer(Producer1)
  PROVE  SpscSlots'
<1> USE TwoThreads DEF SpscSlots, SpscInv, PAt, CAt, TypeOK, shared, Goto
<1>1. ASSUME \E v \in Values : PushCall(Producer1, v) \/ TryPush(Producer1, v)
      PROVE  SpscSlots'
  BY <1>1 DEF PushCall, TryPush
<1>2. CASE PushAcquire(Producer1) BY <1>2 DEF PushAcquire
<1>3. CASE TryPushFull(Producer1) BY <1>3 DEF TryPushFull
<1>4. CASE PushClaim(Producer1)
  <2>1. tail_index \in Nat /\ tail_index # IntMax
    BY <1>4, QueueAssumption, SpscAssumption DEF PushClaim, SpscCounts, One
  <2>2. index'[Producer1] = SlotOf(tail_index) /\ tail_index' - 1 = tail_index
    BY <1>4, <2>1, CountIndex DEF PushClaim, Increment
  <2> QED BY <1>4, <2>2 DEF PushClaim
<1>5. CASE PushWrite(Producer1)
  <2>1. items' = [items EXCEPT ![index[Producer1]] = item[Producer1]]
    BY <1>5, ClaimedSlot DEF PushWrite
  <2>2. CAt = "release" => items'[index[Consumer1]] = items[index[Consumer1]]
    BY <1>5, <2>1, ClaimedSlot DEF PushWrite
  <2>3. items'[index[Producer1]] = item[Producer1]
    BY <1>5, <2>1, ClaimedSlot DEF PushWrite
  <2> QED BY <1>5, <2>2, <2>3 DEF PushWrite
<1>6. CASE PushRelease(Producer1) BY <1>6 DEF PushRelease
<1> QED BY <1>1, <1>2, <1>3, <1>4, <1>5, <1>6 DEF Producer, PushStep

(* A step of the consumer keeps SpscSlots. *)
LEMMA ConsumerSlots ==
  ASSUME TypeOK, SpscInv, Consumer(Consumer1)
  PROVE  SpscSlots'
<1> USE TwoThreads DEF SpscSlots, SpscInv, PAt, CAt, TypeOK, shared, Goto
<1>1. CASE PopCall(Consumer1) BY <1>1 DEF PopCall
<1>2. CASE TryPop(Consumer1) BY <1>2 DEF TryPop
<1>3. CASE TryPopEmpty(Consumer1) BY <1>3 DEF TryPopEmpty
<1>4. CASE PopAcquire(Consumer1) BY <1>4 DEF PopAcquire
<1>5. CASE PopClaim(Consumer1)
  <2>1. head_index \in Nat /\ head_index # IntMax
    BY <1>5, QueueAssumption, SpscAssumption DEF PopClaim, SpscCounts, One
  <2>2. index'[Consumer1] = SlotOf(head_index) /\ head_index' - 1 = head_index
    BY <1>5, <2>1, CountIndex DEF PopClaim, Increment
  <2> QED BY <1>5, <2>2 DEF PopClaim
<1>6. CASE PopRead(Consumer1)
  <2>1. head_index - 1 \in Nat BY <1>6 DEF PopRead, SpscCounts
  <2>2. index[Consumer1] \in Slots BY <1>6, <2>1, CountIndex DEF PopRead
  <2>3. item'[Consumer1] = items[index[Consumer1]] BY <1>6, <2>2 DEF PopRead
  <2> QED BY <1>6, <2>3 DEF PopRead
<1>7. CASE PopRelease(Consumer1) BY <1>7 DEF PopRelease
<1> QED BY <1>1, <1>2, <1>3, <1>4, <1>5, <1>6, <1>7 DEF Consumer

(* SpscInv holds in every reachable state. *)
THEOREM SpscInvariant == Spec => []SpscInv
<1>1. Init => SpscInv
  BY TwoThreads, QueueAssumption
  DEF Init, SpscInv, SpscCounts, SpscSlots, PAt, CAt, One
<1>2. TypeOK /\ SpscInv /\ [Next]_vars => SpscInv'
  <2>1. CASE UNCHANGED vars
    BY <2>1 DEF vars, shared, SpscInv, SpscCounts, SpscSlots, PAt, CAt
  <2>2. ASSUME TypeOK, SpscInv, Next PROVE SpscInv'
    <3>1. Producer(Producer1) \/ Consumer(Consumer1) BY <2>2, TwoThreads DEF Next
    <3> QED
      BY <2>2, <3>1, ProducerCounts, ConsumerCounts, ProducerSlots, ConsumerSlots
      DEF SpscInv
  <2> QED BY <2>1, <2>2
<1> QED BY <1>1, <1>2, TypeCorrect, PTL DEF Spec

(* With one thread on each side no slot is written while it is read. *)
THEOREM SlotsExclusive == Spec => []SlotExclusive
<1>1. TypeOK /\ SpscInv => SlotExclusive
  BY TwoThreads, ClaimedSlot DEF SlotExclusive, PAt, CAt, Threads, TypeOK
<1> QED BY <1>1, TypeCorrect, SpscInvariant, PTL
-----------------------------------------------------------------------------
(* The queue's steps as seen through Buffer. *)

(* Writing the claimed slot leaves the items of the buffer as they are. *)
LEMMA WriteKeepsBuffer ==
  ASSUME TypeOK, SpscInv, PushWrite(Producer1)
  PROVE  Buffer' = Buffer
<1>1. PAt = "write" BY DEF PushWrite, Goto, PAt
<1>2. First' = First /\ Pending' = Pending
  BY TwoThreads DEF PushWrite, Goto, First, Pending, Popping, TypeOK
<1>3. items' = [items EXCEPT ![index[Producer1]] = item[Producer1]]
  BY <1>1, ClaimedSlot DEF PushWrite
<1>4. ASSUME NEW i \in 1 .. Pending
      PROVE  items'[SlotOf(First + i - 1)] = items[SlotOf(First + i - 1)]
  BY <1>1, <1>3, <1>4, ClaimedSlot DEF TypeOK
<1> QED BY <1>2, <1>4 DEF Buffer

(* Releasing used_items appends the pushed item to the buffer. *)
LEMMA ReleaseAppends ==
  ASSUME TypeOK, SpscInv, PushRelease(Producer1)
  PROVE  /\ Len(Buffer) < Capacity
         /\ item[Producer1] \in Values
         /\ Buffer' = Append(Buffer, item[Producer1])
<1> DEFINE x == item[Producer1]
<1>1. PAt = "release" BY DEF PushRelease, Goto, PAt
<1>2. First \in Nat /\ Pending \in Nat /\ Pending < Capacity
      /\ index[Producer1] = SlotOf(First + Pending)
  BY <1>1, ClaimedSlot
<1>3. x \in Values /\ items[SlotOf(First + Pending)] = x
  BY <1>1, <1>2 DEF SpscInv, SpscSlots
<1>4. used_items' = used_items + 1
  BY <1>1, QueueAssumption
  DEF PushRelease, Release, SpscInv, SpscCounts, One, TypeOK
<1>5. First' = First /\ Pending' = Pending + 1
  BY <1>4, TwoThreads DEF PushRelease, Goto, First, Pending, Popping, TypeOK
<1>6. items' = items BY DEF PushRelease
<1>7. Len(Buffer) = Pending /\ Buffer \in Seq(Values \cup {Uninit})
  <2>1. ASSUME NEW i \in 1 .. Pending
        PROVE  SlotOf(First + i - 1) \in Slots
    <3>1. First + i - 1 \in Nat BY <1>2
    <3> QED BY <3>1, CountIndex
  <2>2. ASSUME NEW i \in 1 .. Pending
        PROVE  items[SlotOf(First + i - 1)] \in Values \cup {Uninit}
    BY <2>1 DEF TypeOK
  <2>3. Buffer \in [1 .. Pending -> Values \cup {Uninit}] BY <2>2 DEF Buffer
  <2>4. Pending \in Nat BY <1>2
  <2> HIDE DEF Buffer
  <2> QED BY <2>3, <2>4
<1>8. Buffer' = [i \in 1 .. Pending + 1 |-> items[SlotOf(First + i - 1)]]
  BY <1>5, <1>6 DEF Buffer, SlotOf
<1>9. Append(Buffer, x) = [i \in 1 .. Pending + 1 |-> IF i = Pending + 1 THEN x ELSE Buffer[i]]
  BY <1>2, <1>7
<1>10. ASSUME NEW i \in 1 .. Pending + 1
       PROVE  items[SlotOf(First + i - 1)] = IF i = Pending + 1 THEN x ELSE Buffer[i]
  <2>1. CASE i = Pending + 1
    <3>1. First + i - 1 = First + Pending BY <1>2, <2>1
    <3> QED BY <1>3, <2>1, <3>1
  <2>2. CASE i # Pending + 1 BY <1>2, <2>2 DEF Buffer
  <2> QED BY <2>1, <2>2
<1> QED BY <1>2, <1>3, <1>7, <1>8, <1>9, <1>10

(* Releasing free_items removes the oldest item, which is the one returned. *)
LEMMA ReleaseRemoves ==
  ASSUME TypeOK, SpscInv, PopRelease(Consumer1)
  PROVE  /\ Buffer # << >>
         /\ got'[Consumer1] = Head(Buffer)
         /\ Buffer' = Tail(Buffer)
<1>1. CAt = "release" BY DEF PopRelease, Goto, CAt
<1>2. /\ First = head_index - 1 /\ First \in Nat
      /\ Pending = used_items + 1 /\ Pending \in Nat \ {0}
  BY <1>1, TwoThreads
  DEF First, Pending, Popping, CAt, SpscInv, SpscCounts, TypeOK
<1>3. /\ First' = First + 1 /\ Pending' = Pending - 1 /\ items' = items
  BY <1>2, TwoThreads DEF PopRelease, Goto, First, Pending, Popping, TypeOK
<1>4. Len(Buffer) = Pending /\ Buffer \in Seq(Values \cup {Uninit})
  <2>1. ASSUME NEW i \in 1 .. Pending
        PROVE  items[SlotOf(First + i - 1)] \in Values \cup {Uninit}
    <3>1. First + i - 1 \in Nat BY <1>2
    <3>2. SlotOf(First + i - 1) \in Slots BY <3>1, CountIndex
    <3> QED BY <3>2 DEF TypeOK
  <2>2. Buffer \in [1 .. Pending -> Values \cup {Uninit}] BY <2>1 DEF Buffer
  <2>3. Pending \in Nat BY <1>2
  <2> HIDE DEF Buffer
  <2> QED BY <2>2, <2>3
<1>5. got'[Consumer1] = items[SlotOf(First)]
  BY <1>1, <1>2, TwoThreads DEF PopRelease, SpscInv, SpscSlots, TypeOK
<1>6. Head(Buffer) = items[SlotOf(First)]
  <2>1. 1 \in 1 .. Pending /\ First + 1 - 1 = First BY <1>2
  <2>2. Buffer[1] = items[SlotOf(First)] BY <2>1 DEF Buffer
  <2> QED BY <1>2, <1>4, <2>2
<1>7. Buffer' = [i \in 1 .. Pending - 1 |-> items[SlotOf(First + 1 + i - 1)]]
  <2>1. Buffer' = [i \in 1 .. Pending' |-> items'[SlotOf(First' + i - 1)]]
    BY DEF Buffer, SlotOf
  <2> QED BY <1>3, <2>1
<1>8. /\ Tail(Buffer) \in Seq(Values \cup {Uninit}) /\ Len(Tail(Buffer)) = Pending - 1
      /\ \A i \in 1 .. Pending - 1 : Tail(Buffer)[i] = Buffer[i + 1]
  <2>1. Buffer # << >> BY <1>2, <1>4
  <2> QED BY <1>4, <2>1, HeadTailProperties
<1>9. ASSUME NEW i \in 1 .. Pending - 1
      PROVE  items[SlotOf(First + 1 + i - 1)] = Buffer[i + 1]
  <2>1. i + 1 \in 1 .. Pending /\ First + (i + 1) - 1 = First + 1 + i - 1 BY <1>2
  <2> QED BY <2>1 DEF Buffer
<1>10. Buffer' = Tail(Buffer)
  <2>1. ASSUME NEW i \in 1 .. Pending - 1
        PROVE  Buffer'[i] = Tail(Buffer)[i] /\ Buffer'[i] \in Values \cup {Uninit}
    <3>1. Buffer'[i] = Tail(Buffer)[i] BY <1>7, <1>8, <1>9
    <3>2. Tail(Buffer)[i] \in Values \cup {Uninit} BY <1>8
    <3> QED BY <3>1, <3>2
  <2>2. Pending - 1 \in Nat BY <1>2
  <2>3. /\ Buffer' \in Seq(Values \cup {Uninit})
        /\ Len(Buffer') = Pending - 1
    BY <1>7, <2>1, <2>2
  <2> QED BY <1>8, <2>1, <2>3, SeqEqual
<1> QED BY <1>2, <1>4, <1>5, <1>6, <1>10

(* A producer's step is a push, a failed try_push or a stutter of the FIFO. *)
LEMMA ProducerRefines ==
  ASSUME TypeOK, SpscInv, Producer(Producer1)
  PROVE  Fifo!FifoNext \/ UNCHANGED Fifo!fifoVars
<1> USE TwoThreads DEF Fifo!fifoVars, Fifo!FifoNext
<1> DEFINE Same == UNCHANGED <<First, Pending, items, ok, got>>
<1>1. Same => UNCHANGED Fifo!fifoVars BY DEF Buffer, SlotOf
<1>2. ASSUME \/ \E v \in Values : PushCall(Producer1, v) \/ TryPush(Producer1, v)
             \/ PushAcquire(Producer1) \/ PushClaim(Producer1)
      PROVE  Same
  BY <1>2
  DEF PushCall, TryPush, PushAcquire, PushClaim, Goto, shared, First, Pending,
      Popping, TypeOK
<1>3. CASE TryPushFull(Producer1)
  <2>1. Pending = Capacity
    BY <1>3, QueueAssumption
    DEF TryPushFull, Pending, Popping, SpscInv, SpscCounts, One, PAt, CAt, TypeOK
  <2>2. Len(Buffer) = Capacity BY <2>1, QueueAssumption DEF Buffer
  <2>3. UNCHANGED <<First, Pending, items, got>> /\ ok'[Producer1] = FALSE
    BY <1>3 DEF TryPushFull, shared, First, Pending, Popping, TypeOK
  <2>4. UNCHANGED Buffer BY <2>3 DEF Buffer, SlotOf
  <2> QED BY <2>2, <2>3, <2>4 DEF Fifo!PushFull
<1>4. CASE PushWrite(Producer1)
  BY <1>4, WriteKeepsBuffer DEF PushWrite
<1>5. CASE PushRelease(Producer1)
  <2>1. ok'[Producer1] = TRUE /\ UNCHANGED got BY <1>5 DEF PushRelease, TypeOK
  <2> QED BY <1>5, <2>1, ReleaseAppends DEF Fifo!Push
<1> QED BY <1>1, <1>2, <1>3, <1>4, <1>5 DEF Producer, PushStep

(* A consumer's step is a pop, a failed try_pop or a stutter of the FIFO. *)
LEMMA ConsumerRefines ==
  ASSUME TypeOK, SpscInv, Consumer(Consumer1)
  PROVE  Fifo!FifoNext \/ UNCHANGED Fifo!fifoVars
<1> USE TwoThreads DEF Fifo!fifoVars, Fifo!FifoNext
<1> DEFINE Same == UNCHANGED <<First, Pending, items, ok, got>>
<1>1. Same => UNCHANGED Fifo!fifoVars BY DEF Buffer, SlotOf
<1>2. ASSUME PopCall(Consumer1) \/ PopRead(Consumer1) PROVE Same
  BY <1>2 DEF PopCall, PopRead, Goto, shared, First, Pending, Popping, TypeOK
<1>3. ASSUME TryPop(Consumer1) \/ PopAcquire(Consumer1) PROVE Same
  BY <1>3 DEF TryPop, PopAcquire, Goto, First, Pending, Popping, TypeOK
<1>4. CASE PopClaim(Consumer1)
  <2>1. head_index' = head_index + 1
    BY <1>4, QueueAssumption, SpscAssumption
    DEF PopClaim, Goto, Increment, SpscInv, SpscCounts, One, CAt, PAt, TypeOK
  <2>2. Same BY <1>4, <2>1 DEF PopClaim, Goto, First, Pending, Popping, TypeOK
  <2> QED BY <1>1, <2>2
<1>5. CASE TryPopEmpty(Consumer1)
  <2>1. Pending = 0 BY <1>5 DEF TryPopEmpty, Pending, Popping
  <2>2. Buffer = << >> BY <2>1 DEF Buffer
  <2>3. UNCHANGED <<First, Pending, items, ok>> /\ got'[Consumer1] = NULL
    BY <1>5 DEF TryPopEmpty, shared, First, Pending, Popping, TypeOK
  <2>4. UNCHANGED Buffer BY <2>3 DEF Buffer, SlotOf
  <2> QED BY <2>2, <2>3, <2>4 DEF Fifo!PopEmpty
<1>6. CASE PopRelease(Consumer1)
  <2>1. UNCHANGED ok BY <1>6 DEF PopRelease
  <2> QED BY <1>6, <2>1, ReleaseRemoves DEF Fifo!Pop
<1> QED BY <1>1, <1>2, <1>3, <1>4, <1>5, <1>6 DEF Consumer

(* With one pushing and one popping thread queue.c implements BoundedFifo. *)
THEOREM Implementation == Spec => ImplementsFifo
<1>1. Init => Fifo!FifoInit
  <2> SUFFICES ASSUME Init PROVE Fifo!FifoInit OBVIOUS
  <2>1. Pending = 0 BY TwoThreads DEF Init, Pending, Popping
  <2>2. Buffer = << >> BY <2>1 DEF Buffer
  <2> QED BY <2>2, TwoThreads DEF Init, Fifo!FifoInit
<1>2. TypeOK /\ SpscInv /\ [Next]_vars => [Fifo!FifoNext]_Fifo!fifoVars
  <2>1. CASE UNCHANGED vars
    BY <2>1
    DEF vars, shared, Fifo!fifoVars, Buffer, First, Pending, Popping, SlotOf
  <2>2. ASSUME TypeOK, SpscInv, Next
        PROVE  Fifo!FifoNext \/ UNCHANGED Fifo!fifoVars
    <3>1. Producer(Producer1) \/ Consumer(Consumer1) BY <2>2, TwoThreads DEF Next
    <3> QED BY <2>2, <3>1, ProducerRefines, ConsumerRefines
  <2> QED BY <2>1, <2>2
<1> QED
  BY <1>1, <1>2, TypeCorrect, SpscInvariant, PTL DEF Spec, ImplementsFifo, Fifo!FifoSpec
=============================================================================
