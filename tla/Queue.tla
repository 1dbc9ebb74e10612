------------------------------- MODULE Queue -------------------------------
(***************************************************************************)
(* The bounded queue of src/src/queue.c, one step per access to shared     *)
(* memory: two counting semaphores guard an array of items; a push claims  *)
(* a slot by incrementing tail_index, a pop by incrementing head_index.    *)
(* Any number of threads push (Producers) and pop (Consumers).             *)
(***************************************************************************)
EXTENDS Integers, FiniteSets

CONSTANTS
  Producers,  \* threads that call queue_push and queue_try_push
  Consumers,  \* threads that call queue_pop and queue_try_pop
  Capacity,   \* the capacity given to queue_create
  Values,     \* the items
  Uninit,     \* what a slot of heap_alloc'ed memory holds before any write
  NULL,       \* what queue_try_pop returns when it finds no item
  IntMax,     \* INT_MAX: the greatest value of head_index and tail_index
  PushBound   \* bound of the model: no push starts once tail_index is this

ASSUME QueueAssumption ==
  /\ Capacity \in Nat \ {0}
  /\ IntMax \in Nat
  /\ PushBound \in Nat
  /\ IsFiniteSet(Producers) /\ IsFiniteSet(Consumers)
  /\ Producers \cap Consumers = {}
  /\ Uninit \notin Values /\ NULL \notin Values /\ Uninit # NULL

VARIABLES
  used_items,   \* count of the semaphore of items to pop
  free_items,   \* count of the semaphore of slots to fill
  items,        \* the array
  head_index,   \* pops that have claimed a slot so far
  tail_index,   \* pushes that have claimed a slot so far
  pc,           \* where in its call each thread is
  index,        \* local variable of queue_push and queue_pop
  item,         \* argument of queue_push, local variable of queue_pop
  ok,           \* what each producer's last call returned
  got           \* what each consumer's last call returned

shared == <<used_items, free_items, items, head_index, tail_index>>
vars == <<shared, pc, index, item, ok, got>>

Threads == Producers \cup Consumers
Slots == 0 .. Capacity - 1

(* The remainder of C, whose sign is the dividend's. *)
CRemainder(a, b) == IF a >= 0 THEN a % b ELSE -((-a) % b)

(* InterlockedIncrement on an int: two's complement wrap-around. *)
Increment(n) == IF n = IntMax THEN -IntMax - 1 ELSE n + 1

(* ReleaseSemaphore refuses to take the count above its maximum. *)
Release(count) == IF count < Capacity THEN count + 1 ELSE count

Goto(t, from, to) == pc[t] = from /\ pc' = [pc EXCEPT ![t] = to]

Init ==
  /\ used_items = 0 /\ free_items = Capacity
  /\ items = [s \in Slots |-> Uninit]
  /\ head_index = 0 /\ tail_index = 0
  /\ pc = [t \in Threads |-> "idle"]
  /\ index = [t \in Threads |-> 0]
  /\ item = [t \in Threads |-> Uninit]
  /\ ok = [p \in Producers |-> TRUE]
  /\ got = [c \in Consumers |-> NULL]
-----------------------------------------------------------------------------
(* queue_push and queue_try_push *)

PushCall(p, v) ==
  /\ tail_index < PushBound
  /\ Goto(p, "idle", "acquire")
  /\ item' = [item EXCEPT ![p] = v]
  /\ UNCHANGED <<shared, index, ok, got>>

(* Mutant: queue_push does not wait for a free slot. *)
PushAcquireUnguarded(p) ==
  /\ Goto(p, "acquire", "claim")
  /\ free_items' = free_items - 1
  /\ UNCHANGED <<used_items, items, head_index, tail_index, index, item, ok, got>>

PushAcquire(p) ==
  /\ Goto(p, "acquire", "claim")
  /\ free_items > 0
  /\ free_items' = free_items - 1
  /\ UNCHANGED <<used_items, items, head_index, tail_index, index, item, ok, got>>

TryPush(p, v) ==
  /\ tail_index < PushBound
  /\ free_items > 0
  /\ Goto(p, "idle", "claim")
  /\ item' = [item EXCEPT ![p] = v]
  /\ free_items' = free_items - 1
  /\ UNCHANGED <<used_items, items, head_index, tail_index, index, ok, got>>

TryPushFull(p) ==
  /\ pc[p] = "idle"
  /\ free_items = 0
  /\ ok' = [ok EXCEPT ![p] = FALSE]
  /\ UNCHANGED <<shared, pc, index, item, got>>

PushClaim(p) ==
  /\ Goto(p, "claim", "write")
  /\ index' = [index EXCEPT ![p] = CRemainder(tail_index, Capacity)]
  /\ tail_index' = Increment(tail_index)
  /\ UNCHANGED <<used_items, free_items, items, head_index, item, ok, got>>

(* A negative index writes outside the array, which the model does not hold. *)
PushWrite(p) ==
  /\ Goto(p, "write", "release")
  /\ items' = IF index[p] \in Slots THEN [items EXCEPT ![index[p]] = item[p]] ELSE items
  /\ UNCHANGED <<used_items, free_items, head_index, tail_index, index, item, ok, got>>

(* Mutant: queue_push releases the semaphore it acquired. *)
PushReleaseFree(p) ==
  /\ Goto(p, "release", "idle")
  /\ free_items' = Release(free_items)
  /\ ok' = [ok EXCEPT ![p] = TRUE]
  /\ UNCHANGED <<used_items, items, head_index, tail_index, index, item, got>>

PushRelease(p) ==
  /\ Goto(p, "release", "idle")
  /\ used_items' = Release(used_items)
  /\ ok' = [ok EXCEPT ![p] = TRUE]
  /\ UNCHANGED <<free_items, items, head_index, tail_index, index, item, got>>
-----------------------------------------------------------------------------
(* queue_pop and queue_try_pop *)

PopCall(c) ==
  /\ Goto(c, "idle", "acquire")
  /\ UNCHANGED <<shared, index, item, ok, got>>

(* Mutant: queue_pop does not wait for an item. *)
PopAcquireUnguarded(c) ==
  /\ Goto(c, "acquire", "claim")
  /\ used_items' = used_items - 1
  /\ UNCHANGED <<free_items, items, head_index, tail_index, index, item, ok, got>>

PopAcquire(c) ==
  /\ Goto(c, "acquire", "claim")
  /\ used_items > 0
  /\ used_items' = used_items - 1
  /\ UNCHANGED <<free_items, items, head_index, tail_index, index, item, ok, got>>

TryPop(c) ==
  /\ Goto(c, "idle", "claim")
  /\ used_items > 0
  /\ used_items' = used_items - 1
  /\ UNCHANGED <<free_items, items, head_index, tail_index, index, item, ok, got>>

TryPopEmpty(c) ==
  /\ pc[c] = "idle"
  /\ used_items = 0
  /\ got' = [got EXCEPT ![c] = NULL]
  /\ UNCHANGED <<shared, pc, index, item, ok>>

(* Mutant: the new value of head_index is used, not the old one. *)
PopClaimNew(c) ==
  /\ Goto(c, "claim", "read")
  /\ index' = [index EXCEPT ![c] = CRemainder(Increment(head_index), Capacity)]
  /\ head_index' = Increment(head_index)
  /\ UNCHANGED <<used_items, free_items, items, tail_index, item, ok, got>>

PopClaim(c) ==
  /\ Goto(c, "claim", "read")
  /\ index' = [index EXCEPT ![c] = CRemainder(head_index, Capacity)]
  /\ head_index' = Increment(head_index)
  /\ UNCHANGED <<used_items, free_items, items, tail_index, item, ok, got>>

(* A negative index reads outside the array: any value may come back. *)
PopRead(c) ==
  /\ Goto(c, "read", "release")
  /\ \E x \in IF index[c] \in Slots THEN {items[index[c]]} ELSE Values \cup {Uninit} :
       item' = [item EXCEPT ![c] = x]
  /\ UNCHANGED <<shared, index, ok, got>>

(* Mutant: queue_pop returns without releasing the slot. *)
PopReleaseNothing(c) ==
  /\ Goto(c, "release", "idle")
  /\ got' = [got EXCEPT ![c] = item[c]]
  /\ UNCHANGED <<shared, index, item, ok>>

PopRelease(c) ==
  /\ Goto(c, "release", "idle")
  /\ free_items' = Release(free_items)
  /\ got' = [got EXCEPT ![c] = item[c]]
  /\ UNCHANGED <<used_items, items, head_index, tail_index, index, item, ok>>
-----------------------------------------------------------------------------
(* The steps a push takes once it is called. *)
PushStep(p) == PushAcquire(p) \/ PushClaim(p) \/ PushWrite(p) \/ PushRelease(p)

Producer(p) ==
  \/ \E v \in Values : PushCall(p, v) \/ TryPush(p, v)
  \/ TryPushFull(p)
  \/ PushStep(p)

Consumer(c) ==
  \/ PopCall(c) \/ TryPop(c) \/ TryPopEmpty(c)
  \/ PopAcquire(c) \/ PopClaim(c) \/ PopRead(c) \/ PopRelease(c)

Next == (\E p \in Producers : Producer(p)) \/ (\E c \in Consumers : Consumer(c))

Spec == Init /\ [][Next]_vars

(* A thread inside a call is scheduled again, and the consuming threads of the
   engine (fs.c, net.c and render.c) pop in a loop. *)
FairSpec ==
  /\ Spec
  /\ \A p \in Producers : WF_vars(PushStep(p))
  /\ \A c \in Consumers : WF_vars(Consumer(c))
-----------------------------------------------------------------------------
(* Every variable has its type. *)
TypeOK ==
  /\ used_items \in 0 .. Capacity /\ free_items \in 0 .. Capacity
  /\ items \in [Slots -> Values \cup {Uninit}]
  /\ head_index \in Int /\ tail_index \in Int
  /\ pc \in [Threads -> {"idle", "acquire", "claim", "write", "read", "release"}]
  /\ \A p \in Producers : pc[p] # "read"
  /\ \A c \in Consumers : pc[c] # "write"
  /\ index \in [Threads -> Int]
  /\ item \in [Threads -> Values \cup {Uninit}]
  /\ ok \in [Producers -> BOOLEAN]
  /\ got \in [Consumers -> Values \cup {Uninit, NULL}]

(* Threads that hold a permit they have taken from one semaphore and not yet
   given to the other. *)
Pushing == {p \in Producers : pc[p] \in {"claim", "write", "release"}}
Popping == {c \in Consumers : pc[c] \in {"claim", "read", "release"}}

(* However the threads interleave, the permits in the two semaphores and in
   the hands of threads inside queue_push and queue_pop number Capacity, so
   no ReleaseSemaphore is ever refused and no slot is leaked. *)
PermitConservation ==
  used_items + free_items + Cardinality(Pushing) + Cardinality(Popping) = Capacity

(* Threads that have claimed a slot to write and not yet announced it, and
   threads that may pop an item and have not yet claimed its slot. *)
Writing == {p \in Producers : pc[p] \in {"write", "release"}}
Claiming == {c \in Consumers : pc[c] = "claim"}

(* The distance of the two indices is the number of announced items, of
   pushes about to announce one and of pops about to claim one, so a pop never
   claims a position before a push has. *)
IndexAccounting ==
  tail_index - head_index
    = used_items + Cardinality(Writing) + Cardinality(Claiming)

(* No thread writes a slot of the array while another reads or writes it:
   what "Safe for multiple threads to push / pop at the same time" needs. *)
SlotExclusive ==
  \A p \in Producers, t \in Threads :
    (p # t /\ pc[p] = "write" /\ pc[t] \in {"write", "read"}) => index[p] # index[t]

(* queue_pop only returns what a queue_push stored. *)
PopsPushedItems == \A c \in Consumers : pc[c] = "release" => item[c] # Uninit

(* The array is only indexed inside its bounds: "this allows us to go above
   16 in our count, but keep our indices 0 to 15" (lecture7.c:148). *)
IndexInRange == \A t \in Threads : index[t] \in Slots

(* The two counts never run ahead of one another, and the remainders taken of
   them are indices of the array, both only until a count passes INT_MAX. *)
IndicesSound == IndexAccounting /\ IndexInRange

(* A push that waits for space completes as long as someone pops. *)
PushCompletes == \A p \in Producers : pc[p] = "acquire" ~> pc[p] = "idle"
=============================================================================
