----------------------------- MODULE QueueSpsc -----------------------------
(***************************************************************************)
(* The queue with one pushing and one popping thread, which is how fs.c,   *)
(* net.c and render.c use it, shown to implement BoundedFifo: a push takes *)
(* effect when it releases used_items, a pop when it releases free_items.  *)
(***************************************************************************)
EXTENDS Queue, Sequences

CONSTANTS Producer1, Consumer1

ASSUME SpscAssumption ==
  /\ Producers = {Producer1}
  /\ Consumers = {Consumer1}
  /\ PushBound <= IntMax

(* Position, counted in items since queue_create, of the oldest item whose
   pop has not returned, and the number of items announced and not popped. *)
First == IF pc[Consumer1] \in {"read", "release"} THEN head_index - 1 ELSE head_index
Pending == used_items + IF Consumer1 \in Popping THEN 1 ELSE 0

(* The slot of the n-th item, counting from 0. *)
SlotOf(n) == n % Capacity

Buffer == [i \in 1 .. Pending |-> items[SlotOf(First + i - 1)]]

Fifo == INSTANCE BoundedFifo
          WITH buf <- Buffer, ok <- ok[Producer1], got <- got[Consumer1]

(* The code implements the abstract FIFO: items come out once each, in the
   order they went in; try_push fails only on a full queue and try_pop only on
   an empty one. *)
ImplementsFifo == Fifo!FifoSpec
=============================================================================
