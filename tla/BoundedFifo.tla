---------------------------- MODULE BoundedFifo ----------------------------
(***************************************************************************)
(* What src/src/queue.h promises of a queue_t when one thread pushes and   *)
(* one thread pops: a first-in first-out buffer of at most Capacity items, *)
(* where every call takes effect at one instant.                           *)
(*   buf    the items pushed and not yet popped, oldest first              *)
(*   ok     what the last queue_push or queue_try_push returned            *)
(*   got    what the last queue_pop or queue_try_pop returned              *)
(***************************************************************************)
EXTENDS Naturals, Sequences

CONSTANTS
  Capacity,  \* the capacity given to queue_create
  Values,    \* the items
  NULL       \* what queue_try_pop returns when it finds no item

VARIABLES buf, ok, got

fifoVars == <<buf, ok, got>>

FifoInit == buf = << >> /\ ok = TRUE /\ got = NULL

(* queue_push, and queue_try_push when there is room. *)
Push(v) ==
  /\ Len(buf) < Capacity
  /\ buf' = Append(buf, v)
  /\ ok' = TRUE
  /\ UNCHANGED got

(* queue_try_push: "If the queue is full, returns false." *)
PushFull ==
  /\ Len(buf) = Capacity
  /\ ok' = FALSE
  /\ UNCHANGED <<buf, got>>

(* queue_pop, and queue_try_pop when there is an item. *)
Pop ==
  /\ buf # << >>
  /\ got' = Head(buf)
  /\ buf' = Tail(buf)
  /\ UNCHANGED ok

(* queue_try_pop: "If the queue is empty, returns NULL." *)
PopEmpty ==
  /\ buf = << >>
  /\ got' = NULL
  /\ UNCHANGED <<buf, ok>>

FifoNext == (\E v \in Values : Push(v)) \/ PushFull \/ Pop \/ PopEmpty

FifoSpec == FifoInit /\ [][FifoNext]_fifoVars
=============================================================================
