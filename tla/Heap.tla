-------------------------------- MODULE Heap --------------------------------
(***************************************************************************)
(* The heap of src/src/heap.c: any number of threads allocate and free     *)
(* blocks under one mutex; TLSF (external) hands out room of the arenas,   *)
(* which are taken from the operating system when it finds none; the heap  *)
(* is destroyed without the mutex, and reports the blocks still in use.    *)
(***************************************************************************)
EXTENDS Naturals, FiniteSets, Sequences

CONSTANTS
  Callers,   \* the threads that use the heap
  Blocks,    \* names of the blocks that are allocated
  SizeOf,    \* of each block: the size asked for
  Grow,      \* grow_increment of heap_create
  Limits,    \* numbers of arenas the operating system may have room for
  None       \* no thread, no block: NULL

ASSUME HeapAssumption ==
  /\ SizeOf \in [Blocks -> Nat \ {0}]
  /\ Grow \in Nat \ {0} /\ Limits \subseteq Nat
  /\ None \notin Callers /\ None \notin Blocks

VARIABLES
  limit,     \* number of arenas VirtualAlloc gives, chosen at the start
  mutex,     \* [owner, count]: a mutex of Windows is recursive
  arenas,    \* the room left in each arena, oldest first (the list of heap_t
             \* is newest first)
  blocks,    \* of each block in use: its arena, else 0
  call,      \* of each thread: [pc, op, block, result] of its last call
  reported,  \* blocks reported as leaks by heap_destroy
  destroyed  \* whether heap_destroy has returned

heap == <<limit, mutex, arenas, blocks, reported, destroyed>>
heap_vars == <<heap, call>>

Unlocked == [owner |-> None, count |-> 0]
InUse == {b \in Blocks : blocks[b] # 0}
In(a) == {b \in InUse : blocks[b] = a}

HeapInit ==
  /\ limit \in Limits
  /\ mutex = Unlocked /\ arenas = << >>
  /\ blocks = [b \in Blocks |-> 0]
  /\ call = [t \in Callers |-> [pc |-> "idle", op |-> "alloc", block |-> None, result |-> None]]
  /\ reported = {} /\ destroyed = FALSE

(* heap_alloc and heap_free are called ... *)
HeapCall(t, op, b) ==
  /\ call[t].pc = "idle" /\ ~destroyed
  /\ call' = [call EXCEPT ![t] = [pc |-> "lock", op |-> op, block |-> b, result |-> None]]
  /\ UNCHANGED heap

(* ... and lock the mutex, which its owner may do again. *)
HeapLock(t) ==
  /\ call[t].pc = "lock"
  /\ mutex.owner \in {t, None}
  /\ mutex' = [owner |-> t, count |-> mutex.count + 1]
  /\ call' = [call EXCEPT ![t].pc = "work"]
  /\ UNCHANGED <<limit, arenas, blocks, reported, destroyed>>

(* Mutant: heap_free returns without unlocking. *)
ReleasedAlloc(t) == IF call[t].op = "alloc" THEN Unlocked ELSE mutex

(* ReleaseMutex, with which a call of thread t returns. *)
Released(t) ==
  IF mutex.count = 1 THEN Unlocked ELSE [owner |-> mutex.owner, count |-> mutex.count - 1]

(* The call of thread t has returned r. *)
Returned(t, r) ==
  [call EXCEPT ![t] = [pc |-> "idle", op |-> call[t].op, block |-> call[t].block, result |-> r]]

(* Arenas with room for a block; tlsf_memalign takes it where the room left is
   smallest ("good fit"). *)
Fits(size) == {a \in DOMAIN arenas : arenas[a] >= size}
GoodFits(size) == {a \in Fits(size) : \A c \in Fits(size) : arenas[a] <= arenas[c]}

(* heap_alloc gets a block of an arena that has room ... *)
HeapAlloc(t) ==
  LET b == call[t].block
  IN  /\ call[t].pc = "work" /\ call[t].op = "alloc"
      /\ \E a \in GoodFits(SizeOf[b]) :
           /\ blocks' = [blocks EXCEPT ![b] = a]
           /\ arenas' = [arenas EXCEPT ![a] = @ - SizeOf[b]]
      /\ call' = Returned(t, b)
      /\ mutex' = Released(t)
      /\ UNCHANGED <<limit, reported, destroyed>>

(* The size of a new arena. *)
ArenaSize(size) == IF Grow >= 2 * size THEN Grow ELSE 2 * size

(* ... or of a new one, unless that is too small as well ... *)
HeapGrow(t) ==
  LET b == call[t].block
      size == ArenaSize(SizeOf[b])
      fits == size >= SizeOf[b]
  IN  /\ call[t].pc = "work" /\ call[t].op = "alloc"
      /\ Fits(SizeOf[b]) = {} /\ Len(arenas) < limit
      /\ arenas' = Append(arenas, IF fits THEN size - SizeOf[b] ELSE size)
      /\ blocks' = IF fits THEN [blocks EXCEPT ![b] = Len(arenas) + 1] ELSE blocks
      /\ call' = Returned(t, IF fits THEN b ELSE None)
      /\ mutex' = Released(t)
      /\ UNCHANGED <<limit, reported, destroyed>>

(* ... or, with no memory left, returns NULL and keeps the mutex. *)
HeapExhausted(t) ==
  /\ call[t].pc = "work" /\ call[t].op = "alloc"
  /\ Fits(SizeOf[call[t].block]) = {} /\ Len(arenas) >= limit
  /\ call' = Returned(t, None)
  /\ UNCHANGED heap

HeapFree(t) ==
  LET b == call[t].block
  IN  /\ call[t].pc = "work" /\ call[t].op = "free"
      /\ blocks' = [blocks EXCEPT ![b] = 0]
      /\ arenas' = [arenas EXCEPT ![blocks[b]] = @ + SizeOf[b]]
      /\ call' = Returned(t, None)
      /\ mutex' = Released(t)
      /\ UNCHANGED <<limit, reported, destroyed>>

(* A thread inside a call goes on. *)
HeapStep(t) ==
  \/ HeapLock(t) \/ HeapAlloc(t) \/ HeapGrow(t) \/ HeapExhausted(t) \/ HeapFree(t)

(* Windows gives the mutex of a thread that has ended to the next who waits. *)
Abandoned(t) == IF mutex.owner = t THEN Unlocked ELSE mutex

(* Mutant: only the newest arena is walked. *)
LeaksOfNewest == In(Len(arenas))

(* The walk of every arena, newest to oldest, that reports what is in use. *)
Leaks == UNION {In(a) : a \in DOMAIN arenas}

(* heap_destroy, which does not lock: report, and give the arenas back. *)
HeapDestroy ==
  /\ ~destroyed
  /\ reported' = Leaks
  /\ destroyed' = TRUE
  /\ arenas' = << >>
  /\ UNCHANGED <<limit, mutex, blocks, call>>
-----------------------------------------------------------------------------
(* Every variable has its type. *)
HeapTypeOK ==
  /\ limit \in Limits /\ arenas \in Seq(Nat)
  /\ mutex \in [owner : Callers \cup {None}, count : Nat]
  /\ blocks \in [Blocks -> 0 .. limit]
  /\ call \in [Callers -> [pc : {"idle", "lock", "work"}, op : {"alloc", "free"},
                           block : Blocks \cup {None}, result : Blocks \cup {None}]]
  /\ reported \subseteq Blocks /\ destroyed \in BOOLEAN

Inside == {t \in Callers : call[t].pc = "work"}

(* A thread whose call has returned NULL with the mutex still locked. *)
Starved(t) ==
  mutex.owner = t /\ mutex.count > (IF t \in Inside THEN 1 ELSE 0)

(* TLSF, which has no lock of its own, is only entered by the owner of the
   mutex; and between calls the mutex is free unless memory has run out. *)
HeapExclusive ==
  /\ \A t \in Inside : mutex.owner = t
  /\ mutex.owner # None /\ mutex.owner \notin Inside => Len(arenas) >= limit \/ destroyed

(* "It must be freed before the program terminates or a memory leak will
   result" (heap.h:33): heap_destroy reports every block that was allocated
   and not freed, in whatever arena, and no other. *)
LeaksReported == destroyed => reported = InUse
=============================================================================
