------------------------------- MODULE Trace -------------------------------
(***************************************************************************)
(* The tracing of src/src/trace.c, over the heap (module Heap) and the     *)
(* queue (module Queue) it uses: threads push durations while capture is   *)
(* active, each a block for the event and one for its name, stored in an   *)
(* array and queued; a pop ends the duration at the head of the queue.     *)
(*                                                                         *)
(* A behaviour is homework3_test of main.c, with any well-nested pushes    *)
(* and pops in its two threads, or else (client = "heap") any use of the   *)
(* heap alone by those threads, with a NULL from heap_alloc tolerated.     *)
(***************************************************************************)
EXTENDS Heap

CONSTANTS
  Main,       \* the thread that creates the trace and the others
  Capacity,   \* event_capacity of trace_create
  PushBound,  \* bound of the model: durations of each thread
  Uninit,     \* what memory from heap_alloc holds before any write
  IntMax,     \* INT_MAX
  Clients     \* the uses made, one a behaviour: "trace", "heap"

Events == Callers \X (1 .. PushBound)
EventBlock(e) == <<"event", e>>
NameBlock(e) == <<"name", e>>
Own(name) == <<name>>
OwnBlocks == {Own(n) : n \in {"trace", "queue", "array", "path", "fs", "text", "work"}}

ASSUME TraceAssumption ==
  /\ IsFiniteSet(Callers) /\ Main \in Callers
  /\ IntMax \in Nat /\ Capacity \in 1 .. IntMax /\ PushBound \in Nat
  /\ Uninit \notin Events \cup {None}
  /\ Clients \subseteq {"trace", "heap"}
  /\ Blocks = OwnBlocks \cup {EventBlock(e) : e \in Events} \cup {NameBlock(e) : e \in Events}

VARIABLES
  client,         \* the use made
  stage,          \* of the main thread: where in Program it is
  crashed,        \* whether a NULL or uninitialised pointer has been used
  is_active,      \* of trace_t
  num_durations,  \* of trace_t
  events,         \* all_trace_events
  semaphore,      \* the count of trace->semaphore
  at,             \* of each thread: where it is in a push or a pop
  event,          \* of each thread: new_event, popped_event
  slot,           \* of each thread: temp_index
  pushed, popped, \* of each thread: the calls it has made
  ended,          \* of each event: how often its end_time was set
  text,           \* what capture_stop writes: the events it found, with how often each had ended
  write,          \* its work for the file system: none yet, queued, done, or failed
  used_items, free_items, items, head_index, tail_index, \* the queue
  queue_pc, index, item, ok, got

trace == <<client, stage, crashed, is_active, num_durations, events, semaphore, ended, text, write>>
queue == <<used_items, free_items, items, head_index, tail_index, queue_pc, index, item, ok, got>>
local == <<at, event, slot, pushed, popped>>
vars == <<heap_vars, trace, queue, local>>

(* A thread pushes in one role and pops in another. *)
Pusher(t) == <<"push", t>>
Popper(t) == <<"pop", t>>

Q == INSTANCE Queue
       WITH Producers <- {Pusher(t) : t \in Callers}, Consumers <- {Popper(t) : t \in Callers},
            Values <- Events, NULL <- None, pc <- queue_pc,
            PushBound <- Cardinality(Events)

(* What the main thread does from trace_create to heap_destroy.  A block
   stands for the blocks of one creation: "queue" for queue_create's, "fs" for
   fs_create's with its queues. *)
Program ==
  << <<"alloc", "trace">>, <<"alloc", "queue">>, <<"alloc", "array">>,
     <<"alloc", "path">>, <<"alloc", "fs">>, <<"start", None>>,
     <<"run", None>>,
     <<"alloc", "text">>, <<"alloc", "work">>, <<"write", None>>,
     <<"free", "text">>, <<"free", "work">>,
     <<"free", "queue">>, <<"free", "fs">>, <<"durations", None>>,
     <<"free", "path">>, <<"free", "array">>, <<"free", "trace">>,
     <<"destroy", None>>, <<"end", None>> >>

Doing(op) == Program[stage][1] = op /\ ~crashed

Init ==
  /\ HeapInit /\ Q!Init
  /\ client \in Clients
  /\ stage = IF client = "trace" THEN 1 ELSE Len(Program) - 1
  /\ crashed = FALSE /\ is_active = FALSE
  /\ num_durations = 0 /\ events = [i \in 0 .. Capacity - 1 |-> Uninit]
  /\ semaphore = 1
  /\ at = [t \in Callers |-> "idle"] /\ event = [t \in Callers |-> Uninit]
  /\ slot = [t \in Callers |-> 0]
  /\ pushed = [t \in Callers |-> 0] /\ popped = [t \in Callers |-> 0]
  /\ ended = [e \in Events |-> 0] /\ text = {} /\ write = "none"
-----------------------------------------------------------------------------
(* trace_duration_push *)

Goto(t, from, to) == at[t] = from /\ at' = [at EXCEPT ![t] = to]
Idle(t) == at[t] = "idle" /\ call[t].pc = "idle"

(* Two threads run while the main thread is in this stage. *)
Running(t) == Doing("run") /\ Idle(t)

(* An inactive trace ignores the call; else the event is allocated ... *)
TracePush(t) ==
  /\ Running(t) /\ is_active /\ pushed[t] < PushBound
  /\ Goto(t, "idle", "event")
  /\ pushed' = [pushed EXCEPT ![t] = @ + 1]
  /\ event' = [event EXCEPT ![t] = <<t, pushed'[t]>>]
  /\ HeapCall(t, "alloc", EventBlock(event'[t]))
  /\ UNCHANGED <<trace, queue, slot, popped>>

(* ... and its name ... *)
TraceName(t) ==
  /\ call[t].pc = "idle"
  /\ Goto(t, "event", "name")
  /\ IF call[t].result = None
       THEN crashed' = TRUE /\ UNCHANGED heap_vars
       ELSE HeapCall(t, "alloc", NameBlock(event[t])) /\ UNCHANGED crashed
  /\ UNCHANGED <<client, stage, is_active, num_durations, events, semaphore, ended, text, write>>
  /\ UNCHANGED <<queue, event, slot, pushed, popped>>

(* Mutant: the index is the count after the increment. *)
TraceCountNew(t) ==
  /\ call[t].pc = "idle"
  /\ Goto(t, "name", "store")
  /\ crashed' = (call[t].result = None)
  /\ num_durations' = num_durations + 1
  /\ slot' = [slot EXCEPT ![t] = num_durations']
  /\ UNCHANGED <<client, stage, is_active, events, semaphore, ended, text, write>>
  /\ UNCHANGED <<heap_vars, queue, event, pushed, popped>>

(* ... an index claimed by atomic_increment ... *)
TraceCount(t) ==
  /\ call[t].pc = "idle"
  /\ Goto(t, "name", "store")
  /\ crashed' = (call[t].result = None)
  /\ num_durations' = num_durations + 1
  /\ slot' = [slot EXCEPT ![t] = num_durations]
  /\ UNCHANGED <<client, stage, is_active, events, semaphore, ended, text, write>>
  /\ UNCHANGED <<heap_vars, queue, event, pushed, popped>>

(* ... the event stored there, and queue_push called ... *)
TraceStore(t) ==
  /\ Goto(t, "store", "queue")
  /\ events' = IF slot[t] \in DOMAIN events THEN [events EXCEPT ![slot[t]] = event[t]] ELSE events
  /\ Q!PushCall(Pusher(t), event[t])
  /\ UNCHANGED <<client, stage, crashed, is_active, num_durations, semaphore, ended, text, write>>
  /\ UNCHANGED <<heap_vars, event, slot, pushed, popped>>

(* ... which goes its steps. *)
TraceQueue(t) ==
  /\ at[t] = "queue"
  /\ Q!PushStep(Pusher(t))
  /\ at' = [at EXCEPT ![t] = IF queue_pc'[Pusher(t)] = "idle" THEN "idle" ELSE @]
  /\ UNCHANGED <<heap_vars, trace, event, slot, pushed, popped>>
-----------------------------------------------------------------------------
(* trace_duration_pop *)

(* Each thread pops as often as it has pushed, well nested. *)
TracePop(t) ==
  /\ Running(t) /\ is_active /\ popped[t] < pushed[t]
  /\ Goto(t, "idle", "acquire")
  /\ popped' = [popped EXCEPT ![t] = @ + 1]
  /\ UNCHANGED <<heap_vars, trace, queue, event, slot, pushed>>

TraceAcquire(t) ==
  /\ Goto(t, "acquire", "pop")
  /\ semaphore > 0 /\ semaphore' = semaphore - 1
  /\ Q!PopCall(Popper(t))
  /\ UNCHANGED <<client, stage, crashed, is_active, num_durations, events, ended, text, write>>
  /\ UNCHANGED <<heap_vars, event, slot, pushed, popped>>

(* queue_pop *)
TraceDequeue(t) ==
  LET c == Popper(t)
  IN  /\ at[t] = "pop"
      /\ Q!PopAcquire(c) \/ Q!PopClaim(c) \/ Q!PopRead(c) \/ Q!PopRelease(c)
      /\ at' = [at EXCEPT ![t] = IF queue_pc'[c] = "idle" THEN "release" ELSE @]
      /\ UNCHANGED <<heap_vars, trace, event, slot, pushed, popped>>

TraceRelease(t) ==
  /\ Goto(t, "release", "end")
  /\ semaphore' = 1
  /\ UNCHANGED <<client, stage, crashed, is_active, num_durations, events, ended, text, write>>
  /\ UNCHANGED <<heap_vars, queue, event, slot, pushed, popped>>

(* end_time of whatever event came out of the queue. *)
TraceEnd(t) ==
  LET e == got[Popper(t)]
  IN  /\ Goto(t, "end", "idle")
      /\ IF e = Uninit
           THEN crashed' = TRUE /\ UNCHANGED ended
           ELSE ended' = [ended EXCEPT ![e] = @ + 1] /\ UNCHANGED crashed
      /\ UNCHANGED <<client, stage, is_active, num_durations, events, semaphore, text, write>>
      /\ UNCHANGED <<heap_vars, queue, event, slot, pushed, popped>>
-----------------------------------------------------------------------------
(* The main thread: calls of heap_alloc and heap_free ... *)
MainCall ==
  /\ Doing("alloc") \/ Doing("free")
  /\ Goto(Main, "idle", "call")
  /\ HeapCall(Main, Program[stage][1], Own(Program[stage][2]))
  /\ UNCHANGED <<trace, queue, event, slot, pushed, popped>>

(* ... whose result is used untested ... *)
MainReturn ==
  /\ call[Main].pc = "idle"
  /\ Goto(Main, "call", "idle")
  /\ crashed' = (Doing("alloc") /\ call[Main].result = None)
  /\ stage' = stage + 1
  /\ UNCHANGED <<client, is_active, num_durations, events, semaphore, ended, text, write>>
  /\ UNCHANGED <<heap_vars, queue, event, slot, pushed, popped>>

(* ... the end of trace_capture_start ... *)
CaptureStart ==
  /\ Doing("start")
  /\ is_active' = TRUE
  /\ stage' = stage + 1
  /\ UNCHANGED <<client, crashed, num_durations, events, semaphore, ended, text, write>>
  /\ UNCHANGED <<heap_vars, queue, local>>

(* ... the wait for the other threads, after its own part ... *)
MainJoin ==
  /\ Doing("run") /\ Idle(Main) /\ popped[Main] = pushed[Main]
  /\ \A t \in Callers \ {Main} : at[t] = "done"
  /\ stage' = stage + 1
  /\ UNCHANGED <<client, crashed, is_active, num_durations, events, semaphore, ended, text, write>>
  /\ UNCHANGED <<heap_vars, queue, local>>

(* Mutant: the loops stop before the last duration. *)
RecordedButLast == {events[i] : i \in 0 .. num_durations - 2}

(* The first num_durations elements of all_trace_events. *)
Recorded == {events[i] : i \in 0 .. num_durations - 1}

(* ... trace_capture_stop: its text is given to fs_write ... *)
CaptureWrite ==
  /\ Doing("write") /\ write = "none"
  /\ IF Uninit \in Recorded
       THEN crashed' = TRUE /\ UNCHANGED <<text, write>>
       ELSE text' = {<<e, ended[e]>> : e \in Recorded} /\ write' = "queued" /\ UNCHANGED crashed
  /\ UNCHANGED <<client, stage, is_active, num_durations, events, semaphore, ended>>
  /\ UNCHANGED <<heap_vars, queue, local>>

(* ... whose thread writes the file, or fails and then signals nothing
   (FileSystem has the whole of it) ... *)
FileWrite ==
  /\ write = "queued"
  /\ write' \in {"done", "failed"}
  /\ UNCHANGED <<client, stage, crashed, is_active, num_durations, events, semaphore, ended, text>>
  /\ UNCHANGED <<heap_vars, queue, local>>

(* ... and fs_work_wait, before capture ends ... *)
CaptureStop ==
  /\ Doing("write") /\ write = "done"
  /\ is_active' = FALSE
  /\ stage' = stage + 1
  /\ UNCHANGED <<client, crashed, num_durations, events, semaphore, ended, text, write>>
  /\ UNCHANGED <<heap_vars, queue, local>>

(* ... the loop of trace_destroy: a block at a time, to the last ... *)
Durations == {EventBlock(e) : e \in Recorded} \cup {NameBlock(e) : e \in Recorded}

FreeDuration ==
  /\ Doing("durations") /\ Durations \cap InUse # {}
  /\ call[Main].pc = "idle"
  /\ HeapCall(Main, "free", CHOOSE b \in Durations : b \in InUse)
  /\ UNCHANGED <<trace, queue, local>>

DurationsFreed ==
  /\ Doing("durations") /\ Durations \cap InUse = {}
  /\ call[Main].pc = "idle"
  /\ stage' = stage + 1
  /\ UNCHANGED <<client, crashed, is_active, num_durations, events, semaphore, ended, text, write>>
  /\ UNCHANGED <<heap_vars, queue, local>>

(* ... and heap_destroy, after the threads that use the heap have ended. *)
MainDestroy ==
  /\ Doing("destroy") /\ Idle(Main)
  /\ \A t \in Callers \ {Main} : at[t] = "done"
  /\ HeapDestroy
  /\ stage' = stage + 1
  /\ UNCHANGED <<client, crashed, is_active, num_durations, events, semaphore, ended, text, write>>
  /\ UNCHANGED <<queue, local>>

(* The function of another thread returns. *)
ThreadEnd(t) ==
  /\ t # Main /\ Idle(t) /\ ~crashed
  /\ client = "trace" => Doing("run") /\ popped[t] = pushed[t]
  /\ at' = [at EXCEPT ![t] = "done"]
  /\ mutex' = Abandoned(t)
  /\ UNCHANGED <<limit, arenas, blocks, call, reported, destroyed>>
  /\ UNCHANGED <<trace, queue, event, slot, pushed, popped>>
-----------------------------------------------------------------------------
(* The steps of a thread inside a call. *)
InCall(t) ==
  /\ ~crashed
  /\ \/ HeapStep(t) /\ UNCHANGED <<trace, queue, local>>
     \/ TraceName(t) \/ TraceCount(t) \/ TraceStore(t) \/ TraceQueue(t)
     \/ TraceAcquire(t) \/ TraceDequeue(t) \/ TraceRelease(t) \/ TraceEnd(t)

WaitForHeap(t) == ~crashed /\ HeapLock(t) /\ UNCHANGED <<trace, queue, local>>

MainStep ==
  \/ MainCall \/ MainReturn \/ CaptureStart \/ MainJoin \/ CaptureWrite \/ CaptureStop
  \/ FreeDuration \/ DurationsFreed \/ MainDestroy

(* Any use of the heap: a thread allocates blocks of its own and frees them. *)
AnyHeapCall(t, e) ==
  /\ client = "heap" /\ Idle(t) /\ e[1] = t
  /\ HeapCall(t, IF blocks[EventBlock(e)] = 0 THEN "alloc" ELSE "free", EventBlock(e))
  /\ UNCHANGED <<trace, queue, local>>

Next ==
  \/ \E t \in Callers : TracePush(t) \/ TracePop(t) \/ InCall(t) \/ ThreadEnd(t)
  \/ \E t \in Callers, e \in Events : AnyHeapCall(t, e)
  \/ MainStep \/ FileWrite

Spec == Init /\ [][Next]_vars

(* Threads go on inside calls, pop what they have pushed and end, the main
   thread follows its program, and the thread of the file system does its work.
   A mutex of Windows is given to the threads that wait in their order, so no
   one waits while others come and go. *)
FairSpec ==
  /\ Spec
  /\ \A t \in Callers : WF_vars(InCall(t) \/ TracePop(t) \/ ThreadEnd(t)) /\ SF_vars(WaitForHeap(t))
  /\ WF_vars(MainStep) /\ WF_vars(FileWrite)
-----------------------------------------------------------------------------
(* Every variable has its type. *)
TypeOK ==
  /\ HeapTypeOK /\ Q!TypeOK
  /\ client \in Clients /\ stage \in 1 .. Len(Program)
  /\ crashed \in BOOLEAN /\ is_active \in BOOLEAN
  /\ num_durations \in 0 .. Cardinality(Events) /\ semaphore \in {0, 1}
  /\ events \in [0 .. Capacity - 1 -> Events \cup {Uninit}]
  /\ at \in [Callers -> {"idle", "call", "event", "name", "store", "queue", "acquire", "pop",
                         "release", "end", "done"}]
  /\ event \in [Callers -> Events \cup {Uninit}] /\ slot \in [Callers -> 0 .. Capacity - 1]
  /\ pushed \in [Callers -> 0 .. PushBound] /\ popped \in [Callers -> 0 .. PushBound]
  /\ ended \in [Events -> Nat] /\ text \subseteq Events \X Nat
  /\ write \in {"none", "queued", "done", "failed"}

Pushed == {e \in Events : e[2] <= pushed[e[1]]}

(* When the write of trace_capture_stop is done, the file has each duration that
   was pushed, begun and ended once, whatever the interleaving of the threads
   (but a pop may have ended the duration of another thread, or an outer one);
   and the blocks of all of them are found again and freed by trace_destroy. *)
CaptureComplete ==
  /\ write = "done" => text = {<<e, 1>> : e \in Pushed}
  /\ client = "trace" /\ destroyed => reported = {}

(* The promises of the heap: TLSF is entered by one thread at a time, the mutex
   stays locked between calls only when memory has run out, and heap_destroy
   reports what was not freed. *)
HeapSound == HeapExclusive /\ LeaksReported

OutOfMemory == Len(arenas) >= limit /\ \E t \in Callers : Starved(t)

(* Every call returns and the main thread gets to the end, unless a thread has
   used a pointer that is NULL or unwritten, memory has run out with the mutex
   locked, or the file of the capture could not be written: fs_work_wait then
   waits for ever in trace_capture_stop.  In particular trace_duration_pop, which
   waits for an item holding the semaphore, gets one. *)
CallsReturn ==
  /\ \A t \in Callers : call[t].pc = "lock" ~> (call[t].pc = "idle" \/ crashed \/ OutOfMemory)
  /\ client = "trace" ~> (Doing("end") \/ crashed \/ OutOfMemory \/ write = "failed")
=============================================================================
