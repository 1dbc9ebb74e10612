# RealEngine in TLA+

TLA+ models of RealEngine, a small game engine in C for Windows (`src/src`).
TLC checks them on small instances; TLAPS proves theorems about the queue, the
heap, the trace, the file system, the entity component system and the game on it, the
renderer, the GPU layer and the network for every value of their constants.

## The system

`main.c` creates a heap, a file system, a window, a renderer and a game, runs
the game loop until the window closes, and destroys them in turn. Nearly every
part that has a thread of its own is reached through a `queue_t`; the
connections of `net.c` are also shared directly, under a mutex that some of the
accesses take.

| Component | State | Operations | What is hard | What makes it correct |
|---|---|---|---|---|
| queue (`queue.c`) | two counting semaphores, an array, two ever-growing indices | push, pop, try_push, try_pop, by any thread | interleavings of the steps between the two semaphores; the index at INT_MAX | bounded FIFO; no permit lost; no slot read while written |
| heap (`heap.c`) | TLSF pools in a list of arenas, a mutex | alloc, free, destroy | out of memory inside the mutex | TLSF entered by one thread at a time; the mutex released; every leak reported |
| trace (`trace.c`) | events, a queue of open durations, a semaphore | push, pop, start, stop, destroy | several threads; a pop that waits holding the semaphore; capacity | a capture has every duration, begun and ended once; all of it is freed |
| file system (`fs.c`) | three queues and worker threads, work objects with an event | fs_read, fs_write, wait, destroy, shutdown | a work shared by client and worker; failing file calls; two threads on one file | reads return the last write; waits end; nothing used after it is destroyed; no leak |
| entity component system (`ecs.c`) | table of 512 reusable slots, sequence numbers, component masks | add, remove, update, query, get_component | references that outlive their entity; loops that change what they walk | stale references stay invalid; a slot keeps its tenant within a frame; queries miss nothing |
| games (`frogger_game.c`, `simple_game.c`) | entities, their transforms, a timer | spawn, move, collide, draw, every frame | loops that follow one another in a frame, and depend on each other's results | what is drawn is a legal position; every model is drawn |
| renderer (`render.c`) | a command queue, caches of GPU objects by last use | push_model, push_done, destroy | objects destroyed by counting frames; creations that fail | draws use live objects; shutdown frees everything |
| GPU layer (`gpu.c`) | Vulkan's handles, frames behind fences | create, destroy, frame_begin, frame_end | CPU and GPU frames in flight; any call may fail | nothing released before what was made from it (but the depth view, before the framebuffers), nor while the GPU uses it |
| network, connections (`net.c`) | a table of three connections, each with a send thread and two queues; a receive thread; a mutex | connect, update, disconnect, destroy | the table read outside the mutex; timeouts racing with packets; failing sends; shutdown | one connection per peer; packets reach their own connection; calls return |
| network, replication (`net.c`) | registered entities, a ring of snapshots, sequence numbers, acknowledgements | register, snapshot, delta, apply | packets lost, duplicated and reordered; deltas against an old snapshot | a peer's copies are those of the newest snapshot it got |
| timers, window | ticks, scale; key and mouse masks | update; pump | | a frame has one delta and one set of keys |

Interactions: the game's thread calls `ecs`, `net_update`, `render_push_*` and
`fs_*`; `fs`, `render`, `net` and `trace` own queues; `net` reads and writes the
`ecs` of its game in `net_update`, after `ecs_update`; `render` keeps pointers
to the game's meshes and shaders and is therefore destroyed first
(`main.c:83`); the render thread alone calls `gpu`; everything allocates from
the heap.

## Modules

`BoundedFifo` is the abstract specification of a queue: push, pop and their
try variants, each one step.

`Queue` is `queue.c` with one action per access to shared memory, for any
numbers of pushing and popping threads. `used_items` and `free_items` are the
counts of the semaphores, `pc` the position of every thread in its call,
`index` and `item` its locals. `tail_index` and `head_index` wrap as two's
complement integers at `IntMax`.

`QueueSpsc` is the queue with one thread on each side, as the engine uses it,
with the refinement mapping to `BoundedFifo`. `FileSystem`, `Render` and
`NetConnections` take a push and a pop as one step on its authority; `Trace`,
where several threads push and pop, takes the steps of `Queue`.

`Heap` is `heap.c` under any threads, from the call of `heap_alloc` through the
mutex to its release. `arenas` has the room left in each arena, and is all that
is kept of TLSF; the operating system gives `limit` arenas and no more. The
mutex is one of Windows: recursive, and given away when its owner ends.

`Trace` is `trace.c` over `Heap` and `Queue` (an instance whose steps are the
trace's own). Its main thread follows `Program`, the steps of
`homework3_test` in `main.c` from `trace_create` to `heap_destroy`, with one
block standing for those of one creation; it and another thread push and pop
durations in any nesting. A second use (`client`) is the heap alone under any
calls, with a NULL tolerated. `write` is the work that `trace_capture_stop` gives
to the file system, which may do it or fail.

`FileSystem` is `fs.c`: one client thread and three workers. A file's content
is the number of the work that wrote it, or `Torn`. `files`, `Sharable` and the
failures stand for the Win32 file calls. `blocks` is what is allocated. `use`
says which client this is: `homework2_test_internal`'s, which waits for a work
before the next on the same file, or one that does not wait and whose file
calls may fail.

`Ecs` is `ecs.c`. A mask is a set of component types; the history variables
`due` and `visited` record what a query loop owes and has done. `added` is the
reference that `ecs_entity_add` returned last.

`Frogger` is the frame of `frogger_game.c` over `Ecs`, every step of which on
the table is one of `Ecs`: registration, spawning, `wm_pump`, the timer, and the
three loops of the frame. `transforms` and `dirs` are the components it keeps.
Lengths are integers, a truck's speed is the unit, and the board is smaller than
the game's. Under `driver = "client"` it is `Ecs` with any client.

`Gpu` is `gpu.c`: the order in which `gpu_create` makes its handles and
`gpu_destroy` releases them, the parts of each object the renderer has made, what
its destruction releases, and the frames. `live` are the objects of which some
part is not released; `failures` counts the calls of Vulkan that failed. Every
call of `gpu_frame_end` may fail, and most of them change nothing else there:
`fences` is the fence of each frame index, `flight` holds the frames submitted
and not completed, `signals` says whether the semaphore of the acquired image
will be signalled, `unwaited` that the wait for a fence, or its reset, has failed.

`Render` extends it with `render.c`: `queue` holds the commands, `pc` is the
render thread, `caches` the meshes, shaders and pipelines with the pointers that
stay behind in unused slots, `instances` the entities' uniform buffers and
descriptors. The end of a frame is two steps, the acquisition of the image and
the submission after the wait for the fence; the GPU is the action that completes
the oldest frame in flight, if what it waits for is signalled. An object is
identified by its kind, what it was made from and the frame that made it.

`NetConnections` is the table of connections of `net.c` and its threads. The
statements between two accesses to the table that other threads can see are
steps: a slot gets its address (`Create`) before its queues (`Make`), and the
receive thread uses a connection (`Stamp`, `RecvPush`) after the mutex is
released. `made` says that the queues exist; a thread that uses those of a
connection without them is `crashed`. A send or a receive that fails ends its
thread for good. `net_destroy` closes the socket in a step of its own
(`CloseSocket`) after it has released the mutex. `Silence` is the passing of `k_timeout_ms`.

`NetReplication` is what the packets of `net.c` carry, one direction from a
host that registers entities to one that does not. `packets` are all the
packets a host has sent; receiving one leaves it there, so it may come never,
twice, or after later ones. `phase` is `"recv"` between the sending and the end
of a `net_update`. A delta carries all entities and the values that differ from
the last acknowledged snapshot's. `copies` are the slots of the receiver's
connection, `strays` the entities it has made a copy of when all slots were
taken, of which the code keeps no record. `taken`, `applied` and `applied_at` are history. A snapshot of a sequence number that the ring no longer holds gives no
baseline, and neither does an acknowledgement of -1.

The `MC` modules give constants values that a configuration file cannot.

## Runs

| Run | Instance | What it shows |
|---|---|---|
| `queue` | one thread on each side, capacity 3, 2 items, 7 pushes | The array is gone round twice, empty and full, in all interleavings of the memory accesses: FIFO order, permits, indices, no slot shared; a waiting push completes. |
| `queue_two_producers` (violation) | two pushing threads, capacity 2 | A pop returns a slot that no push has written yet. |
| `trace` | 2 threads, 2 durations each, an array of 4; memory for 2 arenas or 9 | The array is filled to its last element, and every step of the queue, the semaphore and the heap interleaved: the capture has each duration once, leaks are reported exactly, calls return unless memory has run out or the file could not be written. |
| `fs` | 3 works on a plain and a compressed file; waiting, with queues of 1, or careless and with failures, with queues of 2 | Reads hold what was written before them and waits end; nothing is torn or used after it is destroyed; only failed works leak; shutdown ends. |
| `fs_error` (violation) | 1 work, failures | A work that fails is never done. |
| `game` | 4 slots; any client with 4 entities, or Frogger with 2 trucks that cross, 6 sets of keys and 2 frame times | The table is full once, slots are used again, loops run during additions and removals; Frogger's player reaches every row and both sides, is hit, and gets through. |
| `render` | 3 entities of 2 meshes, 2 frames in flight, 4 frames, a queue of 2 commands (the code's has 3), one call of Vulkan that fails or none | Two frames more than are in flight, so every index is used again, and caches shrink, move and grow again. Every mesh is drawn in every frame, as in `frogger_game.c`. The failure may be at any handle of `gpu_create`, any part of any object, any call of any `gpu_frame_end` (acquire, end of the commands, wait, reset, submit, present), or the wait for the idle GPU. |
| `render_stale` (violation) | 1 entity, drawn or not | A mesh destroyed is drawn again. |
| `net_connections` | 3 peers, 2 slots, queues of 1, 2 packets | More peers than slots, the game's connect against the packet's, a timeout at any point, full queues, failing sends and receives, shutdown at any point. |
| `net_unlocked` (violation) | the same | A queue that does not exist is used. |
| `net_replication` | 3 entities through 2 slots on either side, a ring of 2 snapshots, 3 updates of each host | The ring goes round once with an acknowledgement outstanding; entities appear, change, go and are replaced; the receiver's slots are all taken when one is, and a copy is made without a slot. |
| `net_stale_delta` (violation) | 1 entity, values that come back | A copy keeps a value its entity no longer has. |

Bounds on counters (`PushBound`, `AddBound`, `MaxWorks`, `FrameBound`,
`FailureBound`, `PacketBound`, `UpdateBound`, `IdBound`, `IntMax`) make the
instances finite; each is large enough for every slot, frame, ring entry or
array position to be used and, but for the events of a trace, used again. The
programs end, and so do the counters; deadlock is therefore not checked, and
what must not stop for ever is a liveness property (`PushCompletes`,
`CallsReturn`, `CarefulWorkCompletes`, `ShutdownCompletes`, `RenderExits`).

Two assumptions of the models are of the game's numbers: the lanes of trucks
stay clear of the row the player starts in (`FroggerAssumption`; 2.5 + 0.5 <
3.75), and Frogger's 41 entities fit in the table. `Render` takes for granted
that a `Permanent` entity is drawn in every frame, and `DrawsEveryModel` of
`Frogger` is what shows it. `NetReplication` assumes with `Tidy` that the game
removes the entity registered last.

### What the violations show

1. `queue.h` promises that several threads may push at the same time. A slot is
   claimed before it is written and the semaphore counts completed pushes, so
   it may announce another thread's slot. One thread on each side is safe, and
   that is proved.
2. The error paths of `fs.c` do not signal the event of the work, and
   `fs_work_wait` never returns.
3. `destroy_stale_data` leaves pointers in cache slots, and the next user of
   the slot takes them for its own.
4. `net_update` looks at the table outside the mutex.
5. A delta is taken against the last acknowledged snapshot and applied to the
   newest received.

### What the properties have to excuse

A property that holds only outside some case names the case.

- `CallsReturn` of `Trace` excuses memory that has run out: `heap_alloc` returns
  NULL with the mutex locked, and the other threads wait until its owner ends.
  It also excuses a pop that gets an unwritten slot of the queue (violation 1),
  and `CaptureComplete` a thread that used a NULL.
- `CallsReturn` of `Trace` also excuses a capture whose file cannot be written:
  `trace_capture_stop` waits for that write, which signals nothing when it fails
  (violation 2). `CaptureComplete` speaks of a write that is done.
- `LeaksAreFailures` says what a work leaves allocated when it is done, and that
  a failed one is never freed: nothing else can be said of the error paths.
- `CallsReturn` has a pop find an item because a thread of `homework3_test` pops
  what it has pushed. One that does not (a pop of what was pushed while capture
  was off) would wait for ever, with the semaphore that other pops need.
- `CaptureComplete` says that each duration ended once, and not by whom: all
  threads push to one queue, and a pop takes the oldest duration of any of them,
  where `trace.h:63` says the one "on the current thread". When a thread has two
  open, a pop ends the outer one first, as `trace.h:64` says.
- `RenderExits` excuses a NULL used at `render.c:133` when `gpu_create` has
  failed, and waits that no one can end (`Stuck`): for the fence of a frame whose
  `vkQueueSubmit` failed after its reset, and for a frame that is in flight but
  waits for the signal of an image that a failed `vkAcquireNextImageKHR` never
  gives. It also names the wait for an image when the swapchain has none left, as
  those of failed frames are not given back. `DrawsLive` allows a NULL mesh or pipeline after a failure.
- `InFlightLive` excuses the frames after a failed `vkWaitForFences` or
  `vkResetFences` (`unwaited`), whose results `gpu_frame_end` does not look at:
  `destroy_stale_data` then counts frames as completed that are in flight.
- `ChildrenFirst` leaves out one pair: `gpu_destroy` releases the depth view
  (`gpu.c:649`) before the framebuffers made from it (674). Nothing uses them by
  then, and Vulkan allows it. `Parents` has this pair too; `Needs`, which the
  property and its proof use, has all of `Parents` but this pair.
- `CallsReturn` of `NetConnections` excuses violation 4, and a full send queue
  whose thread has failed (`Hung`): `send_thread_func` returns when `sendto` fails
  and tells no one, so `packet_send` and `timeout_old_connections` wait for room in
  that queue for ever, the latter with the mutex. It also rests on `PacketBound`:
  the loop of `packet_recv` ends when the receive queue is empty, and a peer that
  sends faster than the game reads keeps it going.
- `NoneMissed` says which connections `net_destroy` may leave, those made after
  its loop (`late`), because it joins the receive thread last. Their queues and
  send threads are never released, where `net.h:69` promises no leak.
- `CopiesCurrent` excuses the entities that once found no slot (`strays`), whose
  values may have gone to the copy without one, and `NoGhosts` speaks of slots.
  `packet_read_entities` makes a copy before it looks for a slot. Both tables have
  32; with a full one, an entity replaced on the sender's side comes before the
  slot of the one it replaces is free, unless a packet without either is applied
  in an update before. The copy without a slot is never found, set or removed
  again. The run gets there; what it shows is that the copies in slots stay right
  however full the table is.

### Seen in the code and without a run of its own

Two popping threads lose an item in the way of violation 1. After INT_MAX pushes
the index of the array is negative (`IndicesSound` is proved below that bound).
A compressed write and read of one file that overlap make one fail, because of
their sharing modes. `ecs_entity_get_component` returns memory for a component
that the entity does not have, where `ecs.h:141` promises NULL. A uniform buffer
and a command buffer are written while the frame that last used them may be in
flight, for the fence is waited for in `gpu_frame_end` and not in
`gpu_frame_begin`. `snapshot_entities` ends at the first slot whose entity is
gone, so that later ones leave the peers. A packet whose sender has port 0 would
take a slot that still counts as free.

More durations than `event_capacity` write past `all_trace_events`, where
`main.c:214-218` lets a trace ignore them; and the 10000 bytes of
`trace_capture_stop`'s buffer, which is not cleared before `strncat_s` appends to
it, hold far fewer than 100 durations. Every arena of the heap has 21 small
allocations of the operating system that `heap_destroy` does not give back. The
descriptor pool of `gpu_create` has 512 sets, and each drawable takes one a
frame index. Frogger's `unload_resources` does not free the two buffers of its
shaders, as `simple_game.c`'s does, so `heap_destroy` reports them. A key that
is down when the window loses the focus stays down. A work of `fs_read` is
allocated from the file system's heap and freed to its caller's; they are the
same in the games. `timer_object_pause`, `_resume` and `_set_scale` have no
caller; a paused timer keeps its last delta. The queue of the example in
`lecture7.c` starts without a free place, so that its first push would never
return; nothing calls it.

### Fairness

`FairSpec` gives weak fairness to threads, not to single statements: to both
threads of the queue, to the client's calls of `fs.c` and its workers, to the
render thread and the GPU, to the threads of `net.c` and of a trace once they are
in a call. Windows schedules every runnable thread, and a semaphore with a permit
stays available to the one thread that waits for it; that is all weak fairness
says. In a trace a thread also pops what it has pushed, and ends, as
`homework3_test_func` does. Nothing obliges a game to call, a packet to come or a
peer to fall silent, nor the GPU to signal the fence of a frame it was not given, or to start one
whose semaphore is not signalled.

Strong fairness is used once, for the mutex of the heap: it is released and
taken again by others while a thread waits, and Windows gives it to those who
wait in their order. The mutex of `net.c` is left without; `CallsReturn` of
`NetConnections` begins when the game has it.

## Proofs

TLAPS checks every theorem to the last step.

`QueueProofs`, for any finite sets of threads, any capacity and any items:
`TypeCorrect`; `PermitsConserved` (induction on the sum of the semaphores'
counts and the threads between them, with a lemma that says how the
cardinality of a set changes when one thread moves); `IndicesAgree`, below
`IntMax`: both conjuncts of `IndicesSound`. The invariant of the first is the
conjunction of the types; the second needs it to know that the counts are
numbers, and the third needs the second.

`QueueSpscProofs`, for one thread on each side: `SpscInvariant` relates the
distance of the two indices to the places of the two threads, and each thread's
`index` to the global one. It is what makes `SlotsExclusive` inductive: two
positions less than the capacity apart have different remainders
(`SlotsDiffer`). `Implementation` shows that every step of the queue is a step
of `BoundedFifo` or leaves it unchanged: the release of a push appends, the
release of a pop removes (`ReleaseAppends`, `ReleaseRemoves`).

`EcsProofs`, for any table, masks and number of entities: `TypeCorrect`;
`DistinctSequences` by the invariant that every sequence number in the table is
less than `global_sequence` and only slots never used share one;
`WeakReferences` and `TenantsKept` as action properties from it;
`QueriesComplete` by the invariant that every slot due is either visited or
ahead of the query and still matching (a removal takes effect at the next
`ecs_update`, which ends the loop).

It goes on with `Frogger`, for any trucks, board, speeds, keys and frame times:
`PlayerIsSafe` and `EveryModelDrawn`. The invariant says that the roster is in
the first slots, in order, all of it active once the first frame has updated the
table (`Spawned`); that trucks keep to their lanes and the player to the board
(`Laid`); and, of the slots that the query of a loop has passed, that a truck is
clear of the player and a model is drawn (`Framed`). A truck that hits the player
sends it to the start while some trucks have been tested and some have not; the
start is clear of every lane, so none has to be tested again (`HomeIsSafe`). That
the comparison of edges is a test of whether two squares touch is `HitIfTouch`,
which needs them to be of the same size. `GameIsClient` says that every step of
the game is a step of `Ecs` or leaves the table alone, if the masks of `Ecs` have
those of the game; so what is proved of any client of the table is true of the
game as well.

`TraceProofs`, for any threads, blocks, sizes and amount of memory, in the
programs of `Trace`: `HeapIsSound`, by an invariant with a part of the heap
(`HeapInv`: every block is in an arena there is; a thread inside TLSF owns the
mutex; an owner that has locked it more often than it is in a call has met the
end of memory; after `heap_destroy` no one calls) and a part of the threads that
use it (`Using`: what they ask for are blocks, and none ends inside a call). The
second is what makes `heap_destroy`, which does not lock, find the heap at rest.

`TypeCorrect` and `CaptureIsComplete` follow under the hypothesis `Room`, that
the array has an element for every duration, as the 100 of `homework3_test` are
for its 4; beyond that the code writes past the array. The invariant names, of
each thread, the last duration that has an index of the array, the last with a
slot of the queue, and the last pop with one; `Numbered` says that
`num_durations`, `tail_index` and `head_index` are the numbers of durations up to
those. So an index is new when it is claimed (`Risen`), and no remainder is ever
taken of more than the capacity. `Stored` and `Queued` say that every index
claimed has a duration of its own or a thread about to store it. `Ending` follows
a slot through a pop: it is being read, or its duration is in one thread's hand,
or has ended once. The exception is a slot read before its push has written it;
whoever does so has an unwritten pointer in hand and crashes with it (`Lost`), and
`CaptureComplete` says nothing of that trace. `Staged` says that this goes on in
the seventh stage of the program alone, and `Memory` which blocks are allocated
in each. `QueueIsUsed`: every step of a trace is a step of `Queue` or leaves the
queue alone.

`FileSystemProofs`, for any files, works, queues and either client:
`TypeCorrect`, `ReadsHoldTheLastWrite`, `ReadsAreWhole`,
`NothingUsedAfterDestroy` and `OnlyFailuresLeak`, from one invariant. `Located` says
that a work submitted and not done is in one place (a queue, a worker or the
client's push), and that queues keep the order of submission with the NULL last;
`Stopping`, that the workers end in the order in which `fs_destroy` joins them;
`Owned`, that what is freed is done, and who frees `buffer_2`; `Shared`, that
the sharing modes keep a reader and a writer of one file apart. With these the
promises of memory hold for a careless client too. `Expectation` and `InOrder`
are for the careful one: the works of a file are done in the order submitted,
although three queues carry them, because a compressed file's next work is
submitted after the last is done and a plain file has one queue; so a file always
holds the last write made to it.

`RenderProofs`, for any meshes, entities, images and frames in flight, and any
calls of Vulkan that fail, has two invariants. The first, for any game:
`TypeCorrect`, `GameIsLast`, `ReleasedInOrder` and `NothingIsLeft`. Its ground is
that every handle comes after what it is made from (`Parents`) in the order of
`gpu_create`, and that each step of `gpu_destroy` releases nothing whose children
are left, but the depth view of the framebuffers (`Needs`).
`Ended` says that the NULL command is the last and that nothing remains behind
it; `Built`, that the GPU layer is there while the renderer has objects; `Held`,
that every object not destroyed is found from an entry of a cache or from an
instance, so that `destroy_stale_data`, when it counts all of them as old, misses
none. The loop of that function, which moves the last entry into the gap, is
proved by the least number of entries seen for which its result would be wrong
(`SweepFacts`).

The second, under the hypothesis that the game draws every mesh in every frame
(`EveryMeshDrawn`): `FramesInFlightAreSafe` and `DrawsAreWhole`. `Marked` says
that a frame whose end is in the queue has all of its draws before it; `Kept`,
that then no slot of a cache is ever given up, and what its entry points to
lives; `Recorded` and `Paced`, that a draw, recorded or in flight, uses an
instance that was used since, and that a frame in flight is less than
`FrameCount` frames old, which is less than `destroy_stale_data` waits, as long
as every wait for the GPU has succeeded (`unwaited`). The hypothesis is needed: `render_stale` is a game without it. `simple_game.c` is one
too; `frogger_game.c` has it, by `EveryModelDrawn` of
`EcsProofs`.

`NetConnectionsProofs`, for any peers, any number of connections and queues of
any size: `TypeCorrect`, `TableIsConsistent`, `PacketsReachTheirPeer` and
`NoConnectionMissed`, from one invariant. `Placed` says that a thread between
the lock and the unlock of `find_or_create_connection`, or stopping connections,
has the mutex, so that no two of them are there; `Located`, what a thread knows
of the connection it is at, which for the receive thread after the unlock is that
the slot is still its peer's, or empty with no other thread left that gives it
away (`net_connect` precedes the first update); `Furnished`, that a connection
without queues has no packet and no send thread; `Cleared`, that the loop of
`net_disconnect_all` leaves empty slots behind it. `QueuesUsable`, which is
violated, is not part of it: the theorems hold although a thread may crash.

`NetReplicationProofs`, for any bounds and any loss, duplication and reordering:
`BaselinesApplied` and `AcksGoForward`. Of the packets that the receiver has sent
and that may still come, the newer acknowledge the newer snapshots
(`AcksOrdered`), so that what the sender accepts, which is only what is newer
than all it has got, never takes `ack` back, and is always a snapshot that was
applied.

`CopiesAreCurrent` and `NoGhostsLeft` need more. `Sent` says that a packet has
the entities of its snapshot, in order, and leaves out a value only if an applied
snapshot no newer had the same for that entity. `World` is what `Tidy` is for:
the table is filled from the front without gaps, and the entity about to go is
the last. So an entity is in every snapshot from its first to its last
(`History`), and its values rise in them under `Fresh`. The packet that the
receiver applies next is newer than the last it applied, which is no older than
the one a value was left out against; the copy's value lies between two that are
equal. `Matching` says that the
slots have copies of different entities, that a slot whose entity is in the newest
snapshot lives, and that every entity of that snapshot has such a slot or has once
found none. It does not matter how many entities there are, or slots; a full
table costs the entity its own copy and nothing else.
Both hypotheses on the
game are needed: `net_stale_delta` is a game that is not `Fresh`, and one that
is not `Tidy` takes entities out of the snapshots that are alive. `NoGhostsLeft`
does not need `Fresh`.

The assumptions are those that the modules name (`QueueAssumption`,
`EcsAssumption` and so on): positive sizes, no more threads than can be counted,
and that no marker (`None`, `Uninit`) is an item, a peer or a thread; of `Trace`
also that `event_capacity`, an `int`, is at most `INT_MAX`. TLC
evaluates them on every run.

Only model-checked: everything temporal beyond safety (`PushCompletes`,
`CarefulWorkCompletes`, `ShutdownCompletes`, `RenderExits` and `CallsReturn`), for
TLAPS does not reason about fairness and ENABLED here.

## Plan

Done, in this order: the queue and its refinement, on which the others rest;
`FileSystem`; `Ecs`; `Render`; `NetConnections`; `NetReplication`; proofs of
the queue and of `Ecs`; `Heap` and `Trace`; `Gpu` under `Render`, with failures;
`Frogger` over `Ecs`; failing sends and receives; proofs of the heap, of
`NetConnections`, of `FileSystem`, of `Gpu` and `Render`, of `NetReplication`,
of `Frogger` and of `Trace`; runs for what the properties had to excuse. Every safety property that a run checks, and that
holds, is now a theorem.

Next: the promises of `Queue` that hold for any threads (`PermitsConserved`,
`IndicesAgree`) stated of the queue of `Trace`, where `QueueIsUsed` makes them
true, and from them that a trace's push never waits for a place.

## Not modelled

The implementation counted with its vendored parts is some 35,600 lines, of which
Vulkan's headers, LZ4 and three copies of TLSF are over 26,000, and declarations and
floating-point mathematics much of the rest; the engine's own C is about 6,500
lines, among them comments and commented-out copies of functions. The map's
share of the whole is therefore small, and would not be much larger if all of
the engine's control were modelled. What is left of it:

- mathematics (`mat4f.c`, `quatf.c`, `transform.c`): floating point, which TLC
  has not; of a transform `Frogger` has the translation;
- `lecture7.c`: teaching examples that no program calls; each of their means of
  synchronisation is in one of the modules;
- `debug.c`: formatting;
- `simple_game.c`: what it does with entities and the network is the client of
  `NetReplication`, and loading resources is calls of `fs` one after another;
- `timer.c`, `timeofday.c`, the creation of the window: calls of Win32;
- in `NetReplication`, the end of a connection: after five seconds of silence the
  receiver would begin anew, with no copies and no acknowledgement, and the
  copies of before stay in its game (`net.c:409`);
- in the modelled components: component memory but Frogger's, the bytes of files
  and what LZ4 makes of them, the JSON text, the memory of render commands and
  of packets, uniform data and the contents of command buffers and pipelines,
  the assertions that a cache has room, packet sizes, entity types of `net.c`
  and the parsing of addresses, the mouse.

Win32, Vulkan, LZ4 and TLSF are modelled only as the code uses them.
