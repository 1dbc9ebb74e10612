------------------------------- MODULE Render -------------------------------
(***************************************************************************)
(* The renderer of src/src/render.c over the GPU layer (module Gpu): the   *)
(* game's thread pushes draw commands and end-of-frame markers to a queue; *)
(* the render thread creates the gpu, records each frame, creating the     *)
(* objects it needs in caches, submits it behind a fence, and destroys the *)
(* objects that no frame in flight uses; the GPU completes frames in the   *)
(* order submitted.  A NULL pointer that is dereferenced ends the process. *)
(*                                                                         *)
(* The queue has one pushing and one popping thread, so a push and a pop   *)
(* are single steps here (module QueueSpsc).                               *)
(***************************************************************************)
EXTENDS Gpu

CONSTANTS
  Entities,    \* references of the entities the game draws
  Meshes,      \* mesh infos of the game; the shaders' cache is of the same make
  MeshOf,      \* of each entity: its mesh info
  Shader,      \* the shader info of every entity
  Permanent,   \* entities that the game draws in every frame
  QueueMax,    \* capacity of the queue: 3 in render_create
  FrameBound   \* bound of the model: frames the game draws

ASSUME RenderAssumption ==
  /\ MeshOf \in [Entities -> Meshes]
  /\ Permanent \subseteq Entities
  /\ QueueMax \in Nat \ {0} /\ FrameBound \in Nat
  /\ Shader \notin Meshes

VARIABLES
  queue,          \* the commands: [type, entity]
  game,           \* the game's thread: [pc, drawn, frames]
  pc,             \* where the render thread is
  command,        \* the command it has popped
  recording,      \* cmdbuf # NULL
  recorded,       \* the draws recorded in the frame's command buffer
  frame_counter,  \* of render_t
  caches,         \* of meshes and of shaders: [slots, count]
  instances       \* of entities: [entity, object, missing, last]

renderer == <<recording, recorded, frame_counter, caches, instances>>
vars == <<queue, game, pc, command, renderer, gpu>>

(* The objects that an entry of each cache points to. *)
Members == [mesh |-> {"mesh"}, shader |-> {"shader", "pipeline"}]
Quit == [type |-> "quit", entity |-> None]         \* the NULL command
FrameDone == [type |-> "frame_done", entity |-> None]
Model(e) == [type |-> "model", entity |-> e]

Init ==
  /\ queue = << >>
  /\ game = [pc |-> "play", drawn |-> {}, frames |-> 0]
  /\ pc = "gpu_create" /\ command = Quit
  /\ recording = FALSE /\ recorded = {}
  /\ frame_counter = 0
  /\ caches = [k \in DOMAIN Members |-> [slots |-> << >>, count |-> 0]]
  /\ instances = << >>
  /\ GpuInit
-----------------------------------------------------------------------------
(* The game's thread *)

(* Mutant: a push does not wait for room. *)
PushUnbounded(c) == queue' = Append(queue, c)

(* queue_push *)
Push(c) ==
  /\ Len(queue) < QueueMax
  /\ queue' = Append(queue, c)

(* render_push_model *)
PushModel(e) ==
  /\ game.pc = "play" /\ game.frames < FrameBound
  /\ e \notin game.drawn
  /\ Push(Model(e))
  /\ game' = [game EXCEPT !.drawn = @ \cup {e}]
  /\ UNCHANGED <<pc, command, renderer, gpu>>

(* render_push_done *)
PushDone ==
  /\ game.pc = "play" /\ game.frames < FrameBound
  /\ Permanent \subseteq game.drawn
  /\ Push(FrameDone)
  /\ game' = [game EXCEPT !.drawn = {}, !.frames = @ + 1]
  /\ UNCHANGED <<pc, command, renderer, gpu>>

(* Mutant: no NULL is pushed. *)
RenderDestroySilent ==
  /\ game.pc = "play" /\ game.drawn = {}
  /\ game' = [game EXCEPT !.pc = "join"]
  /\ UNCHANGED <<queue, pc, command, renderer, gpu>>

(* render_destroy, which main calls between two frames: push NULL ... *)
RenderDestroy ==
  /\ game.pc = "play" /\ game.drawn = {}
  /\ Push(Quit)
  /\ game' = [game EXCEPT !.pc = "join"]
  /\ UNCHANGED <<pc, command, renderer, gpu>>

(* Mutant: main destroys the game without waiting for the render thread. *)
GameDestroyEarly ==
  /\ game.pc = "join"
  /\ game' = [game EXCEPT !.pc = "destroyed"]
  /\ UNCHANGED <<queue, pc, command, renderer, gpu>>

(* ... join the thread, and then destroy the game and its resources. *)
GameDestroy ==
  /\ game.pc = "join" /\ pc = "exit"
  /\ game' = [game EXCEPT !.pc = "destroyed"]
  /\ UNCHANGED <<queue, pc, command, renderer, gpu>>
-----------------------------------------------------------------------------
(* The render thread *)

(* gpu_create, step by step. *)
RenderCreate ==
  /\ pc = "gpu_create"
  /\ \/ GpuCreateStep /\ UNCHANGED pc
     \/ GpuCreateFail /\ pc' = "unwind"
     \/ GpuReady /\ pc' = "pop" /\ UNCHANGED gpu
  /\ UNCHANGED <<queue, game, command, renderer>>

(* gpu_destroy, from the failure of gpu_create or at the end; gpu_create then
   returns NULL, which gpu_get_frame_count dereferences. *)
RenderGpuDestroy ==
  /\ pc \in {"unwind", "gpu_destroy"}
  /\ \/ GpuDestroyStep /\ UNCHANGED pc
     \/ handles = {} /\ pc' = (IF pc = "unwind" THEN "crash" ELSE "exit") /\ UNCHANGED gpu
  /\ UNCHANGED <<queue, game, command, renderer>>

(* queue_pop; for a command, gpu_frame_begin if no frame is being recorded,
   which returns NULL if vkBeginCommandBuffer fails. *)
RenderPop ==
  /\ pc = "pop" /\ queue # << >>
  /\ command' = Head(queue)
  /\ queue' = Tail(queue)
  /\ pc' = Head(queue).type
  /\ \/ /\ Head(queue) = Quit \/ recording
        /\ UNCHANGED <<recording, recorded, failures>>
     \/ /\ Head(queue) # Quit /\ ~recording
        /\ recorded' = {}
        /\ \/ recording' = TRUE /\ UNCHANGED failures
           \/ /\ failures < FailureBound
              /\ failures' = failures + 1 /\ UNCHANGED recording
  /\ UNCHANGED <<game, frame_counter, caches, instances, handles, live, frames>>

(* The entry of info among the first count slots, or else the next slot. *)
SlotOf(cache, info) ==
  LET hits == {i \in 1 .. cache.count : cache.slots[i].info = info}
  IN  IF hits = {} THEN cache.count + 1 ELSE CHOOSE h \in hits : \A j \in hits : h <= j

(* The objects that slot i points to: a slot given up and taken again still
   has its pointers. *)
PointersIn(cache, kind, i) ==
  IF i <= Len(cache.slots) THEN cache.slots[i].objects ELSE [m \in Members[kind] |-> Null]

(* Mutant: a hit does not count as a use. *)
GetOrCreateUntouched(kind, info, failed) ==
  LET cache == caches[kind]
      i == SlotOf(cache, info)
      old == PointersIn(cache, kind, i)
      slot == [info |-> info, last |-> IF i <= cache.count THEN cache.slots[i].last ELSE frame_counter,
               objects |-> [m \in Members[kind] |->
                 CASE old[m] # Null -> old[m]
                   [] old[m] = Null /\ m \in failed -> Null
                   [] OTHER -> Object(m, info, frame_counter)]]
  IN  [slots |-> SubSeq(cache.slots, 1, i - 1) \o <<slot>> \o SubSeq(cache.slots, i + 1, Len(cache.slots)),
       count |-> IF i <= cache.count THEN cache.count ELSE i]

(* create_or_get_mesh_for_model_command, and the same of shaders: in the slot
   of info, create what is NULL; the creations in failed return NULL. *)
GetOrCreate(kind, info, failed) ==
  LET cache == caches[kind]
      i == SlotOf(cache, info)
      old == PointersIn(cache, kind, i)
      slot == [info |-> info, last |-> frame_counter,
               objects |-> [m \in Members[kind] |->
                 CASE old[m] # Null -> old[m]
                   [] old[m] = Null /\ m \in failed -> Null
                   [] OTHER -> Object(m, info, frame_counter)]]
  IN  [slots |-> SubSeq(cache.slots, 1, i - 1) \o <<slot>> \o SubSeq(cache.slots, i + 1, Len(cache.slots)),
       count |-> IF i <= cache.count THEN cache.count ELSE i]

InfoFor(kind, e) == IF kind = "mesh" THEN MeshOf[e] ELSE Shader

(* What a draw of e has to create, in the two caches and as its instance. *)
NullIn(kind, e) ==
  LET pointers == PointersIn(caches[kind], kind, SlotOf(caches[kind], InfoFor(kind, e)))
  IN  {m \in Members[kind] : pointers[m] = Null}
InstanceSlot(e) == SelectInSeq(instances, LAMBDA x : x.entity = e)
Attempts(e) ==
  NullIn("mesh", e) \cup NullIn("shader", e) \cup (IF InstanceSlot(e) = 0 THEN {"instance"} ELSE {})

(* create_or_get_instance_for_model_command: a new entry always gets new
   objects, less the descriptors of missing.  The uniform data it writes is
   not modelled. *)
InstancesWith(e, missing) ==
  LET new == [entity |-> e, object |-> Object("instance", e, frame_counter),
              missing |-> missing, last |-> frame_counter]
  IN  IF InstanceSlot(e) = 0 THEN Append(instances, new)
                             ELSE [instances EXCEPT ![InstanceSlot(e)].last = frame_counter]

(* What is dereferenced though NULL in a draw that would record d with the
   instance x: the command buffer, a shader, a uniform buffer, the pipeline or
   the mesh if another was bound before in this frame, the descriptor. *)
Dereferenced(failed, d, x) ==
  \/ ~recording
  \/ failed \cap {"shader", "instance"} # {}
  \/ \E k \in {"mesh", "pipeline"} : d[k] = Null /\ \E r \in recorded : r[k] # Null
  \/ frame_counter % FrameCount \in x.missing

(* A draw command for which the creations in failed and the descriptors in
   missing cannot be had; the failing ones stop after k parts. *)
Draw(e, failed, missing, k) ==
  \E new \in {[kind \in DOMAIN Members |-> GetOrCreate(kind, InfoFor(kind, e), failed)]},
     inst \in {InstancesWith(e, missing)} :
  LET pointers(kind) == new[kind].slots[SlotOf(caches[kind], InfoFor(kind, e))].objects
      x == inst[SelectInSeq(inst, LAMBDA y : y.entity = e)]
      object(m) == Object(m, CASE m = "instance" -> e
                               [] m = "mesh" -> MeshOf[e]
                               [] OTHER -> Shader, frame_counter)
  IN  \E d \in {[entity |-> e, mesh |-> pointers("mesh").mesh, shader |-> pointers("shader").shader,
                 pipeline |-> pointers("shader").pipeline, instance |-> x.object]} :
        /\ failures' = failures + Cardinality(failed) + Cardinality(missing)
        /\ IF Dereferenced(failed, d, x)
             THEN pc' = "crash" /\ UNCHANGED <<caches, instances, live, recorded>>
             ELSE /\ caches' = new
                  /\ instances' = inst
                  /\ live' = Create({object(m) : m \in Attempts(e) \ failed},
                                    {object(m) : m \in failed}, k)
                  /\ recorded' = recorded \cup {d}
                  /\ pc' = "pop"

(* A draw command: every creation may succeed or fail. *)
RenderModel ==
  /\ pc = "model"
  /\ \E failed \in SUBSET Attempts(command.entity),
        missing \in SUBSET (IF InstanceSlot(command.entity) = 0 THEN FrameIndices ELSE {}) :
       /\ Cardinality(failed) + Cardinality(missing) <= FailureBound - failures
       /\ \E k \in IF failed = {} THEN {0} ELSE 1 .. 5 : Draw(command.entity, failed, missing, k)
  /\ UNCHANGED <<queue, game, command, recording, frame_counter, handles, frames>>

(* An end-of-frame marker: gpu_frame_end, to the acquisition of an image.  The
   command buffer may not have begun (recording), or not end. *)
FrameAcquired ==
  /\ pc = "frame_done"
  /\ \E fails \in SUBSET {"end", "acquire"} :
       /\ FrameAcquire(fails)
       /\ recording' = (recording /\ "end" \notin fails)
  /\ pc' = "submit"
  /\ UNCHANGED <<queue, game, command, recorded, frame_counter, caches, instances>>

(* The rest of it. *)
FrameEnd ==
  /\ pc = "submit"
  /\ \E fails \in SUBSET {"wait", "reset", "submit", "present"} :
       FrameSubmit(frame_counter, recorded, recording, fails)
  /\ recording' = FALSE
  /\ pc' = "stale"
  /\ UNCHANGED <<queue, game, command, recorded, frame_counter, caches, instances>>

(* Mutant: off by one frame. *)
StaleEarly(entry, n) == entry.last + FrameCount - 1 <= n

(* The test of destroy_stale_data at frame n. *)
Stale(entry, n) == entry.last + FrameCount <= n

(* The loop over a cache, from its last entry down: a stale entry is replaced
   by the last one, which stays in its slot beyond count. *)
WithoutStale(cache, n) ==
  LET after[i \in 0 .. cache.count] ==    \* when the last i entries have been seen
        IF i = 0 THEN cache
        ELSE LET c == after[i - 1]
                 j == cache.count + 1 - i
             IN  IF Stale(c.slots[j], n)
                   THEN [slots |-> [c.slots EXCEPT ![j] = c.slots[c.count]], count |-> c.count - 1]
                   ELSE c
  IN  after[cache.count]

(* destroy_stale_data at frame n. *)
DestroyStaleData(n) ==
  LET entries(k) == {caches[k].slots[i] : i \in 1 .. caches[k].count}
      pointers(k, y) == {y.objects[m] : m \in Members[k]} \ {Null}
      stale == (UNION {UNION {pointers(k, y) : y \in {z \in entries(k) : Stale(z, n)}} : k \in DOMAIN Members})
               \cup {x.object : x \in {y \in ToSet(instances) : Stale(y, n)}}
  IN  /\ live' = Destroy(stale)
      /\ caches' = [k \in DOMAIN Members |-> WithoutStale(caches[k], n)]
      /\ LET kept == WithoutStale([slots |-> instances, count |-> Len(instances)], n)
         IN  instances' = SubSeq(kept.slots, 1, kept.count)

(* After a frame. *)
FrameStale ==
  /\ pc = "stale"
  /\ DestroyStaleData(frame_counter)
  /\ frame_counter' = frame_counter + 1
  /\ pc' = "pop"
  /\ UNCHANGED <<queue, game, command, recording, recorded, handles, frames, failures>>

(* Mutant: frame_counter is not moved on, so only what is stale goes. *)
RenderExitStale ==
  /\ pc = "quit" /\ GpuWaitIdle
  /\ DestroyStaleData(frame_counter)
  /\ pc' = "idle"
  /\ UNCHANGED <<queue, game, command, recording, recorded, frame_counter, handles>>

(* After the loop: wait for the GPU, make everything stale and destroy it ... *)
RenderExit ==
  /\ pc = "quit" /\ GpuWaitIdle
  /\ frame_counter' = frame_counter + FrameCount + 1
  /\ DestroyStaleData(frame_counter')
  /\ pc' = "idle"
  /\ UNCHANGED <<queue, game, command, recording, recorded, handles>>

(* ... and gpu_destroy, which waits for the GPU again. *)
RenderGpuIdle ==
  /\ pc = "idle" /\ GpuWaitIdle
  /\ pc' = "gpu_destroy"
  /\ UNCHANGED <<queue, game, command, renderer, handles, live>>

RenderThread ==
  \/ RenderCreate \/ RenderPop \/ RenderModel \/ FrameAcquired \/ FrameEnd \/ FrameStale
  \/ RenderExit \/ RenderGpuIdle \/ RenderGpuDestroy

GpuCompletes == (\E f \in flight : GpuComplete(f)) /\ UNCHANGED <<queue, game, pc, command, renderer>>

Next ==
  /\ pc # "crash"
  /\ \/ \E e \in Entities : PushModel(e)
     \/ PushDone \/ RenderDestroy \/ GameDestroy
     \/ RenderThread
     \/ GpuCompletes

Spec == Init /\ [][Next]_vars

(* The render thread and the GPU go on; the game is not obliged to. *)
FairSpec == Spec /\ WF_vars(RenderThread) /\ WF_vars(GpuCompletes)
-----------------------------------------------------------------------------
Objects == [kind : DOMAIN Parts, info : Entities \cup Meshes \cup {Shader}, frame : Nat]
Draws == [entity : Entities, mesh : Objects \cup {Null}, shader : Objects,
          pipeline : Objects \cup {Null}, instance : Objects]

(* Every variable has its type. *)
TypeOK ==
  /\ queue \in Seq({Quit, FrameDone} \cup {Model(e) : e \in Entities})
  /\ Len(queue) <= QueueMax
  /\ game \in [pc : {"play", "join", "destroyed"}, drawn : SUBSET Entities, frames : 0 .. FrameBound]
  /\ pc \in {"gpu_create", "pop", "model", "frame_done", "submit", "stale", "quit", "idle",
             "gpu_destroy", "exit", "unwind", "crash"}
  /\ command \in {Quit, FrameDone} \cup {Model(e) : e \in Entities}
  /\ recording \in BOOLEAN /\ recorded \subseteq Draws
  /\ frame_counter \in Nat
  /\ frame_index \in FrameIndices /\ failures \in 0 .. FailureBound
  /\ fences \in [FrameIndices -> BOOLEAN] /\ signals \in Nat
  /\ starved \in BOOLEAN /\ unwaited \in BOOLEAN
  /\ flight \subseteq [index : FrameIndices, number : Nat, draws : SUBSET Draws]
  /\ \A k \in DOMAIN Members : caches[k].count \in 0 .. Len(caches[k].slots)
  /\ \A x \in ToSet(instances) : x.entity \in Entities /\ x.missing \subseteq FrameIndices
  /\ live \subseteq Objects /\ handles \subseteq ToSet(CreationOrder)

Used(draws) == (UNION {{d.mesh, d.shader, d.pipeline, d.instance} : d \in draws}) \ {Null}

(* The render thread never destroys an object that a frame the GPU has not
   completed draws with: destroy_stale_data counts frames, and only
   gpu_frame_end waits for one.  Nothing makes up for a wait that fails, or for
   a fence that could not be reset and is taken for that of a later frame. *)
InFlightLive == ~unwaited => \A f \in flight : Used(f.draws) \subseteq live

(* A draw binds objects that exist, made from the mesh and the shader of its
   entity: "The model has a mesh and shader that will be attached to it in the
   GPU" (render.h:92); only after a failure can it lack the mesh or the
   pipeline. *)
DrawsLive ==
  recording => \A d \in recorded :
    /\ Used({d}) \subseteq live
    /\ d.mesh = Null \/ d.mesh.info = MeshOf[d.entity]
    /\ d.instance.info = d.entity
    /\ failures = 0 => Null \notin {d.mesh, d.pipeline}

(* When the render thread has ended, or gpu_create has failed, nothing either
   of them created is left, whatever creations failed on the way. *)
NothingLeft ==
  /\ pc = "exit" => live = {} /\ handles = {} /\ queue = << >>
  /\ pc = "crash" /\ command = Quit => live = {} /\ handles = {}

(* "Shutdown render before the game. Render uses game resources" (main.c:83):
   the meshes and shaders that commands point to outlive the commands. *)
GameOutlivesCommands == game.pc = "destroyed" => queue = << >> /\ pc = "exit"

(* The render thread waits for what will not come: an image of the swapchain;
   the fence of a frame that was never submitted; or the fence of one, or the end
   of all, that the GPU cannot start before a signal that vkAcquireNextImageKHR
   has failed to give. *)
Stuck ==
  \/ pc = "frame_done" /\ starved
  \/ pc = "submit" /\ ~fences[frame_index] /\ (signals = 0 \/ \A f \in flight : f.index # frame_index)
  \/ pc \in {"quit", "idle"} /\ flight # {} /\ signals = 0

(* render_destroy returns, whatever frames are queued and in flight, unless a
   call of Vulkan has failed and the process has died of a NULL pointer, or
   gpu_frame_end has gone on after a failure of its own and left the render
   thread waiting for ever. *)
RenderExits == (game.pc = "join") ~> (pc = "exit" \/ (failures > 0 /\ (pc = "crash" \/ Stuck)))
=============================================================================
