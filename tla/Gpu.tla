-------------------------------- MODULE Gpu --------------------------------
(***************************************************************************)
(* The GPU layer of src/src/gpu.c as its one caller, the render thread,    *)
(* sees it: gpu_create and gpu_destroy handle by handle, the objects made  *)
(* for the renderer with the parts they are made of, the frames and what   *)
(* they wait for.  Every call of Vulkan that returns a result may fail.    *)
(* The actions here are completed by module Render, which says when the    *)
(* render thread takes them.                                               *)
(***************************************************************************)
EXTENDS Naturals, Sequences, SequencesExt, FiniteSets

CONSTANTS
  FrameCount,    \* images of the swapchain, chosen by the driver
  None,          \* no name
  FailureBound   \* bound of the model: calls of Vulkan that fail

ASSUME GpuAssumption ==
  /\ FrameCount \in Nat \ {0} /\ FailureBound \in Nat
  /\ None \notin {"mesh", "shader", "pipeline", "instance"}

VARIABLES
  handles,      \* what gpu_create has made and gpu_destroy has not released
  live,         \* objects of the renderer of which some part is not released
  frame_index,  \* of gpu_t: the frame being recorded
  fences,       \* of each frame index: whether its fence is signalled
  flight,       \* submitted and not completed: [index, number, draws]
  signals,      \* of present_complete_sema, that no completed frame has waited for
  starved,      \* the swapchain has no image left to give
  unwaited,     \* a wait for the GPU, or the reset of a fence, has failed
  failures      \* calls of Vulkan that have failed

frames == <<frame_index, fences, flight, signals, starved, unwaited>>
gpu == <<handles, live, frames, failures>>

FrameIndices == 0 .. FrameCount - 1

GpuInit ==
  /\ handles = {} /\ live = {} /\ frame_index = 0 /\ failures = 0
  /\ fences = [i \in FrameIndices |-> TRUE] /\ flight = {} /\ signals = 0
  /\ starved = FALSE /\ unwaited = FALSE
-----------------------------------------------------------------------------
(* gpu_create and gpu_destroy *)

Once(names) == [j \in DOMAIN names |-> <<names[j], 0>>]
Each(n, names) ==
  [j \in 1 .. n * Len(names) |->
     <<names[((j - 1) % Len(names)) + 1], (j - 1) \div Len(names)>>]

(* What gpu_create makes, in order: Vulkan's handles and blocks of the heap
   (gpu, frames, cmd_block, and two of each mesh layout). *)
DeviceHandles == Once(<<"gpu", "instance", "device">>)
SwapchainHandles == Once(<<"surface", "swapchain", "frames">>) \o Each(FrameCount, <<"view">>)
DepthHandles == Once(<<"depth_image", "depth_memory", "depth_view">>)
PassHandles == Once(<<"render_pass">>) \o Each(FrameCount, <<"framebuffer">>)
PoolHandles == Once(<<"present_sema", "render_sema", "descriptor_pool", "cmd_pool">>)
FrameHandles == Each(FrameCount, <<"cmd_block", "cmd_buffer", "fence">>)
LayoutHandles == Each(2, <<"binding", "attributes">>)

CreationOrder ==
  DeviceHandles \o SwapchainHandles \o DepthHandles \o PassHandles
  \o PoolHandles \o FrameHandles \o LayoutHandles

(* Mutant: the command pool is destroyed before its buffers. *)
DestructionPoolFirst ==
  LayoutHandles
  \o Once(<<"render_sema", "present_sema", "depth_view", "depth_image", "depth_memory", "cmd_pool">>)
  \o Each(FrameCount, <<"fence", "cmd_buffer", "cmd_block", "framebuffer", "view">>)
  \o Once(<<"frames", "descriptor_pool", "render_pass", "swapchain", "surface",
            "device", "instance", "gpu">>)

(* What gpu_destroy releases, in order, each if it is not NULL. *)
DestructionOrder ==
  LayoutHandles
  \o Once(<<"render_sema", "present_sema", "depth_view", "depth_image", "depth_memory">>)
  \o Each(FrameCount, <<"fence", "cmd_buffer", "cmd_block", "framebuffer", "view">>)
  \o Once(<<"frames", "descriptor_pool", "cmd_pool", "render_pass", "swapchain", "surface",
            "device", "instance", "gpu">>)

(* What gpu_create makes next. *)
Upcoming == CreationOrder[SelectInSeq(CreationOrder, LAMBDA h : h \notin handles)]

GpuReady == ToSet(CreationOrder) \subseteq handles

GpuCreateStep ==
  /\ ~GpuReady
  /\ handles' = handles \cup {Upcoming}
  /\ UNCHANGED <<live, frames, failures>>

(* The call that makes the next handle fails, or a query before it does. *)
GpuCreateFail ==
  /\ ~GpuReady /\ failures < FailureBound
  /\ Upcoming[1] \notin {"gpu", "cmd_block", "binding", "attributes"}
  /\ failures' = failures + 1
  /\ UNCHANGED <<handles, live, frames>>

(* One step of gpu_destroy, which has waited until the queue is idle. *)
GpuDestroyStep ==
  /\ handles # {}
  /\ handles' = handles \
       {DestructionOrder[SelectInSeq(DestructionOrder, LAMBDA h : h \in handles)]}
  /\ UNCHANGED <<live, frames, failures>>
-----------------------------------------------------------------------------
(* The objects of the renderer *)

(* A GPU object made from info (or for an entity) in frame n. *)
Object(kind, info, n) == [kind |-> kind, info |-> info, frame |-> n]

(* The NULL pointer to one. *)
Null == Object(None, None, 0)

(* What each is made of, in the order it is made; an instance has two arrays
   and, for each frame, a uniform buffer and a descriptor. *)
MeshParts == <<"block", "vertex_buffer", "vertex_memory", "index_buffer", "index_memory">>
ShaderParts == <<"block", "vertex_module", "fragment_module", "descriptor_set_layout">>
PipelineParts == <<"block", "pipeline_layout", "pipe">>
UniformParts == <<"uniform", "buffer", "memory">>
DescriptorParts == <<"descriptor", "set">>

Parts == [
  mesh |-> MeshParts, shader |-> ShaderParts, pipeline |-> PipelineParts,
  instance |-> <<"uniform_buffers", "descriptors">> \o UniformParts \o DescriptorParts]

(* Mutant: gpu_mesh_destroy forgets the memory of the indices. *)
MeshReleasesThree == {"index_buffer", "vertex_buffer", "vertex_memory", "block"}

(* What the destruction of each releases, each part if it is not NULL. *)
MeshReleases == {"index_buffer", "index_memory", "vertex_buffer", "vertex_memory", "block"}
ShaderReleases == {"vertex_module", "fragment_module", "descriptor_set_layout", "block"}
PipelineReleases == {"pipeline_layout", "pipe", "block"}
UniformReleases == {"buffer", "memory", "uniform"}
DescriptorReleases == {"set", "descriptor"}

Releases == [
  mesh |-> MeshReleases, shader |-> ShaderReleases, pipeline |-> PipelineReleases,
  instance |-> UniformReleases \cup DescriptorReleases \cup {"uniform_buffers", "descriptors"}]

(* The first k parts of an object are made; something of them outlives its
   destruction. *)
Outlives(kind, k) == \E j \in DOMAIN Parts[kind] : j <= k /\ Parts[kind][j] \notin Releases[kind]

(* The objects created, those whose creation fails after k parts and that
   destroy themselves, and those destroyed. *)
Create(created, failed, k) == live \cup created \cup {o \in failed : Outlives(o.kind, k)}
Destroy(objects) == live \ {o \in objects : ~Outlives(o.kind, Len(Parts[o.kind]))}
-----------------------------------------------------------------------------
(* Frames *)

Failing(calls) ==
  /\ failures' = failures + Cardinality(calls)
  /\ failures' <= FailureBound

(* gpu_frame_end goes on whichever of its calls fail.  First
   vkAcquireNextImageKHR, which has the semaphore signalled (one signalled
   already stays so); if it fails, the frame will wait for a signal that is not
   on its way, and presents no image of its own. *)
FrameAcquire(fails) ==
  /\ ~starved
  /\ signals' = IF "acquire" \in fails \/ signals > Cardinality(flight) THEN signals ELSE signals + 1
  /\ starved' \in (IF "acquire" \in fails THEN BOOLEAN ELSE {FALSE})
  /\ Failing(fails)
  /\ UNCHANGED <<handles, live, frame_index, fences, flight, unwaited>>

(* Then wait for the fence of this frame index, reset it, submit the draws as
   frame n, and present.  A submission is invalid with a command buffer that was
   not begun or not ended, a fence not known to be reset, or no signal on its
   way; it is taken as it is or fails too.  An image not presented is lost, and
   the swapchain may then have none left. *)
FrameSubmit(n, draws, ended, fails) ==
  LET valid == ended /\ fails \cap {"wait", "reset"} = {} /\ signals > Cardinality(flight)
  IN  /\ fences[frame_index] \/ "wait" \in fails
      /\ fences' = IF "reset" \in fails THEN fences ELSE [fences EXCEPT ![frame_index] = FALSE]
      /\ unwaited' = (unwaited \/ fails \cap {"wait", "reset"} # {})
      /\ flight' = flight \cup (IF "submit" \in fails THEN {} ELSE
                                  {[index |-> frame_index, number |-> n, draws |-> draws]})
      /\ starved' \in (IF fails \cap {"submit", "present"} = {} THEN {starved} ELSE {starved, TRUE})
      /\ Failing(IF valid THEN fails ELSE fails \ {"submit"})
      /\ frame_index' = (frame_index + 1) % FrameCount
      /\ UNCHANGED <<handles, live, signals>>

(* The GPU completes the oldest frame in flight, for which the semaphore has
   been signalled, and signals its fence. *)
GpuComplete(f) ==
  /\ f \in flight /\ \A g \in flight : f.number <= g.number
  /\ signals > 0 /\ signals' = signals - 1
  /\ flight' = flight \ {f}
  /\ fences' = [fences EXCEPT ![f.index] = TRUE]
  /\ UNCHANGED <<handles, live, frame_index, starved, unwaited, failures>>

(* vkQueueWaitIdle, whose result no one looks at. *)
GpuWaitIdle ==
  /\ \/ flight = {} /\ UNCHANGED <<failures, unwaited>>
     \/ Failing({"idle"}) /\ unwaited' = TRUE
  /\ UNCHANGED <<frame_index, fences, flight, signals, starved>>
-----------------------------------------------------------------------------
(* What a handle is made from or stored in. *)
Parents(h) ==
  LET one(name) == <<name, 0>>
  IN  CASE h[1] = "gpu" -> {}
        [] h[1] \in {"instance", "frames", "binding", "attributes"} -> {one("gpu")}
        [] h[1] \in {"surface", "device"} -> {one("instance")}
        [] h[1] = "swapchain" -> {one("surface"), one("device")}
        [] h[1] = "view" -> {one("device"), one("swapchain"), one("frames")}
        [] h[1] = "depth_view" -> {one("device"), one("depth_image"), one("depth_memory")}
        [] h[1] = "framebuffer" ->
             {one("device"), one("frames"), one("render_pass"), one("depth_view"), <<"view", h[2]>>}
        [] h[1] = "fence" -> {one("device"), one("frames")}
        [] h[1] = "cmd_block" -> {one("frames")}
        [] h[1] = "cmd_buffer" -> {one("cmd_pool"), <<"cmd_block", h[2]>>}
        [] OTHER -> {one("device")}

(* Of these, what it must not outlive: all, but that gpu_destroy releases the
   depth view before the framebuffers made from it.  Vulkan allows that, as they
   are not used any more. *)
Needs(h) == Parents(h) \ (IF h[1] = "framebuffer" THEN {<<"depth_view", 0>>} ELSE {})

(* Whatever call of gpu_create fails, and however the renderer ends, nothing is
   released before what was made from it or is stored in it, but the depth view:
   not the pools before the command buffers and descriptor sets, the device, the
   pool or the render pass before the renderer's objects, the images' views and
   the render pass before the framebuffers, or the frames before their fences. *)
ChildrenFirst ==
  /\ \A h \in handles : Needs(h) \subseteq handles
  /\ live # {} => {<<"device", 0>>, <<"descriptor_pool", 0>>, <<"render_pass", 0>>} \subseteq handles
=============================================================================
