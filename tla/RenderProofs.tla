---------------------------- MODULE RenderProofs ----------------------------
(***************************************************************************)
(* Proofs about Render and Gpu, for any entities, meshes, swapchain and    *)
(* queue.                                                                  *)
(***************************************************************************)
EXTENDS Render, FiniteSetTheorems, WellFoundedInduction, SequenceTheorems, TLAPS

Kinds == {"mesh", "shader"}
Infos == Entities \cup Meshes \cup {Shader}
Entry(k) == [info : Infos, last : Nat, objects : [Members[k] -> Objects \cup {Null}]]
InstanceEntry == [entity : Entities, object : Objects, missing : SUBSET FrameIndices, last : Nat]
Models == {Model(e) : e \in Entities}
Positions == 1 .. Len(queue)

(* The frames: what gpu_frame_end waits for and what is submitted. *)
FramesTyped ==
  /\ frame_index \in FrameIndices /\ fences \in [FrameIndices -> BOOLEAN] /\ signals \in Nat
  /\ starved \in BOOLEAN /\ unwaited \in BOOLEAN
  /\ flight \subseteq [index : FrameIndices, number : Nat, draws : SUBSET Draws]

(* What the type invariant leaves open of the stores. *)
Stored ==
  /\ \A k \in Kinds : caches[k].slots \in Seq(Entry(k))
  /\ instances \in Seq(InstanceEntry)
  /\ FramesTyped
  /\ pc = "model" => command \in Models
  /\ pc \in {"gpu_create", "unwind"} => command = Quit

(* The NULL command is the last of the queue, and what the render thread ends
   on. *)
Ending == {"quit", "idle", "gpu_destroy", "exit"}
Ended ==
  /\ \A i \in Positions : queue[i] = Quit => i = Len(queue) /\ game.pc # "play"
  /\ game.pc # "play" /\ pc \notin Ending => queue # << >> /\ queue[Len(queue)] = Quit
  /\ pc \in Ending => queue = << >> /\ game.pc # "play"
  /\ game.pc = "destroyed" => pc = "exit"

(* The GPU layer is there as long as the renderer has objects. *)
Built ==
  /\ \A h \in handles : Needs(h) \subseteq handles
  /\ pc \in {"pop", "model", "frame_done", "submit", "stale", "quit"} \/ live # {} => GpuReady
  /\ pc \in {"gpu_create", "unwind", "idle", "gpu_destroy", "exit"} => live = {}
  /\ pc = "exit" => handles = {}
  /\ pc = "crash" /\ command = Quit => live = {} /\ handles = {}

(* Every object is found again: an entry of a cache or of the instances points
   to it, used in this frame at the latest. *)
HeldBy(k) == {caches[k].slots[i].objects[m] : i \in 1 .. caches[k].count, m \in Members[k]}
InstanceObjects == {instances[i].object : i \in 1 .. Len(instances)}
Held ==
  /\ live \subseteq HeldBy("mesh") \cup HeldBy("shader") \cup InstanceObjects
  /\ \A k \in Kinds : \A i \in 1 .. caches[k].count : caches[k].slots[i].last <= frame_counter
  /\ \A i \in 1 .. Len(instances) : instances[i].last <= frame_counter

IInv == TypeOK /\ Stored /\ Ended /\ Built /\ Held

(* What follows holds when the game draws every mesh in every frame. *)
EveryMeshDrawn == \A m \in Meshes : \E e \in Permanent : MeshOf[e] = m

Working == pc \notin {"idle", "gpu_destroy", "exit"}

(* The entry of the mesh of e, if there is one, is used in this frame, and so is
   the shader's. *)
Touched(e) ==
  /\ \A i \in 1 .. caches["mesh"].count :
       caches["mesh"].slots[i].info = MeshOf[e] => caches["mesh"].slots[i].last = frame_counter
  /\ \A i \in 1 .. caches["shader"].count : caches["shader"].slots[i].last = frame_counter

(* The game has drawn e in the frame of position i of the queue, before it. *)
DrawnBy(e, i) ==
  \/ \E j \in 1 .. i - 1 : queue[j] = Model(e) /\ \A k \in j + 1 .. i - 1 : queue[k] # FrameDone
  \/ /\ \A k \in 1 .. i - 1 : queue[k] # FrameDone
     /\ pc \notin {"frame_done", "submit", "stale"}
     /\ Touched(e) \/ (pc = "model" /\ command = Model(e))

(* Frames are drawn whole: at their end every permanent entity has been drawn,
   and nothing is recorded that no end follows. *)
Marked ==
  /\ pc # "crash" =>
       /\ \A i \in Positions : queue[i] = FrameDone => \A e \in Permanent : DrawnBy(e, i)
       /\ \A i \in {Len(queue) + 1} : \A e \in game.drawn : DrawnBy(e, i)
  /\ pc \in {"frame_done", "submit", "stale"} => \A e \in Permanent : Touched(e)
  /\ game.pc # "play" => game.drawn = {}
  /\ game.drawn = {} =>
       \A i \in Positions : queue[i] \in Models => \E j \in i + 1 .. Len(queue) : queue[j] = FrameDone
  /\ game.drawn = {} /\ (pc = "model" \/ (recording /\ pc \notin {"frame_done", "submit", "crash"})) =>
       \E j \in Positions : queue[j] = FrameDone

(* Caches have one entry of each info, and instances one of each entity. *)
Distinct ==
  /\ \A k \in Kinds : \A i, j \in 1 .. caches[k].count :
       caches[k].slots[i].info = caches[k].slots[j].info => i = j
  /\ \A i, j \in 1 .. Len(instances) : instances[i].entity = instances[j].entity => i = j
  /\ \A i \in 1 .. Len(instances) :
       instances[i].object.kind = "instance" /\ instances[i].object.info = instances[i].entity
  /\ \A i \in 1 .. caches["mesh"].count : caches["mesh"].slots[i].info \in Meshes
  /\ \A i \in 1 .. caches["shader"].count : caches["shader"].slots[i].info = Shader /\ Entities # {}

(* No slot was ever given up, and all that entries point to lives. *)
Kept ==
  /\ Distinct
  /\ Working =>
       /\ \A k \in Kinds : caches[k].count = Len(caches[k].slots)
       /\ \A k \in Kinds : \A i \in 1 .. caches[k].count : \A m \in Members[k] :
            LET o == caches[k].slots[i].objects[m]
            IN  o # Null => o \in live /\ o.kind = m /\ o.info = caches[k].slots[i].info
       /\ failures = 0 =>
            \A k \in Kinds : \A i \in 1 .. caches[k].count : \A m \in Members[k] :
              caches[k].slots[i].objects[m] # Null
       /\ InstanceObjects \subseteq live

(* A draw of frame n uses objects that live and an instance used since. *)
Uses(d, n) ==
  /\ {d.mesh, d.shader, d.pipeline} \subseteq live \cup {Null}
  /\ d.mesh # Null => d.mesh.kind = "mesh" /\ d.mesh.info = MeshOf[d.entity]
  /\ d.shader.kind = "shader" /\ (d.pipeline # Null => d.pipeline.kind = "pipeline")
  /\ d.instance.info = d.entity
  /\ \E i \in 1 .. Len(instances) : instances[i].object = d.instance /\ instances[i].last >= n

Recorded ==
  /\ recording => Working /\ pc # "stale"
  /\ pc \in {"model", "frame_done"} /\ ~recording => recorded = {}
  /\ recording \/ pc = "submit" => \A d \in recorded :
       Uses(d, frame_counter) /\ (failures = 0 => Null \notin {d.mesh, d.pipeline})

(* As long as every wait has waited, the frames in flight are the last ones
   submitted, one for each frame index whose fence is not signalled. *)
Current == IF pc = "stale" THEN frame_counter + 1 ELSE frame_counter
InFlight(f) ==
  /\ Working /\ ~fences[f.index] /\ \A g \in flight : g.index = f.index => g = f
  /\ \A d \in f.draws : \A n \in {f.number} : Uses(d, n)
  /\ f.number + frame_index - f.index + (IF f.index < frame_index THEN 0 ELSE FrameCount) >= Current
Paced == ~unwaited => \A f \in flight : InFlight(f)

FramesOK == Marked /\ Kept /\ Recorded /\ Paced
JInv == IInv /\ FramesOK
-----------------------------------------------------------------------------
(* The order in which gpu_create makes and gpu_destroy releases *)

(* A handle: its name and, of the handles of a frame, the frame index. *)
HandleNames ==
  {"gpu", "instance", "device", "surface", "swapchain", "frames", "view", "depth_image",
   "depth_memory", "depth_view", "render_pass", "framebuffer", "present_sema", "render_sema",
   "descriptor_pool", "cmd_pool", "cmd_block", "cmd_buffer", "fence", "binding", "attributes"}
Handles == HandleNames \X Nat
Named(names) == {names[j] : j \in 1 .. Len(names)}

(* What each handle of s is made from is in before or made earlier in s. *)
MadeAfter(s, before) ==
  \A j \in 1 .. Len(s) : \A p \in Parents(s[j]) : p \in before \/ \E i \in 1 .. j - 1 : s[i] = p

(* Nothing of s is released before what needs it. *)
ReleasedBefore(s) ==
  \A i, j \in 1 .. Len(s) : i < j => s[i] \notin Needs(s[j])

One(name) == <<name, 0>>
AllOf(names, n) == {<<h, i>> : h \in names, i \in 0 .. n - 1}

LEMMA OnceFacts ==
  ASSUME NEW names \in Seq(HandleNames)
  PROVE  /\ Once(names) \in Seq(Handles) /\ Len(Once(names)) = Len(names)
         /\ ToSet(Once(names)) = {<<n, 0>> : n \in Named(names)}
         /\ \A j \in 1 .. Len(names) : Once(names)[j] = <<names[j], 0>>
<1>1. DOMAIN names = 1 .. Len(names) /\ Len(names) \in Nat OBVIOUS
<1>2. \A j \in 1 .. Len(names) : <<names[j], 0>> \in Handles BY DEF Handles
<1>3. Once(names) \in [1 .. Len(names) -> Handles] BY <1>1, <1>2 DEF Once
<1>4. DOMAIN Once(names) = 1 .. Len(names) /\ \A j \in 1 .. Len(names) : Once(names)[j] = <<names[j], 0>>
  BY <1>1 DEF Once
<1>5. ToSet(Once(names)) = {<<n, 0>> : n \in Named(names)} BY <1>4 DEF ToSet, Named
<1> QED BY <1>1, <1>3, <1>4, <1>5, SeqDef

(* Handle k of the m handles of frame i is at position m * i + k of s, and
   nothing else is there. *)
Rowed(s, n, names, m) ==
  /\ \A j \in 1 .. n * m : \E i \in 0 .. n - 1, k \in 1 .. m : j = m * i + k /\ s[j] = <<names[k], i>>
  /\ \A i \in 0 .. n - 1, k \in 1 .. m : m * i + k \in 1 .. n * m /\ s[m * i + k] = <<names[k], i>>

LEMMA EachAt ==
  ASSUME NEW n \in Nat, NEW names \in Seq(HandleNames), NEW m, m \in {1, 2, 3, 5}, Len(names) = m
  PROVE  Rowed(Each(n, names), n, names, m)
<1>1. n * m \in Nat BY SMT
<1>2. ASSUME NEW j \in 1 .. n * m
      PROVE  /\ (j - 1) \div m \in 0 .. n - 1 /\ ((j - 1) % m) + 1 \in 1 .. m
             /\ j = m * ((j - 1) \div m) + ((j - 1) % m) + 1
  BY SMT
<1>3. ASSUME NEW i \in 0 .. n - 1, NEW k \in 1 .. m
      PROVE  /\ m * i + k \in 1 .. n * m
             /\ (m * i + k - 1) \div m = i /\ (m * i + k - 1) % m = k - 1
  BY SMT
<1>4. Each(n, names) = [j \in 1 .. n * m |-> <<names[((j - 1) % m) + 1], (j - 1) \div m>>]
  BY DEF Each
<1>5. ASSUME NEW j \in 1 .. n * m
      PROVE  \E i \in 0 .. n - 1, k \in 1 .. m :
               j = m * i + k /\ Each(n, names)[j] = <<names[k], i>>
  <2> DEFINE i == (j - 1) \div m
             k == ((j - 1) % m) + 1
  <2>1. i \in 0 .. n - 1 /\ k \in 1 .. m /\ j = m * i + k BY <1>2
  <2>2. Each(n, names)[j] = <<names[k], i>> BY <1>4
  <2> QED BY <2>1, <2>2
<1>6. ASSUME NEW i \in 0 .. n - 1, NEW k \in 1 .. m
      PROVE  m * i + k \in 1 .. n * m /\ Each(n, names)[m * i + k] = <<names[k], i>>
  <2>1. ((m * i + k - 1) % m) + 1 = k BY <1>3
  <2> QED BY SMTT(30), <1>3, <1>4, <2>1
<1> QED BY <1>5, <1>6 DEF Rowed

LEMMA EachFacts ==
  ASSUME NEW n \in Nat, NEW names \in Seq(HandleNames), Len(names) \in {1, 2, 3, 5}
  PROVE  /\ Each(n, names) \in Seq(Handles) /\ Len(Each(n, names)) = n * Len(names)
         /\ ToSet(Each(n, names)) = AllOf(Named(names), n)
         /\ Rowed(Each(n, names), n, names, Len(names))
<1> DEFINE m == Len(names)
<1>a. m \in {1, 2, 3, 5} /\ Len(names) = m OBVIOUS
<1> HIDE DEF m
<1>1. n * m \in Nat BY <1>a, SMT
<1>2. ASSUME NEW j \in 1 .. n * m
      PROVE  (j - 1) \div m \in 0 .. n - 1 /\ ((j - 1) % m) + 1 \in 1 .. m
  BY <1>a, SMT
<1>4. Each(n, names) = [j \in 1 .. n * m |-> <<names[((j - 1) % m) + 1], (j - 1) \div m>>]
  BY <1>a DEF Each
<1>5. Each(n, names) \in [1 .. n * m -> Handles]
  <2>1. ASSUME NEW j \in 1 .. n * m PROVE <<names[((j - 1) % m) + 1], (j - 1) \div m>> \in Handles
    <3>1. names[((j - 1) % m) + 1] \in HandleNames BY <1>2, <1>a, ElementOfSeq
    <3>2. (j - 1) \div m \in Nat BY <1>2
    <3> QED BY <3>1, <3>2 DEF Handles
  <2> QED BY <1>4, <2>1
<1>6. Each(n, names) \in Seq(Handles) /\ Len(Each(n, names)) = n * m BY <1>1, <1>5, SeqDef
<1>0. Rowed(Each(n, names), n, names, m) BY <1>a, EachAt
<1>9. ToSet(Each(n, names)) = {<<h, i>> : h \in Named(names), i \in 0 .. n - 1}
  <2>1. DOMAIN Each(n, names) = 1 .. n * m BY <1>4
  <2>2. ASSUME NEW j \in 1 .. n * m
        PROVE  Each(n, names)[j] \in {<<h, i>> : h \in Named(names), i \in 0 .. n - 1}
    <3>1. PICK i \in 0 .. n - 1, k \in 1 .. m : Each(n, names)[j] = <<names[k], i>> BY <1>0 DEF Rowed
    <3>2. names[k] \in Named(names) BY <1>a DEF Named
    <3> QED BY <3>1, <3>2
  <2>3. ASSUME NEW h \in Named(names), NEW i \in 0 .. n - 1
        PROVE  \E j \in 1 .. n * m : Each(n, names)[j] = <<h, i>>
    <3>1. PICK k \in 1 .. m : h = names[k] BY <1>a DEF Named
    <3> QED BY <1>0, <3>1 DEF Rowed
  <2>4. ToSet(Each(n, names)) = {Each(n, names)[j] : j \in 1 .. n * m} BY <2>1 DEF ToSet
  <2> DEFINE f == Each(n, names)
  <2>5. \A j \in 1 .. n * m : f[j] \in {<<h, i>> : h \in Named(names), i \in 0 .. n - 1} BY <2>2
  <2>6. \A h \in Named(names), i \in 0 .. n - 1 : \E j \in 1 .. n * m : f[j] = <<h, i>> BY <2>3
  <2>7. ToSet(f) = {f[j] : j \in 1 .. n * m} BY <2>4
  <2> HIDE DEF f
  <2>8. ASSUME NEW x PROVE x \in ToSet(f) <=> x \in {<<h, i>> : h \in Named(names), i \in 0 .. n - 1}
    <3>1. x \in ToSet(f) <=> \E j \in 1 .. n * m : x = f[j] BY <2>7
    <3>2. x \in {<<h, i>> : h \in Named(names), i \in 0 .. n - 1}
            <=> \E h \in Named(names), i \in 0 .. n - 1 : x = <<h, i>>
      OBVIOUS
    <3>3. ASSUME NEW j \in 1 .. n * m, x = f[j]
          PROVE  x \in {<<h, i>> : h \in Named(names), i \in 0 .. n - 1}
      BY <2>5, <3>3
    <3>4. ASSUME NEW h \in Named(names), NEW i \in 0 .. n - 1, x = <<h, i>>
          PROVE  x \in ToSet(f)
      <4>1. PICK j \in 1 .. n * m : f[j] = <<h, i>> BY <2>6
      <4> QED BY <3>1, <3>4, <4>1
    <3> QED BY <3>1, <3>2, <3>3, <3>4
  <2> QED BY <2>8 DEF f
<1> QED BY <1>0, <1>6, <1>9 DEF AllOf, m

LEMMA MadeAfterJoined ==
  ASSUME NEW s \in Seq(Handles), NEW t \in Seq(Handles), NEW before,
         MadeAfter(s, before), MadeAfter(t, before \cup ToSet(s))
  PROVE  /\ s \o t \in Seq(Handles) /\ MadeAfter(s \o t, before)
         /\ ToSet(s \o t) = ToSet(s) \cup ToSet(t)
<1>1. /\ s \o t \in Seq(Handles) /\ Len(s \o t) = Len(s) + Len(t)
      /\ Len(s) \in Nat /\ Len(t) \in Nat
      /\ \A i \in 1 .. Len(s) + Len(t) : (s \o t)[i] = IF i <= Len(s) THEN s[i] ELSE t[i - Len(s)]
  BY ConcatProperties
<1>2. ToSet(s) = {s[i] : i \in 1 .. Len(s)} /\ ToSet(t) = {t[i] : i \in 1 .. Len(t)}
      /\ ToSet(s \o t) = {(s \o t)[i] : i \in 1 .. Len(s) + Len(t)}
  <2>1. DOMAIN s = 1 .. Len(s) /\ DOMAIN t = 1 .. Len(t) BY LenProperties
  <2>2. DOMAIN (s \o t) = 1 .. Len(s) + Len(t) BY <1>1, LenProperties
  <2> QED BY <2>1, <2>2 DEF ToSet
<1>3. /\ \A i \in 1 .. Len(s) : i \in 1 .. Len(s) + Len(t) /\ (s \o t)[i] = s[i]
      /\ \A i \in 1 .. Len(t) : i + Len(s) \in 1 .. Len(s) + Len(t) /\ (s \o t)[i + Len(s)] = t[i]
      /\ \A i \in 1 .. Len(s) + Len(t) : i \in 1 .. Len(s) \/ i - Len(s) \in 1 .. Len(t)
  BY <1>1
<1>4. ToSet(s \o t) = ToSet(s) \cup ToSet(t)
  <2>1. ASSUME NEW x \in ToSet(s \o t) PROVE x \in ToSet(s) \cup ToSet(t)
    BY <1>1, <1>2, <1>3
  <2> QED BY <1>2, <1>3, <2>1
<1>5. ASSUME NEW j \in 1 .. Len(s \o t), NEW p \in Parents((s \o t)[j])
      PROVE  p \in before \/ \E i \in 1 .. j - 1 : (s \o t)[i] = p
  <2>1. CASE j <= Len(s)
    <3>1. j \in 1 .. Len(s) /\ (s \o t)[j] = s[j] BY <1>1, <1>5, <2>1
    <3>2. \A i \in 1 .. j - 1 : i \in 1 .. Len(s) BY <1>1, <3>1
    <3> QED BY <1>3, <1>5, <3>1, <3>2 DEF MadeAfter
  <2>2. CASE ~(j <= Len(s))
    <3> DEFINE n == j - Len(s)
    <3>1. n \in 1 .. Len(t) /\ (s \o t)[j] = t[n] BY <1>1, <1>5, <2>2
    <3>2. p \in before \/ p \in ToSet(s) \/ \E i \in 1 .. n - 1 : t[i] = p
      BY <1>5, <3>1 DEF MadeAfter
    <3>3. CASE p \in ToSet(s)
      <4>1. PICK i \in 1 .. Len(s) : s[i] = p BY <1>2, <3>3
      <4>2. i \in 1 .. j - 1 BY <1>1, <1>5, <2>2
      <4> QED BY <1>3, <4>1, <4>2
    <3>4. CASE \E i \in 1 .. n - 1 : t[i] = p
      <4>1. PICK i \in 1 .. n - 1 : t[i] = p BY <3>4
      <4>2. i \in 1 .. Len(t) /\ i + Len(s) \in 1 .. j - 1 BY <1>1, <1>5, <2>2, <3>1
      <4> QED BY <1>3, <4>1, <4>2
    <3> QED BY <3>2, <3>3, <3>4
  <2> QED BY <2>1, <2>2
<1>6. MadeAfter(s \o t, before) BY <1>5 DEF MadeAfter
<1> QED BY <1>1, <1>4, <1>6

LEMMA ReleasedBeforeJoined ==
  ASSUME NEW s \in Seq(Handles), NEW t \in Seq(Handles),
         ReleasedBefore(s), ReleasedBefore(t),
         \A a \in ToSet(s), b \in ToSet(t) : a \notin Needs(b)
  PROVE  /\ s \o t \in Seq(Handles) /\ ReleasedBefore(s \o t)
         /\ ToSet(s \o t) = ToSet(s) \cup ToSet(t)
<1>1. /\ s \o t \in Seq(Handles) /\ Len(s \o t) = Len(s) + Len(t)
      /\ Len(s) \in Nat /\ Len(t) \in Nat
      /\ \A i \in 1 .. Len(s) + Len(t) : (s \o t)[i] = IF i <= Len(s) THEN s[i] ELSE t[i - Len(s)]
  BY ConcatProperties
<1>2. ToSet(s) = {s[i] : i \in 1 .. Len(s)} /\ ToSet(t) = {t[i] : i \in 1 .. Len(t)}
      /\ ToSet(s \o t) = {(s \o t)[i] : i \in 1 .. Len(s) + Len(t)}
  <2>1. DOMAIN s = 1 .. Len(s) /\ DOMAIN t = 1 .. Len(t) BY LenProperties
  <2>2. DOMAIN (s \o t) = 1 .. Len(s) + Len(t) BY <1>1, LenProperties
  <2> QED BY <2>1, <2>2 DEF ToSet
<1>3. /\ \A i \in 1 .. Len(s) : i \in 1 .. Len(s) + Len(t) /\ (s \o t)[i] = s[i]
      /\ \A i \in 1 .. Len(t) : i + Len(s) \in 1 .. Len(s) + Len(t) /\ (s \o t)[i + Len(s)] = t[i]
  BY <1>1
<1>4. ToSet(s \o t) = ToSet(s) \cup ToSet(t)
  <2>1. ASSUME NEW x \in ToSet(s \o t) PROVE x \in ToSet(s) \cup ToSet(t)
    BY <1>1, <1>2, <1>3
  <2> QED BY <1>2, <1>3, <2>1
<1>5. ASSUME NEW i \in 1 .. Len(s \o t), NEW j \in 1 .. Len(s \o t), i < j
      PROVE  (s \o t)[i] \notin Needs((s \o t)[j])
  <2>1. CASE j <= Len(s)
    <3>1. i \in 1 .. Len(s) /\ j \in 1 .. Len(s) BY <1>1, <1>5, <2>1
    <3> QED BY <1>3, <1>5, <3>1 DEF ReleasedBefore
  <2>2. CASE i <= Len(s) /\ ~(j <= Len(s))
    <3>1. i \in 1 .. Len(s) /\ j - Len(s) \in 1 .. Len(t) /\ (s \o t)[j] = t[j - Len(s)]
      BY <1>1, <1>5, <2>2
    <3> QED BY <1>2, <1>3, <3>1
  <2>3. CASE ~(i <= Len(s))
    <3>1. /\ i - Len(s) \in 1 .. Len(t) /\ j - Len(s) \in 1 .. Len(t) /\ i - Len(s) < j - Len(s)
          /\ (s \o t)[i] = t[i - Len(s)] /\ (s \o t)[j] = t[j - Len(s)]
      BY <1>1, <1>5, <2>3
    <3> QED BY <3>1 DEF ReleasedBefore
  <2> QED BY <1>1, <1>5, <2>1, <2>2, <2>3
<1>6. ReleasedBefore(s \o t) BY <1>5 DEF ReleasedBefore
<1> QED BY <1>1, <1>4, <1>6

LEMMA ParentsOf ==
  ASSUME NEW i
  PROVE  /\ Parents(<<"binding", i>>) = {<<"gpu", 0>>} /\ Parents(<<"attributes", i>>) = {<<"gpu", 0>>}
         /\ Parents(<<"view", i>>) = {<<"device", 0>>, <<"swapchain", 0>>, <<"frames", 0>>}
         /\ Parents(<<"framebuffer", i>>) =
              {<<"device", 0>>, <<"frames", 0>>, <<"render_pass", 0>>, <<"depth_view", 0>>, <<"view", i>>}
         /\ Parents(<<"fence", i>>) = {<<"device", 0>>, <<"frames", 0>>}
         /\ Parents(<<"cmd_block", i>>) = {<<"frames", 0>>}
         /\ Parents(<<"cmd_buffer", i>>) = {<<"cmd_pool", 0>>, <<"cmd_block", i>>}
BY DEF Parents

LEMMA ParentsOnce ==
  /\ Parents(One("gpu")) = {}
  /\ Parents(One("instance")) = {One("gpu")} /\ Parents(One("frames")) = {One("gpu")}
  /\ Parents(One("surface")) = {One("instance")} /\ Parents(One("device")) = {One("instance")}
  /\ Parents(One("swapchain")) = {One("surface"), One("device")}
  /\ Parents(One("depth_image")) = {One("device")} /\ Parents(One("depth_memory")) = {One("device")}
  /\ Parents(One("depth_view")) = {One("device"), One("depth_image"), One("depth_memory")}
  /\ Parents(One("render_pass")) = {One("device")}
  /\ Parents(One("present_sema")) = {One("device")} /\ Parents(One("render_sema")) = {One("device")}
  /\ Parents(One("descriptor_pool")) = {One("device")} /\ Parents(One("cmd_pool")) = {One("device")}
BY DEF Parents, One

LEMMA NeedsFacts ==
  /\ \A h : Needs(h) \subseteq Parents(h)
  /\ \A h : h[1] # "framebuffer" => Needs(h) = Parents(h)
BY DEF Needs

LEMMA NeedsOf ==
  ASSUME NEW i
  PROVE  /\ Needs(<<"view", i>>) = {One("device"), One("swapchain"), One("frames")}
         /\ Needs(<<"framebuffer", i>>) = {One("device"), One("frames"), One("render_pass"), <<"view", i>>}
         /\ Needs(<<"fence", i>>) = {One("device"), One("frames")}
         /\ Needs(<<"cmd_block", i>>) = {One("frames")}
         /\ Needs(<<"cmd_buffer", i>>) = {One("cmd_pool"), <<"cmd_block", i>>}
<1>1. Needs(<<"framebuffer", i>>) = {One("device"), One("frames"), One("render_pass"), <<"view", i>>}
  <2>1. Parents(<<"framebuffer", i>>)
          = {One("device"), One("frames"), One("render_pass"), One("depth_view"), <<"view", i>>}
    BY ParentsOf DEF One
  <2>2. One("depth_view") \notin {One("device"), One("frames"), One("render_pass"), <<"view", i>>} BY DEF One
  <2>3. Needs(<<"framebuffer", i>>) = Parents(<<"framebuffer", i>>) \ {One("depth_view")} BY DEF Needs, One
  <2> QED BY <2>1, <2>2, <2>3
<1>2. \A n \in {"view", "fence", "cmd_block", "cmd_buffer"} : Needs(<<n, i>>) = Parents(<<n, i>>)
  BY DEF Needs
<1> QED BY <1>1, <1>2, ParentsOf DEF One

LEMMA NeedsOnce ==
  /\ Needs(One("gpu")) = {}
  /\ Needs(One("instance")) = {One("gpu")} /\ Needs(One("frames")) = {One("gpu")}
  /\ Needs(One("surface")) = {One("instance")} /\ Needs(One("device")) = {One("instance")}
  /\ Needs(One("swapchain")) = {One("surface"), One("device")}
  /\ Needs(One("depth_image")) = {One("device")} /\ Needs(One("depth_memory")) = {One("device")}
  /\ Needs(One("depth_view")) = {One("device"), One("depth_image"), One("depth_memory")}
  /\ Needs(One("render_pass")) = {One("device")}
  /\ Needs(One("present_sema")) = {One("device")} /\ Needs(One("render_sema")) = {One("device")}
  /\ Needs(One("descriptor_pool")) = {One("device")} /\ Needs(One("cmd_pool")) = {One("device")}
<1>1. \A n : n # "framebuffer" => Needs(One(n)) = Parents(One(n)) BY DEF Needs, One
<1> QED BY <1>1, ParentsOnce

(* Lists of names. *)
LEMMA Names ==
  ASSUME NEW s, NEW n \in Nat, NEW S, s \in [1 .. n -> S]
  PROVE  s \in Seq(S) /\ Len(s) = n /\ Named(s) = {s[i] : i \in 1 .. n}
<1>1. s \in Seq(S) BY SeqDef
<1>2. Len(s) = n BY <1>1, LenProperties
<1> QED BY <1>1, <1>2 DEF Named

LEMMA Names1 ==
  ASSUME NEW S, NEW a \in S
  PROVE  /\ <<a>> \in Seq(S) /\ Len(<<a>>) = 1
         /\ Named(<<a>>) = {a}
<1>1. <<a>> \in [1 .. 1 -> S] OBVIOUS
<1>2. {<<a>>[j] : j \in 1 .. 1} = {a} OBVIOUS
<1> QED BY <1>1, <1>2, Names

LEMMA Names2 ==
  ASSUME NEW S, NEW a \in S, NEW b \in S
  PROVE  /\ <<a, b>> \in Seq(S) /\ Len(<<a, b>>) = 2
         /\ Named(<<a, b>>) = {a, b}
<1>1. <<a, b>> \in [1 .. 2 -> S] OBVIOUS
<1>2. {<<a, b>>[j] : j \in 1 .. 2} = {a, b} OBVIOUS
<1> QED BY <1>1, <1>2, Names

LEMMA Names3 ==
  ASSUME NEW S, NEW a \in S, NEW b \in S, NEW c \in S
  PROVE  /\ <<a, b, c>> \in Seq(S) /\ Len(<<a, b, c>>) = 3
         /\ Named(<<a, b, c>>) = {a, b, c}
<1>1. <<a, b, c>> \in [1 .. 3 -> S] OBVIOUS
<1>2. {<<a, b, c>>[j] : j \in 1 .. 3} = {a, b, c} OBVIOUS
<1> QED BY <1>1, <1>2, Names

LEMMA Names4 ==
  ASSUME NEW S, NEW a \in S, NEW b \in S, NEW c \in S, NEW d \in S
  PROVE  /\ <<a, b, c, d>> \in Seq(S) /\ Len(<<a, b, c, d>>) = 4
         /\ Named(<<a, b, c, d>>) = {a, b, c, d}
<1>1. <<a, b, c, d>> \in [1 .. 4 -> S] OBVIOUS
<1>2. {<<a, b, c, d>>[j] : j \in 1 .. 4} = {a, b, c, d} OBVIOUS
<1> QED BY <1>1, <1>2, Names

LEMMA Names5 ==
  ASSUME NEW S, NEW a \in S, NEW b \in S, NEW c \in S, NEW d \in S, NEW e \in S
  PROVE  /\ <<a, b, c, d, e>> \in Seq(S) /\ Len(<<a, b, c, d, e>>) = 5
         /\ Named(<<a, b, c, d, e>>) = {a, b, c, d, e}
<1>1. <<a, b, c, d, e>> \in [1 .. 5 -> S] OBVIOUS
<1>2. {<<a, b, c, d, e>>[j] : j \in 1 .. 5} = {a, b, c, d, e} OBVIOUS
<1> QED BY <1>1, <1>2, Names

LEMMA MadeFrom ==
  ASSUME NEW s \in Seq(Handles), NEW before, \A h \in ToSet(s) : Parents(h) \subseteq before
  PROVE  MadeAfter(s, before)
<1>1. DOMAIN s = 1 .. Len(s) BY LenProperties
<1>2. \A j \in 1 .. Len(s) : s[j] \in ToSet(s) BY <1>1 DEF ToSet
<1> QED BY <1>2 DEF MadeAfter

LEMMA DeviceOrder ==
  /\ DeviceHandles \in Seq(Handles) /\ MadeAfter(DeviceHandles, {})
  /\ ToSet(DeviceHandles) = {One("gpu"), One("instance"), One("device")}
<1> DEFINE names == <<"gpu", "instance", "device">>
<1>1. {"gpu", "instance", "device"} \subseteq HandleNames BY DEF HandleNames
<1>2. names \in Seq(HandleNames) /\ Len(names) = 3 /\ Named(names) = {"gpu", "instance", "device"}
  BY <1>1, Names3
<1>3. /\ Once(names) \in Seq(Handles) /\ Len(Once(names)) = 3
      /\ ToSet(Once(names)) = {<<n, 0>> : n \in Named(names)}
      /\ \A j \in 1 .. 3 : Once(names)[j] = <<names[j], 0>>
  BY <1>2, OnceFacts
<1>4. ToSet(Once(names)) = {One("gpu"), One("instance"), One("device")} BY <1>2, <1>3 DEF One
<1>5. /\ Once(names)[1] = One("gpu") /\ Once(names)[2] = One("instance")
      /\ Once(names)[3] = One("device")
  BY <1>3 DEF One
<1>6. /\ Parents(One("gpu")) = {} /\ Parents(One("instance")) = {One("gpu")}
      /\ Parents(One("device")) = {One("instance")}
  BY ParentsOnce
<1> HIDE DEF names
<1>7. ASSUME NEW j \in 1 .. 3, NEW p \in Parents(Once(names)[j])
      PROVE  \E i \in 1 .. j - 1 : Once(names)[i] = p
  <2>1. j = 1 \/ j = 2 \/ j = 3 BY <1>7
  <2>2. CASE j = 1 BY <1>5, <1>6, <1>7, <2>2
  <2>3. CASE j = 2 BY <1>5, <1>6, <1>7, <2>3
  <2>4. CASE j = 3 BY <1>5, <1>6, <1>7, <2>4
  <2> QED BY <2>1, <2>2, <2>3, <2>4
<1>8. MadeAfter(Once(names), {}) BY <1>3, <1>7 DEF MadeAfter
<1> QED BY <1>3, <1>4, <1>8 DEF DeviceHandles, names

LEMMA SwapchainOrder ==
  ASSUME NEW before, {One("gpu"), One("instance"), One("device")} \subseteq before
  PROVE  /\ SwapchainHandles \in Seq(Handles) /\ MadeAfter(SwapchainHandles, before)
         /\ ToSet(SwapchainHandles) =
              {One("surface"), One("swapchain"), One("frames")} \cup AllOf({"view"}, FrameCount)
<1> DEFINE names == <<"surface", "swapchain", "frames">>
<1>1. {"surface", "swapchain", "frames", "view"} \subseteq HandleNames BY DEF HandleNames
<1>2. names \in Seq(HandleNames) /\ Len(names) = 3 /\ Named(names) = {"surface", "swapchain", "frames"}
  BY <1>1, Names3
<1>3. /\ Once(names) \in Seq(Handles) /\ Len(Once(names)) = 3
      /\ ToSet(Once(names)) = {<<n, 0>> : n \in Named(names)}
      /\ \A j \in 1 .. 3 : Once(names)[j] = <<names[j], 0>>
  BY <1>2, OnceFacts
<1>4. ToSet(Once(names)) = {One("surface"), One("swapchain"), One("frames")} BY <1>2, <1>3 DEF One
<1>5. /\ Once(names)[1] = One("surface") /\ Once(names)[2] = One("swapchain")
      /\ Once(names)[3] = One("frames")
  BY <1>3 DEF One
<1>6. /\ Parents(One("surface")) = {One("instance")} /\ Parents(One("frames")) = {One("gpu")}
      /\ Parents(One("swapchain")) = {One("surface"), One("device")}
  BY ParentsOnce
<1> HIDE DEF names
<1>7. ASSUME NEW j \in 1 .. 3, NEW p \in Parents(Once(names)[j])
      PROVE  p \in before \/ \E i \in 1 .. j - 1 : Once(names)[i] = p
  <2>1. j = 1 \/ j = 2 \/ j = 3 BY <1>7
  <2>2. CASE j = 1 BY <1>5, <1>6, <1>7, <2>2
  <2>3. CASE j = 2 BY <1>5, <1>6, <1>7, <2>3
  <2>4. CASE j = 3 BY <1>5, <1>6, <1>7, <2>4
  <2> QED BY <2>1, <2>2, <2>3, <2>4
<1>8. MadeAfter(Once(names), before) BY <1>3, <1>7 DEF MadeAfter
<1>9. /\ Each(FrameCount, <<"view">>) \in Seq(Handles)
      /\ ToSet(Each(FrameCount, <<"view">>)) = AllOf({"view"}, FrameCount)
  <2>1. <<"view">> \in Seq(HandleNames) /\ Len(<<"view">>) = 1 /\ Named(<<"view">>) = {"view"}
    BY <1>1, Names1
  <2>2. FrameCount \in Nat BY GpuAssumption
  <2>3. Len(<<"view">>) \in {1, 2, 3, 5} BY <2>1
  <2> QED BY <2>1, <2>2, <2>3, EachFacts
<1>10. MadeAfter(Each(FrameCount, <<"view">>), before \cup ToSet(Once(names)))
  <2>1. ASSUME NEW h \in AllOf({"view"}, FrameCount)
        PROVE  Parents(h) \subseteq before \cup ToSet(Once(names))
    <3>1. PICK i : h = <<"view", i>> BY DEF AllOf
    <3>2. Parents(h) = {One("device"), One("swapchain"), One("frames")} BY <3>1, ParentsOf DEF One
    <3> QED BY <1>4, <3>2
  <2> QED BY <1>9, <2>1, MadeFrom
<1>11. SwapchainHandles = Once(names) \o Each(FrameCount, <<"view">>) BY DEF SwapchainHandles, names
<1> QED BY <1>3, <1>4, <1>8, <1>9, <1>10, <1>11, MadeAfterJoined
LEMMA DepthOrder ==
  ASSUME NEW before, One("device") \in before
  PROVE  /\ DepthHandles \in Seq(Handles) /\ MadeAfter(DepthHandles, before)
         /\ ToSet(DepthHandles) = {One("depth_image"), One("depth_memory"), One("depth_view")}
<1> DEFINE names == <<"depth_image", "depth_memory", "depth_view">>
<1>1. {"depth_image", "depth_memory", "depth_view"} \subseteq HandleNames BY DEF HandleNames
<1>2. names \in Seq(HandleNames) /\ Len(names) = 3 /\ Named(names) = {"depth_image", "depth_memory", "depth_view"}
  BY <1>1, Names3
<1>3. /\ Once(names) \in Seq(Handles) /\ Len(Once(names)) = 3
      /\ ToSet(Once(names)) = {<<n, 0>> : n \in Named(names)}
      /\ \A j \in 1 .. 3 : Once(names)[j] = <<names[j], 0>>
  BY <1>2, OnceFacts
<1>4. ToSet(Once(names)) = {One("depth_image"), One("depth_memory"), One("depth_view")} BY <1>2, <1>3 DEF One
<1>5. /\ Once(names)[1] = One("depth_image") /\ Once(names)[2] = One("depth_memory")
      /\ Once(names)[3] = One("depth_view")
  BY <1>3 DEF One
<1>6. /\ Parents(One("depth_image")) = {One("device")} /\ Parents(One("depth_memory")) = {One("device")}
      /\ Parents(One("depth_view")) = {One("device"), One("depth_image"), One("depth_memory")}
  BY ParentsOnce
<1> HIDE DEF names
<1>7. ASSUME NEW j \in 1 .. 3, NEW p \in Parents(Once(names)[j])
      PROVE  p \in before \/ \E i \in 1 .. j - 1 : Once(names)[i] = p
  <2>1. j = 1 \/ j = 2 \/ j = 3 BY <1>7
  <2>2. CASE j = 1 BY <1>5, <1>6, <1>7, <2>2
  <2>3. CASE j = 2 BY <1>5, <1>6, <1>7, <2>3
  <2>4. CASE j = 3 BY <1>5, <1>6, <1>7, <2>4
  <2> QED BY <2>1, <2>2, <2>3, <2>4
<1>8. MadeAfter(Once(names), before) BY <1>3, <1>7 DEF MadeAfter
<1> QED BY <1>3, <1>4, <1>8 DEF DepthHandles, names

LEMMA PassOrder ==
  ASSUME NEW before, {One("device"), One("frames"), One("depth_view")} \cup AllOf({"view"}, FrameCount) \subseteq before
  PROVE  /\ PassHandles \in Seq(Handles) /\ MadeAfter(PassHandles, before)
         /\ ToSet(PassHandles) = {One("render_pass")} \cup AllOf({"framebuffer"}, FrameCount)
<1> DEFINE first == <<"render_pass">>
           rest == <<"framebuffer">>
<1>1. {"render_pass", "framebuffer"} \subseteq HandleNames BY DEF HandleNames
<1>2. /\ first \in Seq(HandleNames) /\ Named(first) = {"render_pass"}
      /\ rest \in Seq(HandleNames) /\ Named(rest) = {"framebuffer"} /\ Len(rest) \in {1, 2, 3, 5}
  BY <1>1, Names1
<1> HIDE DEF first, rest
<1>3. Once(first) \in Seq(Handles) /\ ToSet(Once(first)) = {One("render_pass")}
  BY <1>2, OnceFacts DEF One
<1>4. FrameCount \in Nat BY GpuAssumption
<1>5. /\ Each(FrameCount, rest) \in Seq(Handles)
      /\ ToSet(Each(FrameCount, rest)) = AllOf({"framebuffer"}, FrameCount)
  BY <1>2, <1>4, EachFacts
<1>6. Parents(One("render_pass")) = {One("device")} BY ParentsOnce
<1>7. ASSUME NEW h \in AllOf({"framebuffer"}, FrameCount)
      PROVE  Parents(h) \subseteq before \cup ToSet(Once(first))
  <2>1. PICK i \in 0 .. FrameCount - 1 : h = <<"framebuffer", i>> BY DEF AllOf
  <2>2. Parents(h) = {One("device"), One("frames"), One("render_pass"), One("depth_view"), <<"view", i>>}
    BY <2>1, ParentsOf DEF One
  <2>3. <<"view", i>> \in AllOf({"view"}, FrameCount) BY DEF AllOf
  <2> QED BY <1>3, <2>2, <2>3
<1>8. MadeAfter(Once(first), before) BY <1>3, <1>6, MadeFrom
<1>9. MadeAfter(Each(FrameCount, rest), before \cup ToSet(Once(first))) BY <1>5, <1>7, MadeFrom
<1>10. PassHandles = Once(first) \o Each(FrameCount, rest) BY DEF PassHandles, first, rest
<1> QED BY <1>3, <1>5, <1>8, <1>9, <1>10, MadeAfterJoined

LEMMA PoolOrder ==
  ASSUME NEW before, One("device") \in before
  PROVE  /\ PoolHandles \in Seq(Handles) /\ MadeAfter(PoolHandles, before)
         /\ ToSet(PoolHandles) = {One("present_sema"), One("render_sema"), One("descriptor_pool"), One("cmd_pool")}
<1> DEFINE names == <<"present_sema", "render_sema", "descriptor_pool", "cmd_pool">>
<1>1. {"present_sema", "render_sema", "descriptor_pool", "cmd_pool"} \subseteq HandleNames BY DEF HandleNames
<1>2. /\ names \in Seq(HandleNames)
      /\ Named(names) = {"present_sema", "render_sema", "descriptor_pool", "cmd_pool"}
  BY <1>1, Names4
<1> HIDE DEF names
<1> DEFINE set == {One("present_sema"), One("render_sema"), One("descriptor_pool"), One("cmd_pool")}
<1>3. Once(names) \in Seq(Handles) /\ ToSet(Once(names)) = set
  BY <1>2, OnceFacts DEF One
<1>4. \A h \in set : Parents(h) = {One("device")}
  BY ParentsOnce
<1> HIDE DEF set
<1>5. MadeAfter(Once(names), before) BY <1>3, <1>4, MadeFrom
<1> QED BY <1>3, <1>5 DEF PoolHandles, names, set

LEMMA FrameOrder ==
  ASSUME NEW before, {One("device"), One("frames"), One("cmd_pool")} \subseteq before
  PROVE  /\ FrameHandles \in Seq(Handles) /\ MadeAfter(FrameHandles, before)
         /\ ToSet(FrameHandles) = AllOf({"cmd_block", "cmd_buffer", "fence"}, FrameCount)
<1> DEFINE names == <<"cmd_block", "cmd_buffer", "fence">>
           s == Each(FrameCount, names)
<1>1. {"cmd_block", "cmd_buffer", "fence"} \subseteq HandleNames BY DEF HandleNames
<1>2. /\ names \in Seq(HandleNames) /\ Len(names) = 3
      /\ Named(names) = {"cmd_block", "cmd_buffer", "fence"}
  BY <1>1, Names3
<1>3. FrameCount \in Nat BY GpuAssumption
<1>a. names[1] = "cmd_block" /\ names[2] = "cmd_buffer" /\ names[3] = "fence" OBVIOUS
<1> HIDE DEF names
<1>4. /\ s \in Seq(Handles) /\ Len(s) = FrameCount * 3 /\ Rowed(s, FrameCount, names, 3)
      /\ ToSet(s) = AllOf({"cmd_block", "cmd_buffer", "fence"}, FrameCount)
  <2>1. Len(names) \in {1, 2, 3, 5} BY <1>2
  <2> QED BY <1>2, <1>3, <2>1, EachFacts
<1> HIDE DEF s
<1>5. ASSUME NEW j \in 1 .. FrameCount * 3, NEW p \in Parents(s[j])
      PROVE  p \in before \/ \E i \in 1 .. j - 1 : s[i] = p
  <2>1. PICK i \in 0 .. FrameCount - 1, k \in 1 .. 3 : j = 3 * i + k /\ s[j] = <<names[k], i>>
    BY <1>4 DEF Rowed
  <2>2. k = 1 \/ k = 2 \/ k = 3 BY <2>1
  <2>3. CASE k = 1
    <3>1. s[j] = <<"cmd_block", i>> BY <1>a, <2>1, <2>3
    <3>2. Parents(s[j]) = {One("frames")} BY <3>1, ParentsOf DEF One
    <3> QED BY <1>5, <3>2
  <2>4. CASE k = 2
    <3>1. s[j] = <<"cmd_buffer", i>> BY <1>a, <2>1, <2>4
    <3>2. Parents(s[j]) = {One("cmd_pool"), <<"cmd_block", i>>} BY <3>1, ParentsOf DEF One
    <3>3. s[3 * i + 1] = <<"cmd_block", i>>
      <4>1. \A q \in 1 .. 3 : s[3 * i + q] = <<names[q], i>> BY <1>4, <2>1 DEF Rowed
      <4> QED BY <1>a, <4>1
    <3>4. 3 * i + 1 \in 1 .. j - 1 BY <2>1, <2>4
    <3> QED BY <1>5, <3>2, <3>3, <3>4
  <2>5. CASE k = 3
    <3>1. s[j] = <<"fence", i>> BY <1>a, <2>1, <2>5
    <3>2. Parents(s[j]) = {One("device"), One("frames")} BY <3>1, ParentsOf DEF One
    <3> QED BY <1>5, <3>2
  <2> QED BY <2>2, <2>3, <2>4, <2>5
<1>6. MadeAfter(s, before) BY <1>4, <1>5 DEF MadeAfter
<1>7. FrameHandles = s BY DEF FrameHandles, s, names
<1> QED BY <1>4, <1>6, <1>7

LEMMA LayoutFacts ==
  /\ LayoutHandles \in Seq(Handles)
  /\ ToSet(LayoutHandles) = AllOf({"binding", "attributes"}, 2)
  /\ \A h \in ToSet(LayoutHandles) : Parents(h) = {One("gpu")} /\ Needs(h) = {One("gpu")}
<1> DEFINE names == <<"binding", "attributes">>
<1>1. {"binding", "attributes"} \subseteq HandleNames BY DEF HandleNames
<1>2. /\ names \in Seq(HandleNames) /\ Len(names) \in {1, 2, 3, 5} /\ Named(names) = {"binding", "attributes"}
  BY <1>1, Names2
<1> HIDE DEF names
<1>3. Each(2, names) \in Seq(Handles) /\ ToSet(Each(2, names)) = AllOf({"binding", "attributes"}, 2)
  BY <1>2, EachFacts
<1>4. ASSUME NEW h \in AllOf({"binding", "attributes"}, 2)
      PROVE  Parents(h) = {One("gpu")} /\ Needs(h) = {One("gpu")}
  <2>1. PICK i, n : n \in {"binding", "attributes"} /\ h = <<n, i>> BY DEF AllOf
  <2>2. Parents(h) = {One("gpu")} BY <2>1, ParentsOf DEF One
  <2>3. Needs(h) = Parents(h) BY <2>1 DEF Needs
  <2> QED BY <2>2, <2>3
<1> QED BY <1>3, <1>4 DEF LayoutHandles, names
AllHandles ==
  {One("gpu"), One("instance"), One("device"), One("surface"), One("swapchain"), One("frames"),
   One("depth_image"), One("depth_memory"), One("depth_view"), One("render_pass"),
   One("present_sema"), One("render_sema"), One("descriptor_pool"), One("cmd_pool")}
  \cup AllOf({"view", "framebuffer", "cmd_block", "cmd_buffer", "fence"}, FrameCount)
  \cup AllOf({"binding", "attributes"}, 2)

(* gpu_create makes everything after what it is made from. *)
LEMMA Creation ==
  /\ CreationOrder \in Seq(Handles) /\ MadeAfter(CreationOrder, {})
  /\ ToSet(CreationOrder) = AllHandles
<1> DEFINE s1 == DeviceHandles
           s2 == s1 \o SwapchainHandles
           s3 == s2 \o DepthHandles
           s4 == s3 \o PassHandles
           s5 == s4 \o PoolHandles
           s6 == s5 \o FrameHandles
           s7 == s6 \o LayoutHandles
           Done(s, set) == s \in Seq(Handles) /\ MadeAfter(s, {}) /\ ToSet(s) = set
           b1 == {One("gpu"), One("instance"), One("device")}
           b2 == b1 \cup ({One("surface"), One("swapchain"), One("frames")} \cup AllOf({"view"}, FrameCount))
           b3 == b2 \cup {One("depth_image"), One("depth_memory"), One("depth_view")}
           b4 == b3 \cup ({One("render_pass")} \cup AllOf({"framebuffer"}, FrameCount))
           b5 == b4 \cup {One("present_sema"), One("render_sema"), One("descriptor_pool"), One("cmd_pool")}
           b6 == b5 \cup AllOf({"cmd_block", "cmd_buffer", "fence"}, FrameCount)
           b7 == b6 \cup AllOf({"binding", "attributes"}, 2)
<1>0. ASSUME NEW s, NEW t, NEW set, NEW all,
             Done(s, set), t \in Seq(Handles), MadeAfter(t, set), ToSet(t) = all
      PROVE  Done(s \o t, set \cup all)
  <2>1. {} \cup ToSet(s) = set BY <1>0
  <2> QED BY <1>0, <2>1, MadeAfterJoined
<1>1. Done(s1, b1) BY DeviceOrder
<1>2. Done(s2, b2)
  <2>1. b1 \subseteq b1 OBVIOUS
  <2> HIDE DEF s1, Done
  <2> QED BY <1>0, <1>1, <2>1, SwapchainOrder
<1>3. Done(s3, b3)
  <2>1. One("device") \in b2 OBVIOUS
  <2> HIDE DEF s2, b2, Done
  <2> QED BY <1>0, <1>2, <2>1, DepthOrder
<1>4. Done(s4, b4)
  <2>1. {One("device"), One("frames"), One("depth_view")} \cup AllOf({"view"}, FrameCount) \subseteq b3 OBVIOUS
  <2> HIDE DEF s3, b3, Done
  <2> QED BY <1>0, <1>3, <2>1, PassOrder
<1>5. Done(s5, b5)
  <2>1. One("device") \in b4 OBVIOUS
  <2> HIDE DEF s4, b4, Done
  <2> QED BY <1>0, <1>4, <2>1, PoolOrder
<1>6. Done(s6, b6)
  <2>1. {One("device"), One("frames"), One("cmd_pool")} \subseteq b5 OBVIOUS
  <2> HIDE DEF s5, b5, Done
  <2> QED BY <1>0, <1>5, <2>1, FrameOrder
<1>7. Done(s7, b7)
  <2>1. One("gpu") \in b6 OBVIOUS
  <2>2. MadeAfter(LayoutHandles, b6) BY <2>1, LayoutFacts, MadeFrom
  <2> HIDE DEF s6, b6, Done
  <2> QED BY <1>0, <1>6, <2>2, LayoutFacts
<1>8. s7 = CreationOrder BY DEF CreationOrder
<1>9. b7 = AllHandles BY DEF AllHandles, AllOf
<1> QED BY <1>7, <1>8, <1>9

LEMMA ReleasedAny ==
  ASSUME NEW s \in Seq(Handles), \A a, b \in ToSet(s) : a \notin Needs(b)
  PROVE  ReleasedBefore(s)
<1>1. DOMAIN s = 1 .. Len(s) BY LenProperties
<1>2. \A j \in 1 .. Len(s) : s[j] \in ToSet(s) BY <1>1 DEF ToSet
<1> QED BY <1>2 DEF ReleasedBefore

FirstReleased == <<"render_sema", "present_sema", "depth_view", "depth_image", "depth_memory">>
FrameReleased == <<"fence", "cmd_buffer", "cmd_block", "framebuffer", "view">>
LastReleased == <<"frames", "descriptor_pool", "cmd_pool", "render_pass", "swapchain", "surface",
                  "device", "instance", "gpu">>

LEMMA FirstRelease ==
  /\ Once(FirstReleased) \in Seq(Handles) /\ ReleasedBefore(Once(FirstReleased))
  /\ ToSet(Once(FirstReleased)) =
       {One("render_sema"), One("present_sema"), One("depth_view"), One("depth_image"), One("depth_memory")}
<1> DEFINE s == Once(FirstReleased)
           set == {"render_sema", "present_sema", "depth_view", "depth_image", "depth_memory"}
<1>1. set \subseteq HandleNames BY DEF HandleNames
<1>2. FirstReleased \in Seq(HandleNames) /\ Len(FirstReleased) = 5 /\ Named(FirstReleased) = set
  BY <1>1, Names5 DEF FirstReleased
<1>3. /\ s \in Seq(Handles) /\ Len(s) = 5 /\ ToSet(s) = {<<n, 0>> : n \in set}
      /\ \A j \in 1 .. 5 : s[j] = <<FirstReleased[j], 0>>
  BY <1>2, OnceFacts
<1> HIDE DEF s
<1>4. /\ s[1] = One("render_sema") /\ s[2] = One("present_sema") /\ s[3] = One("depth_view")
      /\ s[4] = One("depth_image") /\ s[5] = One("depth_memory")
  BY <1>3 DEF FirstReleased, One
<1>5. /\ Needs(One("render_sema")) = {One("device")} /\ Needs(One("present_sema")) = {One("device")}
      /\ Needs(One("depth_view")) = {One("device"), One("depth_image"), One("depth_memory")}
      /\ Needs(One("depth_image")) = {One("device")} /\ Needs(One("depth_memory")) = {One("device")}
  BY NeedsOnce
<1>6. ASSUME NEW i \in 1 .. 5, NEW j \in 1 .. 5, i < j PROVE s[i] \notin Needs(s[j])
  <2>1. i \in {1, 2, 3, 4} /\ j \in {2, 3, 4, 5} BY <1>6
  <2>2. s[i] # One("device") BY <1>4, <2>1 DEF One
  <2>3. CASE j # 3
    <3>1. Needs(s[j]) = {One("device")} BY <1>4, <1>5, <2>1, <2>3
    <3> QED BY <2>2, <3>1
  <2>4. CASE j = 3
    <3>1. i \in {1, 2} BY <1>6, <2>4
    <3>2. s[i] # One("depth_image") /\ s[i] # One("depth_memory") BY <1>4, <3>1 DEF One
    <3> QED BY <1>4, <1>5, <2>2, <2>4, <3>2
  <2> QED BY <2>3, <2>4
<1>7. ReleasedBefore(s) BY <1>3, <1>6 DEF ReleasedBefore
<1>8. ToSet(s) = {One("render_sema"), One("present_sema"), One("depth_view"), One("depth_image"),
                  One("depth_memory")}
  BY <1>3 DEF One
<1> QED BY <1>3, <1>7, <1>8 DEF s

LEMMA FrameRelease ==
  /\ Each(FrameCount, FrameReleased) \in Seq(Handles)
  /\ ReleasedBefore(Each(FrameCount, FrameReleased))
  /\ ToSet(Each(FrameCount, FrameReleased)) =
       AllOf({"fence", "cmd_buffer", "cmd_block", "framebuffer", "view"}, FrameCount)
<1> DEFINE s == Each(FrameCount, FrameReleased)
           set == {"fence", "cmd_buffer", "cmd_block", "framebuffer", "view"}
<1>1. set \subseteq HandleNames BY DEF HandleNames
<1>2. FrameReleased \in Seq(HandleNames) /\ Len(FrameReleased) = 5 /\ Named(FrameReleased) = set
  BY <1>1, Names5 DEF FrameReleased
<1>3. FrameCount \in Nat BY GpuAssumption
<1>4. /\ FrameReleased[1] = "fence" /\ FrameReleased[2] = "cmd_buffer" /\ FrameReleased[3] = "cmd_block"
      /\ FrameReleased[4] = "framebuffer" /\ FrameReleased[5] = "view"
  BY DEF FrameReleased
<1>5. /\ s \in Seq(Handles) /\ Len(s) = FrameCount * 5 /\ Rowed(s, FrameCount, FrameReleased, 5)
      /\ ToSet(s) = AllOf(set, FrameCount)
  <2>1. Len(FrameReleased) \in {1, 2, 3, 5} BY <1>2
  <2> QED BY <1>2, <1>3, <2>1, EachFacts
<1> HIDE DEF s
<1>6. ASSUME NEW i \in 1 .. FrameCount * 5, NEW j \in 1 .. FrameCount * 5, i < j, s[i] \in Needs(s[j])
      PROVE  FALSE
  <2>1. PICK x \in 0 .. FrameCount - 1, k \in 1 .. 5 : i = 5 * x + k /\ s[i] = <<FrameReleased[k], x>>
    BY <1>5 DEF Rowed
  <2>2. PICK y \in 0 .. FrameCount - 1, n \in 1 .. 5 : j = 5 * y + n /\ s[j] = <<FrameReleased[n], y>>
    BY <1>5 DEF Rowed
  <2>3. n \in {1, 2, 3, 4, 5} /\ k \in {1, 2, 3, 4, 5} BY <2>1, <2>2
  <2>4. FrameReleased[k] \in set BY <1>4, <2>3
  <2>5. n \notin {2, 4} => Needs(s[j]) \subseteq {One("device"), One("frames"), One("swapchain")}
    <3>1. \/ n \in {2, 4}
          \/ s[j] \in {<<"fence", y>>, <<"cmd_block", y>>, <<"view", y>>}
      BY <1>4, <2>2, <2>3
    <3>2. /\ Needs(<<"fence", y>>) = {One("device"), One("frames")}
          /\ Needs(<<"cmd_block", y>>) = {One("frames")}
          /\ Needs(<<"view", y>>) = {One("device"), One("swapchain"), One("frames")}
      BY NeedsOf DEF One
    <3> QED BY <3>1, <3>2
  <2>a. s[i] \notin {One("device"), One("frames"), One("swapchain"), One("render_pass")} BY <2>1, <2>4 DEF One
  <2>b. n # 4
    <3>1. SUFFICES ASSUME n = 4 PROVE FALSE OBVIOUS
    <3>2. s[j] = <<"framebuffer", y>> BY <1>4, <2>2, <3>1
    <3>3. Needs(s[j]) = {One("device"), One("frames"), One("render_pass"), <<"view", y>>} BY <3>2, NeedsOf
    <3>4. s[i] = <<"view", y>> BY <1>6, <2>a, <3>3
    <3>5. FrameReleased[k] = "view" /\ x = y BY <2>1, <3>4
    <3>6. k = 5 BY <1>4, <2>3, <3>5
    <3> QED BY <1>6, <2>1, <2>2, <3>1, <3>5, <3>6
  <2>6. n = 2 BY <1>6, <2>5, <2>a, <2>b
  <2>7. Needs(s[j]) = {One("cmd_pool"), <<"cmd_block", y>>}
    <3>1. s[j] = <<"cmd_buffer", y>> BY <1>4, <2>2, <2>6
    <3>2. Needs(<<"cmd_buffer", y>>) = {One("cmd_pool"), <<"cmd_block", y>>} BY NeedsOf DEF One
    <3> QED BY <3>1, <3>2
  <2>8. s[i] # One("cmd_pool") BY <2>1, <2>4 DEF One
  <2>9. s[i] = <<"cmd_block", y>> BY <1>6, <2>7, <2>8
  <2>10. FrameReleased[k] = "cmd_block" /\ x = y BY <2>1, <2>9
  <2>11. k = 3 BY <1>4, <2>3, <2>10
  <2> QED BY <1>6, <2>1, <2>2, <2>6, <2>10, <2>11
<1>7. ReleasedBefore(s) BY <1>5, <1>6 DEF ReleasedBefore
<1> QED BY <1>5, <1>7 DEF s

LEMMA LastRelease ==
  /\ Once(LastReleased) \in Seq(Handles) /\ ReleasedBefore(Once(LastReleased))
  /\ ToSet(Once(LastReleased)) =
       {One("frames"), One("descriptor_pool"), One("cmd_pool"), One("render_pass"), One("swapchain"),
        One("surface"), One("device"), One("instance"), One("gpu")}
<1> DEFINE s == Once(LastReleased)
           set == {"frames", "descriptor_pool", "cmd_pool", "render_pass", "swapchain", "surface",
                   "device", "instance", "gpu"}
<1>1. set \subseteq HandleNames BY DEF HandleNames
<1>2. LastReleased \in Seq(HandleNames) /\ Len(LastReleased) = 9 /\ Named(LastReleased) = set
  <2>1. LastReleased \in [1 .. 9 -> set] BY DEF LastReleased
  <2>2. LastReleased \in [1 .. 9 -> HandleNames] BY <1>1, <2>1
  <2>3. {LastReleased[j] : j \in 1 .. 9} = set BY DEF LastReleased
  <2> QED BY <2>2, <2>3, Names
<1>3. /\ s \in Seq(Handles) /\ Len(s) = 9 /\ ToSet(s) = {<<n, 0>> : n \in set}
      /\ \A j \in 1 .. 9 : s[j] = <<LastReleased[j], 0>>
  BY <1>2, OnceFacts
<1> HIDE DEF s
<1>4. /\ s[1] = One("frames") /\ s[2] = One("descriptor_pool") /\ s[3] = One("cmd_pool")
      /\ s[4] = One("render_pass") /\ s[5] = One("swapchain") /\ s[6] = One("surface")
      /\ s[7] = One("device") /\ s[8] = One("instance") /\ s[9] = One("gpu")
  BY <1>3 DEF LastReleased, One
<1>5. /\ Needs(One("frames")) = {One("gpu")} /\ Needs(One("descriptor_pool")) = {One("device")}
      /\ Needs(One("cmd_pool")) = {One("device")} /\ Needs(One("render_pass")) = {One("device")}
      /\ Needs(One("swapchain")) = {One("surface"), One("device")}
      /\ Needs(One("surface")) = {One("instance")} /\ Needs(One("device")) = {One("instance")}
      /\ Needs(One("instance")) = {One("gpu")} /\ Needs(One("gpu")) = {}
  BY NeedsOnce
<1>6. ASSUME NEW j \in 1 .. 9, NEW i \in 1 .. j - 1 PROVE s[i] \notin Needs(s[j])
  <2>1. j \in {1, 2, 3, 4, 5, 6, 7, 8, 9} /\ i \in {1, 2, 3, 4, 5, 6, 7, 8} BY <1>6
  <2>2. CASE j \in {1, 8, 9}
    <3>1. Needs(s[j]) \subseteq {One("gpu")} BY <1>4, <1>5, <2>2
    <3>2. s[i] # One("gpu") BY <1>4, <2>1 DEF One
    <3> QED BY <3>1, <3>2
  <2>3. CASE j \in {2, 3, 4}
    <3>1. Needs(s[j]) = {One("device")} BY <1>4, <1>5, <2>3
    <3>2. i \in {1, 2, 3} BY <2>3
    <3>3. s[i] # One("device") BY <1>4, <3>2 DEF One
    <3> QED BY <3>1, <3>3
  <2>4. CASE j = 5
    <3>1. Needs(s[j]) = {One("surface"), One("device")} BY <1>4, <1>5, <2>4
    <3>2. i \in {1, 2, 3, 4} BY <2>4
    <3>3. s[i] # One("device") /\ s[i] # One("surface") BY <1>4, <3>2 DEF One
    <3> QED BY <3>1, <3>3
  <2>5. CASE j \in {6, 7}
    <3>1. Needs(s[j]) = {One("instance")} BY <1>4, <1>5, <2>5
    <3>2. i \in {1, 2, 3, 4, 5, 6} BY <2>5
    <3>3. s[i] # One("instance") BY <1>4, <3>2 DEF One
    <3> QED BY <3>1, <3>3
  <2> QED BY <2>1, <2>2, <2>3, <2>4, <2>5
<1>7. ReleasedBefore(s)
  <2>1. ASSUME NEW i \in 1 .. 9, NEW j \in 1 .. 9, i < j PROVE s[i] \notin Needs(s[j])
    <3>1. i \in 1 .. j - 1 BY <2>1
    <3> QED BY <1>6, <3>1
  <2> QED BY <1>3, <2>1 DEF ReleasedBefore
<1>8. ToSet(s) = {One("frames"), One("descriptor_pool"), One("cmd_pool"), One("render_pass"),
                  One("swapchain"), One("surface"), One("device"), One("instance"), One("gpu")}
  BY <1>3 DEF One
<1> QED BY <1>3, <1>7, <1>8 DEF s

(* gpu_destroy releases nothing before what is made from it, and everything. *)
LEMMA Destruction ==
  /\ DestructionOrder \in Seq(Handles) /\ ReleasedBefore(DestructionOrder)
  /\ ToSet(DestructionOrder) = AllHandles
<1> DEFINE f == Once(FirstReleased)
           e == Each(FrameCount, FrameReleased)
           l == Once(LastReleased)
           s1 == LayoutHandles \o f
           s2 == s1 \o e
           s3 == s2 \o l
           layouts == AllOf({"binding", "attributes"}, 2)
           firsts == {One("render_sema"), One("present_sema"), One("depth_view"), One("depth_image"),
                      One("depth_memory")}
           eachs == AllOf({"fence", "cmd_buffer", "cmd_block", "framebuffer", "view"}, FrameCount)
           lasts == {One("frames"), One("descriptor_pool"), One("cmd_pool"), One("render_pass"),
                     One("swapchain"), One("surface"), One("device"), One("instance"), One("gpu")}
           before == layouts \cup firsts \cup eachs
<1>1. \A a \in before : a[1] \in {"binding", "attributes", "render_sema", "present_sema", "depth_view",
           "depth_image", "depth_memory", "fence", "cmd_buffer", "cmd_block", "framebuffer", "view"}
  BY DEF One, AllOf
<1>a. ASSUME NEW b \in firsts, NEW a \in layouts PROVE a \notin Needs(b)
  <2>1. Needs(b) \subseteq {One("device"), One("depth_image"), One("depth_memory")} BY NeedsOnce
  <2>2. a[1] \in {"binding", "attributes"} BY DEF AllOf
  <2> QED BY <2>1, <2>2 DEF One
<1>2. ASSUME NEW b \in layouts \cup lasts, NEW a \in before PROVE a \notin Needs(b)
  <2>1. b \in layouts => Needs(b) = {One("gpu")} BY LayoutFacts
  <2>3. b \in lasts =>
          Needs(b) \subseteq {One("gpu"), One("device"), One("surface"), One("instance")}
    BY NeedsOnce
  <2>4. a \notin {One("gpu"), One("device"), One("surface"), One("instance")}
    BY <1>1 DEF One
  <2> QED BY <1>2, <2>1, <2>3, <2>4
<1>3. ASSUME NEW b \in eachs, NEW a \in layouts \cup firsts PROVE a \notin Needs(b)
  <2>1. PICK i, n : n \in {"fence", "cmd_buffer", "cmd_block", "framebuffer", "view"} /\ b = <<n, i>>
    BY DEF AllOf
  <2>2. \A p \in Needs(b) :
          p[1] \in {"device", "frames", "swapchain", "cmd_pool", "cmd_block", "render_pass", "view"}
    <3>1. /\ Needs(<<"fence", i>>) = {One("device"), One("frames")}
          /\ Needs(<<"framebuffer", i>>) = {One("device"), One("frames"), One("render_pass"), <<"view", i>>}
          /\ Needs(<<"cmd_block", i>>) = {One("frames")}
          /\ Needs(<<"cmd_buffer", i>>) = {One("cmd_pool"), <<"cmd_block", i>>}
          /\ Needs(<<"view", i>>) = {One("device"), One("swapchain"), One("frames")}
      BY NeedsOf DEF One
    <3>2. /\ One("device")[1] = "device" /\ One("frames")[1] = "frames" /\ One("cmd_pool")[1] = "cmd_pool"
          /\ One("swapchain")[1] = "swapchain" /\ <<"cmd_block", i>>[1] = "cmd_block"
          /\ One("render_pass")[1] = "render_pass" /\ <<"view", i>>[1] = "view"
      BY DEF One
    <3> QED BY <2>1, <3>1, <3>2
  <2>3. a[1] \in {"binding", "attributes", "render_sema", "present_sema", "depth_view",
           "depth_image", "depth_memory"}
    BY DEF One, AllOf
  <2> QED BY <2>2, <2>3
<1>4. LayoutHandles \in Seq(Handles) /\ ToSet(LayoutHandles) = layouts BY LayoutFacts
<1>5. f \in Seq(Handles) /\ ReleasedBefore(f) /\ ToSet(f) = firsts BY FirstRelease
<1>6. e \in Seq(Handles) /\ ReleasedBefore(e) /\ ToSet(e) = eachs BY FrameRelease
<1>7. l \in Seq(Handles) /\ ReleasedBefore(l) /\ ToSet(l) = lasts BY LastRelease
<1> HIDE DEF f, e, l, layouts, firsts, eachs, lasts
<1>8. ReleasedBefore(LayoutHandles) BY <1>2, <1>4, ReleasedAny
<1>9. s1 \in Seq(Handles) /\ ReleasedBefore(s1) /\ ToSet(s1) = layouts \cup firsts
  BY <1>a, <1>4, <1>5, <1>8, ReleasedBeforeJoined
<1> HIDE DEF s1
<1>10. s2 \in Seq(Handles) /\ ReleasedBefore(s2) /\ ToSet(s2) = (layouts \cup firsts) \cup eachs
  BY <1>3, <1>6, <1>9, ReleasedBeforeJoined
<1> HIDE DEF s2
<1>11. s3 \in Seq(Handles) /\ ReleasedBefore(s3) /\ ToSet(s3) = ((layouts \cup firsts) \cup eachs) \cup lasts
  BY <1>2, <1>7, <1>10, ReleasedBeforeJoined
<1>12. s3 = DestructionOrder
  BY DEF DestructionOrder, s2, s1, f, e, l, FirstReleased, FrameReleased, LastReleased
<1>13. ((layouts \cup firsts) \cup eachs) \cup lasts = AllHandles
  BY DEF AllHandles, AllOf, layouts, firsts, eachs, lasts
<1> QED BY <1>11, <1>12, <1>13
-----------------------------------------------------------------------------
(* The least of some numbers, with which SelectInSeq and SlotOf search. *)

LEMMA LeastNat ==
  ASSUME NEW S \in SUBSET Nat, S # {}
  PROVE  \E m \in S : \A j \in S : m <= j
<1>1. PICK m \in S : \A j \in S : ~(<<j, m>> \in OpToRel(<, Nat))
  BY NatLessThanWellFounded, WFMin
<1>2. {ss \in Nat \X Nat : ss[1] < ss[2]} = OpToRel(<, Nat) BY Zenon DEF OpToRel
<1>3. ASSUME NEW j \in S PROVE m <= j
  <2>1. j < m => <<j, m>> \in {ss \in Nat \X Nat : ss[1] < ss[2]} OBVIOUS
  <2>2. ~(j < m) BY <1>1, <1>2, <2>1
  <2> QED BY <2>2
<1> QED BY <1>3

LEMMA LeastChosen ==
  ASSUME NEW S \in SUBSET Nat, S # {}
  PROVE  Min(S) \in S /\ \A j \in S : Min(S) <= j
BY LeastNat DEF Min

(* gpu_create makes next what it has the parts of. *)
LEMMA UpcomingFacts ==
  ASSUME handles \subseteq AllHandles, ~GpuReady
  PROVE  Upcoming \in AllHandles /\ Parents(Upcoming) \subseteq handles
<1> DEFINE I == {i \in 1 .. Len(CreationOrder) : CreationOrder[i] \notin handles}
<1>1. DOMAIN CreationOrder = 1 .. Len(CreationOrder) /\ Len(CreationOrder) \in Nat
  BY Creation, LenProperties
<1>2. \A h : h \in ToSet(CreationOrder) <=> \E i \in 1 .. Len(CreationOrder) : h = CreationOrder[i]
  BY <1>1 DEF ToSet
<1>3. I # {} BY <1>2 DEF GpuReady
<1>4. Min(I) \in I /\ \A j \in I : Min(I) <= j BY <1>3, LeastChosen
<1>5. SelectInSeq(CreationOrder, LAMBDA h : h \notin handles) = Min(I) BY <1>3 DEF SelectInSeq
<1> DEFINE i == Min(I)
<1>6. Upcoming = CreationOrder[i] BY <1>5 DEF Upcoming
<1>7. i \in 1 .. Len(CreationOrder) /\ \A j \in 1 .. i - 1 : CreationOrder[j] \in handles
  BY <1>1, <1>4
<1> HIDE DEF i
<1>8. Upcoming \in AllHandles BY <1>2, <1>6, <1>7, Creation
<1>9. ASSUME NEW p \in Parents(Upcoming) PROVE p \in handles
  <2>1. p \in {} \/ \E j \in 1 .. i - 1 : CreationOrder[j] = p
    BY <1>6, <1>7, <1>9, Creation DEF MadeAfter
  <2> QED BY <1>7, <2>1
<1> QED BY <1>8, <1>9

LEMMA NotOwnParent ==
  ASSUME NEW h \in Handles
  PROVE  h \notin Parents(h)
<1>1. PICK n \in HandleNames, i \in Nat : h = <<n, i>> BY DEF Handles
<1> QED BY <1>1 DEF Parents, HandleNames

Released == DestructionOrder[SelectInSeq(DestructionOrder, LAMBDA h : h \in handles)]

(* gpu_destroy releases what nothing needs any more. *)
LEMMA ReleasedFacts ==
  ASSUME handles \subseteq AllHandles, handles # {}
  PROVE  Released \in handles /\ \A g \in handles : Released \notin Needs(g)
<1> DEFINE I == {i \in 1 .. Len(DestructionOrder) : DestructionOrder[i] \in handles}
<1>1. DOMAIN DestructionOrder = 1 .. Len(DestructionOrder) /\ Len(DestructionOrder) \in Nat
  BY Destruction, LenProperties
<1>2. \A h : h \in ToSet(DestructionOrder) <=> \E i \in 1 .. Len(DestructionOrder) : h = DestructionOrder[i]
  BY <1>1 DEF ToSet
<1>3. I # {} BY <1>2, Destruction
<1>4. Min(I) \in I /\ \A j \in I : Min(I) <= j BY SMTT(30), <1>3, LeastChosen
<1>5. SelectInSeq(DestructionOrder, LAMBDA h : h \in handles) = Min(I) BY <1>3 DEF SelectInSeq
<1> DEFINE i == Min(I)
<1>6. Released = DestructionOrder[i] BY <1>5 DEF Released
<1>7. ASSUME NEW g \in handles PROVE Released \notin Needs(g)
  <2>1. PICK j \in 1 .. Len(DestructionOrder) : g = DestructionOrder[j] BY <1>2, Destruction
  <2>2. i <= j /\ i \in 1 .. Len(DestructionOrder) BY <1>4, <2>1
  <2>3. g \in Handles BY <2>1, Destruction, ElementOfSeq
  <2> HIDE DEF i
  <2>4. CASE i = j BY <1>6, <2>1, <2>3, <2>4, NotOwnParent, NeedsFacts
  <2>5. CASE i < j BY <1>6, <2>1, <2>2, <2>5, Destruction DEF ReleasedBefore
  <2> QED BY <1>1, <2>2, <2>4, <2>5
<1> QED BY <1>4, <1>6, <1>7
-----------------------------------------------------------------------------
(* The loop of destroy_stale_data over a cache *)

(* When it has seen the entries above low of the first count of slots, it is at
   c: those above low that are not stale are there once, and if none was stale
   nothing has moved. *)
Swept(E, slots, count, n, c, low) ==
  /\ c.slots \in Seq(E) /\ Len(c.slots) = Len(slots) /\ c.count \in low .. count
  /\ \A k \in 1 .. low : c.slots[k] = slots[k]
  /\ \A k \in low + 1 .. c.count :
       ~Stale(c.slots[k], n) /\ \E q \in low + 1 .. count : c.slots[k] = slots[q]
  /\ \A q \in low + 1 .. count :
       ~Stale(slots[q], n) => \E k \in low + 1 .. c.count : c.slots[k] = slots[q]
  /\ (\A k, l \in 1 .. count : slots[k] = slots[l] => k = l)
       => \A k, l \in 1 .. c.count : c.slots[k] = c.slots[l] => k = l
  /\ (\A q \in low + 1 .. count : ~Stale(slots[q], n)) => c.slots = slots /\ c.count = count

(* What it does with the entry of slot j. *)
OneSwept(n, c, j) ==
  IF Stale(c.slots[j], n)
    THEN [slots |-> [c.slots EXCEPT ![j] = c.slots[c.count]], count |-> c.count - 1]
    ELSE c

LEMMA SweptStep ==
  ASSUME NEW E, NEW slots \in Seq(E), NEW count \in 0 .. Len(slots), NEW n, NEW c,
         NEW low \in 1 .. count, Swept(E, slots, count, n, c, low)
  PROVE  Swept(E, slots, count, n, OneSwept(n, c, low), low - 1)
<1> DEFINE d == OneSwept(n, c, low)
<1>0. Len(slots) \in Nat /\ low \in Nat /\ count \in Nat /\ low <= count /\ count <= Len(slots)
  BY LenProperties
<1>1. /\ c.slots \in Seq(E) /\ Len(c.slots) = Len(slots) /\ c.count \in low .. count
      /\ \A k \in 1 .. low : c.slots[k] = slots[k]
  BY DEF Swept
<1>2. \A k \in low + 1 .. c.count :
        ~Stale(c.slots[k], n) /\ \E q \in low + 1 .. count : c.slots[k] = slots[q]
  BY DEF Swept
<1>3. \A q \in low + 1 .. count :
        ~Stale(slots[q], n) => \E k \in low + 1 .. c.count : c.slots[k] = slots[q]
  BY DEF Swept
<1>4. (\A k, l \in 1 .. count : slots[k] = slots[l] => k = l)
        => \A k, l \in 1 .. c.count : c.slots[k] = c.slots[l] => k = l
  BY DEF Swept
<1>5. (\A q \in low + 1 .. count : ~Stale(slots[q], n)) => c.slots = slots /\ c.count = count
  BY DEF Swept
<1>6. c.slots[low] = slots[low] BY <1>0, <1>1
<1>7. CASE Stale(c.slots[low], n)
  <2> DEFINE m == c.count
             s == c.slots
             t == [s EXCEPT ![low] = s[m]]
  <2>1. m \in Nat /\ low <= m /\ m <= count /\ m - 1 \in low - 1 .. count BY <1>0, <1>1
  <2>2. s \in Seq(E) /\ DOMAIN s = 1 .. Len(slots) /\ s[m] \in E
    BY <1>0, <1>1, <2>1, LenProperties, ElementOfSeq
  <2>3. d.slots = t /\ d.count = m - 1 BY <1>7 DEF OneSwept
  <2> HIDE DEF d, m, s
  <2>4. /\ t \in Seq(E) /\ Len(t) = Len(slots) /\ t[low] = s[m]
        /\ \A k \in 1 .. Len(slots) : k # low => t[k] = s[k]
    BY <1>0, <2>1, <2>2, ExceptSeq
  <2> HIDE DEF t
  <2>5. \A k \in 1 .. low - 1 : t[k] = slots[k] BY <1>0, <1>1, <2>4 DEF s
  <2>6. ASSUME NEW k \in low .. m - 1
        PROVE  ~Stale(t[k], n) /\ \E q \in low .. count : t[k] = slots[q]
    <3>1. CASE k = low
      <4>1. t[k] = s[m] /\ m \in low + 1 .. m BY <1>0, <2>1, <2>4, <3>1
      <4> QED BY <1>0, <1>2, <4>1 DEF m, s
    <3>2. CASE k # low
      <4>1. t[k] = s[k] /\ k \in low + 1 .. m BY <1>0, <2>1, <2>4, <3>2
      <4> QED BY <1>0, <1>2, <4>1 DEF m, s
    <3> QED BY <3>1, <3>2
  <2>7. ASSUME NEW q \in low .. count, ~Stale(slots[q], n)
        PROVE  \E k \in low .. m - 1 : t[k] = slots[q]
    <3>1. q # low BY <1>6, <1>7, <2>7
    <3>2. PICK k \in low + 1 .. m : s[k] = slots[q]
      <4>1. q \in low + 1 .. count BY <1>0, <3>1
      <4> QED BY <1>3, <2>7, <4>1 DEF m, s
    <3>3. CASE k = m
      <4>1. t[low] = slots[q] /\ low \in low .. m - 1 BY <1>0, <2>1, <2>4, <3>2, <3>3
      <4> QED BY <4>1
    <3>4. CASE k # m
      <4>1. t[k] = slots[q] /\ k \in low .. m - 1 BY <1>0, <2>1, <2>4, <3>2, <3>4
      <4> QED BY <4>1
    <3> QED BY <3>3, <3>4
  <2>8. ASSUME \A k, l \in 1 .. count : slots[k] = slots[l] => k = l
        PROVE  \A k, l \in 1 .. m - 1 : t[k] = t[l] => k = l
    <3>1. \A k, l \in 1 .. m : s[k] = s[l] => k = l BY <1>4, <2>8 DEF m, s
    <3>2. \A k \in 1 .. m - 1 : k \in 1 .. m /\ k # m /\ k \in 1 .. Len(slots) BY <1>0, <2>1
    <3>3. m \in 1 .. m BY <1>0, <2>1
    <3> QED BY <2>4, <3>1, <3>2, <3>3
  <2>9. ~(\A q \in low .. count : ~Stale(slots[q], n)) BY <1>0, <1>6, <1>7
  <2>10. (low - 1) + 1 = low BY <1>0
  <2> QED BY <2>1, <2>3, <2>4, <2>5, <2>6, <2>7, <2>8, <2>9, <2>10 DEF Swept, d
<1>8. CASE ~Stale(c.slots[low], n)
  <2>1. d = c BY <1>8 DEF OneSwept
  <2>2. (low - 1) + 1 = low /\ c.count \in low - 1 .. count BY <1>0, <1>1
  <2>3. \A k \in 1 .. low - 1 : c.slots[k] = slots[k] BY <1>0, <1>1
  <2>4. ASSUME NEW k \in low .. c.count
        PROVE  ~Stale(c.slots[k], n) /\ \E q \in low .. count : c.slots[k] = slots[q]
    <3>1. CASE k = low BY <1>0, <1>6, <1>8, <3>1
    <3>2. CASE k # low
      <4>1. k \in low + 1 .. c.count BY <1>0, <1>1, <3>2
      <4> QED BY <1>0, <1>2, <4>1
    <3> QED BY <3>1, <3>2
  <2>5. ASSUME NEW q \in low .. count, ~Stale(slots[q], n)
        PROVE  \E k \in low .. c.count : c.slots[k] = slots[q]
    <3>1. CASE q = low BY <1>0, <1>1, <1>6, <3>1
    <3>2. CASE q # low
      <4>1. q \in low + 1 .. count BY <1>0, <3>2
      <4>2. PICK k \in low + 1 .. c.count : c.slots[k] = slots[q] BY <1>3, <2>5, <4>1
      <4> QED BY <1>0, <1>1, <4>2
    <3> QED BY <3>1, <3>2
  <2>6. (\A q \in low .. count : ~Stale(slots[q], n)) => c.slots = slots /\ c.count = count
    BY <1>0, <1>5
  <2>7. Swept(E, slots, count, n, c, low - 1)
    BY <1>1, <1>4, <2>2, <2>3, <2>4, <2>5, <2>6 DEF Swept
  <2> QED BY <2>1, <2>7
<1> QED BY <1>7, <1>8

(* The loop is a function of how many entries it has seen. *)
LEMMA SweepLoop ==
  ASSUME NEW cache, NEW n, cache.count \in Nat
  PROVE  \E after :
           /\ after[0] = cache
           /\ \A i \in 1 .. cache.count : after[i] = OneSwept(n, after[i - 1], cache.count + 1 - i)
           /\ WithoutStale(cache, n) = after[cache.count]
<1> DEFINE F(f, m) == [i \in 0 .. m |->
              IF i = 0 THEN cache ELSE OneSwept(n, f[i - 1], cache.count + 1 - i)]
           Bad == {m \in Nat : ~\E f : f = F(f, m)}
<1>1. Bad = {}
  <2> SUFFICES ASSUME Bad # {} PROVE FALSE OBVIOUS
  <2>0. Bad \in SUBSET Nat OBVIOUS
  <2> HIDE DEF Bad
  <2>1. PICK m \in Bad : \A j \in Bad : m <= j BY <2>0, LeastNat
  <2>a. m \in Nat BY <2>0
  <2>b. ~\E f : f = F(f, m) BY <2>1 DEF Bad
  <2>2. CASE m = 0
    <3> DEFINE f == [i \in 0 .. 0 |-> cache]
    <3>1. f = F(f, 0) OBVIOUS
    <3> QED BY <2>b, <2>2, <3>1
  <2>3. CASE m # 0
    <3>1. m - 1 \in Nat /\ ~(m <= m - 1) BY <2>a, <2>3
    <3>2. m - 1 \notin Bad BY <2>1, <3>1
    <3>3. PICK f : f = F(f, m - 1) BY <3>1, <3>2 DEF Bad
    <3> DEFINE g == [i \in 0 .. m |-> IF i = m THEN OneSwept(n, f[m - 1], cache.count + 1 - m) ELSE f[i]]
    <3>4. \A i \in 0 .. m - 1 : g[i] = f[i] BY <2>a
    <3>5. ASSUME NEW i \in 0 .. m
          PROVE  g[i] = IF i = 0 THEN cache ELSE OneSwept(n, g[i - 1], cache.count + 1 - i)
      <4>1. CASE i = m
        <5>1. g[i] = OneSwept(n, f[m - 1], cache.count + 1 - m) BY <4>1
        <5>2. g[m - 1] = f[m - 1] BY <2>a, <2>3, <3>4
        <5> QED BY <2>3, <4>1, <5>1, <5>2
      <4>2. CASE i # m /\ i # 0
        <5>1. i \in 0 .. m - 1 /\ i - 1 \in 0 .. m - 1 BY <2>a, <4>2
        <5>2. f[i] = OneSwept(n, f[i - 1], cache.count + 1 - i) BY <3>3, <4>2, <5>1
        <5>3. g[i] = f[i] /\ g[i - 1] = f[i - 1] BY <3>4, <5>1
        <5> QED BY <4>2, <5>2, <5>3
      <4>3. CASE i # m /\ i = 0
        <5>1. 0 \in 0 .. m - 1 BY <2>a, <2>3
        <5>2. f[0] = cache BY <3>3, <5>1
        <5> QED BY <3>4, <4>3, <5>1, <5>2
      <4> QED BY <4>1, <4>2, <4>3
    <3>6. g = [i \in 0 .. m |-> g[i]] OBVIOUS
    <3> HIDE DEF g
    <3>7. g = F(g, m) BY <3>5, <3>6
    <3> QED BY <2>b, <3>7
  <2> QED BY <2>2, <2>3
<1> DEFINE after == CHOOSE f : f = F(f, cache.count)
<1>2. \E f : f = F(f, cache.count) BY <1>1
<1>3. after = F(after, cache.count) BY <1>2
<1>4. WithoutStale(cache, n) = after[cache.count] BY DEF WithoutStale, OneSwept
<1> HIDE DEF after
<1>5. after[0] = cache BY <1>3
<1>6. ASSUME NEW i \in 1 .. cache.count
      PROVE  after[i] = OneSwept(n, after[i - 1], cache.count + 1 - i)
  <2>1. i \in 0 .. cache.count /\ i # 0 OBVIOUS
  <2> QED BY <1>3, <2>1
<1> QED BY <1>4, <1>5, <1>6

LEMMA SweepFacts ==
  ASSUME NEW E, NEW cache, NEW n, cache.slots \in Seq(E), cache.count \in 0 .. Len(cache.slots)
  PROVE  Swept(E, cache.slots, cache.count, n, WithoutStale(cache, n), 0)
<1> DEFINE slots == cache.slots
           count == cache.count
<1>0. count \in Nat /\ slots \in Seq(E) /\ count \in 0 .. Len(slots) BY LenProperties
<1>1. PICK after :
        /\ after[0] = cache
        /\ \A i \in 1 .. count : after[i] = OneSwept(n, after[i - 1], count + 1 - i)
        /\ WithoutStale(cache, n) = after[count]
  BY <1>0, SweepLoop
<1>a. Swept(E, slots, count, n, cache, count)
  <2>1. \A k : k \notin count + 1 .. count BY <1>0
  <2> QED BY <1>0, <2>1 DEF Swept
<1> HIDE DEF slots, count
<1> DEFINE Bad == {i \in 0 .. count : ~Swept(E, slots, count, n, after[i], count - i)}
<1>2. Bad = {}
  <2> SUFFICES ASSUME Bad # {} PROVE FALSE OBVIOUS
  <2>0. Bad \in SUBSET Nat BY <1>0
  <2>1. PICK m \in Bad : \A j \in Bad : m <= j BY <2>0, LeastNat
  <2>2. m # 0
    <3>1. count - 0 = count BY <1>0
    <3> QED BY <1>1, <1>a, <2>1, <3>1
  <2>3. m \in 1 .. count /\ m - 1 \in 0 .. count /\ m - 1 \notin Bad BY <1>0, <2>1, <2>2
  <2> DEFINE low == count + 1 - m
  <2>4. low \in 1 .. count /\ count - (m - 1) = low /\ count - m = low - 1 BY <1>0, <2>3
  <2>5. Swept(E, slots, count, n, after[m - 1], low) BY <2>3, <2>4
  <2>6. after[m] = OneSwept(n, after[m - 1], low) BY <1>1, <2>3
  <2> HIDE DEF low
  <2>7. Swept(E, slots, count, n, after[m], low - 1) BY <1>0, <2>4, <2>5, <2>6, SweptStep
  <2> QED BY <2>1, <2>4, <2>7
<1>3. Swept(E, slots, count, n, after[count], count - count) BY <1>0, <1>2
<1>4. count - count = 0 BY <1>0
<1> QED BY <1>1, <1>3, <1>4 DEF slots, count
-----------------------------------------------------------------------------
(* The caches *)

LEMMA Constants ==
  /\ DOMAIN Members = Kinds /\ Members["mesh"] = {"mesh"} /\ Members["shader"] = {"shader", "pipeline"}
  /\ DOMAIN Parts = {"mesh", "shader", "pipeline", "instance"}
  /\ \A k \in Kinds : Members[k] \subseteq DOMAIN Parts \ {"instance"}
BY DEF Members, Kinds, Parts

LEMMA ObjectFacts ==
  ASSUME NEW m \in DOMAIN Parts, NEW info, NEW n
  PROVE  /\ Object(m, info, n).kind = m /\ Object(m, info, n).info = info
         /\ Object(m, info, n) # Null
         /\ info \in Infos /\ n \in Nat => Object(m, info, n) \in Objects
<1>1. Object(m, info, n).kind = m /\ Object(m, info, n).info = info BY DEF Object
<1>2. Null.kind = None BY DEF Null, Object
<1>3. m # None BY Constants, GpuAssumption
<1> QED BY <1>1, <1>2, <1>3 DEF Object, Objects, Infos

LEMMA NullIsNone == Null \notin Objects
<1>1. Null.kind = None BY DEF Null, Object
<1>2. \A o \in Objects : o.kind \in DOMAIN Parts BY DEF Objects
<1> QED BY <1>1, <1>2, Constants, GpuAssumption

(* s with x at position i. *)
Put(s, i, x) == SubSeq(s, 1, i - 1) \o <<x>> \o SubSeq(s, i + 1, Len(s))

LEMMA Replaced ==
  ASSUME NEW S, NEW s \in Seq(S), NEW i \in 1 .. Len(s) + 1, NEW x \in S
  PROVE  /\ Put(s, i, x) \in Seq(S) /\ Put(s, i, x)[i] = x
         /\ Len(Put(s, i, x)) = (IF i = Len(s) + 1 THEN i ELSE Len(s))
         /\ \A j \in 1 .. Len(s) : j # i => Put(s, i, x)[j] = s[j]
<1> DEFINE t == Put(s, i, x)
<1>0. Len(s) \in Nat /\ i \in Nat /\ \A j \in 1 .. Len(s) : s[j] \in S BY LenProperties, ElementOfSeq
<1> DEFINE a == SubSeq(s, 1, i - 1)
           b == SubSeq(s, i + 1, Len(s))
<1>1. a \in Seq(S) /\ Len(a) = i - 1 /\ \A j \in 1 .. i - 1 : a[j] = s[j]
  <2>1. \A j \in 1 .. i - 1 : s[j] \in S BY <1>0
  <2>2. /\ a \in Seq(S) /\ Len(a) = (IF 1 <= i - 1 THEN (i - 1) - 1 + 1 ELSE 0)
        /\ \A j \in 1 .. (i - 1) - 1 + 1 : a[j] = s[1 + j - 1]
    BY <1>0, <2>1, SubSeqProperties
  <2> HIDE DEF a
  <2> QED BY <1>0, <2>2
<1>2. /\ b \in Seq(S) /\ Len(b) = (IF i = Len(s) + 1 THEN 0 ELSE Len(s) - i)
      /\ \A j \in 1 .. Len(s) - i : b[j] = s[i + j]
  <2>1. \A j \in i + 1 .. Len(s) : s[j] \in S BY <1>0
  <2>2. /\ b \in Seq(S) /\ Len(b) = (IF i + 1 <= Len(s) THEN Len(s) - (i + 1) + 1 ELSE 0)
        /\ \A j \in 1 .. Len(s) - (i + 1) + 1 : b[j] = s[(i + 1) + j - 1]
    BY <1>0, <2>1, SubSeqProperties
  <2> HIDE DEF b
  <2> QED BY <1>0, <2>2
<1>3. <<x>> \in Seq(S) /\ Len(<<x>>) = 1 /\ <<x>>[1] = x
  <2>1. <<x>> \in [1 .. 1 -> S] OBVIOUS
  <2> QED BY <2>1, SeqDef
<1> HIDE DEF a, b
<1>4. /\ a \o <<x>> \in Seq(S) /\ Len(a \o <<x>>) = i
      /\ \A j \in 1 .. i : (a \o <<x>>)[j] = IF j <= i - 1 THEN a[j] ELSE <<x>>[j - (i - 1)]
  <2>1. /\ a \o <<x>> \in Seq(S) /\ Len(a \o <<x>>) = Len(a) + Len(<<x>>)
        /\ \A j \in 1 .. Len(a) + Len(<<x>>) :
             (a \o <<x>>)[j] = IF j <= Len(a) THEN a[j] ELSE <<x>>[j - Len(a)]
    BY <1>1, <1>3, ConcatProperties
  <2>2. Len(a) = i - 1 /\ Len(a) + Len(<<x>>) = i BY <1>0, <1>1, <1>3
  <2> QED BY <2>1, <2>2
<1> DEFINE c == a \o <<x>>
<1>5. c \in Seq(S) /\ Len(c) = i /\ c[i] = x /\ \A j \in 1 .. i - 1 : c[j] = s[j]
  <2>1. \A j \in 1 .. i - 1 : j \in 1 .. i /\ j <= i - 1 BY <1>0
  <2>2. i \in 1 .. i /\ ~(i <= i - 1) /\ i - (i - 1) = 1 BY <1>0
  <2> QED BY <1>1, <1>3, <1>4, <2>1, <2>2
<1> HIDE DEF c
<1>6. /\ c \o b \in Seq(S) /\ Len(c \o b) = i + Len(b)
      /\ \A j \in 1 .. i + Len(b) : (c \o b)[j] = IF j <= i THEN c[j] ELSE b[j - i]
  BY ZenonT(40), <1>2, <1>5, ConcatProperties
<1>7. t = c \o b BY DEF a, b, c, Put
<1> HIDE DEF t
<1>8. ASSUME NEW j \in 1 .. Len(s), j # i PROVE t[j] = s[j]
  <2>1. CASE j < i
    <3>1. j \in 1 .. i - 1 /\ j \in 1 .. i + Len(b) /\ j <= i BY <1>0, <1>2, <2>1
    <3> QED BY <1>5, <1>6, <1>7, <3>1
  <2>2. CASE j > i
    <3>1. j - i \in 1 .. Len(s) - i /\ j \in 1 .. i + Len(b) /\ ~(j <= i) /\ i + (j - i) = j
      BY <1>0, <1>2, <2>2
    <3> QED BY <1>2, <1>6, <1>7, <3>1
  <2>3. j < i \/ j > i BY <1>0, <1>8
  <2> QED BY <2>1, <2>2, <2>3
<1>9. Len(t) = (IF i = Len(s) + 1 THEN i ELSE Len(s)) /\ t[i] = x
  <2>1. i \in 1 .. i + Len(b) /\ i <= i BY <1>0, <1>2
  <2>2. t[i] = x BY <1>5, <1>6, <1>7, <2>1
  <2>3. Len(t) = i + Len(b) BY <1>6, <1>7
  <2>4. i + Len(b) = IF i = Len(s) + 1 THEN i ELSE Len(s) BY <1>0, <1>2
  <2> QED BY <2>2, <2>3, <2>4
<1> QED BY <1>6, <1>7, <1>8, <1>9 DEF t

LEMMA SlotFacts ==
  ASSUME NEW cache, cache.count \in Nat, NEW info
  PROVE  /\ SlotOf(cache, info) \in 1 .. cache.count + 1
         /\ SlotOf(cache, info) <= cache.count => cache.slots[SlotOf(cache, info)].info = info
         /\ SlotOf(cache, info) = cache.count + 1 =>
              \A j \in 1 .. cache.count : cache.slots[j].info # info
<1> DEFINE hits == {i \in 1 .. cache.count : cache.slots[i].info = info}
<1>1. SlotOf(cache, info) =
        IF hits = {} THEN cache.count + 1 ELSE CHOOSE h \in hits : \A j \in hits : h <= j
  BY DEF SlotOf
<1>2. CASE hits = {} BY <1>1, <1>2
<1>3. CASE hits # {}
  <2>0. hits \in SUBSET Nat OBVIOUS
  <2> HIDE DEF hits
  <2>1. \E h \in hits : \A j \in hits : h <= j BY <1>3, <2>0, LeastNat
  <2>2. SlotOf(cache, info) \in hits BY <1>1, <1>3, <2>1
  <2> QED BY <2>2 DEF hits
<1> QED BY <1>2, <1>3

(* What the caches are when the render thread draws. *)
CacheOK(k) ==
  /\ caches[k].slots \in Seq(Entry(k)) /\ caches[k].count \in 0 .. Len(caches[k].slots)
  /\ frame_counter \in Nat

(* The pointers of slot i, those of failed that were NULL still so and the other
   ones that were NULL made in this frame. *)
Filled(k, i, info, failed) ==
  [m \in Members[k] |->
     IF PointersIn(caches[k], k, i)[m] # Null THEN PointersIn(caches[k], k, i)[m]
     ELSE IF m \in failed THEN Null ELSE Object(m, info, frame_counter)]

LEMMA PointersFacts ==
  ASSUME NEW k \in Kinds, CacheOK(k), NEW i \in 1 .. Len(caches[k].slots) + 1, NEW info \in Infos, NEW failed
  PROVE  /\ PointersIn(caches[k], k, i) \in [Members[k] -> Objects \cup {Null}]
         /\ Filled(k, i, info, failed) \in [Members[k] -> Objects \cup {Null}]
<1>1. PointersIn(caches[k], k, i) \in [Members[k] -> Objects \cup {Null}]
  <2>1. CASE i <= Len(caches[k].slots)
    <3>1. i \in 1 .. Len(caches[k].slots) BY <2>1, LenProperties DEF CacheOK
    <3>2. caches[k].slots[i] \in Entry(k) BY <3>1, ElementOfSeq DEF CacheOK
    <3>3. caches[k].slots[i].objects \in [Members[k] -> Objects \cup {Null}] BY <3>2 DEF Entry
    <3> QED BY <2>1, <3>3 DEF PointersIn
  <2>2. CASE ~(i <= Len(caches[k].slots)) BY <2>2 DEF PointersIn
  <2> QED BY <2>1, <2>2
<1>2. \A m \in Members[k] : Object(m, info, frame_counter) \in Objects BY ObjectFacts, Constants DEF CacheOK
<1> QED BY <1>1, <1>2 DEF Filled

LEMMA GetOrCreateFacts ==
  ASSUME NEW k \in Kinds, CacheOK(k), NEW info \in Infos, NEW failed,
         NEW i, i = SlotOf(caches[k], info), NEW new, new = GetOrCreate(k, info, failed)
  PROVE  /\ i \in 1 .. caches[k].count + 1 /\ i \in 1 .. Len(caches[k].slots) + 1
         /\ new.slots \in Seq(Entry(k))
         /\ Len(new.slots) = (IF i = Len(caches[k].slots) + 1 THEN i ELSE Len(caches[k].slots))
         /\ new.count = (IF i <= caches[k].count THEN caches[k].count ELSE i)
         /\ new.count \in 0 .. Len(new.slots)
         /\ new.slots[i] = [info |-> info, last |-> frame_counter, objects |-> Filled(k, i, info, failed)]
         /\ \A j \in 1 .. Len(caches[k].slots) : j # i => new.slots[j] = caches[k].slots[j]
<1> DEFINE s == caches[k].slots
           c == caches[k].count
           old == PointersIn(caches[k], k, i)
           objects == [m \in Members[k] |->
                 CASE old[m] # Null -> old[m]
                   [] old[m] = Null /\ m \in failed -> Null
                   [] OTHER -> Object(m, info, frame_counter)]
           slot == [info |-> info, last |-> frame_counter, objects |-> objects]
<1>1. s \in Seq(Entry(k)) /\ c \in 0 .. Len(s) /\ Len(s) \in Nat BY LenProperties DEF CacheOK
<1>2. i \in 1 .. c + 1 /\ i \in 1 .. Len(s) + 1
  <2>1. c \in Nat BY <1>1
  <2>2. i \in 1 .. c + 1 BY <2>1, SlotFacts
  <2> QED BY <1>1, <2>2
<1>3. objects = Filled(k, i, info, failed) BY DEF Filled
<1>4. slot \in Entry(k) BY <1>2, <1>3, PointersFacts DEF Entry, CacheOK
<1>5. /\ new.slots = Put(s, i, slot)
      /\ new.count = IF i <= c THEN c ELSE i
  BY DEF GetOrCreate, Put
<1> HIDE DEF s, c, slot, old, objects
<1>6. /\ new.slots \in Seq(Entry(k)) /\ Len(new.slots) = (IF i = Len(s) + 1 THEN i ELSE Len(s))
      /\ new.slots[i] = slot
      /\ \A j \in 1 .. Len(s) : j # i => new.slots[j] = s[j]
  <2>1. s \in Seq(Entry(k)) /\ i \in 1 .. Len(s) + 1 /\ slot \in Entry(k) BY <1>1, <1>2, <1>4
  <2>2. /\ Put(s, i, slot) \in Seq(Entry(k)) /\ Put(s, i, slot)[i] = slot
        /\ Len(Put(s, i, slot)) = (IF i = Len(s) + 1 THEN i ELSE Len(s))
    BY <2>1, Replaced
  <2>3. ASSUME NEW j \in 1 .. Len(s), j # i PROVE Put(s, i, slot)[j] = s[j]
    BY <2>1, <2>3, Replaced
  <2> QED BY <1>5, <2>2, <2>3
<1>7. new.count \in 0 .. Len(new.slots)
  <2>1. c \in Nat /\ c <= Len(s) /\ Len(s) \in Nat BY <1>1
  <2>2. i \in Nat /\ i <= c + 1 BY <1>2, <2>1
  <2>3. CASE i <= c
    <3>1. new.count = c BY <1>5, <2>3
    <3>2. Len(new.slots) = Len(s) BY <1>6, <2>1, <2>2, <2>3
    <3> QED BY <2>1, <3>1, <3>2
  <2>4. CASE ~(i <= c)
    <3>1. new.count = i BY <1>5, <2>4
    <3>2. i <= Len(new.slots) /\ Len(new.slots) \in Nat BY <1>6, <2>1, <2>2, <2>4
    <3> QED BY <2>2, <3>1, <3>2
  <2> QED BY <2>3, <2>4
<1> QED BY <1>2, <1>3, <1>5, <1>6, <1>7 DEF s, c, slot
-----------------------------------------------------------------------------
(* What is destroyed and created *)

LEMMA NothingOutlives ==
  ASSUME NEW kind \in DOMAIN Parts, NEW k
  PROVE  ~Outlives(kind, k)
<1>1. kind \in {"mesh", "shader", "pipeline", "instance"} BY Constants
<1>2. CASE kind = "mesh" BY <1>2 DEF Outlives, Parts, Releases, MeshParts, MeshReleases
<1>3. CASE kind = "shader" BY <1>3 DEF Outlives, Parts, Releases, ShaderParts, ShaderReleases
<1>4. CASE kind = "pipeline" BY <1>4 DEF Outlives, Parts, Releases, PipelineParts, PipelineReleases
<1>5. CASE kind = "instance"
  <2> DEFINE R == Releases["instance"]
             s == <<"uniform_buffers", "descriptors">>
  <2>1. R = UniformReleases \cup DescriptorReleases \cup {"uniform_buffers", "descriptors"} BY DEF Releases
  <2> HIDE DEF R
  <2>2. s \in Seq(R) /\ UniformParts \in Seq(R) /\ DescriptorParts \in Seq(R)
    <3>1. /\ {"uniform_buffers", "descriptors"} \subseteq R
          /\ {"uniform", "buffer", "memory"} \subseteq R /\ {"descriptor", "set"} \subseteq R
      BY <2>1 DEF UniformReleases, DescriptorReleases
    <3> QED BY <3>1, Names2, Names3 DEF UniformParts, DescriptorParts
  <2>3. Parts["instance"] = s \o UniformParts \o DescriptorParts BY DEF Parts
  <2> HIDE DEF s
  <2>4. s \o UniformParts \in Seq(R) BY <2>2, ConcatProperties
  <2>5. Parts["instance"] \in Seq(R) BY <2>2, <2>3, <2>4, ConcatProperties
  <2>6. DOMAIN Parts["instance"] = 1 .. Len(Parts["instance"]) BY <2>5, LenProperties
  <2>7. \A j \in DOMAIN Parts["instance"] : Parts["instance"][j] \in R BY <2>5, <2>6, ElementOfSeq
  <2> QED BY <1>5, <2>7 DEF Outlives, R
<1> QED BY <1>1, <1>2, <1>3, <1>4, <1>5

LEMMA CreateDestroy ==
  /\ \A created, failed, k : failed \subseteq Objects => Create(created, failed, k) = live \cup created
  /\ \A objects : objects \subseteq Objects => Destroy(objects) = live \ objects
<1>1. \A o \in Objects : o.kind \in DOMAIN Parts BY DEF Objects
<1>2. \A o \in Objects : \A k : ~Outlives(o.kind, k) BY <1>1, NothingOutlives
<1>3. ASSUME NEW created, NEW failed, NEW k, failed \subseteq Objects
      PROVE  Create(created, failed, k) = live \cup created
  BY <1>2, <1>3 DEF Create
<1>4. ASSUME NEW objects, objects \subseteq Objects
      PROVE  Destroy(objects) = live \ objects
  BY <1>2, <1>4 DEF Destroy
<1> QED BY <1>3, <1>4

(* The slots of caches and instances when destroy_stale_data begins. *)
SlotsOK ==
  /\ \A k \in Kinds : CacheOK(k)
  /\ instances \in Seq(InstanceEntry) /\ live \subseteq Objects

(* The objects of stale entries. *)
StaleIn(k, n) ==
  UNION {{y.objects[m] : m \in Members[k]} \ {Null} :
           y \in {z \in {caches[k].slots[i] : i \in 1 .. caches[k].count} : Stale(z, n)}}
StaleInstances(n) == {x.object : x \in {y \in ToSet(instances) : Stale(y, n)}}

(* What destroy_stale_data does at frame n: live loses the objects of stale
   entries and no others. *)
LEMMA StaleFacts ==
  ASSUME SlotsOK, NEW n, DestroyStaleData(n)
  PROVE  /\ live' \subseteq live
         /\ \A k \in Kinds : \A i \in 1 .. caches[k].count :
              Stale(caches[k].slots[i], n) =>
                \A m \in Members[k] : caches[k].slots[i].objects[m] \notin live'
         /\ \A i \in 1 .. Len(instances) : Stale(instances[i], n) => instances[i].object \notin live'
         /\ \A o \in live : o \notin live' =>
              \/ \E k \in Kinds : \E i \in 1 .. caches[k].count : \E m \in Members[k] :
                   Stale(caches[k].slots[i], n) /\ o = caches[k].slots[i].objects[m]
              \/ \E i \in 1 .. Len(instances) : Stale(instances[i], n) /\ o = instances[i].object
<1> DEFINE stale == (UNION {StaleIn(k, n) : k \in DOMAIN Members}) \cup StaleInstances(n)
<1>1. live' = Destroy(stale) BY DEF DestroyStaleData, StaleIn, StaleInstances
<1>2. ASSUME NEW o
      PROVE  o \in stale <=>
              \/ \E k \in Kinds : \E i \in 1 .. caches[k].count : \E m \in Members[k] :
                   /\ Stale(caches[k].slots[i], n) /\ o = caches[k].slots[i].objects[m]
                   /\ o # Null
              \/ \E i \in 1 .. Len(instances) : Stale(instances[i], n) /\ o = instances[i].object
  <2>1. ASSUME NEW k \in Kinds
        PROVE  o \in StaleIn(k, n) <=> \E i \in 1 .. caches[k].count : \E m \in Members[k] :
                 /\ Stale(caches[k].slots[i], n) /\ o = caches[k].slots[i].objects[m]
                 /\ o # Null
    BY DEF StaleIn
  <2>2. o \in StaleInstances(n) <=>
          \E i \in 1 .. Len(instances) : Stale(instances[i], n) /\ o = instances[i].object
    <3>1. DOMAIN instances = 1 .. Len(instances) BY LenProperties DEF SlotsOK
    <3> QED BY <3>1 DEF ToSet, StaleInstances
  <2>3. o \in stale <=> (\E k \in Kinds : o \in StaleIn(k, n)) \/ o \in StaleInstances(n)
    BY Constants
  <2> HIDE DEF stale
  <2> QED BY <2>1, <2>2, <2>3
<1> HIDE DEF stale
<1>3. \A k \in Kinds : \A i \in 1 .. caches[k].count : \A m \in Members[k] :
        caches[k].slots[i].objects[m] \in Objects \cup {Null}
  <2> SUFFICES ASSUME NEW k \in Kinds, NEW i \in 1 .. caches[k].count, NEW m \in Members[k]
               PROVE  caches[k].slots[i].objects[m] \in Objects \cup {Null}
    OBVIOUS
  <2>1. i \in 1 .. Len(caches[k].slots) BY LenProperties DEF SlotsOK, CacheOK
  <2>2. caches[k].slots[i] \in Entry(k) BY <2>1, ElementOfSeq DEF SlotsOK, CacheOK
  <2> QED BY <2>2 DEF Entry
<1>4. \A i \in 1 .. Len(instances) : instances[i].object \in Objects
  <2>1. \A i \in 1 .. Len(instances) : instances[i] \in InstanceEntry BY ElementOfSeq DEF SlotsOK
  <2> QED BY <2>1 DEF InstanceEntry
<1>5. stale \subseteq Objects BY <1>2, <1>3, <1>4
<1>6. live' = live \ stale BY <1>1, <1>5, CreateDestroy
<1>7. Null \notin live BY NullIsNone DEF SlotsOK
<1> QED BY <1>2, <1>6, <1>7

(* ... and the caches and the instances keep the entries that are not stale. *)
LEMMA StaleSweeps ==
  ASSUME SlotsOK, NEW n, DestroyStaleData(n)
  PROVE  /\ \A k \in Kinds : Swept(Entry(k), caches[k].slots, caches[k].count, n, caches'[k], 0)
         /\ \E kept : /\ Swept(InstanceEntry, instances, Len(instances), n, kept, 0)
                      /\ instances' \in Seq(InstanceEntry) /\ Len(instances') = kept.count
                      /\ \A i \in 1 .. kept.count : instances'[i] = kept.slots[i]
                      /\ kept.slots = instances /\ kept.count = Len(instances) => instances' = instances
<1>1. ASSUME NEW k \in Kinds
      PROVE  Swept(Entry(k), caches[k].slots, caches[k].count, n, caches'[k], 0)
  <2>1. caches'[k] = WithoutStale(caches[k], n) BY Constants DEF DestroyStaleData
  <2>2. caches[k].slots \in Seq(Entry(k)) /\ caches[k].count \in 0 .. Len(caches[k].slots)
    BY DEF SlotsOK, CacheOK
  <2> QED BY <2>1, <2>2, SweepFacts
<1> DEFINE cache == [slots |-> instances, count |-> Len(instances)]
           kept == WithoutStale(cache, n)
<1>2. instances' = SubSeq(kept.slots, 1, kept.count) BY DEF DestroyStaleData
<1>3. instances \in Seq(InstanceEntry) /\ Len(instances) \in 0 .. Len(instances)
  BY LenProperties DEF SlotsOK
<1>4. cache.slots = instances /\ cache.count = Len(instances) OBVIOUS
<1> HIDE DEF cache
<1>5. Swept(InstanceEntry, instances, Len(instances), n, kept, 0) BY <1>3, <1>4, SweepFacts
<1> HIDE DEF kept
<1>6. kept.slots \in Seq(InstanceEntry) /\ Len(kept.slots) = Len(instances) /\ kept.count \in 0 .. Len(instances)
  BY <1>5 DEF Swept
<1>7. /\ instances' \in Seq(InstanceEntry) /\ Len(instances') = kept.count
      /\ \A i \in 1 .. kept.count : instances'[i] = kept.slots[i]
  <2>0. kept.count \in Nat /\ kept.count <= Len(kept.slots) BY <1>3, <1>6
  <2>1. \A i \in 1 .. kept.count : kept.slots[i] \in InstanceEntry BY <1>6, <2>0, ElementOfSeq
  <2>2. /\ instances' \in Seq(InstanceEntry)
        /\ Len(instances') = (IF 1 <= kept.count THEN kept.count - 1 + 1 ELSE 0)
        /\ \A i \in 1 .. kept.count - 1 + 1 : instances'[i] = kept.slots[1 + i - 1]
    BY <1>2, <2>0, <2>1, SubSeqProperties
  <2> QED BY <2>0, <2>2
<1>8. kept.slots = instances /\ kept.count = Len(instances) => instances' = instances
  BY <1>2, <1>3, SubSeqFull
<1> QED BY <1>1, <1>5, <1>7, <1>8
-----------------------------------------------------------------------------
(* The invariant, part by part *)

Commands == {Quit, FrameDone} \cup Models

(* The type invariant, less what Stored says again. *)
Typed ==
  /\ queue \in Seq(Commands) /\ Len(queue) <= QueueMax
  /\ game \in [pc : {"play", "join", "destroyed"}, drawn : SUBSET Entities, frames : 0 .. FrameBound]
  /\ pc \in {"gpu_create", "pop", "model", "frame_done", "submit", "stale", "quit", "idle",
             "gpu_destroy", "exit", "unwind", "crash"}
  /\ command \in Commands
  /\ recording \in BOOLEAN /\ recorded \subseteq Draws
  /\ frame_counter \in Nat
  /\ failures \in 0 .. FailureBound
  /\ \A k \in Kinds : caches[k].count \in 0 .. Len(caches[k].slots)
  /\ live \subseteq Objects /\ handles \subseteq AllHandles

LEMMA TypedFromType ==
  ASSUME TypeOK
  PROVE  Typed
BY Constants, Creation DEF TypeOK, Typed, Commands, Models

LEMMA TypeFromTyped ==
  ASSUME Typed', Stored'
  PROVE  TypeOK'
<1>1. FramesTyped' BY DEF Stored
<1>2. \A x \in ToSet(instances') : x.entity \in Entities /\ x.missing \subseteq FrameIndices
  <2>1. instances' \in Seq(InstanceEntry) BY DEF Stored
  <2>2. DOMAIN instances' = 1 .. Len(instances') BY <2>1, LenProperties
  <2>3. \A x \in ToSet(instances') : x \in InstanceEntry BY <2>1, <2>2, ElementOfSeq DEF ToSet
  <2> QED BY <2>3 DEF InstanceEntry
<1>3. \A k \in DOMAIN Members : caches'[k].count \in 0 .. Len(caches'[k].slots) BY Constants DEF Typed
<1> QED BY <1>1, <1>2, <1>3, Creation DEF Typed, TypeOK, Commands, Models, FramesTyped

LEMMA CommandTypes ==
  /\ Quit.type = "quit" /\ FrameDone.type = "frame_done"
  /\ \A c \in Models : c.type = "model"
  /\ Quit # FrameDone /\ Quit \notin Models /\ FrameDone \notin Models
  /\ \A c \in Commands : c.type = "quit" <=> c = Quit
  /\ \A c \in Commands : c.type = "frame_done" <=> c = FrameDone
  /\ \A c \in Commands : c.type = "model" <=> c \in Models
  /\ \A e \in Entities : Model(e) \in Models
<1>1. Quit.type = "quit" /\ FrameDone.type = "frame_done" BY DEF Quit, FrameDone
<1>2. \A c \in Models : c.type = "model" BY DEF Models, Model
<1> QED BY <1>1, <1>2 DEF Commands, Models

LEMMA SlotsAre ==
  ASSUME Typed, Stored
  PROVE  SlotsOK
BY DEF Typed, Stored, SlotsOK, CacheOK

(* Steps that leave the variables of a part alone. *)
LEMMA StoredKept ==
  ASSUME Stored, UNCHANGED <<caches, instances, frames>>,
         pc' = "model" => command' \in Models,
         pc' \in {"gpu_create", "unwind"} => command' = Quit
  PROVE  Stored'
BY DEF Stored, FramesTyped, frames

LEMMA BuiltKept ==
  ASSUME Built, UNCHANGED <<handles, live, command, pc>>
  PROVE  Built'
BY DEF Built, GpuReady

LEMMA HeldKept ==
  ASSUME Held, UNCHANGED <<caches, instances, live, frame_counter>>
  PROVE  Held'
BY DEF Held, HeldBy, InstanceObjects
-----------------------------------------------------------------------------
(* The game's thread *)

LEMMA PushFacts ==
  ASSUME Typed, Ended, NEW c \in Commands, Push(c), c = Quit => game'.pc # "play",
         game.pc = "play", UNCHANGED pc, game'.pc # "play" => c = Quit, game'.pc # "destroyed"
  PROVE  queue' \in Seq(Commands) /\ Len(queue') <= QueueMax /\ Ended'
<1>1. queue \in Seq(Commands) /\ Len(queue) \in Nat /\ Len(queue) < QueueMax /\ QueueMax \in Nat
  BY RenderAssumption, LenProperties DEF Typed, Push
<1>2. queue' = Append(queue, c) BY DEF Push
<1>3. /\ queue' \in Seq(Commands) /\ Len(queue') = Len(queue) + 1
      /\ \A i \in 1 .. Len(queue) : queue'[i] = queue[i]
      /\ queue'[Len(queue) + 1] = c
  BY <1>1, <1>2, AppendProperties
<1>4. \A i \in 1 .. Len(queue) : queue[i] # Quit BY DEF Ended, Positions
<1>5. \A i \in 1 .. Len(queue') : queue'[i] = Quit => i = Len(queue') /\ game'.pc # "play"
  BY <1>1, <1>3, <1>4
<1>6. queue' # << >>
  <2>1. Len(queue') # 0 BY <1>1, <1>3
  <2> QED BY <1>3, <2>1, EmptySeq
<1>7. pc \notin Ending BY DEF Ended
<1>8. Positions' = 1 .. Len(queue') BY DEF Positions
<1>9. Ended' BY <1>3, <1>5, <1>6, <1>7, <1>8 DEF Ended
<1> QED BY <1>1, <1>3, <1>9

LEMMA PushModelKeeps ==
  ASSUME IInv, NEW e \in Entities, PushModel(e)
  PROVE  IInv'
<1>1. Typed /\ Stored /\ Ended /\ Built /\ Held BY TypedFromType DEF IInv
<1>2. /\ game.pc = "play" /\ Push(Model(e)) /\ game' = [game EXCEPT !.drawn = @ \cup {e}]
      /\ UNCHANGED <<pc, command, caches, instances, frames, handles, live, frame_counter,
                     recording, recorded, failures>>
  BY DEF PushModel, renderer, gpu
<1>3. /\ game' \in [pc : {"play", "join", "destroyed"}, drawn : SUBSET Entities, frames : 0 .. FrameBound]
      /\ game'.pc = "play"
  BY <1>1, <1>2 DEF Typed
<1>4. Model(e) \in Commands /\ Model(e) # Quit BY CommandTypes DEF Commands
<1>5. queue' \in Seq(Commands) /\ Len(queue') <= QueueMax /\ Ended'
  BY <1>1, <1>2, <1>3, <1>4, PushFacts
<1>6. Stored' BY <1>1, <1>2, StoredKept DEF Stored
<1>7. Typed' BY <1>1, <1>2, <1>3, <1>5 DEF Typed
<1> QED BY <1>1, <1>2, <1>5, <1>6, <1>7, TypeFromTyped, BuiltKept, HeldKept DEF IInv

LEMMA PushDoneKeeps ==
  ASSUME IInv, PushDone
  PROVE  IInv'
<1>1. Typed /\ Stored /\ Ended /\ Built /\ Held BY TypedFromType DEF IInv
<1>2. /\ game.pc = "play" /\ game.frames < FrameBound /\ Push(FrameDone)
      /\ game' = [game EXCEPT !.drawn = {}, !.frames = @ + 1]
      /\ UNCHANGED <<pc, command, caches, instances, frames, handles, live, frame_counter,
                     recording, recorded, failures>>
  BY DEF PushDone, renderer, gpu
<1>3. /\ game' \in [pc : {"play", "join", "destroyed"}, drawn : SUBSET Entities, frames : 0 .. FrameBound]
      /\ game'.pc = "play"
  <2>1. game \in [pc : {"play", "join", "destroyed"}, drawn : SUBSET Entities, frames : 0 .. FrameBound]
    BY <1>1 DEF Typed
  <2>2. game.frames + 1 \in 0 .. FrameBound BY <1>2, <2>1, RenderAssumption
  <2>3. game' = [pc |-> game.pc, drawn |-> {}, frames |-> game.frames + 1] BY <1>2, <2>1
  <2> QED BY <1>2, <2>2, <2>3
<1>4. FrameDone \in Commands /\ FrameDone # Quit BY CommandTypes DEF Commands
<1>5. queue' \in Seq(Commands) /\ Len(queue') <= QueueMax /\ Ended'
  BY <1>1, <1>2, <1>3, <1>4, PushFacts
<1>6. Stored' BY <1>1, <1>2, StoredKept DEF Stored
<1>7. Typed' BY <1>1, <1>2, <1>3, <1>5 DEF Typed
<1> QED BY <1>1, <1>2, <1>5, <1>6, <1>7, TypeFromTyped, BuiltKept, HeldKept DEF IInv

LEMMA RenderDestroyKeeps ==
  ASSUME IInv, RenderDestroy
  PROVE  IInv'
<1>1. Typed /\ Stored /\ Ended /\ Built /\ Held BY TypedFromType DEF IInv
<1>2. /\ game.pc = "play" /\ Push(Quit) /\ game' = [game EXCEPT !.pc = "join"]
      /\ UNCHANGED <<pc, command, caches, instances, frames, handles, live, frame_counter,
                     recording, recorded, failures>>
  BY DEF RenderDestroy, renderer, gpu
<1>3. /\ game' \in [pc : {"play", "join", "destroyed"}, drawn : SUBSET Entities, frames : 0 .. FrameBound]
      /\ game'.pc = "join"
  BY <1>1, <1>2 DEF Typed
<1>4. Quit \in Commands BY DEF Commands
<1>5. queue' \in Seq(Commands) /\ Len(queue') <= QueueMax /\ Ended'
  BY <1>1, <1>2, <1>3, <1>4, PushFacts
<1>6. Stored' BY <1>1, <1>2, StoredKept DEF Stored
<1>7. Typed' BY <1>1, <1>2, <1>3, <1>5 DEF Typed
<1> QED BY <1>1, <1>2, <1>5, <1>6, <1>7, TypeFromTyped, BuiltKept, HeldKept DEF IInv

LEMMA GameDestroyKeeps ==
  ASSUME IInv, GameDestroy
  PROVE  IInv'
<1>1. Typed /\ Stored /\ Ended /\ Built /\ Held BY TypedFromType DEF IInv
<1>2. /\ game.pc = "join" /\ pc = "exit" /\ game' = [game EXCEPT !.pc = "destroyed"]
      /\ UNCHANGED <<queue, pc, command, caches, instances, frames, handles, live, frame_counter,
                     recording, recorded, failures>>
  BY DEF GameDestroy, renderer, gpu
<1>3. /\ game' \in [pc : {"play", "join", "destroyed"}, drawn : SUBSET Entities, frames : 0 .. FrameBound]
      /\ game'.pc = "destroyed"
  BY <1>1, <1>2 DEF Typed
<1>4. Ended' BY <1>1, <1>2, <1>3 DEF Ended, Ending, Positions
<1>5. Stored' BY <1>1, <1>2, StoredKept DEF Stored
<1>6. Typed' BY <1>1, <1>2, <1>3 DEF Typed
<1> QED BY <1>1, <1>2, <1>4, <1>5, <1>6, TypeFromTyped, BuiltKept, HeldKept DEF IInv
-----------------------------------------------------------------------------
(* The render thread and the GPU *)

LEMMA RenderCreateKeeps ==
  ASSUME IInv, RenderCreate
  PROVE  IInv'
<1>1. Typed /\ Stored /\ Ended /\ Built /\ Held BY TypedFromType DEF IInv
<1>2. /\ pc = "gpu_create" /\ command = Quit /\ live = {} /\ pc' \in {"gpu_create", "unwind", "pop"}
      /\ UNCHANGED <<queue, game, command, recording, recorded, frame_counter, caches, instances,
                     live, frames>>
  BY <1>1 DEF RenderCreate, renderer, GpuCreateStep, GpuCreateFail, gpu, Stored, Built
<1>3. Ended' BY <1>1, <1>2 DEF Ended, Ending, Positions
<1>4. Stored' BY <1>1, <1>2, StoredKept
<1>5. Held' BY <1>1, <1>2, HeldKept
<1>6. CASE GpuCreateStep /\ UNCHANGED pc
  <2>1. handles' = handles \cup {Upcoming} /\ failures' = failures /\ ~GpuReady
    BY <1>6 DEF GpuCreateStep
  <2>2. Upcoming \in AllHandles /\ Parents(Upcoming) \subseteq handles
    BY <1>1, <2>1, UpcomingFacts DEF Typed
  <2>3. \A h \in handles' : Needs(h) \subseteq handles' BY <1>1, <2>1, <2>2, NeedsFacts DEF Built
  <2>4. Built' BY <1>2, <1>6, <2>3 DEF Built
  <2>5. Typed' BY <1>1, <1>2, <1>6, <2>1, <2>2 DEF Typed
  <2> QED BY <1>3, <1>4, <1>5, <2>4, <2>5, TypeFromTyped DEF IInv
<1>7. CASE GpuCreateFail /\ pc' = "unwind"
  <2>1. handles' = handles /\ failures' = failures + 1 /\ failures < FailureBound
    BY <1>7 DEF GpuCreateFail
  <2>2. Built' BY <1>1, <1>2, <1>7, <2>1 DEF Built
  <2>3. failures' \in 0 .. FailureBound BY <1>1, <2>1, GpuAssumption DEF Typed
  <2>4. Typed' BY <1>1, <1>2, <2>1, <2>3 DEF Typed
  <2> QED BY <1>3, <1>4, <1>5, <2>2, <2>4, TypeFromTyped DEF IInv
<1>8. CASE GpuReady /\ pc' = "pop" /\ UNCHANGED gpu
  <2>1. handles' = handles /\ failures' = failures BY <1>8 DEF gpu
  <2>2. Built' BY <1>1, <1>2, <1>8, <2>1 DEF Built, GpuReady
  <2>3. Typed' BY <1>1, <1>2, <2>1 DEF Typed
  <2> QED BY <1>3, <1>4, <1>5, <2>2, <2>3, TypeFromTyped DEF IInv
<1> QED BY <1>6, <1>7, <1>8 DEF RenderCreate

LEMMA RenderGpuDestroyKeeps ==
  ASSUME IInv, RenderGpuDestroy
  PROVE  IInv'
<1>1. Typed /\ Stored /\ Ended /\ Built /\ Held BY TypedFromType DEF IInv
<1>2. /\ pc \in {"unwind", "gpu_destroy"} /\ live = {}
      /\ UNCHANGED <<queue, game, command, recording, recorded, frame_counter, caches, instances,
                     live, frames, failures>>
  BY <1>1 DEF RenderGpuDestroy, renderer, GpuDestroyStep, gpu, Built
<1>3. Held' BY <1>1, <1>2, HeldKept
<1>4. CASE GpuDestroyStep /\ UNCHANGED pc
  <2>1. handles # {} /\ handles' = handles \ {Released} BY <1>4 DEF GpuDestroyStep, Released
  <2>2. \A g \in handles : Released \notin Needs(g) BY <1>1, <2>1, ReleasedFacts DEF Typed
  <2>3. \A h \in handles' : Needs(h) \subseteq handles' BY <1>1, <2>1, <2>2, NeedsFacts DEF Built
  <2>4. Built' BY <1>2, <1>4, <2>3 DEF Built
  <2>5. Typed' BY <1>1, <1>2, <1>4, <2>1 DEF Typed
  <2>6. Stored' BY <1>1, <1>2, <1>4, StoredKept DEF Stored
  <2>7. Ended' BY <1>1, <1>2, <1>4 DEF Ended, Positions
  <2> QED BY <1>3, <2>4, <2>5, <2>6, <2>7, TypeFromTyped DEF IInv
<1>5. CASE handles = {} /\ pc' = (IF pc = "unwind" THEN "crash" ELSE "exit") /\ UNCHANGED gpu
  <2>1. handles' = {} /\ pc' \in {"crash", "exit"} BY <1>5 DEF gpu
  <2>2. Built' BY <1>2, <2>1 DEF Built
  <2>3. Typed' BY <1>1, <1>2, <2>1 DEF Typed
  <2>4. Stored' BY <1>1, <1>2, <2>1, StoredKept
  <2>5. Ended' BY <1>1, <1>2, <1>5, <2>1 DEF Ended, Positions, Ending
  <2> QED BY <1>3, <2>2, <2>3, <2>4, <2>5, TypeFromTyped DEF IInv
<1> QED BY <1>4, <1>5 DEF RenderGpuDestroy

(* A pop takes the first command. *)
LEMMA PopFacts ==
  ASSUME Typed, RenderPop
  PROVE  /\ pc = "pop" /\ Len(queue) \in Nat \ {0} /\ command' = queue[1] /\ command' \in Commands
         /\ queue' \in Seq(Commands) /\ Len(queue') = Len(queue) - 1
         /\ \A i \in 1 .. Len(queue) - 1 : queue'[i] = queue[i + 1]
         /\ pc' = command'.type /\ pc' \in {"model", "frame_done", "quit"}
         /\ UNCHANGED <<game, frame_counter, caches, instances, handles, live, frames>>
<1>1. /\ pc = "pop" /\ queue # << >> /\ command' = Head(queue) /\ queue' = Tail(queue)
      /\ pc' = Head(queue).type /\ queue \in Seq(Commands)
      /\ UNCHANGED <<game, frame_counter, caches, instances, handles, live, frames>>
  BY DEF RenderPop, Typed
<1>2. /\ Head(queue) \in Commands /\ Tail(queue) \in Seq(Commands) /\ Len(Tail(queue)) = Len(queue) - 1
      /\ \A i \in 1 .. Len(Tail(queue)) : Tail(queue)[i] = queue[i + 1]
  BY <1>1, HeadTailProperties
<1>3. Len(queue) \in Nat \ {0} BY <1>1, LenProperties, EmptySeq
<1>4. Head(queue) = queue[1] BY <1>1
<1>5. pc' \in {"model", "frame_done", "quit"} BY <1>1, <1>2, CommandTypes DEF Commands
<1> QED BY <1>1, <1>2, <1>3, <1>4, <1>5

LEMMA RenderPopKeeps ==
  ASSUME IInv, RenderPop
  PROVE  IInv'
<1>1. Typed /\ Stored /\ Ended /\ Built /\ Held BY TypedFromType DEF IInv
<1>2. /\ pc = "pop" /\ Len(queue) \in Nat \ {0} /\ command' = queue[1] /\ command' \in Commands
      /\ queue' \in Seq(Commands) /\ Len(queue') = Len(queue) - 1
      /\ \A i \in 1 .. Len(queue) - 1 : queue'[i] = queue[i + 1]
      /\ pc' = command'.type /\ pc' \in {"model", "frame_done", "quit"}
      /\ UNCHANGED <<game, frame_counter, caches, instances, handles, live, frames>>
  BY <1>1, PopFacts
<1>3. /\ pc' = "quit" <=> command' = Quit
      /\ pc' = "model" => command' \in Models
  BY <1>2, CommandTypes
<1>4. /\ recording' \in BOOLEAN /\ recorded' \subseteq Draws /\ failures' \in 0 .. FailureBound
  <2>1. /\ recording' = recording \/ recording' = TRUE
        /\ recorded' = recorded \/ recorded' = {}
        /\ failures' = failures \/ (failures < FailureBound /\ failures' = failures + 1)
    BY DEF RenderPop
  <2>2. failures' \in 0 .. FailureBound BY <1>1, <2>1, GpuAssumption DEF Typed
  <2>3. recording' \in BOOLEAN BY <1>1, <2>1 DEF Typed
  <2> QED BY <1>1, <2>1, <2>2, <2>3 DEF Typed
<1>5. Ended'
  <2>1. \A i \in 1 .. Len(queue') : queue'[i] = Quit => i = Len(queue') /\ game'.pc # "play"
    <3> SUFFICES ASSUME NEW i \in 1 .. Len(queue'), queue'[i] = Quit
                 PROVE  i = Len(queue') /\ game'.pc # "play"
      OBVIOUS
    <3>1. i \in 1 .. Len(queue) - 1 /\ i + 1 \in 1 .. Len(queue) /\ queue[i + 1] = Quit BY <1>2
    <3>2. i + 1 = Len(queue) /\ game.pc # "play" BY <1>1, <3>1 DEF Ended, Positions
    <3> QED BY <1>2, <3>2
  <2>2. ASSUME game'.pc # "play", pc' \notin Ending
        PROVE  queue' # << >> /\ queue'[Len(queue')] = Quit
    <3>1. queue[Len(queue)] = Quit BY <1>1, <1>2, <2>2 DEF Ended, Ending
    <3>2. Len(queue) # 1 BY <1>2, <1>3, <2>2, <3>1 DEF Ending
    <3>3. Len(queue) - 1 \in 1 .. Len(queue) - 1 /\ (Len(queue) - 1) + 1 = Len(queue) BY <1>2, <3>2
    <3>4. queue'[Len(queue')] = Quit BY <1>2, <3>1, <3>3
    <3>5. Len(queue') # 0 BY <1>2, <3>2
    <3> QED BY <1>2, <3>4, <3>5, EmptySeq
  <2>3. ASSUME pc' \in Ending
        PROVE  queue' = << >> /\ game'.pc # "play"
    <3>1. queue[1] = Quit BY <1>2, <1>3, <2>3 DEF Ending
    <3>2. 1 = Len(queue) /\ game.pc # "play" BY <1>1, <1>2, <3>1 DEF Ended, Positions
    <3>3. Len(queue') = 0
      <4>1. Len(queue') = Len(queue) - 1 BY <1>2
      <4> QED BY <3>2, <4>1
    <3> QED BY <1>2, <3>2, <3>3, EmptySeq
  <2>4. game'.pc # "destroyed" BY <1>1, <1>2 DEF Ended
  <2> QED BY <2>1, <2>2, <2>3, <2>4 DEF Ended, Positions
<1>6. Stored' BY <1>1, <1>2, <1>3, StoredKept
<1>7. Built' BY <1>1, <1>2 DEF Built, GpuReady
<1>8. Held' BY <1>1, <1>2, HeldKept
<1>9. Typed'
  <2>1. Len(queue') <= QueueMax BY <1>1, <1>2, RenderAssumption DEF Typed
  <2> QED BY <1>1, <1>2, <1>4, <2>1 DEF Typed
<1> QED BY <1>5, <1>6, <1>7, <1>8, <1>9, TypeFromTyped DEF IInv

(* What fails in one go is a few calls. *)
Calls == {"end", "acquire", "wait", "reset", "submit", "present", "idle"}

LEMMA FailingFacts ==
  ASSUME NEW calls \in SUBSET Calls, Failing(calls), failures \in 0 .. FailureBound
  PROVE  failures' \in 0 .. FailureBound /\ failures <= failures'
<1>1. IsFiniteSet({"end", "acquire", "wait", "reset"})
  <2>1. IsFiniteSet({}) BY FS_EmptySet
  <2>2. IsFiniteSet({} \cup {"end"}) BY <2>1, FS_AddElement
  <2>3. IsFiniteSet(({} \cup {"end"}) \cup {"acquire"}) BY <2>2, FS_AddElement
  <2>4. IsFiniteSet((({} \cup {"end"}) \cup {"acquire"}) \cup {"wait"}) BY <2>3, FS_AddElement
  <2>5. IsFiniteSet(((({} \cup {"end"}) \cup {"acquire"}) \cup {"wait"}) \cup {"reset"})
    BY <2>4, FS_AddElement
  <2>6. ((({} \cup {"end"}) \cup {"acquire"}) \cup {"wait"}) \cup {"reset"}
          = {"end", "acquire", "wait", "reset"}
    OBVIOUS
  <2> QED BY <2>5, <2>6
<1>2. IsFiniteSet(Calls)
  <2> DEFINE first == {"end", "acquire", "wait", "reset"}
  <2>1. IsFiniteSet(first \cup {"submit"}) BY <1>1, FS_AddElement
  <2>2. IsFiniteSet((first \cup {"submit"}) \cup {"present"}) BY <2>1, FS_AddElement
  <2>3. IsFiniteSet(((first \cup {"submit"}) \cup {"present"}) \cup {"idle"}) BY <2>2, FS_AddElement
  <2>4. ((first \cup {"submit"}) \cup {"present"}) \cup {"idle"} = Calls BY DEF Calls
  <2> QED BY <2>3, <2>4
<1>3. Cardinality(calls) \in Nat BY <1>2, FS_Subset, FS_CardinalityType
<1> DEFINE n == Cardinality(calls)
<1>4. failures' = failures + n /\ failures' <= FailureBound BY DEF Failing
<1> HIDE DEF n
<1>5. n \in Nat BY <1>3 DEF n
<1> QED BY <1>4, <1>5, GpuAssumption

LEMMA FrameAcquiredKeeps ==
  ASSUME IInv, FrameAcquired
  PROVE  IInv'
<1>1. Typed /\ Stored /\ Ended /\ Built /\ Held BY TypedFromType DEF IInv
<1>2. PICK fails \in SUBSET {"end", "acquire"} :
        FrameAcquire(fails) /\ recording' = (recording /\ "end" \notin fails)
  BY DEF FrameAcquired
<1>3. /\ pc = "frame_done" /\ pc' = "submit"
      /\ UNCHANGED <<queue, game, command, recorded, frame_counter, caches, instances, handles, live>>
      /\ UNCHANGED <<frame_index, fences, flight, unwaited>>
  BY <1>2 DEF FrameAcquired, FrameAcquire
<1>4. failures' \in 0 .. FailureBound
  <2>1. fails \in SUBSET Calls BY DEF Calls
  <2>2. Failing(fails) BY <1>2 DEF FrameAcquire
  <2> QED BY <1>1, <2>1, <2>2, FailingFacts DEF Typed
<1>5. signals' \in Nat /\ starved' \in BOOLEAN
  <2>1. signals \in Nat BY <1>1 DEF Stored, FramesTyped
  <2>2. signals' = signals \/ signals' = signals + 1 BY <1>2 DEF FrameAcquire
  <2>3. starved' \in BOOLEAN BY <1>2 DEF FrameAcquire
  <2> QED BY <2>1, <2>2, <2>3
<1>6. FramesTyped' BY <1>1, <1>3, <1>5 DEF Stored, FramesTyped
<1>7. Stored' BY <1>1, <1>3, <1>6 DEF Stored
<1>8. Ended' BY <1>1, <1>3 DEF Ended, Ending, Positions
<1>9. Built' BY <1>1, <1>3 DEF Built, GpuReady
<1>10. Held' BY <1>1, <1>3, HeldKept
<1>11. recording' \in BOOLEAN BY <1>1, <1>2 DEF Typed
<1>12. Typed' BY <1>1, <1>3, <1>4, <1>11 DEF Typed
<1> QED BY <1>7, <1>8, <1>9, <1>10, <1>12, TypeFromTyped DEF IInv

(* The rest of gpu_frame_end, with the calls that fail. *)
LEMMA FrameEndFacts ==
  ASSUME Typed, Stored, FrameEnd
  PROVE  /\ pc = "submit" /\ pc' = "stale" /\ recording' = FALSE
         /\ UNCHANGED <<queue, game, command, recorded, frame_counter, caches, instances, handles, live>>
         /\ frame_index' = (frame_index + 1) % FrameCount /\ frame_index' \in FrameIndices
         /\ failures' \in 0 .. FailureBound /\ failures <= failures'
         /\ FramesTyped'
         /\ flight' = flight \/ flight' = flight \cup
               {[index |-> frame_index, number |-> frame_counter, draws |-> recorded]}
         /\ ~unwaited' => /\ ~unwaited /\ fences[frame_index]
                          /\ fences' = [fences EXCEPT ![frame_index] = FALSE]
<1> DEFINE new == [index |-> frame_index, number |-> frame_counter, draws |-> recorded]
<1>1. PICK fails \in SUBSET {"wait", "reset", "submit", "present"} :
        FrameSubmit(frame_counter, recorded, recording, fails)
  BY DEF FrameEnd
<1>2. /\ pc = "submit" /\ pc' = "stale" /\ recording' = FALSE
      /\ UNCHANGED <<queue, game, command, recorded, frame_counter, caches, instances>>
  BY DEF FrameEnd
<1>3. /\ fences[frame_index] \/ "wait" \in fails
      /\ fences' = IF "reset" \in fails THEN fences ELSE [fences EXCEPT ![frame_index] = FALSE]
      /\ unwaited' = (unwaited \/ fails \cap {"wait", "reset"} # {})
      /\ flight' = flight \cup (IF "submit" \in fails THEN {} ELSE {new})
      /\ starved' \in (IF fails \cap {"submit", "present"} = {} THEN {starved} ELSE {starved, TRUE})
      /\ frame_index' = (frame_index + 1) % FrameCount
      /\ UNCHANGED <<handles, live, signals>>
      /\ Failing(fails) \/ Failing(fails \ {"submit"})
  BY <1>1 DEF FrameSubmit
<1>4. failures' \in 0 .. FailureBound /\ failures <= failures'
  <2>1. failures \in 0 .. FailureBound BY DEF Typed
  <2>2. fails \in SUBSET Calls /\ fails \ {"submit"} \in SUBSET Calls BY DEF Calls
  <2>3. CASE Failing(fails) BY <2>1, <2>2, <2>3, FailingFacts
  <2>4. CASE Failing(fails \ {"submit"})
    <3> DEFINE calls == fails \ {"submit"}
    <3>1. calls \in SUBSET Calls /\ Failing(calls) BY <2>2, <2>4
    <3> HIDE DEF calls
    <3> QED BY <2>1, <3>1, FailingFacts
  <2> QED BY <1>3, <2>3, <2>4
<1>5. frame_index \in FrameIndices /\ frame_index' \in FrameIndices
  <2>1. frame_index \in FrameIndices BY DEF Stored, FramesTyped
  <2>2. FrameCount \in Nat /\ FrameCount > 0 /\ frame_index + 1 \in Nat
    BY <2>1, GpuAssumption DEF FrameIndices
  <2> QED BY <1>3, <2>1, <2>2 DEF FrameIndices
<1>6. new \in [index : FrameIndices, number : Nat, draws : SUBSET Draws] BY <1>5 DEF Typed
<1>7. flight' = flight \/ flight' = flight \cup {new} BY <1>3
<1>8. starved' \in BOOLEAN BY <1>3 DEF Stored, FramesTyped
<1>9. unwaited' \in BOOLEAN BY <1>3 DEF Stored, FramesTyped
<1>10. fences' \in [FrameIndices -> BOOLEAN] BY <1>3, <1>5 DEF Stored, FramesTyped
<1>11. FramesTyped'
  <2>1. flight' \subseteq [index : FrameIndices, number : Nat, draws : SUBSET Draws]
    BY <1>6, <1>7 DEF Stored, FramesTyped
  <2>2. signals' \in Nat BY <1>3 DEF Stored, FramesTyped
  <2> QED BY <1>5, <1>8, <1>9, <1>10, <2>1, <2>2 DEF FramesTyped
<1>12. ASSUME ~unwaited'
       PROVE  ~unwaited /\ fences[frame_index] /\ fences' = [fences EXCEPT ![frame_index] = FALSE]
  <2>1. ~unwaited /\ fails \cap {"wait", "reset"} = {} BY <1>3, <1>12
  <2>2. "wait" \notin fails /\ "reset" \notin fails BY <2>1
  <2> QED BY <1>3, <2>1, <2>2
<1> QED BY <1>2, <1>3, <1>4, <1>5, <1>7, <1>11, <1>12

LEMMA FrameEndKeeps ==
  ASSUME IInv, FrameEnd
  PROVE  IInv'
<1>1. Typed /\ Stored /\ Ended /\ Built /\ Held BY TypedFromType DEF IInv
<1>2. /\ pc = "submit" /\ pc' = "stale" /\ recording' = FALSE
      /\ UNCHANGED <<queue, game, command, recorded, frame_counter, caches, instances, handles, live>>
      /\ failures' \in 0 .. FailureBound /\ FramesTyped'
  BY <1>1, FrameEndFacts
<1>3. Stored' BY <1>1, <1>2 DEF Stored
<1>4. Ended' BY <1>1, <1>2 DEF Ended, Ending, Positions
<1>5. Built' BY <1>1, <1>2 DEF Built, GpuReady
<1>6. Held' BY <1>1, <1>2, HeldKept
<1>7. Typed' BY <1>1, <1>2 DEF Typed
<1> QED BY <1>3, <1>4, <1>5, <1>6, <1>7, TypeFromTyped DEF IInv

(* destroy_stale_data keeps the stores' types, and every object is held. *)
LEMMA StaleKeeps ==
  ASSUME Typed, Stored, Held, NEW n \in Nat, DestroyStaleData(n),
         frame_counter' \in Nat, frame_counter <= frame_counter'
  PROVE  /\ \A k \in Kinds : caches'[k].slots \in Seq(Entry(k)) /\ caches'[k].count \in 0 .. Len(caches'[k].slots)
         /\ instances' \in Seq(InstanceEntry)
         /\ live' \subseteq live
         /\ Held'
<1>0. SlotsOK /\ frame_counter \in Nat BY SlotsAre DEF Typed
<1>1. ASSUME NEW k \in Kinds
      PROVE  /\ caches'[k].slots \in Seq(Entry(k)) /\ caches'[k].count \in 0 .. Len(caches'[k].slots)
             /\ caches'[k].count \in 0 .. caches[k].count
             /\ \A i \in 1 .. caches'[k].count : \E q \in 1 .. caches[k].count : caches'[k].slots[i] = caches[k].slots[q]
             /\ \A q \in 1 .. caches[k].count : ~Stale(caches[k].slots[q], n) =>
                  \E i \in 1 .. caches'[k].count : caches'[k].slots[i] = caches[k].slots[q]
  <2>1. Swept(Entry(k), caches[k].slots, caches[k].count, n, caches'[k], 0) BY <1>0, StaleSweeps
  <2>2. 0 + 1 = 1 OBVIOUS
  <2>3. caches[k].count \in 0 .. Len(caches[k].slots) BY DEF Typed
  <2>4. caches[k].slots \in Seq(Entry(k)) BY DEF Stored
  <2>5. caches'[k].count \in 0 .. Len(caches'[k].slots)
    <3>1. caches'[k].count \in 0 .. caches[k].count /\ Len(caches'[k].slots) = Len(caches[k].slots)
      BY <2>1 DEF Swept
    <3>2. Len(caches[k].slots) \in Nat BY <2>4, LenProperties
    <3> QED BY <2>3, <3>1, <3>2
  <2> QED BY <2>1, <2>2, <2>5 DEF Swept
<1>2. PICK kept : /\ Swept(InstanceEntry, instances, Len(instances), n, kept, 0)
                  /\ instances' \in Seq(InstanceEntry) /\ Len(instances') = kept.count
                  /\ \A i \in 1 .. kept.count : instances'[i] = kept.slots[i]
  BY <1>0, StaleSweeps
<1>3. /\ \A i \in 1 .. Len(instances') : \E q \in 1 .. Len(instances) : instances'[i] = instances[q]
      /\ \A q \in 1 .. Len(instances) : ~Stale(instances[q], n) =>
           \E i \in 1 .. Len(instances') : instances'[i] = instances[q]
  <2>1. 0 + 1 = 1 OBVIOUS
  <2> DEFINE m == kept.count
  <2>2. \A i \in 1 .. m : \E q \in 1 .. Len(instances) : kept.slots[i] = instances[q]
    BY <1>2, <2>1 DEF Swept
  <2>3. \A q \in 1 .. Len(instances) : ~Stale(instances[q], n) =>
          \E i \in 1 .. m : kept.slots[i] = instances[q]
    BY <1>2, <2>1 DEF Swept
  <2>4. Len(instances') = m /\ \A i \in 1 .. m : instances'[i] = kept.slots[i] BY <1>2
  <2> HIDE DEF m
  <2>5. \A i \in 1 .. m : \E q \in 1 .. Len(instances) : instances'[i] = instances[q]
    BY <2>2, <2>4
  <2>6. \A q \in 1 .. Len(instances) : ~Stale(instances[q], n) =>
          \E i \in 1 .. m : instances'[i] = instances[q]
    BY <2>3, <2>4
  <2> QED BY <2>4, <2>5, <2>6
<1>4. /\ live' \subseteq live
      /\ \A k \in Kinds : \A i \in 1 .. caches[k].count :
           Stale(caches[k].slots[i], n) => \A m \in Members[k] : caches[k].slots[i].objects[m] \notin live'
      /\ \A i \in 1 .. Len(instances) : Stale(instances[i], n) => instances[i].object \notin live'
  BY <1>0, StaleFacts
<1>5. live' \subseteq HeldBy("mesh")' \cup HeldBy("shader")' \cup InstanceObjects'
  <2> SUFFICES ASSUME NEW o \in live'
               PROVE  o \in HeldBy("mesh")' \cup HeldBy("shader")' \cup InstanceObjects'
    OBVIOUS
  <2>1. o \in HeldBy("mesh") \/ o \in HeldBy("shader") \/ o \in InstanceObjects BY <1>4 DEF Held
  <2>2. ASSUME NEW k \in Kinds, o \in HeldBy(k)
        PROVE  \E i \in 1 .. caches'[k].count : \E m \in Members[k] : o = caches'[k].slots[i].objects[m]
    <3>1. PICK q \in 1 .. caches[k].count, m \in Members[k] : o = caches[k].slots[q].objects[m]
      BY <2>2 DEF HeldBy
    <3>2. ~Stale(caches[k].slots[q], n) BY <1>4, <3>1
    <3> QED BY <1>1, <3>1, <3>2
  <2>3. ASSUME o \in InstanceObjects
        PROVE  \E i \in 1 .. Len(instances') : o = instances'[i].object
    <3>1. PICK q \in 1 .. Len(instances) : o = instances[q].object BY <2>3 DEF InstanceObjects
    <3>2. ~Stale(instances[q], n) BY <1>4, <3>1
    <3> QED BY <1>3, <3>1, <3>2
  <2>4. "mesh" \in Kinds /\ "shader" \in Kinds BY DEF Kinds
  <2> QED BY <2>1, <2>2, <2>3, <2>4 DEF HeldBy, InstanceObjects
<1>6. \A k \in Kinds : \A i \in 1 .. caches'[k].count : caches'[k].slots[i].last <= frame_counter'
  <2> SUFFICES ASSUME NEW k \in Kinds, NEW i \in 1 .. caches'[k].count
               PROVE  caches'[k].slots[i].last <= frame_counter'
    OBVIOUS
  <2>1. PICK q \in 1 .. caches[k].count : caches'[k].slots[i] = caches[k].slots[q] BY <1>1
  <2>2. caches[k].slots[q].last <= frame_counter BY DEF Held
  <2>3. caches[k].slots[q] \in Entry(k)
    <3>1. q \in 1 .. Len(caches[k].slots) /\ caches[k].slots \in Seq(Entry(k))
      BY LenProperties DEF Typed, Stored
    <3> QED BY <3>1, ElementOfSeq
  <2>4. caches[k].slots[q].last \in Nat BY <2>3 DEF Entry
  <2> QED BY <1>0, <2>1, <2>2, <2>4
<1>7. \A i \in 1 .. Len(instances') : instances'[i].last <= frame_counter'
  <2> SUFFICES ASSUME NEW i \in 1 .. Len(instances')
               PROVE  instances'[i].last <= frame_counter'
    OBVIOUS
  <2>1. PICK q \in 1 .. Len(instances) : instances'[i] = instances[q] BY <1>3
  <2>2. instances[q].last <= frame_counter BY DEF Held
  <2>3. instances[q] \in InstanceEntry BY ElementOfSeq DEF Stored
  <2>4. instances[q].last \in Nat BY <2>3 DEF InstanceEntry
  <2> QED BY <1>0, <2>1, <2>2, <2>4
<1>8. Held' BY <1>5, <1>6, <1>7 DEF Held
<1> QED BY <1>1, <1>2, <1>4, <1>8

LEMMA FrameStaleKeeps ==
  ASSUME IInv, FrameStale
  PROVE  IInv'
<1>1. Typed /\ Stored /\ Ended /\ Built /\ Held BY TypedFromType DEF IInv
<1>2. /\ pc = "stale" /\ pc' = "pop" /\ DestroyStaleData(frame_counter)
      /\ frame_counter' = frame_counter + 1
      /\ UNCHANGED <<queue, game, command, recording, recorded, handles, frames, failures>>
  BY DEF FrameStale
<1>3. frame_counter \in Nat /\ frame_counter' \in Nat /\ frame_counter <= frame_counter'
  BY <1>1, <1>2 DEF Typed
<1>4. /\ \A k \in Kinds : caches'[k].slots \in Seq(Entry(k)) /\ caches'[k].count \in 0 .. Len(caches'[k].slots)
      /\ instances' \in Seq(InstanceEntry) /\ live' \subseteq live /\ Held'
  BY <1>1, <1>2, <1>3, StaleKeeps
<1>5. Stored' BY <1>1, <1>2, <1>4 DEF Stored, FramesTyped, frames
<1>6. Ended' BY <1>1, <1>2 DEF Ended, Ending, Positions
<1>7. Built' BY <1>1, <1>2 DEF Built, GpuReady
<1>8. Typed' BY <1>1, <1>2, <1>3, <1>4 DEF Typed
<1> QED BY <1>4, <1>5, <1>6, <1>7, <1>8, TypeFromTyped DEF IInv

(* A wait for the GPU to be idle, whether it fails or not. *)
LEMMA WaitFacts ==
  ASSUME GpuWaitIdle, FramesTyped, failures \in 0 .. FailureBound
  PROVE  /\ failures' \in 0 .. FailureBound /\ failures <= failures' /\ FramesTyped'
         /\ flight' = flight /\ (flight = {} \/ unwaited')
<1>1. UNCHANGED <<frame_index, fences, flight, signals, starved>> BY DEF GpuWaitIdle
<1>2. CASE flight = {} /\ UNCHANGED <<failures, unwaited>>
  BY <1>1, <1>2, GpuAssumption DEF FramesTyped
<1>3. CASE Failing({"idle"}) /\ unwaited' = TRUE
  <2>1. {"idle"} \in SUBSET Calls BY DEF Calls
  <2>2. failures' \in 0 .. FailureBound /\ failures <= failures' BY <1>3, <2>1, FailingFacts
  <2> QED BY <1>1, <1>3, <2>2 DEF FramesTyped
<1> QED BY <1>2, <1>3 DEF GpuWaitIdle

LEMMA RenderExitKeeps ==
  ASSUME IInv, RenderExit
  PROVE  IInv'
<1>1. Typed /\ Stored /\ Ended /\ Built /\ Held BY TypedFromType DEF IInv
<1>2. /\ pc = "quit" /\ pc' = "idle" /\ DestroyStaleData(frame_counter')
      /\ frame_counter' = frame_counter + FrameCount + 1
      /\ UNCHANGED <<queue, game, command, recording, recorded, handles>>
  BY DEF RenderExit
<1>a. failures' \in 0 .. FailureBound /\ FramesTyped'
  BY <1>1, WaitFacts DEF RenderExit, Typed, Stored
<1>3. frame_counter \in Nat /\ frame_counter' \in Nat /\ frame_counter <= frame_counter'
  BY <1>1, <1>2, GpuAssumption DEF Typed
<1>4. /\ \A k \in Kinds : caches'[k].slots \in Seq(Entry(k)) /\ caches'[k].count \in 0 .. Len(caches'[k].slots)
      /\ instances' \in Seq(InstanceEntry) /\ live' \subseteq live /\ Held'
  BY <1>1, <1>2, <1>3, StaleKeeps
<1>5. live' = {}
  <2> SUFFICES ASSUME NEW o \in live' PROVE FALSE OBVIOUS
  <2>1. SlotsOK BY <1>1, SlotsAre
  <2>2. o \in HeldBy("mesh") \/ o \in HeldBy("shader") \/ o \in InstanceObjects BY <1>1, <1>4 DEF Held
  <2>3. ASSUME NEW k \in Kinds, o \in HeldBy(k) PROVE FALSE
    <3>1. PICK q \in 1 .. caches[k].count, m \in Members[k] : o = caches[k].slots[q].objects[m]
      BY <2>3 DEF HeldBy
    <3>2. q \in 1 .. Len(caches[k].slots) /\ caches[k].slots \in Seq(Entry(k))
      BY <1>1, LenProperties DEF Typed, Stored
    <3>3. caches[k].slots[q].last \in Nat
      <4>1. caches[k].slots[q] \in Entry(k) BY <3>2, ElementOfSeq
      <4> QED BY <4>1 DEF Entry
    <3>4. caches[k].slots[q].last <= frame_counter BY <1>1 DEF Held
    <3>5. Stale(caches[k].slots[q], frame_counter') BY <1>2, <1>3, <3>3, <3>4, GpuAssumption DEF Stale
    <3> QED BY <1>2, <2>1, <3>1, <3>5, StaleFacts
  <2>4. ASSUME o \in InstanceObjects PROVE FALSE
    <3>1. PICK q \in 1 .. Len(instances) : o = instances[q].object BY <2>4 DEF InstanceObjects
    <3>2. instances[q].last \in Nat
      <4>1. instances[q] \in InstanceEntry BY <1>1, ElementOfSeq DEF Stored
      <4> QED BY <4>1 DEF InstanceEntry
    <3>3. instances[q].last <= frame_counter BY <1>1 DEF Held
    <3>4. Stale(instances[q], frame_counter') BY <1>2, <1>3, <3>2, <3>3, GpuAssumption DEF Stale
    <3> QED BY <1>2, <2>1, <3>1, <3>4, StaleFacts
  <2> QED BY <2>2, <2>3, <2>4 DEF Kinds
<1>6. Stored' BY <1>1, <1>2, <1>4, <1>a DEF Stored
<1>7. Ended' BY <1>1, <1>2 DEF Ended, Ending, Positions
<1>8. Built' BY <1>1, <1>2, <1>5 DEF Built
<1>9. Typed' BY <1>1, <1>2, <1>3, <1>4, <1>a DEF Typed
<1> QED BY <1>4, <1>6, <1>7, <1>8, <1>9, TypeFromTyped DEF IInv

LEMMA RenderGpuIdleKeeps ==
  ASSUME IInv, RenderGpuIdle
  PROVE  IInv'
<1>1. Typed /\ Stored /\ Ended /\ Built /\ Held BY TypedFromType DEF IInv
<1>2. /\ pc = "idle" /\ pc' = "gpu_destroy" /\ GpuWaitIdle
      /\ UNCHANGED <<queue, game, command, recording, recorded, frame_counter, caches, instances, handles, live>>
  BY DEF RenderGpuIdle, renderer
<1>3. failures' \in 0 .. FailureBound /\ FramesTyped'
  BY <1>1, <1>2, WaitFacts DEF Typed, Stored
<1>4. Stored' BY <1>1, <1>2, <1>3 DEF Stored
<1>5. Ended' BY <1>1, <1>2 DEF Ended, Ending, Positions
<1>6. Built' BY <1>1, <1>2 DEF Built
<1>7. Held' BY <1>1, <1>2, HeldKept
<1>8. Typed' BY <1>1, <1>2, <1>3 DEF Typed
<1> QED BY <1>4, <1>5, <1>6, <1>7, <1>8, TypeFromTyped DEF IInv

(* The GPU completes a frame. *)
LEMMA CompleteFacts ==
  ASSUME Stored, NEW f \in flight, GpuComplete(f)
  PROVE  /\ flight' = flight \ {f} /\ fences' = [fences EXCEPT ![f.index] = TRUE]
         /\ UNCHANGED <<handles, live, frame_index, unwaited, failures>>
         /\ FramesTyped'
<1>1. /\ signals > 0 /\ signals' = signals - 1
      /\ flight' = flight \ {f} /\ fences' = [fences EXCEPT ![f.index] = TRUE]
      /\ UNCHANGED <<handles, live, frame_index, starved, unwaited, failures>>
  BY DEF GpuComplete
<1>2. FramesTyped BY DEF Stored
<1>3. signals' \in Nat BY <1>1, <1>2 DEF FramesTyped
<1>4. flight' \subseteq [index : FrameIndices, number : Nat, draws : SUBSET Draws]
  BY <1>1, <1>2 DEF FramesTyped
<1>5. fences' \in [FrameIndices -> BOOLEAN] BY <1>1, <1>2 DEF FramesTyped
<1> QED BY <1>1, <1>2, <1>3, <1>4, <1>5 DEF FramesTyped

LEMMA GpuCompletesKeeps ==
  ASSUME IInv, GpuCompletes
  PROVE  IInv'
<1>1. Typed /\ Stored /\ Ended /\ Built /\ Held BY TypedFromType DEF IInv
<1>2. PICK f \in flight : GpuComplete(f) BY DEF GpuCompletes
<1>3. UNCHANGED <<queue, game, pc, command, recording, recorded, frame_counter, caches, instances>>
  BY DEF GpuCompletes, renderer
<1>4. UNCHANGED <<handles, live, failures>> /\ FramesTyped' BY <1>1, <1>2, CompleteFacts
<1>5. Stored' BY <1>1, <1>3, <1>4 DEF Stored
<1>6. Ended' BY <1>1, <1>3 DEF Ended, Positions
<1>7. Typed' BY <1>1, <1>3, <1>4 DEF Typed
<1>8. Built' BY <1>1, <1>3, <1>4, BuiltKept
<1>9. Held' BY <1>1, <1>3, <1>4, HeldKept
<1> QED BY <1>5, <1>6, <1>7, <1>8, <1>9, TypeFromTyped DEF IInv
-----------------------------------------------------------------------------
(* A draw *)

EntryOf(s, e) == SelectInSeq(s, LAMBDA y : y.entity = e)

LEMMA SearchFacts ==
  ASSUME NEW s, Len(s) \in Nat, NEW e
  PROVE  /\ EntryOf(s, e) \in 0 .. Len(s)
         /\ EntryOf(s, e) = 0 => \A j \in 1 .. Len(s) : s[j].entity # e
         /\ EntryOf(s, e) # 0 =>
              s[EntryOf(s, e)].entity = e /\ \A j \in 1 .. EntryOf(s, e) - 1 : s[j].entity # e
<1> DEFINE I == {j \in 1 .. Len(s) : s[j].entity = e}
<1>1. EntryOf(s, e) = IF I # {} THEN Min(I) ELSE 0 BY DEF SelectInSeq, EntryOf
<1>2. CASE I = {}
  <2>1. \A j \in 1 .. Len(s) : s[j].entity # e BY <1>2
  <2> QED BY <1>1, <1>2, <2>1
<1>3. CASE I # {}
  <2>0. I \in SUBSET Nat OBVIOUS
  <2>1. Min(I) \in I /\ \A j \in I : Min(I) <= j
    <3> HIDE DEF I
    <3> QED BY <1>3, <2>0, LeastChosen
  <2> DEFINE i == Min(I)
  <2>2. i \in 1 .. Len(s) /\ s[i].entity = e /\ \A j \in 1 .. Len(s) : s[j].entity = e => i <= j
    BY <2>1
  <2>3. EntryOf(s, e) = i BY <1>1, <1>3
  <2> HIDE DEF i
  <2>4. \A j \in 1 .. i - 1 : s[j].entity # e BY <2>2
  <2> QED BY <2>2, <2>3, <2>4
<1> QED BY <1>2, <1>3

(* The instance that a draw of e finds or makes is entry j. *)
LEMMA InstanceFacts ==
  ASSUME instances \in Seq(InstanceEntry), frame_counter \in Nat, NEW e \in Entities,
         NEW missing \in SUBSET FrameIndices, NEW inst, inst = InstancesWith(e, missing),
         NEW j, j = EntryOf(inst, e)
  PROVE  /\ inst \in Seq(InstanceEntry) /\ j \in 1 .. Len(inst)
         /\ Len(inst) = (IF InstanceSlot(e) = 0 THEN Len(instances) + 1 ELSE Len(instances))
         /\ j = (IF InstanceSlot(e) = 0 THEN Len(instances) + 1 ELSE InstanceSlot(e))
         /\ inst[j].entity = e /\ inst[j].last = frame_counter
         /\ InstanceSlot(e) = 0 => inst[j].object = Object("instance", e, frame_counter)
         /\ InstanceSlot(e) # 0 => inst[j].object = instances[j].object
         /\ \A i \in 1 .. Len(instances) : i # j => inst[i] = instances[i]
         /\ InstanceSlot(e) = 0 => \A i \in 1 .. Len(instances) : instances[i].entity # e
<1> DEFINE s == InstanceSlot(e)
<1>0. Len(instances) \in Nat BY LenProperties
<1>a. s = EntryOf(instances, e) BY DEF InstanceSlot, EntryOf
<1>1. /\ s \in 0 .. Len(instances)
      /\ s = 0 => \A i \in 1 .. Len(instances) : instances[i].entity # e
      /\ s # 0 => instances[s].entity = e /\ \A i \in 1 .. s - 1 : instances[i].entity # e
  BY <1>0, <1>a, SearchFacts
<1> DEFINE new == [entity |-> e, object |-> Object("instance", e, frame_counter),
                   missing |-> missing, last |-> frame_counter]
<1>2. new \in InstanceEntry BY ObjectFacts, Constants DEF InstanceEntry, Infos
<1>3. inst = IF s = 0 THEN Append(instances, new) ELSE [instances EXCEPT ![s].last = frame_counter]
  BY DEF InstancesWith
<1> HIDE DEF s
<1>4. CASE s = 0
  <2>1. inst = Append(instances, new) BY <1>3, <1>4
  <2>2. new.entity = e /\ new.last = frame_counter /\ new.object = Object("instance", e, frame_counter)
    OBVIOUS
  <2> HIDE DEF new
  <2>3. /\ inst \in Seq(InstanceEntry) /\ Len(inst) = Len(instances) + 1
        /\ \A i \in 1 .. Len(instances) : inst[i] = instances[i]
        /\ inst[Len(instances) + 1] = new
    BY <1>2, <2>1, AppendProperties
  <2>4. /\ j \in 0 .. Len(inst)
        /\ j = 0 => \A i \in 1 .. Len(inst) : inst[i].entity # e
        /\ j # 0 => inst[j].entity = e
    BY <1>0, <2>3, SearchFacts
  <2>5. j = Len(instances) + 1
    <3>1. Len(instances) + 1 \in 1 .. Len(inst) BY <1>0, <2>3
    <3>2. j # 0 BY <2>2, <2>3, <2>4, <3>1
    <3>3. j \in 1 .. Len(instances) => instances[j].entity = e BY <2>3, <2>4, <3>2
    <3> QED BY <1>0, <1>1, <1>4, <2>3, <2>4, <3>2, <3>3
  <2>6. j \in 1 .. Len(inst) BY <1>0, <2>3, <2>5
  <2>7. inst[j] = new BY <2>3, <2>5
  <2> QED BY <1>1, <1>4, <2>2, <2>3, <2>5, <2>6, <2>7 DEF s
<1>5. CASE s # 0
  <2>0. s \in 1 .. Len(instances) BY <1>0, <1>1, <1>5
  <2> DEFINE x == [instances[s] EXCEPT !.last = frame_counter]
  <2>1. inst = [instances EXCEPT ![s] = x] BY <1>3, <1>5
  <2>2. instances[s] \in InstanceEntry BY <2>0, ElementOfSeq
  <2>3. /\ x \in InstanceEntry /\ x.entity = e /\ x.last = frame_counter
        /\ x.object = instances[s].object
    BY <1>1, <1>5, <2>2 DEF InstanceEntry
  <2> HIDE DEF x
  <2>4. /\ inst \in Seq(InstanceEntry) /\ Len(inst) = Len(instances) /\ inst[s] = x
        /\ \A i \in 1 .. Len(instances) : i # s => inst[i] = instances[i]
    BY <2>0, <2>1, <2>3, ExceptSeq
  <2>5. /\ j \in 0 .. Len(inst)
        /\ j = 0 => \A i \in 1 .. Len(inst) : inst[i].entity # e
        /\ j # 0 => inst[j].entity = e /\ \A i \in 1 .. j - 1 : inst[i].entity # e
    BY <1>0, <2>4, SearchFacts
  <2>6. j = s
    <3>1. j # 0 BY <2>0, <2>3, <2>4, <2>5
    <3>2. ~(s < j)
      <4>1. s < j => s \in 1 .. j - 1 BY <1>0, <2>0, <2>4, <2>5
      <4> QED BY <2>3, <2>4, <2>5, <3>1, <4>1
    <3>3. ~(j < s)
      <4>1. j < s => j \in 1 .. s - 1 /\ j \in 1 .. Len(instances) /\ j # s
        BY <1>0, <2>0, <2>4, <2>5, <3>1
      <4> QED BY <1>1, <1>5, <2>4, <2>5, <3>1, <4>1
    <3> QED BY <1>0, <2>0, <2>4, <2>5, <3>2, <3>3
  <2>7. \A i \in 1 .. Len(instances) : i # j => inst[i] = instances[i] BY <2>4, <2>6
  <2>8. j \in 1 .. Len(inst) /\ inst[j] = x BY <2>0, <2>4, <2>6
  <2> QED BY <1>1, <1>5, <2>3, <2>4, <2>6, <2>7, <2>8 DEF s
<1> QED BY <1>4, <1>5

(* The entry of e in a cache, the pointers it ends with, and the objects made. *)
Slot(k, e) == SlotOf(caches[k], InfoFor(k, e))
Pointers(k, e, failed) == Filled(k, Slot(k, e), InfoFor(k, e), failed)
InfoOf(m, e) == CASE m = "instance" -> e [] m = "mesh" -> MeshOf[e] [] OTHER -> Shader
Made(e, failed) == {Object(m, InfoOf(m, e), frame_counter) : m \in Attempts(e) \ failed}
DrawOf(e, failed, object) ==
  [entity |-> e, mesh |-> Pointers("mesh", e, failed)["mesh"],
   shader |-> Pointers("shader", e, failed)["shader"],
   pipeline |-> Pointers("shader", e, failed)["pipeline"], instance |-> object]

LEMMA InfoFacts ==
  ASSUME NEW e \in Entities
  PROVE  /\ \A k \in Kinds : InfoFor(k, e) \in Infos
         /\ MeshOf[e] \in Meshes
         /\ \A k \in Kinds : \A m \in Members[k] : InfoOf(m, e) = InfoFor(k, e)
         /\ InfoOf("instance", e) = e
         /\ \A m \in DOMAIN Parts : InfoOf(m, e) \in Infos
<1>1. MeshOf[e] \in Meshes BY RenderAssumption
<1>2. \A k \in Kinds : InfoFor(k, e) \in Infos BY <1>1 DEF Infos, InfoFor
<1>3. \A k \in Kinds : \A m \in Members[k] : InfoOf(m, e) = InfoFor(k, e)
  BY DEF InfoOf, InfoFor, Kinds, Members
<1>4. InfoOf("instance", e) = e BY DEF InfoOf
<1>5. \A m \in DOMAIN Parts : InfoOf(m, e) \in Infos BY <1>1 DEF InfoOf, Infos
<1> QED BY <1>1, <1>2, <1>3, <1>4, <1>5

(* What fails is a few calls. *)
LEMMA FailFacts ==
  ASSUME NEW e, NEW failed \in SUBSET Attempts(e), NEW missing \in SUBSET FrameIndices
  PROVE  /\ failed \subseteq DOMAIN Parts
         /\ Cardinality(failed) \in Nat /\ Cardinality(missing) \in Nat
         /\ Cardinality(failed) = 0 => failed = {}
<1>1. failed \subseteq {"mesh", "shader", "pipeline", "instance"} BY DEF Attempts, NullIn, Members
<1>2. IsFiniteSet({"mesh", "shader", "pipeline", "instance"})
  <2>1. IsFiniteSet({}) BY FS_EmptySet
  <2>2. IsFiniteSet({} \cup {"mesh"}) BY <2>1, FS_AddElement
  <2>3. IsFiniteSet(({} \cup {"mesh"}) \cup {"shader"}) BY <2>2, FS_AddElement
  <2>4. IsFiniteSet((({} \cup {"mesh"}) \cup {"shader"}) \cup {"pipeline"}) BY <2>3, FS_AddElement
  <2>5. IsFiniteSet(((({} \cup {"mesh"}) \cup {"shader"}) \cup {"pipeline"}) \cup {"instance"})
    BY <2>4, FS_AddElement
  <2>6. ((({} \cup {"mesh"}) \cup {"shader"}) \cup {"pipeline"}) \cup {"instance"}
          = {"mesh", "shader", "pipeline", "instance"}
    OBVIOUS
  <2> QED BY <2>5, <2>6
<1>3. IsFiniteSet(failed) BY <1>1, <1>2, FS_Subset
<1>4. IsFiniteSet(FrameIndices)
  <2>1. 0 \in Int /\ FrameCount - 1 \in Int BY GpuAssumption
  <2> QED BY <2>1, FS_Interval DEF FrameIndices
<1>5. IsFiniteSet(missing) BY <1>4, FS_Subset
<1>6. Cardinality(failed) \in Nat /\ Cardinality(missing) \in Nat BY <1>3, <1>5, FS_CardinalityType
<1>7. Cardinality(failed) = 0 => failed = {} BY <1>3, FS_EmptySet
<1> QED BY <1>1, <1>6, <1>7, Constants

(* A draw of e whose instance is x, as RenderModel takes it. *)
DrawStep(e, failed, missing, x) ==
  /\ command = Model(e) /\ x = InstancesWith(e, missing)[EntryOf(InstancesWith(e, missing), e)]
  /\ failures' \in 0 .. FailureBound /\ failures <= failures' /\ (failures' = 0 => failed = {})
  /\ \/ pc' = "crash" /\ UNCHANGED <<caches, instances, live, recorded>>
     \/ /\ pc' = "pop" /\ ~Dereferenced(failed, DrawOf(e, failed, x.object), x)
        /\ \A k \in Kinds : caches'[k] = GetOrCreate(k, InfoFor(k, e), failed)
        /\ instances' = InstancesWith(e, missing)
        /\ live' = live \cup Made(e, failed)
        /\ recorded' = recorded \cup {DrawOf(e, failed, x.object)}

LEMMA DrawFacts ==
  ASSUME Typed, Stored, RenderModel
  PROVE  /\ pc = "model"
         /\ UNCHANGED <<queue, game, command, recording, frame_counter, handles, frames>>
         /\ \E e \in Entities : \E failed \in SUBSET Attempts(e) : \E missing \in SUBSET FrameIndices : \E x :
              DrawStep(e, failed, missing, x)
<1> DEFINE e == command.entity
<1>1. pc = "model" /\ UNCHANGED <<queue, game, command, recording, frame_counter, handles, frames>>
  BY DEF RenderModel
<1>2. e \in Entities /\ command = Model(e)
  <2>1. command \in Models BY <1>1 DEF Stored
  <2> QED BY <2>1 DEF Models, Model
<1> HIDE DEF e
<1>a. PICK failed \in SUBSET Attempts(e), missing \in SUBSET FrameIndices : \E k :
        Cardinality(failed) + Cardinality(missing) <= FailureBound - failures /\ Draw(e, failed, missing, k)
  BY DEF RenderModel, e
<1>3. PICK k :
        Cardinality(failed) + Cardinality(missing) <= FailureBound - failures /\ Draw(e, failed, missing, k)
  BY <1>a
<1> DEFINE new == [kind \in DOMAIN Members |-> GetOrCreate(kind, InfoFor(kind, e), failed)]
           inst == InstancesWith(e, missing)
           x == inst[EntryOf(inst, e)]
           pointers(kind) == new[kind].slots[SlotOf(caches[kind], InfoFor(kind, e))].objects
           object(m) == Object(m, InfoOf(m, e), frame_counter)
           d == [entity |-> e, mesh |-> pointers("mesh").mesh, shader |-> pointers("shader").shader,
                 pipeline |-> pointers("shader").pipeline, instance |-> x.object]
<1>4. /\ failures' = failures + Cardinality(failed) + Cardinality(missing)
      /\ IF Dereferenced(failed, d, x)
             THEN pc' = "crash" /\ UNCHANGED <<caches, instances, live, recorded>>
             ELSE /\ caches' = new
                  /\ instances' = inst
                  /\ live' = Create({object(m) : m \in Attempts(e) \ failed},
                                    {object(m) : m \in failed}, k)
                  /\ recorded' = recorded \cup {d}
                  /\ pc' = "pop"
  BY <1>3 DEF Draw, InfoOf, EntryOf
<1>5. \A c \in Kinds : CacheOK(c) BY DEF Typed, Stored, CacheOK
<1>6. \A c \in Kinds : pointers(c) = Pointers(c, e, failed)
  <2> SUFFICES ASSUME NEW c \in Kinds PROVE pointers(c) = Pointers(c, e, failed) OBVIOUS
  <2>1. new[c] = GetOrCreate(c, InfoFor(c, e), failed) BY Constants
  <2>2. CacheOK(c) /\ InfoFor(c, e) \in Infos BY <1>2, <1>5, InfoFacts
  <2>3. new[c].slots[Slot(c, e)] =
          [info |-> InfoFor(c, e), last |-> frame_counter,
           objects |-> Filled(c, Slot(c, e), InfoFor(c, e), failed)]
    <3> HIDE DEF new
    <3> QED BY <2>1, <2>2, GetOrCreateFacts DEF Slot
  <2> HIDE DEF new
  <2> QED BY <2>3 DEF Pointers, Slot
<1>7. d = DrawOf(e, failed, x.object)
  <2>1. "mesh" \in Kinds /\ "shader" \in Kinds BY DEF Kinds
  <2>2. pointers("mesh") = Pointers("mesh", e, failed) /\ pointers("shader") = Pointers("shader", e, failed)
    BY <1>6, <2>1
  <2> HIDE DEF x, inst, pointers
  <2> QED BY <2>2 DEF DrawOf, d
<1>8. failed \subseteq DOMAIN Parts BY FailFacts
<1>9. {object(m) : m \in failed} \subseteq Objects
  <2>1. frame_counter \in Nat BY DEF Typed
  <2> QED BY <1>2, <1>8, <2>1, InfoFacts, ObjectFacts
<1>10. Create({object(m) : m \in Attempts(e) \ failed}, {object(m) : m \in failed}, k) = live \cup Made(e, failed)
  BY <1>9, CreateDestroy DEF Made
<1>11. failures' \in 0 .. FailureBound /\ failures <= failures' /\ (failures' = 0 => failed = {})
  <2>1. failures \in Nat /\ FailureBound \in Nat BY GpuAssumption DEF Typed
  <2>2. Cardinality(failed) \in Nat /\ Cardinality(missing) \in Nat /\ (Cardinality(failed) = 0 => failed = {})
    BY FailFacts
  <2>3. Cardinality(failed) + Cardinality(missing) <= FailureBound - failures
        /\ failures' = failures + Cardinality(failed) + Cardinality(missing)
    BY <1>3, <1>4
  <2>4. failures' \in 0 .. FailureBound /\ failures <= failures'
        /\ (failures' = 0 => Cardinality(failed) = 0)
    <3> DEFINE c == Cardinality(failed)
               b == Cardinality(missing)
    <3>1. c \in Nat /\ b \in Nat /\ c + b <= FailureBound - failures /\ failures' = failures + c + b
      BY <2>2, <2>3
    <3> HIDE DEF b, c
    <3>2. failures' \in 0 .. FailureBound /\ failures <= failures' /\ (failures' = 0 => c = 0)
      BY SMTT(30), <2>1, <3>1
    <3> QED BY <3>2 DEF c
  <2> QED BY <2>2, <2>4
<1>12. \A c \in Kinds : new[c] = GetOrCreate(c, InfoFor(c, e), failed) BY Constants
<1> HIDE DEF new, inst, d, object
<1>13. \/ pc' = "crash" /\ UNCHANGED <<caches, instances, live, recorded>>
       \/ /\ pc' = "pop" /\ ~Dereferenced(failed, DrawOf(e, failed, x.object), x)
          /\ \A c \in Kinds : caches'[c] = GetOrCreate(c, InfoFor(c, e), failed)
          /\ instances' = inst
          /\ live' = live \cup Made(e, failed)
          /\ recorded' = recorded \cup {DrawOf(e, failed, x.object)}
  BY <1>4, <1>7, <1>10, <1>12
<1>14. DrawStep(e, failed, missing, x) BY <1>2, <1>11, <1>13 DEF DrawStep, inst
<1> QED BY <1>1, <1>2, <1>14

(* A cache after a draw of e has the entry of e at Slot(k, e), used in this frame,
   and the other entries that it had. *)
LEMMA CacheAfter ==
  ASSUME Typed, Stored, NEW e \in Entities, NEW failed, NEW k \in Kinds,
         NEW new, new = GetOrCreate(k, InfoFor(k, e), failed)
  PROVE  /\ Slot(k, e) \in 1 .. new.count
         /\ new.slots \in Seq(Entry(k)) /\ new.count \in 0 .. Len(new.slots)
         /\ new.slots[Slot(k, e)] =
              [info |-> InfoFor(k, e), last |-> frame_counter, objects |-> Pointers(k, e, failed)]
         /\ \A i \in 1 .. caches[k].count :
              i \in 1 .. new.count /\ i \in 1 .. Len(caches[k].slots)
         /\ \A i \in 1 .. new.count :
              i = Slot(k, e) \/ (i \in 1 .. caches[k].count /\ new.slots[i] = caches[k].slots[i])
         /\ Slot(k, e) \in 1 .. caches[k].count \/
              (Slot(k, e) = caches[k].count + 1 /\ \A i \in 1 .. caches[k].count : caches[k].slots[i].info # InfoFor(k, e))
         /\ Slot(k, e) \in 1 .. caches[k].count => caches[k].slots[Slot(k, e)].info = InfoFor(k, e)
         /\ caches[k].count = Len(caches[k].slots) => new.count = Len(new.slots)
<1>1. CacheOK(k) /\ InfoFor(k, e) \in Infos BY InfoFacts DEF Typed, Stored, CacheOK
<1> DEFINE i == Slot(k, e)
           c == caches[k].count
           s == caches[k].slots
<1>2. Len(s) \in Nat /\ c \in 0 .. Len(s) /\ c \in Nat BY <1>1, LenProperties DEF CacheOK
<1>3. i = SlotOf(caches[k], InfoFor(k, e)) BY DEF Slot
<1>4. /\ i \in 1 .. c + 1
      /\ i <= c => s[i].info = InfoFor(k, e)
      /\ i = c + 1 => \A j \in 1 .. c : s[j].info # InfoFor(k, e)
  BY <1>2, <1>3, SlotFacts
<1> HIDE DEF i
<1>5. /\ new.slots \in Seq(Entry(k))
      /\ Len(new.slots) = (IF i = Len(s) + 1 THEN i ELSE Len(s))
      /\ new.count = (IF i <= c THEN c ELSE i)
      /\ new.count \in 0 .. Len(new.slots)
      /\ new.slots[i] = [info |-> InfoFor(k, e), last |-> frame_counter,
                         objects |-> Filled(k, i, InfoFor(k, e), failed)]
      /\ \A j \in 1 .. Len(s) : j # i => new.slots[j] = s[j]
  BY <1>1, <1>3, GetOrCreateFacts
<1> HIDE DEF c, s
<1>6. i \in 1 .. new.count
  <2>1. i \in Nat /\ 1 <= i /\ i <= c + 1 BY <1>2, <1>4
  <2>2. CASE i <= c BY <1>2, <1>5, <2>1, <2>2
  <2>3. CASE ~(i <= c) BY <1>5, <2>1, <2>3
  <2> QED BY <2>2, <2>3
<1>7. \A j \in 1 .. c : j \in 1 .. new.count /\ j \in 1 .. Len(s)
  <2>1. new.count = c \/ new.count = c + 1 BY <1>2, <1>4, <1>5
  <2> QED BY <1>2, <2>1
<1>8. ASSUME NEW j \in 1 .. new.count, j # i
      PROVE  j \in 1 .. c /\ new.slots[j] = s[j]
  <2>1. j \in 1 .. c
    <3>1. CASE i <= c
      <4>1. new.count = c BY <1>5, <3>1
      <4> QED BY <4>1
    <3>2. CASE ~(i <= c)
      <4>1. new.count = c + 1 /\ i = c + 1 BY <1>2, <1>4, <1>5, <3>2
      <4> QED BY <1>2, <1>8, <4>1
    <3> QED BY <3>1, <3>2
  <2>2. j \in 1 .. Len(s) BY <1>2, <2>1
  <2> QED BY <1>5, <1>8, <2>1, <2>2
<1>9. i \in 1 .. c \/ (i = c + 1 /\ \A j \in 1 .. c : s[j].info # InfoFor(k, e)) BY <1>2, <1>4
<1>10. i \in 1 .. c => s[i].info = InfoFor(k, e) BY <1>4
<1>11. new.slots[i] = [info |-> InfoFor(k, e), last |-> frame_counter, objects |-> Pointers(k, e, failed)]
  BY <1>5 DEF Pointers, i
<1>12. c = Len(s) => new.count = Len(new.slots) BY <1>2, <1>4, <1>5
<1> QED BY <1>5, <1>6, <1>7, <1>8, <1>9, <1>10, <1>11, <1>12 DEF i, c, s

(* Every object that a draw makes is in the slot of its info, or its instance's,
   and what the slots pointed to they point to still. *)
LEMMA DrawHolds ==
  ASSUME Typed, Stored, Held, NEW e \in Entities, NEW failed \in SUBSET Attempts(e),
         NEW missing \in SUBSET FrameIndices, instances' = InstancesWith(e, missing),
         \A k \in Kinds : caches'[k] = GetOrCreate(k, InfoFor(k, e), failed),
         live' = live \cup Made(e, failed), frame_counter' = frame_counter
  PROVE  /\ \A k \in Kinds : caches'[k].slots \in Seq(Entry(k)) /\ caches'[k].count \in 0 .. Len(caches'[k].slots)
         /\ instances' \in Seq(InstanceEntry)
         /\ live' \subseteq Objects
         /\ Held'
<1>0. frame_counter \in Nat /\ instances \in Seq(InstanceEntry) /\ Len(instances) \in Nat
  BY LenProperties DEF Typed, Stored
<1>1. ASSUME NEW k \in Kinds
      PROVE  /\ Slot(k, e) \in 1 .. caches'[k].count
             /\ caches'[k].slots \in Seq(Entry(k)) /\ caches'[k].count \in 0 .. Len(caches'[k].slots)
             /\ caches'[k].slots[Slot(k, e)].info = InfoFor(k, e)
             /\ caches'[k].slots[Slot(k, e)].last = frame_counter
             /\ caches'[k].slots[Slot(k, e)].objects = Pointers(k, e, failed)
             /\ \A i \in 1 .. caches[k].count :
                  i \in 1 .. caches'[k].count /\ i \in 1 .. Len(caches[k].slots)
             /\ \A i \in 1 .. caches'[k].count :
                  i = Slot(k, e) \/ (i \in 1 .. caches[k].count /\ caches'[k].slots[i] = caches[k].slots[i])
  <2> DEFINE new == caches'[k]
  <2>1. new = GetOrCreate(k, InfoFor(k, e), failed) OBVIOUS
  <2> HIDE DEF new
  <2>2. /\ Slot(k, e) \in 1 .. new.count
        /\ new.slots \in Seq(Entry(k)) /\ new.count \in 0 .. Len(new.slots)
        /\ new.slots[Slot(k, e)] =
             [info |-> InfoFor(k, e), last |-> frame_counter, objects |-> Pointers(k, e, failed)]
        /\ \A i \in 1 .. caches[k].count : i \in 1 .. new.count /\ i \in 1 .. Len(caches[k].slots)
        /\ \A i \in 1 .. new.count :
             i = Slot(k, e) \/ (i \in 1 .. caches[k].count /\ new.slots[i] = caches[k].slots[i])
    BY <2>1, CacheAfter
  <2>3. /\ new.slots[Slot(k, e)].info = InfoFor(k, e)
        /\ new.slots[Slot(k, e)].last = frame_counter
        /\ new.slots[Slot(k, e)].objects = Pointers(k, e, failed)
    BY <2>2
  <2> QED BY <2>2, <2>3 DEF new
<1> DEFINE j == EntryOf(instances', e)
<1>2. /\ instances' \in Seq(InstanceEntry) /\ j \in 1 .. Len(instances')
      /\ Len(instances') = (IF InstanceSlot(e) = 0 THEN Len(instances) + 1 ELSE Len(instances))
      /\ j = (IF InstanceSlot(e) = 0 THEN Len(instances) + 1 ELSE InstanceSlot(e))
      /\ instances'[j].last = frame_counter
      /\ InstanceSlot(e) = 0 => instances'[j].object = Object("instance", e, frame_counter)
      /\ InstanceSlot(e) # 0 => instances'[j].object = instances[j].object
      /\ \A i \in 1 .. Len(instances) : i # j => instances'[i] = instances[i]
  BY <1>0, InstanceFacts
<1> HIDE DEF j
<1>3. ASSUME NEW k \in Kinds, NEW m \in NullIn(k, e), m \notin failed
      PROVE  Object(m, InfoOf(m, e), frame_counter) \in HeldBy(k)'
  <2>1. m \in Members[k] /\ PointersIn(caches[k], k, Slot(k, e))[m] = Null BY <1>3 DEF NullIn, Slot
  <2>2. InfoOf(m, e) = InfoFor(k, e) BY <2>1, InfoFacts
  <2>3. Pointers(k, e, failed)[m] = Object(m, InfoOf(m, e), frame_counter)
    BY <1>3, <2>1, <2>2 DEF Pointers, Filled
  <2>4. Slot(k, e) \in 1 .. caches'[k].count BY <1>1
  <2>5. caches'[k].slots[Slot(k, e)].objects[m] = Object(m, InfoOf(m, e), frame_counter) BY <1>1, <2>3
  <2> QED BY <2>1, <2>4, <2>5 DEF HeldBy
<1>4. ASSUME NEW o \in Made(e, failed)
      PROVE  o \in Objects /\ o \in HeldBy("mesh")' \cup HeldBy("shader")' \cup InstanceObjects'
  <2>1. PICK m \in Attempts(e) \ failed : o = Object(m, InfoOf(m, e), frame_counter) BY DEF Made
  <2>2. m \in DOMAIN Parts BY Constants DEF Attempts, NullIn, Kinds
  <2>3. o \in Objects BY <1>0, <2>1, <2>2, InfoFacts, ObjectFacts
  <2>a. "mesh" \in Kinds /\ "shader" \in Kinds /\ m \notin failed BY <2>1 DEF Kinds
  <2>4. CASE m \in NullIn("mesh", e)
    <3>1. o \in HeldBy("mesh")' BY <1>3, <2>a, <2>1, <2>4
    <3> QED BY <2>3, <3>1
  <2>5. CASE m \in NullIn("shader", e)
    <3>1. o \in HeldBy("shader")' BY <1>3, <2>a, <2>1, <2>5
    <3> QED BY <2>3, <3>1
  <2>6. CASE m = "instance" /\ InstanceSlot(e) = 0
    <3>1. o = instances'[j].object BY <1>2, <2>1, <2>6, InfoFacts
    <3> QED BY <1>2, <2>3, <3>1 DEF InstanceObjects
  <2> QED BY <2>1, <2>3, <2>4, <2>5, <2>6 DEF Attempts
<1>5. ASSUME NEW k \in Kinds, NEW o \in HeldBy(k), o # Null
      PROVE  o \in HeldBy(k)'
  <2>1. PICK i \in 1 .. caches[k].count, m \in Members[k] : o = caches[k].slots[i].objects[m] BY DEF HeldBy
  <2>2. i \in 1 .. caches'[k].count /\ i \in 1 .. Len(caches[k].slots) BY <1>1
  <2>3. CASE i = Slot(k, e)
    <3>1. PointersIn(caches[k], k, i)[m] = o BY <2>1, <2>2 DEF PointersIn
    <3>2. Pointers(k, e, failed)[m] = o BY <1>5, <2>3, <3>1 DEF Pointers, Filled
    <3>3. caches'[k].slots[i].objects[m] = o BY <1>1, <2>3, <3>2
    <3> QED BY <2>2, <3>3 DEF HeldBy
  <2>4. CASE i # Slot(k, e)
    <3>1. caches'[k].slots[i] = caches[k].slots[i] BY <1>1, <2>2, <2>4
    <3>2. i \in 1 .. caches'[k].count /\ m \in Members[k] /\ caches'[k].slots[i].objects[m] = o
      BY <2>1, <2>2, <3>1
    <3> QED BY <3>2 DEF HeldBy
  <2> QED BY <2>3, <2>4
<1>6. ASSUME NEW o \in InstanceObjects
      PROVE  o \in InstanceObjects'
  <2>1. PICK i \in 1 .. Len(instances) : o = instances[i].object BY DEF InstanceObjects
  <2>2. i \in 1 .. Len(instances') BY <1>0, <1>2
  <2>3. instances'[i].object = o
    <3>1. CASE i # j BY <1>2, <2>1, <3>1
    <3>2. CASE i = j
      <4>1. InstanceSlot(e) # 0 BY <1>0, <1>2, <2>1, <3>2
      <4> QED BY <1>2, <2>1, <3>2, <4>1
    <3> QED BY <3>1, <3>2
  <2> QED BY <2>2, <2>3 DEF InstanceObjects
<1>7. live' \subseteq Objects BY <1>4 DEF Typed
<1>8. live' \subseteq HeldBy("mesh")' \cup HeldBy("shader")' \cup InstanceObjects'
  <2> SUFFICES ASSUME NEW o \in live, o \in Objects
               PROVE  o \in HeldBy("mesh")' \cup HeldBy("shader")' \cup InstanceObjects'
    BY <1>4 DEF Typed
  <2>1. o # Null BY NullIsNone
  <2>2. o \in HeldBy("mesh") \/ o \in HeldBy("shader") \/ o \in InstanceObjects BY DEF Held
  <2> QED BY <1>5, <1>6, <2>1, <2>2 DEF Kinds
<1>9. \A k \in Kinds : \A i \in 1 .. caches'[k].count : caches'[k].slots[i].last <= frame_counter'
  <2> SUFFICES ASSUME NEW k \in Kinds, NEW i \in 1 .. caches'[k].count
               PROVE  caches'[k].slots[i].last <= frame_counter
    OBVIOUS
  <2>1. CASE i = Slot(k, e)
    <3>1. caches'[k].slots[i].last = frame_counter BY <1>1, <2>1
    <3> QED BY <1>0, <3>1
  <2>2. CASE i # Slot(k, e)
    <3>1. i \in 1 .. caches[k].count /\ caches'[k].slots[i] = caches[k].slots[i] BY <1>1, <2>2
    <3> QED BY <3>1 DEF Held
  <2> QED BY <2>1, <2>2
<1>10. \A i \in 1 .. Len(instances') : instances'[i].last <= frame_counter'
  <2> SUFFICES ASSUME NEW i \in 1 .. Len(instances')
               PROVE  instances'[i].last <= frame_counter
    OBVIOUS
  <2>1. CASE i = j BY <1>0, <1>2, <2>1
  <2>2. CASE i # j
    <3>1. i \in 1 .. Len(instances) BY <1>0, <1>2, <2>2
    <3> QED BY <1>2, <2>2, <3>1 DEF Held
  <2> QED BY <2>1, <2>2
<1>11. Held' BY <1>8, <1>9, <1>10 DEF Held
<1> QED BY <1>1, <1>2, <1>7, <1>11
(* The draw that is recorded. *)
LEMMA DrawTypes ==
  ASSUME Typed, Stored, NEW e \in Entities, NEW failed \in SUBSET Attempts(e),
         NEW missing \in SUBSET FrameIndices, NEW inst, inst = InstancesWith(e, missing),
         NEW x, x = inst[EntryOf(inst, e)]
  PROVE  /\ x \in InstanceEntry
         /\ \A k \in Kinds : Pointers(k, e, failed) \in [Members[k] -> Objects \cup {Null}]
         /\ ~Dereferenced(failed, DrawOf(e, failed, x.object), x) =>
              recording /\ DrawOf(e, failed, x.object) \in Draws
<1>1. frame_counter \in Nat /\ instances \in Seq(InstanceEntry) BY DEF Typed, Stored
<1>2. x \in InstanceEntry
  <2> DEFINE j == EntryOf(inst, e)
  <2>1. inst \in Seq(InstanceEntry) /\ j \in 1 .. Len(inst) BY <1>1, InstanceFacts
  <2> HIDE DEF j
  <2>2. inst[j] \in InstanceEntry BY <2>1, ElementOfSeq
  <2> QED BY <2>2 DEF j
<1>3. ASSUME NEW k \in Kinds
      PROVE  Pointers(k, e, failed) \in [Members[k] -> Objects \cup {Null}]
  <2>1. CacheOK(k) BY DEF Typed, Stored, CacheOK
  <2>2. InfoFor(k, e) \in Infos BY InfoFacts
  <2>3. Slot(k, e) \in 1 .. Len(caches[k].slots) + 1
    <3>1. Len(caches[k].slots) \in Nat /\ caches[k].count \in 0 .. Len(caches[k].slots)
      BY <2>1, LenProperties DEF CacheOK
    <3>2. Slot(k, e) \in 1 .. caches[k].count + 1 BY <3>1, SlotFacts DEF Slot
    <3> QED BY <3>1, <3>2
  <2> QED BY <2>1, <2>2, <2>3, PointersFacts DEF Pointers
<1>4. "mesh" \in Members["mesh"] /\ {"shader", "pipeline"} \subseteq Members["shader"] BY Constants
<1>5. /\ Pointers("mesh", e, failed)["mesh"] \in Objects \cup {Null}
      /\ Pointers("shader", e, failed)["shader"] \in Objects \cup {Null}
      /\ Pointers("shader", e, failed)["pipeline"] \in Objects \cup {Null}
  BY <1>3, <1>4 DEF Kinds
<1>6. ASSUME ~Dereferenced(failed, DrawOf(e, failed, x.object), x)
      PROVE  recording /\ DrawOf(e, failed, x.object) \in Draws
  <2>1. recording /\ "shader" \notin failed BY <1>6 DEF Dereferenced
  <2>2. Pointers("shader", e, failed)["shader"] # Null
    <3>1. "shader" \in DOMAIN Parts BY Constants
    <3> QED BY <1>4, <2>1, <3>1, ObjectFacts DEF Pointers, Filled
  <2>3. x.object \in Objects BY <1>2 DEF InstanceEntry
  <2> QED BY <1>5, <2>1, <2>2, <2>3 DEF DrawOf, Draws
<1> QED BY <1>2, <1>3, <1>6

LEMMA RenderModelKeeps ==
  ASSUME IInv, RenderModel
  PROVE  IInv'
<1>1. Typed /\ Stored /\ Ended /\ Built /\ Held BY TypedFromType DEF IInv
<1>a. PICK e \in Entities : \E failed \in SUBSET Attempts(e) : \E missing \in SUBSET FrameIndices : \E x :
        DrawStep(e, failed, missing, x)
  BY <1>1, DrawFacts
<1>b. PICK failed \in SUBSET Attempts(e) : \E missing \in SUBSET FrameIndices : \E x :
        DrawStep(e, failed, missing, x)
  BY <1>a
<1>c. PICK missing \in SUBSET FrameIndices : \E x : DrawStep(e, failed, missing, x) BY <1>b
<1>d. PICK x : DrawStep(e, failed, missing, x) BY <1>c
<1>2. /\ command = Model(e) /\ x = InstancesWith(e, missing)[EntryOf(InstancesWith(e, missing), e)]
      /\ failures' \in 0 .. FailureBound /\ failures <= failures' /\ (failures' = 0 => failed = {})
      /\ \/ pc' = "crash" /\ UNCHANGED <<caches, instances, live, recorded>>
         \/ /\ pc' = "pop" /\ ~Dereferenced(failed, DrawOf(e, failed, x.object), x)
            /\ \A k \in Kinds : caches'[k] = GetOrCreate(k, InfoFor(k, e), failed)
            /\ instances' = InstancesWith(e, missing)
            /\ live' = live \cup Made(e, failed)
            /\ recorded' = recorded \cup {DrawOf(e, failed, x.object)}
  BY <1>d DEF DrawStep
<1>3. pc = "model" /\ UNCHANGED <<queue, game, command, recording, frame_counter, handles, frames>>
  BY <1>1, DrawFacts
<1>4. command # Quit BY <1>2, CommandTypes
<1>5. Ended' BY <1>1, <1>2, <1>3 DEF Ended, Ending, Positions
<1>6. Built' BY <1>1, <1>2, <1>3, <1>4 DEF Built, GpuReady
<1>7. CASE pc' = "crash"
  <2>1. UNCHANGED <<caches, instances, live, recorded>> BY <1>2, <1>7
  <2>2. Typed' BY <1>1, <1>2, <1>3, <1>7, <2>1 DEF Typed
  <2>3. Stored' BY <1>1, <1>3, <1>7, <2>1 DEF Stored, FramesTyped, frames
  <2>4. Held' BY <1>1, <1>3, <2>1, HeldKept
  <2> QED BY <1>5, <1>6, <2>2, <2>3, <2>4, TypeFromTyped DEF IInv
<1>8. CASE pc' = "pop"
  <2>1. /\ ~Dereferenced(failed, DrawOf(e, failed, x.object), x)
        /\ \A k \in Kinds : caches'[k] = GetOrCreate(k, InfoFor(k, e), failed)
        /\ instances' = InstancesWith(e, missing)
        /\ live' = live \cup Made(e, failed)
        /\ recorded' = recorded \cup {DrawOf(e, failed, x.object)}
    BY <1>2, <1>8
  <2>2. /\ \A k \in Kinds : caches'[k].slots \in Seq(Entry(k)) /\ caches'[k].count \in 0 .. Len(caches'[k].slots)
        /\ instances' \in Seq(InstanceEntry) /\ live' \subseteq Objects /\ Held'
    BY <1>1, <1>3, <2>1, DrawHolds
  <2>3. recorded' \subseteq Draws
    <3>1. DrawOf(e, failed, x.object) \in Draws BY <1>1, <1>2, <2>1, DrawTypes
    <3> QED BY <1>1, <2>1, <3>1 DEF Typed
  <2>4. Typed' BY <1>1, <1>2, <1>3, <1>8, <2>2, <2>3 DEF Typed
  <2>5. Stored' BY <1>1, <1>3, <1>8, <2>2 DEF Stored, FramesTyped, frames
  <2> QED BY <1>5, <1>6, <2>2, <2>4, <2>5, TypeFromTyped DEF IInv
<1> QED BY <1>2, <1>7, <1>8
-----------------------------------------------------------------------------
(* The invariant and what it implies *)

LEMMA Begins ==
  ASSUME Init
  PROVE  IInv
<1>1. /\ queue = << >> /\ game = [pc |-> "play", drawn |-> {}, frames |-> 0]
      /\ pc = "gpu_create" /\ command = Quit /\ recording = FALSE /\ recorded = {}
      /\ frame_counter = 0 /\ instances = << >>
      /\ handles = {} /\ live = {} /\ frame_index = 0 /\ failures = 0
      /\ fences = [i \in FrameIndices |-> TRUE] /\ flight = {} /\ signals = 0
      /\ starved = FALSE /\ unwaited = FALSE
  BY DEF Init, GpuInit
<1>2. \A k \in Kinds : caches[k].slots = << >> /\ caches[k].count = 0 BY Constants DEF Init
<1>3. Len(<< >>) = 0 /\ \A S : << >> \in Seq(S) BY EmptySeq
<1>4. Stored
  <2>1. \A k \in Kinds : caches[k].slots \in Seq(Entry(k)) BY <1>2, <1>3
  <2>2. instances \in Seq(InstanceEntry) BY <1>1, <1>3
  <2>3. FramesTyped
    <3>1. frame_index \in FrameIndices BY <1>1, GpuAssumption DEF FrameIndices
    <3>2. fences \in [FrameIndices -> BOOLEAN] BY <1>1
    <3>3. /\ starved \in BOOLEAN /\ unwaited \in BOOLEAN
          /\ flight \subseteq [index : FrameIndices, number : Nat, draws : SUBSET Draws]
      BY <1>1
    <3>4. signals \in Nat BY <1>1
    <3> QED BY <3>1, <3>2, <3>3, <3>4 DEF FramesTyped
  <2> QED BY <1>1, <2>1, <2>2, <2>3 DEF Stored
<1>5. game.pc = "play" /\ Positions = {} BY <1>1, <1>3 DEF Positions
<1>6. Ended BY <1>1, <1>5 DEF Ended, Ending
<1>7. Built BY <1>1 DEF Built
<1>8. Held
  <2>1. \A k \in Kinds : 1 .. caches[k].count = {} BY <1>2
  <2>2. 1 .. Len(instances) = {} BY <1>1, <1>3
  <2> QED BY <1>1, <2>1, <2>2 DEF Held
<1>9. TypeOK
  <2>1. queue \in Seq({Quit, FrameDone} \cup {Model(e) : e \in Entities}) /\ Len(queue) <= QueueMax
    BY <1>1, <1>3, RenderAssumption
  <2>2. game \in [pc : {"play", "join", "destroyed"}, drawn : SUBSET Entities, frames : 0 .. FrameBound]
    BY <1>1, RenderAssumption
  <2>3. failures \in 0 .. FailureBound BY <1>1, GpuAssumption
  <2>4. FramesTyped BY <1>4 DEF Stored
  <2>5. \A k \in DOMAIN Members : caches[k].count \in 0 .. Len(caches[k].slots)
    BY <1>2, <1>3, Constants
  <2>6. ToSet(instances) = {} BY <1>1 DEF ToSet
  <2> QED BY <1>1, <2>1, <2>2, <2>3, <2>4, <2>5, <2>6 DEF TypeOK, FramesTyped
<1> QED BY <1>4, <1>6, <1>7, <1>8, <1>9 DEF IInv

LEMMA Stutters ==
  ASSUME IInv, UNCHANGED vars
  PROVE  IInv'
<1>1. UNCHANGED <<queue, game, pc, command, recording, recorded, frame_counter, caches, instances,
                  handles, live, frames, failures>>
  BY DEF vars, renderer, gpu
<1>2. TypeOK' BY <1>1 DEF IInv, TypeOK, frames
<1>3. Stored' BY <1>1, StoredKept DEF IInv, Stored
<1>4. Ended' BY <1>1 DEF IInv, Ended, Positions
<1>5. Built' BY <1>1, BuiltKept DEF IInv
<1>6. Held' BY <1>1, HeldKept DEF IInv
<1> QED BY <1>2, <1>3, <1>4, <1>5, <1>6 DEF IInv

(* IInv is inductive. *)
LEMMA Inductive ==
  ASSUME IInv, [Next]_vars
  PROVE  IInv'
<1>1. CASE \E e \in Entities : PushModel(e) BY <1>1, PushModelKeeps
<1>2. CASE PushDone BY <1>2, PushDoneKeeps
<1>3. CASE RenderDestroy BY <1>3, RenderDestroyKeeps
<1>4. CASE GameDestroy BY <1>4, GameDestroyKeeps
<1>5. CASE RenderCreate BY <1>5, RenderCreateKeeps
<1>6. CASE RenderPop BY <1>6, RenderPopKeeps
<1>7. CASE RenderModel BY <1>7, RenderModelKeeps
<1>8. CASE FrameEnd BY <1>8, FrameEndKeeps
<1>9. CASE FrameStale BY <1>9, FrameStaleKeeps
<1>10. CASE RenderExit BY <1>10, RenderExitKeeps
<1>11. CASE RenderGpuDestroy BY <1>11, RenderGpuDestroyKeeps
<1>12. CASE GpuCompletes BY <1>12, GpuCompletesKeeps
<1>13. CASE UNCHANGED vars BY <1>13, Stutters
<1>14. CASE FrameAcquired BY <1>14, FrameAcquiredKeeps
<1>15. CASE RenderGpuIdle BY <1>15, RenderGpuIdleKeeps
<1> QED
  BY <1>1, <1>2, <1>3, <1>4, <1>5, <1>6, <1>7, <1>8, <1>9, <1>10, <1>11, <1>12, <1>13, <1>14, <1>15
  DEF Next, RenderThread

LEMMA Invariant == Spec => []IInv
<1>1. Init => IInv BY Begins
<1>2. IInv /\ [Next]_vars => IInv' BY Inductive
<1> QED BY <1>1, <1>2, PTL DEF Spec

(* Every variable has its type: a frame index and the numbers of frames, the
   commands and draws and the entries of caches, whatever the driver's number
   of images. *)
THEOREM TypeCorrect == Spec => []TypeOK
<1>1. IInv => TypeOK BY DEF IInv
<1> QED BY <1>1, Invariant, PTL

(* render_destroy joins the render thread before the game and its meshes are
   destroyed, so no command is left that points to them (main.c:83). *)
THEOREM GameIsLast == Spec => []GameOutlivesCommands
<1>1. ASSUME IInv PROVE GameOutlivesCommands
  BY <1>1 DEF IInv, Ended, Ending, GameOutlivesCommands
<1> QED BY <1>1, Invariant, PTL

(* Neither gpu_destroy nor the failure of gpu_create at any call releases a
   handle before what was made from it, but the depth view before the
   framebuffers. *)
THEOREM ReleasedInOrder == Spec => []ChildrenFirst
<1>1. ASSUME IInv PROVE ChildrenFirst
  <2>1. Built BY <1>1 DEF IInv
  <2>2. {<<"device", 0>>, <<"descriptor_pool", 0>>, <<"render_pass", 0>>} \subseteq ToSet(CreationOrder)
    BY Creation DEF AllHandles, One
  <2> QED BY <2>1, <2>2 DEF Built, ChildrenFirst, GpuReady
<1> QED BY <1>1, Invariant, PTL

(* The render thread destroys everything that it and gpu_create made, also when
   gpu_create fails. *)
THEOREM NothingIsLeft == Spec => []NothingLeft
<1>1. ASSUME IInv PROVE NothingLeft
  BY <1>1 DEF IInv, Built, Ended, Ending, NothingLeft
<1> QED BY <1>1, Invariant, PTL
-----------------------------------------------------------------------------
(* What every frame uses, when every mesh is drawn in every frame *)

Unfinished == pc \notin {"frame_done", "submit", "stale"}

(* A step that leaves the part of the queue before i alone. *)
LEMMA DrawnKept ==
  ASSUME NEW e, NEW i \in Nat, \A k \in 1 .. i - 1 : queue'[k] = queue[k], DrawnBy(e, i),
         Unfinished => Unfinished' /\ (Touched(e) => Touched(e)'),
         Unfinished /\ pc = "model" /\ command = Model(e) =>
           Touched(e)' \/ (pc' = "model" /\ command' = Model(e))
  PROVE  DrawnBy(e, i)'
<1>1. CASE \E j \in 1 .. i - 1 : queue[j] = Model(e) /\ \A k \in j + 1 .. i - 1 : queue[k] # FrameDone
  <2>1. PICK j \in 1 .. i - 1 : queue[j] = Model(e) /\ \A k \in j + 1 .. i - 1 : queue[k] # FrameDone BY <1>1
  <2>2. \A k \in j + 1 .. i - 1 : k \in 1 .. i - 1 OBVIOUS
  <2>3. queue'[j] = Model(e) /\ \A k \in j + 1 .. i - 1 : queue'[k] # FrameDone BY <2>1, <2>2
  <2> QED BY <2>3 DEF DrawnBy
<1>2. CASE ~\E j \in 1 .. i - 1 : queue[j] = Model(e) /\ \A k \in j + 1 .. i - 1 : queue[k] # FrameDone
  <2>1. /\ \A k \in 1 .. i - 1 : queue[k] # FrameDone
        /\ Unfinished /\ (Touched(e) \/ (pc = "model" /\ command = Model(e)))
    BY <1>2 DEF DrawnBy, Unfinished
  <2>2. \A k \in 1 .. i - 1 : queue'[k] # FrameDone BY <2>1
  <2>3. Unfinished' /\ (Touched(e)' \/ (pc' = "model" /\ command' = Model(e))) BY <2>1
  <2> QED BY <2>2, <2>3 DEF DrawnBy, Unfinished
<1> QED BY <1>1, <1>2

LEMMA TouchedKept ==
  ASSUME NEW e, Touched(e), UNCHANGED <<caches, frame_counter>>
  PROVE  Touched(e)'
BY DEF Touched

(* A step of the render thread that touches neither commands nor, between two
   frames, caches. *)
LEMMA MarkedSame ==
  ASSUME Typed, Marked, pc # "crash", UNCHANGED <<queue, game, command>>,
         pc' = pc \/ (pc # "model" /\ pc' # "model"),
         Unfinished => UNCHANGED <<caches, frame_counter>> /\ Unfinished',
         ~Unfinished' => UNCHANGED <<caches, frame_counter>> /\ ~Unfinished,
         recording' /\ pc' \notin {"frame_done", "submit", "crash"} => recording /\ pc \notin {"frame_done", "submit"}
  PROVE  Marked'
<1>0. Len(queue) \in Nat BY LenProperties DEF Typed
<1>1. ASSUME NEW e, NEW i \in Nat, DrawnBy(e, i)
      PROVE  DrawnBy(e, i)'
  BY <1>1, DrawnKept, TouchedKept
<1>2. \A i \in Positions : queue[i] = FrameDone => \A e \in Permanent : DrawnBy(e, i)'
  BY <1>0, <1>1 DEF Marked, Positions
<1>3. \A i \in {Len(queue) + 1} : \A e \in game.drawn : DrawnBy(e, i)'
  <2>1. Len(queue) + 1 \in Nat BY <1>0
  <2> QED BY <1>1, <2>1 DEF Marked
<1>4. pc' \in {"frame_done", "submit", "stale"} => \A e \in Permanent : Touched(e)'
  BY TouchedKept DEF Marked, Unfinished
<1>5. game'.drawn = {} =>
        \A i \in Positions : queue[i] \in Models => \E j \in i + 1 .. Len(queue) : queue[j] = FrameDone
  BY DEF Marked
<1>6. game'.drawn = {} /\ (pc' = "model" \/ (recording' /\ pc' \notin {"frame_done", "submit", "crash"})) =>
        \E j \in Positions : queue[j] = FrameDone
  BY DEF Marked
<1>7. Positions' = Positions BY DEF Positions
<1> QED
  <2>1. \A i \in Positions' : queue'[i] = FrameDone => \A e \in Permanent : DrawnBy(e, i)'
    BY <1>2, <1>7
  <2>2. \A i \in {Len(queue') + 1} : \A e \in game'.drawn : DrawnBy(e, i)' BY <1>3
  <2>3. game'.pc # "play" => game'.drawn = {} BY DEF Marked
  <2> QED BY <1>4, <1>5, <1>6, <1>7, <2>1, <2>2, <2>3 DEF Marked

LEMMA KeptSame ==
  ASSUME Kept, UNCHANGED <<caches, instances, live>>, Working' => Working, failures' = 0 => failures = 0
  PROVE  Kept'
BY DEF Kept, Distinct, InstanceObjects

LEMMA UsesSame ==
  ASSUME NEW d, NEW n, UNCHANGED <<live, instances>>
  PROVE  Uses(d, n)' <=> Uses(d, n)
BY DEF Uses

LEMMA PacedSame ==
  ASSUME Paced, UNCHANGED <<frames, live, instances>>, Working => Working', Current' = Current
  PROVE  Paced'
<1>1. UNCHANGED <<frame_index, fences, flight, unwaited>> BY DEF frames
<1>2. ASSUME NEW f, InFlight(f) PROVE InFlight(f)'
  <2>1. \A d \in f.draws : \A n \in {f.number} : Uses(d, n)' BY <1>2, UsesSame DEF InFlight
  <2> QED BY <1>1, <1>2, <2>1 DEF InFlight
<1> QED BY <1>1, <1>2 DEF Paced

LEMMA RecordedSame ==
  ASSUME Recorded, UNCHANGED <<recording, recorded, frame_counter, live, instances>>,
         recording => Working', pc' \in {"model", "frame_done", "submit", "stale"} => pc' = pc,
         failures' = 0 => failures = 0
  PROVE  Recorded'
BY UsesSame DEF Recorded
LEMMA PushMarked ==
  ASSUME Typed, Marked, pc # "crash", NEW c \in Commands, Push(c),
         UNCHANGED <<pc, command, caches, frame_counter, recording>>,
         c = FrameDone => Permanent \subseteq game.drawn,
         \A e \in game'.drawn : (e \in game.drawn /\ c # FrameDone) \/ c = Model(e),
         game'.drawn = {} => c = FrameDone \/ (game.drawn = {} /\ c \notin Models),
         game'.pc # "play" => game'.drawn = {}
  PROVE  Marked'
<1> DEFINE n == Len(queue)
<1>0. n \in Nat /\ queue \in Seq(Commands) BY LenProperties DEF Typed
<1>1. queue' = Append(queue, c) BY DEF Push
<1>2. Len(queue') = n + 1 /\ queue'[n + 1] = c /\ \A i \in 1 .. n : queue'[i] = queue[i]
  BY <1>0, <1>1, AppendProperties
<1> HIDE DEF n
<1>3. ASSUME NEW e, NEW i \in 1 .. n + 1, DrawnBy(e, i)
      PROVE  DrawnBy(e, i)'
  <2>1. \A k \in 1 .. i - 1 : queue'[k] = queue[k] BY <1>0, <1>2
  <2>2. Unfinished => Unfinished' BY DEF Unfinished
  <2>3. i \in Nat BY <1>0
  <2> QED BY <1>3, <2>1, <2>2, <2>3, DrawnKept, TouchedKept
<1>4. ASSUME NEW i \in 1 .. n + 1, queue'[i] = FrameDone, NEW e \in Permanent
      PROVE  DrawnBy(e, i)'
  <2>1. CASE i \in 1 .. n
    <3>1. queue[i] = FrameDone BY <1>2, <1>4, <2>1
    <3>2. DrawnBy(e, i) BY <2>1, <3>1 DEF Marked, Positions, n
    <3> QED BY <1>3, <3>2
  <2>2. CASE i = n + 1
    <3>1. e \in game.drawn BY <1>2, <1>4, <2>2
    <3>2. DrawnBy(e, i) BY <2>2, <3>1 DEF Marked, n
    <3> QED BY <1>3, <3>2
  <2> QED BY <1>0, <2>1, <2>2
<1>5. ASSUME NEW i, i = n + 2, NEW e \in game'.drawn
      PROVE  DrawnBy(e, i)'
  <2>1. CASE c = Model(e)
    <3>1. n + 1 \in 1 .. i - 1 BY <1>0, <1>5
    <3>2. queue'[n + 1] = Model(e) BY <1>2, <2>1
    <3>3. \A k \in (n + 1) + 1 .. i - 1 : queue'[k] # FrameDone BY <1>0, <1>5
    <3>4. \E j \in 1 .. i - 1 : queue'[j] = Model(e) /\ \A k \in j + 1 .. i - 1 : queue'[k] # FrameDone
      BY <3>1, <3>2, <3>3
    <3> QED BY <3>4 DEF DrawnBy
  <2>2. CASE c # Model(e)
    <3>1. e \in game.drawn /\ c # FrameDone BY <1>5, <2>2
    <3> DEFINE l == i - 1
    <3>2. l = n + 1 /\ l \in 1 .. n + 1 /\ i = l + 1 /\ l \in Nat BY <1>0, <1>5
    <3>3. DrawnBy(e, l)
      <4>1. \A j \in {n + 1} : DrawnBy(e, j) BY <3>1 DEF Marked, n
      <4> QED BY <3>2, <4>1
    <3> HIDE DEF l
    <3>4. DrawnBy(e, l)' BY <1>3, <3>2, <3>3
    <3>5. queue'[l] # FrameDone BY <1>2, <3>1, <3>2
    <3>6. \A k \in 1 .. i - 1 : k \in 1 .. l - 1 \/ k = l BY <3>2
    <3>7. CASE \E j \in 1 .. l - 1 : queue'[j] = Model(e) /\ \A k \in j + 1 .. l - 1 : queue'[k] # FrameDone
      <4>1. PICK j \in 1 .. l - 1 : queue'[j] = Model(e) /\ \A k \in j + 1 .. l - 1 : queue'[k] # FrameDone
        BY <3>7
      <4>2. j \in 1 .. i - 1 /\ \A k \in j + 1 .. i - 1 : k \in j + 1 .. l - 1 \/ k = l BY <3>2
      <4>3. \A k \in j + 1 .. i - 1 : queue'[k] # FrameDone BY <3>5, <4>1, <4>2
      <4> QED BY <4>1, <4>2, <4>3 DEF DrawnBy
    <3>8. CASE ~\E j \in 1 .. l - 1 : queue'[j] = Model(e) /\ \A k \in j + 1 .. l - 1 : queue'[k] # FrameDone
      <4>1. /\ \A k \in 1 .. l - 1 : queue'[k] # FrameDone
            /\ pc' \notin {"frame_done", "submit", "stale"}
            /\ Touched(e)' \/ (pc' = "model" /\ command' = Model(e))
        BY <3>4, <3>8 DEF DrawnBy
      <4>2. \A k \in 1 .. i - 1 : queue'[k] # FrameDone BY <3>5, <3>6, <4>1
      <4> QED BY <4>1, <4>2 DEF DrawnBy
    <3> QED BY <3>7, <3>8
  <2> QED BY <2>1, <2>2
<1>6. pc' \in {"frame_done", "submit", "stale"} => \A e \in Permanent : Touched(e)'
  BY TouchedKept DEF Marked
<1>7. ASSUME game'.drawn = {}, NEW i \in 1 .. n + 1, queue'[i] \in Models
      PROVE  \E j \in i + 1 .. n + 1 : queue'[j] = FrameDone
  <2>1. i # n + 1
    <3>1. i = n + 1 => c \in Models BY <1>2, <1>7
    <3> QED BY <1>7, <3>1, CommandTypes
  <2>2. i \in 1 .. n /\ queue[i] \in Models BY <1>0, <1>2, <1>7, <2>1
  <2>3. CASE c = FrameDone
    <3>1. n + 1 \in i + 1 .. n + 1 BY <1>0, <2>2
    <3> QED BY <1>2, <2>3, <3>1
  <2>4. CASE c # FrameDone
    <3>1. PICK j \in i + 1 .. n : queue[j] = FrameDone BY <1>7, <2>2, <2>4 DEF Marked, Positions, n
    <3>2. j \in i + 1 .. n + 1 /\ j \in 1 .. n BY <1>0, <2>2
    <3> QED BY <1>2, <3>1, <3>2
  <2> QED BY <2>3, <2>4
<1>8. ASSUME game'.drawn = {}, pc' = "model" \/ (recording' /\ pc' \notin {"frame_done", "submit", "crash"})
      PROVE  \E j \in 1 .. n + 1 : queue'[j] = FrameDone
  <2>1. CASE c = FrameDone
    <3>1. n + 1 \in 1 .. n + 1 BY <1>0
    <3> QED BY <1>2, <2>1, <3>1
  <2>2. CASE c # FrameDone
    <3>1. PICK j \in 1 .. n : queue[j] = FrameDone BY <1>8, <2>2 DEF Marked, Positions, n
    <3>2. j \in 1 .. n + 1 BY <1>0
    <3> QED BY <1>2, <3>1, <3>2
  <2> QED BY <2>1, <2>2
<1>9. Positions' = 1 .. n + 1 BY <1>2 DEF Positions
<1>10. \A i \in Positions' : queue'[i] = FrameDone => \A e \in Permanent : DrawnBy(e, i)'
  BY <1>4, <1>9
<1>11. \A i \in {Len(queue') + 1} : \A e \in game'.drawn : DrawnBy(e, i)'
  <2>1. Len(queue') + 1 = n + 2 BY <1>0, <1>2
  <2> QED BY <1>5, <2>1
<1>12. game'.drawn = {} =>
         \A i \in Positions' : queue'[i] \in Models => \E j \in i + 1 .. Len(queue') : queue'[j] = FrameDone
  BY <1>2, <1>7, <1>9
<1>13. game'.drawn = {} /\ (pc' = "model" \/ (recording' /\ pc' \notin {"frame_done", "submit", "crash"})) =>
         \E j \in Positions' : queue'[j] = FrameDone
  BY <1>8, <1>9
<1> QED BY <1>6, <1>10, <1>11, <1>12, <1>13 DEF Marked

LEMMA GameLeaves ==
  ASSUME FramesOK, UNCHANGED <<pc, command, renderer, gpu>>
  PROVE  Kept' /\ Recorded' /\ Paced'
<1>1. UNCHANGED <<pc, command, recording, recorded, frame_counter, caches, instances, handles, live,
                  frames, failures>>
  BY DEF renderer, gpu
<1>2. (Working' <=> Working) /\ Current' = Current BY <1>1 DEF Working, Current
<1>3. recording => Working' BY <1>2 DEF FramesOK, Recorded
<1> QED BY <1>1, <1>2, <1>3, KeptSame, RecordedSame, PacedSame DEF FramesOK

LEMMA PushModelFrames ==
  ASSUME Typed, FramesOK, pc # "crash", NEW e \in Entities, PushModel(e)
  PROVE  FramesOK'
<1>1. /\ game.pc = "play" /\ Push(Model(e)) /\ game' = [game EXCEPT !.drawn = @ \cup {e}]
      /\ UNCHANGED <<pc, command, renderer, gpu>>
  BY DEF PushModel
<1>2. UNCHANGED <<caches, frame_counter, recording>> BY <1>1 DEF renderer
<1>3. game'.drawn = game.drawn \cup {e} /\ game'.pc = "play" BY <1>1 DEF Typed
<1>4. Model(e) \in Commands /\ Model(e) # FrameDone BY CommandTypes DEF Commands
<1>5. Marked' BY <1>1, <1>2, <1>3, <1>4, PushMarked DEF FramesOK
<1> QED BY <1>1, <1>5, GameLeaves DEF FramesOK

LEMMA PushDoneFrames ==
  ASSUME Typed, FramesOK, pc # "crash", PushDone
  PROVE  FramesOK'
<1>1. /\ game.pc = "play" /\ Push(FrameDone) /\ game' = [game EXCEPT !.drawn = {}, !.frames = @ + 1]
      /\ Permanent \subseteq game.drawn /\ UNCHANGED <<pc, command, renderer, gpu>>
  BY DEF PushDone
<1>2. UNCHANGED <<caches, frame_counter, recording>> BY <1>1 DEF renderer
<1>3. game'.drawn = {} /\ game'.pc = "play" BY <1>1 DEF Typed
<1>4. FrameDone \in Commands BY DEF Commands
<1>5. Marked' BY <1>1, <1>2, <1>3, <1>4, PushMarked DEF FramesOK
<1> QED BY <1>1, <1>5, GameLeaves DEF FramesOK

LEMMA RenderDestroyFrames ==
  ASSUME Typed, FramesOK, pc # "crash", RenderDestroy
  PROVE  FramesOK'
<1>1. /\ game.pc = "play" /\ game.drawn = {} /\ Push(Quit) /\ game' = [game EXCEPT !.pc = "join"]
      /\ UNCHANGED <<pc, command, renderer, gpu>>
  BY DEF RenderDestroy
<1>2. UNCHANGED <<caches, frame_counter, recording>> BY <1>1 DEF renderer
<1>3. game'.drawn = {} BY <1>1 DEF Typed
<1>4. Quit \in Commands /\ Quit # FrameDone /\ Quit \notin Models BY CommandTypes DEF Commands
<1>5. Marked' BY <1>1, <1>2, <1>3, <1>4, PushMarked DEF FramesOK
<1> QED BY <1>1, <1>5, GameLeaves DEF FramesOK

LEMMA GameDestroyFrames ==
  ASSUME Typed, FramesOK, pc # "crash", GameDestroy
  PROVE  FramesOK'
<1>1. /\ game.pc = "join" /\ game' = [game EXCEPT !.pc = "destroyed"]
      /\ UNCHANGED <<queue, pc, command, renderer, gpu>>
  BY DEF GameDestroy
<1>2. UNCHANGED <<caches, frame_counter, recording>> BY <1>1 DEF renderer
<1>3. game'.drawn = game.drawn /\ game.drawn = {} BY <1>1 DEF Typed, FramesOK, Marked
<1>4. ASSUME NEW e, NEW i \in Nat, DrawnBy(e, i)
      PROVE  DrawnBy(e, i)'
  BY <1>1, <1>2, <1>4, DrawnKept, TouchedKept DEF Unfinished
<1>5. Len(queue) \in Nat BY LenProperties DEF Typed
<1>6. \A i \in Positions : queue[i] = FrameDone => \A e \in Permanent : DrawnBy(e, i)'
  BY <1>4, <1>5 DEF FramesOK, Marked, Positions
<1>7. pc' \in {"frame_done", "submit", "stale"} => \A e \in Permanent : Touched(e)'
  BY <1>1, <1>2, TouchedKept DEF FramesOK, Marked
<1>8. Positions' = Positions BY <1>1 DEF Positions
<1>9. \A i \in Positions' : queue'[i] = FrameDone => \A e \in Permanent : DrawnBy(e, i)'
  BY <1>1, <1>6, <1>8
<1>10. Marked' BY <1>1, <1>2, <1>3, <1>7, <1>8, <1>9 DEF FramesOK, Marked
<1> QED BY <1>1, <1>10, GameLeaves DEF FramesOK
LEMMA RenderCreateFrames ==
  ASSUME Typed, FramesOK, RenderCreate
  PROVE  FramesOK'
<1>1. /\ pc = "gpu_create" /\ pc' \in {"gpu_create", "unwind", "pop"}
      /\ UNCHANGED <<queue, game, command, recording, recorded, frame_counter, caches, instances, live,
                     frames>>
      /\ failures' = failures \/ failures' = failures + 1
  BY DEF RenderCreate, GpuCreateStep, GpuCreateFail, renderer, gpu
<1>2. failures \in Nat BY GpuAssumption DEF Typed
<1>3. Marked' BY <1>1, MarkedSame DEF Unfinished, FramesOK
<1>4. Working /\ Working' /\ Current' = Current BY <1>1 DEF Working, Current
<1>5. failures' = 0 => failures = 0 BY <1>1, <1>2
<1>6. Kept' BY <1>1, <1>4, <1>5, KeptSame DEF FramesOK
<1>7. Recorded' BY <1>1, <1>4, <1>5, RecordedSame DEF FramesOK
<1>8. Paced' BY <1>1, <1>4, PacedSame DEF FramesOK
<1> QED BY <1>3, <1>6, <1>7, <1>8 DEF FramesOK

LEMMA RenderGpuDestroyFrames ==
  ASSUME Typed, FramesOK, RenderGpuDestroy
  PROVE  FramesOK'
<1>1. /\ \/ pc = "unwind" /\ pc' \in {"unwind", "crash"}
         \/ pc = "gpu_destroy" /\ pc' \in {"gpu_destroy", "exit"}
      /\ UNCHANGED <<queue, game, command, recording, recorded, frame_counter, caches, instances, live,
                     frames, failures>>
  BY DEF RenderGpuDestroy, GpuDestroyStep, renderer, gpu
<1>3. Marked' BY <1>1, MarkedSame DEF Unfinished, FramesOK
<1>4. (Working' <=> Working) /\ Current' = Current BY <1>1 DEF Working, Current
<1>5. recording => Working' BY <1>4 DEF FramesOK, Recorded
<1>6. Kept' BY <1>1, <1>4, KeptSame DEF FramesOK
<1>7. Recorded' BY <1>1, <1>5, RecordedSame DEF FramesOK
<1>8. Paced' BY <1>1, <1>4, PacedSame DEF FramesOK
<1> QED BY <1>3, <1>6, <1>7, <1>8 DEF FramesOK

LEMMA GpuCompletesFrames ==
  ASSUME Typed, Stored, FramesOK, pc # "crash", GpuCompletes
  PROVE  FramesOK'
<1>1. PICK f \in flight : GpuComplete(f) BY DEF GpuCompletes
<1>2. UNCHANGED <<queue, game, pc, command, recording, recorded, frame_counter, caches, instances>>
  BY DEF GpuCompletes, renderer
<1>3. /\ flight' = flight \ {f} /\ fences' = [fences EXCEPT ![f.index] = TRUE]
      /\ UNCHANGED <<handles, live, frame_index, unwaited, failures>>
  BY <1>1, CompleteFacts
<1>4. Marked' BY <1>2, MarkedSame DEF Unfinished, FramesOK
<1>5. (Working' <=> Working) /\ Current' = Current BY <1>2 DEF Working, Current
<1>6. recording => Working' BY <1>5 DEF FramesOK, Recorded
<1>7. Kept' BY <1>2, <1>3, <1>5, KeptSame DEF FramesOK
<1>8. Recorded' BY <1>2, <1>3, <1>6, RecordedSame DEF FramesOK
<1>9. Paced'
  <2> SUFFICES ASSUME ~unwaited', NEW g \in flight'
               PROVE  InFlight(g)'
    BY DEF Paced
  <2>1. g \in flight /\ g # f /\ InFlight(g) BY <1>3 DEF FramesOK, Paced
  <2>2. g.index # f.index BY <2>1 DEF InFlight
  <2>3. g.index \in FrameIndices /\ fences \in [FrameIndices -> BOOLEAN]
    BY <2>1 DEF Stored, FramesTyped
  <2>4. ~fences'[g.index] BY <1>3, <2>1, <2>2, <2>3 DEF InFlight
  <2>5. \A d \in g.draws : \A n \in {g.number} : Uses(d, n)' BY <1>2, <1>3, <2>1, UsesSame DEF InFlight
  <2>6. \A h \in flight' : h.index = g.index => h = g BY <1>3, <2>1 DEF InFlight
  <2>7. g.number + frame_index - g.index + (IF g.index < frame_index THEN 0 ELSE FrameCount) >= Current
    BY <2>1 DEF InFlight
  <2> QED BY <1>3, <1>5, <2>1, <2>4, <2>5, <2>6, <2>7 DEF InFlight
<1> QED BY <1>4, <1>7, <1>8, <1>9 DEF FramesOK

LEMMA FrameAcquiredFrames ==
  ASSUME Typed, Stored, FramesOK, FrameAcquired
  PROVE  FramesOK'
<1>1. PICK fails \in SUBSET {"end", "acquire"} :
        FrameAcquire(fails) /\ recording' = (recording /\ "end" \notin fails)
  BY DEF FrameAcquired
<1>2. /\ pc = "frame_done" /\ pc' = "submit"
      /\ UNCHANGED <<queue, game, command, recorded, frame_counter, caches, instances, handles, live>>
      /\ UNCHANGED <<frame_index, fences, flight, unwaited>> /\ Failing(fails)
  BY <1>1 DEF FrameAcquired, FrameAcquire
<1>3. failures' = 0 => failures = 0
  <2>1. fails \in SUBSET Calls /\ failures \in 0 .. FailureBound BY DEF Calls, Typed
  <2>2. failures' \in 0 .. FailureBound /\ failures <= failures' BY <1>2, <2>1, FailingFacts
  <2> QED BY <2>1, <2>2, GpuAssumption
<1>4. recording' => recording BY <1>1
<1>5. Marked' BY <1>2, MarkedSame DEF Unfinished, FramesOK
<1>6. Working /\ Working' /\ Current' = Current BY <1>2 DEF Working, Current
<1>7. Kept' BY <1>2, <1>3, <1>6, KeptSame DEF FramesOK
<1>8. Recorded'
  <2>1. ASSUME NEW d \in recorded
        PROVE  Uses(d, frame_counter)' /\ (failures' = 0 => Null \notin {d.mesh, d.pipeline})
    <3>1. recording BY <1>2, <2>1 DEF FramesOK, Recorded
    <3>2. Uses(d, frame_counter) /\ (failures = 0 => Null \notin {d.mesh, d.pipeline})
      BY <3>1 DEF FramesOK, Recorded
    <3> QED BY <1>2, <1>3, <3>2 DEF Uses
  <2> QED BY <1>2, <1>6, <2>1 DEF Recorded
<1>9. Paced'
  <2>1. ASSUME NEW f, InFlight(f) PROVE InFlight(f)'
    <3>1. \A d \in f.draws : \A n \in {f.number} : Uses(d, n)' BY <1>2, <2>1, UsesSame DEF InFlight
    <3> QED BY <1>2, <1>6, <2>1, <3>1 DEF InFlight
  <2> QED BY <1>2, <2>1 DEF FramesOK, Paced
<1> QED BY <1>5, <1>7, <1>8, <1>9 DEF FramesOK

(* The frame submitted becomes the last one of those in flight. *)
LEMMA NextIndex ==
  ASSUME NEW i \in FrameIndices, NEW j \in FrameIndices, NEW k, k = (i + 1) % FrameCount
  PROVE  /\ k \in FrameIndices
         /\ k - j + (IF j < k THEN 0 ELSE FrameCount) =
              IF j = i THEN 1 ELSE i - j + (IF j < i THEN 0 ELSE FrameCount) + 1
<1>1. FrameCount \in Nat /\ FrameCount > 0 /\ i \in Nat /\ j \in Nat /\ i < FrameCount /\ j < FrameCount
  BY GpuAssumption DEF FrameIndices
<1>2. k = IF i + 1 = FrameCount THEN 0 ELSE i + 1
  <2>1. CASE i + 1 = FrameCount
    <3>1. FrameCount % FrameCount = 0 BY <1>1
    <3> QED BY <2>1, <3>1
  <2>2. CASE i + 1 # FrameCount
    <3>1. i + 1 \in Nat /\ i + 1 < FrameCount BY <1>1, <2>2
    <3>2. (i + 1) % FrameCount = i + 1 BY <1>1, <3>1
    <3> QED BY <2>2, <3>2
  <2> QED BY <2>1, <2>2
<1>3. k \in FrameIndices BY <1>1, <1>2 DEF FrameIndices
<1>4. k - j + (IF j < k THEN 0 ELSE FrameCount) =
        IF j = i THEN 1 ELSE i - j + (IF j < i THEN 0 ELSE FrameCount) + 1
  <2>1. CASE i + 1 = FrameCount BY <1>1, <1>2, <2>1
  <2>2. CASE i + 1 # FrameCount BY <1>1, <1>2, <2>2
  <2> QED BY <2>1, <2>2
<1> QED BY <1>3, <1>4

LEMMA FrameEndFrames ==
  ASSUME Typed, Stored, FramesOK, FrameEnd
  PROVE  FramesOK'
<1>1. /\ pc = "submit" /\ pc' = "stale" /\ recording' = FALSE
      /\ UNCHANGED <<queue, game, command, recorded, frame_counter, caches, instances, handles, live>>
      /\ frame_index' = (frame_index + 1) % FrameCount /\ failures <= failures'
      /\ failures' \in 0 .. FailureBound /\ FramesTyped'
      /\ flight' = flight \/ flight' = flight \cup
            {[index |-> frame_index, number |-> frame_counter, draws |-> recorded]}
      /\ ~unwaited' => /\ ~unwaited /\ fences[frame_index]
                       /\ fences' = [fences EXCEPT ![frame_index] = FALSE]
  BY FrameEndFacts
<1>2. failures \in Nat BY GpuAssumption DEF Typed
<1>3. Marked' BY <1>1, MarkedSame DEF Unfinished, FramesOK
<1>4. Working /\ Working' /\ Current = frame_counter /\ Current' = frame_counter + 1
  BY <1>1 DEF Working, Current
<1>5. failures' = 0 => failures = 0 BY <1>1, <1>2, GpuAssumption
<1>6. Kept' BY <1>1, <1>4, <1>5, KeptSame DEF FramesOK
<1>7. Recorded' BY <1>1 DEF FramesOK, Recorded
<1>8. Paced'
  <2> SUFFICES ASSUME ~unwaited', NEW f \in flight'
               PROVE  InFlight(f)'
    BY DEF Paced
  <2> DEFINE i == frame_index
             k == frame_index'
             new == [index |-> i, number |-> frame_counter, draws |-> recorded]
  <2>1. /\ ~unwaited /\ fences[i] /\ fences' = [fences EXCEPT ![i] = FALSE]
        /\ k = (i + 1) % FrameCount
    BY <1>1
  <2>2. /\ i \in FrameIndices /\ frame_counter \in Nat /\ fences \in [FrameIndices -> BOOLEAN]
        /\ flight \subseteq [index : FrameIndices, number : Nat, draws : SUBSET Draws]
    BY DEF Typed, Stored, FramesTyped
  <2>3. flight' = flight \/ flight' = flight \cup {new} BY <1>1
  <2>4. new.index = i /\ new.number = frame_counter /\ new.draws = recorded OBVIOUS
  <2>5. f \in flight \/ f = new BY <2>3
  <2>6. \A g \in flight : InFlight(g) BY <2>1 DEF FramesOK, Paced
  <2>7. \A g \in flight : g.index # i BY <2>1, <2>6 DEF InFlight
  <2>8. \A g \in flight' : g.index = f.index => g = f
    <3>1. \A g, h \in flight : g.index = h.index => g = h BY <2>6 DEF InFlight
    <3> HIDE DEF i, new
    <3> QED BY <2>3, <2>4, <2>7, <3>1
  <2>9. f.index \in FrameIndices /\ f.number \in Nat BY <2>2, <2>4, <2>5
  <2>10. ~fences'[f.index]
    <3>1. CASE f = new BY <2>1, <2>2, <2>4, <3>1
    <3>2. CASE f \in flight
      <4>1. f.index # i /\ ~fences[f.index] BY <2>6, <2>7, <3>2 DEF InFlight
      <4> QED BY <2>1, <2>2, <2>9, <4>1
    <3> QED BY <2>5, <3>1, <3>2
  <2>11. \A d \in f.draws : \A n \in {f.number} : Uses(d, n)'
    <3>1. CASE f = new
      <4>1. \A d \in recorded : Uses(d, frame_counter) BY <1>1 DEF FramesOK, Recorded
      <4>2. f.draws = recorded /\ f.number = frame_counter BY <2>4, <3>1
      <4>3. \A d \in f.draws : \A n \in {f.number} : Uses(d, n) BY <4>1, <4>2
      <4> QED BY <1>1, <4>3, UsesSame
    <3>2. CASE f \in flight
      <4>1. \A d \in f.draws : \A n \in {f.number} : Uses(d, n) BY <2>6, <3>2 DEF InFlight
      <4> QED BY <1>1, <4>1, UsesSame
    <3> QED BY <2>5, <3>1, <3>2
  <2> HIDE DEF i, k, new
  <2>12. ASSUME NEW j, j = f.index, NEW n, n = f.number
         PROVE  n + k - j + (IF j < k THEN 0 ELSE FrameCount) >= frame_counter + 1
    <3>1. j \in FrameIndices /\ n \in Nat BY <2>9, <2>12
    <3>2. /\ k \in FrameIndices
          /\ k - j + (IF j < k THEN 0 ELSE FrameCount) =
               IF j = i THEN 1 ELSE i - j + (IF j < i THEN 0 ELSE FrameCount) + 1
      BY <2>1, <2>2, <3>1, NextIndex
    <3>3. j \in Int /\ i \in Int /\ k \in Int /\ FrameCount \in Int
      BY <2>2, <3>1, <3>2, GpuAssumption DEF FrameIndices
    <3>4. CASE f = new
      <4>1. j = i /\ n = frame_counter BY <2>4, <2>12, <3>4
      <4> QED BY <2>2, <3>2, <3>3, <4>1
    <3>5. CASE f \in flight
      <4>1. j # i BY <2>7, <2>12, <3>5
      <4>2. n + i - j + (IF j < i THEN 0 ELSE FrameCount) >= frame_counter
        <5>1. InFlight(f) BY <2>6, <3>5
        <5> QED BY <1>4, <2>12, <5>1 DEF InFlight, i
      <4> QED BY <2>2, <3>1, <3>2, <3>3, <4>1, <4>2
    <3> QED BY <2>5, <3>4, <3>5
  <2>13. f.number + frame_index' - f.index + (IF f.index < frame_index' THEN 0 ELSE FrameCount) >= Current'
    BY <1>4, <2>12 DEF k
  <2> QED BY <1>4, <2>8, <2>10, <2>11, <2>13 DEF InFlight
<1> QED BY <1>3, <1>6, <1>7, <1>8 DEF FramesOK
(* What the game has drawn in the frame of a position is drawn after a pop, of
   the position that it is then. *)
LEMMA DrawnPop ==
  ASSUME Typed, RenderPop, NEW e, NEW i \in Nat, i <= Len(queue), DrawnBy(e, i + 1)
  PROVE  i = 0 \/ DrawnBy(e, i)'
<1>0. SUFFICES ASSUME i # 0 PROVE DrawnBy(e, i)' OBVIOUS
<1>1. /\ pc = "pop" /\ Len(queue) \in Nat \ {0} /\ command' = queue[1] /\ command' \in Commands
      /\ \A l \in 1 .. Len(queue) - 1 : queue'[l] = queue[l + 1]
      /\ pc' = command'.type /\ pc' \in {"model", "frame_done", "quit"}
      /\ UNCHANGED <<frame_counter, caches>>
  BY PopFacts
<1>2. \A l \in 1 .. i - 1 : queue'[l] = queue[l + 1] BY <1>1
<1>a. pc' = "frame_done" <=> queue[1] = FrameDone BY <1>1, CommandTypes
<1>b. \A f : Model(f) # FrameDone /\ Model(f).type = "model" BY DEF Model, FrameDone
<1>3. CASE \E j \in 1 .. (i + 1) - 1 :
             queue[j] = Model(e) /\ \A k \in j + 1 .. (i + 1) - 1 : queue[k] # FrameDone
  <2>1. PICK j \in 1 .. (i + 1) - 1 :
          queue[j] = Model(e) /\ \A k \in j + 1 .. (i + 1) - 1 : queue[k] # FrameDone
    BY <1>3
  <2>2. \A k \in j .. i - 1 : queue'[k] # FrameDone
    <3>1. \A k \in j .. i - 1 : k + 1 \in j + 1 .. (i + 1) - 1 /\ k \in 1 .. i - 1 OBVIOUS
    <3> QED BY <1>2, <2>1, <3>1
  <2>3. CASE j = 1
    <3>1. command' = Model(e) /\ pc' = "model" BY <1>1, <1>b, <2>1, <2>3
    <3>2. \A k \in 1 .. i - 1 : queue'[k] # FrameDone BY <2>2, <2>3
    <3> QED BY <3>1, <3>2 DEF DrawnBy
  <2>4. CASE j # 1
    <3> DEFINE l == j - 1
    <3>1. l \in 1 .. i - 1 /\ l + 1 = j BY <2>4
    <3>2. queue'[l] = Model(e) BY <1>2, <2>1, <3>1
    <3>3. \A k \in l + 1 .. i - 1 : queue'[k] # FrameDone BY <2>2, <3>1
    <3> QED BY <3>1, <3>2, <3>3 DEF DrawnBy
  <2> QED BY <2>3, <2>4
<1>4. CASE ~\E j \in 1 .. (i + 1) - 1 :
             queue[j] = Model(e) /\ \A k \in j + 1 .. (i + 1) - 1 : queue[k] # FrameDone
  <2>1. /\ \A k \in 1 .. (i + 1) - 1 : queue[k] # FrameDone
        /\ Touched(e) \/ (pc = "model" /\ command = Model(e))
    BY <1>4 DEF DrawnBy
  <2>2. \A k \in 1 .. i - 1 : k + 1 \in 1 .. (i + 1) - 1 OBVIOUS
  <2>3. \A k \in 1 .. i - 1 : queue'[k] # FrameDone BY <1>2, <2>1, <2>2
  <2>4. 1 \in 1 .. (i + 1) - 1 BY <1>0
  <2>5. pc' \notin {"frame_done", "submit", "stale"} BY <1>1, <1>a, <2>1, <2>4
  <2>6. Touched(e)' BY <1>1, <2>1, TouchedKept
  <2> QED BY <2>3, <2>5, <2>6 DEF DrawnBy
<1> QED BY <1>3, <1>4

LEMMA RenderPopMarked ==
  ASSUME Typed, Marked, RenderPop
  PROVE  Marked'
<1>1. /\ pc = "pop" /\ Len(queue) \in Nat \ {0} /\ command' = queue[1] /\ command' \in Commands
      /\ Len(queue') = Len(queue) - 1
      /\ \A i \in 1 .. Len(queue) - 1 : queue'[i] = queue[i + 1]
      /\ pc' = command'.type /\ pc' \in {"model", "frame_done", "quit"}
      /\ UNCHANGED <<game, frame_counter, caches>>
  BY PopFacts
<1>2. /\ pc' = "quit" <=> queue[1] = Quit
      /\ pc' = "frame_done" <=> queue[1] = FrameDone
      /\ pc' = "model" <=> queue[1] \in Models
  BY <1>1, CommandTypes
<1> DEFINE n == Len(queue) - 1
<1>3. n \in Nat /\ Len(queue) = n + 1 /\ Len(queue') = n /\ 1 \in 1 .. n + 1 BY <1>1
<1>4. \A i \in 1 .. n : queue'[i] = queue[i + 1] BY <1>1
<1> HIDE DEF n
<1>5. ASSUME NEW i \in 1 .. n, queue'[i] = FrameDone, NEW e \in Permanent
      PROVE  DrawnBy(e, i)'
  <2>1. i + 1 \in Positions /\ queue[i + 1] = FrameDone BY <1>3, <1>4, <1>5 DEF Positions
  <2>2. DrawnBy(e, i + 1) BY <1>1, <2>1 DEF Marked
  <2>3. i \in Nat /\ i <= Len(queue) /\ i # 0 BY <1>3
  <2> QED BY <2>2, <2>3, DrawnPop
<1>6. ASSUME NEW i, i = n + 1, NEW e \in game.drawn
      PROVE  DrawnBy(e, i)'
  <2>1. i + 1 \in {Len(queue) + 1} BY <1>3, <1>6
  <2>2. DrawnBy(e, i + 1) BY <1>1, <2>1 DEF Marked
  <2>3. i \in Nat /\ i <= Len(queue) /\ i # 0 BY <1>3, <1>6
  <2> QED BY <2>2, <2>3, DrawnPop
<1>7. ASSUME pc' \in {"frame_done", "submit", "stale"}, NEW e \in Permanent
      PROVE  Touched(e)'
  <2>1. queue[1] = FrameDone BY <1>1, <1>2, <1>7
  <2>2. DrawnBy(e, 1) BY <1>1, <1>3, <2>1 DEF Marked, Positions
  <2>3. Touched(e) BY <1>1, <2>2 DEF DrawnBy
  <2> QED BY <1>1, <2>3, TouchedKept
<1>8. ASSUME game.drawn = {}, NEW i \in 1 .. n, queue'[i] \in Models
      PROVE  \E j \in i + 1 .. n : queue'[j] = FrameDone
  <2>1. i + 1 \in Positions /\ queue[i + 1] \in Models BY <1>3, <1>4, <1>8 DEF Positions
  <2>2. PICK j \in (i + 1) + 1 .. Len(queue) : queue[j] = FrameDone BY <1>8, <2>1 DEF Marked
  <2>3. j - 1 \in i + 1 .. n /\ j - 1 \in 1 .. n /\ (j - 1) + 1 = j BY <1>3
  <2> QED BY <1>4, <2>2, <2>3
<1>9. ASSUME game.drawn = {}, pc' = "model" \/ (recording' /\ pc' \notin {"frame_done", "submit", "crash"})
      PROVE  \E j \in 1 .. n : queue'[j] = FrameDone
  <2>1. \E j \in 2 .. Len(queue) : queue[j] = FrameDone
    <3>1. CASE pc' = "model"
      <4>1. 1 \in Positions /\ queue[1] \in Models BY <1>2, <1>3, <3>1 DEF Positions
      <4>2. PICK j \in 1 + 1 .. Len(queue) : queue[j] = FrameDone BY <1>9, <4>1 DEF Marked
      <4> QED BY <4>2
    <3>2. CASE pc' # "model"
      <4>1. queue[1] = Quit /\ recording' BY <1>1, <1>2, <1>9, <3>2
      <4>2. recording
        <5>1. Head(queue) = Quit
          <6>1. queue \in Seq(Commands) BY DEF Typed
          <6> QED BY <1>1, <4>1, <6>1
        <5> QED BY <4>1, <5>1 DEF RenderPop
      <4>3. PICK j \in Positions : queue[j] = FrameDone BY <1>1, <1>9, <4>2 DEF Marked
      <4>4. j # 1 BY <4>1, <4>3, CommandTypes
      <4> QED BY <1>3, <4>3, <4>4 DEF Positions
    <3> QED BY <3>1, <3>2
  <2>2. PICK j \in 2 .. Len(queue) : queue[j] = FrameDone BY <2>1
  <2>3. j - 1 \in 1 .. n /\ (j - 1) + 1 = j BY <1>3
  <2> QED BY <1>4, <2>2, <2>3
<1>10. Positions' = 1 .. n BY <1>3 DEF Positions
<1>11. \A i \in Positions' : queue'[i] = FrameDone => \A e \in Permanent : DrawnBy(e, i)'
  BY <1>5, <1>10
<1>12. \A i \in {Len(queue') + 1} : \A e \in game'.drawn : DrawnBy(e, i)'
  BY <1>1, <1>3, <1>6
<1>13. game'.drawn = {} =>
         \A i \in Positions' : queue'[i] \in Models => \E j \in i + 1 .. Len(queue') : queue'[j] = FrameDone
  BY <1>1, <1>3, <1>8, <1>10
<1>14. game'.drawn = {} /\ (pc' = "model" \/ (recording' /\ pc' \notin {"frame_done", "submit", "crash"})) =>
         \E j \in Positions' : queue'[j] = FrameDone
  BY <1>1, <1>9, <1>10
<1>15. game'.pc # "play" => game'.drawn = {} BY <1>1 DEF Marked
<1>16. pc' \in {"frame_done", "submit", "stale"} => \A e \in Permanent : Touched(e)' BY <1>7
<1> QED BY <1>11, <1>12, <1>13, <1>14, <1>15, <1>16 DEF Marked

LEMMA RenderPopFrames ==
  ASSUME Typed, FramesOK, RenderPop
  PROVE  FramesOK'
<1>1. /\ pc = "pop" /\ pc' \in {"model", "frame_done", "quit"} /\ command' = queue[1]
      /\ pc' = command'.type /\ command' \in Commands
      /\ UNCHANGED <<frame_counter, caches, instances, live, frames>>
  BY PopFacts
<1>2. \/ (Head(queue) = Quit \/ recording) /\ UNCHANGED <<recording, recorded, failures>>
      \/ recorded' = {} /\ (failures' = failures \/ failures' = failures + 1)
  BY DEF RenderPop
<1>3. Head(queue) = Quit => pc' = "quit" BY CommandTypes DEF RenderPop
<1>4. Marked' BY RenderPopMarked DEF FramesOK
<1>5. Working /\ Working' /\ Current' = Current BY <1>1 DEF Working, Current
<1>6. failures' = 0 => failures = 0
  <2>1. failures \in Nat BY GpuAssumption DEF Typed
  <2> QED BY <1>2, <2>1
<1>7. Kept' BY <1>1, <1>5, <1>6, KeptSame DEF FramesOK
<1>8. Paced' BY <1>1, <1>5, PacedSame DEF FramesOK
<1>9. Recorded'
  <2>1. CASE recorded' = {} BY <1>1, <1>5, <2>1 DEF Recorded
  <2>2. CASE recorded' # {}
    <3>1. (pc' = "quit" \/ recording) /\ UNCHANGED <<recording, recorded, failures>> BY <1>2, <1>3, <2>2
    <3>2. \A d : Uses(d, frame_counter) <=> Uses(d, frame_counter)' BY <1>1 DEF Uses
    <3>3. recording' => \A d \in recorded' :
            Uses(d, frame_counter)' /\ (failures' = 0 => Null \notin {d.mesh, d.pipeline})
      BY <3>1, <3>2 DEF FramesOK, Recorded
    <3>4. pc' \in {"model", "frame_done"} /\ ~recording' => recorded' = {} BY <3>1
    <3> QED BY <1>1, <1>5, <3>3, <3>4 DEF Recorded
  <2> QED BY <2>1, <2>2
<1> QED BY <1>4, <1>7, <1>8, <1>9 DEF FramesOK
(* destroy_stale_data keeps entries apart, and with the instances that it keeps
   their objects. *)
LEMMA StaleApart ==
  ASSUME SlotsOK, NEW n, DestroyStaleData(n), Distinct
  PROVE  /\ Distinct'
         /\ \A i \in 1 .. Len(instances') : \E q \in 1 .. Len(instances) :
              instances'[i] = instances[q] /\ ~Stale(instances[q], n)
         /\ \A q \in 1 .. Len(instances) : ~Stale(instances[q], n) =>
              \E i \in 1 .. Len(instances') : instances'[i] = instances[q]
<1>0. 0 + 1 = 1 OBVIOUS
<1>1. ASSUME NEW k \in Kinds
      PROVE  /\ \A i \in 1 .. caches'[k].count : \E q \in 1 .. caches[k].count : caches'[k].slots[i] = caches[k].slots[q]
             /\ \A i, j \in 1 .. caches'[k].count :
                  caches'[k].slots[i].info = caches'[k].slots[j].info => i = j
  <2>1. Swept(Entry(k), caches[k].slots, caches[k].count, n, caches'[k], 0) BY StaleSweeps
  <2>2. \A i \in 1 .. caches'[k].count : \E q \in 1 .. caches[k].count : caches'[k].slots[i] = caches[k].slots[q]
    BY <1>0, <2>1 DEF Swept
  <2>3. \A i, j \in 1 .. caches[k].count : caches[k].slots[i] = caches[k].slots[j] => i = j BY DEF Distinct
  <2>4. \A i, j \in 1 .. caches'[k].count : caches'[k].slots[i] = caches'[k].slots[j] => i = j
    BY <2>1, <2>3 DEF Swept
  <2>5. ASSUME NEW i \in 1 .. caches'[k].count, NEW j \in 1 .. caches'[k].count,
               caches'[k].slots[i].info = caches'[k].slots[j].info
        PROVE  i = j
    <3>1. PICK q \in 1 .. caches[k].count : caches'[k].slots[i] = caches[k].slots[q] BY <2>2
    <3>2. PICK r \in 1 .. caches[k].count : caches'[k].slots[j] = caches[k].slots[r] BY <2>2
    <3>3. q = r BY <2>5, <3>1, <3>2 DEF Distinct
    <3> QED BY <2>4, <3>1, <3>2, <3>3
  <2> QED BY <2>2, <2>5
<1>2. PICK kept : /\ Swept(InstanceEntry, instances, Len(instances), n, kept, 0)
                  /\ Len(instances') = kept.count
                  /\ \A i \in 1 .. kept.count : instances'[i] = kept.slots[i]
  BY StaleSweeps
<1> DEFINE m == kept.count
<1>3. /\ \A i \in 1 .. m : ~Stale(kept.slots[i], n) /\ \E q \in 1 .. Len(instances) : kept.slots[i] = instances[q]
      /\ \A q \in 1 .. Len(instances) : ~Stale(instances[q], n) => \E i \in 1 .. m : kept.slots[i] = instances[q]
  BY <1>0, <1>2 DEF Swept
<1>4. \A i, j \in 1 .. m : kept.slots[i] = kept.slots[j] => i = j
  <2>1. \A i, j \in 1 .. Len(instances) : instances[i] = instances[j] => i = j BY DEF Distinct
  <2> QED BY <1>2, <2>1 DEF Swept
<1>5. Len(instances') = m /\ \A i \in 1 .. m : instances'[i] = kept.slots[i] BY <1>2
<1> HIDE DEF m
<1>6. \A i \in 1 .. Len(instances') : \E q \in 1 .. Len(instances) :
        instances'[i] = instances[q] /\ ~Stale(instances[q], n)
  <2> SUFFICES ASSUME NEW i \in 1 .. Len(instances')
               PROVE  \E q \in 1 .. Len(instances) : instances'[i] = instances[q] /\ ~Stale(instances[q], n)
    OBVIOUS
  <2>1. i \in 1 .. m /\ instances'[i] = kept.slots[i] BY <1>5
  <2>2. ~Stale(kept.slots[i], n) BY <1>3, <2>1
  <2>3. PICK q \in 1 .. Len(instances) : kept.slots[i] = instances[q] BY <1>3, <2>1
  <2>4. instances'[i] = instances[q] BY <2>1, <2>3
  <2>5. ~Stale(instances[q], n) BY <2>2, <2>3
  <2> QED BY <2>4, <2>5
<1>7. \A q \in 1 .. Len(instances) : ~Stale(instances[q], n) =>
        \E i \in 1 .. Len(instances') : instances'[i] = instances[q]
  <2> SUFFICES ASSUME NEW q \in 1 .. Len(instances), ~Stale(instances[q], n)
               PROVE  \E i \in 1 .. Len(instances') : instances'[i] = instances[q]
    OBVIOUS
  <2>1. PICK i \in 1 .. m : kept.slots[i] = instances[q] BY <1>3
  <2> QED BY <1>5, <2>1
<1>8. ASSUME NEW i \in 1 .. Len(instances'), NEW j \in 1 .. Len(instances'),
             instances'[i].entity = instances'[j].entity
      PROVE  i = j
  <2>1. PICK q \in 1 .. Len(instances) : instances'[i] = instances[q] BY <1>6
  <2>2. PICK r \in 1 .. Len(instances) : instances'[j] = instances[r] BY <1>6
  <2>3. q = r BY <1>8, <2>1, <2>2 DEF Distinct
  <2> QED BY <1>4, <1>5, <2>1, <2>2, <2>3
<1>9. \A i \in 1 .. Len(instances') :
        instances'[i].object.kind = "instance" /\ instances'[i].object.info = instances'[i].entity
  <2> SUFFICES ASSUME NEW i \in 1 .. Len(instances')
               PROVE  instances'[i].object.kind = "instance" /\ instances'[i].object.info = instances'[i].entity
    OBVIOUS
  <2>1. PICK q \in 1 .. Len(instances) : instances'[i] = instances[q] BY <1>6
  <2> QED BY <2>1 DEF Distinct
<1>10. /\ \A i \in 1 .. caches'["mesh"].count : caches'["mesh"].slots[i].info \in Meshes
       /\ \A i \in 1 .. caches'["shader"].count : caches'["shader"].slots[i].info = Shader /\ Entities # {}
  <2>1. "mesh" \in Kinds /\ "shader" \in Kinds BY DEF Kinds
  <2>2. ASSUME NEW i \in 1 .. caches'["mesh"].count PROVE caches'["mesh"].slots[i].info \in Meshes
    <3>1. PICK q \in 1 .. caches["mesh"].count : caches'["mesh"].slots[i] = caches["mesh"].slots[q]
      BY <1>1, <2>1
    <3> QED BY <3>1 DEF Distinct
  <2>3. ASSUME NEW i \in 1 .. caches'["shader"].count
        PROVE  caches'["shader"].slots[i].info = Shader /\ Entities # {}
    <3>1. PICK q \in 1 .. caches["shader"].count : caches'["shader"].slots[i] = caches["shader"].slots[q]
      BY <1>1, <2>1
    <3> QED BY <3>1 DEF Distinct
  <2> QED BY <2>2, <2>3
<1>11. Distinct' BY <1>1, <1>8, <1>9, <1>10 DEF Distinct
<1> QED BY <1>6, <1>7, <1>11

(* When every mesh has been drawn, only instances are stale. *)
LEMMA OnlyInstances ==
  ASSUME EveryMeshDrawn, Typed, Stored, Distinct, \A e \in Permanent : Touched(e), DestroyStaleData(frame_counter)
  PROVE  /\ \A k \in Kinds : caches'[k].slots = caches[k].slots /\ caches'[k].count = caches[k].count
         /\ \A o \in live : o \notin live' =>
              \E i \in 1 .. Len(instances) : Stale(instances[i], frame_counter) /\ o = instances[i].object
<1>0. SlotsOK /\ frame_counter \in Nat BY SlotsAre DEF Typed
<1>1. \A i \in 1 .. caches["mesh"].count : caches["mesh"].slots[i].last = frame_counter
  <2> SUFFICES ASSUME NEW i \in 1 .. caches["mesh"].count
               PROVE  caches["mesh"].slots[i].last = frame_counter
    OBVIOUS
  <2>1. caches["mesh"].slots[i].info \in Meshes BY DEF Distinct
  <2>2. PICK e \in Permanent : MeshOf[e] = caches["mesh"].slots[i].info BY <2>1 DEF EveryMeshDrawn
  <2> QED BY <2>2 DEF Touched
<1>2. \A i \in 1 .. caches["shader"].count : caches["shader"].slots[i].last = frame_counter
  <2> SUFFICES ASSUME NEW i \in 1 .. caches["shader"].count
               PROVE  caches["shader"].slots[i].last = frame_counter
    OBVIOUS
  <2>1. PICK e \in Entities : TRUE BY DEF Distinct
  <2>2. MeshOf[e] \in Meshes BY RenderAssumption
  <2>3. PICK p \in Permanent : MeshOf[p] = MeshOf[e] BY <2>2 DEF EveryMeshDrawn
  <2> QED BY <2>3 DEF Touched
<1>3. ASSUME NEW k \in Kinds, NEW i \in 1 .. caches[k].count
      PROVE  ~Stale(caches[k].slots[i], frame_counter)
  <2>1. caches[k].slots[i].last = frame_counter BY <1>1, <1>2 DEF Kinds
  <2> QED BY <1>0, <2>1, GpuAssumption DEF Stale
<1>4. ASSUME NEW k \in Kinds
      PROVE  caches'[k].slots = caches[k].slots /\ caches'[k].count = caches[k].count
  <2>1. Swept(Entry(k), caches[k].slots, caches[k].count, frame_counter, caches'[k], 0) BY <1>0, StaleSweeps
  <2>2. 0 + 1 = 1 OBVIOUS
  <2> QED BY <1>3, <2>1, <2>2 DEF Swept
<1>5. \A o \in live : o \notin live' =>
        \/ \E k \in Kinds : \E i \in 1 .. caches[k].count : \E m \in Members[k] :
             Stale(caches[k].slots[i], frame_counter) /\ o = caches[k].slots[i].objects[m]
        \/ \E i \in 1 .. Len(instances) : Stale(instances[i], frame_counter) /\ o = instances[i].object
  BY <1>0, StaleFacts
<1> QED BY <1>3, <1>4, <1>5

LEMMA FrameStaleFrames ==
  ASSUME EveryMeshDrawn, Typed, Stored, FramesOK, FrameStale
  PROVE  FramesOK'
<1>1. /\ pc = "stale" /\ pc' = "pop" /\ DestroyStaleData(frame_counter)
      /\ frame_counter' = frame_counter + 1
      /\ UNCHANGED <<queue, game, command, recording, recorded, handles, frames, failures>>
  BY DEF FrameStale
<1>2. Marked' BY <1>1, MarkedSame DEF Unfinished, FramesOK
<1>3. SlotsOK /\ frame_counter \in Nat BY SlotsAre DEF Typed
<1>4. Distinct /\ Working /\ Working' /\ Current = frame_counter + 1 /\ Current' = frame_counter + 1
  BY <1>1 DEF FramesOK, Kept, Working, Current
<1>5. /\ \A k \in Kinds : caches'[k].slots = caches[k].slots /\ caches'[k].count = caches[k].count
      /\ \A o \in live : o \notin live' =>
           \E i \in 1 .. Len(instances) : Stale(instances[i], frame_counter) /\ o = instances[i].object
  <2>1. \A e \in Permanent : Touched(e) BY <1>1 DEF FramesOK, Marked
  <2> QED BY <1>1, <1>4, <2>1, OnlyInstances
<1>6. /\ Distinct'
      /\ \A i \in 1 .. Len(instances') : \E q \in 1 .. Len(instances) :
           instances'[i] = instances[q] /\ ~Stale(instances[q], frame_counter)
      /\ \A q \in 1 .. Len(instances) : ~Stale(instances[q], frame_counter) =>
           \E i \in 1 .. Len(instances') : instances'[i] = instances[q]
  BY <1>1, <1>3, <1>4, StaleApart
<1>7. \A o \in live : o.kind # "instance" => o \in live' BY <1>4, <1>5 DEF Distinct
<1>8. InstanceObjects' \subseteq live'
  <2> SUFFICES ASSUME NEW i \in 1 .. Len(instances') PROVE instances'[i].object \in live'
    BY DEF InstanceObjects
  <2>1. PICK q \in 1 .. Len(instances) : instances'[i] = instances[q] /\ ~Stale(instances[q], frame_counter)
    BY <1>6
  <2>2. instances[q].object \in live BY <1>4 DEF FramesOK, Kept, InstanceObjects
  <2>3. ASSUME instances[q].object \notin live' PROVE FALSE
    <3>1. PICK r \in 1 .. Len(instances) : Stale(instances[r], frame_counter) /\ instances[q].object = instances[r].object
      BY <1>5, <2>2, <2>3
    <3>2. instances[q].entity = instances[r].entity BY <1>4, <3>1 DEF Distinct
    <3>3. q = r BY <1>4, <3>2 DEF Distinct
    <3> QED BY <2>1, <3>1, <3>3
  <2> QED BY <2>1, <2>3
<1>9. Kept'
  <2>1. \A k \in Kinds : caches'[k].count = Len(caches'[k].slots) BY <1>4, <1>5 DEF FramesOK, Kept
  <2>2. ASSUME NEW k \in Kinds, NEW i \in 1 .. caches'[k].count, NEW m \in Members[k],
               caches'[k].slots[i].objects[m] # Null
        PROVE  LET o == caches'[k].slots[i].objects[m]
               IN  o \in live' /\ o.kind = m /\ o.info = caches'[k].slots[i].info
    <3> DEFINE o == caches[k].slots[i].objects[m]
    <3>1. i \in 1 .. caches[k].count /\ caches'[k].slots = caches[k].slots BY <1>5
    <3>2. o \in live /\ o.kind = m /\ o.info = caches[k].slots[i].info
      BY <1>4, <2>2, <3>1 DEF FramesOK, Kept
    <3>3. m # "instance" BY Constants
    <3> QED BY <1>7, <3>1, <3>2, <3>3
  <2>3. failures' = 0 => \A k \in Kinds : \A i \in 1 .. caches'[k].count : \A m \in Members[k] :
          caches'[k].slots[i].objects[m] # Null
    BY <1>1, <1>4, <1>5 DEF FramesOK, Kept
  <2> QED BY <1>6, <1>8, <2>1, <2>2, <2>3 DEF Kept
<1>10. Recorded' BY <1>1 DEF FramesOK, Recorded
<1>a. UNCHANGED <<frame_index, fences, flight, unwaited>> BY <1>1 DEF frames
<1>11. Paced'
  <2> SUFFICES ASSUME ~unwaited, NEW f \in flight
               PROVE  InFlight(f)'
    BY <1>a DEF Paced
  <2>a. InFlight(f) BY DEF FramesOK, Paced
  <2>b. f.number \in Nat /\ f.index \in FrameIndices BY DEF Stored, FramesTyped
  <2> DEFINE j == f.index
  <2>1. f.number + frame_index - j + (IF j < frame_index THEN 0 ELSE FrameCount) >= frame_counter + 1
    BY <1>4, <2>a DEF InFlight
  <2>2. ASSUME NEW d \in f.draws, NEW n, n = f.number
        PROVE  Uses(d, n)'
    <3>1. Uses(d, n) BY <2>2, <2>a DEF InFlight
    <3>2. PICK q \in 1 .. Len(instances) : instances[q].object = d.instance /\ instances[q].last >= n
      BY <3>1 DEF Uses
    <3>3. n + FrameCount >= frame_counter + 1 /\ n \in Nat
      <4>1. /\ n \in Nat /\ frame_index \in Nat /\ j \in Nat /\ FrameCount \in Nat
            /\ frame_index < FrameCount /\ j < FrameCount
        BY <2>2, <2>b, GpuAssumption DEF Stored, FramesTyped, FrameIndices
      <4> HIDE DEF j
      <4> QED BY SMTT(30), <1>3, <2>1, <2>2, <4>1
    <3>4. ~Stale(instances[q], frame_counter)
      <4>1. instances[q] \in InstanceEntry BY ElementOfSeq DEF Stored
      <4>2. instances[q].last \in Nat BY <4>1 DEF InstanceEntry
      <4> QED BY <1>3, <3>2, <3>3, <4>2, GpuAssumption DEF Stale
    <3>5. PICK i \in 1 .. Len(instances') : instances'[i] = instances[q] BY <1>6, <3>4
    <3>6. \E l \in 1 .. Len(instances') : instances'[l].object = d.instance /\ instances'[l].last >= n
      BY <3>2, <3>5
    <3>7. {d.mesh, d.shader, d.pipeline} \subseteq live' \cup {Null}
      <4>1. /\ d.mesh = Null \/ (d.mesh \in live /\ d.mesh.kind = "mesh")
            /\ d.shader = Null \/ (d.shader \in live /\ d.shader.kind = "shader")
            /\ d.pipeline = Null \/ (d.pipeline \in live /\ d.pipeline.kind = "pipeline")
        BY <3>1 DEF Uses
      <4> QED BY <1>7, <4>1
    <3> QED BY <3>1, <3>6, <3>7 DEF Uses
  <2>3. \A d \in f.draws : \A n \in {f.number} : Uses(d, n)' BY <2>2
  <2> QED BY <1>a, <1>4, <2>a, <2>1, <2>3 DEF InFlight
<1> QED BY <1>2, <1>9, <1>10, <1>11 DEF FramesOK

LEMMA RenderExitFrames ==
  ASSUME Typed, Stored, Ended, FramesOK, RenderExit
  PROVE  FramesOK'
<1>1. /\ pc = "quit" /\ pc' = "idle" /\ GpuWaitIdle /\ DestroyStaleData(frame_counter')
      /\ UNCHANGED <<queue, game, command, recording, recorded, handles>>
  BY DEF RenderExit
<1>2. queue = << >> /\ game.drawn = {} BY <1>1 DEF Ended, Ending, FramesOK, Marked
<1>3. Positions = {} /\ Positions' = {} BY <1>1, <1>2, EmptySeq DEF Positions
<1>4. ~recording BY <1>1, <1>2, <1>3 DEF FramesOK, Marked
<1>5. Marked' BY <1>1, <1>2, <1>3, <1>4 DEF Marked
<1>6. Kept'
  <2>1. SlotsOK /\ Distinct BY SlotsAre DEF FramesOK, Kept
  <2> DEFINE n == frame_counter'
  <2>2. DestroyStaleData(n) BY <1>1
  <2> HIDE DEF n
  <2>3. Distinct' BY <2>1, <2>2, StaleApart
  <2> QED BY <1>1, <2>3 DEF Kept, Working
<1>7. Recorded' BY <1>1, <1>4 DEF Recorded
<1>8. Paced'
  <2>1. flight' = flight /\ (flight = {} \/ unwaited') BY <1>1, WaitFacts DEF Typed, Stored
  <2> QED BY <2>1 DEF Paced
<1> QED BY <1>5, <1>6, <1>7, <1>8 DEF FramesOK

LEMMA RenderGpuIdleFrames ==
  ASSUME Typed, Stored, Ended, FramesOK, RenderGpuIdle
  PROVE  FramesOK'
<1>1. /\ pc = "idle" /\ pc' = "gpu_destroy" /\ GpuWaitIdle
      /\ UNCHANGED <<queue, game, command, recording, recorded, frame_counter, caches, instances, handles, live>>
  BY DEF RenderGpuIdle, renderer
<1>2. failures' \in 0 .. FailureBound /\ failures <= failures' /\ flight' = flight /\ (flight = {} \/ unwaited')
  BY <1>1, WaitFacts DEF Typed, Stored
<1>3. Marked' BY <1>1, MarkedSame DEF Unfinished, FramesOK
<1>4. ~Working /\ ~Working' BY <1>1 DEF Working
<1>5. ~recording BY <1>4 DEF FramesOK, Recorded
<1>6. Kept' BY <1>1, <1>4 DEF FramesOK, Kept, Distinct
<1>7. Recorded' BY <1>1, <1>5 DEF Recorded
<1>8. Paced' BY <1>2 DEF Paced
<1> QED BY <1>3, <1>6, <1>7, <1>8 DEF FramesOK
(* What a draw of e leaves in a cache whose entries are apart and were never
   given up. *)
CacheDrawn(k, e, failed, new) ==
  /\ Slot(k, e) \in 1 .. new.count
  /\ new.count = Len(new.slots)
  /\ new.slots[Slot(k, e)].info = InfoFor(k, e)
  /\ new.slots[Slot(k, e)].last = frame_counter
  /\ new.slots[Slot(k, e)].objects = Pointers(k, e, failed)
  /\ \A i \in 1 .. new.count : i = Slot(k, e) \/ (i \in 1 .. caches[k].count /\ new.slots[i] = caches[k].slots[i])
  /\ \A i, j \in 1 .. new.count : new.slots[i].info = new.slots[j].info => i = j
  /\ \A m \in Members[k] : Pointers(k, e, failed)[m] # Null =>
       /\ Pointers(k, e, failed)[m] \in live \cup Made(e, failed)
       /\ Pointers(k, e, failed)[m].kind = m /\ Pointers(k, e, failed)[m].info = InfoFor(k, e)
  /\ failed = {} => \A m \in Members[k] : Pointers(k, e, failed)[m] # Null

LEMMA DrawCache ==
  ASSUME Typed, Stored, Kept, Working, NEW e \in Entities, NEW failed \in SUBSET Attempts(e),
         NEW k \in Kinds, NEW new, new = GetOrCreate(k, InfoFor(k, e), failed)
  PROVE  CacheDrawn(k, e, failed, new)
<1> DEFINE s == Slot(k, e)
<1>1. /\ s \in 1 .. new.count
      /\ new.slots[s] = [info |-> InfoFor(k, e), last |-> frame_counter, objects |-> Pointers(k, e, failed)]
      /\ \A i \in 1 .. new.count : i = s \/ (i \in 1 .. caches[k].count /\ new.slots[i] = caches[k].slots[i])
      /\ s \in 1 .. caches[k].count \/
           (s = caches[k].count + 1 /\ \A i \in 1 .. caches[k].count : caches[k].slots[i].info # InfoFor(k, e))
      /\ s \in 1 .. caches[k].count => caches[k].slots[s].info = InfoFor(k, e)
      /\ caches[k].count = Len(caches[k].slots) => new.count = Len(new.slots)
  BY CacheAfter
<1>2. caches[k].count = Len(caches[k].slots) /\ Len(caches[k].slots) \in Nat BY LenProperties DEF Kept, Stored
<1>3. new.count = Len(new.slots) BY <1>1, <1>2
<1> HIDE DEF s
<1>4. ASSUME NEW i \in 1 .. new.count, NEW j \in 1 .. new.count, new.slots[i].info = new.slots[j].info
      PROVE  i = j
  <2>1. new.slots[s].info = InfoFor(k, e) BY <1>1
  <2>2. ASSUME NEW l \in 1 .. new.count, l # s, new.slots[l].info = InfoFor(k, e)
        PROVE  FALSE
    <3>1. l \in 1 .. caches[k].count /\ caches[k].slots[l].info = InfoFor(k, e) BY <1>1, <2>2
    <3>2. s \in 1 .. caches[k].count /\ caches[k].slots[s].info = InfoFor(k, e) BY <1>1, <3>1
    <3> QED BY SMTT(30), <2>2, <3>1, <3>2 DEF Kept, Distinct
  <2>3. CASE i = s BY <1>4, <2>1, <2>2, <2>3
  <2>4. CASE j = s BY <1>4, <2>1, <2>2, <2>4
  <2>5. CASE i # s /\ j # s
    <3>1. /\ i \in 1 .. caches[k].count /\ new.slots[i] = caches[k].slots[i]
          /\ j \in 1 .. caches[k].count /\ new.slots[j] = caches[k].slots[j]
      BY <1>1, <2>5
    <3> QED BY <1>4, <3>1 DEF Kept, Distinct
  <2> QED BY <2>3, <2>4, <2>5
<1>5. ASSUME NEW m \in Members[k], Pointers(k, e, failed)[m] # Null
      PROVE  /\ Pointers(k, e, failed)[m] \in live \cup Made(e, failed)
             /\ Pointers(k, e, failed)[m].kind = m /\ Pointers(k, e, failed)[m].info = InfoFor(k, e)
  <2> DEFINE old == PointersIn(caches[k], k, s)
             o == Pointers(k, e, failed)[m]
  <2>1. o = IF old[m] # Null THEN old[m]
            ELSE IF m \in failed THEN Null ELSE Object(m, InfoFor(k, e), frame_counter)
    BY DEF Pointers, Filled, s
  <2>2. CASE old[m] # Null
    <3>1. s <= Len(caches[k].slots) BY <2>2 DEF PointersIn
    <3>2. s \in 1 .. caches[k].count BY <1>1, <1>2, <3>1
    <3>3. old[m] = caches[k].slots[s].objects[m] BY <3>1 DEF PointersIn
    <3>4. caches[k].slots[s].info = InfoFor(k, e) BY <1>1, <3>2
    <3>5. old[m] \in live /\ old[m].kind = m /\ old[m].info = caches[k].slots[s].info
      BY <2>2, <3>2, <3>3 DEF Kept
    <3> QED BY <2>1, <2>2, <3>4, <3>5
  <2>3. CASE old[m] = Null
    <3>1. m \notin failed /\ o = Object(m, InfoFor(k, e), frame_counter) BY <1>5, <2>1, <2>3
    <3>2. m \in NullIn(k, e) BY <2>3 DEF NullIn, Slot, s
    <3>3. m \in Attempts(e) BY <3>2 DEF Attempts, Kinds
    <3>4. InfoOf(m, e) = InfoFor(k, e) BY InfoFacts
    <3>5. o \in Made(e, failed) BY <3>1, <3>3, <3>4 DEF Made
    <3>6. o.kind = m /\ o.info = InfoFor(k, e)
      <4>1. m \in DOMAIN Parts BY Constants
      <4> QED BY <3>1, <4>1, ObjectFacts
    <3> QED BY <3>5, <3>6
  <2> QED BY <2>2, <2>3
<1>6. ASSUME failed = {}, NEW m \in Members[k]
      PROVE  Pointers(k, e, failed)[m] # Null
  <2>1. m \in DOMAIN Parts BY Constants
  <2>2. Object(m, InfoFor(k, e), frame_counter) # Null BY <2>1, ObjectFacts
  <2> QED BY <1>6, <2>2 DEF Pointers, Filled
<1>7. /\ new.slots[s].info = InfoFor(k, e) /\ new.slots[s].last = frame_counter
      /\ new.slots[s].objects = Pointers(k, e, failed)
  BY <1>1
<1> QED BY <1>1, <1>3, <1>4, <1>5, <1>6, <1>7 DEF s, CacheDrawn

(* What a draw of e does when nothing is NULL. *)
Drawing(e, failed, missing) ==
  /\ \A k \in Kinds : caches'[k] = GetOrCreate(k, InfoFor(k, e), failed)
  /\ instances' = InstancesWith(e, missing)
  /\ live' = live \cup Made(e, failed)
  /\ frame_counter' = frame_counter
  /\ failures <= failures' /\ (failures' = 0 => failed = {}) /\ "instance" \notin failed
  /\ Working /\ Working'

LEMMA DrawKept ==
  ASSUME Typed, Stored, Kept, NEW e \in Entities, NEW failed \in SUBSET Attempts(e),
         NEW missing \in SUBSET FrameIndices, Drawing(e, failed, missing)
  PROVE  Kept'
<1>0. /\ frame_counter \in Nat /\ instances \in Seq(InstanceEntry) /\ Len(instances) \in Nat
      /\ failures \in Nat /\ Working /\ Working'
  BY LenProperties, GpuAssumption DEF Typed, Stored, Drawing
<1>1. failures' = 0 => failures = 0 /\ failed = {} BY <1>0 DEF Drawing
<1>2. ASSUME NEW k \in Kinds
      PROVE  /\ caches'[k].count = Len(caches'[k].slots)
             /\ caches'[k].slots[Slot(k, e)].info = InfoFor(k, e)
             /\ caches'[k].slots[Slot(k, e)].objects = Pointers(k, e, failed)
             /\ \A i \in 1 .. caches'[k].count :
                  i = Slot(k, e) \/ (i \in 1 .. caches[k].count /\ caches'[k].slots[i] = caches[k].slots[i])
             /\ \A i, j \in 1 .. caches'[k].count : caches'[k].slots[i].info = caches'[k].slots[j].info => i = j
             /\ \A m \in Members[k] : Pointers(k, e, failed)[m] # Null =>
                  /\ Pointers(k, e, failed)[m] \in live \cup Made(e, failed)
                  /\ Pointers(k, e, failed)[m].kind = m /\ Pointers(k, e, failed)[m].info = InfoFor(k, e)
             /\ failed = {} => \A m \in Members[k] : Pointers(k, e, failed)[m] # Null
  <2> DEFINE new == caches'[k]
  <2>1. new = GetOrCreate(k, InfoFor(k, e), failed) BY DEF Drawing
  <2> HIDE DEF new
  <2>2. CacheDrawn(k, e, failed, new) BY <1>0, <2>1, DrawCache
  <2> QED BY <2>2 DEF CacheDrawn, new
<1>3. live' = live \cup Made(e, failed) BY DEF Drawing
<1> DEFINE j == EntryOf(instances', e)
<1>4. /\ instances' \in Seq(InstanceEntry) /\ j \in 1 .. Len(instances')
      /\ Len(instances') = (IF InstanceSlot(e) = 0 THEN Len(instances) + 1 ELSE Len(instances))
      /\ j = (IF InstanceSlot(e) = 0 THEN Len(instances) + 1 ELSE InstanceSlot(e))
      /\ instances'[j].entity = e
      /\ InstanceSlot(e) = 0 => instances'[j].object = Object("instance", e, frame_counter)
      /\ InstanceSlot(e) # 0 => instances'[j].object = instances[j].object
      /\ \A i \in 1 .. Len(instances) : i # j => instances'[i] = instances[i]
      /\ InstanceSlot(e) = 0 => \A i \in 1 .. Len(instances) : instances[i].entity # e
  BY <1>0, InstanceFacts DEF Drawing
<1>5. InstanceSlot(e) # 0 => j \in 1 .. Len(instances) /\ instances[j].entity = e
  <2>1. InstanceSlot(e) = EntryOf(instances, e) BY DEF InstanceSlot, EntryOf
  <2>2. /\ EntryOf(instances, e) \in 0 .. Len(instances)
        /\ EntryOf(instances, e) # 0 => instances[EntryOf(instances, e)].entity = e
    BY <1>0, SearchFacts
  <2> QED BY <1>0, <1>4, <2>1, <2>2
<1> HIDE DEF j
<1>6. \A i \in 1 .. Len(instances') : i = j \/
        (i \in 1 .. Len(instances) /\ instances'[i] = instances[i] /\ instances[i].entity # e)
  <2> SUFFICES ASSUME NEW i \in 1 .. Len(instances'), i # j
               PROVE  i \in 1 .. Len(instances) /\ instances'[i] = instances[i] /\ instances[i].entity # e
    OBVIOUS
  <2>1. i \in 1 .. Len(instances) BY <1>0, <1>4
  <2>2. instances'[i] = instances[i] BY <1>4, <2>1
  <2>3. instances[i].entity # e BY <1>4, <1>5, <2>1 DEF Kept, Distinct
  <2> QED BY <2>1, <2>2, <2>3
<1>7. instances'[j].object.kind = "instance" /\ instances'[j].object.info = e /\ instances'[j].object \in live'
  <2>1. CASE InstanceSlot(e) = 0
    <3>1. "instance" \in DOMAIN Parts BY Constants
    <3>2. "instance" \in Attempts(e) BY <2>1 DEF Attempts
    <3>3. "instance" \notin failed BY DEF Drawing
    <3>4. InfoOf("instance", e) = e BY InfoFacts
    <3>5. Object("instance", e, frame_counter) \in Made(e, failed) BY <3>2, <3>3, <3>4 DEF Made
    <3> QED BY <1>3, <1>4, <2>1, <3>1, <3>5, ObjectFacts
  <2>2. CASE InstanceSlot(e) # 0
    <3>1. instances'[j].object = instances[j].object /\ j \in 1 .. Len(instances) /\ instances[j].entity = e
      BY <1>4, <1>5, <2>2
    <3>2. instances[j].object \in live BY <1>0, <3>1 DEF Kept, InstanceObjects
    <3> QED BY <1>3, <3>1, <3>2 DEF Kept, Distinct
  <2> QED BY <2>1, <2>2
<1>8. Distinct'
  <2>1. \A i, l \in 1 .. Len(instances') : instances'[i].entity = instances'[l].entity => i = l
    BY <1>4, <1>6 DEF Kept, Distinct
  <2>2. \A i \in 1 .. Len(instances') :
          instances'[i].object.kind = "instance" /\ instances'[i].object.info = instances'[i].entity
    BY <1>4, <1>6, <1>7 DEF Kept, Distinct
  <2>3. \A i \in 1 .. caches'["mesh"].count : caches'["mesh"].slots[i].info \in Meshes
    <3>1. InfoFor("mesh", e) \in Meshes BY InfoFacts DEF InfoFor
    <3> QED BY <1>2, <3>1 DEF Kept, Distinct, Kinds
  <2>4. \A i \in 1 .. caches'["shader"].count : caches'["shader"].slots[i].info = Shader /\ Entities # {}
    <3>1. InfoFor("shader", e) = Shader BY DEF InfoFor
    <3> QED BY <1>2, <3>1 DEF Kept, Distinct, Kinds
  <2> QED BY <1>2, <2>1, <2>2, <2>3, <2>4 DEF Distinct
<1>9. ASSUME NEW k \in Kinds, NEW i \in 1 .. caches'[k].count, NEW m \in Members[k]
      PROVE  LET o == caches'[k].slots[i].objects[m]
             IN  /\ o # Null => o \in live' /\ o.kind = m /\ o.info = caches'[k].slots[i].info
                 /\ failures' = 0 => o # Null
  <2>1. CASE i = Slot(k, e) BY <1>1, <1>2, <1>3, <2>1
  <2>2. CASE i # Slot(k, e)
    <3>1. i \in 1 .. caches[k].count /\ caches'[k].slots[i] = caches[k].slots[i] BY <1>2, <2>2
    <3>2. LET o == caches[k].slots[i].objects[m]
          IN  /\ o # Null => o \in live /\ o.kind = m /\ o.info = caches[k].slots[i].info
              /\ failures = 0 => o # Null
      BY <1>0, <3>1 DEF Kept
    <3> QED BY <1>1, <1>3, <3>1, <3>2
  <2> QED BY <2>1, <2>2
<1>10. InstanceObjects' \subseteq live'
  <2> SUFFICES ASSUME NEW i \in 1 .. Len(instances') PROVE instances'[i].object \in live'
    BY DEF InstanceObjects
  <2>1. CASE i = j BY <1>7, <2>1
  <2>2. CASE i # j
    <3>1. i \in 1 .. Len(instances) /\ instances'[i] = instances[i] BY <1>6, <2>2
    <3> QED BY <1>0, <1>3, <3>1 DEF Kept, InstanceObjects
  <2> QED BY <2>1, <2>2
<1> QED BY <1>2, <1>8, <1>9, <1>10 DEF Kept
LEMMA DrawTouches ==
  ASSUME Typed, Stored, Kept, NEW e \in Entities, NEW failed \in SUBSET Attempts(e),
         NEW missing \in SUBSET FrameIndices, Drawing(e, failed, missing)
  PROVE  Touched(e)' /\ \A f : Touched(f) => Touched(f)'
<1>1. Kept' BY DrawKept
<1>2. frame_counter' = frame_counter /\ Working BY DEF Drawing
<1>3. ASSUME NEW k \in Kinds
      PROVE  /\ Slot(k, e) \in 1 .. caches'[k].count
             /\ caches'[k].slots[Slot(k, e)].info = InfoFor(k, e)
             /\ caches'[k].slots[Slot(k, e)].last = frame_counter
             /\ \A i \in 1 .. caches'[k].count :
                  i = Slot(k, e) \/ (i \in 1 .. caches[k].count /\ caches'[k].slots[i] = caches[k].slots[i])
  <2> DEFINE new == caches'[k]
  <2>1. new = GetOrCreate(k, InfoFor(k, e), failed) BY DEF Drawing
  <2> HIDE DEF new
  <2>2. CacheDrawn(k, e, failed, new) BY <1>2, <2>1, DrawCache
  <2> QED BY <2>2 DEF CacheDrawn, new
<1>4. "mesh" \in Kinds /\ "shader" \in Kinds BY DEF Kinds
<1>5. \A i \in 1 .. caches'["mesh"].count :
        caches'["mesh"].slots[i].info = MeshOf[e] => caches'["mesh"].slots[i].last = frame_counter
  <2> SUFFICES ASSUME NEW i \in 1 .. caches'["mesh"].count, caches'["mesh"].slots[i].info = MeshOf[e]
               PROVE  caches'["mesh"].slots[i].last = frame_counter
    OBVIOUS
  <2>1. InfoFor("mesh", e) = MeshOf[e] BY DEF InfoFor
  <2>2. i = Slot("mesh", e) BY <1>1, <1>3, <1>4, <2>1 DEF Kept, Distinct
  <2> QED BY <1>3, <1>4, <2>2
<1>6. \A i \in 1 .. caches'["shader"].count : caches'["shader"].slots[i].last = frame_counter
  <2> SUFFICES ASSUME NEW i \in 1 .. caches'["shader"].count
               PROVE  caches'["shader"].slots[i].last = frame_counter
    OBVIOUS
  <2>1. InfoFor("shader", e) = Shader BY DEF InfoFor
  <2>2. caches'["shader"].slots[i].info = Shader BY <1>1 DEF Kept, Distinct
  <2>3. i = Slot("shader", e) BY <1>1, <1>3, <1>4, <2>1, <2>2 DEF Kept, Distinct
  <2> QED BY <1>3, <1>4, <2>3
<1>7. Touched(e)' BY <1>2, <1>5, <1>6 DEF Touched
<1>8. ASSUME NEW f, Touched(f)
      PROVE  Touched(f)'
  <2>1. \A i \in 1 .. caches'["mesh"].count :
          caches'["mesh"].slots[i].info = MeshOf[f] => caches'["mesh"].slots[i].last = frame_counter
    BY <1>3, <1>4, <1>8 DEF Touched
  <2> QED BY <1>2, <1>6, <2>1 DEF Touched
<1> QED BY <1>7, <1>8

(* Draws recorded before still have what they use, and so has this one. *)
LEMMA DrawUses ==
  ASSUME Typed, Stored, Held, Kept, NEW e \in Entities, NEW failed \in SUBSET Attempts(e),
         NEW missing \in SUBSET FrameIndices, Drawing(e, failed, missing),
         NEW x, x = InstancesWith(e, missing)[EntryOf(InstancesWith(e, missing), e)],
         ~Dereferenced(failed, DrawOf(e, failed, x.object), x)
  PROVE  /\ \A d : \A n \in Nat : Uses(d, n) => Uses(d, n)'
         /\ \A d, n : d = DrawOf(e, failed, x.object) /\ n = frame_counter => Uses(d, n)'
         /\ failures' = 0 => Null \notin {DrawOf(e, failed, x.object).mesh, DrawOf(e, failed, x.object).pipeline}
<1>0. /\ frame_counter \in Nat /\ instances \in Seq(InstanceEntry) /\ Len(instances) \in Nat
      /\ frame_counter' = frame_counter /\ Working /\ live' = live \cup Made(e, failed)
      /\ instances' = InstancesWith(e, missing)
  BY LenProperties DEF Typed, Stored, Drawing
<1>1. Kept' BY DrawKept
<1> DEFINE j == EntryOf(instances', e)
<1>2. /\ j \in 1 .. Len(instances')
      /\ Len(instances') = (IF InstanceSlot(e) = 0 THEN Len(instances) + 1 ELSE Len(instances))
      /\ j = (IF InstanceSlot(e) = 0 THEN Len(instances) + 1 ELSE InstanceSlot(e))
      /\ instances'[j].entity = e /\ instances'[j].last = frame_counter
      /\ InstanceSlot(e) # 0 => instances'[j].object = instances[j].object
      /\ \A i \in 1 .. Len(instances) : i # j => instances'[i] = instances[i]
  BY <1>0, InstanceFacts
<1>3. x = instances'[j] BY <1>0
<1> HIDE DEF j
<1>4. ASSUME NEW d, NEW n \in Nat, Uses(d, n)
      PROVE  Uses(d, n)'
  <2>1. PICK i \in 1 .. Len(instances) : instances[i].object = d.instance /\ instances[i].last >= n
    BY <1>4 DEF Uses
  <2>2. i \in 1 .. Len(instances') BY <1>0, <1>2
  <2>3. instances'[i].object = d.instance /\ instances'[i].last >= n
    <3>1. CASE i # j BY <1>2, <2>1, <3>1
    <3>2. CASE i = j
      <4>1. InstanceSlot(e) # 0 BY <1>0, <1>2, <3>2
      <4>2. instances[i].last <= frame_counter BY DEF Held
      <4>3. instances[i].last \in Nat
        <5>1. instances[i] \in InstanceEntry BY <1>0, ElementOfSeq
        <5> QED BY <5>1 DEF InstanceEntry
      <4> QED BY <1>0, <1>2, <2>1, <3>2, <4>1, <4>2, <4>3
    <3> QED BY <3>1, <3>2
  <2>4. \E l \in 1 .. Len(instances') : instances'[l].object = d.instance /\ instances'[l].last >= n
    BY <2>2, <2>3
  <2>5. {d.mesh, d.shader, d.pipeline} \subseteq live' \cup {Null} BY <1>0, <1>4 DEF Uses
  <2> QED BY <1>4, <2>4, <2>5 DEF Uses
<1> DEFINE d == DrawOf(e, failed, x.object)
<1>5. d \in Draws BY DrawTypes, <1>0
<1>6. /\ d.entity = e /\ d.mesh = Pointers("mesh", e, failed)["mesh"]
      /\ d.shader = Pointers("shader", e, failed)["shader"]
      /\ d.pipeline = Pointers("shader", e, failed)["pipeline"] /\ d.instance = x.object
  BY DEF DrawOf
<1> HIDE DEF d
<1>7. ASSUME NEW k \in Kinds, NEW m \in Members[k]
      PROVE  /\ Pointers(k, e, failed)[m] # Null =>
                  /\ Pointers(k, e, failed)[m] \in live'
                  /\ Pointers(k, e, failed)[m].kind = m /\ Pointers(k, e, failed)[m].info = InfoFor(k, e)
             /\ failures' = 0 => Pointers(k, e, failed)[m] # Null
  <2> DEFINE new == caches'[k]
  <2>1. new = GetOrCreate(k, InfoFor(k, e), failed) BY DEF Drawing
  <2> HIDE DEF new
  <2>2. CacheDrawn(k, e, failed, new) BY <1>0, <2>1, DrawCache
  <2>3. failures' = 0 => failed = {} BY DEF Drawing
  <2> QED BY <1>0, <2>2, <2>3 DEF CacheDrawn
<1>8. "mesh" \in Kinds /\ "shader" \in Kinds /\ "mesh" \in Members["mesh"] /\ {"shader", "pipeline"} \subseteq Members["shader"]
  BY Constants DEF Kinds
<1>9. /\ d.mesh # Null => d.mesh \in live' /\ d.mesh.kind = "mesh" /\ d.mesh.info = MeshOf[e]
      /\ failures' = 0 => d.mesh # Null
  BY <1>6, <1>7, <1>8 DEF InfoFor
<1>10. d.shader # Null => d.shader \in live' /\ d.shader.kind = "shader"
  BY <1>6, <1>7, <1>8
<1>11. /\ d.pipeline # Null => d.pipeline \in live' /\ d.pipeline.kind = "pipeline"
       /\ failures' = 0 => d.pipeline # Null
  BY <1>6, <1>7, <1>8
<1>12. d.shader # Null BY <1>5, NullIsNone DEF Draws
<1>13. d.instance.info = d.entity
  <2>1. instances'[j].object.info = instances'[j].entity BY <1>1, <1>2 DEF Kept, Distinct
  <2> QED BY <1>2, <1>3, <1>6, <2>1
<1>14. \E i \in 1 .. Len(instances') : instances'[i].object = d.instance /\ instances'[i].last >= frame_counter
  <2>1. instances'[j].object = d.instance /\ instances'[j].last >= frame_counter BY <1>0, <1>2, <1>3, <1>6
  <2> QED BY <1>2, <2>1
<1>15. {d.mesh, d.shader, d.pipeline} \subseteq live' \cup {Null} BY <1>9, <1>10, <1>11
<1>16. ASSUME NEW f, NEW n, f = d, n = frame_counter
       PROVE  Uses(f, n)'
  BY <1>6, <1>9, <1>10, <1>11, <1>12, <1>13, <1>14, <1>15, <1>16 DEF Uses
<1> QED BY <1>4, <1>9, <1>11, <1>16 DEF d

LEMMA RenderModelFrames ==
  ASSUME Typed, Stored, Held, FramesOK, RenderModel
  PROVE  FramesOK'
<1>a. PICK e \in Entities : \E failed \in SUBSET Attempts(e) : \E missing \in SUBSET FrameIndices : \E x :
        DrawStep(e, failed, missing, x)
  BY DrawFacts
<1>b. PICK failed \in SUBSET Attempts(e) : \E missing \in SUBSET FrameIndices : \E x :
        DrawStep(e, failed, missing, x)
  BY <1>a
<1>c. PICK missing \in SUBSET FrameIndices : \E x : DrawStep(e, failed, missing, x) BY <1>b
<1>d. PICK x : DrawStep(e, failed, missing, x) BY <1>c
<1>2. /\ command = Model(e) /\ x = InstancesWith(e, missing)[EntryOf(InstancesWith(e, missing), e)]
      /\ failures' \in 0 .. FailureBound /\ failures <= failures' /\ (failures' = 0 => failed = {})
      /\ \/ pc' = "crash" /\ UNCHANGED <<caches, instances, live, recorded>>
         \/ /\ pc' = "pop" /\ ~Dereferenced(failed, DrawOf(e, failed, x.object), x)
            /\ \A k \in Kinds : caches'[k] = GetOrCreate(k, InfoFor(k, e), failed)
            /\ instances' = InstancesWith(e, missing)
            /\ live' = live \cup Made(e, failed)
            /\ recorded' = recorded \cup {DrawOf(e, failed, x.object)}
  BY <1>d DEF DrawStep
<1>3. pc = "model" /\ UNCHANGED <<queue, game, command, recording, frame_counter, handles, frames>>
  BY DrawFacts
<1>4. Typed /\ Stored /\ Kept /\ Held /\ Marked /\ Recorded /\ Paced BY DEF FramesOK
<1>5. failures \in Nat /\ frame_counter \in Nat /\ Len(queue) \in Nat
  BY GpuAssumption, LenProperties DEF Typed
<1>6. failures' = 0 => failures = 0 /\ failed = {} BY <1>2, <1>5, GpuAssumption
<1>7. /\ Working /\ Working' /\ Current' = Current /\ pc' \in {"pop", "crash"}
  BY <1>2, <1>3 DEF Working, Current
<1>8. CASE pc' = "crash"
  <2>1. UNCHANGED <<caches, instances, live, recorded>> BY <1>2, <1>8
  <2>2. Marked' BY <1>3, <1>4, <1>8 DEF Marked, Positions
  <2>3. Kept' BY <1>4, <1>6, <1>7, <2>1, KeptSame
  <2>4. Recorded' BY <1>3, <1>4, <1>6, <1>7, <1>8, <2>1, RecordedSame
  <2>5. Paced' BY <1>3, <1>4, <1>7, <2>1, PacedSame
  <2> QED BY <2>2, <2>3, <2>4, <2>5 DEF FramesOK
<1>9. CASE pc' = "pop"
  <2>1. /\ ~Dereferenced(failed, DrawOf(e, failed, x.object), x)
        /\ \A k \in Kinds : caches'[k] = GetOrCreate(k, InfoFor(k, e), failed)
        /\ instances' = InstancesWith(e, missing)
        /\ live' = live \cup Made(e, failed)
        /\ recorded' = recorded \cup {DrawOf(e, failed, x.object)}
    BY <1>2, <1>9
  <2>2. "instance" \notin failed BY <2>1 DEF Dereferenced
  <2>3. Drawing(e, failed, missing) BY <1>2, <1>3, <1>7, <2>1, <2>2 DEF Drawing
  <2>4. Kept' BY <1>4, <2>3, DrawKept
  <2>5. Touched(e)' /\ \A f : Touched(f) => Touched(f)' BY <1>4, <2>3, DrawTouches
  <2>6. /\ \A d : \A n \in Nat : Uses(d, n) => Uses(d, n)'
        /\ \A d, n : d = DrawOf(e, failed, x.object) /\ n = frame_counter => Uses(d, n)'
        /\ failures' = 0 => Null \notin {DrawOf(e, failed, x.object).mesh, DrawOf(e, failed, x.object).pipeline}
    BY <1>2, <1>4, <2>1, <2>3, DrawUses
  <2>7. ASSUME NEW f, NEW i \in Nat, DrawnBy(f, i)
        PROVE  DrawnBy(f, i)'
    <3>1. Unfinished' BY <1>9 DEF Unfinished
    <3>2. command = Model(f) => f = e BY <1>2 DEF Model
    <3>3. command = Model(f) => Touched(f)' BY <2>5, <3>2
    <3>4. \A k \in 1 .. i - 1 : queue'[k] = queue[k] BY <1>3
    <3> QED BY <2>5, <2>7, <3>1, <3>3, <3>4, DrawnKept
  <2>8. Marked'
    <3>1. Positions' = Positions BY <1>3 DEF Positions
    <3>2. \A i \in Positions : queue[i] = FrameDone => \A f \in Permanent : DrawnBy(f, i)'
      BY <1>3, <1>4, <1>5, <2>7 DEF Marked, Positions
    <3>3. \A i \in {Len(queue) + 1} : \A f \in game.drawn : DrawnBy(f, i)'
      BY <1>3, <1>4, <1>5, <2>7 DEF Marked
    <3>4. \A i \in Positions' : queue'[i] = FrameDone => \A f \in Permanent : DrawnBy(f, i)'
      BY <1>3, <3>1, <3>2
    <3>5. \A i \in {Len(queue') + 1} : \A f \in game'.drawn : DrawnBy(f, i)' BY <1>3, <3>3
    <3> QED BY <1>3, <1>4, <1>9, <3>1, <3>4, <3>5 DEF Marked
  <2>9. Recorded'
    <3>1. \A d \in recorded : recording =>
            \A n : n = frame_counter => Uses(d, n)' /\ (failures' = 0 => Null \notin {d.mesh, d.pipeline})
      BY <1>4, <1>5, <1>6, <2>6 DEF Recorded
    <3>2. \A d \in recorded' : recording' =>
            \A n : n = frame_counter => Uses(d, n)' /\ (failures' = 0 => Null \notin {d.mesh, d.pipeline})
      BY <1>3, <2>1, <2>6, <3>1
    <3>3. \A d \in recorded' : recording' =>
            Uses(d, frame_counter)' /\ (failures' = 0 => Null \notin {d.mesh, d.pipeline})
      BY <1>3, <3>2 DEF Uses
    <3> QED BY <1>7, <1>9, <3>3 DEF Recorded
  <2>10. Paced'
    <3>1. UNCHANGED <<frame_index, fences, flight, unwaited>> BY <1>3 DEF frames
    <3>2. ASSUME ~unwaited, NEW f \in flight PROVE InFlight(f)'
      <4>1. InFlight(f) BY <1>4, <3>2 DEF Paced
      <4>2. f.number \in Nat BY DEF Stored, FramesTyped
      <4>3. \A d \in f.draws : \A n \in {f.number} : Uses(d, n)' BY <2>6, <4>1, <4>2 DEF InFlight
      <4> QED BY <1>7, <3>1, <4>1, <4>3 DEF InFlight
    <3> QED BY <3>1, <3>2 DEF Paced
  <2> QED BY <2>4, <2>8, <2>9, <2>10 DEF FramesOK
<1> QED BY <1>7, <1>8, <1>9
LEMMA FramesBegin ==
  ASSUME Init
  PROVE  FramesOK
<1>1. /\ queue = << >> /\ game = [pc |-> "play", drawn |-> {}, frames |-> 0]
      /\ pc = "gpu_create" /\ recording = FALSE /\ recorded = {} /\ instances = << >>
      /\ flight = {}
  BY DEF Init, GpuInit
<1>2. \A k \in Kinds : caches[k].slots = << >> /\ caches[k].count = 0 BY Constants DEF Init
<1>3. Len(<< >>) = 0 BY EmptySeq
<1>4. Positions = {} BY <1>1, <1>3 DEF Positions
<1>5. Marked BY <1>1, <1>4 DEF Marked
<1>6. \A k \in Kinds : 1 .. caches[k].count = {} BY <1>2
<1>7. 1 .. Len(instances) = {} BY <1>1, <1>3
<1>8. Distinct BY <1>6, <1>7 DEF Distinct, Kinds
<1>9. Kept BY <1>2, <1>3, <1>6, <1>7, <1>8 DEF Kept, InstanceObjects
<1>10. Recorded BY <1>1 DEF Recorded
<1>11. Paced BY <1>1 DEF Paced
<1> QED BY <1>5, <1>9, <1>10, <1>11 DEF FramesOK

LEMMA FramesStutter ==
  ASSUME Typed, FramesOK, UNCHANGED vars
  PROVE  FramesOK'
<1>1. UNCHANGED <<queue, game, pc, command, recording, recorded, frame_counter, caches, instances,
                  handles, live, frames, failures>>
  BY DEF vars, renderer, gpu
<1>2. (Working' <=> Working) /\ Current' = Current BY <1>1 DEF Working, Current
<1>3. Kept' BY <1>1, <1>2, KeptSame DEF FramesOK
<1>4. Recorded'
  <2>1. recording => Working' BY <1>2 DEF FramesOK, Recorded
  <2> QED BY <1>1, <2>1, RecordedSame DEF FramesOK
<1>5. Paced' BY <1>1, <1>2, PacedSame DEF FramesOK
<1>6. Marked'
  <2>1. \A e : Touched(e)' <=> Touched(e) BY <1>1 DEF Touched
  <2>2. \A e, i : DrawnBy(e, i)' <=> DrawnBy(e, i) BY <1>1, <2>1 DEF DrawnBy
  <2>3. \A i \in Positions : queue[i] = FrameDone => \A e \in Permanent : pc # "crash" => DrawnBy(e, i)'
    BY <2>2 DEF FramesOK, Marked
  <2>4. \A i \in {Len(queue) + 1} : \A e \in game.drawn : pc # "crash" => DrawnBy(e, i)'
    BY <2>2 DEF FramesOK, Marked
  <2>5. \A i \in Positions' : queue'[i] = FrameDone => \A e \in Permanent : pc # "crash" => DrawnBy(e, i)'
    BY <1>1, <2>3 DEF Positions
  <2>6. \A i \in {Len(queue') + 1} : \A e \in game'.drawn : pc # "crash" => DrawnBy(e, i)'
    BY <1>1, <2>4
  <2>7. Positions' = Positions BY <1>1 DEF Positions
  <2> QED BY <1>1, <2>1, <2>5, <2>6, <2>7 DEF FramesOK, Marked
<1> QED BY <1>3, <1>4, <1>5, <1>6 DEF FramesOK

LEMMA FramesInductive ==
  ASSUME EveryMeshDrawn, IInv, FramesOK, [Next]_vars
  PROVE  FramesOK'
<1>0. Typed /\ Stored /\ Ended /\ Held BY TypedFromType DEF IInv
<1>1. CASE UNCHANGED vars BY <1>0, <1>1, FramesStutter
<1>2. CASE Next
  <2>1. pc # "crash" BY <1>2 DEF Next
  <2>2. CASE \E e \in Entities : PushModel(e) BY <1>0, <2>1, <2>2, PushModelFrames
  <2>3. CASE PushDone BY <1>0, <2>1, <2>3, PushDoneFrames
  <2>4. CASE RenderDestroy BY <1>0, <2>1, <2>4, RenderDestroyFrames
  <2>5. CASE GameDestroy BY <1>0, <2>1, <2>5, GameDestroyFrames
  <2>6. CASE RenderCreate BY <1>0, <2>6, RenderCreateFrames
  <2>7. CASE RenderPop BY <1>0, <2>7, RenderPopFrames
  <2>8. CASE RenderModel BY <1>0, <2>8, RenderModelFrames
  <2>9. CASE FrameEnd BY <1>0, <2>9, FrameEndFrames
  <2>10. CASE FrameStale BY <1>0, <2>10, FrameStaleFrames
  <2>11. CASE RenderExit BY <1>0, <2>11, RenderExitFrames
  <2>12. CASE RenderGpuDestroy BY <1>0, <2>12, RenderGpuDestroyFrames
  <2>13. CASE GpuCompletes BY <1>0, <2>1, <2>13, GpuCompletesFrames
  <2>14. CASE FrameAcquired BY <1>0, <2>14, FrameAcquiredFrames
  <2>15. CASE RenderGpuIdle BY <1>0, <2>15, RenderGpuIdleFrames
  <2> QED
    BY <1>2, <2>2, <2>3, <2>4, <2>5, <2>6, <2>7, <2>8, <2>9, <2>10, <2>11, <2>12, <2>13, <2>14, <2>15
    DEF Next, RenderThread
<1> QED BY <1>1, <1>2

LEMMA InvariantWhenDrawn == EveryMeshDrawn => (Spec => []JInv)
<1> SUFFICES ASSUME EveryMeshDrawn PROVE Spec => []JInv OBVIOUS
<1>1. Init => JInv BY Begins, FramesBegin DEF JInv
<1>2. JInv /\ [Next]_vars => JInv' BY Inductive, FramesInductive DEF JInv
<1> QED BY <1>1, <1>2, PTL DEF Spec

(* If the game draws every mesh in every frame, whatever else it draws and
   leaves out, and whichever calls of Vulkan fail, until a wait for the GPU or
   the reset of a fence does, destroy_stale_data destroys nothing that a frame in
   flight draws with. *)
THEOREM FramesInFlightAreSafe == EveryMeshDrawn => (Spec => []InFlightLive)
<1> SUFFICES ASSUME EveryMeshDrawn PROVE Spec => []InFlightLive OBVIOUS
<1>1. ASSUME JInv PROVE InFlightLive
  <2> SUFFICES ASSUME ~unwaited, NEW f \in flight, NEW d \in f.draws,
                      NEW o \in {d.mesh, d.shader, d.pipeline, d.instance}, o # Null
               PROVE  o \in live
    BY DEF InFlightLive, Used
  <2>1. FramesOK BY <1>1 DEF JInv
  <2>2. Working /\ \A n \in {f.number} : Uses(d, n) BY <2>1 DEF FramesOK, Paced, InFlight
  <2>3. InstanceObjects \subseteq live BY <2>1, <2>2 DEF FramesOK, Kept
  <2> QED BY <2>2, <2>3 DEF Uses, InstanceObjects
<1> QED BY <1>1, InvariantWhenDrawn, PTL

(* Under the same condition a draw uses objects that exist and are those of its
   entity and its mesh, and without a failure it lacks none. *)
THEOREM DrawsAreWhole == EveryMeshDrawn => (Spec => []DrawsLive)
<1> SUFFICES ASSUME EveryMeshDrawn PROVE Spec => []DrawsLive OBVIOUS
<1>1. ASSUME JInv PROVE DrawsLive
  <2> SUFFICES ASSUME recording, NEW d \in recorded
               PROVE  /\ Used({d}) \subseteq live
                      /\ d.mesh = Null \/ d.mesh.info = MeshOf[d.entity]
                      /\ d.instance.info = d.entity
                      /\ failures = 0 => Null \notin {d.mesh, d.pipeline}
    BY DEF DrawsLive
  <2>1. FramesOK BY <1>1 DEF JInv
  <2>2. Working /\ Uses(d, frame_counter) /\ (failures = 0 => Null \notin {d.mesh, d.pipeline})
    BY <2>1 DEF FramesOK, Recorded
  <2>3. InstanceObjects \subseteq live BY <2>1, <2>2 DEF FramesOK, Kept
  <2>4. d.instance \in live BY <2>2, <2>3 DEF Uses, InstanceObjects
  <2>5. Used({d}) = {d.mesh, d.shader, d.pipeline, d.instance} \ {Null} BY DEF Used
  <2> QED BY <2>2, <2>4, <2>5 DEF Uses
<1> QED BY <1>1, InvariantWhenDrawn, PTL
=============================================================================
