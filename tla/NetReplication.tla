--------------------------- MODULE NetReplication ---------------------------
(***************************************************************************)
(* How src/src/net.c replicates entities over UDP: in every update a host  *)
(* takes a snapshot of the entities it has registered, sends it as a delta *)
(* against the last snapshot its peer acknowledged, and applies what it    *)
(* has received.  Packets are lost, duplicated and reordered.              *)
(*                                                                         *)
(* One direction is modelled: the sender registers entities, the receiver  *)
(* registers none and its packets carry acknowledgements only.  Nothing    *)
(* else passes between the two directions of a connection.                 *)
(***************************************************************************)
EXTENDS Integers, Sequences, SequencesExt

CONSTANTS
  MaxEntities,    \* k_max_entities, of the sender's table
  MaxCopies,      \* k_max_entities, of the receiver's connection
  MaxSnapshots,   \* k_max_snapshots
  Values,         \* what the replicated components of an entity may hold
  Unset,          \* what they hold in an entity just added
  Fresh,          \* whether a value that has changed never comes back
  Tidy,           \* whether the game removes only the entity registered last,
                  \* and registers none while a removal is pending
  IdBound,        \* bound of the model: entities registered
  UpdateBound     \* bound of the model: updates of each host

ASSUME ReplicationAssumption ==
  /\ MaxEntities \in Nat \ {0} /\ MaxCopies \in Nat \ {0} /\ MaxSnapshots \in Nat \ {0}
  /\ Values \subseteq Nat /\ 0 \in Values /\ Unset \notin Values
  /\ Fresh \in BOOLEAN /\ Tidy \in BOOLEAN
  /\ IdBound \in Nat /\ UpdateBound \in [{"sender", "receiver"} -> Nat]

VARIABLES
  sequence,   \* of each host: net->sequence
  phase,      \* of each host: "game", or "recv" inside net_update
  incoming,   \* of each host: incoming_sequence of its connection
  ack,        \* ack_sequence of the sender's connection
  packets,    \* of each host: the packets it has sent, any of which may arrive
  entities,   \* net->entities of the sender: an id in each slot
  ecs,        \* the sender's entities: [state, value] of each id
  snapshots,  \* net->snapshots of the sender: [sequence, data]
  copies,     \* entities of the receiver's connection: [state, remote, value, last]
  strays,     \* entities the receiver has made a copy of and had no slot for (history)
  taken,      \* history: the data of all snapshots
  applied,    \* history: sequence numbers the receiver has applied
  applied_at  \* history: its update that applied the last of them

registry == <<entities, ecs>>
receiver == <<copies, strays, applied, applied_at>>
vars == <<sequence, phase, incoming, ack, packets, registry, snapshots, receiver, taken>>

Hosts == {"sender", "receiver"}
Peer(h) == IF h = "sender" THEN "receiver" ELSE "sender"
Ids == 1 .. IdBound             \* the sequence numbers of ecs references
Slots == 1 .. MaxEntities
CopySlots == 1 .. MaxCopies

FirstOf(S) == CHOOSE i \in S : \A j \in S : i <= j

Init ==
  /\ sequence = [h \in Hosts |-> 0] /\ phase = [h \in Hosts |-> "game"]
  /\ incoming = [h \in Hosts |-> -1] /\ ack = -1
  /\ packets = [h \in Hosts |-> {}]
  /\ entities = [i \in Slots |-> 0]
  /\ ecs = [e \in Ids |-> [state |-> "unborn", value |-> 0]]
  /\ snapshots = [i \in 0 .. MaxSnapshots - 1 |-> [sequence |-> 0, data |-> << >>]]
  /\ copies = [i \in CopySlots |-> [state |-> "none", remote |-> 0, value |-> Unset, last |-> 0]]
  /\ strays = {}
  /\ taken = << >> /\ applied = {} /\ applied_at = 0
-----------------------------------------------------------------------------
(* The sender's game *)

(* ecs_is_entity_ref_valid of the reference in a slot of the sender's table:
   an entity is valid until the ecs_update after its removal. *)
Registered(i, world) == entities[i] \in Ids /\ world[entities[i]].state \in {"alive", "leaving"}

(* Mutant: the table grows without end. *)
RegisterAppend(e) == entities' = Append(entities, e)

(* net_state_register_entity_instance: the first slot whose entity is gone. *)
Register(e) ==
  LET free == {i \in Slots : ~Registered(i, ecs)}
  IN  /\ free # {}
      /\ entities' = [entities EXCEPT ![FirstOf(free)] = e]

Spawn ==
  LET unborn == {e \in Ids : ecs[e].state = "unborn"}
  IN  /\ phase["sender"] = "game" /\ unborn # {}
      /\ Tidy => \A e \in Ids : ecs[e].state # "leaving"
      /\ Register(FirstOf(unborn))
      /\ ecs' = [ecs EXCEPT ![FirstOf(unborn)].state = "alive"]
      /\ UNCHANGED <<sequence, phase, incoming, ack, packets, snapshots, receiver, taken>>

(* A replicated component changes. *)
Move(e, v) ==
  /\ phase["sender"] = "game" /\ ecs[e].state = "alive"
  /\ v # ecs[e].value /\ (Fresh => v > ecs[e].value)
  /\ ecs' = [ecs EXCEPT ![e].value = v]
  /\ UNCHANGED <<sequence, phase, incoming, ack, packets, entities, snapshots, receiver, taken>>

(* ecs_entity_remove *)
Despawn(i) ==
  /\ phase["sender"] = "game" /\ Registered(i, ecs)
  /\ Tidy => \A j \in Slots : j > i => ~Registered(j, ecs)
  /\ ecs' = [ecs EXCEPT ![entities[i]].state = "leaving"]
  /\ UNCHANGED <<sequence, phase, incoming, ack, packets, entities, snapshots, receiver, taken>>
-----------------------------------------------------------------------------
(* net_update of the sender *)

(* ecs_update, which the game calls before net_update. *)
Updated == [e \in Ids |-> IF ecs[e].state = "leaving" THEN [ecs[e] EXCEPT !.state = "gone"] ELSE ecs[e]]

(* snapshot_entities: up to the first slot that holds no entity. *)
Snapshot(world) ==
  LET holes == {i \in Slots : ~Registered(i, world)}
      size == IF holes = {} THEN MaxEntities ELSE FirstOf(holes) - 1
  IN  [i \in 1 .. size |-> [id |-> entities[i], value |-> world[entities[i]].value]]

(* Mutant: the slot of the ring is used whatever snapshot it holds. *)
BaselineUnchecked(ring) == IF ack = -1 THEN << >> ELSE ring[ack % MaxSnapshots].data

(* The acknowledged snapshot, if the ring still has it.  Before the first
   acknowledgement the index is -1, and the words before the ring are no
   snapshot of sequence -1. *)
Baseline(ring) ==
  IF ack # -1 /\ ring[ack % MaxSnapshots].sequence = ack
    THEN ring[ack % MaxSnapshots].data
    ELSE << >>

(* packet_add_entities: each entity, with its value if it differs from the
   baseline's, which is walked alongside: met[i] are the entities of it that are
   among the first i. *)
Delta(data, baseline) ==
  LET met[i \in 0 .. Len(data)] ==
        IF i = 0 THEN 0
        ELSE LET n == met[i - 1]
             IN  IF n < Len(baseline) /\ baseline[n + 1].id = data[i].id THEN n + 1 ELSE n
  IN  [i \in 1 .. Len(data) |->
         [id |-> data[i].id, value |-> data[i].value,
          diff |-> met[i] = met[i - 1] \/ baseline[met[i]].value # data[i].value]]

(* packet_send: a packet carries the values that differ only. *)
Packet(h, ents) ==
  [sequence |-> sequence[h], ack |-> incoming[h],
   ents |-> [i \in DOMAIN ents |-> IF ents[i].diff THEN ents[i] ELSE [ents[i] EXCEPT !.value = Unset]]]

SenderUpdate ==
  LET s == sequence["sender"]
      data == Snapshot(Updated)
      ring == [snapshots EXCEPT ![s % MaxSnapshots] = [sequence |-> s, data |-> data]]
  IN  /\ phase["sender"] = "game" /\ s < UpdateBound["sender"]
      /\ ecs' = Updated
      /\ snapshots' = ring
      /\ packets' = [packets EXCEPT !["sender"] = @ \cup {Packet("sender", Delta(data, Baseline(ring)))}]
      /\ phase' = [phase EXCEPT !["sender"] = "recv"]
      /\ taken' = Append(taken, data)
      /\ UNCHANGED <<sequence, incoming, ack, entities, receiver>>

(* Mutant: the header's two numbers are taken for one another. *)
SenderRecvSwapped(p) ==
  /\ phase["sender"] = "recv" /\ p.sequence > incoming["sender"]
  /\ incoming' = [incoming EXCEPT !["sender"] = p.sequence]
  /\ ack' = p.sequence
  /\ UNCHANGED <<sequence, phase, packets, registry, snapshots, receiver, taken>>

(* Mutant: a packet is applied whatever its sequence number. *)
SenderRecvAny(p) ==
  /\ phase["sender"] = "recv"
  /\ incoming' = [incoming EXCEPT !["sender"] = p.sequence]
  /\ ack' = p.ack
  /\ UNCHANGED <<sequence, phase, packets, registry, snapshots, receiver, taken>>

(* packet_recv: only a packet newer than the last changes anything. *)
SenderRecv(p) ==
  /\ phase["sender"] = "recv" /\ p.sequence > incoming["sender"]
  /\ incoming' = [incoming EXCEPT !["sender"] = p.sequence]
  /\ ack' = p.ack
  /\ UNCHANGED <<sequence, phase, packets, registry, snapshots, receiver, taken>>
-----------------------------------------------------------------------------
(* net_update of the receiver *)

(* Its ecs_update and packet_send. *)
ReceiverUpdate ==
  /\ phase["receiver"] = "game" /\ sequence["receiver"] < UpdateBound["receiver"]
  /\ copies' = [i \in CopySlots |->
       IF copies[i].state = "leaving" THEN [copies[i] EXCEPT !.state = "none"] ELSE copies[i]]
  /\ packets' = [packets EXCEPT !["receiver"] = @ \cup {Packet("receiver", << >>)}]
  /\ phase' = [phase EXCEPT !["receiver"] = "recv"]
  /\ UNCHANGED <<sequence, incoming, ack, registry, snapshots, strays, applied, applied_at, taken>>

(* Mutant: an entity already known is not looked up. *)
ReadEntityNew(c, x) ==
  LET free == {i \in CopySlots : c.slots[i].state = "none"}
      new == [state |-> "live", remote |-> x.id, value |-> x.value, last |-> sequence["receiver"]]
  IN  IF free # {} THEN [c EXCEPT !.slots[FirstOf(free)] = new] ELSE c

(* One round of packet_read_entities: find the copy of the entity or add it,
   and then set its value if it came.  If the connection has no slot left, the
   copy is added all the same, and the code records nothing of it. *)
ReadEntity(c, x) ==
  LET known == {i \in CopySlots : c.slots[i].remote = x.id}
      seen == IF known = {} THEN c.slots
              ELSE [c.slots EXCEPT ![FirstOf(known)].last = sequence["receiver"]]
      free == {i \in CopySlots : c.slots[i].state = "none"}
      new == [state |-> "live", remote |-> x.id, value |-> x.value, last |-> sequence["receiver"]]
  IN  IF known # {} /\ c.slots[FirstOf(known)].state # "none"
        THEN [c EXCEPT !.slots =
                IF x.diff THEN [seen EXCEPT ![FirstOf(known)].value = x.value] ELSE seen]
      ELSE IF free # {}
        THEN [c EXCEPT !.slots = [seen EXCEPT ![FirstOf(free)] = new]]
      ELSE [slots |-> seen, strays |-> c.strays \cup {x.id}]

(* "Remove entities that we didn't see in the snapshot!" *)
RemoveUnseen(slots) ==
  [i \in CopySlots |->
     IF slots[i].state # "none" /\ slots[i].last # sequence["receiver"]
       THEN [slots[i] EXCEPT !.state = "leaving"]
       ELSE slots[i]]

(* packet_recv *)
ReceiverRecv(p) ==
  LET after[i \in 0 .. Len(p.ents)] ==     \* when the first i entities have been read
        IF i = 0 THEN [slots |-> copies, strays |-> strays] ELSE ReadEntity(after[i - 1], p.ents[i])
      read == after[Len(p.ents)]
  IN  /\ phase["receiver"] = "recv" /\ p.sequence > incoming["receiver"]
      /\ incoming' = [incoming EXCEPT !["receiver"] = p.sequence]
      /\ copies' = RemoveUnseen(read.slots) /\ strays' = read.strays
      /\ applied' = applied \cup {p.sequence} /\ applied_at' = sequence["receiver"]
      /\ UNCHANGED <<sequence, phase, ack, packets, registry, snapshots, taken>>

(* The end of net_update. *)
UpdateEnd(h) ==
  /\ phase[h] = "recv"
  /\ phase' = [phase EXCEPT ![h] = "game"]
  /\ sequence' = [sequence EXCEPT ![h] = @ + 1]
  /\ UNCHANGED <<incoming, ack, packets, registry, snapshots, receiver, taken>>

Next ==
  \/ Spawn
  \/ \E e \in Ids, v \in Values : Move(e, v)
  \/ \E i \in Slots : Despawn(i)
  \/ SenderUpdate \/ ReceiverUpdate
  \/ \E p \in packets["receiver"] : SenderRecv(p)
  \/ \E p \in packets["sender"] : ReceiverRecv(p)
  \/ \E h \in Hosts : UpdateEnd(h)

Spec == Init /\ [][Next]_vars
-----------------------------------------------------------------------------
Entry == [id : Ids, value : Values]

(* Every variable has its type. *)
TypeOK ==
  /\ \A h \in Hosts : sequence[h] \in 0 .. UpdateBound[h] /\ incoming[h] \in -1 .. UpdateBound[Peer(h)] - 1
  /\ phase \in [Hosts -> {"game", "recv"}]
  /\ ack \in -1 .. UpdateBound["sender"] - 1
  /\ entities \in [Slots -> Ids \cup {0}]
  /\ ecs \in [Ids -> [state : {"unborn", "alive", "leaving", "gone"}, value : Values]]
  /\ \A i \in 0 .. MaxSnapshots - 1 :
       snapshots[i].sequence \in Nat /\ snapshots[i].data \in Seq(Entry)
  /\ copies \in [CopySlots -> [state : {"none", "live", "leaving"}, remote : Ids \cup {0},
                               value : Values \cup {Unset}, last : 0 .. UpdateBound["receiver"]]]
  /\ strays \subseteq Ids
  /\ taken \in Seq(Seq(Entry)) /\ applied \subseteq 0 .. UpdateBound["sender"] - 1
  /\ applied_at \in 0 .. UpdateBound["receiver"]

Live == {i \in CopySlots : copies[i].state = "live"}

(* The snapshot the receiver applied last. *)
Newest == ToSet(taken[incoming["receiver"] + 1])

(* Whatever packets are lost, duplicated and reordered, the receiver has a
   copy of every entity in the newest snapshot it has applied, with that
   snapshot's values, though it was sent a delta against an older one; but for
   an entity that once found the slots all taken. *)
CopiesCurrent ==
  incoming["receiver"] # -1 =>
    \A x \in Newest : x.id \in strays \/ \E i \in Live : copies[i].remote = x.id /\ copies[i].value = x.value

(* A copy in a slot whose entity is not in the newest snapshot lives no longer
   than the update that still saw it, and an entity has one slot, however often
   the slots have all been taken. *)
NoGhosts ==
  /\ incoming["receiver"] # -1 =>
       \A i \in Live : copies[i].last = applied_at \/ \E x \in Newest : x.id = copies[i].remote
  /\ \A i, j \in Live : copies[i].remote = copies[j].remote => i = j

(* The baseline of a delta is a snapshot that the receiver has applied, and
   acknowledgements that arrive late do not take it back. *)
BaselineApplied == ack # -1 => ack \in applied
AckForward == [][ack' >= ack]_vars
=============================================================================
