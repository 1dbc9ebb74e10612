-------------------------------- MODULE Ecs --------------------------------
(***************************************************************************)
(* The entity component system of src/src/ecs.c: a table of entity slots   *)
(* that are reused, weak references that tell one tenant of a slot from    *)
(* the next by a sequence number, additions and removals that take effect  *)
(* at the next ecs_update, and a query that walks the table while the      *)
(* game's loop body adds and removes entities.                             *)
(***************************************************************************)
EXTENDS Integers, FiniteSets

CONSTANTS
  MaxEntities,  \* k_max_entities
  MaxTypes,     \* k_max_component_types
  Masks,        \* the component masks the game uses, as sets of types
  AddBound      \* bound of the model: entities added, at most INT_MAX

Slots == 0 .. MaxEntities - 1
Types == 0 .. MaxTypes - 1

ASSUME EcsAssumption ==
  /\ MaxEntities \in Nat \ {0}
  /\ MaxTypes \in Nat
  /\ Masks \subseteq SUBSET Types
  /\ AddBound \in Nat

VARIABLES
  global_sequence,   \* the sequence number of the next entity
  sequences,         \* of each slot: its tenant's sequence number
  entity_states,     \* of each slot: unused, pending_add, active, pending_remove
  component_masks,   \* of each slot: its tenant's component types
  registered,        \* number of component types registered
  added,             \* the reference the last ecs_entity_add returned
  query,             \* an ecs_query_t: its mask and the slot it is at, or -1
  due,               \* history: slots active and matching when query was created
  visited            \* history: the slots query has been at

table == <<global_sequence, sequences, entity_states, component_masks>>
walk == <<query, due, visited>>
vars == <<table, registered, added, walk>>

Refs == [entity : Slots \cup {-1}, sequence : Int]
NoRef == [entity |-> -1, sequence |-> -1]

Pending == {"pending_add", "active", "pending_remove"}  \* >= k_entity_pending_add
Started == {"active", "pending_remove"}                 \* >= k_entity_active

(* The first slot a loop over the table finds. *)
FirstOf(S) == CHOOSE i \in S : \A j \in S : i <= j

Init ==
  /\ global_sequence = 1
  /\ sequences = [i \in Slots |-> 0]
  /\ entity_states = [i \in Slots |-> "unused"]
  /\ component_masks = [i \in Slots |-> {}]
  /\ registered = 0
  /\ added = NoRef
  /\ query = [mask |-> {}, entity |-> -1]
  /\ due = {} /\ visited = {}

(* ecs_is_entity_ref_valid *)
IsValid(ref, allow_pending_add) ==
  /\ ref.entity >= 0
  /\ sequences[ref.entity] = ref.sequence
  /\ entity_states[ref.entity] \in IF allow_pending_add THEN Pending ELSE Started

(* The slots a query of mask stops at. *)
Matching(mask) == {i \in Slots : mask \subseteq component_masks[i] /\ entity_states[i] \in Started}

(* Mutant: the search starts one slot too far. *)
NextMatchSkips(mask, i) ==
  LET rest == {j \in Matching(mask) : j > i + 1}
  IN  IF rest = {} THEN -1 ELSE FirstOf(rest)

(* The slot ecs_query_next moves to from slot i, or -1. *)
NextMatch(mask, i) ==
  LET rest == {j \in Matching(mask) : j > i}
  IN  IF rest = {} THEN -1 ELSE FirstOf(rest)

(* A reference some ecs_entity_add has returned, or zeroed memory. *)
Issued == [entity : Slots, sequence : 1 .. global_sequence - 1]
            \cup {[entity |-> 0, sequence |-> 0]}
-----------------------------------------------------------------------------
(* Mutant: the search for a free type does not stop at the end. *)
RegisterUnbounded ==
  /\ registered' = registered + 1
  /\ UNCHANGED <<table, added, walk>>

RegisterComponentType ==
  /\ registered < MaxTypes
  /\ registered' = registered + 1
  /\ UNCHANGED <<table, added, walk>>

Unused == {i \in Slots : entity_states[i] = "unused"}

(* Slot i gets a new tenant. *)
TakeSlot(i, mask, sequence) ==
  /\ global_sequence <= AddBound
  /\ global_sequence' = global_sequence + 1
  /\ sequences' = [sequences EXCEPT ![i] = sequence]
  /\ entity_states' = [entity_states EXCEPT ![i] = "pending_add"]
  /\ component_masks' = [component_masks EXCEPT ![i] = mask]
  /\ added' = [entity |-> i, sequence |-> sequence]
  /\ UNCHANGED <<registered, walk>>

(* Mutant: tenants are not numbered apart. *)
EntityAddUnnumbered(mask) ==
  Unused # {} /\ TakeSlot(FirstOf(Unused), mask, 1)

(* Mutant: a slot whose tenant is being removed is given away at once. *)
EntityAddReuses(mask) ==
  LET free == {i \in Slots : entity_states[i] \in {"unused", "pending_remove"}}
  IN  free # {} /\ TakeSlot(FirstOf(free), mask, global_sequence)

EntityAdd(mask) ==
  Unused # {} /\ TakeSlot(FirstOf(Unused), mask, global_sequence)

EntityAddFull ==
  /\ Unused = {}
  /\ added' = NoRef
  /\ UNCHANGED <<table, registered, walk>>

(* ecs_entity_remove: an invalid reference is only reported. *)
EntityRemove(ref, allow_pending_add) ==
  /\ IsValid(ref, allow_pending_add)
  /\ entity_states' = [entity_states EXCEPT ![ref.entity] = "pending_remove"]
  /\ UNCHANGED <<global_sequence, sequences, component_masks, registered, added, walk>>

(* ecs_update, which the games call between their query loops. *)
Update ==
  /\ query.entity = -1
  /\ entity_states' = [i \in Slots |->
       CASE entity_states[i] = "pending_add" -> "active"
         [] entity_states[i] = "pending_remove" -> "unused"
         [] OTHER -> entity_states[i]]
  /\ UNCHANGED <<global_sequence, sequences, component_masks, registered, added, walk>>

QueryCreate(mask) ==
  /\ query.entity = -1
  /\ query' = [mask |-> mask, entity |-> NextMatch(mask, -1)]
  /\ due' = {i \in Matching(mask) : entity_states[i] = "active"}
  /\ visited' = {query'.entity} \ {-1}
  /\ UNCHANGED <<table, registered, added>>

(* The loop step of "for (query = create; is_valid; next)". *)
QueryNext ==
  /\ query.entity >= 0
  /\ query' = [query EXCEPT !.entity = NextMatch(query.mask, query.entity)]
  /\ visited' = (visited \cup {query'.entity}) \ {-1}
  /\ UNCHANGED <<table, registered, added, due>>

Next ==
  \/ RegisterComponentType
  \/ \E mask \in Masks : EntityAdd(mask) \/ QueryCreate(mask)
  \/ EntityAddFull
  \/ \E ref \in Issued, allow \in BOOLEAN : EntityRemove(ref, allow)
  \/ Update
  \/ QueryNext

Spec == Init /\ [][Next]_vars
-----------------------------------------------------------------------------
(* Every variable has its type. *)
TypeOK ==
  /\ global_sequence \in 1 .. AddBound + 1
  /\ sequences \in [Slots -> Nat]
  /\ entity_states \in [Slots -> {"unused"} \cup Pending]
  /\ component_masks \in [Slots -> SUBSET Types]
  /\ registered \in 0 .. MaxTypes
  /\ added \in Refs
  /\ query \in [mask : SUBSET Types, entity : Slots \cup {-1}]
  /\ due \subseteq Slots /\ visited \subseteq Slots

(* Two slots never hold tenants of one sequence number, and a tenant's number
   is one that has been given out: so neither zeroed memory (net.c keeps an
   array of references it has not filled in) nor a made-up future reference is
   a reference to anything. *)
SequencesDistinct ==
  \A i \in Slots : entity_states[i] # "unused" =>
    /\ sequences[i] \in 1 .. global_sequence - 1
    /\ \A j \in Slots \ {i} : sequences[j] # sequences[i]

(* A weak reference that has stopped being valid never becomes valid again,
   however often its slot is given to new tenants. *)
DeadStaysDead ==
  [][\A ref \in Issued : ~IsValid(ref, TRUE) => ~IsValid(ref, TRUE)']_vars

(* Between two calls of ecs_update a slot keeps its tenant, so a component
   pointer taken in a frame is to the same entity for the rest of it, even if
   the entity is removed and others are added. *)
TenantKept ==
  [][\A i \in Slots :
       entity_states[i] # "unused" /\ entity_states'[i] # "unused" =>
         sequences'[i] = sequences[i] /\ component_masks'[i] = component_masks[i]]_vars

(* A query loop visits every entity that was active and matching when the
   query was created, whatever its body adds and removes on the way. *)
QueryComplete == query.entity = -1 => due \subseteq visited
=============================================================================
