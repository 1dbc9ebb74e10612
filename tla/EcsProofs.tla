----------------------------- MODULE EcsProofs -----------------------------
(***************************************************************************)
(* Proofs about Ecs for a table of any size and any set of masks, and      *)
(* about Frogger for any trucks, board, keys and times.                    *)
(***************************************************************************)
EXTENDS Frogger, WellFoundedInduction, FiniteSetTheorems, TLAPS

(* A loop over the table that finds something finds a first slot. *)
LEMMA FirstExists ==
  ASSUME NEW S \in SUBSET Nat, S # {}
  PROVE  FirstOf(S) \in S /\ \A j \in S : FirstOf(S) <= j
<1>1. PICK i \in S : \A j \in S : ~(<<j, i>> \in OpToRel(<, Nat))
  BY NatLessThanWellFounded, WFMin
<1>2. ASSUME NEW j \in S PROVE i <= j
  <2>1. j \in Nat /\ i \in Nat OBVIOUS
  <2>2. j < i => <<j, i>> \in OpToRel(<, Nat)
    <3>1. {ss \in Nat \X Nat : ss[1] < ss[2]} = OpToRel(<, Nat)
      BY Zenon DEF OpToRel
    <3>2. j < i => <<j, i>> \in {ss \in Nat \X Nat : ss[1] < ss[2]} BY <2>1
    <3> QED BY <3>1, <3>2
  <2>3. ~(j < i) BY <1>1, <2>2, Zenon
  <2> QED BY <2>1, <2>3
<1> QED BY <1>2 DEF FirstOf

(* A set of slots that is not empty has a first slot. *)
LEMMA FirstSlot ==
  ASSUME NEW S \in SUBSET Slots, S # {}
  PROVE  FirstOf(S) \in S /\ \A j \in S : FirstOf(S) <= j
<1>1. Slots \subseteq Nat BY EcsAssumption DEF Slots
<1>2. S \in SUBSET Nat BY <1>1
<1> QED BY <1>2, FirstExists

(* ecs_query_next moves to the first matching slot beyond the current one. *)
LEMMA NextMatchFirst ==
  ASSUME NEW mask, NEW i \in Slots \cup {-1}
  PROVE  /\ NextMatch(mask, i) \in Slots \cup {-1}
         /\ NextMatch(mask, i) = -1 => \A j \in Matching(mask) : j <= i
         /\ NextMatch(mask, i) # -1 =>
              /\ NextMatch(mask, i) > i
              /\ \A j \in Matching(mask) : j > i => NextMatch(mask, i) <= j
<1> DEFINE rest == {j \in Matching(mask) : j > i}
<1>0. rest \in SUBSET Slots /\ Slots \subseteq Nat
  BY EcsAssumption DEF Matching, Slots
<1>1. CASE rest = {}
  <2>1. NextMatch(mask, i) = -1 BY <1>1 DEF NextMatch
  <2>2. \A j \in Matching(mask) : j <= i BY <1>0, <1>1, EcsAssumption DEF Slots, Matching
  <2> QED BY <2>1, <2>2
<1>2. CASE rest # {}
  <2>1. NextMatch(mask, i) = FirstOf(rest) BY <1>2 DEF NextMatch
  <2>2. FirstOf(rest) \in rest /\ \A j \in rest : FirstOf(rest) <= j
    BY <1>0, <1>2, FirstSlot
  <2> HIDE DEF rest
  <2>3. FirstOf(rest) \in Slots /\ FirstOf(rest) > i /\ FirstOf(rest) # -1
    BY <1>0, <2>2 DEF rest
  <2>4. \A j \in Matching(mask) : j > i => FirstOf(rest) <= j
    BY <2>2 DEF rest
  <2> QED BY <2>1, <2>3, <2>4
<1> QED BY <1>1, <1>2

(* The slot ecs_entity_add takes is an unused one. *)
LEMMA AddTakesUnused ==
  ASSUME NEW mask, EntityAdd(mask)
  PROVE  \E i \in Slots : entity_states[i] = "unused" /\ TakeSlot(i, mask, global_sequence)
<1>1. FirstOf(Unused) \in Unused
  <2>1. Unused \in SUBSET Slots /\ Unused # {} BY DEF EntityAdd, Unused
  <2> QED BY <2>1, FirstSlot
<1> QED BY <1>1 DEF EntityAdd, Unused

(* Type correctness of the entity component system. *)
THEOREM TypeCorrect == Spec => []TypeOK
<1> USE EcsAssumption
<1>1. Init => TypeOK
  BY DEF Init, TypeOK, Refs, NoRef, Types
<1>2. TypeOK /\ [Next]_vars => TypeOK'
  <2> SUFFICES ASSUME TypeOK, [Next]_vars PROVE TypeOK' OBVIOUS
  <2> USE DEF TypeOK
  <2>1. CASE RegisterComponentType BY <2>1 DEF RegisterComponentType, table, walk
  <2>2. ASSUME NEW mask \in Masks, EntityAdd(mask) PROVE TypeOK'
    <3>1. PICK i \in Slots : entity_states[i] = "unused" /\ TakeSlot(i, mask, global_sequence)
      BY <2>2, AddTakesUnused
    <3> QED BY <3>1 DEF TakeSlot, Refs, walk, Pending
  <2>3. ASSUME NEW mask \in Masks, QueryCreate(mask) PROVE TypeOK'
    <3>1. NextMatch(mask, -1) \in Slots \cup {-1} BY NextMatchFirst
    <3> QED BY <2>3, <3>1 DEF QueryCreate, table, Matching
  <2>4. CASE EntityAddFull BY <2>4 DEF EntityAddFull, table, walk, Refs, NoRef
  <2>5. ASSUME NEW ref \in Issued, NEW allow \in BOOLEAN, EntityRemove(ref, allow)
        PROVE  TypeOK'
    BY <2>5 DEF EntityRemove, walk, Pending
  <2>6. CASE Update BY <2>6 DEF Update, walk, Pending
  <2>7. CASE QueryNext
    <3>1. NextMatch(query.mask, query.entity) \in Slots \cup {-1} BY NextMatchFirst
    <3> QED BY <2>7, <3>1 DEF QueryNext, table
  <2>8. CASE UNCHANGED vars BY <2>8 DEF vars, table, walk
  <2> QED BY <2>1, <2>2, <2>3, <2>4, <2>5, <2>6, <2>7, <2>8 DEF Next
<1> QED BY <1>1, <1>2, PTL DEF Spec
-----------------------------------------------------------------------------
(* The inductive invariant of the references: every number in the table has
   been given out, unused slots included, and no two are equal but zero. *)
SeqInv ==
  /\ \A i \in Slots : sequences[i] < global_sequence
  /\ \A i \in Slots : entity_states[i] # "unused" => sequences[i] >= 1
  /\ \A i, j \in Slots : i # j /\ sequences[i] = sequences[j] => sequences[i] = 0

(* The invariant that keeps sequence numbers apart holds in every reachable
   state. *)
LEMMA SeqInvariant == Spec => []SeqInv
<1>1. Init => SeqInv BY DEF Init, SeqInv
<1>2. TypeOK /\ SeqInv /\ [Next]_vars => SeqInv'
  <2> SUFFICES ASSUME TypeOK, SeqInv, [Next]_vars PROVE SeqInv' OBVIOUS
  <2> USE DEF SeqInv
  <2>1. CASE RegisterComponentType \/ EntityAddFull
    BY <2>1 DEF RegisterComponentType, EntityAddFull, table
  <2>2. ASSUME NEW mask \in Masks, EntityAdd(mask) PROVE SeqInv'
    <3>1. PICK i \in Slots : entity_states[i] = "unused" /\ TakeSlot(i, mask, global_sequence)
      BY <2>2, AddTakesUnused
    <3> QED BY <3>1 DEF TakeSlot, TypeOK
  <2>3. ASSUME NEW mask \in Masks, QueryCreate(mask) PROVE SeqInv'
    BY <2>3 DEF QueryCreate, table
  <2>4. ASSUME NEW ref \in Issued, NEW allow \in BOOLEAN, EntityRemove(ref, allow)
        PROVE  SeqInv'
    BY <2>4 DEF EntityRemove, IsValid, Pending, Started, TypeOK
  <2>5. CASE Update BY <2>5 DEF Update, TypeOK
  <2>6. CASE QueryNext BY <2>6 DEF QueryNext, table
  <2>7. CASE UNCHANGED vars BY <2>7 DEF vars, table
  <2> QED BY <2>1, <2>2, <2>3, <2>4, <2>5, <2>6, <2>7 DEF Next
<1> QED BY <1>1, <1>2, TypeCorrect, PTL DEF Spec

(* The numbers that tell one entity from another are distinct. *)
THEOREM DistinctSequences == Spec => []SequencesDistinct
<1>1. TypeOK /\ SeqInv => SequencesDistinct
  BY DEF TypeOK, SeqInv, SequencesDistinct
<1> QED BY <1>1, TypeCorrect, SeqInvariant, PTL

(* No step makes a reference that has been given out valid again. *)
LEMMA DeadStep ==
  ASSUME TypeOK, SeqInv, [Next]_vars, NEW ref \in Issued, ~IsValid(ref, TRUE)
  PROVE  ~IsValid(ref, TRUE)'
<1> USE DEF IsValid, Pending, TypeOK
<1>0. /\ ref.entity \in Slots /\ ref.entity >= 0
      /\ ref.sequence < global_sequence /\ ref.sequence \in Int
  BY EcsAssumption DEF Issued, Slots
<1>1. CASE RegisterComponentType \/ EntityAddFull
  BY <1>1 DEF RegisterComponentType, EntityAddFull, table
<1>2. ASSUME NEW mask \in Masks, EntityAdd(mask) PROVE ~IsValid(ref, TRUE)'
  <2>1. PICK i \in Slots : entity_states[i] = "unused" /\ TakeSlot(i, mask, global_sequence)
    BY <1>2, AddTakesUnused
  <2> QED BY <1>0, <2>1 DEF TakeSlot
<1>3. ASSUME NEW mask \in Masks, QueryCreate(mask) PROVE ~IsValid(ref, TRUE)'
  BY <1>3 DEF QueryCreate, table
<1>4. ASSUME NEW other \in Issued, NEW allow \in BOOLEAN, EntityRemove(other, allow)
      PROVE  ~IsValid(ref, TRUE)'
  <2>1. other.entity \in Slots BY EcsAssumption DEF Issued, Slots
  <2>2. entity_states[other.entity] \in Pending BY <1>4 DEF EntityRemove, Started
  <2> QED BY <1>0, <1>4, <2>1, <2>2 DEF EntityRemove
<1>5. CASE Update BY <1>0, <1>5 DEF Update
<1>6. CASE QueryNext BY <1>6 DEF QueryNext, table
<1>7. CASE UNCHANGED vars BY <1>7 DEF vars, table
<1> QED BY <1>1, <1>2, <1>3, <1>4, <1>5, <1>6, <1>7 DEF Next

(* A weak reference that has stopped being valid never becomes valid again. *)
THEOREM WeakReferences == Spec => DeadStaysDead
<1>1. TypeOK /\ SeqInv /\ [Next]_vars =>
        [\A ref \in Issued : ~IsValid(ref, TRUE) => ~IsValid(ref, TRUE)']_vars
  BY DeadStep
<1> QED BY <1>1, TypeCorrect, SeqInvariant, PTL DEF Spec, DeadStaysDead

(* A slot changes tenant only after ecs_update has made it unused. *)
THEOREM TenantsKept == Spec => TenantKept
<1> DEFINE Kept ==
      \A i \in Slots :
        entity_states[i] # "unused" /\ entity_states'[i] # "unused" =>
          sequences'[i] = sequences[i] /\ component_masks'[i] = component_masks[i]
<1>1. TypeOK /\ [Next]_vars => Kept
  <2> SUFFICES ASSUME TypeOK, [Next]_vars PROVE Kept OBVIOUS
  <2>1. CASE UNCHANGED <<sequences, component_masks>> BY <2>1
  <2>2. ASSUME NEW mask \in Masks, EntityAdd(mask) PROVE Kept
    <3>1. PICK i \in Slots : entity_states[i] = "unused" /\ TakeSlot(i, mask, global_sequence)
      BY <2>2, AddTakesUnused
    <3> QED BY <3>1 DEF TakeSlot, TypeOK
  <2>3. (\E mask \in Masks : EntityAdd(mask)) \/ UNCHANGED <<sequences, component_masks>>
    BY DEF Next, vars, table, RegisterComponentType, EntityAddFull, QueryCreate,
           EntityRemove, Update, QueryNext
  <2> QED BY <2>1, <2>2, <2>3
<1>2. TypeOK /\ [Next]_vars => [Kept]_vars BY <1>1
<1> QED BY <1>2, TypeCorrect, PTL DEF Spec, TenantKept
-----------------------------------------------------------------------------
(* The inductive invariant of a query loop: an entity that is due has been
   visited, or is still ahead of the query and still matches. *)
WalkInv ==
  \A i \in due :
    \/ i \in visited
    \/ query.entity >= 0 /\ i > query.entity /\ i \in Matching(query.mask)

(* Every step keeps the progress of the query: what is due has been visited or
   is still ahead of it. *)
LEMMA WalkStep ==
  ASSUME TypeOK, WalkInv, Next
  PROVE  WalkInv'
<1> USE DEF WalkInv, TypeOK, Matching, Started
<1>0. Slots \subseteq Nat BY EcsAssumption DEF Slots
<1>1. CASE RegisterComponentType \/ EntityAddFull
  BY <1>1 DEF RegisterComponentType, EntityAddFull, table, walk
<1>2. ASSUME NEW mask \in Masks, EntityAdd(mask) PROVE WalkInv'
  <2>1. PICK i \in Slots : entity_states[i] = "unused" /\ TakeSlot(i, mask, global_sequence)
    BY <1>2, AddTakesUnused
  <2> QED BY <2>1 DEF TakeSlot, walk
<1>3. ASSUME NEW mask \in Masks, QueryCreate(mask) PROVE WalkInv'
  <2>1. SUFFICES ASSUME NEW i \in due', i \notin visited'
                 PROVE  /\ query'.entity >= 0 /\ i > query'.entity
                        /\ i \in Matching(mask)
    BY <1>3 DEF QueryCreate, table
  <2>2. i \in Matching(mask) /\ i \in Slots BY <1>3 DEF QueryCreate
  <2>3. query'.entity = NextMatch(mask, -1) /\ i # query'.entity
    <3>1. query'.entity = NextMatch(mask, -1) BY <1>3 DEF QueryCreate
    <3>2. i # -1 BY <1>0, <2>2
    <3> QED BY <1>3, <2>1, <3>1, <3>2 DEF QueryCreate
  <2>4. i > -1 BY <1>0, <2>2
  <2>5. /\ NextMatch(mask, -1) \in Slots \cup {-1}
        /\ NextMatch(mask, -1) # -1 /\ NextMatch(mask, -1) <= i
    BY <1>0, <2>2, <2>4, NextMatchFirst
  <2>6. query'.entity \in Nat /\ i \in Nat /\ query'.entity <= i
    BY <1>0, <2>2, <2>3, <2>5
  <2>7. query'.entity >= 0 /\ i > query'.entity BY <2>3, <2>6
  <2> QED BY <2>2, <2>7
<1>4. ASSUME NEW ref \in Issued, NEW allow \in BOOLEAN, EntityRemove(ref, allow)
      PROVE  WalkInv'
  BY <1>4 DEF EntityRemove, walk
<1>5. CASE Update
  BY <1>0, <1>5 DEF Update, walk
<1>6. CASE QueryNext
  <2>1. SUFFICES ASSUME NEW i \in due', i \notin visited'
                 PROVE  /\ query'.entity >= 0 /\ i > query'.entity
                        /\ i \in Matching(query.mask)
    BY <1>6 DEF QueryNext, table
  <2>2. i \in Slots /\ i \notin visited /\ i \in due
    BY <1>0, <1>6, <2>1 DEF QueryNext
  <2>3. i > query.entity /\ i \in Matching(query.mask) BY <2>2
  <2>4. query'.entity = NextMatch(query.mask, query.entity) /\ i # query'.entity
    BY <1>0, <1>6, <2>1, <2>2 DEF QueryNext
  <2>5. /\ NextMatch(query.mask, query.entity) \in Slots \cup {-1}
        /\ NextMatch(query.mask, query.entity) # -1
        /\ NextMatch(query.mask, query.entity) <= i
    <3> HIDE DEF Matching, WalkInv, TypeOK
    <3>1. query.entity \in Slots \cup {-1} BY DEF TypeOK
    <3>2. query.entity \in Int /\ i \in Int
      <4>1. query.entity \in Slots \/ query.entity = -1 BY <3>1
      <4>2. \A s \in Slots : s \in Int BY <1>0
      <4> QED BY <2>2, <4>1, <4>2
    <3>3. ~(i <= query.entity) BY <2>3, <3>2
    <3> QED BY <2>3, <3>1, <3>3, NextMatchFirst
  <2>6. query'.entity \in Nat /\ i \in Nat /\ query'.entity <= i
    <3> HIDE DEF Matching, WalkInv, TypeOK
    <3> QED BY <1>0, <2>2, <2>4, <2>5
  <2>7. query'.entity >= 0 /\ i > query'.entity BY <2>4, <2>6
  <2> QED BY <2>3, <2>7
<1> QED BY <1>1, <1>2, <1>3, <1>4, <1>5, <1>6 DEF Next

(* A query loop that has ended has visited every entity that was active and
   matching when it began. *)
THEOREM QueriesComplete == Spec => []QueryComplete
<1>1. Init => WalkInv BY DEF Init, WalkInv
<1>2. TypeOK /\ WalkInv /\ [Next]_vars => WalkInv'
  <2>1. CASE UNCHANGED vars BY <2>1 DEF vars, table, walk, WalkInv, Matching
  <2> QED BY <2>1, WalkStep
<1>3. WalkInv => QueryComplete BY DEF WalkInv, QueryComplete
<1> QED BY <1>1, <1>2, <1>3, TypeCorrect, PTL DEF Spec
-----------------------------------------------------------------------------
(* Frogger *)

Trucks == 1 .. Len(TruckSpawns)   \* the slots of the trucks, after the player's
Home == [y |-> 0, z |-> Start]
Board == [y : -Side .. Side, z : -Start .. Start]

(* The first entities of the roster are in the first slots. *)
Spawned ==
  /\ entity_states \in [Slots -> {"unused"} \cup Pending] /\ component_masks \in [Slots -> SUBSET Nat]
  /\ query.entity \in Slots \cup {-1}
  /\ global_sequence \in 1 .. Len(Roster) + 1
  /\ pc = "register" => global_sequence = 1
  /\ pc = "spawn" => global_sequence <= Len(Roster)
  /\ pc \notin {"register", "spawn"} => global_sequence = Len(Roster) + 1
  /\ \A i \in Slots :
       IF i < global_sequence - 1
         THEN /\ entity_states[i] = "active"
                 \/ (entity_states[i] = "pending_add" /\ pc \in {"spawn", "pump", "update", "quit"})
              /\ component_masks[i] = Roster[i + 1].mask
         ELSE entity_states[i] = "unused"

(* The player is on the board, the trucks are in their lanes. *)
Laid ==
  /\ delta \in Nat
  /\ transforms \in [Slots -> [y : Int, z : Int]]
  /\ global_sequence > 1 => transforms[0] \in Board
  /\ \A i \in Trucks : i < global_sequence - 1 => transforms[i].z = TruckSpawns[i].z

(* The loops of the frame have the trucks behind the query clear of the player,
   and its models drawn. *)
Passed(i) == query.entity = -1 \/ i < query.entity
Framed ==
  /\ pc = "players" => query.mask = {Transform, Player} /\ query.entity \in {0, -1}
  /\ pc = "trucks" => /\ query.mask = {Transform, Truck} /\ query.entity \in Trucks \cup {-1}
                      /\ \A i \in Trucks : Passed(i) => ~Touch(transforms[0], transforms[i])
  /\ pc = "draw" => /\ query.mask = {Transform, Model} /\ query.entity \in {0, -1} \cup Trucks
                    /\ \A i \in Trucks : ~Touch(transforms[0], transforms[i])
                    /\ drawn = {i \in {0} \cup Trucks : Passed(i)}

FInv ==
  /\ pc \in {"register", "spawn", "pump", "update", "query_players", "players", "trucks", "draw", "quit"}
  /\ driver \in {"frogger", "client"} /\ (driver = "client" => pc = "register")
  /\ driver = "frogger" => Spawned /\ Laid /\ Framed
-----------------------------------------------------------------------------
LEMMA ElementOf ==
  ASSUME NEW R, NEW s \in Seq(R), NEW i \in 1 .. Len(s)
  PROVE  s[i] \in R
OBVIOUS

(* The elements of a concatenation. *)
Follows(r, s, t) ==
  /\ Len(r) = Len(s) + Len(t)
  /\ \A i \in 1 .. Len(s) : r[i] = s[i]
  /\ \A i \in 1 .. Len(t) : r[Len(s) + i] = t[i]

LEMMA Concatenated ==
  ASSUME NEW R, NEW s, s \in Seq(R), NEW t, t \in Seq(R), NEW r, r = s \o t
  PROVE  r \in Seq(R) /\ Follows(r, s, t)
BY DEF Follows

(* The roster: the player, the trucks, the camera. *)
LEMMA RosterFacts ==
  /\ Len(TruckSpawns) \in Nat /\ Len(Roster) = Len(TruckSpawns) + 2 /\ Len(Roster) <= MaxEntities
  /\ Roster[1] = [mask |-> {Transform, Model, Player}, y |-> 0, z |-> Start, dir |-> 0]
  /\ \A k \in Trucks :
       /\ Roster[k + 1] = [mask |-> {Transform, Model, Truck}, y |-> TruckSpawns[k].y,
                           z |-> TruckSpawns[k].z, dir |-> TruckSpawns[k].dir]
       /\ TruckSpawns[k].y \in Int /\ TruckSpawns[k].z \in Int /\ TruckSpawns[k].z + 2 * Half < Start
  /\ Roster[Len(TruckSpawns) + 2] = [mask |-> {Camera}, y |-> 0, z |-> 0, dir |-> 0]
<1> DEFINE n == Len(TruckSpawns)
           R == [mask : SUBSET Nat, y : Int, z : Int, dir : Int]
           first == <<[mask |-> {Transform, Model, Player}, y |-> 0, z |-> Start, dir |-> 0]>>
           middle == [k \in DOMAIN TruckSpawns |->
             [mask |-> {Transform, Model, Truck}, y |-> TruckSpawns[k].y, z |-> TruckSpawns[k].z,
              dir |-> TruckSpawns[k].dir]]
           last == <<[mask |-> {Camera}, y |-> 0, z |-> 0, dir |-> 0]>>
<1>1. TruckSpawns \in Seq([y : Int, z : Int, dir : Int]) /\ Start \in Int BY FroggerAssumption
<1>2. n \in Nat /\ DOMAIN TruckSpawns = 1 .. n BY <1>1
<1>3. {Transform, Model, Player} \in SUBSET Nat /\ {Transform, Model, Truck} \in SUBSET Nat
      /\ {Camera} \in SUBSET Nat
  BY DEF Transform, Model, Player, Truck, Camera
<1>4. \A k \in 1 .. n : TruckSpawns[k].y \in Int /\ TruckSpawns[k].z \in Int /\ TruckSpawns[k].dir \in Int
  <2> SUFFICES ASSUME NEW k \in 1 .. n 
                 PROVE  /\ TruckSpawns[k].y \in Int /\ TruckSpawns[k].z \in Int
                        /\ TruckSpawns[k].dir \in Int
    OBVIOUS
  <2>1. k \in 1 .. Len(TruckSpawns) BY <1>2
  <2>2. TruckSpawns[k] \in [y : Int, z : Int, dir : Int] BY <1>1, <2>1, ElementOf
  <2> QED BY <2>2
<1>5. middle \in Seq(R) /\ Len(middle) = n
  <2>1. middle \in [1 .. n -> R] BY <1>2, <1>3, <1>4
  <2> HIDE DEF middle, R
  <2> QED BY <1>2, <2>1
<1>6. first \in Seq(R) /\ Len(first) = 1 BY <1>1, <1>3
<1>7. last \in Seq(R) /\ Len(last) = 1 BY <1>3
<1>8. Roster = first \o middle \o last BY DEF Roster
<1>9. /\ first[1] = [mask |-> {Transform, Model, Player}, y |-> 0, z |-> Start, dir |-> 0]
      /\ last[1] = [mask |-> {Camera}, y |-> 0, z |-> 0, dir |-> 0]
  OBVIOUS
<1>10. \A k \in 1 .. n : middle[k] = [mask |-> {Transform, Model, Truck}, y |-> TruckSpawns[k].y,
                                      z |-> TruckSpawns[k].z, dir |-> TruckSpawns[k].dir]
  BY <1>2
<1> HIDE DEF R, first, middle, last, n
<1> DEFINE both == first \o middle
           all == both \o last
<1>11. both \in Seq(R) /\ Follows(both, first, middle) BY <1>5, <1>6, Concatenated
<1>12. Follows(all, both, last)
  <2> HIDE DEF both
  <2> QED BY <1>7, <1>11, Concatenated
<1>13. Roster = all BY <1>8
<1> HIDE DEF both, all
<1>13a. /\ Len(both) = 1 + n /\ both[1] = first[1] /\ \A k \in 1 .. n : both[1 + k] = middle[k]
  BY <1>2, <1>5, <1>6, <1>11 DEF Follows
<1>14. /\ Len(Roster) = 1 + n + 1 /\ \A i \in 1 .. 1 + n : Roster[i] = both[i]
       /\ Roster[1 + n + 1] = last[1]
  BY <1>2, <1>7, <1>12, <1>13, <1>13a DEF Follows
<1>15. Len(Roster) = n + 2 /\ Roster[n + 2] = last[1] /\ Roster[1] = first[1]
  <2>1. 1 + n + 1 = n + 2 /\ 1 \in 1 .. 1 + n BY <1>2
  <2> QED BY <1>13a, <1>14, <2>1
<1>16. \A k \in 1 .. n : Roster[k + 1] = middle[k]
  <2> SUFFICES ASSUME NEW k \in 1 .. n PROVE Roster[k + 1] = middle[k] OBVIOUS
  <2>1. k + 1 \in 1 .. 1 + n /\ 1 + k = k + 1 BY <1>2
  <2> QED BY <1>13a, <1>14, <2>1
<1>17. Len(Roster) <= MaxEntities BY FroggerAssumption
<1>18. \A k \in 1 .. n : TruckSpawns[k].z + 2 * Half < Start BY <1>2, FroggerAssumption
<1> QED BY <1>2, <1>4, <1>9, <1>10, <1>15, <1>16, <1>17, <1>18 DEF n, Trucks

(* When all entities are active the queries find these. *)
LEMMA Found ==
  ASSUME Spawned, pc \in {"query_players", "players", "trucks", "draw"}
  PROVE  /\ Matching({Transform, Player}) = {0} /\ Matching({Player}) = {0}
         /\ Matching({Transform, Truck}) = Trucks /\ Matching({Truck}) = Trucks
         /\ Matching({Transform, Model}) = {0} \cup Trucks
         /\ Matching({Camera}) # {}
<1> DEFINE n == Len(TruckSpawns)
<1>1. /\ n \in Nat /\ MaxEntities \in Nat /\ n + 2 <= MaxEntities /\ global_sequence = n + 3
  BY RosterFacts, EcsAssumption DEF Spawned
<1>2. /\ 0 \in Slots /\ n + 1 \in Slots /\ Trucks \subseteq Slots
      /\ \A i \in Slots : i \in Nat
      /\ \A i \in Slots : i < n + 2 => i = 0 \/ i \in Trucks \/ i = n + 1
      /\ n + 1 \notin Trucks /\ 0 \notin Trucks
  BY <1>1 DEF Slots, Trucks
<1>3. \A i \in Slots : entity_states[i] \in Started <=> i < n + 2
  BY <1>1, <1>2 DEF Spawned, Started
<1>4. /\ component_masks[0] = {0, 2, 3} /\ component_masks[n + 1] = {1}
      /\ \A i \in Trucks : component_masks[i] = {0, 2, 4}
  <2>1. \A i \in Slots : i < n + 2 => component_masks[i] = Roster[i + 1].mask BY <1>1, <1>2 DEF Spawned
  <2>2. component_masks[0] = Roster[1].mask BY <1>1, <1>2, <2>1
  <2>3. component_masks[n + 1] = Roster[n + 2].mask BY <1>1, <1>2, <2>1
  <2>4. \A i \in Trucks : component_masks[i] = Roster[i + 1].mask BY <1>1, <1>2, <2>1 DEF Trucks
  <2>5. Roster[1].mask = {0, 2, 3} BY RosterFacts DEF Transform, Model, Player
  <2>6. Roster[n + 2].mask = {1} BY RosterFacts DEF Camera
  <2>7. \A i \in Trucks : Roster[i + 1].mask = {0, 2, 4}
    <3> SUFFICES ASSUME NEW i \in Trucks PROVE  Roster[i + 1].mask = {0, 2, 4}
      OBVIOUS
    <3>1. Roster[i + 1] = [mask |-> {Transform, Model, Truck}, y |-> TruckSpawns[i].y,
                           z |-> TruckSpawns[i].z, dir |-> TruckSpawns[i].dir]
      BY RosterFacts
    <3>2. Roster[i + 1].mask = {Transform, Model, Truck} BY <3>1
    <3> QED BY <3>2 DEF Transform, Model, Truck
  <2> QED BY <2>2, <2>3, <2>4, <2>5, <2>6, <2>7
<1> HIDE DEF n
<1>5. ASSUME NEW mask
      PROVE  \A i : i \in Matching(mask) <=>
               \/ i = 0 /\ mask \subseteq {0, 2, 3}
               \/ i \in Trucks /\ mask \subseteq {0, 2, 4}
               \/ i = n + 1 /\ mask \subseteq {1}
  <2>1. \A i \in Trucks : i < n + 2 BY <1>1 DEF Trucks, n
  <2>2. 0 < n + 2 /\ n + 1 < n + 2 BY <1>1
  <2> QED BY <1>2, <1>3, <1>4, <2>1, <2>2 DEF Matching
<1>6. /\ {0, 3} \subseteq {0, 2, 3} /\ ~({0, 3} \subseteq {0, 2, 4}) /\ ~({0, 3} \subseteq {1})
      /\ {3} \subseteq {0, 2, 3} /\ ~({3} \subseteq {0, 2, 4}) /\ ~({3} \subseteq {1})
      /\ {0, 4} \subseteq {0, 2, 4} /\ ~({0, 4} \subseteq {0, 2, 3}) /\ ~({0, 4} \subseteq {1})
      /\ {4} \subseteq {0, 2, 4} /\ ~({4} \subseteq {0, 2, 3}) /\ ~({4} \subseteq {1})
      /\ {0, 2} \subseteq {0, 2, 4} /\ {0, 2} \subseteq {0, 2, 3} /\ ~({0, 2} \subseteq {1})
      /\ {1} \subseteq {1}
  OBVIOUS
<1>7. Matching({0, 3}) = {0} /\ Matching({3}) = {0} BY <1>5, <1>6
<1>8. Matching({0, 4}) = Trucks /\ Matching({4}) = Trucks BY <1>5, <1>6
<1>9. Matching({0, 2}) = {0} \cup Trucks BY <1>5, <1>6
<1>10. n + 1 \in Matching({1}) BY <1>5, <1>6
<1> QED BY <1>7, <1>8, <1>9, <1>10 DEF Transform, Model, Player, Truck, Camera

(* ecs_query_next stops at a slot that matches. *)
LEMMA NextMatches ==
  ASSUME NEW mask, NEW i \in Slots \cup {-1}, NextMatch(mask, i) # -1
  PROVE  NextMatch(mask, i) \in Matching(mask)
<1> DEFINE rest == {j \in Matching(mask) : j > i}
<1>1. rest # {} /\ NextMatch(mask, i) = FirstOf(rest) BY DEF NextMatch
<1>2. rest \in SUBSET Slots BY DEF Matching
<1> HIDE DEF rest
<1>3. FirstOf(rest) \in rest BY <1>1, <1>2, FirstSlot
<1> QED BY <1>1, <1>3 DEF rest

(* The player is hit by a truck if they touch. *)
LEMMA HitIfTouch ==
  ASSUME NEW s \in [y : Int, z : Int], NEW t \in [y : Int, z : Int], Touch(s, t)
  PROVE  EdgeWithin(s.y, t.y) /\ EdgeWithin(s.z, t.z)
<1>1. Half \in Nat BY FroggerAssumption
<1>2. ASSUME NEW a \in Int, NEW b \in Int, a - b \in -2 * Half .. 2 * Half
      PROVE  EdgeWithin(a, b)
  <2>1. a - b >= -2 * Half /\ a - b <= 2 * Half BY <1>1, <1>2
  <2>2. CASE a >= b
    <3>1. a - Half >= b - Half /\ a - Half <= b + Half BY <1>1, <2>1, <2>2
    <3> QED BY <3>1 DEF EdgeWithin
  <2>3. CASE a < b
    <3>1. a + Half >= b - Half /\ a + Half <= b + Half BY <1>1, <2>1, <2>3
    <3> QED BY <3>1 DEF EdgeWithin
  <2> QED BY <2>2, <2>3
<1> QED BY <1>2 DEF Touch

(* A player at home touches no truck. *)
LEMMA HomeIsSafe ==
  ASSUME NEW i \in Trucks, NEW t \in [y : Int, z : Int], t.z = TruckSpawns[i].z
  PROVE  ~Touch(Home, t)
<1>1. Half \in Nat /\ Start \in Nat BY FroggerAssumption
<1>2. t.z \in Int /\ t.z + 2 * Half < Start BY RosterFacts
<1> QED BY <1>1, <1>2 DEF Touch, Home

(* The keys take the player to a place on the board. *)
LEMMA MovedOnBoard ==
  ASSUME NEW t \in [y : Int, z : Int], delta \in Nat
  PROVE  Moved(t) \in Board
<1> DEFINE step(less, more) == PlayerSpeed * delta *
             ((IF more \in key_mask THEN 1 ELSE 0) - (IF less \in key_mask THEN 1 ELSE 0))
           z == t.z + step("up", "down")
           y == t.y + step("left", "right")
<1>1. Start \in Nat /\ Side \in Nat /\ PlayerSpeed \in Nat BY FroggerAssumption
<1>2. z \in Int /\ y \in Int
  <2>1. PlayerSpeed * delta \in Int BY <1>1
  <2> DEFINE d == PlayerSpeed * delta
  <2> HIDE DEF d
  <2>2. ASSUME NEW less, NEW more
        PROVE  d * ((IF more \in key_mask THEN 1 ELSE 0) - (IF less \in key_mask THEN 1 ELSE 0)) \in Int
    <3>1. d \in Int BY <2>1 DEF d
    <3> DEFINE w == (IF more \in key_mask THEN 1 ELSE 0) - (IF less \in key_mask THEN 1 ELSE 0)
    <3>2. w \in {-1, 0, 1} OBVIOUS
    <3> HIDE DEF w
    <3>3. d * w \in Int BY <3>1, <3>2
    <3> QED BY <3>3 DEF w
  <2>3. step("up", "down") \in Int /\ step("left", "right") \in Int BY <2>2 DEF d
  <2> HIDE DEF step
  <2> QED BY <2>3
<1>3. Moved(t) = IF z < -Start THEN [y |-> 0, z |-> Start] ELSE [y |-> Bound(y, Side), z |-> Bound(z, Start)]
  BY DEF Moved
<1> HIDE DEF y, z
<1>4. \A m \in Int, limit \in Nat : Bound(m, limit) \in -limit .. limit BY DEF Bound
<1>5. 0 \in -Side .. Side /\ Start \in -Start .. Start BY <1>1
<1>6. Bound(y, Side) \in -Side .. Side /\ Bound(z, Start) \in -Start .. Start BY <1>1, <1>2, <1>4
<1> QED BY <1>3, <1>5, <1>6 DEF Board

(* ecs_query_create, and what is behind the query then: nothing. *)
LEMMA CreateFacts ==
  ASSUME NEW mask, QueryCreate(mask)
  PROVE  /\ query'.mask = mask /\ query'.entity \in Matching(mask) \cup {-1}
         /\ query'.entity \in Slots \cup {-1}
         /\ \A i \in Matching(mask) : query'.entity # -1 /\ ~(i < query'.entity)
         /\ UNCHANGED <<global_sequence, entity_states, component_masks>>
<1>1. /\ query'.mask = mask /\ query'.entity = NextMatch(mask, -1)
      /\ UNCHANGED <<global_sequence, entity_states, component_masks>>
  BY DEF QueryCreate, table
<1>2. \A i \in Matching(mask) : i \in Nat BY EcsAssumption DEF Matching, Slots
<1> DEFINE e == NextMatch(mask, -1)
<1>3. /\ e \in Slots \cup {-1} /\ (e # -1 => e \in Matching(mask))
      /\ e = -1 => \A j \in Matching(mask) : j <= -1
      /\ e # -1 => \A j \in Matching(mask) : j > -1 => e <= j
  BY NextMatchFirst, NextMatches
<1> HIDE DEF e
<1>4. ASSUME NEW i \in Matching(mask) PROVE e # -1 /\ ~(i < e)
  <2>1. i \in Nat /\ ~(i <= -1) /\ i > -1 BY <1>2
  <2>2. e # -1 BY <1>3, <2>1
  <2>3. e <= i /\ e \in Nat BY <1>2, <1>3, <2>1, <2>2
  <2> QED BY <2>1, <2>2, <2>3
<1> QED BY <1>1, <1>3, <1>4 DEF e

(* ecs_query_next, and what is behind it then. *)
LEMMA NextFacts ==
  ASSUME query.entity \in Slots \cup {-1}, QueryNext
  PROVE  /\ query'.mask = query.mask /\ query'.entity \in Matching(query.mask) \cup {-1}
         /\ query'.entity \in Slots \cup {-1} /\ query.entity \in Nat
         /\ \A i \in Matching(query.mask) :
              query'.entity = -1 \/ i < query'.entity <=> i = query.entity \/ i < query.entity
         /\ UNCHANGED <<global_sequence, entity_states, component_masks>>
<1> DEFINE mask == query.mask
           old == query.entity
           e == NextMatch(mask, old)
<1>1. /\ query'.mask = mask /\ query'.entity = e /\ old >= 0
      /\ UNCHANGED <<global_sequence, entity_states, component_masks>>
  BY DEF QueryNext, table
<1>2. \A i \in Slots : i \in Nat BY EcsAssumption DEF Slots
<1>3. \A i \in Matching(mask) : i \in Nat BY <1>2 DEF Matching
<1>4. /\ e \in Slots \cup {-1} /\ (e # -1 => e \in Matching(mask))
      /\ e = -1 => \A j \in Matching(mask) : j <= old
      /\ e # -1 => e > old /\ \A j \in Matching(mask) : j > old => e <= j
  BY NextMatchFirst, NextMatches
<1>5. old \in Nat BY <1>1, <1>2
<1> HIDE DEF e, old, mask
<1>6. ASSUME NEW i \in Matching(mask)
      PROVE  e = -1 \/ i < e <=> i = old \/ i < old
  <2>1. i \in Nat BY <1>3
  <2>2. CASE e = -1
    <3>1. i <= old BY <1>4, <2>2
    <3> QED BY <1>5, <2>1, <2>2, <3>1
  <2>3. CASE e # -1
    <3>1. e \in Nat /\ e > old /\ (i > old => e <= i) BY <1>2, <1>4, <2>3
    <3> QED BY <1>5, <2>1, <2>3, <3>1
  <2> QED BY <2>2, <2>3
<1> QED BY <1>1, <1>4, <1>5, <1>6 DEF e, old, mask

LEMMA SlotsFacts ==
  /\ 0 \in Slots /\ Trucks \subseteq Slots /\ 0 \notin Trucks
  /\ \A i \in Slots : i \in Nat
  /\ \A i \in Trucks : i \in Nat /\ i > 0 /\ i < Len(Roster)
BY RosterFacts, EcsAssumption DEF Slots, Trucks

(* What a loop leaves as it is. *)
Late == {"query_players", "players", "trucks", "draw"}

LEMMA StillSpawned ==
  ASSUME Spawned, UNCHANGED <<global_sequence, entity_states, component_masks>>,
         query'.entity \in Slots \cup {-1},
         pc \notin {"register", "spawn"}, pc' \in Late \cup {"pump", "update", "quit"},
         pc' \in Late => pc \in Late
  PROVE  Spawned'
<1>1. \A i \in Slots :
       IF i < global_sequence - 1
         THEN /\ entity_states[i] = "active"
                 \/ (entity_states[i] = "pending_add" /\ pc' \in {"spawn", "pump", "update", "quit"})
              /\ component_masks[i] = Roster[i + 1].mask
         ELSE entity_states[i] = "unused"
  BY DEF Spawned, Late
<1> QED BY <1>1 DEF Spawned, Late

LEMMA StillLaid ==
  ASSUME Laid, UNCHANGED <<global_sequence, delta, transforms>>
  PROVE  Laid'
BY DEF Laid

LEMMA FroggerInit ==
  ASSUME GameInit
  PROVE  FInv
<1>1. Spawned
  <2>1. Len(Roster) \in Nat BY RosterFacts
  <2>2. \A i \in Slots : ~(i < 0) BY SlotsFacts
  <2> QED BY <2>1, <2>2 DEF GameInit, Init, Spawned
<1>2. Laid BY SlotsFacts DEF GameInit, Init, Laid
<1>3. Framed BY DEF GameInit, Framed
<1> QED BY <1>1, <1>2, <1>3 DEF GameInit, FInv

(* The player is spawned at home, a truck in its lane. *)
LEMMA SpawnKeeps ==
  ASSUME Spawned, Laid, Spawn
  PROVE  Spawned' /\ Laid' /\ Framed'
<1> DEFINE g == global_sequence
           s == Roster[g]
           k == g - 1
<1>1. /\ pc = "spawn" /\ EntityAdd(s.mask)
      /\ transforms' = [transforms EXCEPT ![added'.entity] = [y |-> s.y, z |-> s.z]]
      /\ pc' = IF g = Len(Roster) THEN "pump" ELSE pc
      /\ delta' = delta
  BY DEF Spawn
<1>2. g \in 1 .. Len(Roster) /\ k \in Nat /\ Len(Roster) \in Nat /\ k \in Slots /\ k + 1 = g
  BY <1>1, RosterFacts, EcsAssumption DEF Spawned, Slots
<1>3. Unused = {i \in Slots : ~(i < k)} BY <1>1 DEF Unused, Spawned
<1>4. FirstOf(Unused) = k
  <2>1. k \in Unused BY <1>2, <1>3
  <2>2. Unused \in SUBSET Slots /\ Unused # {} BY <2>1 DEF Unused
  <2>3. FirstOf(Unused) \in Unused /\ FirstOf(Unused) <= k BY <2>1, <2>2, FirstSlot
  <2>4. FirstOf(Unused) \in Nat /\ ~(FirstOf(Unused) < k) BY <1>3, <2>3, SlotsFacts
  <2> QED BY <1>2, <2>3, <2>4
<1>5. /\ g' = g + 1 /\ added'.entity = k
      /\ entity_states' = [entity_states EXCEPT ![k] = "pending_add"]
      /\ component_masks' = [component_masks EXCEPT ![k] = s.mask]
      /\ query' = query
  BY <1>1, <1>4 DEF EntityAdd, TakeSlot, walk
<1>6. s.mask \in SUBSET Nat /\ s.y \in Int /\ s.z \in Int /\ (k = 0 => s.y = 0 /\ s.z = Start)
      /\ (k \in Trucks => s.z = TruckSpawns[k].z)
  <2>1. g = 1 \/ k \in Trucks \/ g = Len(TruckSpawns) + 2 BY <1>2, RosterFacts DEF Trucks
  <2>2. CASE g = 1
    <3>1. k = 0 /\ 0 \notin Trucks BY <2>2, SlotsFacts
    <3>2. Start \in Nat BY FroggerAssumption
    <3> QED BY <2>2, <3>1, <3>2, RosterFacts DEF Transform, Model, Player
  <2>3. CASE k \in Trucks
    <3>1. Roster[k + 1] = [mask |-> {Transform, Model, Truck}, y |-> TruckSpawns[k].y,
                           z |-> TruckSpawns[k].z, dir |-> TruckSpawns[k].dir]
          /\ TruckSpawns[k].y \in Int /\ TruckSpawns[k].z \in Int
      BY <2>3, RosterFacts
    <3>2. k # 0 BY <2>3, SlotsFacts
    <3> QED BY <1>2, <3>1, <3>2 DEF Transform, Model, Truck
  <2>4. CASE g = Len(TruckSpawns) + 2
    <3>1. k # 0 /\ k \notin Trucks BY <2>4, RosterFacts DEF Trucks
    <3> QED BY <2>4, <3>1, RosterFacts DEF Camera
  <2> QED BY <2>1, <2>2, <2>3, <2>4
<1> HIDE DEF s, k
<1>7. Spawned'
  <2>1. \A i \in Slots : i \in Nat BY SlotsFacts
  <2>2. ASSUME NEW i \in Slots
        PROVE  IF i < g' - 1
                 THEN /\ entity_states'[i] = "active"
                         \/ (entity_states'[i] = "pending_add" /\ pc' \in {"spawn", "pump", "update", "quit"})
                      /\ component_masks'[i] = Roster[i + 1].mask
                 ELSE entity_states'[i] = "unused"
    <3>1. CASE i = k BY <1>1, <1>2, <1>5, <3>1 DEF Spawned, s
    <3>2. CASE i # k
      <4>1. entity_states'[i] = entity_states[i] /\ component_masks'[i] = component_masks[i]
        BY <1>5, <3>2 DEF Spawned
      <4>2. i < g' - 1 <=> i < g - 1 BY <1>2, <1>5, <2>1, <3>2
      <4> QED BY <1>1, <4>1, <4>2 DEF Spawned
    <3> QED BY <3>1, <3>2
  <2>3. /\ entity_states' \in [Slots -> {"unused"} \cup Pending]
        /\ component_masks' \in [Slots -> SUBSET Nat]
    BY <1>5, <1>6 DEF Spawned, Pending
  <2>4. /\ g' \in 1 .. Len(Roster) + 1 /\ pc' \in {"spawn", "pump"}
        /\ pc' = "spawn" => g' <= Len(Roster)
        /\ pc' # "spawn" => g' = Len(Roster) + 1
    BY <1>1, <1>2, <1>5
  <2> QED BY <1>5, <2>2, <2>3, <2>4 DEF Spawned
<1>8. Laid'
  <2>1. transforms' = [transforms EXCEPT ![k] = [y |-> s.y, z |-> s.z]] BY <1>1, <1>5
  <2>2. transforms' \in [Slots -> [y : Int, z : Int]] BY <1>6, <2>1 DEF Laid
  <2>3. transforms'[0] \in Board
    <3>1. CASE k = 0
      <4>1. Start \in Nat /\ Side \in Nat BY FroggerAssumption
      <4>2. transforms'[0] = [y |-> 0, z |-> Start] BY <1>6, <2>1, <3>1, SlotsFacts DEF Laid
      <4> QED BY <4>1, <4>2 DEF Board
    <3>2. CASE k # 0
      <4>1. g > 1 BY <1>2, <3>2
      <4> QED BY <2>1, <3>2, <4>1, SlotsFacts DEF Laid
    <3> QED BY <3>1, <3>2
  <2>4. ASSUME NEW i \in Trucks, i < g' - 1 PROVE transforms'[i].z = TruckSpawns[i].z
    <3>1. CASE i = k BY <1>2, <1>6, <2>1, <2>4, <3>1 DEF Laid
    <3>2. CASE i # k
      <4>1. i < g - 1 BY <1>2, <1>5, <2>4, <3>2, SlotsFacts
      <4> QED BY <2>1, <3>2, <4>1, SlotsFacts DEF Laid
    <3> QED BY <3>1, <3>2
  <2> QED BY <1>1, <2>2, <2>3, <2>4 DEF Laid
<1>9. Framed' BY <1>1 DEF Framed
<1> QED BY <1>7, <1>8, <1>9

(* The player moves. *)
LEMMA MovePlayerKeeps ==
  ASSUME Spawned, Laid, Framed, MovePlayer
  PROVE  Spawned' /\ Laid' /\ Framed'
<1>1. /\ pc = "players" /\ pc' = pc /\ query.entity >= 0 /\ QueryNext /\ delta' = delta
      /\ transforms' = [transforms EXCEPT ![query.entity] = Moved(@)]
  BY DEF MovePlayer
<1>2. query.mask = {Transform, Player} /\ query.entity = 0 BY <1>1 DEF Framed
<1>3. query.entity \in Slots \cup {-1} BY DEF Spawned
<1>4. /\ query'.mask = query.mask /\ query'.entity \in {0} \cup {-1}
      /\ query'.entity \in Slots \cup {-1}
      /\ UNCHANGED <<global_sequence, entity_states, component_masks>>
  BY <1>1, <1>2, <1>3, NextFacts, Found
<1>5. Spawned' BY <1>1, <1>4, StillSpawned DEF Late
<1>6. /\ transforms' = [transforms EXCEPT ![0] = Moved(transforms[0])]
      /\ transforms \in [Slots -> [y : Int, z : Int]] /\ transforms[0] \in [y : Int, z : Int]
  BY <1>1, <1>2, SlotsFacts DEF Laid
<1>7. Moved(transforms[0]) \in Board BY <1>6, MovedOnBoard DEF Laid
<1>8. Board \subseteq [y : Int, z : Int]
  <2>1. Side \in Nat /\ Start \in Nat BY FroggerAssumption
  <2>2. -Side .. Side \subseteq Int /\ -Start .. Start \subseteq Int OBVIOUS
  <2> QED BY <2>2 DEF Board
<1>9. Laid'
  <2>1. transforms' \in [Slots -> [y : Int, z : Int]] BY <1>6, <1>7, <1>8
  <2>2. transforms'[0] \in Board BY <1>6, <1>7, SlotsFacts
  <2>3. \A i \in Trucks : transforms'[i] = transforms[i] BY <1>6, SlotsFacts
  <2> QED BY <1>1, <1>4, <2>1, <2>2, <2>3 DEF Laid
<1>10. Framed' BY <1>1, <1>2, <1>4 DEF Framed
<1> QED BY <1>5, <1>9, <1>10

(* A truck moves, and hits the player or not. *)
LEMMA MoveTruckKeeps ==
  ASSUME Spawned, Laid, Framed, MoveTruck
  PROVE  Spawned' /\ Laid' /\ Framed'
<1> DEFINE q == query.entity
           t == [transforms[q] EXCEPT !.y = Driven(@, dirs[q])]
           hit == EdgeWithin(transforms[0].y, t.y) /\ EdgeWithin(transforms[0].z, t.z)
<1>1. /\ pc = "trucks" /\ pc' = pc /\ q >= 0 /\ QueryNext /\ delta' = delta
  BY DEF MoveTruck
<1>2. NextMatch({Transform, Player}, -1) = 0
  <2>1. Matching({Transform, Player}) = {0} BY <1>1, Found
  <2>2. {j \in Matching({Transform, Player}) : j > -1} = {0} BY <2>1
  <2>3. FirstOf({0}) = 0
    <3>1. 0 \in Slots BY SlotsFacts
    <3> QED BY <3>1, FirstSlot
  <2> QED BY <2>2, <2>3 DEF NextMatch
<1>3. transforms' = [transforms EXCEPT ![q] = t, ![0] = IF hit THEN [y |-> 0, z |-> Start] ELSE @]
  BY <1>2 DEF MoveTruck
<1>4. q \in Trucks /\ query.mask = {Transform, Truck} BY <1>1 DEF Framed
<1>5. query.entity \in Slots \cup {-1} BY DEF Spawned
<1>6. /\ query'.mask = query.mask /\ query'.entity \in Trucks \cup {-1}
      /\ query'.entity \in Slots \cup {-1}
      /\ \A i \in Trucks : query'.entity = -1 \/ i < query'.entity <=> i = q \/ i < q
      /\ UNCHANGED <<global_sequence, entity_states, component_masks>>
  BY <1>1, <1>4, <1>5, NextFacts, Found
<1>7. /\ transforms \in [Slots -> [y : Int, z : Int]] /\ q \in Slots /\ q # 0 /\ 0 \in Slots
      /\ transforms[q] \in [y : Int, z : Int] /\ transforms[0] \in [y : Int, z : Int]
      /\ global_sequence = Len(Roster) + 1
  BY <1>1, <1>4, SlotsFacts DEF Laid, Spawned
<1>8. t \in [y : Int, z : Int] /\ t.z = transforms[q].z
  <2>1. Driven(transforms[q].y, dirs[q]) \in Int
    <3>1. delta \in Int /\ WrapTo \in Int /\ -WrapTo \in Int /\ transforms[q].y \in Int
      BY <1>7, FroggerAssumption DEF Laid
    <3>2. transforms[q].y - delta \in Int /\ transforms[q].y + delta \in Int BY <3>1
    <3> DEFINE to == IF dirs[q] = 1 THEN transforms[q].y - delta ELSE transforms[q].y + delta
    <3>3. to \in Int BY <3>2
    <3>4. Driven(transforms[q].y, dirs[q]) =
            CASE to < -WrapAt -> WrapTo [] to > WrapAt -> -WrapTo [] OTHER -> to
      BY DEF Driven
    <3> HIDE DEF to
    <3> QED BY <3>1, <3>3, <3>4
  <2> QED BY <1>7, <2>1
<1> DEFINE p == IF hit THEN Home ELSE transforms[0]
<1>9. /\ transforms'[q] = t /\ transforms'[0] = p
      /\ \A i \in Slots : i # q /\ i # 0 => transforms'[i] = transforms[i]
      /\ DOMAIN transforms' = Slots
  BY <1>3, <1>7 DEF Home
<1>10. p \in Board /\ p \in [y : Int, z : Int]
  <2>1. Start \in Nat /\ Side \in Nat BY FroggerAssumption
  <2>2. Home \in Board BY <2>1 DEF Board, Home
  <2>3. Home \in [y : Int, z : Int] BY <2>1 DEF Home
  <2>4. transforms[0] \in Board
    <3>1. Len(Roster) \in Nat /\ Len(Roster) > 0 BY RosterFacts
    <3>2. global_sequence > 1 BY <1>7, <3>1
    <3> QED BY <3>2 DEF Laid
  <2> QED BY <1>7, <2>2, <2>3, <2>4
<1> HIDE DEF t, hit, q
<1>11. transforms' \in [Slots -> [y : Int, z : Int]]
  <2>1. \A i \in Slots : transforms'[i] \in [y : Int, z : Int] BY <1>7, <1>8, <1>9, <1>10
  <2>2. transforms' = [i \in Slots |-> transforms'[i]] BY <1>3, <1>7
  <2> QED BY <2>1, <2>2
<1>12. \A i \in Trucks : i < global_sequence - 1 /\ transforms'[i].z = TruckSpawns[i].z
  <2>1. \A i \in Trucks : i < global_sequence - 1 /\ transforms[i].z = TruckSpawns[i].z
    BY <1>7, SlotsFacts, RosterFacts DEF Laid
  <2> QED BY <1>4, <1>8, <1>9, <2>1, SlotsFacts
<1>13. Laid' BY <1>1, <1>6, <1>9, <1>10, <1>11, <1>12 DEF Laid
<1>14. ASSUME NEW i \in Trucks, i = q \/ i < q
       PROVE  ~Touch(transforms'[0], transforms'[i])
  <2>1. transforms'[i] \in [y : Int, z : Int] /\ transforms'[i].z = TruckSpawns[i].z
    BY <1>11, <1>12, SlotsFacts
  <2>2. CASE hit BY <1>9, <2>1, <2>2, HomeIsSafe
  <2>3. CASE ~hit
    <3>1. transforms'[0] = transforms[0] BY <1>9, <2>3
    <3>2. CASE i = q
      <4>1. ~Touch(transforms[0], t) BY <1>7, <1>8, <2>3, HitIfTouch DEF hit
      <4> QED BY <1>9, <3>1, <3>2, <4>1
    <3>3. CASE i # q
      <4>1. Passed(i) BY <1>14, <3>3 DEF Passed, q
      <4>2. ~Touch(transforms[0], transforms[i]) BY <1>1, <4>1 DEF Framed
      <4>3. transforms'[i] = transforms[i] BY <1>9, <3>3, SlotsFacts
      <4> QED BY <3>1, <4>2, <4>3
    <3> QED BY <3>2, <3>3
  <2> QED BY <2>2, <2>3
<1>15. Framed'
  <2>1. \A i \in Trucks : Passed(i)' => ~Touch(transforms'[0], transforms'[i])
    BY <1>6, <1>14 DEF Passed
  <2>2. \A i \in Trucks : Touch(transforms[0], transforms[i])' <=> Touch(transforms'[0], transforms'[i])
    BY DEF Touch
  <2> QED BY <1>1, <1>4, <1>6, <2>1, <2>2 DEF Framed, q
<1>16. Spawned' BY <1>1, <1>6, StillSpawned DEF Late
<1> QED BY <1>13, <1>15, <1>16

(* The loops of the frame begin. *)
LEMMA LoopsBegin ==
  ASSUME Spawned, Laid, Framed, UpdatePlayers \/ UpdateTrucks \/ DrawModels
  PROVE  Spawned' /\ Laid' /\ Framed'
<1>1. CASE UpdatePlayers
  <2>1. pc = "query_players" /\ pc' = "players" /\ QueryCreate({Transform, Player})
        /\ UNCHANGED <<delta, transforms>>
    BY <1>1 DEF UpdatePlayers
  <2>2. /\ query'.mask = {Transform, Player} /\ query'.entity \in {0} \cup {-1}
        /\ query'.entity \in Slots \cup {-1}
        /\ UNCHANGED <<global_sequence, entity_states, component_masks>>
    BY <2>1, CreateFacts, Found
  <2>3. Framed' BY <2>1, <2>2 DEF Framed
  <2>4. Spawned' /\ Laid' BY <2>1, <2>2, StillSpawned, StillLaid DEF Late
  <2> QED BY <2>3, <2>4
<1>2. CASE UpdateTrucks
  <2>1. pc = "players" /\ pc' = "trucks" /\ QueryCreate({Transform, Truck})
        /\ UNCHANGED <<delta, transforms>>
    BY <1>2 DEF UpdateTrucks
  <2>2. /\ query'.mask = {Transform, Truck} /\ query'.entity \in Trucks \cup {-1}
        /\ query'.entity \in Slots \cup {-1}
        /\ \A i \in Trucks : query'.entity # -1 /\ ~(i < query'.entity)
        /\ UNCHANGED <<global_sequence, entity_states, component_masks>>
    BY <2>1, CreateFacts, Found
  <2>3. Framed' BY <2>1, <2>2 DEF Framed, Passed
  <2>4. Spawned' /\ Laid' BY <2>1, <2>2, StillSpawned, StillLaid DEF Late
  <2> QED BY <2>3, <2>4
<1>3. CASE DrawModels
  <2>1. pc = "trucks" /\ pc' = "draw" /\ query.entity = -1 /\ drawn' = {}
        /\ UNCHANGED <<delta, transforms>>
    BY <1>3 DEF DrawModels
  <2>2. QueryCreate({Transform, Model}) BY <1>3, <2>1, Found DEF DrawModels
  <2>3. /\ query'.mask = {Transform, Model} /\ query'.entity \in ({0} \cup Trucks) \cup {-1}
        /\ query'.entity \in Slots \cup {-1}
        /\ \A i \in {0} \cup Trucks : query'.entity # -1 /\ ~(i < query'.entity)
        /\ UNCHANGED <<global_sequence, entity_states, component_masks>>
    BY <2>1, <2>2, CreateFacts, Found
  <2>4. \A i \in Trucks : ~Touch(transforms[0], transforms[i]) BY <2>1 DEF Framed, Passed
  <2>5. Framed'
    <3>1. \A i \in Trucks : ~Touch(transforms'[0], transforms'[i]) BY <2>1, <2>4
    <3>2. \A i \in Trucks : Touch(transforms[0], transforms[i])' <=> Touch(transforms'[0], transforms'[i])
      BY DEF Touch
    <3>3. {i \in {0} \cup Trucks : query'.entity = -1 \/ i < query'.entity} = {} BY <2>3
    <3>4. {i \in {0} \cup Trucks : Passed(i)}' = {} BY <3>3 DEF Passed
    <3> QED BY <2>1, <2>3, <3>1, <3>2, <3>4 DEF Framed
  <2>6. Spawned' /\ Laid' BY <2>1, <2>3, StillSpawned, StillLaid DEF Late
  <2> QED BY <2>5, <2>6
<1> QED BY <1>1, <1>2, <1>3

(* A model is drawn. *)
LEMMA DrawModelKeeps ==
  ASSUME Spawned, Laid, Framed, DrawModel
  PROVE  Spawned' /\ Laid' /\ Framed'
<1> DEFINE q == query.entity
<1>1. /\ pc = "draw" /\ pc' = pc /\ q >= 0 /\ QueryNext /\ drawn' = drawn \cup {q}
      /\ UNCHANGED <<delta, transforms>>
  BY DEF DrawModel
<1>2. query.mask = {Transform, Model} /\ q \in {0} \cup Trucks BY <1>1 DEF Framed
<1>3. query.entity \in Slots \cup {-1} BY DEF Spawned
<1>4. /\ query'.mask = query.mask /\ query'.entity \in ({0} \cup Trucks) \cup {-1}
      /\ query'.entity \in Slots \cup {-1} /\ q \in Nat
      /\ \A i \in {0} \cup Trucks : query'.entity = -1 \/ i < query'.entity <=> i = q \/ i < q
      /\ UNCHANGED <<global_sequence, entity_states, component_masks>>
  BY <1>1, <1>2, <1>3, NextFacts, Found
<1>5. drawn = {i \in {0} \cup Trucks : q = -1 \/ i < q} BY <1>1 DEF Framed, Passed
<1>6. drawn' = {i \in {0} \cup Trucks : query'.entity = -1 \/ i < query'.entity}
  <2> HIDE DEF q
  <2>1. q # -1 BY <1>4
  <2> QED BY <1>1, <1>2, <1>4, <1>5, <2>1
<1>7. Framed'
  <2>1. \A i \in Trucks : ~Touch(transforms'[0], transforms'[i]) BY <1>1 DEF Framed
  <2>2. \A i \in Trucks : Touch(transforms[0], transforms[i])' <=> Touch(transforms'[0], transforms'[i])
    BY DEF Touch
  <2> QED BY <1>1, <1>2, <1>4, <1>6, <2>1, <2>2 DEF Framed, Passed
<1>8. Spawned' /\ Laid' BY <1>1, <1>4, StillSpawned, StillLaid DEF Late
<1> QED BY <1>7, <1>8

(* The steps outside the loops. *)
LEMMA RestKeeps ==
  ASSUME Spawned, Laid, Framed, RegisterTypes \/ Pump \/ BeginFrame \/ EndFrame
  PROVE  Spawned' /\ Laid' /\ Framed'
<1>1. CASE RegisterTypes
  <2>1. /\ pc = "register" /\ pc' \in {"register", "spawn"} /\ UNCHANGED <<delta, transforms>>
        /\ UNCHANGED <<global_sequence, entity_states, component_masks, query>>
    BY <1>1 DEF RegisterTypes, RegisterComponentType, table, walk
  <2>2. global_sequence = 1 /\ Len(Roster) \in Nat /\ 1 <= Len(Roster)
    BY <2>1, RosterFacts DEF Spawned
  <2>3. \A i \in Slots : ~(i < global_sequence - 1) BY <2>2, SlotsFacts
  <2>4. Spawned' BY <2>1, <2>2, <2>3 DEF Spawned
  <2> QED BY <2>1, <2>4, StillLaid DEF Framed
<1>2. CASE Pump
  <2>1. /\ pc = "pump" /\ pc' \in {"update", "quit"} /\ UNCHANGED <<delta, transforms>>
        /\ UNCHANGED <<global_sequence, entity_states, component_masks, query>>
    BY <1>2 DEF Pump, vars, table, walk
  <2>2. query'.entity \in Slots \cup {-1} BY <2>1 DEF Spawned
  <2> QED BY <2>1, <2>2, StillSpawned, StillLaid DEF Framed, Late
<1>3. CASE BeginFrame
  <2>1. /\ pc = "update" /\ pc' = "query_players" /\ delta' \in Deltas /\ UNCHANGED transforms
        /\ UNCHANGED <<global_sequence, component_masks, query>>
        /\ entity_states' = [i \in Slots |->
             CASE entity_states[i] = "pending_add" -> "active"
               [] entity_states[i] = "pending_remove" -> "unused"
               [] OTHER -> entity_states[i]]
    BY <1>3 DEF BeginFrame, Update, walk
  <2>2. delta' \in Nat BY <2>1, FroggerAssumption
  <2>3. Laid' BY <2>1, <2>2 DEF Laid
  <2>4. ASSUME NEW i \in Slots
        PROVE  IF i < global_sequence - 1
                 THEN entity_states'[i] = "active" /\ component_masks[i] = Roster[i + 1].mask
                 ELSE entity_states'[i] = "unused"
    BY <2>1 DEF Spawned
  <2>5. entity_states' \in [Slots -> {"unused"} \cup Pending] BY <2>1, <2>4 DEF Pending
  <2>6. ASSUME NEW i \in Slots
        PROVE  IF i < global_sequence' - 1
            THEN /\ entity_states'[i] = "active"
                    \/ (entity_states'[i] = "pending_add" /\ pc' \in {"spawn", "pump", "update", "quit"})
                 /\ component_masks'[i] = Roster[i + 1].mask
            ELSE entity_states'[i] = "unused"
    <3>1. global_sequence' = global_sequence /\ component_masks' = component_masks BY <2>1
    <3> QED BY <2>4, <3>1
  <2>7. /\ query'.entity \in Slots \cup {-1} /\ component_masks' \in [Slots -> SUBSET Nat]
        /\ global_sequence' = Len(Roster) + 1 /\ global_sequence' \in 1 .. Len(Roster) + 1
        /\ pc' \notin {"register", "spawn"}
    BY <2>1 DEF Spawned
  <2>8. Spawned' BY <2>5, <2>6, <2>7 DEF Spawned
  <2> QED BY <2>1, <2>3, <2>8 DEF Framed
<1>4. CASE EndFrame
  <2>1. /\ pc = "draw" /\ pc' = "pump" /\ UNCHANGED <<delta, transforms>>
        /\ UNCHANGED <<global_sequence, entity_states, component_masks, query>>
    BY <1>4 DEF EndFrame, vars, table, walk
  <2>2. query'.entity \in Slots \cup {-1} BY <2>1 DEF Spawned
  <2> QED BY <2>1, <2>2, StillSpawned, StillLaid DEF Framed, Late
<1> QED BY <1>1, <1>2, <1>3, <1>4

LEMMA FroggerStep ==
  ASSUME FInv, [GameNext]_gamevars
  PROVE  FInv'
<1>1. CASE driver = "frogger" /\ FroggerNext
  <2>1. Spawned /\ Laid /\ Framed BY <1>1 DEF FInv
  <2>2. Spawned' /\ Laid' /\ Framed'
    BY <1>1, <2>1, RestKeeps, SpawnKeeps, MovePlayerKeeps, MoveTruckKeeps, LoopsBegin,
       DrawModelKeeps DEF FroggerNext
  <2>3. driver' = "frogger" /\ pc' \in {"register", "spawn", "pump", "update", "query_players",
                                        "players", "trucks", "draw", "quit"}
    BY <1>1 DEF FInv, FroggerNext, RegisterTypes, Spawn, Pump, BeginFrame, UpdatePlayers, MovePlayer,
                UpdateTrucks, MoveTruck, DrawModels, DrawModel, EndFrame
  <2> QED BY <2>2, <2>3 DEF FInv
<1>2. CASE driver = "client" /\ Next /\ UNCHANGED game BY <1>2 DEF FInv, game
<1>3. CASE UNCHANGED gamevars
  <2>1. UNCHANGED <<global_sequence, entity_states, component_masks, query, driver, pc, delta,
                    transforms, drawn>>
    BY <1>3 DEF gamevars, vars, table, walk, game
  <2>2. Spawned => Spawned' BY <2>1 DEF Spawned
  <2>3. Laid => Laid' BY <2>1 DEF Laid
  <2>4. Framed => Framed' BY <2>1 DEF Framed, Passed, Touch
  <2> QED BY <2>1, <2>2, <2>3, <2>4 DEF FInv
<1> QED BY <1>1, <1>2, <1>3 DEF GameNext

(* What a frame draws never shows the player on a truck, and shows it on the
   board: for any trucks whose lanes are clear of the start, any keys, any times
   and a truck of any direction, though each truck is tested once and the player
   may be put elsewhere by the next. *)
THEOREM PlayerIsSafe == GameSpec => []PlayerSafe
<1>1. GameInit => FInv BY FroggerInit
<1>2. FInv /\ [GameNext]_gamevars => FInv' BY FroggerStep
<1>3. FInv => PlayerSafe
  <2> SUFFICES ASSUME FInv, pc = "draw",
                      NEW p \in Matching({Player})
               PROVE  /\ \A t \in Matching({Truck}) : ~Touch(transforms[p], transforms[t])
                      /\ transforms[p].y \in -Side .. Side /\ transforms[p].z \in -Start .. Start
    BY DEF PlayerSafe
  <2>1. Spawned /\ Laid /\ Framed BY DEF FInv
  <2>2. p = 0 /\ Matching({Truck}) = Trucks BY <2>1, Found
  <2>3. global_sequence > 1 BY <2>1, RosterFacts DEF Spawned
  <2>4. transforms[0] \in Board BY <2>1, <2>3 DEF Laid
  <2> QED BY <2>1, <2>2, <2>4 DEF Framed, Board
<1> QED BY <1>1, <1>2, <1>3, PTL DEF GameSpec

(* Every frame draws the player and every truck. *)
THEOREM EveryModelDrawn == GameSpec => []DrawsEveryModel
<1>1. GameInit => FInv BY FroggerInit
<1>2. FInv /\ [GameNext]_gamevars => FInv' BY FroggerStep
<1>3. FInv => DrawsEveryModel
  <2> SUFFICES ASSUME FInv, pc = "draw", query.entity = -1
               PROVE  Cardinality(drawn) = Len(TruckSpawns) + 1
    BY DEF DrawsEveryModel
  <2>1. Framed BY DEF FInv
  <2>2. drawn = {0} \cup Trucks BY <2>1 DEF Framed, Passed
  <2>3. Len(TruckSpawns) \in Nat BY RosterFacts
  <2>4. drawn = 0 .. Len(TruckSpawns) BY <2>2, <2>3 DEF Trucks
  <2>5. Cardinality(0 .. Len(TruckSpawns)) = Len(TruckSpawns) - 0 + 1 BY <2>3, FS_Interval
  <2> QED BY <2>3, <2>4, <2>5
<1> QED BY <1>1, <1>2, <1>3, PTL DEF GameSpec

(* The masks of the entities that the game spawns and of the queries it makes. *)
GameMasks ==
  {{Transform, Model, Player}, {Transform, Model, Truck}, {Camera},
   {Transform, Player}, {Transform, Truck}, {Transform, Model}}

LEMMA RosterMasks ==
  ASSUME NEW g \in 1 .. Len(Roster)
  PROVE  Roster[g].mask \in GameMasks
<1>1. g = 1 \/ g - 1 \in Trucks \/ g = Len(TruckSpawns) + 2 BY RosterFacts DEF Trucks
<1>2. CASE g = 1 BY <1>2, RosterFacts DEF GameMasks
<1>3. CASE g - 1 \in Trucks
  <2> DEFINE k == g - 1
  <2> HIDE DEF k
  <2>1. Roster[k + 1] = [mask |-> {Transform, Model, Truck}, y |-> TruckSpawns[k].y,
                         z |-> TruckSpawns[k].z, dir |-> TruckSpawns[k].dir]
    BY <1>3, RosterFacts DEF k
  <2>2. k + 1 = g BY DEF k
  <2> QED BY <2>1, <2>2 DEF GameMasks
<1>4. CASE g = Len(TruckSpawns) + 2 BY <1>4, RosterFacts DEF GameMasks
<1> QED BY <1>1, <1>2, <1>3, <1>4

(* The game uses the table as any client may: each of its steps is one of Ecs or
   leaves the table alone, so all that is proved of Ecs holds in the game. *)
THEOREM GameIsClient ==
  ASSUME GameMasks \subseteq Masks
  PROVE  GameSpec => Spec
<1>1. GameInit => FInv /\ Init BY FroggerInit DEF GameInit
<1>2. FInv /\ [GameNext]_gamevars => FInv' BY FroggerStep
<1>3. FInv /\ [GameNext]_gamevars => [Next]_vars
  <2> SUFFICES ASSUME FInv, GameNext \/ UNCHANGED gamevars PROVE Next \/ UNCHANGED vars OBVIOUS
  <2>1. CASE driver = "frogger" /\ FroggerNext
    <3>1. Spawned BY <2>1 DEF FInv
    <3>2. CASE RegisterTypes BY <3>2 DEF RegisterTypes, Next
    <3>3. CASE Spawn
      <4>1. pc = "spawn" /\ EntityAdd(Roster[global_sequence].mask) BY <3>3 DEF Spawn
      <4>2. global_sequence \in 1 .. Len(Roster)
        <5>1. Len(Roster) \in Nat BY RosterFacts
        <5> QED BY <3>1, <4>1, <5>1 DEF Spawned
      <4>3. Roster[global_sequence].mask \in Masks BY <4>2, RosterMasks
      <4> QED BY <4>1, <4>3 DEF Next
    <3>4. CASE BeginFrame BY <3>4 DEF BeginFrame, Next
    <3>5. CASE UpdatePlayers \/ UpdateTrucks \/ DrawModels
      BY <3>5 DEF UpdatePlayers, UpdateTrucks, DrawModels, GameMasks, Next
    <3>6. CASE MovePlayer \/ MoveTruck \/ DrawModel
      BY <3>6 DEF MovePlayer, MoveTruck, DrawModel, Next
    <3>7. CASE Pump \/ EndFrame BY <3>7 DEF Pump, EndFrame
    <3> QED BY <2>1, <3>2, <3>3, <3>4, <3>5, <3>6, <3>7 DEF FroggerNext
  <2>2. CASE driver = "client" /\ Next /\ UNCHANGED game BY <2>2
  <2>3. CASE UNCHANGED gamevars BY <2>3 DEF gamevars
  <2> QED BY <2>1, <2>2, <2>3 DEF GameNext
<1> QED BY <1>1, <1>2, <1>3, PTL DEF GameSpec, Spec
=============================================================================
