------------------------------ MODULE Frogger ------------------------------
(***************************************************************************)
(* The game of src/src/frogger_game.c in main.c's loop: the window's keys  *)
(* and the timer's delta of a frame, and the entities, which it keeps in   *)
(* the entity component system (module Ecs) and moves, collides and draws  *)
(* in query loops.  The table may be used by any client instead, which     *)
(* takes the steps of Ecs in any order.                                    *)
(*                                                                         *)
(* Lengths are whole numbers of a unit: the distance of a truck in the     *)
(* smallest delta.  Transforms only have a translation.                    *)
(***************************************************************************)
EXTENDS Ecs, Sequences

CONSTANTS
  TruckSpawns,  \* of each truck frogger_game_create spawns: [y, z, dir]
  Half,         \* 0.25: half the side of a square
  Start,        \* 3.75: the row a player starts in, and minus the last row
  Side,         \* 7.75: the player's bound at the sides
  WrapAt,       \* 9.0: where a truck leaves at a side,
  WrapTo,       \* 8.25: and where it comes back at the other
  PlayerSpeed,  \* 4: a player is faster than a truck (0.001f, 0.00025f)
  KeyMasks,     \* sets of keys that are down
  Deltas        \* what timer_object_update may measure in a frame

VARIABLES
  driver,      \* who uses the table: "frogger" or "client"
  pc,          \* where the main loop is
  key_mask,    \* of wm_window_t
  delta,       \* of the game's timer_object_t
  transforms,  \* transform component of each slot: [y, z]
  dirs,        \* truck component of each slot: its direction
  drawn        \* slots whose model is pushed in this frame

game == <<driver, pc, key_mask, delta, transforms, dirs, drawn>>
gamevars == <<vars, game>>

Transform == 0
Camera == 1
Model == 2
Player == 3
Truck == 4
TypeCount == 5   \* the name component, which no query asks for, is left out

(* What frogger_game_create spawns, in order. *)
Roster ==
  <<[mask |-> {Transform, Model, Player}, y |-> 0, z |-> Start, dir |-> 0]>>
  \o [k \in DOMAIN TruckSpawns |->
       [mask |-> {Transform, Model, Truck}, y |-> TruckSpawns[k].y, z |-> TruckSpawns[k].z,
        dir |-> TruckSpawns[k].dir]]
  \o <<[mask |-> {Camera}, y |-> 0, z |-> 0, dir |-> 0]>>

ASSUME FroggerAssumption ==
  /\ TruckSpawns \in Seq([y : Int, z : Int, dir : Int])
  /\ {Half, Start, Side, PlayerSpeed} \subseteq Nat /\ {WrapAt, WrapTo} \subseteq Int
  /\ Len(Roster) <= MaxEntities /\ Len(Roster) <= AddBound /\ TypeCount <= MaxTypes
  /\ \A k \in DOMAIN TruckSpawns : TruckSpawns[k].z + 2 * Half < Start
  /\ Deltas \subseteq Nat

GameInit ==
  /\ Init
  /\ driver \in {"frogger", "client"}
  /\ pc = "register" /\ key_mask = {} /\ delta = 0
  /\ transforms = [i \in Slots |-> [y |-> 0, z |-> 0]]
  /\ dirs = [i \in Slots |-> 0]
  /\ drawn = {}
-----------------------------------------------------------------------------
(* frogger_game_create *)

RegisterTypes ==
  /\ pc = "register"
  /\ RegisterComponentType
  /\ pc' = IF registered' = TypeCount THEN "spawn" ELSE pc
  /\ UNCHANGED <<driver, key_mask, delta, transforms, dirs, drawn>>

(* spawn_player, spawn_truck, spawn_camera *)
Spawn ==
  /\ pc = "spawn"
  /\ LET s == Roster[global_sequence]
     IN  /\ EntityAdd(s.mask)
         /\ transforms' = [transforms EXCEPT ![added'.entity] = [y |-> s.y, z |-> s.z]]
         /\ dirs' = [dirs EXCEPT ![added'.entity] = s.dir]
  /\ pc' = IF global_sequence = Len(Roster) THEN "pump" ELSE pc
  /\ UNCHANGED <<driver, key_mask, delta, drawn>>
-----------------------------------------------------------------------------
(* main's loop and frogger_game_update *)

(* wm_pump: after the messages of keys any of them may be down; WM_CLOSE ends
   the loop. *)
Pump ==
  /\ pc = "pump"
  /\ key_mask' \in KeyMasks
  /\ pc' \in {"update", "quit"}
  /\ UNCHANGED <<vars, driver, delta, transforms, dirs, drawn>>

(* Mutant: the entities that are new are not made active. *)
BeginFrameNoUpdate ==
  /\ pc = "update"
  /\ delta' \in Deltas
  /\ pc' = "query_players"
  /\ UNCHANGED <<vars, driver, key_mask, transforms, dirs, drawn>>

(* timer_object_update and ecs_update *)
BeginFrame ==
  /\ pc = "update"
  /\ delta' \in Deltas
  /\ Update
  /\ pc' = "query_players"
  /\ UNCHANGED <<driver, key_mask, transforms, dirs, drawn>>

UpdatePlayers ==
  /\ pc = "query_players"
  /\ QueryCreate({Transform, Player})
  /\ pc' = "players"
  /\ UNCHANGED <<driver, key_mask, delta, transforms, dirs, drawn>>

Bound(n, limit) == IF n > limit THEN limit ELSE IF n < -limit THEN -limit ELSE n

(* Where keys take a player at t: past the last row is back to the start. *)
Moved(t) ==
  LET step(less, more) == PlayerSpeed * delta *
        ((IF more \in key_mask THEN 1 ELSE 0) - (IF less \in key_mask THEN 1 ELSE 0))
      z == t.z + step("up", "down")
      y == t.y + step("left", "right")
  IN  IF z < -Start THEN [y |-> 0, z |-> Start]
      ELSE [y |-> Bound(y, Side), z |-> Bound(z, Start)]

(* The body of the loop of update_players, and the loop's step. *)
MovePlayer ==
  /\ pc = "players" /\ query.entity >= 0
  /\ transforms' = [transforms EXCEPT ![query.entity] = Moved(@)]
  /\ QueryNext
  /\ UNCHANGED <<driver, pc, key_mask, delta, dirs, drawn>>

UpdateTrucks ==
  /\ pc = "players" /\ query.entity = -1
  /\ QueryCreate({Transform, Truck})
  /\ pc' = "trucks"
  /\ UNCHANGED <<driver, key_mask, delta, transforms, dirs, drawn>>

(* Where a truck at y goes. *)
Driven(y, dir) ==
  LET to == IF dir = 1 THEN y - delta ELSE y + delta
  IN  CASE to < -WrapAt -> WrapTo
        [] to > WrapAt -> -WrapTo
        [] OTHER -> to

(* Mutant: only the player's lower edge is tested. *)
OneEdgeWithin(a, b) == a - Half >= b - Half /\ a - Half <= b + Half

(* One of the edges of the player at a is between those of the truck at b. *)
EdgeWithin(a, b) == \E edge \in {a - Half, a + Half} : edge >= b - Half /\ edge <= b + Half

(* The body of the loop of update_trucks, and the loop's step: the truck moves
   and the first player found, if they touch, is put back to the start. *)
MoveTruck ==
  /\ pc = "trucks" /\ query.entity >= 0
  /\ LET t == [transforms[query.entity] EXCEPT !.y = Driven(@, dirs[query.entity])]
         p == NextMatch({Transform, Player}, -1)
         hit == EdgeWithin(transforms[p].y, t.y) /\ EdgeWithin(transforms[p].z, t.z)
     IN  transforms' = [transforms EXCEPT
           ![query.entity] = t, ![p] = IF hit THEN [y |-> 0, z |-> Start] ELSE @]
  /\ QueryNext
  /\ UNCHANGED <<driver, pc, key_mask, delta, dirs, drawn>>

(* draw_models: the models are drawn for the camera, if it is there. *)
DrawModels ==
  /\ pc = "trucks" /\ query.entity = -1
  /\ drawn' = {}
  /\ IF Matching({Camera}) # {} THEN QueryCreate({Transform, Model}) ELSE UNCHANGED vars
  /\ pc' = "draw"
  /\ UNCHANGED <<driver, key_mask, delta, transforms, dirs>>

(* render_push_model, and the loop's step. *)
DrawModel ==
  /\ pc = "draw" /\ query.entity >= 0
  /\ drawn' = drawn \cup {query.entity}
  /\ QueryNext
  /\ UNCHANGED <<driver, pc, key_mask, delta, transforms, dirs>>

(* render_push_done *)
EndFrame ==
  /\ pc = "draw" /\ query.entity = -1
  /\ pc' = "pump"
  /\ UNCHANGED <<vars, driver, key_mask, delta, transforms, dirs, drawn>>

FroggerNext ==
  \/ RegisterTypes \/ Spawn
  \/ Pump \/ BeginFrame
  \/ UpdatePlayers \/ MovePlayer
  \/ UpdateTrucks \/ MoveTruck
  \/ DrawModels \/ DrawModel \/ EndFrame

GameNext ==
  \/ driver = "frogger" /\ FroggerNext
  \/ driver = "client" /\ Next /\ UNCHANGED game

GameSpec == GameInit /\ [][GameNext]_gamevars
-----------------------------------------------------------------------------
Touch(s, t) ==
  /\ s.y - t.y \in -2 * Half .. 2 * Half
  /\ s.z - t.z \in -2 * Half .. 2 * Half

(* What a frame draws never shows the player on a truck, although the player
   is tested against each truck before the trucks after it have moved and may
   be put elsewhere meanwhile; and the player is on the board. *)
PlayerSafe ==
  pc = "draw" => \A p \in Matching({Player}) :
    /\ \A t \in Matching({Truck}) : ~Touch(transforms[p], transforms[t])
    /\ transforms[p].y \in -Side .. Side /\ transforms[p].z \in -Start .. Start

(* Every frame, the first one too, draws the player and every truck, as module
   Render takes for granted of the entities that are Permanent: no mesh of the
   game goes stale while it runs. *)
DrawsEveryModel ==
  pc = "draw" /\ query.entity = -1 => Cardinality(drawn) = Len(TruckSpawns) + 1
=============================================================================
