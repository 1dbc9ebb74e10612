------------------------------ MODULE MCTrace ------------------------------
(* Trace with two threads that push two durations each, for model checking. *)
EXTENDS Trace

MCCallers == {"main", "other"}
MCEvents == MCCallers \X (1 .. PushBound)
MCBlocks == {<<n>> : n \in {"trace", "queue", "array", "path", "fs", "text", "work"}}
              \cup ({"event", "name"} \X MCEvents)

(* The buffer of capture_stop is larger than grow_increment. *)
MCSizeOf == [b \in Blocks |->
  CASE b = <<"text">> -> 3 [] b \in {"event"} \X MCEvents -> b[2][2] [] OTHER -> 1]
=============================================================================
