----------------------------- MODULE MCFrogger -----------------------------
(* Frogger with two trucks that cross in different lanes of a small board. *)
EXTENDS Frogger

MCMasks == {{0}, {0, 1}}
MCTrucks == <<[y |-> -3, z |-> 2, dir |-> 0], [y |-> 1, z |-> -2, dir |-> 1]>>
MCKeyMasks == {{}, {"up"}, {"down"}, {"left"}, {"right"}, {"up", "right"}}
=============================================================================
