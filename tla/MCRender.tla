------------------------------ MODULE MCRender ------------------------------
(* Render with three entities that share two meshes, for model checking. *)
EXTENDS Render

MCMeshOf == [e \in Entities |-> IF e = "c" THEN "m2" ELSE "m1"]
MCOneMesh == [e \in Entities |-> "m1"]
=============================================================================
