---------------------------- MODULE MCFileSystem ----------------------------
(* FileSystem with one plain and one compressed file, for model checking. *)
EXTENDS FileSystem

MCPaths == {"plain", "packed"}
MCCompressed == {"packed"}

(* The use of homework2_test_internal, and one without its discipline. *)
MCUses == {[capacity |-> 1, faults |-> FALSE, waits |-> TRUE],
           [capacity |-> 2, faults |-> TRUE, waits |-> FALSE]}
MCFaultyUse == {[capacity |-> 1, faults |-> TRUE, waits |-> TRUE]}
=============================================================================
