-------------------------- MODULE MCNetReplication --------------------------
(* NetReplication with a bound for each host, for model checking. *)
EXTENDS NetReplication

MCUpdateBound == [h \in {"sender", "receiver"} |-> 3]
MCLongUpdateBound == [h \in {"sender", "receiver"} |-> IF h = "sender" THEN 4 ELSE 2]
=============================================================================
