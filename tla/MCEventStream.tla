---------------------------- MODULE MCEventStream ----------------------------
(* A small instance of EventStream for TLC. *)
EXTENDS EventStream

CONSTANT s1, s2

\* One client wants everything, another the domain events only.
MCFilter == [s \in Subscribers |-> IF s = s1 THEN "any" ELSE "domain"]
=============================================================================
