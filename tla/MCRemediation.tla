---------------------------- MODULE MCRemediation ----------------------------
(* Instances of Remediation for TLC. *)
EXTENDS Remediation, TLC

\* Handlers that may do the same things are interchangeable.
Symmetry == Permutations(Approvers) \cup Permutations(Requests \ Approvers)
=============================================================================
