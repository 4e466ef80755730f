----------------------------- MODULE MCThreadLog -----------------------------
(* Small instances of ThreadLog. *)
EXTENDS ThreadLog
=============================================================================
