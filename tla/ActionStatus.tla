---------------------------- MODULE ActionStatus ----------------------------
(***************************************************************************)
(* The status machine of a remediation action (src/action/mod.rs): the     *)
(* statuses, which of them are final, and which moves `transition' allows. *)
(* A status the code only passes through in memory, between two writes of  *)
(* the record, is Transient: the store never shows it.                     *)
(***************************************************************************)

\* `absent' stands for an action id with no row in the actions table.
Statuses ==
  {"absent", "proposed", "policy_denied", "dry_run", "invalid", "awaiting_approval",
   "expired", "rejected", "authorized", "precondition_check", "stale", "executing",
   "verifying", "succeeded", "verification_failed", "rollback_proposed",
   "needs_reconciliation"}

IsTerminal(s) ==
  s \in {"policy_denied", "invalid", "expired", "rejected", "stale", "succeeded",
         "rollback_proposed", "needs_reconciliation"}

CanTransition(s, t) ==
  \/ s = "proposed" /\ t \in {"policy_denied", "dry_run"}
  \/ s = "dry_run" /\ t \in {"awaiting_approval", "invalid"}
  \/ s = "awaiting_approval" /\ t \in {"expired", "rejected", "authorized"}
  \/ s = "authorized" /\ t \in {"expired", "precondition_check"}
  \/ s = "precondition_check" /\ t \in {"stale", "executing", "needs_reconciliation"}
  \/ s = "executing" /\ t \in {"verifying", "needs_reconciliation"}
  \/ s = "verifying" /\ t \in {"succeeded", "verification_failed", "needs_reconciliation"}
  \/ s = "verification_failed" /\ t = "rollback_proposed"

\* Statuses that execute_action and propose_action_plan pass through without a write.
Transient == {"proposed", "dry_run", "verifying", "verification_failed"}

\* What a single write of the record may do to the stored status: legal moves
\* through transient statuses.  An absent record starts at `proposed'.
StoreMove(s, t) ==
  LET from == IF s = "absent" THEN "proposed" ELSE s
  IN  /\ t \notin Transient
      /\ \/ CanTransition(from, t)
         \/ \E m \in Transient :
              /\ CanTransition(from, m)
              /\ \/ CanTransition(m, t)
                 \/ \E n \in Transient : CanTransition(m, n) /\ CanTransition(n, t)

\* The statuses of a claimed action whose outcome is not yet on record.
InFlight == {"precondition_check", "executing", "verifying"}
=============================================================================
