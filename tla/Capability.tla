------------------------------ MODULE Capability ------------------------------
(***************************************************************************)
(* Capability descriptors (extensions/capability.rs) and what the policy   *)
(* makes of them (policy/mod.rs). An Option of the code is a set with at   *)
(* most one element.                                                       *)
(***************************************************************************)
EXTENDS Naturals

Effects == {"observe", "change_reversible", "change_irreversible", "external_side_effect"}
Recoveries == {"none_needed", "idempotent", "needs_reconciliation"}

Rank == [observe |-> 0, change_reversible |-> 1, change_irreversible |-> 2,
         external_side_effect |-> 3]

\* CapabilityEffect::strictest; nothing at all counts as the last one.
Strictest(effects) ==
    IF effects = {} THEN "external_side_effect"
    ELSE CHOOSE e \in effects : \A f \in effects : Rank[f] <= Rank[e]

\* apply_strictest. Faulty form first: the override replaces the declaration.
OverrideOnly(effect, local) == IF local = {} THEN effect ELSE Strictest(local)
EffectWith(effect, local) == Strictest({effect} \cup local)

\* enforce_workspace_ceiling.
WithinCeiling(effect, ceiling) == \A max \in ceiling : Rank[effect] <= Rank[max]

\* evaluate_capability, for what is not built in (and enabled).
Decision(effect, trusted) ==
    CASE effect = "observe" -> "allow"
      [] effect = "external_side_effect" /\ trusted -> "ask"
      [] OTHER -> "deny"
=============================================================================
