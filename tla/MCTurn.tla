------------------------------- MODULE MCTurn -------------------------------
(* Small instances of Turn for TLC. *)
EXTENDS Turn

\* e1, e2: exec, asked for and never retried.  o1: a query, allowed and retried.
\* w1: a trusted local tool that says it is idempotent, asked for and retried.
\* d1: a change, denied.
CONSTANTS e1, e2, o1, w1, d1

Exec == [enabled |-> TRUE, effect |-> "external_side_effect", recovery |-> "unset",
         builtinExec |-> TRUE, trustedLocal |-> FALSE]
Query == [enabled |-> TRUE, effect |-> "observe", recovery |-> "none_needed",
          builtinExec |-> FALSE, trustedLocal |-> FALSE]
Webhook == [enabled |-> TRUE, effect |-> "external_side_effect", recovery |-> "idempotent",
            builtinExec |-> FALSE, trustedLocal |-> TRUE]
Change == [enabled |-> TRUE, effect |-> "change_reversible", recovery |-> "unset",
           builtinExec |-> FALSE, trustedLocal |-> FALSE]

MCTool == [c \in Calls |-> CASE c \in {e1, e2} -> Exec [] c = o1 -> Query
                             [] c = w1 -> Webhook [] c = d1 -> Change]

\* Every call asks for something else.
Distinct == [c \in Calls |-> c]

\* The model makes the same exec call twice.
Repeated == [c \in Calls |-> IF c = e2 THEN e1 ELSE c]
=============================================================================
