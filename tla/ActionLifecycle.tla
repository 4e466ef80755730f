--------------------------- MODULE ActionLifecycle ---------------------------
(***************************************************************************)
(* What remediation promises of every action, with no store, request or    *)
(* network in sight: its status only moves along the status machine, a     *)
(* final status stays, and the one change request it may ever send to its  *)
(* target leaves while the action is on record as executing.               *)
(***************************************************************************)
EXTENDS ActionStatus, Naturals

CONSTANT ActionIds

VARIABLES status,  \* the recorded status of every action
          sent     \* how many change requests were sent for it

lifecycleVars == <<status, sent>>

Init == /\ status = [a \in ActionIds |-> "absent"]
        /\ sent = [a \in ActionIds |-> 0]

Move(a) == /\ \E t \in Statuses : /\ StoreMove(status[a], t)
                                  /\ status' = [status EXCEPT ![a] = t]
           /\ UNCHANGED sent

Send(a) == /\ status[a] = "executing"
           /\ sent[a] = 0
           /\ sent' = [sent EXCEPT ![a] = 1]
           /\ UNCHANGED status

Next == \E a \in ActionIds : Move(a) \/ Send(a)

Spec == Init /\ [][Next]_lifecycleVars
=============================================================================
