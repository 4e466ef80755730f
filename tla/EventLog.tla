------------------------------- MODULE EventLog -------------------------------
(***************************************************************************)
(* What an event store promises its readers, whichever back end keeps the  *)
(* threads: a thread's log grows by one event at a time, at its end, and   *)
(* the event gets the next sequence number. Nothing is changed or lost.    *)
(***************************************************************************)
EXTENDS Naturals, Sequences

CONSTANTS Threads, Ids    \* thread ids, identities of events
VARIABLE entries          \* the events a reader of each thread gets

Init == entries = [t \in Threads |-> <<>>]
Add(t, i, c) == entries' = [entries EXCEPT ![t] =
                    Append(@, [seq |-> Len(@) + 1, id |-> i, created |-> c])]
Next == \E t \in Threads, i \in Ids, c \in BOOLEAN : Add(t, i, c)
Spec == Init /\ [][Next]_entries
=============================================================================
