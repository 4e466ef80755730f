------------------------------ MODULE MCEvidence ------------------------------
(* Small instances of Evidence. *)
EXTENDS Evidence, TLC
CONSTANTS a, b, c, long

\* A name that is too long is cut to one that another service has.
MCBounded == [n \in {a, b, c, long, None} |-> IF n = long THEN b ELSE n]

Trace(root, client, server) == [root |-> root, client |-> client, server |-> server]
Call == [Blank("trace_search") EXCEPT !.traces = <<Trace(c, a, b)>>, !.batches = <<b, None, c>>]
Service == [Blank("k8s_get") EXCEPT !.kind = "Service", !.name = a,
                !.owners = <<<<"service", a>>>>, !.selector = <<<<c, a>>>>]
Lookup == [Blank("other") EXCEPT !.service = c]
Traces == [Blank("trace_search") EXCEPT
             !.traces = <<Trace(None, None, None), Trace(None, a, long), Trace(c, c, None), Trace(a, a, c)>>]
Object == [Blank("k8s_get") EXCEPT !.kind = "Service", !.name = long, !.owners = <<<<"service", a>>>>,
               !.selector = <<<<b, a>>, <<long, c>>>>]
Lengthy == [Blank("trace_search") EXCEPT !.batches = <<a, b>>]
Dump == [Blank("other") EXCEPT !.service = b]

MCTooLong == Excerpt(Lengthy)
MCLarge == {Traces, Object, Lengthy, Dump}
MCOversized == {Dump}
MCPayloads == MCLarge \cup {Call, Service, Lookup}
Symmetry == Permutations(Threads)
=============================================================================
