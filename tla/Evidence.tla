------------------------------- MODULE Evidence -------------------------------
(***************************************************************************)
(* What tools return on its way into the log: a large result is stored as  *)
(* an artifact, named by its digest, and the log keeps a reference and an  *)
(* excerpt (AgentRuntime::emit_tool_result, evidence/artifact.rs); the     *)
(* topology is computed from the log whenever it is asked for. The threads *)
(* of a workspace share its artifacts; the process may die in a write.     *)
(***************************************************************************)
EXTENDS Topology

CONSTANTS Threads,
          Payloads,    \* what tools may return
          Large,       \* those above inline_artifact_bytes
          Oversized,   \* those above the quota of an artifact
          Alerts,      \* services named by messages
          MaxEvents,   \* bound: entries of all logs
          MaxClock,    \* bound: time
          MaxFaults    \* bound: crashes and failed writes

ASSUME EvidenceAssumption == /\ Oversized \subseteq Large /\ Large \subseteq Payloads
                             /\ Payloads \subseteq Results /\ Alerts \subseteq Names

VARIABLES log,      \* entries of each thread
          task,     \* [at, payload] of the turn of each thread
          artifact, \* the file of each digest: "none", "part" or "whole"
          clock,
          nextId,   \* history: the next evidence id
          cut,      \* history: artifacts whose write broke off
          faults    \* history: crashes and failed writes so far

vars == <<log, task, artifact, clock, nextId, cut, faults>>

Idle == [at |-> "idle", payload |-> {}]

TypeOK ==
    /\ \A t \in Threads :
          /\ task[t].at \in {"idle", "check", "open", "write", "emit"}
          /\ task[t].payload \subseteq Payloads
          /\ \A i \in DOMAIN log[t] : log[t][i].at \in 0..clock
    /\ artifact \in [Large -> {"none", "part", "whole"}]
    /\ nextId \in 1..(MaxEvents + 1) /\ cut \subseteq Large /\ faults \in 0..MaxFaults

Init ==
    /\ log = [t \in Threads |-> <<>>]
    /\ task = [t \in Threads |-> Idle]
    /\ artifact = [d \in Large |-> "none"]
    /\ clock = 0 /\ nextId = 1 /\ cut = {} /\ faults = 0

At(t, where) == task[t].at = where
Payload(t) == CHOOSE p \in task[t].payload : TRUE
Go(t, where) == task' = [task EXCEPT ![t].at = where]
Written == Cardinality(UNION {{<<t, i>> : i \in DOMAIN log[t]} : t \in Threads})

-----------------------------------------------------------------------------
(* Entries of the log: `content` is the whole result, which only an inline   *)
(* result keeps; `shows` is what the topology finds of it.                   *)

Entry(content, shows, evidence, alert) ==
    [content |-> content, shows |-> shows, evidence |-> evidence, alert |-> alert, at |-> clock]
AppendEntry(t, e) ==
    /\ Written < MaxEvents
    /\ log' = [log EXCEPT ![t] = Append(@, e)]

UserMessage(t, service) ==
    /\ At(t, "idle")
    /\ AppendEntry(t, Entry({}, {}, {}, service))
    /\ UNCHANGED <<task, artifact, clock, nextId, cut, faults>>

ToolFailed(t) ==
    /\ At(t, "idle")
    /\ AppendEntry(t, Entry({}, {}, {}, None))
    /\ UNCHANGED <<task, artifact, clock, nextId, cut, faults>>

-----------------------------------------------------------------------------
(* emit_tool_result after a success. *)

ToolReturned(t, p) ==
    /\ At(t, "idle") /\ Written < MaxEvents
    /\ task' = [task EXCEPT ![t] = [at |-> IF p \in Large THEN "check" ELSE "emit", payload |-> {p}]]
    /\ UNCHANGED <<log, artifact, clock, nextId, cut, faults>>

\* put_in: over the quota the turn fails and leaves no result; a file that
\* exists is taken for complete. Faulty form first: over the quota the reference
\* is handed out all the same.
PutUnder(t, refused) ==
    /\ At(t, "check")
    /\ \/ /\ Payload(t) \in Oversized
          /\ task' = [task EXCEPT ![t] = refused]
       \/ /\ Payload(t) \notin Oversized
          /\ Go(t, IF artifact[Payload(t)] = "none" THEN "open" ELSE "emit")
    /\ UNCHANGED <<log, artifact, clock, nextId, cut, faults>>
PutInDroppingBytes(t) == PutUnder(t, [task[t] EXCEPT !.at = "emit"])
PutIn(t) == PutUnder(t, Idle)

\* fs::write empties the file, whoever has created it since the check, ...
OpenArtifact(t) ==
    /\ At(t, "open")
    /\ artifact' = [artifact EXCEPT ![Payload(t)] = "part"]
    /\ Go(t, "write")
    /\ UNCHANGED <<log, clock, nextId, cut, faults>>

\* ... and fills it; a part of what is written may be lost to another opening.
Writers(d) == {t \in Threads : At(t, "write") /\ Payload(t) = d}
WriteArtifact(t) ==
    /\ At(t, "write")
    /\ \E content \in {"whole"} \cup (IF Writers(Payload(t)) = {t} THEN {} ELSE {"part"}) :
          artifact' = [artifact EXCEPT ![Payload(t)] = content]
    /\ Go(t, "emit")
    /\ UNCHANGED <<log, clock, nextId, cut, faults>>

WriteFails(t) ==
    /\ At(t, "write") /\ faults < MaxFaults
    /\ task' = [task EXCEPT ![t] = Idle]
    /\ cut' = cut \cup {Payload(t)}
    /\ faults' = faults + 1
    /\ UNCHANGED <<log, artifact, clock, nextId>>

\* finalize_evidence gives the result its id; a result that is stored as an
\* artifact shows its excerpt, another one everything.
EmitToolCompleted(t) ==
    LET p == Payload(t)
        shows == IF p \in Large THEN ArtifactTopologyProjection(p) ELSE {p}
    IN  /\ At(t, "emit")
        /\ AppendEntry(t, Entry({p}, shows, {nextId}, None))
        /\ task' = [task EXCEPT ![t] = Idle]
        /\ nextId' = nextId + 1
        /\ UNCHANGED <<artifact, clock, cut, faults>>

Crash ==
    /\ faults < MaxFaults
    /\ \E t \in Threads : ~At(t, "idle")
    /\ task' = [t \in Threads |-> Idle]
    /\ cut' = cut \cup {d \in Large : Writers(d) # {}}
    /\ faults' = faults + 1
    /\ UNCHANGED <<log, artifact, clock, nextId>>

Tick ==
    /\ clock < MaxClock
    /\ clock' = clock + 1
    /\ UNCHANGED <<log, task, artifact, nextId, cut, faults>>

Next ==
    \/ \E t \in Threads :
          \/ ToolFailed(t) \/ PutIn(t) \/ OpenArtifact(t) \/ WriteArtifact(t)
          \/ WriteFails(t) \/ EmitToolCompleted(t)
          \/ \E s \in Alerts : UserMessage(t, s)
          \/ \E p \in Payloads : ToolReturned(t, p)
    \/ Crash \/ Tick

Spec == Init /\ [][Next]_vars

-----------------------------------------------------------------------------
(* Properties. *)

\* What get_in finds under a digest.
GetIn(d) == artifact[d]

\* A reference in the log leads to its artifact: never to nothing, and to a part
\* of it only while somebody is writing the same content, or after such a write
\* broke off (put_in takes any file for complete, whichever thread began it).
ReferencesResolve ==
    \A t \in Threads : \A e \in ToSet(log[t]) : \A p \in e.content \cap Large :
        /\ GetIn(p) # "none"
        /\ GetIn(p) = "part" => p \in cut \/ Writers(p) # {}

\* The relations a result shows, as a set: the reference for the graph.
Relations(p) ==
    LET services == Where(p.batches, LAMBDA s : s # None)
    IN  {<<o, <<p.kind, p.name>>, "owns">> : o \in IF p.name = None THEN {} ELSE ToSet(p.owners)}
        \cup {<<<<p.kind, p.name>>, <<"selector", s>>, "selects">> :
                 s \in IF p.kind = "Service" /\ p.name # None THEN ToSet(p.selector) ELSE {}}
        \cup {<<<<"service", x.client>>, <<"service", x.server>>, "calls">> :
                 x \in {y \in ToSet(p.traces) : None \notin {y.client, y.server}}}
        \cup {<<<<"service", services[i]>>, <<"service", services[i + 1]>>, "calls">> :
                 i \in 1..(Len(services) - 1)}

Shorten(id) == <<id[1], Bounded[id[2]]>>
ShortenSelector(id) == <<id[1], <<Bounded[id[2][1]], Bounded[id[2][2]]>>>>
ShortenRelation(r) == <<Shorten(r[1]), IF r[3] = "selects" THEN ShortenSelector(r[2]) ELSE Shorten(r[2]), r[3]>>
\* Of an artifact the names are shortened, and it counts as a whole only within
\* the limits of the excerpt: its items, its length, and no two keys cut to one.
RelationsOf(e) == UNION {IF p \in Large THEN {ShortenRelation(r) : r \in Relations(p)}
                         ELSE Relations(p) : p \in e.content}
Complete(e) ==
    \A p \in e.content \cap Large :
        /\ \A s \in {p.owners, p.selector, p.traces, p.batches} : Len(s) <= MaxProjected
        /\ \A i, j \in DOMAIN p.selector : Bounded[p.selector[i][1]] = Bounded[p.selector[j][1]] => i = j
        /\ Excerpt(p) \cap TooLong = {}

\* The graph is what was seen, however results were stored: every edge names
\* results that show this relation, every relation of a result that was kept
\* whole is an edge that names it, and nothing is in the graph twice
\* (project_topology, upsert_node, push_edge over artifact_topology_projection).
GraphIsWhatWasSeen ==
    \A t \in Threads :
        LET g == ProjectTopology(log[t], clock)
            Key(e) == <<e.from, e.to, e.relation>>
            edges == ToSet(g.edges)
        IN  /\ Cardinality(NodeIds(g)) = Len(g.nodes)
            /\ Cardinality({Key(e) : e \in edges}) = Len(g.edges)
            /\ \A e \in edges : {e.from, e.to} \subseteq NodeIds(g) /\ e.evidence # {}
            /\ \A e \in edges : \A v \in e.evidence :
                  \E x \in ToSet(log[t]) : x.evidence = {v} /\ Key(e) \in RelationsOf(x)
            /\ \A x \in ToSet(log[t]) : Complete(x) =>
                  \A r \in RelationsOf(x) : \E e \in edges : Key(e) = r /\ x.evidence \subseteq e.evidence

\* Whatever shows a relation is evidence for both its ends, so the search starts
\* from every node that has an edge: a query at the default depth that asks for
\* stale edges too returns the nodes with evidence that were seen first, as many
\* as it may, with the edges between them, and a service that only an alert
\* names when there are no others (query_topology over project_topology).
QueryIsFirstSeen ==
    \A t \in Threads :
        LET g == ProjectTopology(log[t], clock)
            seeds == Seeds(g)
        IN  \A limit \in 1..3 :
                LET q == QueryTopology(g, DefaultDepth, limit, TRUE, clock)
                    first == SubSeq(seeds, 1, IF Len(seeds) < limit THEN Len(seeds) ELSE limit)
                IN  /\ Each(q.nodes, LAMBDA n : n.id) = first
                    /\ q.edges = Where(g.edges, LAMBDA e : {e.from, e.to} \subseteq ToSet(first))

\* An edge whose last observation is older than its time to live is not in the
\* answer (docs/phases/v0.3-runtime-workspace.md: expired edges do not enter the
\* model's context).
ExpiredEdgesHidden ==
    \A t \in Threads :
        LET q == QueryTopology(ProjectTopology(log[t], clock), DefaultDepth, 3, FALSE, clock)
        IN  \A e \in ToSet(q.edges) :
                \E x \in ToSet(log[t]) : x.evidence \subseteq e.evidence /\ x.evidence # {} /\ x.at + Ttl > clock
=============================================================================
