------------------------------- MODULE Topology -------------------------------
(***************************************************************************)
(* The service topology of a thread (topology.rs): a graph folded from the *)
(* tool results and messages of its log, the excerpt of a large result     *)
(* that stays in the log for this purpose, and the bounded query over the  *)
(* graph. An Option of the code is a set with at most one element.         *)
(***************************************************************************)
EXTENDS Selections, FiniteSets, SequencesExt

CONSTANTS None,          \* a name that is missing
          Bounded,       \* bounded_string: a function on names
          MaxProjected,  \* MAX_ARTIFACT_PROJECTION_ITEMS
          TooLong,       \* excerpts above MAX_ARTIFACT_PROJECTION_BYTES when encoded
          Ttl            \* DEFAULT_TTL_MINUTES

\* A name that is cut is still a name; one that is missing is still missing.
Names == DOMAIN Bounded
ASSUME TopologyAssumption ==
    /\ MaxProjected \in Nat \ {0} /\ Ttl \in Nat \ {0}
    /\ Bounded \in [Names -> Names] /\ None \in Names
    /\ \A n \in Names : Bounded[n] = None <=> n = None

\* What a tool returned, as far as the topology looks at it: an object with its
\* owners and the keys and labels it selects by, in the order of the keys, traces
\* and the services of spans, or a service. What the tool does not return is
\* missing. Kinds are never cut: Kubernetes has none of more than 63 characters.
Results ==
    [tool : {"k8s_get"}, kind : STRING, name : Names,
     owners : Seq(STRING \X (Names \ {None})), selector : Seq((Names \ {None}) \X (Names \ {None})),
     traces : {<<>>}, batches : {<<>>}, service : {None}]
    \cup [tool : {"trace_search"}, kind : {None}, name : {None}, owners : {<<>>}, selector : {<<>>},
          traces : Seq([root : Names, client : Names, server : Names]), batches : Seq(Names), service : {None}]
    \cup [tool : {"other"}, kind : {None}, name : {None}, owners : {<<>>}, selector : {<<>>},
          traces : {<<>>}, batches : {<<>>}, service : Names]
Blank(tool) == [tool |-> tool, kind |-> None, name |-> None, owners |-> <<>>, selector |-> <<>>,
                traces |-> <<>>, batches |-> <<>>, service |-> None]

-----------------------------------------------------------------------------
(* Building the graph. A node's id is its kind and its name; that of a       *)
(* selector ("key=label") is the pair of both.                               *)

NoGraph == [nodes |-> <<>>, edges |-> <<>>]

UpsertNode(g, id, evidence) ==
    LET i == SelectInSeq(g.nodes, LAMBDA n : n.id = id)
    IN  IF i = 0 THEN [g EXCEPT !.nodes = Append(@, [id |-> id, evidence |-> evidence])]
        ELSE [g EXCEPT !.nodes[i].evidence = @ \cup evidence]

Edge(from, to, relation, source, evidence, now) ==
    [from |-> from, to |-> to, relation |-> relation, source |-> source,
     evidence |-> evidence, expires |-> now + Ttl]
SameEdge(a, b) == a.from = b.from /\ a.to = b.to /\ a.relation = b.relation /\ a.source = b.source

\* An edge takes the place of the one it repeats.
PutEdge(g, e) ==
    LET i == SelectInSeq(g.edges, LAMBDA f : SameEdge(e, f))
    IN  IF i = 0 THEN [g EXCEPT !.edges = Append(@, e)] ELSE [g EXCEPT !.edges[i] = e]
\* Faulty form of the next: the latest evidence takes the place of the others.
PushEdgeLatest(g, e) == PutEdge(g, e)
PushEdge(g, e) ==
    LET repeated == {f \in ToSet(g.edges) : SameEdge(e, f)}
    IN  PutEdge(g, [e EXCEPT !.evidence = @ \cup UNION {f.evidence : f \in repeated}])

\* What a result or a message shows, in the order the code meets it: a node, an
\* edge, or a node and then an edge. An edge comes with its ends.
Sight(node, edge, evidence) == [node |-> node, edge |-> edge, evidence |-> evidence]
The(option) == CHOOSE x \in option : TRUE

Relate(g, e) == PushEdge(UpsertNode(UpsertNode(g, e.from, e.evidence), e.to, e.evidence), e)
Observe(g, s) ==
    LET h == IF s.node = {} THEN g ELSE UpsertNode(g, The(s.node), s.evidence)
    IN  IF s.edge = {} THEN h ELSE Relate(h, The(s.edge))

Each(s, Op(_)) == [i \in DOMAIN s |-> Op(s[i])]

ProjectK8sObject(p, evidence, now) ==
    LET node == <<p.kind, p.name>>
        Related(from, to, relation) ==
            Sight({}, {Edge(from, to, relation, "kubernetes", evidence, now)}, evidence)
        owns == Each(p.owners, LAMBDA o : Related(o, node, "owns"))
        selects == Each(p.selector, LAMBDA s : Related(node, <<"selector", s>>, "selects"))
    IN  IF p.name = None THEN <<>>
        ELSE <<Sight({node}, {}, evidence)>> \o owns \o IF p.kind = "Service" THEN selects ELSE <<>>

\* Services of one trace that follow each other call each other.
Windows(s) == IF s = <<>> THEN <<>> ELSE [i \in 1..(Len(s) - 1) |-> <<s[i], s[i + 1]>>]
ProjectTrace(p, evidence, now) ==
    LET Call(from, to) == Edge(<<"service", from>>, <<"service", to>>, "calls", "trace", evidence, now)
        Trace(t) == Sight(IF t.root = None THEN {} ELSE {<<"service", t.root>>},
                          IF None \in {t.client, t.server} THEN {} ELSE {Call(t.client, t.server)},
                          evidence)
        services == Where(p.batches, LAMBDA s : s # None)
        calls == Each(Windows(services), LAMBDA w : Sight({}, {Call(w[1], w[2])}, evidence))
    IN  Each(p.traces, Trace) \o calls

ProjectService(service, evidence) ==
    IF service = None THEN <<>> ELSE <<Sight({<<"service", service>>}, {}, evidence)>>

ProjectPayload(p, evidence, now) ==
    CASE p.tool = "k8s_get" -> ProjectK8sObject(p, evidence, now)
      [] p.tool = "trace_search" -> ProjectTrace(p, evidence, now)
      [] OTHER -> ProjectService(p.service, evidence)

\* An entry of the log: what it shows (nothing, if the tool failed), its evidence
\* id, the service a message's alert names.
Sights(e, now) ==
    (IF e.shows = {} THEN <<>> ELSE ProjectPayload(The(e.shows), e.evidence, now))
    \o ProjectService(e.alert, {})
ProjectEntry(g, e, now) == FoldLeft(Observe, g, Sights(e, now))

\* source_rank: edges of traces come first. What the code orders by name besides
\* stays as it is.
SortEdges(edges) == Where(edges, LAMBDA e : e.source = "trace")
                    \o Where(edges, LAMBDA e : e.source # "trace")

ProjectTopology(log, now) ==
    LET g == FoldLeft(LAMBDA a, e : ProjectEntry(a, e, now), NoGraph, log)
    IN  [g EXCEPT !.edges = SortEdges(@)]

-----------------------------------------------------------------------------
(* The excerpt of a result that is stored as an artifact. *)

Take(s) == SubSeq(s, 1, IF Len(s) < MaxProjected THEN Len(s) ELSE MaxProjected)

TraceArtifactProjection(p) ==
    LET Cut(t) == [root |-> Bounded[t.root], client |-> Bounded[t.client], server |-> Bounded[t.server]]
        traces == Take(Where(p.traces, LAMBDA t : {t.root, t.client, t.server} # {None}))
        batches == Take(Where(p.batches, LAMBDA s : s # None))
    IN  IF traces = <<>> /\ batches = <<>> THEN {}
        ELSE {[p EXCEPT !.traces = Each(traces, Cut), !.batches = Each(batches, LAMBDA s : Bounded[s])]}

\* The excerpt has a map of selectors: of keys that are the same once they are
\* cut, the last one stays.
Collect(pairs) ==
    LET Stays(i) == \A j \in DOMAIN pairs : j > i => pairs[j][1] # pairs[i][1]
    IN  Keep(pairs, {i \in DOMAIN pairs : Stays(i)})

K8sArtifactProjection(p) ==
    IF p.name = None THEN {}
    ELSE {[p EXCEPT !.name = Bounded[@],
                    !.owners = Each(Take(@), LAMBDA o : <<o[1], Bounded[o[2]]>>),
                    !.selector = Collect(Each(Take(@), LAMBDA s : <<Bounded[s[1]], Bounded[s[2]]>>))]}

Excerpt(p) ==
    CASE p.tool = "trace_search" -> TraceArtifactProjection(p)
      [] p.tool = "k8s_get" -> K8sArtifactProjection(p)
      [] OTHER -> {}

\* An excerpt that is too long is dropped as a whole.
ArtifactTopologyProjection(p) == Excerpt(p) \ TooLong

-----------------------------------------------------------------------------
(* The query: from the nodes that have evidence, breadth first, up to a      *)
(* distance and a number of nodes. The order of a node's neighbours is that  *)
(* of their names, which the model leaves open.                              *)

NodeIds(g) == {n.id : n \in ToSet(g.nodes)}
Neighbours(g, id) == {e.to : e \in {f \in ToSet(g.edges) : f.from = id}}
                     \cup {e.from : e \in {f \in ToSet(g.edges) : f.to = id}}

Seeds(g) ==
    LET evidenced == Where(g.nodes, LAMBDA n : n.evidence # {})
    IN  Each(IF evidenced = <<>> THEN g.nodes ELSE evidenced, LAMBDA n : n.id)

\* One turn of the loop; s.queue holds nodes with their distances. Faulty form
\* first: the newest node of the queue is taken.
Visit(g, s, depth, i) ==
    LET id == s.queue[i].id
        distance == s.queue[i].distance
        new == IF distance >= depth THEN {} ELSE Neighbours(g, id) \ s.seen
    IN  [kept |-> s.kept \cup {id},
         seen |-> s.seen \cup new,
         queue |-> RemoveAt(s.queue, i) \o Each(SetToSeq(new), LAMBDA n : [id |-> n, distance |-> distance + 1])]
VisitNewest(g, s, depth) == Visit(g, s, depth, Len(s.queue))
VisitNext(g, s, depth) == Visit(g, s, depth, 1)

Kept(g, depth, maxNodes) ==
    LET seeds == Seeds(g)
        start == [kept |-> {}, seen |-> ToSet(seeds),
                  queue |-> Each(seeds, LAMBDA id : [id |-> id, distance |-> 0])]
        Loop(s, i) == IF s.queue = <<>> \/ Cardinality(s.kept) >= maxNodes THEN s
                      ELSE VisitNext(g, s, depth)
    IN  FoldLeft(Loop, start, g.nodes).kept

DefaultDepth == 2
AtLeastOne(n) == IF n = 0 THEN 1 ELSE n

QueryTopology(graph, depth, maxNodes, includeStale, now) ==
    LET current == [graph EXCEPT !.edges = Where(@, LAMBDA e : includeStale \/ e.expires > now)]
        allowed == Kept(current, AtLeastOne(depth), AtLeastOne(maxNodes))
    IN  [nodes |-> Where(current.nodes, LAMBDA n : n.id \in allowed),
         edges |-> Where(current.edges, LAMBDA e : {e.from, e.to} \subseteq allowed)]
=============================================================================
