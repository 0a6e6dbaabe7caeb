-------------------------- MODULE AutomationGraph --------------------------
(***************************************************************************)
(* The graph of an automation: as it is drawn in the browser's editor, as  *)
(* validateGraph walks it, and as compileGraph puts it in order.  A step   *)
(* of the walk is a call of walk or its return, a step of the sort takes   *)
(* one node; the server works on the copy that the request carries, so     *)
(* nothing is drawn meanwhile.  Ids are numbers, ordered as localeCompare  *)
(* orders them.  An edge drawn twice counts twice and is taken back twice, *)
(* so edges are a set.                                                     *)
(***************************************************************************)
EXTENDS Integers, Sequences, SequencesExt, FiniteSetsExt

CONSTANTS
  NodeIds,      \* ids, naturals
  Types,        \* the types of nodes the editor offers, "trigger" among them
  Connections,  \* the edges a user may draw
  MaxNodes, MaxEdges

ASSUME GraphAssumption ==
  /\ NodeIds \subseteq Nat
  /\ Connections \subseteq [from : NodeIds, to : NodeIds, port : STRING]

VARIABLES
  graph,     \* the nodes, in the order they are listed, and the edges
  stage,     \* drawing, walking, sorting; refused or simulated once it is answered
  errors,    \* codes of the errors found
  roots,     \* triggers that are still to be walked
  path,      \* nodes whose call of walk has not returned, the outermost first
  rest,      \* of each node, the targets its loop has still to walk
  visiting, visited,
  incoming,  \* of each node, its edges from nodes not yet sorted
  ready, sorted

gwalk == <<roots, path, rest, visiting, visited>>
gsort == <<incoming, ready, sorted>>
grvars == <<graph, stage, errors, gwalk, gsort>>

-----------------------------------------------------------------------------
(* The editor in the browser *)

GraphInit ==
  /\ graph = [nodes |-> <<>>, edges |-> {}]
  /\ stage = "drawing" /\ errors = {}
  /\ roots = {} /\ path = <<>> /\ rest = [n \in NodeIds |-> {}]
  /\ visiting = {} /\ visited = {}
  /\ incoming = [n \in NodeIds |-> 0] /\ ready = {} /\ sorted = <<>>

Draw == stage = "drawing" /\ UNCHANGED <<stage, errors, gwalk, gsort>>

AddNode(id, type) ==
  /\ Draw /\ Len(graph.nodes) < MaxNodes
  /\ graph' = [graph EXCEPT !.nodes = Append(@, [id |-> id, type |-> type])]

Connect(edge) ==
  /\ Draw /\ Cardinality(graph.edges) < MaxEdges
  /\ graph' = [graph EXCEPT !.edges = @ \cup {edge}]

\* The first node of that id and its neighbour, if there is one, change places.
MoveNode(id, delta) ==
  LET places == {i \in DOMAIN graph.nodes : graph.nodes[i].id = id}
  IN /\ Draw /\ places # {}
     /\ LET i == Min(places)
            j == i + delta
        IN /\ j \in DOMAIN graph.nodes
           /\ graph' = [graph EXCEPT !.nodes[i] = graph.nodes[j], !.nodes[j] = graph.nodes[i]]

\* The nodes of another id stay, in their order.
RemoveNode(id) ==
  LET kept == {i \in DOMAIN graph.nodes : graph.nodes[i].id # id}
  IN /\ Draw
     /\ \E place \in [1 .. Cardinality(kept) -> kept] :
          /\ \A i, j \in DOMAIN place : i < j => place[i] < place[j]
          /\ graph' = [nodes |-> [i \in DOMAIN place |-> graph.nodes[place[i]]],
                       edges |-> {e \in graph.edges : e.from # id /\ e.to # id}]

-----------------------------------------------------------------------------
(* normalizeGraph and the checks of validateGraph that look at one node or edge *)

Supported == {"trigger", "action"}

Ids(g) == {n.id : n \in Range(g.nodes)}

Triggers(g) == {n.id : n \in {m \in Range(g.nodes) : m.type = "trigger"}}

AllSupported(g) == \A n \in Range(g.nodes) : n.type \in Supported

Normal(g) == AllSupported(g) /\ Cardinality(Ids(g)) = Len(g.nodes)

EdgeFault(g, e) ==
  IF e.from \notin Ids(g) THEN "GRAPH_EDGE_SOURCE_UNKNOWN"
  ELSE IF e.to \notin Ids(g) THEN "GRAPH_EDGE_TARGET_UNKNOWN"
  ELSE IF e.port # "next" THEN "GRAPH_PORT_INVALID" ELSE "none"

Codes ==
  {"GRAPH_NODE_TYPE_UNSUPPORTED", "GRAPH_NODE_ID_DUPLICATE", "GRAPH_TRIGGER_COUNT_INVALID",
   "GRAPH_EDGE_SOURCE_UNKNOWN", "GRAPH_EDGE_TARGET_UNKNOWN", "GRAPH_PORT_INVALID",
   "GRAPH_CYCLE", "GRAPH_NODE_UNREACHABLE"}

\* An edge with an error leads nowhere.
Targets(g, id) == {e.to : e \in {f \in g.edges : f.from = id /\ EdgeFault(g, f) = "none"}}

Faults(g) ==
  {f \in {EdgeFault(g, e) : e \in g.edges} : f # "none"}
    \cup (IF Cardinality(Triggers(g)) = 1 THEN {} ELSE {"GRAPH_TRIGGER_COUNT_INVALID"})

Submit ==
  /\ stage = "drawing"
  /\ \/ /\ Normal(graph)
        /\ stage' = "walking" /\ errors' = Faults(graph)
        /\ roots' = Triggers(graph)
        /\ rest' = [n \in NodeIds |-> Targets(graph, n)]
     \/ /\ ~ Normal(graph)
        /\ stage' = "refused"
        /\ errors' = {IF AllSupported(graph) THEN "GRAPH_NODE_ID_DUPLICATE"
                      ELSE "GRAPH_NODE_TYPE_UNSUPPORTED"}
        /\ UNCHANGED <<roots, rest>>
  /\ UNCHANGED <<graph, path, visiting, visited, gsort>>

-----------------------------------------------------------------------------
(* The walk of validateGraph: depth first, from each trigger *)

\* A call of walk: to meet a node that is being visited is a cycle.
Walk(id) ==
  \/ /\ id \in visiting
     /\ errors' = errors \cup {"GRAPH_CYCLE"}
     /\ UNCHANGED <<path, visiting>>
  \/ /\ id \notin visiting /\ id \in visited
     /\ UNCHANGED <<errors, path, visiting>>
  \/ /\ id \notin visiting /\ id \notin visited
     /\ visiting' = visiting \cup {id} /\ path' = Append(path, id)
     /\ UNCHANGED errors

WalkRoot ==
  /\ stage = "walking" /\ path = <<>>
  /\ \E id \in roots : roots' = roots \ {id} /\ Walk(id)
  /\ UNCHANGED <<graph, stage, rest, visited, gsort>>

WalkTarget ==
  /\ stage = "walking" /\ path # <<>>
  /\ \E id \in rest[Last(path)] :
       rest' = [rest EXCEPT ![Last(path)] = @ \ {id}] /\ Walk(id)
  /\ UNCHANGED <<graph, stage, roots, visited, gsort>>

\* Return without its visiting.delete, for comparison.
ReturnStillVisiting ==
  /\ stage = "walking" /\ path # <<>> /\ rest[Last(path)] = {}
  /\ visited' = visited \cup {Last(path)} /\ path' = Front(path)
  /\ UNCHANGED <<graph, stage, errors, roots, rest, visiting, gsort>>

Return ==
  /\ stage = "walking" /\ path # <<>> /\ rest[Last(path)] = {}
  /\ visiting' = visiting \ {Last(path)}
  /\ visited' = visited \cup {Last(path)}
  /\ path' = Front(path)
  /\ UNCHANGED <<graph, stage, errors, roots, rest, gsort>>

\* The edges of the other end, for comparison.
OutDegree(g, id) == Cardinality({e \in g.edges : e.from = id})

Degree(g, id) == Cardinality({e \in g.edges : e.to = id})

\* The walk is over: nodes it did not visit are errors; without an error, topologicalNodes begins.
Judge ==
  /\ stage = "walking" /\ path = <<>> /\ roots = {}
  /\ errors' = errors \cup (IF Ids(graph) \subseteq visited THEN {} ELSE {"GRAPH_NODE_UNREACHABLE"})
  /\ \/ /\ errors' # {} /\ stage' = "refused"
        /\ UNCHANGED gsort
     \/ /\ errors' = {} /\ stage' = "sorting"
        /\ incoming' = [n \in NodeIds |-> Degree(graph, n)]
        /\ ready' = {n \in Ids(graph) : incoming'[n] = 0}
        /\ UNCHANGED sorted
  /\ UNCHANGED <<graph, gwalk>>

-----------------------------------------------------------------------------
(* topologicalNodes and simulateGraph *)

\* The smallest of the ready nodes comes next, and its targets lose an incoming edge.
Take ==
  /\ stage = "sorting" /\ ready # {}
  /\ LET node == Min(ready)
         targets == Targets(graph, node)
     IN /\ sorted' = Append(sorted, node)
        /\ incoming' = [n \in NodeIds |-> IF n \in targets THEN incoming[n] - 1 ELSE incoming[n]]
        /\ ready' = (ready \ {node}) \cup {n \in targets : incoming'[n] = 0}
  /\ UNCHANGED <<graph, stage, errors, gwalk>>

Report ==
  /\ stage = "sorting" /\ ready = {}
  /\ stage' = "simulated"
  /\ UNCHANGED <<graph, errors, gwalk, gsort>>

Simulate(g, order) ==
  [i \in DOMAIN order |-> [node |-> order[i],
                           outcome |-> IF order[i] \in Triggers(g) THEN "evaluated"
                                       ELSE "would_execute"]]

\* The request is answered; its locals are gone, and the author draws on.
Answer ==
  /\ stage \in {"refused", "simulated"}
  /\ stage' = "drawing" /\ errors' = {}
  /\ roots' = {} /\ path' = <<>> /\ rest' = [n \in NodeIds |-> {}]
  /\ visiting' = {} /\ visited' = {}
  /\ incoming' = [n \in NodeIds |-> 0] /\ ready' = {} /\ sorted' = <<>>
  /\ UNCHANGED graph

GraphNext ==
  \/ \E id \in NodeIds, type \in Types : AddNode(id, type)
  \/ \E edge \in Connections : Connect(edge)
  \/ \E id \in NodeIds, delta \in {-1, 1} : MoveNode(id, delta)
  \/ \E id \in NodeIds : RemoveNode(id)
  \/ Submit \/ WalkRoot \/ WalkTarget \/ Return \/ Judge \/ Take \/ Report \/ Answer

GraphSpec == GraphInit /\ [][GraphNext]_grvars

-----------------------------------------------------------------------------
GraphTypeOK ==
  /\ graph \in [nodes : Seq([id : NodeIds, type : Types]), edges : SUBSET Connections]
  /\ stage \in {"drawing", "walking", "sorting", "refused", "simulated"}
  /\ errors \subseteq Codes
  /\ roots \subseteq NodeIds /\ path \in Seq(NodeIds) /\ rest \in [NodeIds -> SUBSET NodeIds]
  /\ visiting \subseteq NodeIds /\ visited \subseteq NodeIds
  /\ incoming \in [NodeIds -> Nat] /\ ready \subseteq NodeIds /\ sorted \in Seq(NodeIds)

\* There is a path of one edge or more from a to b: b is in every set of nodes that has
\* the targets of a and of each node in it.
Leads(g, a, b) ==
  \A S \in SUBSET Ids(g) :
    Targets(g, a) \subseteq S /\ (\A n \in S : Targets(g, n) \subseteq S) => b \in S

Reached(g) == {n \in Ids(g) : \E t \in Triggers(g) : n = t \/ Leads(g, t, n)}

ProperGraph(g) ==
  /\ AllSupported(g)
  /\ \A i, j \in DOMAIN g.nodes : g.nodes[i].id = g.nodes[j].id => i = j
  /\ \A e \in g.edges : {e.from, e.to} \subseteq Ids(g) /\ e.port = "next"
  /\ \E t \in Ids(g) : Triggers(g) = {t}
  /\ Reached(g) = Ids(g)
  /\ \A n \in Ids(g) : ~ Leads(g, n, n)

\* The validation refuses what it should and nothing else, in whatever order the graph was
\* drawn and is walked; it reports a cycle when a trigger leads to one, and an unreachable
\* node when there is one.
ValidationIsExact ==
  stage \in {"refused", "sorting", "simulated"} =>
    /\ stage = "refused" <=> ~ ProperGraph(graph)
    /\ Normal(graph) =>
         /\ "GRAPH_CYCLE" \in errors <=> \E n \in Reached(graph) : Leads(graph, n, n)
         /\ "GRAPH_NODE_UNREACHABLE" \in errors <=> Reached(graph) # Ids(graph)

\* Of a graph that is accepted, the simulation reports each node once, the trigger first,
\* no node before one that leads to it, and of two nodes the smaller first unless the
\* other had to come before it: the same trace however the graph was drawn.
SimulationIsOrdered ==
  stage = "simulated" =>
    LET trace == Simulate(graph, sorted)
    IN /\ Len(trace) = Len(graph.nodes)
       /\ {trace[i].node : i \in DOMAIN trace} = Ids(graph)
       /\ trace[1].outcome = "evaluated"
       /\ \A i, j \in DOMAIN trace :
            /\ Leads(graph, trace[i].node, trace[j].node) => i < j
            /\ i < j /\ trace[j].node < trace[i].node =>
                 \E k \in i .. (j - 1) : trace[j].node \in Targets(graph, trace[k].node)
=============================================================================
