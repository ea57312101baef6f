---------------------------- MODULE LatticeGraph ----------------------------
(***************************************************************************)
(* The graph functions of the lattice package: what a changed node makes   *)
(* dirty (compute_dirty_propagation), and breaking a cycle of edges        *)
(* (resolve_cycles).  Both walk a list of edges with a work queue; here a  *)
(* step is one round of the loop.  The nodes in a deque come from Python   *)
(* sets, so their order is arbitrary, and queue is the set of them.        *)
(***************************************************************************)
EXTENDS Integers, FiniteSets

CONSTANTS
    GraphNodes,  \* node ids
    NumEdges,    \* length of the list of edges
    Trusts,      \* (serving_confidence, source_confidence) of edges, in their order
    Graphs       \* the lists of edges considered

\* A dependency is an edge of type DEPENDS_ON, DERIVES_FROM or BELONGS_TO.
Edge == [from : GraphNodes, to : GraphNodes, dependency : BOOLEAN,
         trust : Trusts, active : BOOLEAN]
EdgeLists == [1..NumEdges -> Edge]

ASSUME GraphAssumption ==
    /\ GraphNodes # {}
    /\ IsFiniteSet(GraphNodes)
    /\ NumEdges \in Nat
    /\ Trusts \subseteq Int
    /\ Graphs \subseteq EdgeLists

VARIABLES
    edges,     \* the list, changed in place
    pc,        \* the call in progress: "idle", "spread" or "sort"
    changed,   \* changed_node_id
    impacted,  \* the result of compute_dirty_propagation so far
    visited,   \* nodes resolve_cycles has sorted
    indegree,  \* edges into each node from nodes not yet visited
    queue      \* the deque of the call in progress

graphVars == <<edges, pc, changed, impacted, visited, indegree, queue>>

EdgeIds == 1..NumEdges

GraphStart ==
    /\ pc = "idle"
    /\ changed = CHOOSE n \in GraphNodes : TRUE
    /\ impacted = {changed}
    /\ visited = {}
    /\ indegree = [n \in GraphNodes |-> 0]
    /\ queue = {}

GraphInit == edges \in Graphs /\ GraphStart

(***************************************************************************)
(* compute_dirty_propagation.                                              *)
(***************************************************************************)
\* Mutant of Carries: edges that were deactivated carry on.
CarriesAnyway(e) == edges[e].dependency

Carries(e) == edges[e].dependency /\ edges[e].active
Dependents(n) == {edges[e].to : e \in {d \in EdgeIds : Carries(d) /\ edges[d].from = n}}

ChangeNode(n) ==
    /\ pc = "idle"
    /\ pc' = "spread"
    /\ changed' = n
    /\ impacted' = {n}
    /\ queue' = {n}
    /\ UNCHANGED <<edges, visited, indegree>>

Spread(n) ==
    /\ pc = "spread"
    /\ n \in queue
    /\ impacted' = impacted \cup Dependents(n)
    /\ queue' = (queue \ {n}) \cup (Dependents(n) \ impacted)
    /\ UNCHANGED <<edges, pc, changed, visited, indegree>>

ReturnImpacted ==
    /\ pc = "spread"
    /\ queue = {}
    /\ pc' = "idle"
    /\ UNCHANGED <<edges, changed, impacted, visited, indegree, queue>>

(***************************************************************************)
(* resolve_cycles.  Nodes without an edge from an unvisited node are       *)
(* visited until none is left; if nodes remain, the least trusted edge     *)
(* between two of them is deactivated, the first of several.               *)
(***************************************************************************)
ActiveEdges == {e \in EdgeIds : edges[e].active}
EndNodes == {edges[e].from : e \in ActiveEdges} \cup {edges[e].to : e \in ActiveEdges}
EdgesInto(n) == {e \in ActiveEdges : edges[e].to = n}
EdgesOut(n) == {e \in ActiveEdges : edges[e].from = n}

ResolveCycles ==
    /\ pc = "idle"
    /\ pc' = "sort"
    /\ visited' = {}
    /\ indegree' = [n \in GraphNodes |-> Cardinality(EdgesInto(n))]
    /\ queue' = {n \in EndNodes : EdgesInto(n) = {}}
    /\ UNCHANGED <<edges, changed, impacted>>

\* One edge after another lowers the count; the one that takes it to 0 appends.
Lowered(n) == [m \in GraphNodes |-> indegree[m] - Cardinality(EdgesOut(n) \cap EdgesInto(m))]

Visit(n) ==
    /\ pc = "sort"
    /\ n \in queue
    /\ visited' = visited \cup {n}
    /\ indegree' = Lowered(n)
    /\ queue' = (queue \ {n}) \cup
                {m \in GraphNodes : indegree[m] > 0 /\ Lowered(n)[m] = 0}
    /\ UNCHANGED <<edges, pc, changed, impacted>>

Remaining == EndNodes \ visited

\* Mutant of Candidates: edges into the remaining nodes too.
CandidatesInto == {e \in ActiveEdges : edges[e].to \in Remaining}

Candidates == {e \in ActiveEdges : edges[e].from \in Remaining /\ edges[e].to \in Remaining}
Weakest ==
    CHOOSE e \in Candidates :
        \A d \in Candidates : \/ edges[e].trust < edges[d].trust
                              \/ edges[e].trust = edges[d].trust /\ e <= d

ReturnResolved ==
    /\ pc = "sort"
    /\ queue = {}
    /\ pc' = "idle"
    /\ edges' = IF visited = EndNodes \/ Candidates = {} THEN edges
                ELSE [edges EXCEPT ![Weakest].active = FALSE]
    /\ UNCHANGED <<changed, impacted, visited, indegree, queue>>

GraphNext ==
    \/ \E n \in GraphNodes : ChangeNode(n) \/ Spread(n) \/ Visit(n)
    \/ ReturnImpacted
    \/ ResolveCycles
    \/ ReturnResolved

GraphSpec == GraphInit /\ [][GraphNext]_graphVars

(***************************************************************************)
(* Properties.                                                             *)
(***************************************************************************)

\* Types: the queue holds nodes, and no indegree drops below 0.
GraphTypeOK ==
    /\ edges \in EdgeLists
    /\ pc \in {"idle", "spread", "sort"}
    /\ changed \in GraphNodes
    /\ impacted \subseteq GraphNodes
    /\ visited \subseteq GraphNodes
    /\ indegree \in [GraphNodes -> Nat]
    /\ queue \subseteq GraphNodes

\* What depends on n: what is in every set that has n and, with the source of an active
\* dependency, its target.
Closed(S) ==
    \A e \in EdgeIds :
        edges[e].dependency /\ edges[e].active /\ edges[e].from \in S => edges[e].to \in S
DependsOn(n) ==
    {m \in GraphNodes : \A S \in SUBSET GraphNodes : n \in S /\ Closed(S) => m \in S}

\* compute_dirty_propagation returns the changed node and all that depends on it,
\* directly or not, over active edges: nothing is missed in a cycle, and nothing that
\* only a deactivated edge leads to is dirty.
DirtyIsExact ==
    pc = "spread" /\ queue = {} => impacted = DependsOn(changed)

\* Nodes each of which has an active edge from one of them: a cycle and what it feeds.
Fed(S) == \A n \in S : \E e \in EdgesInto(n) : edges[e].from \in S
Cyclic == \E S \in SUBSET EndNodes : S # {} /\ Fed(S)

\* When the queue is empty, resolve_cycles has nodes left if and only if there is a
\* cycle, and then an edge to break: acyclic graphs are never touched, cyclic ones
\* always lose an edge.
BreaksIffCyclic ==
    pc = "sort" /\ queue = {} => /\ Cyclic <=> visited # EndNodes
                                 /\ Cyclic => Candidates # {}

\* What the two functions return is right whatever order the sets are walked in.
ResultsAreRight == DirtyIsExact /\ BreaksIffCyclic

\* An edge is deactivated only if its source lies on a cycle or downstream of one: what
\* leads to a cycle from outside survives.  (What a cycle feeds need not.)
UpstreamSurvives ==
    [][\A e \in EdgeIds : edges[e].active /\ ~edges'[e].active =>
          \E S \in SUBSET EndNodes : Fed(S) /\ edges[e].from \in S]_graphVars
=============================================================================
