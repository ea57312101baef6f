---------------------------- MODULE LibraryProofs ---------------------------
(***************************************************************************)
(* Proofs about the parts that share nothing: the graph functions, for any *)
(* nodes and lists of edges, the verifier, for any trajectories, criteria, *)
(* repeats and answers of the model, the retrieval path, for any nodes,    *)
(* questions, readers and limits, the layout of PDF snapshots, for any     *)
(* files of any pages, and the citations, for answers of any lines.        *)
(***************************************************************************)
EXTENDS Library, Induction, TLAPS

(***************************************************************************)
(* Counting edges.                                                         *)
(***************************************************************************)

\* Every set of edge numbers is finite, so that counts are numbers.
LEMMA EdgeCounts ==
    ASSUME NEW A \in SUBSET EdgeIds
    PROVE  /\ IsFiniteSet(A)
           /\ Cardinality(A) \in Nat
           /\ Cardinality(A) = 0 <=> A = {}
<1>1. NumEdges \in Int /\ 1 \in Int
  BY GraphAssumption
<1>2. IsFiniteSet(EdgeIds)
  BY <1>1, FS_Interval DEF EdgeIds
<1>3. IsFiniteSet(A)
  BY <1>2, FS_Subset
<1> QED
  BY <1>3, FS_CardinalityType, FS_EmptySet

\* Taking away a part takes away its count.
LEMMA PartTakenAway ==
    ASSUME NEW A \in SUBSET EdgeIds, NEW B \in SUBSET A
    PROVE  Cardinality(A \ B) = Cardinality(A) - Cardinality(B)
<1>1. IsFiniteSet(A) /\ IsFiniteSet(B) /\ IsFiniteSet(A \ B)
  BY EdgeCounts
<1>2. Cardinality(A) \in Nat /\ Cardinality(B) \in Nat /\ Cardinality(A \ B) \in Nat
  BY EdgeCounts
<1>3. A = (A \ B) \cup B /\ (A \ B) \cap B = {}
  OBVIOUS
<1>4. Cardinality((A \ B) \cup B)
      = Cardinality(A \ B) + Cardinality(B) - Cardinality((A \ B) \cap B)
  BY <1>1, FS_Union
<1>5. Cardinality((A \ B) \cap B) = 0
  BY <1>3, FS_EmptySet
<1> QED
  BY <1>2, <1>3, <1>4, <1>5

(***************************************************************************)
(* Type correctness.  That no indegree is negative needs what it counts:   *)
(* the edges from nodes not yet visited.                                   *)
(***************************************************************************)
Shapes ==
    /\ edges \in EdgeLists
    /\ pc \in {"idle", "spread", "sort"}
    /\ changed \in GraphNodes
    /\ impacted \subseteq GraphNodes
    /\ visited \subseteq GraphNodes
    /\ indegree \in [GraphNodes -> Nat]
    /\ queue \subseteq GraphNodes

Waiting(m) == {e \in EdgesInto(m) : edges[e].from \notin visited}

Sorting ==
    pc = "sort" =>
        /\ \A m \in GraphNodes : indegree[m] = Cardinality(Waiting(m))
        /\ \A m \in visited : indegree[m] = 0
        /\ visited \subseteq EndNodes
        /\ queue = {m \in EndNodes : m \notin visited /\ indegree[m] = 0}

LEMMA EndsAreNodes ==
    ASSUME Shapes
    PROVE  /\ \A e \in EdgeIds : edges[e].from \in GraphNodes /\ edges[e].to \in GraphNodes
           /\ EndNodes \subseteq GraphNodes
           /\ \A n \in GraphNodes : Dependents(n) \subseteq GraphNodes
<1>1. \A e \in EdgeIds : edges[e] \in Edge
  BY DEF Shapes, EdgeLists, EdgeIds
<1>2. \A e \in EdgeIds : edges[e].from \in GraphNodes /\ edges[e].to \in GraphNodes
  BY <1>1 DEF Edge
<1> QED
  BY <1>2 DEF EndNodes, ActiveEdges, Dependents

LEMMA ShapesAtFirst ==
    ASSUME GraphInit
    PROVE  Shapes /\ Sorting
<1>1. edges \in EdgeLists
  BY GraphAssumption DEF GraphInit
<1>2. changed \in GraphNodes
  BY GraphAssumption DEF GraphInit, GraphStart
<1> QED
  BY <1>1, <1>2 DEF GraphInit, GraphStart, Shapes, Sorting

\* Visiting a node lowers a count by what the node still held back.
LEMMA VisitLowers ==
    ASSUME Shapes, Sorting, NEW n \in GraphNodes, Visit(n)
    PROVE  /\ \A m \in GraphNodes : /\ indegree'[m] = Cardinality(Waiting(m)')
                                    /\ indegree'[m] \in Nat
                                    /\ indegree'[m] <= indegree[m]
           /\ indegree' \in [GraphNodes -> Nat]
<1>1. n \notin visited
  BY DEF Visit, Sorting
<1>2. ASSUME NEW m \in GraphNodes
      PROVE  /\ indegree'[m] = Cardinality(Waiting(m)')
             /\ indegree'[m] \in Nat
             /\ indegree'[m] <= indegree[m]
  <2> DEFINE Held == EdgesOut(n) \cap EdgesInto(m)
  <2>1. Waiting(m) \in SUBSET EdgeIds /\ Held \in SUBSET Waiting(m)
    BY <1>1 DEF Waiting, EdgesInto, EdgesOut, ActiveEdges
  <2>2. Waiting(m)' = Waiting(m) \ Held
    BY DEF Visit, Waiting, EdgesInto, EdgesOut, ActiveEdges
  <2>3. indegree'[m] = indegree[m] - Cardinality(Held)
    BY DEF Visit, Lowered
  <2>4. indegree[m] = Cardinality(Waiting(m))
    BY DEF Visit, Sorting
  <2>5. Cardinality(Waiting(m) \ Held) = Cardinality(Waiting(m)) - Cardinality(Held)
    BY <2>1, PartTakenAway
  <2>6. /\ Cardinality(Waiting(m)) \in Nat
        /\ Cardinality(Held) \in Nat
        /\ Cardinality(Waiting(m) \ Held) \in Nat
    BY <2>1, EdgeCounts
  <2> HIDE DEF Held
  <2> QED
    BY <2>2, <2>3, <2>4, <2>5, <2>6
<1>3. indegree' = [m \in GraphNodes |-> indegree'[m]]
  BY DEF Visit, Lowered
<1> QED
  BY <1>2, <1>3

LEMMA ShapesInductive ==
    ASSUME Shapes, Sorting, [GraphNext]_graphVars
    PROVE  Shapes' /\ Sorting'
<1> USE DEF Shapes
<1>1. CASE UNCHANGED graphVars
  BY <1>1 DEF graphVars, Sorting, Waiting, EdgesInto, ActiveEdges, EndNodes
<1>2. ASSUME NEW n \in GraphNodes, ChangeNode(n) PROVE Shapes' /\ Sorting'
  BY <1>2 DEF ChangeNode, Sorting
<1>3. ASSUME NEW n \in GraphNodes, Spread(n) PROVE Shapes' /\ Sorting'
  BY <1>3, EndsAreNodes DEF Spread, Sorting
<1>4. ASSUME NEW n \in GraphNodes, Visit(n) PROVE Shapes' /\ Sorting'
  <2>1. /\ \A m \in GraphNodes : /\ indegree'[m] = Cardinality(Waiting(m)')
                                 /\ indegree'[m] \in Nat
                                 /\ indegree'[m] <= indegree[m]
        /\ indegree' \in [GraphNodes -> Nat]
    BY <1>4, VisitLowers
  <2>2. EndNodes' = EndNodes /\ EndNodes \subseteq GraphNodes
    BY <1>4, EndsAreNodes DEF Visit, EndNodes, ActiveEdges
  <2>3. n \in EndNodes /\ n \notin visited /\ indegree[n] = 0
    BY <1>4 DEF Visit, Sorting
  <2>4. visited' = visited \cup {n}
    BY <1>4 DEF Visit
  <2>5. \A m \in visited' : indegree'[m] = 0
    BY <1>4, <2>1, <2>3, <2>4 DEF Visit, Sorting
  <2>6. queue' = {m \in EndNodes' : m \notin visited' /\ indegree'[m] = 0}
    <3>1. queue' = (queue \ {n}) \cup {m \in GraphNodes : indegree[m] > 0 /\ indegree'[m] = 0}
      BY <1>4 DEF Visit
    <3>2. queue = {m \in EndNodes : m \notin visited /\ indegree[m] = 0}
      BY <1>4 DEF Visit, Sorting
    <3>3. ASSUME NEW m \in GraphNodes, indegree[m] > 0
          PROVE  m \in EndNodes /\ m \notin visited /\ m # n
      <4>1. indegree[m] = Cardinality(Waiting(m)) /\ Waiting(m) \in SUBSET EdgeIds
        BY <1>4 DEF Visit, Sorting, Waiting, EdgesInto, ActiveEdges
      <4>2. Waiting(m) # {}
        BY <3>3, <4>1, EdgeCounts
      <4>3. m \in EndNodes
        BY <4>2 DEF Waiting, EdgesInto, EndNodes
      <4> QED
        BY <1>4, <2>3, <3>3, <4>3 DEF Visit, Sorting
    <3>4. ASSUME NEW m \in GraphNodes
          PROVE  m \in queue' <=> m \in EndNodes /\ m \notin visited' /\ indegree'[m] = 0
      <4>1. indegree[m] \in Nat /\ indegree'[m] \in Nat /\ indegree'[m] <= indegree[m]
        BY <2>1
      <4>2. CASE indegree[m] = 0
        BY <2>4, <3>1, <3>2, <4>1, <4>2
      <4>3. CASE indegree[m] > 0
        BY <2>4, <3>1, <3>2, <3>3, <4>3
      <4> QED
        BY <4>1, <4>2, <4>3
    <3>5. queue' \subseteq GraphNodes
      BY <3>1
    <3> QED
      BY <2>2, <3>4, <3>5
  <2>7. visited' \subseteq EndNodes'
    BY <1>4, <2>2, <2>3, <2>4 DEF Visit, Sorting
  <2>8. Shapes'
    BY <1>4, <2>1, <2>2, <2>6 DEF Visit
  <2> QED
    BY <2>1, <2>5, <2>6, <2>7, <2>8 DEF Sorting
<1>5. CASE ReturnImpacted
  BY <1>5 DEF ReturnImpacted, Sorting
<1>6. CASE ResolveCycles
  <2>1. EndNodes' = EndNodes /\ EndNodes \subseteq GraphNodes
    BY <1>6, EndsAreNodes DEF ResolveCycles, EndNodes, ActiveEdges
  <2>2. \A m \in GraphNodes : Waiting(m)' = EdgesInto(m) /\ EdgesInto(m) \in SUBSET EdgeIds
    BY <1>6 DEF ResolveCycles, Waiting, EdgesInto, ActiveEdges
  <2>3. \A m \in GraphNodes : /\ indegree'[m] = Cardinality(EdgesInto(m))
                              /\ indegree'[m] \in Nat
                              /\ indegree'[m] = 0 <=> EdgesInto(m) = {}
    BY <1>6, <2>2, EdgeCounts DEF ResolveCycles
  <2>4. indegree' \in [GraphNodes -> Nat]
    BY <1>6, <2>2, EdgeCounts DEF ResolveCycles
  <2>5. queue' = {m \in EndNodes' : m \notin visited' /\ indegree'[m] = 0}
    BY <1>6, <2>1, <2>3 DEF ResolveCycles
  <2>6. Shapes'
    BY <1>6, <2>1, <2>4, <2>5 DEF ResolveCycles
  <2> QED
    BY <1>6, <2>2, <2>3, <2>5, <2>6 DEF Sorting, ResolveCycles
<1>7. CASE ReturnResolved
  <2>1. edges' \in EdgeLists
    <3>1. [edges EXCEPT ![Weakest].active = FALSE] \in EdgeLists
      BY DEF EdgeLists, Edge
    <3> QED
      BY <1>7, <3>1 DEF ReturnResolved
  <2> QED
    BY <1>7, <2>1 DEF ReturnResolved, Sorting
<1> QED
  BY <1>1, <1>2, <1>3, <1>4, <1>5, <1>6, <1>7 DEF GraphNext

\* resolve_cycles counts the edges into a node down to 0 and never below, with parallel
\* edges and edges from a node to itself.
THEOREM GraphTypeCorrect == GraphSpec => []GraphTypeOK
<1>1. GraphInit => Shapes /\ Sorting
  BY ShapesAtFirst
<1>2. Shapes /\ Sorting /\ [GraphNext]_graphVars => Shapes' /\ Sorting'
  BY ShapesInductive
<1>3. Shapes => GraphTypeOK
  BY DEF Shapes, GraphTypeOK
<1> QED
  BY <1>1, <1>2, <1>3, PTL DEF GraphSpec

(***************************************************************************)
(* compute_dirty_propagation.                                              *)
(***************************************************************************)
Spreading ==
    pc = "spread" =>
        /\ changed \in impacted
        /\ queue \subseteq impacted
        /\ \A S \in SUBSET GraphNodes : changed \in S /\ Closed(S) => impacted \subseteq S
        /\ \A k \in impacted \ queue : Dependents(k) \subseteq impacted

LEMMA SpreadingInductive ==
    ASSUME Shapes, Spreading, [GraphNext]_graphVars
    PROVE  Spreading'
<1>1. CASE UNCHANGED graphVars
  BY <1>1 DEF graphVars, Spreading, Closed, Dependents, Carries
<1>2. ASSUME NEW n \in GraphNodes, ChangeNode(n) PROVE Spreading'
  BY <1>2 DEF ChangeNode, Spreading
<1>3. ASSUME NEW n \in GraphNodes, Spread(n) PROVE Spreading'
  <2>1. /\ impacted' = impacted \cup Dependents(n)
        /\ queue' = (queue \ {n}) \cup (Dependents(n) \ impacted)
        /\ n \in impacted
        /\ changed' = changed
    BY <1>3 DEF Spread, Spreading
  <2>2. \A k : Dependents(k)' = Dependents(k)
    BY <1>3 DEF Spread, Dependents, Carries
  <2>3. \A S : Closed(S)' = Closed(S)
    BY <1>3 DEF Spread, Closed
  <2>4. ASSUME NEW S \in SUBSET GraphNodes, changed \in S, Closed(S)
        PROVE  impacted' \subseteq S
    <3>1. impacted \subseteq S
      BY <1>3, <2>4 DEF Spread, Spreading
    <3>2. Dependents(n) \subseteq S
      BY <2>1, <2>4, <3>1 DEF Dependents, Carries, Closed
    <3> QED
      BY <2>1, <3>1, <3>2
  <2>5. \A k \in impacted' \ queue' : Dependents(k)' \subseteq impacted'
    BY <1>3, <2>1, <2>2 DEF Spread, Spreading
  <2>6. changed' \in impacted' /\ queue' \subseteq impacted'
    BY <1>3, <2>1 DEF Spread, Spreading
  <2> QED
    BY <2>1, <2>3, <2>4, <2>5, <2>6 DEF Spreading
<1>4. ASSUME NEW n \in GraphNodes, Visit(n) PROVE Spreading'
  BY <1>4 DEF Visit, Spreading
<1>5. CASE ReturnImpacted
  BY <1>5 DEF ReturnImpacted, Spreading
<1>6. CASE ResolveCycles
  BY <1>6 DEF ResolveCycles, Spreading
<1>7. CASE ReturnResolved
  BY <1>7 DEF ReturnResolved, Spreading
<1> QED
  BY <1>1, <1>2, <1>3, <1>4, <1>5, <1>6, <1>7 DEF GraphNext

\* compute_dirty_propagation returns exactly what depends on the changed node, over cycles
\* and around deactivated edges, in whatever order the queue is worked off.
THEOREM DirtyIsLeast == GraphSpec => []DirtyIsExact
<1>1. GraphInit => Shapes /\ Sorting /\ Spreading
  BY ShapesAtFirst DEF GraphInit, GraphStart, Spreading
<1>2. Shapes /\ Sorting /\ Spreading /\ [GraphNext]_graphVars
      => Shapes' /\ Sorting' /\ Spreading'
  BY ShapesInductive, SpreadingInductive
<1>3. Shapes /\ Spreading => DirtyIsExact
  <2> SUFFICES ASSUME Shapes, Spreading, pc = "spread", queue = {}
               PROVE  impacted = DependsOn(changed)
    BY DEF DirtyIsExact
  <2>1. \A k \in impacted : Dependents(k) \subseteq impacted
    BY DEF Spreading
  <2>2. Closed(impacted)
    BY <2>1 DEF Closed, Dependents, Carries
  <2>3. impacted \in SUBSET GraphNodes /\ changed \in impacted
    BY DEF Shapes, Spreading
  <2>4. DependsOn(changed) \subseteq impacted
    BY <2>2, <2>3 DEF DependsOn
  <2>5. impacted \subseteq DependsOn(changed)
    BY <2>3 DEF DependsOn, Spreading
  <2> QED
    BY <2>4, <2>5
<1> QED
  BY <1>1, <1>2, <1>3, PTL DEF GraphSpec

(***************************************************************************)
(* resolve_cycles.                                                         *)
(***************************************************************************)

\* What is visited is in no cycle and is fed by none.
UnvisitedAreFed ==
    pc = "sort" => \A S \in SUBSET EndNodes : Fed(S) => S \cap visited = {}

LEMMA UnvisitedInductive ==
    ASSUME Shapes, Sorting, UnvisitedAreFed, [GraphNext]_graphVars
    PROVE  UnvisitedAreFed'
<1>1. CASE UNCHANGED graphVars
  <2>1. EndNodes' = EndNodes /\ visited' = visited /\ pc' = pc
    BY <1>1 DEF graphVars, EndNodes, ActiveEdges
  <2>2. \A S : Fed(S)' = Fed(S)
    BY <1>1 DEF graphVars, Fed, EdgesInto, ActiveEdges
  <2> QED
    BY <2>1, <2>2 DEF UnvisitedAreFed
<1>2. ASSUME NEW n \in GraphNodes, ChangeNode(n) PROVE UnvisitedAreFed'
  BY <1>2 DEF ChangeNode, UnvisitedAreFed
<1>3. ASSUME NEW n \in GraphNodes, Spread(n) PROVE UnvisitedAreFed'
  BY <1>3 DEF Spread, UnvisitedAreFed
<1>4. ASSUME NEW n \in GraphNodes, Visit(n) PROVE UnvisitedAreFed'
  <2>1. EndNodes' = EndNodes /\ visited' = visited \cup {n} /\ pc = "sort"
    BY <1>4 DEF Visit, EndNodes, ActiveEdges
  <2>2. \A S : Fed(S)' = Fed(S)
    BY <1>4 DEF Visit, Fed, EdgesInto, ActiveEdges
  <2>3. Waiting(n) = {}
    <3>1. indegree[n] = 0 /\ indegree[n] = Cardinality(Waiting(n))
      BY <1>4 DEF Visit, Sorting
    <3>2. Waiting(n) \in SUBSET EdgeIds
      BY DEF Waiting, EdgesInto, ActiveEdges
    <3> QED
      BY <3>1, <3>2, EdgeCounts
  <2>4. ASSUME NEW S \in SUBSET EndNodes, Fed(S) PROVE S \cap visited' = {}
    <3>1. S \cap visited = {}
      BY <2>1, <2>4 DEF UnvisitedAreFed
    <3>2. n \notin S
      BY <2>3, <2>4, <3>1 DEF Fed, Waiting
    <3> QED
      BY <2>1, <3>1, <3>2
  <2> QED
    BY <2>1, <2>2, <2>4 DEF UnvisitedAreFed
<1>5. CASE ReturnImpacted
  BY <1>5 DEF ReturnImpacted, UnvisitedAreFed
<1>6. CASE ResolveCycles
  BY <1>6 DEF ResolveCycles, UnvisitedAreFed
<1>7. CASE ReturnResolved
  BY <1>7 DEF ReturnResolved, UnvisitedAreFed
<1> QED
  BY <1>1, <1>2, <1>3, <1>4, <1>5, <1>6, <1>7 DEF GraphNext

\* When the queue is empty, each node that is left has an edge from one that is left.
LEMMA RemainingIsFed ==
    ASSUME Shapes, Sorting, pc = "sort", queue = {}
    PROVE  /\ Fed(Remaining)
           /\ \A m \in Remaining : \E e \in Candidates : edges[e].to = m
<1>1. ASSUME NEW m \in Remaining
      PROVE  \E e \in EdgesInto(m) : edges[e].from \in Remaining
  <2>1. m \in GraphNodes /\ m \notin visited /\ m \in EndNodes
    BY EndsAreNodes DEF Remaining
  <2>2. indegree[m] # 0 /\ indegree[m] = Cardinality(Waiting(m))
    BY <2>1 DEF Sorting
  <2>3. Waiting(m) # {}
    <3>1. Waiting(m) \in SUBSET EdgeIds
      BY DEF Waiting, EdgesInto, ActiveEdges
    <3> QED
      BY <2>2, <3>1, EdgeCounts
  <2> QED
    BY <2>3 DEF Waiting, Remaining, EndNodes, EdgesInto
<1> QED
  BY <1>1 DEF Fed, Candidates, EdgesInto

\* resolve_cycles breaks an edge if and only if the active edges have a cycle: the sort
\* leaves nodes over in that case only, and then there is an edge between two of them.
THEOREM CyclesAreFound == GraphSpec => []BreaksIffCyclic
<1>1. GraphInit => Shapes /\ Sorting /\ UnvisitedAreFed
  BY ShapesAtFirst DEF GraphInit, GraphStart, UnvisitedAreFed
<1>2. Shapes /\ Sorting /\ UnvisitedAreFed /\ [GraphNext]_graphVars
      => Shapes' /\ Sorting' /\ UnvisitedAreFed'
  BY ShapesInductive, UnvisitedInductive
<1>3. Shapes /\ Sorting /\ UnvisitedAreFed => BreaksIffCyclic
  <2> SUFFICES ASSUME Shapes, Sorting, UnvisitedAreFed, pc = "sort", queue = {}
               PROVE  /\ Cyclic <=> visited # EndNodes
                      /\ Cyclic => Candidates # {}
    BY DEF BreaksIffCyclic
  <2>1. Cyclic => visited # EndNodes
    BY DEF Cyclic, UnvisitedAreFed
  <2>2. visited # EndNodes => Remaining # {}
    BY DEF Sorting, Remaining
  <2>3. Remaining # {} => Cyclic /\ Candidates # {}
    BY RemainingIsFed DEF Cyclic, Remaining
  <2> QED
    BY <2>1, <2>2, <2>3
<1> QED
  BY <1>1, <1>2, <1>3, PTL DEF GraphSpec

\* What the two functions return is right whatever order the sets are walked in.
THEOREM GraphResults == GraphSpec => []ResultsAreRight
<1>1. DirtyIsExact /\ BreaksIffCyclic => ResultsAreRight
  BY DEF ResultsAreRight
<1> QED
  BY <1>1, DirtyIsLeast, CyclesAreFound, PTL

\* Edges in the order in which one is given up before another.
Before(d, e) == edges[d].trust < edges[e].trust \/ (edges[d].trust = edges[e].trust /\ d < e)

\* There is a weakest of the candidates: the one with the fewest before it.
LEMMA WeakestExists ==
    ASSUME Shapes, Candidates # {}
    PROVE  Weakest \in Candidates
<1> DEFINE Stronger(e) == {d \in Candidates : Before(d, e)}
           Counts == {Cardinality(Stronger(e)) : e \in Candidates}
<1>1. Candidates \in SUBSET EdgeIds
  BY DEF Candidates, ActiveEdges
<1>2. \A e \in Candidates : e \in Int /\ edges[e].trust \in Int
  <2>1. \A e \in EdgeIds : e \in Int
    BY GraphAssumption DEF EdgeIds
  <2>2. \A e \in EdgeIds : edges[e] \in Edge
    BY DEF Shapes, EdgeLists, EdgeIds
  <2>3. \A e \in EdgeIds : edges[e].trust \in Int
    BY <2>2, GraphAssumption DEF Edge
  <2> QED
    BY <1>1, <2>1, <2>3
<1>3. \A e \in Candidates : Stronger(e) \in SUBSET EdgeIds /\ Cardinality(Stronger(e)) \in Nat
  BY <1>1, EdgeCounts
<1>4. Counts \in SUBSET Nat /\ Counts # {}
  BY <1>3
<1> HIDE DEF Stronger
<1>5. PICK e \in Candidates : \A d \in Candidates :
              Cardinality(Stronger(e)) <= Cardinality(Stronger(d))
  <2>1. PICK k \in Counts : \A j \in Counts : k <= j
    BY <1>4, LeastMember
  <2> QED
    BY <2>1
<1>6. ASSUME NEW d \in Candidates, Before(d, e) PROVE FALSE
  <2>1. Stronger(d) \subseteq Stronger(e) \ {d}
    BY <1>2, <1>6 DEF Stronger, Before
  <2>2. d \in Stronger(e)
    BY <1>6 DEF Stronger
  <2>3. Stronger(e) \in SUBSET EdgeIds /\ {d} \in SUBSET Stronger(e)
    BY <1>3, <2>2
  <2>4. Cardinality(Stronger(e) \ {d}) = Cardinality(Stronger(e)) - Cardinality({d})
    BY <2>3, PartTakenAway
  <2>5. Cardinality({d}) = 1
    BY FS_Singleton
  <2>6. IsFiniteSet(Stronger(e) \ {d})
    BY <2>3, EdgeCounts
  <2>7. Cardinality(Stronger(d)) <= Cardinality(Stronger(e) \ {d})
    BY <2>1, <2>6, FS_Subset
  <2> QED
    BY <1>3, <1>5, <2>4, <2>5, <2>7
<1>7. \A d \in Candidates : \/ edges[e].trust < edges[d].trust
                            \/ edges[e].trust = edges[d].trust /\ e <= d
  BY <1>2, <1>6 DEF Before
<1> QED
  BY <1>7 DEF Weakest

\* A cycle is never broken at an edge that leads to it from outside: the edge given up
\* starts at a node that lies on a cycle or that one feeds.
THEOREM UpstreamIsKept == GraphSpec => UpstreamSurvives
<1>1. GraphInit => Shapes /\ Sorting
  BY ShapesAtFirst
<1>2. Shapes /\ Sorting /\ [GraphNext]_graphVars => Shapes' /\ Sorting'
  BY ShapesInductive
<1>3. ASSUME Shapes, Sorting, [GraphNext]_graphVars
      PROVE  [\A e \in EdgeIds : edges[e].active /\ ~edges'[e].active =>
                \E S \in SUBSET EndNodes : Fed(S) /\ edges[e].from \in S]_graphVars
  <2>1. CASE edges' = edges
    BY <2>1
  <2>2. CASE ReturnResolved /\ Candidates # {}
    <3>1. pc = "sort" /\ queue = {}
      BY <2>2 DEF ReturnResolved
    <3>2. Weakest \in Candidates /\ Fed(Remaining)
      <4>1. Candidates # {}
        BY <2>2
      <4>2. Weakest \in Candidates
        BY <1>3, <4>1, WeakestExists
      <4>3. Fed(Remaining)
        BY <1>3, <3>1, RemainingIsFed
      <4> QED
        BY <4>2, <4>3
    <3>3. \A e \in EdgeIds : e # Weakest => edges'[e] = edges[e]
      BY <2>2 DEF ReturnResolved, Shapes, EdgeLists, EdgeIds
    <3>4. edges[Weakest].from \in Remaining /\ Remaining \in SUBSET EndNodes
      BY <3>2 DEF Candidates, Remaining
    <3> QED
      BY <3>2, <3>3, <3>4
  <2> QED
    BY <1>3, <2>1, <2>2 DEF GraphNext, graphVars, ChangeNode, Spread, ReturnImpacted,
                           ResolveCycles, Visit, ReturnResolved
<1> QED
  BY <1>1, <1>2, <1>3, PTL DEF GraphSpec, UpstreamSurvives

(***************************************************************************)
(* The verifier: a score is in [0, 1], whatever the model answered.        *)
(***************************************************************************)

\* Every letter weighs at most 1.0.
LEMMA TokenWeightInRange == \A letter \in Int : TokenWeight(letter) \in 0..Unit
<1>1. SUFFICES ASSUME NEW letter \in ScoreTokens
               PROVE  ((letter - 1) * Unit) \div (Granularity - 1) \in 0..Unit
  BY VerifierAssumption DEF TokenWeight
<1>. DEFINE d == Granularity - 1
            n == letter - 1
<1>2. /\ d \in Nat \ {0} /\ Unit \in Nat
      /\ n \in Nat /\ n <= d
  BY VerifierAssumption DEF ScoreTokens
<1>. HIDE DEF d, n
<1>3. n * Unit \in Nat /\ n * Unit <= d * Unit /\ d * Unit = Unit * d
  BY <1>2, Products
<1>4. (n * Unit) \div d \in 0..Unit
  BY <1>2, <1>3, QuotientInRange
<1> QED
  BY <1>4 DEF d, n

\* The probability a position gives to a letter.
IsLogprobs(logprobs) ==
    /\ IsFiniteSet(DOMAIN logprobs)
    /\ \A l \in DOMAIN logprobs : l \in Int /\ logprobs[l] \in Nat

LEMMA CallModelAnswers == \A outcome \in Outcomes : IsLogprobs(CallModel(outcome))
<1>1. IsLogprobs(MockLogprobs)
  <2>1. \A l \in 2..4 : <<0, 2, 5, 3>>[l] \in Nat
    <3>1. \A l \in 2..4 : l = 2 \/ l = 3 \/ l = 4
      OBVIOUS
    <3> QED
      BY <3>1
  <2>2. IsFiniteSet(2..4)
    <3>1. 2 \in Int /\ 4 \in Int
      OBVIOUS
    <3> QED
      BY <3>1, FS_Interval
  <2> QED
    BY <2>1, <2>2 DEF IsLogprobs, MockLogprobs
<1>2. ASSUME NEW response \in Responses
      PROVE  IsLogprobs(TokenLogprobs(response))
  <2>. DEFINE D == {l \in ScoreTokens : Positions(response, l) # {}}
  <2>1. IsFiniteSet(D) /\ \A l \in D : l \in Int
    <3>1. Granularity \in Int /\ 1 \in Int
      BY VerifierAssumption
    <3>2. IsFiniteSet(ScoreTokens)
      BY <3>1, FS_Interval DEF ScoreTokens
    <3> QED
      BY <3>1, <3>2, FS_Subset DEF ScoreTokens
  <2>2. ASSUME NEW l \in D
        PROVE  response[Max(Positions(response, l))][l] \in Nat
    <3>. DEFINE S == Positions(response, l)
                n == Len(response)
    <3>1. n \in Nat /\ S \in SUBSET (1..n) /\ S # {}
      BY VerifierAssumption DEF Positions
    <3>2. \A i \in S : i \in DOMAIN response /\ l \in DOMAIN response[i]
      BY DEF Positions
    <3>. HIDE DEF S, n
    <3>3. \E i \in S : \A j \in S : j <= i
      BY <3>1, GreatestIndex
    <3>4. \E i \in S : \A j \in S : i >= j
      BY <3>3, <3>1
    <3>5. Max(S) \in S
      BY <3>4 DEF Max
    <3> QED
      BY <3>2, <3>5, VerifierAssumption DEF S
  <2>. HIDE DEF D
  <2>3. /\ DOMAIN TokenLogprobs(response) = D
        /\ \A l \in D : TokenLogprobs(response)[l] = response[Max(Positions(response, l))][l]
    BY DEF TokenLogprobs, D
  <2> QED
    BY <2>1, <2>2, <2>3 DEF IsLogprobs
<1> QED
  BY <1>1, <1>2 DEF CallModel, Answered, Outcomes

LEMMA ExpectedValueInRange ==
    ASSUME NEW logprobs, IsLogprobs(logprobs)
    PROVE  ExpectedValue(logprobs) \in 0..Unit
<1>. DEFINE D == DOMAIN logprobs
            u == [l \in D |-> logprobs[l] * TokenWeight(l)]
            most == [l \in D |-> Unit * logprobs[l] + 0]
            none == [l \in D |-> 0]
            mass == SumFunctionOnSet(logprobs, D)
            weighted == SumFunctionOnSet(u, D)
<1>1. /\ IsFiniteSet(D) /\ Unit \in Nat
      /\ \A l \in D : logprobs[l] \in Nat /\ TokenWeight(l) \in 0..Unit
  BY VerifierAssumption, TokenWeightInRange DEF IsLogprobs
<1>2. Mass(logprobs) = mass /\ Weighted(logprobs) = weighted
  BY DEF Mass, Weighted, SumFunction
<1>3. ASSUME NEW l \in D
      PROVE  /\ u[l] \in Nat /\ most[l] \in Nat /\ u[l] <= most[l]
             /\ none[l] \in Int /\ logprobs[l] \in Int
             /\ most[l] = Unit * logprobs[l] + none[l]
  <2>. DEFINE p == logprobs[l]
              t == TokenWeight(l)
  <2>1. p \in Nat /\ t \in Nat /\ t <= Unit /\ Unit \in Nat
    BY <1>1
  <2>2. u[l] = p * t /\ most[l] = Unit * p + 0 /\ none[l] = 0
    OBVIOUS
  <2>. HIDE DEF p, t, u, most, none
  <2>3. p * t <= p * Unit /\ p * t \in Nat /\ Unit * p = p * Unit /\ Unit * p \in Nat
    BY <2>1, Products
  <2> QED
    BY <2>1, <2>2, <2>3 DEF p
<1>4. mass \in Nat /\ weighted \in Nat
  <2>. HIDE DEF u, D
  <2> QED
    BY <1>1, <1>3, SumOfNaturals
<1>5. weighted <= SumFunctionOnSet(most, D)
  <2>. HIDE DEF u, most, D
  <2> QED
    BY <1>1, <1>3, SumIsMonotonic
<1>6. SumFunctionOnSet(most, D) = Unit * mass + SumFunctionOnSet(none, D)
  <2>1. Unit \in Int
    BY <1>1
  <2>2. Combines(most, Unit, logprobs, none, D)
    BY <1>3 DEF Combines
  <2>. HIDE DEF most, none, D
  <2> QED
    BY <1>1, <2>1, <2>2, SumOfCombination
<1>7. SumFunctionOnSet(none, D) = 0
  <2>1. \A l \in D : none[l] = 0
    OBVIOUS
  <2>. HIDE DEF none, D
  <2>2. SumFunctionOnSet(none, D) = Cardinality(D) * 0
    BY <1>1, <2>1, SumOfConstant
  <2> QED
    BY <1>1, <2>2, FS_CardinalityType
<1>. HIDE DEF mass, weighted
<1>8. weighted <= Unit * mass
  BY <1>1, <1>4, <1>5, <1>6, <1>7
<1>9. mass # 0 => weighted \div mass \in 0..Unit
  BY <1>1, <1>4, <1>8, QuotientInRange
<1> QED
  BY <1>1, <1>2, <1>9 DEF ExpectedValue

\* For any granularity, any letters over any positions, and the fallback's letters too.
LEMMA ScoreInRange == \A outcome \in Outcomes : Score(outcome) \in Nat /\ Score(outcome) <= Unit
BY VerifierAssumption, CallModelAnswers, ExpectedValueInRange DEF Score

(***************************************************************************)
(* The tournament.  The trajectories that t was compared with and beat.    *)
(***************************************************************************)
Met(t, u) == \E p \in AllPairs \ pairs : p = <<t, u>> \/ p = <<u, t>>
Beaten(t) == {u \in Trajectories : Met(t, u) /\ overall[t] > overall[u]}

LEMMA SetsOfTrajectories ==
    ASSUME NEW A \in SUBSET Trajectories
    PROVE  IsFiniteSet(A) /\ Cardinality(A) \in Nat
<1>1. NumTrajectories \in Int /\ 1 \in Int
  BY VerifierAssumption
<1>2. IsFiniteSet(Trajectories)
  BY <1>1, FS_Interval DEF Trajectories
<1>3. IsFiniteSet(A)
  BY <1>2, FS_Subset
<1> QED
  BY <1>3, FS_CardinalityType

(***************************************************************************)
(* Argmax exists: it is the first of those with the most wins.             *)
(***************************************************************************)
LEMMA ArgmaxHasMost ==
    ASSUME wins \in [Trajectories -> 0..NumTrajectories]
    PROVE  Argmax \in Trajectories /\ \A u \in Trajectories : wins[u] <= wins[Argmax]
<1> DEFINE Lacks == {NumTrajectories - wins[t] : t \in Trajectories}
<1>1. NumTrajectories \in Nat \ {0}
  BY VerifierAssumption
<1>2. \A t \in Trajectories : /\ t \in Nat
                              /\ wins[t] \in Nat
                              /\ NumTrajectories - wins[t] \in Nat
  BY <1>1 DEF Trajectories
<1>3. Lacks \in SUBSET Nat /\ Lacks # {}
  <2>1. 1 \in Trajectories
    BY <1>1 DEF Trajectories
  <2> QED
    BY <1>2, <2>1
<1>4. PICK least \in Lacks : \A k \in Lacks : least <= k
  BY <1>3, LeastMember
<1>5. PICK t \in Trajectories : least = NumTrajectories - wins[t]
  OBVIOUS
<1>6. \A u \in Trajectories : wins[u] <= wins[t]
  <2> SUFFICES ASSUME NEW u \in Trajectories PROVE wins[u] <= wins[t]
    OBVIOUS
  <2>1. NumTrajectories - wins[t] <= NumTrajectories - wins[u]
    BY <1>4, <1>5
  <2> QED
    BY <1>1, <1>2, <2>1
<1> DEFINE Most == {u \in Trajectories : wins[u] = wins[t]}
<1>7. Most \in SUBSET Nat /\ Most # {}
  BY <1>2
<1>8. PICK first \in Most : \A u \in Most : first <= u
  BY <1>7, LeastMember
<1>9. \A u \in Trajectories : \/ wins[u] < wins[first]
                              \/ wins[u] = wins[first] /\ first <= u
  BY <1>2, <1>6, <1>8
<1> QED
  BY <1>2, <1>8, <1>9 DEF Argmax

(***************************************************************************)
(* Until all is evaluated nothing is compared; from then on the scores     *)
(* keep still and the wins of t are the trajectories it has beaten.        *)
(***************************************************************************)
TournamentTypes ==
    /\ overall \in [Trajectories -> Nat]
    /\ calls \in [Trajectories -> [Criteria -> Nat]]
    /\ pairs \in SUBSET AllPairs
    /\ wins \in [Trajectories -> Nat]

Tournament ==
    /\ ~Evaluated => pairs = AllPairs /\ best = 0
    /\ \A t \in Trajectories : wins[t] = Cardinality(Beaten(t))
    /\ best # 0 => Evaluated /\ best \in Trajectories

TournamentInv == TournamentTypes /\ Tournament /\ WinnerUnbeaten

LEMMA TournamentAtFirst ==
    ASSUME VerifierInit
    PROVE  TournamentInv
<1>1. TournamentTypes
  BY DEF VerifierInit, TournamentTypes, AllPairs
<1>2. \A t \in Trajectories : Beaten(t) = {}
  BY DEF VerifierInit, Beaten, Met, AllPairs
<1>3. Tournament
  BY <1>2, FS_EmptySet DEF VerifierInit, Tournament, AllPairs
<1> QED
  BY <1>1, <1>3 DEF TournamentInv, WinnerUnbeaten, VerifierInit

\* A score is added only while no pair has been compared.
LEMMA VerifyKeepsTournament ==
    ASSUME TournamentInv, NEW t \in Trajectories, NEW c \in Criteria, Verify(t, c)
    PROVE  TournamentInv'
<1>1. ~Evaluated
  <2>1. calls[t][c] < Repeats /\ calls[t][c] \in Nat /\ Repeats \in Nat
    BY VerifierAssumption DEF Verify, InOrder, TournamentInv, TournamentTypes
  <2> QED
    BY <2>1 DEF Evaluated
<1>2. pairs' = AllPairs /\ best' = 0 /\ wins' = wins /\ pairs = AllPairs
  BY <1>1 DEF TournamentInv, Tournament, Verify
<1>3. PICK outcome \in Outcomes : overall' = [overall EXCEPT ![t] = @ + Score(outcome)]
  BY DEF Verify
<1>4. overall' \in [Trajectories -> Nat]
  <2>1. Score(outcome) \in Nat
    BY ScoreInRange
  <2> QED
    BY <1>3, <2>1 DEF TournamentInv, TournamentTypes
<1>5. calls' \in [Trajectories -> [Criteria -> Nat]]
  BY DEF Verify, TournamentInv, TournamentTypes
<1>6. TournamentTypes'
  BY <1>2, <1>4, <1>5 DEF TournamentInv, TournamentTypes, AllPairs
<1>7. \A u \in Trajectories : Beaten(u)' = {} /\ Beaten(u) = {}
  BY <1>2 DEF Beaten, Met, AllPairs
<1>8. \A u \in Trajectories : wins'[u] = Cardinality(Beaten(u)')
  BY <1>2, <1>7 DEF TournamentInv, Tournament
<1>9. Tournament' /\ WinnerUnbeaten'
  BY <1>2, <1>8 DEF Tournament, WinnerUnbeaten, AllPairs
<1> QED
  BY <1>6, <1>9 DEF TournamentInv

\* A comparison adds its winner's opponent to what the winner has beaten.
LEMMA CompareKeepsTournament ==
    ASSUME TournamentInv, NEW i \in Trajectories, NEW j \in Trajectories, Compare(i, j)
    PROVE  TournamentInv'
<1>1. /\ Evaluated
      /\ <<i, j>> \in pairs /\ <<i, j>> \in AllPairs
      /\ pairs' = pairs \ {<<i, j>>}
      /\ overall' = overall /\ calls' = calls /\ best' = best
  BY DEF Compare, TournamentInv, TournamentTypes
<1>2. i \in Int /\ j \in Int /\ i < j
  BY <1>1 DEF AllPairs, Trajectories
<1>3. ~Met(i, j) /\ ~Met(j, i)
  BY <1>1, <1>2 DEF Met, AllPairs
<1>4. \A t, u : Met(t, u)' <=> Met(t, u) \/ <<t, u>> = <<i, j>> \/ <<u, t>> = <<i, j>>
  BY <1>1 DEF Met, AllPairs
<1>5. ASSUME NEW t \in Trajectories
      PROVE  wins'[t] = Cardinality(Beaten(t)') /\ wins'[t] \in Nat
  <2>1. /\ overall[i] \in Int /\ overall[j] \in Int
        /\ wins[t] = Cardinality(Beaten(t)) /\ wins[t] \in Nat
    BY DEF TournamentInv, TournamentTypes, Tournament
  <2>2. IsFiniteSet(Beaten(t))
    BY SetsOfTrajectories DEF Beaten
  <2>3. CASE t = i /\ overall[i] > overall[j]
    <3>1. Beaten(t)' = Beaten(t) \cup {j} /\ j \notin Beaten(t)
      BY <1>1, <1>2, <1>3, <1>4, <2>3 DEF Beaten
    <3>2. wins'[t] = wins[t] + 1
      BY <2>3 DEF Compare, Win
    <3>3. Cardinality(Beaten(t) \cup {j}) = Cardinality(Beaten(t)) + 1
      BY <2>2, <3>1, FS_AddElement
    <3> QED
      BY <2>1, <3>1, <3>2, <3>3
  <2>4. CASE t = j /\ overall[j] > overall[i]
    <3>1. Beaten(t)' = Beaten(t) \cup {i} /\ i \notin Beaten(t)
      BY <1>1, <1>2, <1>3, <1>4, <2>4 DEF Beaten
    <3>2. wins'[t] = wins[t] + 1
      BY <2>1, <2>4 DEF Compare, Win
    <3>3. Cardinality(Beaten(t) \cup {i}) = Cardinality(Beaten(t)) + 1
      BY <2>2, <3>1, FS_AddElement
    <3> QED
      BY <2>1, <3>1, <3>2, <3>3
  <2>5. CASE ~(t = i /\ overall[i] > overall[j]) /\ ~(t = j /\ overall[j] > overall[i])
    <3>1. Beaten(t)' = Beaten(t)
      BY <1>1, <1>2, <1>3, <1>4, <2>1, <2>5 DEF Beaten
    <3>2. wins'[t] = wins[t]
      BY <2>1, <2>5 DEF Compare, Win
    <3> QED
      BY <2>1, <3>1, <3>2
  <2> QED
    BY <2>3, <2>4, <2>5
<1>6. wins' \in [Trajectories -> Nat]
  <2>1. wins' = [t \in Trajectories |-> wins'[t]]
    BY DEF Compare
  <2> QED
    BY <1>5, <2>1
<1>7. TournamentTypes'
  BY <1>1, <1>6 DEF TournamentInv, TournamentTypes, AllPairs
<1>8. Evaluated' /\ Evaluated
  BY <1>1 DEF Evaluated
<1>9. Tournament'
  BY <1>1, <1>5, <1>8 DEF TournamentInv, Tournament
<1> QED
  BY <1>1, <1>7, <1>9 DEF TournamentInv, WinnerUnbeaten

\* Whoever beats the selected trajectory beats all that it beats, and it besides.
LEMMA SelectKeepsTournament ==
    ASSUME TournamentInv, Select
    PROVE  TournamentInv'
<1>1. /\ Evaluated /\ pairs = {} /\ best' = Argmax
      /\ overall' = overall /\ calls' = calls /\ pairs' = pairs /\ wins' = wins
  BY DEF Select
<1>2. \A t \in Trajectories : /\ overall[t] \in Int
                              /\ wins[t] = Cardinality(Beaten(t))
                              /\ Beaten(t) \in SUBSET Trajectories
  BY DEF TournamentInv, TournamentTypes, Tournament, Beaten
<1>3. wins \in [Trajectories -> 0..NumTrajectories]
  <2>1. NumTrajectories \in Nat /\ 1 \in Int
    BY VerifierAssumption
  <2>2. IsFiniteSet(Trajectories) /\ Cardinality(Trajectories) = NumTrajectories
    BY <2>1, FS_Interval, VerifierAssumption DEF Trajectories
  <2>3. \A t \in Trajectories : wins[t] <= NumTrajectories
    BY <1>2, <2>2, FS_Subset
  <2> QED
    BY <2>1, <2>3 DEF TournamentInv, TournamentTypes
<1>4. Argmax \in Trajectories /\ \A u \in Trajectories : wins[u] <= wins[Argmax]
  BY <1>3, ArgmaxHasMost
<1>5. \A t \in Trajectories, u \in Trajectories : t # u => Met(t, u)
  <2> SUFFICES ASSUME NEW t \in Trajectories, NEW u \in Trajectories, t # u PROVE Met(t, u)
    OBVIOUS
  <2>1. t \in Int /\ u \in Int
    BY DEF Trajectories
  <2>2. <<t, u>> \in AllPairs \/ <<u, t>> \in AllPairs
    BY <2>1 DEF AllPairs
  <2> QED
    BY <1>1, <2>2 DEF Met
<1>6. ASSUME NEW t \in Trajectories, overall[t] > overall[Argmax] PROVE FALSE
  <2>1. Beaten(Argmax) \subseteq Beaten(t)
    <3> SUFFICES ASSUME NEW u \in Beaten(Argmax) PROVE u \in Beaten(t)
      OBVIOUS
    <3>1. u \in Trajectories /\ overall[Argmax] > overall[u]
      BY DEF Beaten
    <3>2. overall[t] > overall[u] /\ t # u
      BY <1>2, <1>4, <1>6, <3>1
    <3> QED
      BY <1>5, <3>1, <3>2 DEF Beaten
  <2>2. Argmax \in Beaten(t) /\ Argmax \notin Beaten(Argmax)
    <3>1. overall[Argmax] \in Int /\ overall[t] \in Int /\ t # Argmax
      BY <1>2, <1>4, <1>6
    <3>2. Met(t, Argmax)
      BY <1>4, <1>5, <3>1
    <3> QED
      BY <1>4, <1>6, <3>1, <3>2 DEF Beaten
  <2>3. IsFiniteSet(Beaten(t)) /\ Beaten(Argmax) # Beaten(t)
    BY <1>2, <2>2, SetsOfTrajectories
  <2>4. /\ Cardinality(Beaten(Argmax)) <= Cardinality(Beaten(t))
        /\ Cardinality(Beaten(t)) # Cardinality(Beaten(Argmax))
    BY <2>1, <2>3, FS_Subset
  <2>5. wins[t] \in Nat /\ wins[Argmax] \in Nat /\ wins[t] <= wins[Argmax]
    BY <1>4 DEF TournamentInv, TournamentTypes
  <2> QED
    BY <1>2, <1>4, <2>4, <2>5
<1>7. \A t \in Trajectories : overall[t] <= overall[Argmax]
  BY <1>2, <1>4, <1>6
<1>8. WinnerUnbeaten'
  BY <1>1, <1>7 DEF WinnerUnbeaten
<1>9. TournamentTypes'
  BY <1>1 DEF TournamentInv, TournamentTypes, AllPairs
<1>10. Evaluated' /\ \A t \in Trajectories : Beaten(t)' = Beaten(t)
  BY <1>1 DEF Evaluated, Beaten, Met, AllPairs
<1>11. Tournament'
  BY <1>1, <1>2, <1>4, <1>10 DEF Tournament
<1> QED
  BY <1>8, <1>9, <1>11 DEF TournamentInv

(***************************************************************************)
(* Scores add up: the overall score of a trajectory is the sum of its      *)
(* criteria, and a criterion has at most 1.0 for each verification.        *)
(***************************************************************************)
ScoresAdd ==
    /\ calls \in [Trajectories -> [Criteria -> 0..Repeats]]
    /\ criterion \in [Trajectories -> [Criteria -> Nat]]
    /\ overall \in [Trajectories -> Nat]
    /\ \A t \in Trajectories, c \in Criteria : criterion[t][c] <= calls[t][c] * Unit
    /\ \A t \in Trajectories : overall[t] = SumFunctionOnSet(criterion[t], Criteria)

LEMMA CriteriaAreFinite == IsFiniteSet(Criteria) /\ Cardinality(Criteria) = NumCriteria
<1>1. 1 \in Int /\ NumCriteria \in Int /\ NumCriteria \in Nat
  BY VerifierAssumption
<1> QED
  BY <1>1, FS_Interval DEF Criteria

LEMMA ScoresAtFirst == VerifierInit => ScoresAdd
<1>. SUFFICES ASSUME VerifierInit
              PROVE  ScoresAdd
  OBVIOUS
<1>1. \A t \in Trajectories, c \in Criteria : calls[t][c] = 0 /\ criterion[t][c] = 0
  BY DEF VerifierInit
<1>2. ASSUME NEW t \in Trajectories
      PROVE  overall[t] = SumFunctionOnSet(criterion[t], Criteria)
  <2>. DEFINE w == criterion[t]
  <2>1. \A c \in Criteria : w[c] = 0
    BY <1>1
  <2>2. IsFiniteSet(Criteria) /\ 0 \in Int
    BY CriteriaAreFinite
  <2>. HIDE DEF w
  <2>3. SumFunctionOnSet(w, Criteria) = Cardinality(Criteria) * 0
    BY <2>1, <2>2, SumOfConstant
  <2>4. Cardinality(Criteria) \in Nat
    BY CriteriaAreFinite, VerifierAssumption
  <2>5. overall[t] = 0
    BY DEF VerifierInit
  <2> QED
    BY <2>3, <2>4, <2>5 DEF w
<1>3. 0 \in 0..Repeats /\ 0 <= 0 * Unit
  BY VerifierAssumption
<1> QED
  BY <1>1, <1>2, <1>3 DEF VerifierInit, ScoresAdd

\* A verification adds one score to its criterion and to its trajectory.
LEMMA VerifyKeepsScores ==
    ASSUME ScoresAdd, NEW t \in Trajectories, NEW c \in Criteria, Verify(t, c)
    PROVE  ScoresAdd'
<1>1. PICK outcome \in Outcomes :
          /\ criterion' = [criterion EXCEPT ![t][c] = criterion[t][c] + Score(outcome)]
          /\ overall' = [overall EXCEPT ![t] = overall[t] + Score(outcome)]
  BY DEF Verify
<1>2. PICK score \in Nat : score = Score(outcome) /\ score <= Unit
  BY ScoreInRange
<1>3. /\ calls \in [Trajectories -> [Criteria -> 0..Repeats]]
      /\ criterion \in [Trajectories -> [Criteria -> Nat]]
      /\ overall \in [Trajectories -> Nat]
      /\ Repeats \in Nat /\ Unit \in Nat
  BY VerifierAssumption DEF ScoresAdd
<1>. DEFINE k == calls[t][c]
            x == criterion[t][c]
<1>4. k \in Nat /\ k < Repeats /\ x \in Nat /\ x <= k * Unit
  BY <1>3 DEF Verify, InOrder, ScoresAdd
<1>5. /\ calls' = [calls EXCEPT ![t][c] = k + 1]
      /\ criterion' = [criterion EXCEPT ![t][c] = x + score]
      /\ overall' = [overall EXCEPT ![t] = overall[t] + score]
  BY <1>1, <1>2 DEF Verify
<1>. HIDE DEF k, x
<1>6. k + 1 \in 0..Repeats /\ x + score \in Nat /\ x + score <= (k + 1) * Unit
  <2>1. (k + 1) * Unit = k * Unit + Unit /\ k * Unit \in Nat
    BY <1>3, <1>4
  <2> QED
    BY <1>2, <1>3, <1>4, <2>1
<1>7. /\ calls' \in [Trajectories -> [Criteria -> 0..Repeats]]
      /\ criterion' \in [Trajectories -> [Criteria -> Nat]]
      /\ overall' \in [Trajectories -> Nat]
  BY <1>2, <1>3, <1>5, <1>6
<1>8. ASSUME NEW u \in Trajectories, NEW d \in Criteria
      PROVE  criterion'[u][d] <= calls'[u][d] * Unit
  <2>1. CASE u = t /\ d = c
    BY <1>3, <1>5, <1>6, <2>1
  <2>2. CASE ~(u = t /\ d = c)
    <3>1. criterion'[u][d] = criterion[u][d] /\ calls'[u][d] = calls[u][d]
      BY <1>3, <1>5, <2>2
    <3> QED
      BY <3>1 DEF ScoresAdd
  <2> QED
    BY <2>1, <2>2
<1>9. ASSUME NEW u \in Trajectories
      PROVE  overall'[u] = SumFunctionOnSet(criterion'[u], Criteria)
  <2>1. CASE u # t
    <3>1. overall'[u] = overall[u] /\ criterion'[u] = criterion[u]
      BY <1>3, <1>5, <2>1
    <3> QED
      BY <3>1 DEF ScoresAdd
  <2>2. CASE u = t
    <3>0. PICK w, v : w = criterion[t] /\ v = criterion'[t]
      OBVIOUS
    <3>1. /\ v[c] = x + score /\ w[c] = x
          /\ \A d \in Criteria : w[d] \in Int /\ v[d] \in Int
          /\ \A d \in Criteria \ {c} : v[d] = w[d]
      BY <1>3, <1>5, <1>7, <3>0 DEF x
    <3>2. overall'[t] = overall[t] + score /\ overall[t] \in Nat
      BY <1>3, <1>5
    <3>3. overall[t] = SumFunctionOnSet(w, Criteria)
      BY <3>0 DEF ScoresAdd
    <3>4. IsFiniteSet(Criteria)
      BY CriteriaAreFinite
    <3>5. SumFunctionOnSet(v, Criteria) = SumFunctionOnSet(w, Criteria) + v[c] - w[c]
      <4>1. OneChanged(v, w, Criteria, c)
        BY <3>1 DEF OneChanged
      <4> QED
        BY <3>4, <4>1, SumWithOneChanged
    <3>6. SumFunctionOnSet(v, Criteria) = overall'[t]
      BY <1>2, <1>4, <3>1, <3>2, <3>3, <3>5
    <3> QED
      BY <2>2, <3>0, <3>6
  <2> QED
    BY <2>1, <2>2
<1> QED
  BY <1>7, <1>8, <1>9 DEF ScoresAdd

LEMMA ScoresInductive == ScoresAdd /\ [VerifierNext]_verifierVars => ScoresAdd'
<1>. SUFFICES ASSUME ScoresAdd, [VerifierNext]_verifierVars
              PROVE  ScoresAdd'
  OBVIOUS
<1>1. CASE UNCHANGED <<calls, criterion, overall>>
  BY <1>1 DEF ScoresAdd
<1>2. CASE \E t \in Trajectories, c \in Criteria : Verify(t, c)
  BY <1>2, VerifyKeepsScores
<1> QED
  BY <1>1, <1>2 DEF VerifierNext, Compare, Select, verifierVars

\* A trajectory never has more than all its verifications at 1.0.
LEMMA OverallInRange ==
    ASSUME ScoresAdd, NEW t \in Trajectories
    PROVE  /\ \A c \in Criteria : criterion[t][c] \in 0..Repeats * Unit
           /\ overall[t] \in 0..NumCriteria * Repeats * Unit
<1>1. Repeats \in Nat /\ Unit \in Nat /\ NumCriteria \in Nat /\ overall[t] \in Nat
  BY VerifierAssumption DEF ScoresAdd
<1>. DEFINE w == criterion[t]
            most == [c \in Criteria |-> Repeats * Unit]
<1>2. ASSUME NEW c \in Criteria
      PROVE  w[c] \in 0..Repeats * Unit
  <2>1. calls[t][c] \in Nat /\ calls[t][c] <= Repeats /\ w[c] \in Nat /\ w[c] <= calls[t][c] * Unit
    BY DEF ScoresAdd
  <2>2. calls[t][c] * Unit <= Repeats * Unit
    BY <1>1, <2>1, Products
  <2> QED
    BY <1>1, <2>1, <2>2
<1>3. /\ \A c \in Criteria : most[c] \in Int /\ w[c] \in Int /\ w[c] <= most[c]
      /\ \A c \in Criteria : most[c] = Repeats * Unit
      /\ Repeats * Unit \in Int
  BY <1>1, <1>2
<1>4. overall[t] = SumFunctionOnSet(w, Criteria)
  BY DEF ScoresAdd
<1>5. IsFiniteSet(Criteria) /\ Cardinality(Criteria) = NumCriteria
  BY CriteriaAreFinite
<1>. HIDE DEF w, most
<1>6. SumFunctionOnSet(w, Criteria) <= SumFunctionOnSet(most, Criteria)
  BY <1>3, <1>5, SumIsMonotonic
<1>7. SumFunctionOnSet(most, Criteria) = Cardinality(Criteria) * (Repeats * Unit)
  BY <1>3, <1>5, SumOfConstant
<1>8. NumCriteria * (Repeats * Unit) = NumCriteria * Repeats * Unit
      /\ NumCriteria * Repeats * Unit \in Int
  BY <1>1
<1>9. overall[t] <= NumCriteria * Repeats * Unit
  BY <1>4, <1>5, <1>6, <1>7, <1>8
<1> QED
  BY <1>1, <1>2, <1>8, <1>9 DEF w

\* Wins are bounded by the trajectories that can be beaten.
LEMMA WinsInRange ==
    ASSUME TournamentInv
    PROVE  wins \in [Trajectories -> 0..NumTrajectories]
<1>1. NumTrajectories \in Nat /\ 1 \in Int /\ NumTrajectories \in Int
  BY VerifierAssumption
<1>2. IsFiniteSet(Trajectories) /\ Cardinality(Trajectories) = NumTrajectories
  BY <1>1, FS_Interval DEF Trajectories
<1>3. ASSUME NEW t \in Trajectories
      PROVE  wins[t] <= NumTrajectories
  <2>1. wins[t] = Cardinality(Beaten(t)) /\ Beaten(t) \in SUBSET Trajectories
    BY DEF TournamentInv, Tournament, Beaten
  <2> QED
    BY <1>2, <2>1, FS_Subset
<1> QED
  BY <1>1, <1>3 DEF TournamentInv, TournamentTypes

LEMMA TournamentInductive == TournamentInv /\ [VerifierNext]_verifierVars => TournamentInv'
<1>. SUFFICES ASSUME TournamentInv, [VerifierNext]_verifierVars
              PROVE  TournamentInv'
  OBVIOUS
<1>1. CASE UNCHANGED verifierVars
  <2>1. \A t \in Trajectories : Beaten(t)' = Beaten(t)
    BY <1>1 DEF verifierVars, Beaten, Met, AllPairs
  <2> QED
    BY <1>1, <2>1 DEF verifierVars, TournamentInv, TournamentTypes, Tournament, WinnerUnbeaten,
       Evaluated, AllPairs
<1> QED
  BY <1>1, VerifyKeepsTournament, CompareKeepsTournament, SelectKeepsTournament DEF VerifierNext

\* The round robin selects a trajectory that none exceeds in overall score, however many
\* there are and however the model and the fallback scored them.
THEOREM WinnerIsBest == VerifierSpec => []WinnerUnbeaten
<1>1. TournamentInv => WinnerUnbeaten
  BY DEF TournamentInv
<1> QED
  BY <1>1, TournamentAtFirst, TournamentInductive, PTL DEF VerifierSpec

\* Scores and wins keep their ranges: no criterion has more than 1.0 for each of its
\* verifications, whatever letters the positions of a response hold.
THEOREM VerifierTypeCorrect == VerifierSpec => []VerifierTypeOK
<1>1. TournamentInv /\ ScoresAdd => VerifierTypeOK
  <2>. SUFFICES ASSUME TournamentInv, ScoresAdd
                PROVE  VerifierTypeOK
    OBVIOUS
  <2>1. /\ criterion \in [Trajectories -> [Criteria -> 0..Repeats * Unit]]
        /\ overall \in [Trajectories -> 0..NumCriteria * Repeats * Unit]
    BY OverallInRange DEF ScoresAdd
  <2>2. best \in 0..NumTrajectories
    <3>1. best = 0 \/ best \in Trajectories
      BY DEF TournamentInv, Tournament
    <3> QED
      BY <3>1, VerifierAssumption DEF Trajectories
  <2>3. pairs \subseteq Trajectories \X Trajectories
    BY DEF TournamentInv, TournamentTypes, AllPairs
  <2> QED
    BY <2>1, <2>2, <2>3, WinsInRange DEF VerifierTypeOK, ScoresAdd
<1> QED
  BY <1>1, TournamentAtFirst, TournamentInductive, ScoresAtFirst, ScoresInductive, PTL
     DEF VerifierSpec

(***************************************************************************)
(* The reward of the winner.                                               *)
(***************************************************************************)
LEMMA Weights ==
    ASSUME NEW c \in Criteria
    PROVE  Weight(c) \in Nat /\ LeastWeight \in Nat /\ LeastWeight <= Weight(c)
<1>1. ASSUME NEW d \in Criteria
      PROVE  Weight(d) \in Nat
  <2>. DEFINE found == {i \in DOMAIN Keys : Keys[i] \in Mentions[d]}
  <2>1. CASE found = {}
    BY <2>1 DEF Weight
  <2>2. CASE found # {}
    <3>1. found \in SUBSET Nat
      BY VerifierAssumption
    <3>2. Weight(d) = KeyWeight[Keys[Min(found)]]
      BY <2>2 DEF Weight
    <3>3. \A i \in found : KeyWeight[Keys[i]] \in Nat
      BY VerifierAssumption
    <3>. HIDE DEF found
    <3>4. Min(found) \in found
      BY <2>2, <3>1, LeastMember DEF Min
    <3> QED
      BY <3>2, <3>3, <3>4
  <2> QED
    BY <2>1, <2>2
<1>. DEFINE W == {Weight(d) : d \in Criteria}
<1>2. W \in SUBSET Nat /\ Weight(c) \in W
  BY <1>1
<1>3. LeastWeight = Min(W)
  BY DEF LeastWeight
<1>. HIDE DEF W
<1>4. \E w \in W : \A v \in W : w <= v
  BY <1>2, LeastMember
<1>5. Min(W) \in W /\ \A v \in W : Min(W) <= v
  BY <1>4 DEF Min
<1> QED
  BY <1>2, <1>3, <1>5

\* Exchanging the difference of two scores for the largest possible one.
LEMMA Exchange ==
    ASSUME NEW w \in Nat, NEW least \in Nat, least <= w, NEW most \in Nat,
           NEW x \in 0..most, NEW y \in 0..most
    PROVE  least * y + w * x <= least * x + (w * y + (w - least) * most)
<1>1. PICK d \in Nat : w = least + d
  <2>1. w - least \in Nat /\ w = least + (w - least)
    OBVIOUS
  <2> QED
    BY <2>1
<1>2. x - y <= most /\ x - y \in Int
  OBVIOUS
<1>3. d * (x - y) <= d * most
  BY <1>2, Products
<1>4. w - least = d /\ d * (x - y) = d * x - d * y
  BY <1>1
<1>5. w * x = least * x + d * x /\ w * y = least * y + d * y
  BY <1>1
<1>6. /\ least * x \in Int /\ least * y \in Int /\ d * x \in Int /\ d * y \in Int
      /\ d * most \in Int
  OBVIOUS
<1>7. least * y + (least * x + d * x) <= least * x + (least * y + d * y + d * most)
  BY <1>3, <1>4, <1>6
<1> QED
  BY <1>4, <1>5, <1>7

\* A trajectory whose overall score is no higher has a reward that is higher by at most
\* what the weights differ from the least.
LEMMA RewardOfUnbeaten ==
    ASSUME ScoresAdd, NEW t \in Trajectories, NEW b \in Trajectories, overall[t] <= overall[b]
    PROVE  Reward(t) - Reward(b) <=
               SumFunction([c \in Criteria |-> (Weight(c) - LeastWeight) * (Repeats * Unit)])
<1>. DEFINE L == LeastWeight
            x == criterion[t]
            y == criterion[b]
            wx == [c \in Criteria |-> Weight(c) * criterion[t][c]]
            wy == [c \in Criteria |-> Weight(c) * criterion[b][c]]
            gap == [c \in Criteria |-> (Weight(c) - LeastWeight) * (Repeats * Unit)]
            left == [c \in Criteria |-> L * y[c] + wx[c]]
            right == [c \in Criteria |-> L * x[c] + (1 * wy[c] + gap[c])]
            both == [c \in Criteria |-> 1 * wy[c] + gap[c]]
<1>1. Repeats * Unit \in Nat
  BY VerifierAssumption
<1>2. ASSUME NEW c \in Criteria
      PROVE  /\ x[c] \in Int /\ y[c] \in Int /\ wx[c] \in Int /\ wy[c] \in Int
             /\ gap[c] \in Int
             /\ left[c] \in Int /\ right[c] \in Int /\ both[c] \in Int
             /\ left[c] <= right[c]
  <2>. DEFINE w == Weight(c)
              most == Repeats * Unit
  <2>1. w \in Nat /\ L \in Nat /\ L <= w /\ most \in Nat
    BY <1>1, Weights
  <2>2. x[c] \in 0..most /\ y[c] \in 0..most
    BY OverallInRange
  <2>. DEFINE a == x[c]
              e == y[c]
  <2>3. /\ wx[c] = w * a /\ wy[c] = w * e /\ gap[c] = (w - L) * most
        /\ left[c] = L * e + w * a
        /\ right[c] = L * a + (1 * (w * e) + (w - L) * most)
        /\ both[c] = 1 * (w * e) + (w - L) * most
    OBVIOUS
  <2>4. a \in 0..most /\ e \in 0..most
    BY <2>2
  <2>. HIDE DEF w, most, L, a, e, wx, wy, gap, left, right, both
  <2>5. L * e + w * a <= L * a + (w * e + (w - L) * most)
    BY <2>1, <2>4, Exchange
  <2>6. /\ L * e \in Int /\ w * a \in Int /\ L * a \in Int /\ w * e \in Int
        /\ (w - L) * most \in Int /\ a \in Int /\ e \in Int
    BY <2>1, <2>4
  <2> QED
    BY <2>3, <2>5, <2>6 DEF a, e
<1>3. /\ Combines(left, L, y, wx, Criteria)
      /\ Combines(both, 1, wy, gap, Criteria)
      /\ Combines(right, L, x, both, Criteria)
  BY <1>2 DEF Combines
<1>4. /\ Reward(t) = SumFunctionOnSet(wx, Criteria)
      /\ Reward(b) = SumFunctionOnSet(wy, Criteria)
      /\ SumFunction(gap) = SumFunctionOnSet(gap, Criteria)
  BY DEF Reward, SumFunction
<1>5. overall[t] = SumFunctionOnSet(x, Criteria) /\ overall[b] = SumFunctionOnSet(y, Criteria)
  BY DEF ScoresAdd
<1>6. CASE Criteria = {}
  <2>1. /\ SumFunctionOnSet(wx, {}) = 0 /\ SumFunctionOnSet(wy, {}) = 0
        /\ SumFunctionOnSet(gap, {}) = 0
    BY SumOfNothing
  <2>2. 0 - 0 <= 0
    OBVIOUS
  <2>. HIDE DEF wx, wy, gap
  <2>3. Reward(t) = 0 /\ Reward(b) = 0 /\ SumFunction(gap) = 0
    BY <1>4, <1>6, <2>1
  <2>4. Reward(t) - Reward(b) <= SumFunction(gap)
    BY <2>2, <2>3
  <2> QED
    BY <2>4 DEF gap
<1>7. CASE Criteria # {}
  <2>1. L \in Nat /\ L \in Int /\ 1 \in Int /\ IsFiniteSet(Criteria)
    BY <1>7, Weights, CriteriaAreFinite
  <2>2. overall[t] \in Int /\ overall[b] \in Int
    BY DEF ScoresAdd
  <2>. HIDE DEF L, x, y, wx, wy, gap, left, right, both
  <2>3. SumFunctionOnSet(left, Criteria)
        = L * SumFunctionOnSet(y, Criteria) + SumFunctionOnSet(wx, Criteria)
    BY <1>3, <2>1, SumOfCombination
  <2>4. SumFunctionOnSet(both, Criteria)
        = 1 * SumFunctionOnSet(wy, Criteria) + SumFunctionOnSet(gap, Criteria)
    BY <1>3, <2>1, SumOfCombination
  <2>5. SumFunctionOnSet(right, Criteria)
        = L * SumFunctionOnSet(x, Criteria) + SumFunctionOnSet(both, Criteria)
    BY <1>3, <2>1, SumOfCombination
  <2>6. SumFunctionOnSet(left, Criteria) <= SumFunctionOnSet(right, Criteria)
    BY <1>2, <2>1, SumIsMonotonic
  <2>7. L * overall[t] <= L * overall[b] /\ L * overall[t] \in Int /\ L * overall[b] \in Int
    BY <2>1, <2>2, Products
  <2>8. /\ SumFunctionOnSet(wx, Criteria) \in Int
        /\ SumFunctionOnSet(wy, Criteria) \in Int
        /\ SumFunctionOnSet(gap, Criteria) \in Int
    BY <1>2, <2>1, SumWithout
  <2>. DEFINE A == SumFunctionOnSet(wx, Criteria)
              B == SumFunctionOnSet(wy, Criteria)
              G == SumFunctionOnSet(gap, Criteria)
  <2>9. L * overall[b] + A <= L * overall[t] + (1 * B + G)
    BY <1>5, <2>3, <2>4, <2>5, <2>6
  <2>10. A \in Int /\ B \in Int /\ G \in Int
    BY <2>8
  <2>. HIDE DEF A, B, G
  <2>11. A - B <= G
    BY <2>7, <2>9, <2>10
  <2>12. Reward(t) - Reward(b) <= SumFunction(gap)
    BY <1>4, <2>11 DEF A, B, G
  <2> QED
    BY <2>12 DEF gap
<1> QED
  BY <1>6, <1>7

\* For any weights, criteria and answers: the reward of the selected trajectory is less
\* than that of another one by no more than the weights differ from the least of them.
THEOREM WinnerIsNearReward == VerifierSpec => []WinnerNearReward
<1>1. TournamentInv /\ ScoresAdd => WinnerNearReward
  <2>. SUFFICES ASSUME TournamentInv, ScoresAdd, best # 0, NEW t \in Trajectories
                PROVE  Reward(t) - Reward(best) <=
                  SumFunction([c \in Criteria |-> (Weight(c) - LeastWeight) * (Repeats * Unit)])
    BY DEF WinnerNearReward
  <2>1. best \in Trajectories /\ overall[t] <= overall[best]
    BY DEF TournamentInv, Tournament, WinnerUnbeaten
  <2> QED
    BY <2>1, RewardOfUnbeaten
<1> QED
  BY <1>1, TournamentAtFirst, TournamentInductive, ScoresAtFirst, ScoresInductive, PTL
     DEF VerifierSpec

(***************************************************************************)
(* The ranking: a list of selected nodes has the best one first.           *)
(***************************************************************************)

\* Scores and then ages put the nodes of a set in order.
LEMMA AheadOrders ==
    ASSUME NEW S \in SUBSET Nodes, NEW score, \A n \in S : score[n] \in Int
    PROVE  Sorts(ByScore(S, score), S, {p \in S \X S : Ahead(score, p[1], p[2])})
<1>. DEFINE R == {p \in S \X S : Ahead(score, p[1], p[2])}
<1>1. \A m, n \in S : <<m, n>> \in R <=> Ahead(score, m, n)
  OBVIOUS
<1>2. \A m \in S : CreatedAt[m] \in Int
  BY NodesAssumption
<1>3. \A m, n \in S : m # n => CreatedAt[m] # CreatedAt[n]
  BY NodesAssumption DEF IsInjective
<1>. HIDE DEF R
<1>4. Orders(R, S)
  <2>1. \A m \in S : <<m, m>> \notin R
    BY <1>1, <1>2 DEF Ahead
  <2>2. \A m, n \in S : m # n => <<m, n>> \in R \/ <<n, m>> \in R
    BY <1>1, <1>2, <1>3 DEF Ahead
  <2>3. \A l, m, n \in S : <<l, m>> \in R /\ <<m, n>> \in R => <<l, n>> \in R
    BY <1>1, <1>2 DEF Ahead
  <2> QED
    BY <2>1, <2>2, <2>3 DEF Orders
<1>5. IsFiniteSet(S)
  BY NodesAssumption, FS_Subset
<1>6. Sorts(Arranged(S, R), S, R)
  BY <1>4, <1>5, ArrangedSorts
<1> QED
  BY <1>6 DEF R, ByScore

LEMMA CutList ==
    ASSUME NEW S, NEW list \in Seq(S), NEW k \in Nat \ {0}
    PROVE  /\ Cut(list, k) \in Seq(S)
           /\ Len(Cut(list, k)) <= k /\ Len(Cut(list, k)) <= Len(list)
           /\ \A i \in DOMAIN Cut(list, k) : i \in DOMAIN list /\ Cut(list, k)[i] = list[i]
           /\ list # <<>> => Cut(list, k) # <<>>
           /\ Len(Cut(list, k)) # k => Cut(list, k) = list
<1>. DEFINE n == IF k < Len(list) THEN k ELSE Len(list)
<1>1. n \in Nat /\ n <= Len(list) /\ n <= k /\ (n # k => n = Len(list)) /\ Len(list) \in Nat
  OBVIOUS
<1>2. Cut(list, k) = SubSeq(list, 1, n)
  BY DEF Cut
<1>. HIDE DEF n
<1>3. SubSeq(list, 1, n) \in Seq(S) /\ Len(SubSeq(list, 1, n)) = n
  BY <1>1
<1>4. \A i \in 1..n : SubSeq(list, 1, n)[i] = list[i] /\ i \in DOMAIN list
  BY <1>1
<1>5. list # <<>> => n # 0
  BY <1>1
<1>6. n = Len(list) => SubSeq(list, 1, n) = list
  BY <1>1, <1>3, <1>4
<1> QED
  BY <1>1, <1>2, <1>3, <1>4, <1>5, <1>6

\* A list of the nodes S as a router selects it: each once, not too many, some if there are.
Selection(list, S) ==
    /\ list \in Seq(S) /\ Len(list) <= MaxNodes /\ IsInjective(list)
    /\ S # {} => list # <<>>

LEMMA BestFirst ==
    ASSUME NEW S \in SUBSET Nodes, NEW score, \A n \in S : score[n] \in Int
    PROVE  LET list == Cut(ByScore(S, score), MaxNodes)
           IN  /\ Selection(list, S)
               /\ S # {} => \A n \in S : score[list[1]] >= score[n]
<1>. DEFINE sorted == ByScore(S, score)
            R == {p \in S \X S : Ahead(score, p[1], p[2])}
            list == Cut(sorted, MaxNodes)
<1>1. Sorts(sorted, S, R)
  BY AheadOrders
<1>2. \A m, n \in S : <<m, n>> \in R => score[m] >= score[n]
  BY DEF Ahead
<1>. HIDE DEF sorted, R
<1>3. sorted \in Seq(S)
  BY <1>1 DEF Sorts
<1>4. /\ list \in Seq(S) /\ Len(list) <= MaxNodes
      /\ \A i \in DOMAIN list : i \in DOMAIN sorted /\ list[i] = sorted[i]
      /\ sorted # <<>> => list # <<>>
  BY <1>3, CutList, RetrievalAssumption
<1>. HIDE DEF list
<1>5. IsInjective(list)
  BY <1>1, <1>4 DEF Sorts, IsInjective
<1>6. S # {} => sorted # <<>>
  BY <1>1 DEF Sorts
<1>7. ASSUME NEW n \in S PROVE score[list[1]] >= score[n]
  <2>1. PICK k \in DOMAIN sorted : sorted[k] = n
    BY <1>1 DEF Sorts
  <2>2. list # <<>> /\ 1 \in DOMAIN list
    BY <1>4, <1>6
  <2>3. 1 \in DOMAIN sorted /\ list[1] = sorted[1] /\ sorted[1] \in S
    BY <1>3, <1>4, <2>2
  <2>4. CASE k = 1
    BY <2>1, <2>3, <2>4
  <2>5. CASE k # 1
    <3>1. 1 < k
      BY <1>3, <2>1, <2>5
    <3>2. <<sorted[1], n>> \in R
      BY <1>1, <2>1, <2>3, <3>1 DEF Sorts
    <3> QED
      BY <1>2, <2>3, <3>2
  <2> QED
    BY <2>4, <2>5
<1>8. Selection(list, S)
  BY <1>4, <1>5, <1>6 DEF Selection
<1> QED
  BY <1>7, <1>8 DEF list, sorted

\* A term's share counts, whatever the other nodes.
LEMMA TfIdfOfTerms ==
    ASSUME NEW S \in SUBSET Nodes, NEW n \in S, NEW q \in Questions
    PROVE  /\ TfIdf(q, n, S) \in Nat
           /\ TfIdf(q, n, S) > 0 <=> \E t \in Asked[q].terms : Body[n].occurs[t] > 0
<1>. DEFINE terms == Asked[q].terms
            times(t) == Body[n].occurs[t]
            part == Measure \div Body[n].length
            w == [t \in terms |-> IF times(t) > 0 THEN times(t) * part * Idf(t, S) ELSE 0]
<1>1. IsFiniteSet(terms) /\ \A t \in terms : times(t) \in Nat
  BY RankingAssumption
<1>2. part \in Nat \ {0}
  <2>1. Body[n].length \in Nat \ {0} /\ Measure % Body[n].length = 0 /\ Measure \in Nat \ {0}
    BY RankingAssumption
  <2> QED
    BY <2>1, ExactQuotient
<1>3. ASSUME NEW t \in terms, times(t) > 0
      PROVE  Idf(t, S) \in Nat /\ Idf(t, S) >= 100
  <2>. DEFINE having == {m \in S : Body[m].occurs[t] > 0}
  <2>1. n \in having /\ having \in SUBSET S
    BY <1>3
  <2>2. /\ IsFiniteSet(Nodes) /\ IsFiniteSet(S) /\ IsFiniteSet(having)
        /\ Cardinality(S) <= Cardinality(Nodes) /\ Cardinality(having) <= Cardinality(S)
    BY <2>1, NodesAssumption, FS_Subset
  <2>. HIDE DEF having
  <2>3. Cardinality(S) \in Nat /\ Cardinality(having) \in Nat /\ Cardinality(Nodes) \in Nat
    BY <2>2, FS_CardinalityType
  <2>4. Cardinality(having) # 0
    BY <2>1, <2>2, FS_EmptySet
  <2>5. Cardinality(S) \in 1..Cardinality(Nodes) /\ Cardinality(having) \in 1..Cardinality(S)
    BY <2>2, <2>3, <2>4
  <2>6. Idf(t, S) = IdfPercent[Cardinality(S)][Cardinality(having)]
    BY DEF Idf, having
  <2> QED
    BY <2>5, <2>6, RankingAssumption
<1>. HIDE DEF part
<1>4. ASSUME NEW t \in terms, times(t) > 0 PROVE w[t] \in Nat /\ w[t] > 0
  <2>1. PICK i \in Nat : i = Idf(t, S) /\ i >= 100
    BY <1>3, <1>4
  <2>2. PICK o \in Nat : o = times(t) /\ o > 0
    BY <1>1, <1>4
  <2>3. o * part \in Nat /\ o * part > 0
    BY <1>2, <2>2
  <2>4. o * part * i \in Nat /\ o * part * i > 0
    BY <2>1, <2>3
  <2>5. w[t] = o * part * i
    BY <1>4, <2>1, <2>2
  <2> QED
    BY <2>4, <2>5
<1>5. ASSUME NEW t \in terms, ~ (times(t) > 0) PROVE w[t] = 0
  BY <1>5
<1>6. \A t \in terms : w[t] \in Nat
  BY <1>4, <1>5
<1>7. TfIdf(q, n, S) = SumFunctionOnSet(w, terms)
  BY DEF TfIdf, part
<1>. HIDE DEF w, terms
<1>8. SumFunctionOnSet(w, terms) \in Nat /\ \A t \in terms : w[t] <= SumFunctionOnSet(w, terms)
  BY <1>1, <1>6, SumOfNaturals
<1>9. ASSUME NEW t \in terms, times(t) > 0 PROVE SumFunctionOnSet(w, terms) > 0
  BY <1>4, <1>8, <1>9
<1>10. ASSUME \A t \in terms : ~ (times(t) > 0) PROVE SumFunctionOnSet(w, terms) = 0
  <2>1. 0 \in Int /\ \A t \in terms : w[t] = 0
    BY <1>5, <1>10
  <2>2. SumFunctionOnSet(w, terms) = Cardinality(terms) * 0
    BY <1>1, <2>1, SumOfConstant
  <2>3. Cardinality(terms) \in Nat
    BY <1>1, FS_CardinalityType
  <2> QED
    BY <2>2, <2>3
<1> QED
  BY <1>7, <1>8, <1>9, <1>10 DEF terms

LEMMA BaselineOfWords ==
    ASSUME NEW S \in SUBSET Nodes, NEW q \in Questions
    PROVE  /\ \A n \in S : Baseline(q, S)[n] \in Nat
           /\ \A n \in S : Baseline(q, S)[n] > 0 => LedTo(q, n)
           /\ \A n \in S : LedTo(q, n) => \E m \in Ranked(q, S) : Baseline(q, S)[m] > 0
<1>. DEFINE among == Considered(q, S)
            own == {n \in S : AsksAbout(q, Body[n].titled)}
<1>1. among \in SUBSET S /\ among \in SUBSET Nodes
  BY DEF Considered
<1>2. among = IF own = {} THEN S ELSE own
  BY DEF Considered
<1>3. \A n \in Nodes : Boost(q, n) \in Nat /\ (Boost(q, n) > 0 <=> AsksAbout(q, Body[n].mentioned))
  BY RankingAssumption DEF Boost
<1>4. \A n \in among : TfIdf(q, n, among) \in Nat
  BY <1>1, TfIdfOfTerms
<1>5. \A n \in S : Baseline(q, S)[n] = IF n \in among THEN TfIdf(q, n, among) + Boost(q, n) ELSE 0
  BY DEF Baseline
<1>6. \A n \in among : TfIdf(q, n, among) > 0 <=> \E t \in Asked[q].terms : Body[n].occurs[t] > 0
  BY <1>1, TfIdfOfTerms
<1>. HIDE DEF among
<1>7. ASSUME NEW n \in S PROVE Baseline(q, S)[n] \in Nat
  BY <1>1, <1>3, <1>4, <1>5
<1>8. \A n \in among : Baseline(q, S)[n] > 0 <=> LedTo(q, n)
  <2>1. TAKE n \in among
  <2>2. Baseline(q, S)[n] = TfIdf(q, n, among) + Boost(q, n)
    BY <1>1, <1>5
  <2>3. TfIdf(q, n, among) \in Nat /\ Boost(q, n) \in Nat
    BY <1>1, <1>3, <1>4
  <2>4. Baseline(q, S)[n] > 0 <=> (TfIdf(q, n, among) > 0 \/ Boost(q, n) > 0)
    BY <2>2, <2>3
  <2> QED
    BY <1>1, <1>3, <1>6, <2>4 DEF LedTo
<1>9. ASSUME NEW n \in S, Baseline(q, S)[n] > 0 PROVE LedTo(q, n)
  BY <1>5, <1>8, <1>9
<1>10. ASSUME NEW n \in S, LedTo(q, n)
       PROVE  \E m \in Ranked(q, S) : Baseline(q, S)[m] > 0
  <2>1. \E m \in among : LedTo(q, m)
    <3>1. CASE own = {}
      BY <1>2, <1>10, <3>1
    <3>2. CASE own # {}
      <4>1. PICK m \in own : TRUE
        BY <3>2
      <4>2. AsksAbout(q, Body[m].mentioned)
        BY RankingAssumption DEF AsksAbout
      <4> QED
        BY <1>2, <4>1, <4>2 DEF LedTo
    <3> QED
      BY <3>1, <3>2
  <2> QED
    BY <1>8, <2>1 DEF Ranked, among
<1> QED
  BY <1>7, <1>9, <1>10

\* By its words: the baseline router leads with a node they lead to, if there is one.
LEMMA BaselineSelects ==
    ASSUME NEW S \in SUBSET Nodes, NEW q \in Questions
    PROVE  LET list == BaselineSelect(q, S)
           IN  /\ Selection(list, S)
               /\ (\E n \in S : LedTo(q, n)) => LedTo(q, list[1])
<1>. DEFINE ranked == Ranked(q, S)
            base == Baseline(q, S)
            list == BaselineSelect(q, S)
<1>1. ranked \in SUBSET S /\ ranked \in SUBSET Nodes
  BY DEF Ranked, Considered
<1>2. /\ \A n \in S : base[n] \in Int
      /\ \A n \in S : base[n] > 0 => LedTo(q, n)
      /\ \A n \in S : LedTo(q, n) => \E m \in ranked : base[m] > 0
  <2>1. \A n \in S : base[n] \in Nat
    BY BaselineOfWords
  <2>2. \A n \in S : base[n] > 0 => LedTo(q, n)
    BY BaselineOfWords
  <2>3. \A n \in S : LedTo(q, n) => \E m \in ranked : base[m] > 0
    BY BaselineOfWords
  <2>. HIDE DEF base, ranked
  <2> QED
    BY <2>1, <2>2, <2>3
<1>3. list = IF ranked = {} THEN Cut(ByAge(S), MaxNodes) ELSE Cut(ByScore(ranked, base), MaxNodes)
  BY DEF BaselineSelect
<1>. HIDE DEF ranked, base, list
<1>4. CASE ranked = {}
  <2>. DEFINE zero == [n \in S |-> 0]
  <2>1. \A n \in S : zero[n] \in Int
    OBVIOUS
  <2>. HIDE DEF zero
  <2>2. Selection(Cut(ByScore(S, zero), MaxNodes), S)
    BY <2>1, BestFirst
  <2>3. list = Cut(ByScore(S, zero), MaxNodes)
    BY <1>3, <1>4 DEF ByAge, zero
  <2>4. Selection(list, S)
    BY <2>2, <2>3
  <2>5. ~ \E n \in S : LedTo(q, n)
    BY <1>2, <1>4
  <2> QED
    BY <2>4, <2>5 DEF list
<1>5. CASE ranked # {}
  <2>1. \A n \in ranked : base[n] \in Int
    BY <1>1, <1>2
  <2>2. list = Cut(ByScore(ranked, base), MaxNodes)
    BY <1>3, <1>5
  <2>3. Selection(list, ranked) /\ \A n \in ranked : base[list[1]] >= base[n]
    BY <1>1, <1>5, <2>1, <2>2, BestFirst
  <2>4. Selection(list, S)
    BY <1>1, <1>5, <2>3 DEF Selection
  <2>5. list[1] \in ranked
    BY <1>5, <2>3 DEF Selection
  <2>6. ASSUME NEW n \in S, LedTo(q, n) PROVE LedTo(q, list[1])
    <3>1. PICK m \in ranked : base[m] > 0
      BY <1>2, <2>6
    <3>2. base[list[1]] >= base[m] /\ base[m] \in Int /\ base[list[1]] \in Int
      BY <2>1, <2>3, <2>5
    <3>3. base[list[1]] > 0
      BY <3>1, <3>2
    <3> QED
      BY <1>1, <1>2, <2>5, <3>3
  <2> QED
    BY <2>4, <2>6 DEF list
<1> QED
  BY <1>4, <1>5

\* What the hybrid router goes by.
Kinds == {"none", "lexical", "near", "zero"}

LEMMA SimilarInRange ==
    \A kind \in Kinds : \A q \in Questions : \A n \in Nodes : Similar(kind, q, n) \in 0..100
BY RankingAssumption DEF Similar, Kinds

\* Of the hybrid score: the best of the words makes 25 of 100, more than any confidence
\* makes; and nothing but its confidence counts for a node that is not relevant.
Prefers(score, base, kind, q, S) ==
    /\ \A n \in S : score[n] \in Int
    /\ \A n \in S : ~ LedTo(q, n) /\ ~ (Similar(kind, q, n) > 0) => score[n] <= 1000
    /\ \A n \in S : 65 * Similar(kind, q, n) > 10 * 100 => score[n] > 1000
    /\ \A n \in S : LedTo(q, n) => \E m \in S : base[m] > 0 /\ score[m] > 1000

LEMMA HybridScores ==
    ASSUME NEW S \in SUBSET Nodes, NEW q \in Questions, NEW kind \in Kinds
    PROVE  Prefers(HybridScore(kind, q, S), Baseline(q, S), kind, q, S)
<1>. DEFINE base == Baseline(q, S)
            all == {0} \cup {base[n] : n \in S}
            top == Max(all)
            share == [n \in S |-> IF top > 0 THEN (100 * base[n]) \div top ELSE 0]
            score == HybridScore(kind, q, S)
<1>1. /\ \A n \in S : base[n] \in Nat
      /\ \A n \in S : base[n] > 0 => LedTo(q, n)
      /\ \A n \in S : LedTo(q, n) => \E m \in Ranked(q, S) : base[m] > 0
  BY BaselineOfWords
<1>2. \A n \in S : score[n] = 65 * Similar(kind, q, n) + 25 * share[n] + 10 * Serving[n]
  BY DEF HybridScore
<1>3. Ranked(q, S) \in SUBSET S
  BY DEF Ranked, Considered
<1>4. \A n \in S : Similar(kind, q, n) \in 0..100 /\ Serving[n] \in 0..100
  BY SimilarInRange, RankingAssumption
<1>. HIDE DEF base, score
<1>5. \E x \in all : \A y \in all : x >= y
  <2>1. CASE S = {}
    BY <2>1
  <2>2. CASE S # {}
    <3>1. \A n \in S : base[n] \in Int
      BY <1>1
    <3>2. PICK list : Selection(list, S) /\ \A n \in S : base[list[1]] >= base[n]
      BY <2>2, <3>1, BestFirst
    <3>3. list[1] \in S
      BY <2>2, <3>2 DEF Selection
    <3> QED
      BY <1>1, <3>2, <3>3
  <2> QED
    BY <2>1, <2>2
<1>6. top \in all /\ \A y \in all : top >= y
  BY <1>5 DEF Max
<1>7. top \in Nat
  BY <1>1, <1>6
<1>. HIDE DEF top
<1>8. ASSUME NEW n \in S PROVE share[n] \in 0..100
  <2>1. CASE top > 0
    <3>1. base[n] \in Nat /\ base[n] <= top /\ top \in Nat \ {0}
      BY <1>1, <1>6, <1>7, <2>1
    <3>2. 100 * base[n] \in Nat /\ 100 * base[n] <= 100 * top
      BY <3>1
    <3>3. (100 * base[n]) \div top \in 0..100
      BY <3>1, <3>2, QuotientInRange
    <3> QED
      BY <2>1, <3>3
  <2>2. CASE ~ (top > 0)
    BY <2>2
  <2> QED
    BY <2>1, <2>2
<1>9. ASSUME NEW n \in S, base[n] = 0 PROVE share[n] = 0
  <2>1. CASE top > 0
    <3>1. top \in Nat \ {0}
      BY <1>7, <2>1
    <3>2. 0 <= 0 * top /\ 100 * base[n] = 0
      BY <1>9, <3>1
    <3>3. 0 \div top \in 0..0
      BY <3>1, <3>2, QuotientInRange
    <3> QED
      BY <2>1, <3>2, <3>3
  <2>2. CASE ~ (top > 0)
    BY <2>2
  <2> QED
    BY <2>1, <2>2
<1>10. ASSUME NEW n \in S, base[n] = top, top > 0 PROVE share[n] = 100
  <2>1. top \in Nat \ {0}
    BY <1>7, <1>10
  <2>2. (100 * top) \div top = 100
    <3>. DEFINE d == (100 * top) \div top
    <3>1. d \in Int /\ d * top <= 100 * top /\ 100 * top < d * top + top
      BY <2>1, Division
    <3>2. d \in 0..100
      BY <2>1, QuotientInRange
    <3>. HIDE DEF d
    <3>3. SUFFICES ASSUME d <= 99 PROVE FALSE
      BY <3>2 DEF d
    <3>4. d * top <= 99 * top
      BY <2>1, <3>1, <3>3, Products
    <3>5. d * top \in Int
      BY <2>1, <3>1
    <3> QED
      BY <2>1, <3>1, <3>4, <3>5
  <2> QED
    BY <1>10, <2>2
<1>. HIDE DEF share, all
<1>11. ASSUME NEW n \in S
       PROVE  \E x \in 0..100, y \in 0..100, z \in 0..100 :
                 /\ x = Similar(kind, q, n) /\ y = share[n]
                 /\ score[n] = 65 * x + 25 * y + 10 * z
  <2>1. PICK x \in 0..100 : x = Similar(kind, q, n)
    BY <1>4
  <2>2. PICK y \in 0..100 : y = share[n]
    BY <1>8
  <2>3. PICK z \in 0..100 : z = Serving[n]
    BY <1>4
  <2>4. score[n] = 65 * x + 25 * y + 10 * z
    BY <1>2, <2>1, <2>2, <2>3, Zenon
  <2> QED
    BY <2>1, <2>2, <2>4, ZenonT(40)
<1>12. ASSUME NEW n \in S, ~ LedTo(q, n), ~ (Similar(kind, q, n) > 0) PROVE score[n] <= 1000
  <2>1. share[n] = 0
    BY <1>1, <1>9, <1>12
  <2>2. PICK x \in 0..100, y \in 0..100, z \in 0..100 :
           x = Similar(kind, q, n) /\ y = share[n] /\ score[n] = 65 * x + 25 * y + 10 * z
    BY <1>11
  <2>3. ~ (x > 0) /\ y = 0
    BY <1>12, <2>1, <2>2, Zenon
  <2>4. 65 * x + 25 * y + 10 * z <= 1000
    BY <2>3
  <2> QED
    BY <2>2, <2>4, Zenon
<1>13. ASSUME NEW n \in S, 65 * Similar(kind, q, n) > 10 * 100 PROVE score[n] > 1000
  <2>1. PICK x \in 0..100, y \in 0..100, z \in 0..100 :
           x = Similar(kind, q, n) /\ y = share[n] /\ score[n] = 65 * x + 25 * y + 10 * z
    BY <1>11
  <2>2. 65 * x > 10 * 100
    BY <1>13, <2>1, Zenon
  <2>3. 65 * x + 25 * y + 10 * z > 1000
    BY <2>2
  <2> QED
    BY <2>1, <2>3, ZenonT(40)
<1>14. ASSUME NEW n \in S, LedTo(q, n)
       PROVE  \E m \in S : base[m] > 0 /\ score[m] > 1000
  <2>1. PICK m \in S : base[m] > 0
    BY <1>1, <1>3, <1>14
  <2>2. top > 0
    BY <1>1, <1>6, <1>7, <2>1 DEF all
  <2>3. PICK first \in S : base[first] = top
    BY <1>6, <2>2 DEF all
  <2>4. share[first] = 100
    BY <1>10, <2>2, <2>3
  <2>5. PICK x \in 0..100, y \in 0..100, z \in 0..100 :
           y = share[first] /\ score[first] = 65 * x + 25 * y + 10 * z
    BY <1>11, ZenonT(40)
  <2>6. y = 100
    BY <2>4, <2>5, Zenon
  <2>7. 65 * x + 25 * y + 10 * z > 1000
    BY <2>6
  <2>8. score[first] > 1000
    BY <2>5, <2>7, ZenonT(40)
  <2> QED
    BY <2>2, <2>3, <2>8
<1>15. ASSUME NEW n \in S PROVE score[n] \in Int
  <2>1. PICK x \in 0..100, y \in 0..100, z \in 0..100 : score[n] = 65 * x + 25 * y + 10 * z
    BY <1>11
  <2>2. 65 * x + 25 * y + 10 * z \in Int
    OBVIOUS
  <2> QED
    BY <2>1, <2>2, Zenon
<1> QED
  BY <1>12, <1>13, <1>14, <1>15 DEF score, base, Prefers

\* The hybrid router leads with a relevant node, if there is one that tells.
LEMMA HybridSelects ==
    ASSUME NEW S \in SUBSET Nodes, NEW q \in Questions, NEW kind \in Kinds
    PROVE  LET list == HybridSelect(kind, q, S)
           IN  /\ Selection(list, S)
               /\ (\E n \in S : LedTo(q, n) \/ 65 * Similar(kind, q, n) > 10 * 100)
                     => LedTo(q, list[1]) \/ Similar(kind, q, list[1]) > 0
<1>. DEFINE eligible == Eligible(kind, q, S)
            score == HybridScore(kind, q, S)
            list == HybridSelect(kind, q, S)
            tells(n) == 65 * Similar(kind, q, n) > 10 * 100
<1>1. eligible \in SUBSET S /\ eligible \in SUBSET Nodes
  BY DEF Eligible
<1>2. Prefers(score, Baseline(q, S), kind, q, S)
  BY HybridScores
<1>3. list = IF eligible = {} THEN BaselineSelect(q, S)
             ELSE Cut(ByScore(eligible, score), MaxNodes)
  BY DEF HybridSelect
<1>4. \A n \in S : Baseline(q, S)[n] > 0 => n \in eligible
  BY DEF Eligible
<1>5. \A n \in S : tells(n) => n \in eligible
  <2>1. TAKE n \in S
  <2>2. HAVE tells(n)
  <2>3. Similar(kind, q, n) \in 0..100
    BY SimilarInRange
  <2>4. Similar(kind, q, n) > 0
    BY <2>2, <2>3
  <2> QED
    BY <2>4 DEF Eligible
<1>. HIDE DEF eligible, score, list
<1>6. CASE eligible = {}
  <2>1. Selection(list, S)
    BY <1>3, <1>6, BaselineSelects
  <2>2. ~ \E n \in S : LedTo(q, n) \/ tells(n)
    BY <1>2, <1>4, <1>5, <1>6 DEF Prefers
  <2> QED
    BY <2>1, <2>2 DEF list
<1>7. CASE eligible # {}
  <2>1. \A n \in eligible : score[n] \in Int
    BY <1>1, <1>2 DEF Prefers
  <2>2. list = Cut(ByScore(eligible, score), MaxNodes)
    BY <1>3, <1>7
  <2>3. Selection(list, eligible) /\ \A n \in eligible : score[list[1]] >= score[n]
    BY <1>1, <1>7, <2>1, <2>2, BestFirst
  <2>4. Selection(list, S)
    BY <1>1, <1>7, <2>3 DEF Selection
  <2>5. list[1] \in eligible
    BY <1>7, <2>3 DEF Selection
  <2>6. ASSUME NEW n \in S, LedTo(q, n) \/ tells(n)
        PROVE  LedTo(q, list[1]) \/ Similar(kind, q, list[1]) > 0
    <3>1. PICK m \in eligible : score[m] > 1000
      BY <1>2, <1>4, <1>5, <2>6 DEF Prefers
    <3>2. score[list[1]] >= score[m] /\ score[m] \in Int /\ score[list[1]] \in Int
      BY <2>1, <2>3, <2>5
    <3>3. ~ (score[list[1]] <= 1000)
      BY <3>1, <3>2
    <3> QED
      BY <1>1, <1>2, <2>5, <3>3 DEF Prefers
  <2> QED
    BY <2>4, <2>6 DEF list
<1> QED
  BY <1>6, <1>7

(***************************************************************************)
(* Retrieval: what a query has in hand at each stage, and what is stored.  *)
(* The state of the ingestion is a parameter, p for progress, so that what *)
(* holds of a call can be carried over a step that leaves it alone.        *)
(***************************************************************************)
Stages == {"free", "list", "route", "encode", "load", "find", "expand", "evidence", "answered"}
Routed == {"find", "expand", "evidence", "answered"}
Call == [stage : Stages, request : Inquiries \cup {Free.request}, snapshot : 0..NumSnapshots,
         found : SUBSET Nodes, similarity : Kinds, selected : Seq(Nodes), expanded : Seq(Nodes),
         next : Nat, joined : BOOLEAN, items : Seq(Nodes), cited : Seq(Nodes)]

StoredBy(p, n) == p[Home[n]] >= IF n \in Roots THEN 2 ELSE 3

\* The nodes found are there, in the snapshot of the query, and the selected ones are some
\* of them.
CallIsTyped(f, p) ==
    /\ f \in Call
    /\ f.stage # "free" => f.request \in Inquiries /\ f.snapshot \in Snapshots
    /\ \A n \in f.found : Home[n] = f.snapshot /\ StoredBy(p, n)
    /\ f.selected \in Seq(f.found) /\ Len(f.selected) <= MaxNodes /\ IsInjective(f.selected)
    /\ f.stage \notin Routed => f.selected = <<>>
    /\ f.stage # "expand" => f.next = 1
    /\ IsInjective(f.expanded)
    /\ Len(f.items) <= Budget

\* A relevant node leads what is selected, unless nodes were asked for.
Led(f) ==
    /\ f.found # {} => f.selected # <<>>
    /\ (f.request.wanted \cap f.found = {} /\ \E n \in f.found : Telling(f, n))
          => Relevant(f, f.selected[1])

\* A list that starts with the selected nodes and stays in their snapshot.
GrowsFrom(selected, list, p) ==
    /\ selected # <<>> => list # <<>> /\ list[1] = selected[1]
    /\ \A i \in DOMAIN list : /\ StoredBy(p, list[i])
                              /\ \E k \in DOMAIN selected : Home[list[i]] = Home[selected[k]]
Holds(list, S) == \A m \in S : \E i \in DOMAIN list : list[i] = m

\* What the expansion has so far.
Expanding(f, p) ==
    /\ f.next \in 1..(Len(f.selected) + 1)
    /\ GrowsFrom(f.selected, f.expanded, p)
    /\ f.joined => /\ p[f.snapshot] >= 4
                   /\ \A k \in 1..(f.next - 1) : Holds(f.expanded, Section(f.selected[k]))

\* A manifest's items.
Packs(selected, items, joined, p) ==
    /\ items \in Seq(Nodes) /\ Len(items) <= Budget
    /\ GrowsFrom(selected, items, p)
    /\ joined => \/ Len(items) = Budget
                 \/ \A k \in DOMAIN selected : Holds(items, Section(selected[k]))

CallIsRight(f, p, mode) ==
    /\ CallIsTyped(f, p)
    /\ f.stage \in {"encode", "load"} => mode = "hybrid"
    /\ f.stage \in Routed => Led(f)
    /\ f.stage = "expand" => Expanding(f, p)
    /\ f.stage \in {"evidence", "answered"} => Packs(f.selected, f.items, f.joined, p)
    /\ f.stage = "answered" => f.cited = f.items

\* A manifest found by its hash has the items of the same selected nodes.
ManifestIsRight(m, p) ==
    \E question, selected :
       /\ m.hash = Hash(question, selected)
       /\ m.joined \in BOOLEAN
       /\ Packs(selected, m.items, m.joined, p)

ModesAreTyped ==
    /\ progress \in [Snapshots -> 0..4]
    /\ router \in {"baseline", "hybrid"}
    /\ enabled \in BOOLEAN /\ loaded \in BOOLEAN /\ (loaded => router = "hybrid")
    /\ inquired \in 0..MaxInquiries
    /\ DOMAIN reading = Readers

RetrievalInv ==
    /\ ModesAreTyped
    /\ \A m \in manifests : ManifestIsRight(m, progress)
    /\ \A r \in Readers : CallIsRight(reading[r], progress, router)

LEMMA RetrievalAtFirst == RetrievalInit => RetrievalInv
<1>1. SUFFICES ASSUME RetrievalInit PROVE RetrievalInv
  OBVIOUS
<1>2. ModesAreTyped
  <2>1. progress \in [Snapshots -> 0..4]
    BY <1>1 DEF RetrievalInit
  <2>2. inquired \in 0..MaxInquiries
    BY <1>1, RetrievalAssumption DEF RetrievalInit
  <2> QED
    BY <1>1, <2>1, <2>2 DEF RetrievalInit, ModesAreTyped
<1>3. <<>> \in Seq(Nodes) /\ <<>> \in Seq({}) /\ Len(<<>>) = 0 /\ IsInjective(<<>>)
  BY DEF IsInjective
<1>4. 0 \in 0..NumSnapshots /\ 0 <= MaxNodes /\ 0 <= Budget
  BY RetrievalAssumption
<1>5. Free \in Call
  BY <1>3, <1>4 DEF Free, Call, Stages, Kinds
<1>6. CallIsTyped(Free, progress)
  BY <1>3, <1>4, <1>5 DEF CallIsTyped, Free, Routed
<1>7. CallIsRight(Free, progress, router)
  BY <1>6 DEF CallIsRight, Free, Routed
<1> QED
  BY <1>1, <1>2, <1>7 DEF RetrievalInv, RetrievalInit

\* Ingestion only adds.
LEMMA IngestionAdds ==
    ASSUME NEW p \in [Snapshots -> 0..4], NEW p2 \in [Snapshots -> 0..4],
           \A s \in Snapshots : p[s] <= p2[s], NEW mode
    PROVE  /\ \A f : CallIsRight(f, p, mode) => CallIsRight(f, p2, mode)
           /\ \A m : ManifestIsRight(m, p) => ManifestIsRight(m, p2)
<1>1. \A n \in Nodes : StoredBy(p, n) => StoredBy(p2, n)
  <2>1. TAKE n \in Nodes
  <2>2. Home[n] \in Snapshots
    BY NodesAssumption
  <2>3. PICK a \in 0..4 : a = p[Home[n]]
    BY <2>2
  <2>4. PICK b \in 0..4 : b = p2[Home[n]]
    BY <2>2
  <2>5. a <= b
    BY <2>2, <2>3, <2>4
  <2> QED
    BY <2>3, <2>4, <2>5 DEF StoredBy
<1>2. \A selected : \A list \in Seq(Nodes) :
         GrowsFrom(selected, list, p) => GrowsFrom(selected, list, p2)
  <2>1. TAKE selected
  <2>2. TAKE list \in Seq(Nodes)
  <2>3. \A i \in DOMAIN list : list[i] \in Nodes
    OBVIOUS
  <2> QED
    BY <1>1, <2>3 DEF GrowsFrom
<1>3. \A selected, items, joined : Packs(selected, items, joined, p) => Packs(selected, items, joined, p2)
  BY <1>2 DEF Packs
<1>4. ASSUME NEW f, CallIsRight(f, p, mode) PROVE CallIsRight(f, p2, mode)
  <2>1. f \in Call /\ CallIsTyped(f, p)
    BY <1>4 DEF CallIsRight, CallIsTyped
  <2>2. f.found \subseteq Nodes /\ f.expanded \in Seq(Nodes)
    BY <2>1 DEF Call
  <2>3. CallIsTyped(f, p2)
    BY <1>1, <2>1, <2>2 DEF CallIsTyped
  <2>4. f.stage = "expand" => Expanding(f, p2)
    <3>1. HAVE f.stage = "expand"
    <3>2. Expanding(f, p)
      BY <1>4, <3>1 DEF CallIsRight
    <3>3. f.snapshot \in Snapshots
      BY <2>1, <3>1 DEF CallIsTyped
    <3>4. p[f.snapshot] >= 4 => p2[f.snapshot] >= 4
      BY <3>3
    <3> QED
      BY <1>2, <2>2, <3>2, <3>4 DEF Expanding
  <2> QED
    BY <1>3, <1>4, <2>3, <2>4 DEF CallIsRight
<1>5. ASSUME NEW m, ManifestIsRight(m, p) PROVE ManifestIsRight(m, p2)
  BY <1>3, <1>5 DEF ManifestIsRight
<1> QED
  BY <1>4, <1>5

\* A step of one reader that leaves the ingestion alone.
LEMMA OneReads ==
    ASSUME RetrievalInv, NEW r \in Readers, NEW f,
           reading'[r] = f, \A x \in Readers \ {r} : reading'[x] = reading[x],
           UNCHANGED progress, UNCHANGED router, ModesAreTyped',
           CallIsRight(f, progress, router),
           \A m \in manifests' : m \in manifests \/ ManifestIsRight(m, progress)
    PROVE  RetrievalInv'
<1>1. \A x \in Readers : reading'[x] = IF x = r THEN f ELSE reading[x]
  OBVIOUS
<1>2. \A x \in Readers : CallIsRight(reading'[x], progress', router')
  BY <1>1 DEF RetrievalInv
<1>3. \A m \in manifests' : ManifestIsRight(m, progress')
  BY DEF RetrievalInv
<1> QED
  BY <1>2, <1>3 DEF RetrievalInv

LEMMA CommitIsRight == ASSUME RetrievalInv, NEW s \in Snapshots, Commit(s) PROVE RetrievalInv'
<1>1. progress \in [Snapshots -> 0..4]
  BY DEF RetrievalInv, ModesAreTyped
<1>2. progress[s] \in 0..3 /\ progress' = [progress EXCEPT ![s] = @ + 1]
  BY <1>1 DEF Commit
<1>3. progress' \in [Snapshots -> 0..4] /\ \A x \in Snapshots : progress[x] <= progress'[x]
  BY <1>1, <1>2
<1>4. UNCHANGED <<manifests, router, enabled, loaded, reading, inquired>>
  BY DEF Commit
<1>5. ModesAreTyped'
  BY <1>3, <1>4 DEF RetrievalInv, ModesAreTyped
<1>6. \A r \in Readers : CallIsRight(reading[r], progress', router)
  BY <1>1, <1>3, IngestionAdds DEF RetrievalInv
<1>7. \A m \in manifests : ManifestIsRight(m, progress')
  BY <1>1, <1>3, IngestionAdds DEF RetrievalInv
<1> QED
  BY <1>4, <1>5, <1>6, <1>7 DEF RetrievalInv

LEMMA InquireIsRight ==
    ASSUME RetrievalInv, NEW r \in Readers, NEW i \in Inquiries, Inquire(r, i)
    PROVE  RetrievalInv'
<1>. DEFINE chosen == IF i.snapshot # 0 THEN i.snapshot
                      ELSE Max({0} \cup {s \in Snapshots : Created(s)})
            asked == [Free EXCEPT !.stage = "list", !.request = i, !.snapshot = chosen]
<1>1. DOMAIN reading = Readers /\ inquired \in 0..MaxInquiries /\ inquired < MaxInquiries
      /\ inquired' = inquired + 1
  BY DEF RetrievalInv, ModesAreTyped, Inquire
<1>2. UNCHANGED <<progress, manifests, router, enabled, loaded>>
  BY DEF Inquire
<1>3. reading' = IF chosen # 0 /\ Created(chosen) THEN [reading EXCEPT ![r] = asked]
                 ELSE [reading EXCEPT ![r] = Free]
  BY DEF Inquire
<1>4. chosen \in 0..NumSnapshots
  <2>1. CASE i.snapshot # 0
    <3>1. i \in Inquiry
      BY RetrievalAssumption
    <3> QED
      BY <2>1, <3>1 DEF Inquiry
  <2>2. CASE i.snapshot = 0
    <3>. DEFINE S == {0} \cup {s \in Snapshots : Created(s)}
    <3>1. S \in SUBSET Nat /\ S # {} /\ \A s \in S : s \in 0..NumSnapshots
      BY RetrievalAssumption DEF Snapshots
    <3>2. NumSnapshots \in Nat /\ \A s \in S : s <= NumSnapshots
      BY <3>1, RetrievalAssumption
    <3>. HIDE DEF S
    <3>3. \E x \in S : \A y \in S : y <= x
      BY <3>1, <3>2, GreatestMember
    <3>4. \E x \in S : \A y \in S : x >= y
      BY <3>1, <3>3
    <3>5. Max(S) \in S
      BY <3>4 DEF Max
    <3> QED
      BY <2>2, <3>1, <3>5 DEF S
  <2> QED
    BY <2>1, <2>2
<1>5. ModesAreTyped'
  <2>1. inquired' \in 0..MaxInquiries
    BY <1>1, RetrievalAssumption
  <2>2. DOMAIN reading' = Readers
    BY <1>1, <1>3
  <2> QED
    BY <1>2, <2>1, <2>2 DEF RetrievalInv, ModesAreTyped
<1>. HIDE DEF chosen
<1>6. <<>> \in Seq(Nodes) /\ <<>> \in Seq({}) /\ Len(<<>>) = 0 /\ IsInjective(<<>>)
  BY DEF IsInjective
<1>7. 0 \in 0..NumSnapshots /\ 0 <= MaxNodes /\ 0 <= Budget
  BY RetrievalAssumption
<1>8. CallIsRight(Free, progress, router)
  <2>1. Free \in Call
    BY <1>6, <1>7 DEF Free, Call, Stages, Kinds
  <2>2. CallIsTyped(Free, progress)
    BY <1>6, <1>7, <2>1 DEF CallIsTyped, Free, Routed
  <2> QED
    BY <2>2 DEF CallIsRight, Free, Routed
<1>9. CASE chosen # 0 /\ Created(chosen)
  <2>1. asked \in Call
    BY <1>4, <1>6, <1>7 DEF Free, Call, Stages, Kinds
  <2>2. chosen \in Snapshots
    BY <1>4, <1>9, RetrievalAssumption DEF Snapshots
  <2>3. CallIsTyped(asked, progress)
    BY <1>6, <1>7, <2>1, <2>2 DEF CallIsTyped, Free, Routed
  <2>4. CallIsRight(asked, progress, router)
    BY <2>3 DEF CallIsRight, Free, Routed
  <2>5. reading'[r] = asked /\ \A x \in Readers \ {r} : reading'[x] = reading[x]
    BY <1>1, <1>3, <1>9
  <2> QED
    BY <1>2, <1>5, <2>4, <2>5, OneReads
<1>10. CASE ~ (chosen # 0 /\ Created(chosen))
  <2>1. reading'[r] = Free /\ \A x \in Readers \ {r} : reading'[x] = reading[x]
    BY <1>1, <1>3, <1>10
  <2> QED
    BY <1>2, <1>5, <1>8, <2>1, OneReads
<1> QED
  BY <1>9, <1>10

LEMMA ListNodesIsRight ==
    ASSUME RetrievalInv, NEW r \in Readers, ListNodes(r)
    PROVE  RetrievalInv'
<1>. DEFINE f == reading[r]
            there == {n \in Nodes : Home[n] = reading[r].snapshot /\ Stored(n)}
            listing == [f EXCEPT !.stage = "route", !.found = there]
<1>1. DOMAIN reading = Readers /\ CallIsTyped(f, progress) /\ f.stage = "list"
  BY DEF RetrievalInv, ModesAreTyped, CallIsRight, ListNodes
<1>2. f \in Call
  BY <1>1 DEF CallIsTyped
<1>3. listing \in Call
  BY <1>2 DEF Call, Stages
<1>4. reading'[r] = listing /\ DOMAIN reading' = Readers
      /\ \A x \in Readers \ {r} : reading'[x] = reading[x]
  BY <1>1, <1>2 DEF ListNodes, Call
<1>5. f.selected = <<>> /\ listing.selected = <<>> /\ listing.found = there
  BY <1>1, <1>2 DEF CallIsTyped, Routed, Call
<1>6. /\ listing.stage = "route" /\ listing.request = f.request /\ listing.snapshot = f.snapshot
      /\ listing.expanded = f.expanded /\ listing.items = f.items /\ listing.next = f.next
  BY <1>2 DEF Call
<1>7. \A n \in there : Home[n] = listing.snapshot /\ StoredBy(progress, n)
  BY <1>6 DEF Stored, StoredBy
<1>8. <<>> \in Seq(there) /\ Len(<<>>) <= MaxNodes /\ IsInjective(<<>>)
  BY RetrievalAssumption DEF IsInjective
<1>. HIDE DEF listing, there
<1>9. CallIsTyped(listing, progress)
  BY <1>1, <1>3, <1>5, <1>6, <1>7, <1>8 DEF CallIsTyped
<1>10. CallIsRight(listing, progress, router)
  BY <1>6, <1>9 DEF CallIsRight, Routed
<1>11. UNCHANGED <<progress, manifests, router, enabled, loaded, inquired>> /\ ModesAreTyped'
  BY <1>4 DEF ListNodes, RetrievalInv, ModesAreTyped
<1> QED
  BY <1>4, <1>10, <1>11, OneReads

\* A call whose nodes are selected, by whichever router.
LEMMA SelectedIsRight ==
    ASSUME RetrievalInv, NEW r \in Readers, NEW kind \in Kinds, NEW list,
           reading[r].stage \in {"route", "encode", "load"},
           Selection(list, reading[r].found) \/ \E S \in SUBSET reading[r].found :
              S # {} /\ Selection(list, S),
           LET f == reading[r]
           IN  (f.request.wanted \cap f.found = {} /\ \E n \in f.found : Telling([f EXCEPT !.similarity = kind], n))
                  => Relevant([f EXCEPT !.similarity = kind], list[1])
    PROVE  CallIsRight(Selected(r, kind, list), progress, router)
<1>. DEFINE f == reading[r]
            g == Selected(r, kind, list)
<1>1. CallIsTyped(f, progress) /\ f \in Call /\ f.stage # "free" /\ f.stage # "expand"
  BY DEF RetrievalInv, CallIsRight, CallIsTyped
<1>2. list \in Seq(f.found) /\ Len(list) <= MaxNodes /\ IsInjective(list)
  <2>1. PICK S \in SUBSET f.found : Selection(list, S)
    BY f.found \in SUBSET f.found
  <2> QED
    BY <2>1 DEF Selection
<1>3. f.found # {} => list # <<>>
  BY DEF Selection
<1>4. list \in Seq(Nodes)
  BY <1>1, <1>2 DEF Call
<1>5. g \in Call
  BY <1>1, <1>4 DEF Selected, Call, Stages
<1>6. /\ g.stage = "find" /\ g.similarity = kind /\ g.selected = list
      /\ g.request = f.request /\ g.snapshot = f.snapshot /\ g.found = f.found
      /\ g.expanded = f.expanded /\ g.items = f.items /\ g.next = f.next
  BY <1>1 DEF Selected, Call
<1>7. LET h == [f EXCEPT !.similarity = kind]
      IN  h.request = f.request /\ h.similarity = kind
  BY <1>1 DEF Call
<1>. HIDE DEF g, f
<1>8. CallIsTyped(g, progress)
  BY <1>1, <1>2, <1>5, <1>6 DEF CallIsTyped, Routed
<1>9. Led(g)
  <2>1. \A n : Telling(g, n) <=> Telling([f EXCEPT !.similarity = kind], n)
    BY <1>6, <1>7 DEF Telling
  <2>2. \A n : Relevant(g, n) <=> Relevant([f EXCEPT !.similarity = kind], n)
    BY <1>6, <1>7 DEF Relevant
  <2> QED
    BY <1>3, <1>6, <2>1, <2>2 DEF Led, f
<1>10. CallIsRight(g, progress, router)
  BY <1>6, <1>8, <1>9 DEF CallIsRight
<1> QED
  BY <1>10 DEF g

\* The question of a call under way.
LEMMA CallAsks ==
    ASSUME RetrievalInv, NEW r \in Readers, reading[r].stage # "free"
    PROVE  /\ reading[r].request.question \in Questions
           /\ reading[r].found \in SUBSET Nodes
<1>1. CallIsTyped(reading[r], progress)
  BY DEF RetrievalInv, CallIsRight
<1>2. reading[r].request \in Inquiries /\ reading[r] \in Call
  BY <1>1 DEF CallIsTyped
<1>3. reading[r].request \in Inquiry
  BY <1>2, RetrievalAssumption
<1> QED
  BY <1>2, <1>3 DEF Inquiry, Call

LEMMA WantedIsRight ==
    ASSUME RetrievalInv, NEW r \in Readers, reading[r].stage = "route",
           reading[r].found \cap reading[r].request.wanted # {}
    PROVE  CallIsRight(Selected(r, "none", Cut(ByAge(reading[r].found \cap reading[r].request.wanted), MaxNodes)),
                       progress, router)
<1>. DEFINE f == reading[r]
            wanted == f.found \cap f.request.wanted
            zero == [n \in wanted |-> 0]
            list == Cut(ByScore(wanted, zero), MaxNodes)
<1>1. f \in Call /\ wanted \in SUBSET Nodes
  BY CallAsks DEF RetrievalInv, CallIsRight, CallIsTyped
<1>2. \A n \in wanted : zero[n] \in Int
  OBVIOUS
<1>3. ByAge(wanted) = ByScore(wanted, zero)
  BY DEF ByAge
<1>. HIDE DEF zero
<1>4. Selection(list, wanted)
  BY <1>1, <1>2, BestFirst
<1>. HIDE DEF list
<1>5. \E S \in SUBSET f.found : S # {} /\ Selection(list, S)
  BY <1>4
<1>6. LET h == [f EXCEPT !.similarity = "none"]
      IN  ~ (f.request.wanted \cap f.found = {} /\ \E n \in f.found : Telling(h, n))
  OBVIOUS
<1>7. "none" \in Kinds
  BY DEF Kinds
<1>8. CallIsRight(Selected(r, "none", list), progress, router)
  BY <1>5, <1>6, <1>7, SelectedIsRight
<1> QED
  BY <1>3, <1>8 DEF list

LEMMA BaselineIsRight ==
    ASSUME RetrievalInv, NEW r \in Readers, reading[r].stage = "route"
    PROVE  CallIsRight(Selected(r, "none", BaselineSelect(reading[r].request.question, reading[r].found)),
                       progress, router)
<1>. DEFINE f == reading[r]
            q == f.request.question
            list == BaselineSelect(q, f.found)
            h == [f EXCEPT !.similarity = "none"]
<1>1. q \in Questions /\ f.found \in SUBSET Nodes /\ f \in Call
  BY CallAsks DEF RetrievalInv, CallIsRight, CallIsTyped
<1>2. Selection(list, f.found) /\ ((\E n \in f.found : LedTo(q, n)) => LedTo(q, list[1]))
  BY <1>1, BaselineSelects
<1>3. h.request = f.request /\ h.similarity = "none"
  BY <1>1 DEF Call
<1>4. \A n : Telling(h, n) => LedTo(q, n)
  BY <1>3 DEF Telling, Similar
<1>5. LedTo(q, list[1]) => Relevant(h, list[1])
  BY <1>3 DEF Relevant
<1>. HIDE DEF list
<1>6. (f.request.wanted \cap f.found = {} /\ \E n \in f.found : Telling(h, n)) => Relevant(h, list[1])
  BY <1>2, <1>4, <1>5
<1>7. "none" \in Kinds
  BY DEF Kinds
<1>8. CallIsRight(Selected(r, "none", list), progress, router)
  BY <1>2, <1>6, <1>7, SelectedIsRight
<1> QED
  BY <1>8 DEF list

LEMMA HybridIsRight ==
    ASSUME RetrievalInv, NEW r \in Readers, NEW kind \in Kinds,
           reading[r].stage \in {"route", "encode", "load"}
    PROVE  CallIsRight(Hybrid(r, kind), progress, router)
<1>. DEFINE f == reading[r]
            q == f.request.question
            list == HybridSelect(kind, q, f.found)
            h == [f EXCEPT !.similarity = kind]
<1>1. q \in Questions /\ f.found \in SUBSET Nodes /\ f \in Call
  BY CallAsks DEF RetrievalInv, CallIsRight, CallIsTyped
<1>2. /\ Selection(list, f.found)
      /\ (\E n \in f.found : LedTo(q, n) \/ 65 * Similar(kind, q, n) > 10 * 100)
            => LedTo(q, list[1]) \/ Similar(kind, q, list[1]) > 0
  BY <1>1, HybridSelects
<1>3. h.request = f.request /\ h.similarity = kind
  BY <1>1 DEF Call
<1>4. \A n : Telling(h, n) => LedTo(q, n) \/ 65 * Similar(kind, q, n) > 10 * 100
  BY <1>3 DEF Telling
<1>5. LedTo(q, list[1]) \/ Similar(kind, q, list[1]) > 0 => Relevant(h, list[1])
  BY <1>3 DEF Relevant
<1>. HIDE DEF list
<1>6. (f.request.wanted \cap f.found = {} /\ \E n \in f.found : Telling(h, n)) => Relevant(h, list[1])
  BY <1>2, <1>4, <1>5
<1>7. CallIsRight(Selected(r, kind, list), progress, router)
  BY <1>2, <1>6, SelectedIsRight
<1> QED
  BY <1>7 DEF list, Hybrid

LEMMA RouteIsRight == ASSUME RetrievalInv, NEW r \in Readers, Route(r) PROVE RetrievalInv'
<1>. DEFINE f == reading[r]
            wanted == f.found \cap f.request.wanted
            waiting == [f EXCEPT !.stage = "encode"]
            next == CASE wanted # {} -> Selected(r, "none", Cut(ByAge(wanted), MaxNodes))
                      [] wanted = {} /\ router = "baseline" ->
                            Selected(r, "none", BaselineSelect(f.request.question, f.found))
                      [] wanted = {} /\ router = "hybrid" /\ ~enabled -> Hybrid(r, "lexical")
                      [] OTHER -> waiting
<1>1. f.stage = "route" /\ reading' = [reading EXCEPT ![r] = next]
  BY DEF Route
<1>2. UNCHANGED <<progress, manifests, router, enabled, loaded, inquired>>
  BY DEF Route
<1>3. DOMAIN reading = Readers /\ router \in {"baseline", "hybrid"} /\ enabled \in BOOLEAN
  BY DEF RetrievalInv, ModesAreTyped
<1>4. CallIsRight(next, progress, router)
  <2>1. CASE wanted # {}
    BY <1>1, <2>1, WantedIsRight
  <2>2. CASE wanted = {} /\ router = "baseline"
    BY <1>1, <2>2, BaselineIsRight
  <2>3. CASE wanted = {} /\ router = "hybrid" /\ ~enabled
    <3>1. CallIsRight(Hybrid(r, "lexical"), progress, router)
      BY <1>1, HybridIsRight DEF Kinds
    <3> QED
      BY <2>3, <3>1
  <2>4. CASE wanted = {} /\ router = "hybrid" /\ enabled
    <3>1. CallIsTyped(f, progress) /\ f \in Call
      BY DEF RetrievalInv, CallIsRight, CallIsTyped
    <3>2. waiting \in Call
      BY <3>1 DEF Call, Stages
    <3>3. /\ waiting.stage = "encode" /\ waiting.selected = f.selected
          /\ waiting.request = f.request /\ waiting.snapshot = f.snapshot /\ waiting.found = f.found
          /\ waiting.expanded = f.expanded /\ waiting.items = f.items /\ waiting.next = f.next
      BY <3>1 DEF Call
    <3>4. next = waiting
      BY <2>4
    <3>. HIDE DEF waiting, next
    <3>5. CallIsTyped(waiting, progress)
      BY <1>1, <3>1, <3>2, <3>3 DEF CallIsTyped, Routed
    <3>6. CallIsRight(waiting, progress, router)
      BY <2>4, <3>3, <3>5 DEF CallIsRight, Routed
    <3> QED
      BY <3>4, <3>6
  <2> QED
    BY <1>3, <2>1, <2>2, <2>3, <2>4
<1>. HIDE DEF next
<1>5. reading'[r] = next /\ DOMAIN reading' = Readers
      /\ \A x \in Readers \ {r} : reading'[x] = reading[x]
  BY <1>1, <1>3
<1>6. ModesAreTyped'
  BY <1>2, <1>5 DEF RetrievalInv, ModesAreTyped
<1> QED
  BY <1>2, <1>4, <1>5, <1>6, OneReads

\* A call that waits for the model.
LEMMA WaitingIsRight ==
    ASSUME RetrievalInv, NEW r \in Readers, reading[r].stage = "encode"
    PROVE  CallIsRight([reading[r] EXCEPT !.stage = "load"], progress, router)
<1>. DEFINE f == reading[r]
            waiting == [f EXCEPT !.stage = "load"]
<1>1. CallIsTyped(f, progress) /\ f \in Call /\ router = "hybrid"
  BY DEF RetrievalInv, CallIsRight, CallIsTyped
<1>2. waiting \in Call
  BY <1>1 DEF Call, Stages
<1>3. /\ waiting.stage = "load" /\ waiting.selected = f.selected
      /\ waiting.request = f.request /\ waiting.snapshot = f.snapshot /\ waiting.found = f.found
      /\ waiting.expanded = f.expanded /\ waiting.items = f.items /\ waiting.next = f.next
  BY <1>1 DEF Call
<1>. HIDE DEF waiting
<1>4. CallIsTyped(waiting, progress)
  BY <1>1, <1>2, <1>3 DEF CallIsTyped, Routed
<1>5. CallIsRight(waiting, progress, router)
  BY <1>1, <1>3, <1>4 DEF CallIsRight, Routed
<1> QED
  BY <1>5 DEF waiting

LEMMA EncodeIsRight == ASSUME RetrievalInv, NEW r \in Readers, Encode(r) PROVE RetrievalInv'
<1>1. reading[r].stage = "encode" /\ DOMAIN reading = Readers /\ enabled \in BOOLEAN
  BY DEF Encode, RetrievalInv, ModesAreTyped
<1>2. PICK f : /\ reading' = [reading EXCEPT ![r] = f]
               /\ f \in {Hybrid(r, "zero"), Hybrid(r, "near"), [reading[r] EXCEPT !.stage = "load"]}
  BY <1>1 DEF Encode
<1>3. CallIsRight(f, progress, router)
  <2>1. "zero" \in Kinds /\ "near" \in Kinds
    BY DEF Kinds
  <2> QED
    BY <1>1, <1>2, <2>1, HybridIsRight, WaitingIsRight
<1>4. UNCHANGED <<progress, manifests, router, enabled, loaded, inquired>>
  BY DEF Encode
<1>5. reading'[r] = f /\ DOMAIN reading' = Readers
      /\ \A x \in Readers \ {r} : reading'[x] = reading[x]
  BY <1>1, <1>2
<1>6. ModesAreTyped'
  BY <1>4, <1>5 DEF RetrievalInv, ModesAreTyped
<1> QED
  BY <1>3, <1>4, <1>5, <1>6, OneReads

LEMMA LoadModelIsRight == ASSUME RetrievalInv, NEW r \in Readers, LoadModel(r) PROVE RetrievalInv'
<1>1. reading[r].stage = "load" /\ DOMAIN reading = Readers /\ router = "hybrid"
  BY DEF LoadModel, RetrievalInv, ModesAreTyped, CallIsRight
<1>2. PICK f : /\ reading' = [reading EXCEPT ![r] = f]
               /\ f \in {Hybrid(r, "zero"), Hybrid(r, "near")}
  BY DEF LoadModel
<1>3. CallIsRight(f, progress, router)
  <2>1. "zero" \in Kinds /\ "near" \in Kinds
    BY DEF Kinds
  <2> QED
    BY <1>1, <1>2, <2>1, HybridIsRight
<1>4. UNCHANGED <<progress, manifests, router, inquired>>
  BY DEF LoadModel
<1>5. reading'[r] = f /\ DOMAIN reading' = Readers
      /\ \A x \in Readers \ {r} : reading'[x] = reading[x]
  BY <1>1, <1>2
<1>6. enabled' \in BOOLEAN /\ loaded' \in BOOLEAN
  BY DEF LoadModel, RetrievalInv, ModesAreTyped
<1>7. ModesAreTyped'
  BY <1>1, <1>4, <1>5, <1>6 DEF RetrievalInv, ModesAreTyped
<1> QED
  BY <1>3, <1>4, <1>5, <1>7, OneReads

LEMMA FindIsRight == ASSUME RetrievalInv, NEW r \in Readers, Find(r) PROVE RetrievalInv'
<1>. DEFINE f == reading[r]
<1>1. /\ f.stage = "find" /\ DOMAIN reading = Readers
      /\ CallIsTyped(f, progress) /\ f \in Call /\ Led(f)
  BY DEF Find, RetrievalInv, ModesAreTyped, CallIsRight, CallIsTyped, Routed
<1>2. UNCHANGED <<progress, manifests, router, enabled, loaded, inquired>>
  BY DEF Find
<1>3. ASSUME NEW m \in manifests, m.hash = Hash(f.request.question, f.selected),
             reading' = [reading EXCEPT ![r].stage = "evidence", ![r].items = m.items,
                                        ![r].joined = m.joined]
      PROVE  RetrievalInv'
  <2>1. ManifestIsRight(m, progress)
    BY DEF RetrievalInv
  <2>2. m.joined \in BOOLEAN /\ Packs(f.selected, m.items, m.joined, progress)
    BY <1>3, <2>1 DEF ManifestIsRight, Hash
  <2>. DEFINE g == [f EXCEPT !.stage = "evidence", !.items = m.items, !.joined = m.joined]
  <2>3. m.items \in Seq(Nodes) /\ Len(m.items) <= Budget
    BY <2>2 DEF Packs
  <2>4. g \in Call
    BY <1>1, <2>2, <2>3 DEF Call, Stages
  <2>5. /\ g.stage = "evidence" /\ g.items = m.items /\ g.joined = m.joined
        /\ g.selected = f.selected /\ g.request = f.request /\ g.snapshot = f.snapshot
        /\ g.found = f.found /\ g.expanded = f.expanded /\ g.similarity = f.similarity
        /\ g.next = f.next
    BY <1>1 DEF Call
  <2>6. reading'[r] = g /\ DOMAIN reading' = Readers
        /\ \A x \in Readers \ {r} : reading'[x] = reading[x]
    BY <1>1, <1>3 DEF Call
  <2>. HIDE DEF g
  <2>7. CallIsTyped(g, progress)
    BY <1>1, <2>3, <2>4, <2>5 DEF CallIsTyped, Routed
  <2>8. Led(g)
    BY <1>1, <2>5 DEF Led, Telling, Relevant
  <2>9. CallIsRight(g, progress, router)
    BY <2>2, <2>5, <2>7, <2>8 DEF CallIsRight
  <2>10. ModesAreTyped'
    BY <1>2, <2>6 DEF RetrievalInv, ModesAreTyped
  <2> QED
    BY <1>2, <2>6, <2>9, <2>10, OneReads
<1>4. ASSUME reading' = [reading EXCEPT ![r].stage = "expand", ![r].expanded = f.selected,
                                        ![r].joined = Joined(f.snapshot)]
      PROVE  RetrievalInv'
  <2>. DEFINE g == [f EXCEPT !.stage = "expand", !.expanded = f.selected,
                             !.joined = Joined(f.snapshot)]
  <2>1. Joined(f.snapshot) \in BOOLEAN
    BY DEF Joined
  <2>2. f.selected \in Seq(Nodes) /\ f.selected \in Seq(f.found) /\ f.found \in SUBSET Nodes
    BY <1>1 DEF Call, CallIsTyped
  <2>3. g \in Call
    BY <1>1, <2>1, <2>2 DEF Call, Stages
  <2>4. /\ g.stage = "expand" /\ g.expanded = f.selected /\ g.joined = Joined(f.snapshot)
        /\ g.selected = f.selected /\ g.request = f.request /\ g.snapshot = f.snapshot
        /\ g.found = f.found /\ g.items = f.items /\ g.similarity = f.similarity /\ g.next = 1
    BY <1>1 DEF Call, CallIsTyped
  <2>5. reading'[r] = g /\ DOMAIN reading' = Readers
        /\ \A x \in Readers \ {r} : reading'[x] = reading[x]
    BY <1>1, <1>4 DEF Call
  <2>. HIDE DEF g
  <2>6. CallIsTyped(g, progress)
    BY <1>1, <2>3, <2>4 DEF CallIsTyped, Routed
  <2>7. Led(g)
    BY <1>1, <2>4 DEF Led, Telling, Relevant
  <2>8. GrowsFrom(f.selected, f.selected, progress)
    <3>1. \A i \in DOMAIN f.selected : f.selected[i] \in f.found
      BY <2>2
    <3> QED
      BY <1>1, <3>1 DEF GrowsFrom, CallIsTyped
  <2>9. Expanding(g, progress)
    <3>1. 1 \in 1..(Len(f.selected) + 1)
      BY <2>2
    <3>2. 1..(1 - 1) = {}
      OBVIOUS
    <3>3. Joined(f.snapshot) => progress[f.snapshot] >= 4
      BY DEF Joined
    <3> QED
      BY <2>4, <2>8, <3>1, <3>2, <3>3 DEF Expanding
  <2>10. CallIsRight(g, progress, router)
    BY <2>4, <2>6, <2>7, <2>9 DEF CallIsRight
  <2>11. ModesAreTyped'
    BY <1>2, <2>5 DEF RetrievalInv, ModesAreTyped
  <2> QED
    BY <1>2, <2>5, <2>10, <2>11, OneReads
<1> QED
  BY <1>1, <1>3, <1>4 DEF Find

\* SetToSeq lists a finite set, each member once.
LEMMA SetToSeqLists ==
    ASSUME NEW S, IsFiniteSet(S)
    PROVE  /\ SetToSeq(S) \in Seq(S) /\ IsInjective(SetToSeq(S))
           /\ \A x \in S : \E i \in DOMAIN SetToSeq(S) : SetToSeq(S)[i] = x
<1>. DEFINE n == Cardinality(S)
            list == SetToSeq(S)
<1>1. n \in Nat /\ ExistsBijection(1..n, S)
  BY FS_CardinalityType
<1>2. \E g \in [1..n -> S] : IsInjective(g)
  BY <1>1 DEF ExistsBijection, Bijection, Injection
<1>3. list \in [1..n -> S] /\ IsInjective(list)
  BY <1>2 DEF SetToSeq
<1>. HIDE DEF list
<1>4. list \in Injection(1..n, S)
  BY <1>3 DEF Injection
<1>5. Cardinality(1..n) = n
  <2>1. 1 \in Int /\ n \in Int
    BY <1>1
  <2>2. Cardinality(1..n) = IF 1 > n THEN 0 ELSE n - 1 + 1
    BY <2>1, FS_Interval
  <2> QED
    BY <1>1, <2>2
<1>6. list \in Surjection(1..n, S)
  BY <1>4, <1>5, FS_Injection
<1>7. list \in Seq(S)
  BY <1>1, <1>3
<1>8. \A x \in S : \E i \in DOMAIN list : list[i] = x
  BY <1>3, <1>6 DEF Surjection
<1> QED
  BY <1>3, <1>7, <1>8 DEF list

\* Lists without a common member make one list of both.
Apart(l, m) == \A i \in DOMAIN l, j \in DOMAIN m : l[i] # m[j]
Joins(both, l, m) ==
    /\ IsInjective(both)
    /\ \A i \in DOMAIN l : i \in DOMAIN both /\ both[i] = l[i]
    /\ \A j \in DOMAIN m : \E i \in DOMAIN both : both[i] = m[j]
    /\ \A i \in DOMAIN both : \/ i \in DOMAIN l /\ both[i] = l[i]
                             \/ \E j \in DOMAIN m : both[i] = m[j]

LEMMA JoinedLists ==
    ASSUME NEW S, NEW l \in Seq(S), NEW m \in Seq(S), IsInjective(l), IsInjective(m), Apart(l, m)
    PROVE  l \o m \in Seq(S) /\ Joins(l \o m, l, m)
<1>. DEFINE a == Len(l)
            b == Len(m)
            both == l \o m
<1>1. a \in Nat /\ b \in Nat /\ DOMAIN l = 1..a /\ DOMAIN m = 1..b
  OBVIOUS
<1>2. both \in Seq(S) /\ DOMAIN both = 1..(a + b)
  OBVIOUS
<1>3. \A i \in 1..a : i \in 1..(a + b) /\ both[i] = l[i]
  OBVIOUS
<1>4. \A j \in 1..b : a + j \in 1..(a + b) /\ both[a + j] = m[j]
  OBVIOUS
<1>. HIDE DEF a, b, both
<1>5. \A i \in 1..(a + b) : i \in 1..a \/ (i - a \in 1..b /\ a + (i - a) = i)
  BY <1>1
<1>6. IsInjective(both)
  <2>1. SUFFICES ASSUME NEW i \in 1..(a + b), NEW j \in 1..(a + b), both[i] = both[j] PROVE i = j
    BY <1>2 DEF IsInjective
  <2>2. CASE i \in 1..a /\ j \in 1..a
    BY <1>1, <1>3, <2>1, <2>2 DEF IsInjective
  <2>3. CASE i \notin 1..a /\ j \notin 1..a
    <3>1. i - a \in 1..b /\ a + (i - a) = i /\ j - a \in 1..b /\ a + (j - a) = j
      BY <1>5, <2>3
    <3>2. m[i - a] = m[j - a]
      BY <1>4, <2>1, <3>1
    <3>3. i - a = j - a
      BY <1>1, <3>1, <3>2 DEF IsInjective
    <3> QED
      BY <3>1, <3>3
  <2>4. ASSUME NEW x \in 1..a, NEW y \in 1..(a + b), y \notin 1..a PROVE both[x] # both[y]
    <3>1. y - a \in 1..b /\ a + (y - a) = y
      BY <1>5, <2>4
    <3>2. both[y] = m[y - a] /\ both[x] = l[x]
      BY <1>3, <1>4, <3>1
    <3> QED
      BY <1>1, <3>1, <3>2 DEF Apart
  <2> QED
    BY <2>1, <2>2, <2>3, <2>4
<1>7. \A j \in 1..b : \E i \in 1..(a + b) : both[i] = m[j]
  BY <1>4
<1>8. \A i \in 1..(a + b) : (i \in 1..a /\ both[i] = l[i]) \/ \E j \in 1..b : both[i] = m[j]
  BY <1>3, <1>4, <1>5
<1> QED
  BY <1>1, <1>2, <1>3, <1>6, <1>7, <1>8 DEF both, Joins

\* The siblings of a node are the rest of its section, when the edges are there.
LEMMA SiblingsAreInSection ==
    ASSUME NEW n \in Nodes
    PROVE  /\ Siblings(n) \subseteq Nodes /\ IsFiniteSet(Siblings(n))
           /\ \A m \in Siblings(n) : Home[m] = Home[n] /\ Joined(Home[n])
           /\ Joined(Home[n]) => Section(n) \subseteq Siblings(n)
<1>1. Siblings(n) \subseteq Nodes
  BY NodesAssumption DEF Siblings
<1>2. IsFiniteSet(Siblings(n))
  BY <1>1, NodesAssumption, FS_Subset
<1>3. \A m \in Siblings(n) : Home[m] = Home[n] /\ Joined(Home[n])
  BY NodesAssumption DEF Siblings
<1>4. Joined(Home[n]) => Section(n) \subseteq Siblings(n)
  BY DEF Siblings, Section
<1> QED
  BY <1>1, <1>2, <1>3, <1>4

LEMMA ExpandIsRight == ASSUME RetrievalInv, NEW r \in Readers, Expand(r) PROVE RetrievalInv'
<1>. DEFINE f == reading[r]
            n == f.selected[f.next]
            rest == Siblings(n) \ ToSet(f.expanded)
            more == SetToSeq(rest)
            longer == f.expanded \o more
            g == [f EXCEPT !.next = f.next + 1, !.expanded = longer]
<1>1. /\ f.stage = "expand" /\ f.next <= Len(f.selected) /\ DOMAIN reading = Readers
      /\ CallIsTyped(f, progress) /\ f \in Call /\ Led(f) /\ Expanding(f, progress)
      /\ progress \in [Snapshots -> 0..4]
  BY DEF Expand, RetrievalInv, ModesAreTyped, CallIsRight, CallIsTyped, Routed
<1>2. UNCHANGED <<progress, manifests, router, enabled, loaded, inquired>>
  BY DEF Expand
<1>3. f.selected \in Seq(f.found) /\ f.selected \in Seq(Nodes) /\ f.expanded \in Seq(Nodes)
      /\ f.found \in SUBSET Nodes
  BY <1>1 DEF Call, CallIsTyped
<1>4. f.next \in DOMAIN f.selected /\ f.next \in Nat
  BY <1>1, <1>3 DEF Expanding
<1>5. n \in f.found /\ n \in Nodes /\ Home[n] = f.snapshot
  BY <1>1, <1>3, <1>4 DEF CallIsTyped
<1>6. rest \subseteq Siblings(n) /\ IsFiniteSet(rest) /\ rest \subseteq Nodes
  BY <1>5, SiblingsAreInSection, FS_Subset
<1>7. /\ more \in Seq(rest) /\ IsInjective(more)
      /\ \A x \in rest : \E i \in DOMAIN more : more[i] = x
  BY <1>6, SetToSeqLists
<1>. HIDE DEF more
<1>8. more \in Seq(Nodes) /\ \A j \in DOMAIN more : more[j] \in rest
  BY <1>6, <1>7
<1>9. Apart(f.expanded, more)
  BY <1>8 DEF ToSet, Apart
<1>10. longer \in Seq(Nodes) /\ Joins(longer, f.expanded, more)
  <2>1. IsInjective(f.expanded)
    BY <1>1 DEF CallIsTyped
  <2> QED
    BY <1>3, <1>7, <1>8, <1>9, <2>1, JoinedLists
<1>. HIDE DEF longer
<1>11. g \in Call
  <2>1. f.next + 1 \in Nat
    BY <1>4
  <2> QED
    BY <1>1, <1>10, <2>1 DEF Call
<1>12. /\ g.stage = "expand" /\ g.expanded = longer /\ g.next = f.next + 1
       /\ g.selected = f.selected /\ g.request = f.request /\ g.snapshot = f.snapshot
       /\ g.found = f.found /\ g.items = f.items /\ g.similarity = f.similarity
       /\ g.joined = f.joined
  BY <1>1 DEF Call
<1>13. reading'[r] = g /\ DOMAIN reading' = Readers
       /\ \A x \in Readers \ {r} : reading'[x] = reading[x]
  BY <1>1 DEF Expand, Call, longer, more
<1>. HIDE DEF g, n
<1>14. CallIsTyped(g, progress)
  BY <1>1, <1>10, <1>11, <1>12 DEF CallIsTyped, Routed, Joins
<1>15. Led(g)
  BY <1>1, <1>12 DEF Led, Telling, Relevant
<1>16. GrowsFrom(f.selected, longer, progress)
  <2>1. f.selected # <<>> => longer # <<>> /\ longer[1] = f.selected[1]
    <3>1. HAVE f.selected # <<>>
    <3>2. f.expanded # <<>> /\ f.expanded[1] = f.selected[1]
      BY <1>1, <3>1 DEF Expanding, GrowsFrom
    <3>3. 1 \in DOMAIN f.expanded
      BY <1>3, <3>2
    <3> QED
      BY <1>10, <3>2, <3>3 DEF Joins
  <2>2. ASSUME NEW i \in DOMAIN longer
        PROVE  StoredBy(progress, longer[i]) /\ \E k \in DOMAIN f.selected : Home[longer[i]] = Home[f.selected[k]]
    <3>1. CASE i \in DOMAIN f.expanded /\ longer[i] = f.expanded[i]
      BY <1>1, <3>1 DEF Expanding, GrowsFrom
    <3>2. CASE \E j \in DOMAIN more : longer[i] = more[j]
      <4>1. longer[i] \in Siblings(n)
        BY <1>8, <3>2
      <4>2. Home[longer[i]] = Home[n] /\ Joined(Home[n])
        BY <1>5, <4>1, SiblingsAreInSection
      <4>3. progress[Home[n]] \in 0..4 /\ progress[Home[n]] >= 4
        BY <1>1, <1>5, <4>2, NodesAssumption DEF Joined
      <4>4. StoredBy(progress, longer[i])
        BY <4>2, <4>3 DEF StoredBy
      <4> QED
        BY <1>4, <4>2, <4>4 DEF n
    <3> QED
      BY <1>10, <3>1, <3>2 DEF Joins
  <2> QED
    BY <2>1, <2>2 DEF GrowsFrom
<1>17. Expanding(g, progress)
  <2>1. f.next + 1 \in 1..(Len(f.selected) + 1)
    BY <1>3, <1>4
  <2>2. ASSUME f.joined
        PROVE  /\ progress[f.snapshot] >= 4
               /\ \A k \in 1..(f.next + 1 - 1) : Holds(longer, Section(f.selected[k]))
    <3>1. /\ progress[f.snapshot] >= 4
          /\ \A k \in 1..(f.next - 1) : Holds(f.expanded, Section(f.selected[k]))
      BY <1>1, <2>2 DEF Expanding
    <3>2. \A S : Holds(f.expanded, S) => Holds(longer, S)
      BY <1>10 DEF Holds, Joins
    <3>3. Section(n) \subseteq Siblings(n)
      BY <1>5, <3>1, SiblingsAreInSection DEF Joined
    <3>4. Holds(longer, Section(n))
      <4>1. SUFFICES ASSUME NEW m \in Section(n) PROVE \E i \in DOMAIN longer : longer[i] = m
        BY DEF Holds
      <4>2. CASE m \in rest
        BY <1>7, <1>10, <4>2 DEF Joins
      <4>3. CASE m \in ToSet(f.expanded)
        BY <1>10, <4>3 DEF ToSet, Joins
      <4> QED
        BY <3>3, <4>2, <4>3
    <3>5. ASSUME NEW k \in 1..(f.next + 1 - 1) PROVE Holds(longer, Section(f.selected[k]))
      <4>1. k = f.next \/ k \in 1..(f.next - 1)
        BY <1>4
      <4> QED
        BY <3>1, <3>2, <3>4, <4>1 DEF n
    <3> QED
      BY <3>1, <3>5
  <2>3. GrowsFrom(g.selected, g.expanded, progress) /\ g.next \in 1..(Len(g.selected) + 1)
    BY <1>12, <1>16, <2>1
  <2>4. g.joined => /\ progress[g.snapshot] >= 4
                    /\ \A k \in 1..(g.next - 1) : Holds(g.expanded, Section(g.selected[k]))
    <3>1. HAVE g.joined
    <3>2. f.joined
      BY <1>12, <3>1, Zenon
    <3>3. g.next = f.next + 1
      BY <1>12
    <3>4. g.next - 1 = f.next + 1 - 1
      BY <1>4, <3>3
    <3> QED
      BY <1>12, <2>2, <3>2, <3>4, Zenon
  <2> QED
    BY <2>3, <2>4 DEF Expanding
<1>18. CallIsRight(g, progress, router)
  BY <1>12, <1>14, <1>15, <1>17 DEF CallIsRight
<1>19. ModesAreTyped'
  BY <1>2, <1>13 DEF RetrievalInv, ModesAreTyped
<1> QED
  BY <1>2, <1>13, <1>18, <1>19, OneReads

LEMMA PackIsRight == ASSUME RetrievalInv, NEW r \in Readers, Pack(r) PROVE RetrievalInv'
<1>. DEFINE f == reading[r]
            items == Cut(f.expanded, Budget)
            g == [f EXCEPT !.stage = "evidence", !.items = items, !.expanded = <<>>, !.next = 1]
            stored == [hash |-> Hash(f.request.question, f.selected), items |-> items,
                       joined |-> f.joined]
<1>1. /\ f.stage = "expand" /\ f.next > Len(f.selected) /\ DOMAIN reading = Readers
      /\ CallIsTyped(f, progress) /\ f \in Call /\ Led(f) /\ Expanding(f, progress)
  BY DEF Pack, RetrievalInv, ModesAreTyped, CallIsRight, CallIsTyped, Routed
<1>2. UNCHANGED <<progress, router, enabled, loaded, inquired>>
      /\ manifests' = manifests \cup {stored}
  BY DEF Pack
<1>3. f.selected \in Seq(Nodes) /\ f.expanded \in Seq(Nodes) /\ f.joined \in BOOLEAN
  BY <1>1 DEF Call
<1>4. Budget \in Nat \ {0}
  BY RetrievalAssumption
<1>5. /\ items \in Seq(Nodes) /\ Len(items) <= Budget
      /\ \A i \in DOMAIN items : i \in DOMAIN f.expanded /\ items[i] = f.expanded[i]
      /\ f.expanded # <<>> => items # <<>>
      /\ Len(items) # Budget => items = f.expanded
  BY <1>3, <1>4, CutList, ZenonT(40)
<1>6. <<>> \in Seq(Nodes) /\ IsInjective(<<>>)
  BY DEF IsInjective
<1>. HIDE DEF items
<1>7. g \in Call
  BY <1>1, <1>5, <1>6 DEF Call, Stages
<1>8. /\ g.stage = "evidence" /\ g.expanded = <<>> /\ g.next = 1 /\ g.items = items
      /\ g.selected = f.selected /\ g.request = f.request /\ g.snapshot = f.snapshot
      /\ g.found = f.found /\ g.similarity = f.similarity /\ g.joined = f.joined
  BY <1>1 DEF Call
<1>9. reading'[r] = g /\ DOMAIN reading' = Readers
      /\ \A x \in Readers \ {r} : reading'[x] = reading[x]
  BY <1>1 DEF Pack, Call, items
<1>. HIDE DEF g
<1>10. CallIsTyped(g, progress)
  BY <1>1, <1>5, <1>6, <1>7, <1>8 DEF CallIsTyped, Routed
<1>11. Led(g)
  BY <1>1, <1>8 DEF Led, Telling, Relevant
<1>12. GrowsFrom(f.selected, items, progress)
  <2>1. f.selected # <<>> => items # <<>> /\ items[1] = f.selected[1]
    <3>1. HAVE f.selected # <<>>
    <3>2. f.expanded # <<>> /\ f.expanded[1] = f.selected[1]
      BY <1>1, <3>1 DEF Expanding, GrowsFrom
    <3>3. items # <<>> /\ 1 \in DOMAIN items
      BY <1>5, <3>2
    <3> QED
      BY <1>5, <3>2, <3>3
  <2> QED
    BY <1>1, <1>5, <2>1 DEF Expanding, GrowsFrom
<1>13. f.joined => \/ Len(items) = Budget
                   \/ \A k \in DOMAIN f.selected : Holds(items, Section(f.selected[k]))
  <2>1. HAVE f.joined
  <2>2. \A k \in 1..(f.next - 1) : Holds(f.expanded, Section(f.selected[k]))
    BY <1>1, <2>1 DEF Expanding
  <2>3. \A k \in DOMAIN f.selected : k \in 1..(f.next - 1)
    BY <1>1, <1>3 DEF Expanding
  <2> QED
    BY <1>5, <2>2, <2>3
<1>14. Packs(f.selected, items, f.joined, progress)
  BY <1>5, <1>12, <1>13 DEF Packs
<1>15. CallIsRight(g, progress, router)
  BY <1>8, <1>10, <1>11, <1>14 DEF CallIsRight
<1>16. ManifestIsRight(stored, progress)
  <2>1. /\ stored.hash = Hash(f.request.question, f.selected) /\ stored.items = items
        /\ stored.joined = f.joined
    OBVIOUS
  <2>. HIDE DEF stored
  <2> QED
    BY <1>3, <1>14, <2>1 DEF ManifestIsRight
<1>17. ModesAreTyped'
  BY <1>2, <1>9 DEF RetrievalInv, ModesAreTyped
<1>. HIDE DEF stored
<1>18. \A m \in manifests' : m \in manifests \/ ManifestIsRight(m, progress)
  BY <1>2, <1>16
<1> QED
  BY <1>2, <1>9, <1>15, <1>17, <1>18, OneReads

LEMMA BuildProvenanceIsRight ==
    ASSUME RetrievalInv, NEW r \in Readers, BuildProvenance(r)
    PROVE  RetrievalInv'
<1>. DEFINE f == reading[r]
            cited == Picked(f.items, {i \in DOMAIN f.items : Stored(f.items[i])})
            g == [f EXCEPT !.stage = "answered", !.cited = cited]
<1>1. /\ f.stage = "evidence" /\ DOMAIN reading = Readers
      /\ CallIsTyped(f, progress) /\ f \in Call /\ Led(f)
      /\ Packs(f.selected, f.items, f.joined, progress)
  BY DEF BuildProvenance, RetrievalInv, ModesAreTyped, CallIsRight, CallIsTyped, Routed
<1>2. UNCHANGED <<progress, manifests, router, enabled, loaded, inquired>>
  BY DEF BuildProvenance
<1>3. f.items \in Seq(Nodes)
  BY <1>1 DEF Call
<1>4. \A i \in DOMAIN f.items : Stored(f.items[i])
  BY <1>1 DEF Packs, GrowsFrom, Stored, StoredBy
<1>5. {i \in DOMAIN f.items : Stored(f.items[i])} = DOMAIN f.items
  BY <1>4
<1>6. cited = f.items
  BY <1>3, <1>5, PickedAll
<1>7. reading'[r] = g /\ DOMAIN reading' = Readers
      /\ \A x \in Readers \ {r} : reading'[x] = reading[x]
  BY <1>1 DEF BuildProvenance, Call
<1>. HIDE DEF cited
<1>8. g \in Call
  BY <1>1, <1>3, <1>6 DEF Call, Stages
<1>9. /\ g.stage = "answered" /\ g.expanded = f.expanded /\ g.next = f.next /\ g.items = f.items
      /\ g.selected = f.selected /\ g.request = f.request /\ g.snapshot = f.snapshot
      /\ g.found = f.found /\ g.similarity = f.similarity /\ g.joined = f.joined
      /\ g.cited = f.items
  BY <1>1, <1>6 DEF Call
<1>. HIDE DEF g
<1>10. CallIsTyped(g, progress)
  BY <1>1, <1>8, <1>9 DEF CallIsTyped, Routed
<1>11. Led(g)
  BY <1>1, <1>9 DEF Led, Telling, Relevant
<1>12. CallIsRight(g, progress, router)
  BY <1>1, <1>9, <1>10, <1>11 DEF CallIsRight
<1>13. ModesAreTyped'
  BY <1>2, <1>7 DEF RetrievalInv, ModesAreTyped
<1> QED
  BY <1>2, <1>7, <1>12, <1>13, OneReads

LEMMA RetrievalInductive == RetrievalInv /\ [RetrievalNext]_retrievalVars => RetrievalInv'
<1>1. SUFFICES ASSUME RetrievalInv, [RetrievalNext]_retrievalVars PROVE RetrievalInv'
  OBVIOUS
<1>2. ASSUME NEW s \in Snapshots, Commit(s) PROVE RetrievalInv'
  BY <1>1, <1>2, CommitIsRight
<1>3. ASSUME NEW r \in Readers, NEW i \in Inquiries, Inquire(r, i) PROVE RetrievalInv'
  BY <1>1, <1>3, InquireIsRight
<1>4. ASSUME NEW r \in Readers, ListNodes(r) PROVE RetrievalInv'
  BY <1>1, <1>4, ListNodesIsRight
<1>5. ASSUME NEW r \in Readers, Route(r) PROVE RetrievalInv'
  BY <1>1, <1>5, RouteIsRight
<1>6. ASSUME NEW r \in Readers, Encode(r) PROVE RetrievalInv'
  BY <1>1, <1>6, EncodeIsRight
<1>7. ASSUME NEW r \in Readers, LoadModel(r) PROVE RetrievalInv'
  BY <1>1, <1>7, LoadModelIsRight
<1>8. ASSUME NEW r \in Readers, Find(r) PROVE RetrievalInv'
  BY <1>1, <1>8, FindIsRight
<1>9. ASSUME NEW r \in Readers, Expand(r) PROVE RetrievalInv'
  BY <1>1, <1>9, ExpandIsRight
<1>10. ASSUME NEW r \in Readers, Pack(r) PROVE RetrievalInv'
  BY <1>1, <1>10, PackIsRight
<1>11. ASSUME NEW r \in Readers, BuildProvenance(r) PROVE RetrievalInv'
  BY <1>1, <1>11, BuildProvenanceIsRight
<1>12. CASE UNCHANGED retrievalVars
  BY <1>1, <1>12 DEF retrievalVars, RetrievalInv, ModesAreTyped
<1> QED
  BY <1>1, <1>2, <1>3, <1>4, <1>5, <1>6, <1>7, <1>8, <1>9, <1>10, <1>11, <1>12 DEF RetrievalNext

LEMMA RetrievalKeeps == RetrievalSpec => []RetrievalInv
<1> QED
  BY RetrievalAtFirst, RetrievalInductive, PTL DEF RetrievalSpec

\* Types: a query selects and packs no more than it may, whatever is stored meanwhile.
THEOREM RetrievalTypeCorrect == RetrievalSpec => []RetrievalTypeOK
<1>1. RetrievalInv => RetrievalTypeOK
  <2>1. SUFFICES ASSUME RetrievalInv PROVE RetrievalTypeOK
    OBVIOUS
  <2>2. \A r \in Readers : CallIsTyped(reading[r], progress) /\ reading[r] \in Call
    BY <2>1 DEF RetrievalInv, CallIsRight, CallIsTyped
  <2>3. ASSUME NEW r \in Readers
        PROVE  LET f == reading[r] IN
               /\ f.stage # "free" => f.request \in Inquiries /\ f.snapshot \in Snapshots
               /\ f.selected \in Seq(Nodes) /\ Len(f.selected) <= MaxNodes
               /\ f.items \in Seq(Nodes) /\ Len(f.items) <= Budget
               /\ IsInjective(f.expanded)
    BY <2>2 DEF CallIsTyped, Call
  <2> QED
    BY <2>1, <2>3 DEF RetrievalTypeOK, RetrievalInv, ModesAreTyped
<1> QED
  BY <1>1, RetrievalKeeps, PTL

\* An answer is based on the snapshot its query read, leads with a relevant node and
\* leaves out no part of a section but for the budget, for any nodes, scores that rank
\* them, questions, readers and limits: QueryService.run and what it calls.
THEOREM AnswersAreBased == RetrievalSpec => []AnswersFromItsSnapshot
<1>1. RetrievalInv => AnswersFromItsSnapshot
  <2>1. SUFFICES ASSUME RetrievalInv, NEW r \in Readers, reading[r].stage = "answered"
                 PROVE  LET f == reading[r]
                            cited == ToSet(f.cited)
                        IN  /\ \A n \in cited : Home[n] = f.snapshot
                            /\ f.cited = f.items
                            /\ f.found # {} => cited # {}
                            /\ (f.request.wanted \cap f.found = {} /\ \E n \in f.found : Telling(f, n))
                                  => Relevant(f, Head(f.cited))
                            /\ f.joined => \/ Len(f.items) = Budget
                                           \/ \A n \in ToSet(f.selected) : Section(n) \subseteq cited
    BY DEF AnswersFromItsSnapshot
  <2>. DEFINE f == reading[r]
              cited == ToSet(f.cited)
  <2>2. /\ CallIsTyped(f, progress) /\ f \in Call /\ Led(f) /\ f.cited = f.items
        /\ Packs(f.selected, f.items, f.joined, progress)
    BY <2>1 DEF RetrievalInv, CallIsRight, CallIsTyped, Routed
  <2>3. f.items \in Seq(Nodes) /\ f.selected \in Seq(f.found)
    BY <2>2 DEF Call, CallIsTyped
  <2>. HIDE DEF f
  <2>4. ASSUME NEW n \in cited PROVE Home[n] = f.snapshot
    <3>1. PICK i \in DOMAIN f.items : n = f.items[i]
      BY <2>2 DEF ToSet
    <3>2. PICK k \in DOMAIN f.selected : Home[n] = Home[f.selected[k]]
      BY <2>2, <3>1 DEF Packs, GrowsFrom
    <3>3. f.selected[k] \in f.found
      BY <2>3
    <3> QED
      BY <2>2, <3>2, <3>3 DEF CallIsTyped
  <2>5. f.found # {} => f.cited # <<>> /\ f.cited[1] = f.selected[1]
    BY <2>2 DEF Led, Packs, GrowsFrom
  <2>6. f.found # {} => cited # {}
    <3>1. f.cited # <<>> => 1 \in DOMAIN f.cited
      BY <2>2, <2>3
    <3> QED
      BY <2>5, <3>1 DEF ToSet
  <2>7. (f.request.wanted \cap f.found = {} /\ \E n \in f.found : Telling(f, n))
           => Relevant(f, Head(f.cited))
    <3>1. HAVE f.request.wanted \cap f.found = {} /\ \E n \in f.found : Telling(f, n)
    <3>2. Relevant(f, f.selected[1]) /\ f.found # {}
      BY <2>2, <3>1 DEF Led
    <3>3. Head(f.cited) = f.cited[1]
      BY <2>2, <2>3
    <3> QED
      BY <2>5, <3>2, <3>3
  <2>8. f.joined => \/ Len(f.items) = Budget
                    \/ \A n \in ToSet(f.selected) : Section(n) \subseteq cited
    <3>1. \A S : Holds(f.items, S) => S \subseteq cited
      BY <2>2 DEF Holds, ToSet
    <3> QED
      BY <2>2, <3>1 DEF Packs, ToSet
  <2> QED
    BY <2>2, <2>4, <2>6, <2>7, <2>8 DEF f
<1> QED
  BY <1>1, RetrievalKeeps, PTL

(***************************************************************************)
(* The layout of PDF snapshots.  First the headings of a file's pages.     *)
(***************************************************************************)
PdfNodes == [kind : {"root", "document", "section", "page", "whole"}, file : 0..NumFiles,
             parent : Nat, title : Headings \cup {NoHeading, FrontMatter}, page : Nat,
             text : SUBSET Nat]

LEMMA NumbersUpTo ==
    ASSUME NEW n \in Nat
    PROVE  IsFiniteSet(1..n) /\ Cardinality(1..n) = n
<1>1. 1 \in Int /\ n \in Int
  OBVIOUS
<1>2. IsFiniteSet(1..n) /\ Cardinality(1..n) = IF 1 > n THEN 0 ELSE n - 1 + 1
  BY <1>1, FS_Interval
<1> QED
  BY <1>2

\* Two lists, one after the other.
Follows(both, s, t) ==
    /\ Len(both) = Len(s) + Len(t) /\ DOMAIN both = 1..(Len(s) + Len(t))
    /\ \A k \in 1..Len(s) : both[k] = s[k]
    /\ \A k \in 1..Len(t) : both[Len(s) + k] = t[k]

LEMMA Concatenation ==
    ASSUME NEW S, NEW s \in Seq(S), NEW t \in Seq(S)
    PROVE  /\ Len(s) \in Nat /\ Len(t) \in Nat
           /\ DOMAIN s = 1..Len(s) /\ DOMAIN t = 1..Len(t)
           /\ s \o t \in Seq(S) /\ Follows(s \o t, s, t)
<1>1. /\ Len(s) \in Nat /\ Len(t) \in Nat
      /\ DOMAIN s = 1..Len(s) /\ DOMAIN t = 1..Len(t)
  OBVIOUS
<1>2. /\ s \o t \in Seq(S) /\ Len(s \o t) = Len(s) + Len(t)
      /\ DOMAIN (s \o t) = 1..(Len(s) + Len(t))
  OBVIOUS
<1>3. \A k \in 1..Len(s) : (s \o t)[k] = s[k]
  OBVIOUS
<1>4. \A k \in 1..Len(t) : (s \o t)[Len(s) + k] = t[k]
  OBVIOUS
<1> QED
  BY <1>1, <1>2, <1>3, <1>4 DEF Follows

LEMMA EndsOfPages ==
    ASSUME NEW n \in Nat, NEW S \in SUBSET (1..n), S # {}
    PROVE  /\ Min(S) \in S /\ \A i \in S : Min(S) <= i
           /\ Max(S) \in S /\ \A i \in S : i <= Max(S)
<1>1. \E x \in S : \A y \in S : y <= x
  BY GreatestIndex
<1>2. \E x \in S : \A y \in S : x >= y
  BY <1>1
<1>3. S \in SUBSET Nat
  OBVIOUS
<1>4. \E x \in S : \A y \in S : x <= y
  BY <1>3, LeastMember
<1>5. Max(S) \in S /\ \A y \in S : Max(S) >= y
  BY <1>2 DEF Max
<1>6. Min(S) \in S /\ \A y \in S : Min(S) <= y
  BY <1>4 DEF Min
<1>7. \A y \in S : y <= Max(S)
  BY <1>3, <1>5
<1> QED
  BY <1>5, <1>6, <1>7

\* A page is under a heading or in the front matter.
LEMMA HeadingIsTitle ==
    ASSUME NEW pages \in Seq(PdfPage), NEW i \in DOMAIN pages
    PROVE  HeadingOf(pages, i) \in Headings \cup {FrontMatter}
<1> DEFINE above == {j \in 1..i : pages[j].heading # NoHeading}
<1>1. CASE above = {}
  BY <1>1 DEF HeadingOf
<1>2. CASE above # {}
  <2>1. i \in Nat /\ above \in SUBSET (1..i)
    OBVIOUS
  <2>2. Max(above) \in above
    <3> HIDE DEF above
    <3> QED
      BY <1>2, <2>1, EndsOfPages
  <2>3. Max(above) \in DOMAIN pages /\ pages[Max(above)].heading # NoHeading
    BY <2>2
  <2>4. pages[Max(above)].heading \in Headings
    <3>1. pages[Max(above)] \in PdfPage
      BY <2>3
    <3>2. \A page \in PdfPage : page.heading \in Headings \cup {NoHeading}
      BY DEF PdfPage
    <3> QED
      BY <2>3, <3>1, <3>2
  <2>5. HeadingOf(pages, i) = pages[Max(above)].heading
    BY <1>2 DEF HeadingOf
  <2> QED
    BY <2>4, <2>5
<1> QED
  BY <1>1, <1>2

\* A heading holds from its page to the next heading.
LEMMA HeadingHolds ==
    ASSUME NEW pages \in Seq(PdfPage), NEW i \in DOMAIN pages
    PROVE  HeadingOf(pages, i) = IF pages[i].heading # NoHeading THEN pages[i].heading
                                 ELSE IF i = 1 THEN FrontMatter ELSE HeadingOf(pages, i - 1)
<1> DEFINE above(k) == {j \in 1..k : pages[j].heading # NoHeading}
<1>1. i \in Nat /\ i >= 1
  OBVIOUS
<1>2. CASE pages[i].heading # NoHeading
  <2>1. above(i) \in SUBSET (1..i) /\ i \in above(i)
    BY <1>1, <1>2
  <2>2. Max(above(i)) \in above(i) /\ i <= Max(above(i))
    <3> HIDE DEF above
    <3> QED
      BY <1>1, <2>1, EndsOfPages
  <2>3. Max(above(i)) = i
    BY <2>2
  <2> QED
    BY <1>2, <2>1, <2>3 DEF HeadingOf
<1>3. CASE pages[i].heading = NoHeading /\ i = 1
  <2>1. above(i) = {}
    BY <1>3
  <2> QED
    BY <1>3, <2>1 DEF HeadingOf
<1>4. CASE pages[i].heading = NoHeading /\ i # 1
  <2>1. above(i) = above(i - 1)
    BY <1>1, <1>4
  <2> QED
    BY <1>4, <2>1 DEF HeadingOf
<1> QED
  BY <1>2, <1>3, <1>4

\* Every title once.
LEMMA TitlesOnce ==
    ASSUME NEW pages \in Seq(PdfPage)
    PROVE  /\ Titles(pages) \in Seq(Headings \cup {FrontMatter})
           /\ \A i \in DOMAIN pages : \E k \in DOMAIN Titles(pages) :
                 Titles(pages)[k] = HeadingOf(pages, i)
           /\ \A j, k \in DOMAIN Titles(pages) :
                 Titles(pages)[j] = Titles(pages)[k] => j = k
<1> DEFINE titles == {HeadingOf(pages, i) : i \in DOMAIN pages}
           FirstPage(title) == Min(PagesUnder(pages, title))
           R == {p \in titles \X titles : FirstPage(p[1]) < FirstPage(p[2])}
           n == Len(pages)
<1>1. n \in Nat /\ DOMAIN pages = 1..n
  OBVIOUS
<1>2. IsFiniteSet(titles)
  <2> DEFINE g == [i \in 1..n |-> HeadingOf(pages, i)]
  <2>1. IsFiniteSet(1..n)
    BY <1>1, NumbersUpTo
  <2>2. g \in Surjection(1..n, titles)
    BY <1>1 DEF Surjection
  <2> HIDE DEF g, titles
  <2> QED
    BY <2>1, <2>2, FS_Surjection
<1>3. \A t \in titles : FirstPage(t) \in 1..n /\ HeadingOf(pages, FirstPage(t)) = t
  <2> SUFFICES ASSUME NEW t \in titles
               PROVE  FirstPage(t) \in 1..n /\ HeadingOf(pages, FirstPage(t)) = t
    OBVIOUS
  <2>1. PagesUnder(pages, t) \in SUBSET (1..n) /\ PagesUnder(pages, t) # {}
    BY <1>1 DEF PagesUnder
  <2>2. FirstPage(t) \in PagesUnder(pages, t)
    BY <1>1, <2>1, EndsOfPages
  <2> QED
    BY <1>1, <2>2 DEF PagesUnder
<1>4. \A s, t \in titles : <<s, t>> \in R <=> FirstPage(s) < FirstPage(t)
  OBVIOUS
<1>5. Titles(pages) = Arranged(titles, R)
  BY DEF Titles
<1> HIDE DEF titles, FirstPage, R, n
<1>6. \A t \in titles : FirstPage(t) \in Int
  BY <1>3
<1>7. Orders(R, titles)
  <2>1. \A t \in titles : <<t, t>> \notin R
    BY <1>4, <1>6
  <2>2. \A s, t \in titles : s # t => <<s, t>> \in R \/ <<t, s>> \in R
    <3> SUFFICES ASSUME NEW s \in titles, NEW t \in titles, s # t
                 PROVE  FirstPage(s) < FirstPage(t) \/ FirstPage(t) < FirstPage(s)
      BY <1>4
    <3>1. FirstPage(s) # FirstPage(t)
      BY <1>3
    <3> QED
      BY <1>6, <3>1
  <2>3. \A s, t, u \in titles : <<s, t>> \in R /\ <<t, u>> \in R => <<s, u>> \in R
    BY <1>4, <1>6
  <2> QED
    BY <2>1, <2>2, <2>3 DEF Orders
<1>8. Sorts(Titles(pages), titles, R)
  BY <1>2, <1>5, <1>7, ArrangedSorts
<1>9. Titles(pages) \in Seq(titles) /\ titles \subseteq Headings \cup {FrontMatter}
  BY <1>8, HeadingIsTitle DEF Sorts, titles
<1>10. Titles(pages) \in Seq(Headings \cup {FrontMatter})
  BY <1>9
<1>11. \A i \in DOMAIN pages : HeadingOf(pages, i) \in titles
  BY DEF titles
<1> QED
  BY <1>8, <1>10, <1>11 DEF Sorts

(***************************************************************************)
(* The trees.  A tree is planted where its document's node gets the index  *)
(* doc: every node belongs to the root or to an earlier node of the tree.  *)
(***************************************************************************)
Place(pages, title) == CHOOSE k \in DOMAIN Titles(pages) : Titles(pages)[k] = title
Built(pages) ==
    IF Unformattable(pages) = {} THEN Len(pages) ELSE Min(Unformattable(pages)) - 1
ConvertedTree(f, pages, doc) ==
    <<Document("document", f, Firsts(DOMAIN pages)),
      PdfNode("whole", f, doc, NoHeading, 0, DOMAIN pages)>>

OfTree(tree, f, doc, k) ==
    LET node == tree[k]
        up == tree[node.parent - doc + 1]
    IN  /\ node.file = f
        /\ \/ node.parent = 1 /\ node.kind \in {"document", "whole"}
           \/ /\ node.parent \in doc..(doc + k - 2)
              /\ \/ node.kind = "section" /\ up.kind = "document"
                 \/ node.kind = "page" /\ up.kind \in {"document", "section"}
                 \/ node.kind = "whole" /\ up.kind = "document"
Planted(tree, f, doc) ==
    tree \in Seq(PdfNodes) /\ \A k \in DOMAIN tree : OfTree(tree, f, doc, k)

PagesIn(tree, p) == {k \in DOMAIN tree : tree[k].kind = "page" /\ tree[k].page = p}

LEMMA DocumentNode ==
    ASSUME NEW f \in Files, NEW kind \in {"document", "whole"}, NEW text \in SUBSET Nat
    PROVE  Document(kind, f, text) \in PdfNodes
BY PdfAssumption DEF Document, PdfNode, PdfNodes, Files

LEMMA FirstsAreNumbers ==
    ASSUME NEW S \in SUBSET Nat
    PROVE  Firsts(S) \in SUBSET Nat
BY DEF Firsts

\* A page whose table cannot be formatted ends the pages that are built.
LEMMA BuiltTypes ==
    ASSUME NEW pages \in Seq(PdfPage)
    PROVE  /\ Built(pages) \in 0..Len(pages)
           /\ Unformattable(pages) = {} => Built(pages) = Len(pages)
<1>1. Len(pages) \in Nat /\ Unformattable(pages) \in SUBSET (1..Len(pages))
  BY DEF Unformattable
<1>2. CASE Unformattable(pages) = {}
  BY <1>1, <1>2 DEF Built
<1>3. CASE Unformattable(pages) # {}
  <2>1. Min(Unformattable(pages)) \in 1..Len(pages)
    BY <1>1, <1>3, EndsOfPages
  <2> QED
    BY <1>1, <1>3, <2>1 DEF Built
<1> QED
  BY <1>2, <1>3

LEMMA PlacesOfTitles ==
    ASSUME NEW pages \in Seq(PdfPage), NEW i \in DOMAIN pages
    PROVE  /\ Place(pages, HeadingOf(pages, i)) \in DOMAIN Titles(pages)
           /\ Titles(pages)[Place(pages, HeadingOf(pages, i))] = HeadingOf(pages, i)
BY TitlesOnce DEF Place

\* The tree of sections, node by node.
LEMMA SectionTreeNodes ==
    ASSUME NEW f \in Files, NEW pages \in Seq(PdfPage), NEW doc \in Nat
    PROVE  LET tree == SectionTree(f, pages, doc)
               n == Len(Titles(pages))
           IN  /\ n \in Nat /\ DOMAIN tree = 1..(1 + n + Built(pages))
               /\ Len(tree) = 1 + n + Built(pages)
               /\ tree \in Seq(PdfNodes)
               /\ tree[1] = Document("document", f, {1})
               /\ \A k \in 1..n : tree[1 + k] =
                     PdfNode("section", f, doc, Titles(pages)[k], 0,
                             PagesUnder(pages, Titles(pages)[k]))
               /\ \A i \in 1..Built(pages) : tree[1 + n + i] =
                     PdfNode("page", f, doc + Place(pages, HeadingOf(pages, i)),
                             HeadingOf(pages, i), i, {i})
<1> DEFINE titles == Titles(pages)
           n == Len(titles)
           built == Built(pages)
           head == <<Document("document", f, {1})>>
           middle == [k \in DOMAIN titles |->
                        PdfNode("section", f, doc, titles[k], 0, PagesUnder(pages, titles[k]))]
           tail == [i \in 1..built |->
                      PdfNode("page", f, doc + Place(pages, HeadingOf(pages, i)),
                              HeadingOf(pages, i), i, {i})]
<1>1. SectionTree(f, pages, doc) = (head \o middle) \o tail
  BY DEF SectionTree, Built, Place
<1>2. n \in Nat /\ DOMAIN titles = 1..n /\ \A k \in 1..n : titles[k] \in Headings \cup {FrontMatter}
  BY TitlesOnce
<1>3. built \in Nat /\ built <= Len(pages) /\ Len(pages) \in Nat /\ DOMAIN pages = 1..Len(pages)
  BY BuiltTypes
<1>4. head \in Seq(PdfNodes) /\ Len(head) = 1 /\ head[1] = Document("document", f, {1})
  <2>1. {1} \in SUBSET Nat
    OBVIOUS
  <2>2. Document("document", f, {1}) \in PdfNodes
    BY <2>1, DocumentNode
  <2> QED
    BY <2>2
<1>5. middle \in Seq(PdfNodes) /\ Len(middle) = n
  <2>1. \A k \in 1..n : PagesUnder(pages, titles[k]) \in SUBSET Nat
    BY <1>3 DEF PagesUnder
  <2>2. \A k \in 1..n :
           PdfNode("section", f, doc, titles[k], 0, PagesUnder(pages, titles[k])) \in PdfNodes
    <3> SUFFICES ASSUME NEW k \in 1..n
                 PROVE  PdfNode("section", f, doc, titles[k], 0, PagesUnder(pages, titles[k]))
                          \in PdfNodes
      OBVIOUS
    <3>1. titles[k] \in Headings \cup {NoHeading, FrontMatter} /\ f \in 0..NumFiles
      BY <1>2, PdfAssumption DEF Files
    <3> HIDE DEF titles, n
    <3> QED
      BY <2>1, <3>1 DEF PdfNode, PdfNodes
  <2>3. middle \in [1..n -> PdfNodes]
    BY <1>2, <2>2
  <2> HIDE DEF middle
  <2> QED
    BY <1>2, <2>3
<1>6. tail \in Seq(PdfNodes) /\ Len(tail) = built
  <2>1. \A i \in 1..built :
           PdfNode("page", f, doc + Place(pages, HeadingOf(pages, i)), HeadingOf(pages, i), i, {i})
             \in PdfNodes
    <3> SUFFICES ASSUME NEW i \in 1..built
                 PROVE  PdfNode("page", f, doc + Place(pages, HeadingOf(pages, i)),
                                HeadingOf(pages, i), i, {i}) \in PdfNodes
      OBVIOUS
    <3>1. i \in DOMAIN pages /\ i \in Nat /\ f \in 0..NumFiles
      BY <1>3, PdfAssumption DEF Files
    <3>2. HeadingOf(pages, i) \in Headings \cup {NoHeading, FrontMatter}
      BY <3>1, HeadingIsTitle
    <3>3. doc + Place(pages, HeadingOf(pages, i)) \in Nat
      BY <1>2, <3>1, PlacesOfTitles
    <3> QED
      BY <3>1, <3>2, <3>3 DEF PdfNode, PdfNodes
  <2>2. tail \in [1..built -> PdfNodes]
    BY <2>1
  <2> HIDE DEF tail
  <2> QED
    BY <1>3, <2>2
<1>7. \A k \in 1..n : middle[k] =
         PdfNode("section", f, doc, titles[k], 0, PagesUnder(pages, titles[k]))
  BY <1>2
<1>8. \A i \in 1..built : tail[i] =
         PdfNode("page", f, doc + Place(pages, HeadingOf(pages, i)), HeadingOf(pages, i), i, {i})
  OBVIOUS
<1> HIDE DEF head, middle, tail, n, titles, built
<1> DEFINE both == head \o middle
           tree == both \o tail
<1>9. /\ both \in Seq(PdfNodes) /\ Len(both) = 1 + n
      /\ both[1] = head[1] /\ \A k \in 1..n : both[1 + k] = middle[k]
  <2>1. both \in Seq(PdfNodes) /\ Follows(both, head, middle)
    BY <1>4, <1>5, Concatenation
  <2> HIDE DEF both
  <2> QED
    BY <1>2, <1>4, <1>5, <2>1 DEF Follows
<1> HIDE DEF both
<1>10. /\ tree \in Seq(PdfNodes) /\ Len(tree) = 1 + n + built
       /\ \A k \in 1..(1 + n) : tree[k] = both[k]
       /\ \A i \in 1..built : tree[1 + n + i] = tail[i]
  <2>1. tree \in Seq(PdfNodes) /\ Follows(tree, both, tail)
    BY <1>6, <1>9, Concatenation
  <2> HIDE DEF tree
  <2> QED
    BY <1>2, <1>6, <1>9, <2>1 DEF Follows
<1>11. SectionTree(f, pages, doc) = tree
  BY <1>1 DEF both
<1> HIDE DEF tree
<1>12. DOMAIN tree = 1..(1 + n + built)
  BY <1>10
<1>13. tree[1] = Document("document", f, {1})
  BY <1>2, <1>4, <1>9, <1>10
<1>14. \A k \in 1..n : tree[1 + k] = middle[k]
  <2> SUFFICES ASSUME NEW k \in 1..n PROVE tree[1 + k] = middle[k]
    OBVIOUS
  <2>1. 1 + k \in 1..(1 + n)
    BY <1>2
  <2> QED
    BY <1>9, <1>10, <2>1
<1> QED
  BY <1>2, <1>7, <1>8, <1>10, <1>11, <1>12, <1>13, <1>14 DEF titles, n, built

\* A document and pages of it, each once.
PageTree(tree, f, doc, K) ==
    /\ tree \in Seq(PdfNodes) /\ Len(tree) >= 1
    /\ tree[1].file = f /\ tree[1].kind = "document" /\ tree[1].parent = 1
    /\ \A k \in DOMAIN tree : k # 1 => \E i \in K : tree[k] = FlatPage(f, doc, i)
    /\ \A i \in K : \E k \in DOMAIN tree : k # 1 /\ tree[k] = FlatPage(f, doc, i)
    /\ \A j, k \in DOMAIN tree : j # 1 /\ k # 1 /\ tree[j] = tree[k] => j = k

PageList(f, doc, order, text) ==
    <<Document("document", f, text)>> \o [k \in DOMAIN order |-> FlatPage(f, doc, order[k])]

LEMMA PagesOfList ==
    ASSUME NEW f \in Files, NEW doc \in Nat \ {0}, NEW K \in SUBSET Nat, NEW text \in SUBSET Nat,
           NEW order \in Seq(K),
           \A i \in K : \E k \in DOMAIN order : order[k] = i,
           \A j, k \in DOMAIN order : order[j] = order[k] => j = k
    PROVE  PageTree(PageList(f, doc, order, text), f, doc, K)
<1> DEFINE head == <<Document("document", f, text)>>
           tail == [k \in DOMAIN order |-> FlatPage(f, doc, order[k])]
           tree == head \o tail
           n == Len(order)
<1>1. n \in Nat /\ DOMAIN order = 1..n /\ \A k \in 1..n : order[k] \in K
  OBVIOUS
<1>2. head \in Seq(PdfNodes) /\ Len(head) = 1 /\ head[1] = Document("document", f, text)
  <2>1. Document("document", f, text) \in PdfNodes
    BY DocumentNode
  <2> QED
    BY <2>1
<1>3. \A i \in K : FlatPage(f, doc, i) \in PdfNodes /\ FlatPage(f, doc, i).page = i
  <2>1. f \in 0..NumFiles /\ K \subseteq Nat
    BY PdfAssumption DEF Files
  <2> QED
    BY <2>1 DEF FlatPage, PdfNode, PdfNodes
<1>4. tail \in Seq(PdfNodes) /\ Len(tail) = n /\ \A k \in 1..n : tail[k] = FlatPage(f, doc, order[k])
  <2>1. tail \in [1..n -> PdfNodes]
    BY <1>1, <1>3
  <2>2. \A k \in 1..n : tail[k] = FlatPage(f, doc, order[k])
    BY <1>1
  <2> HIDE DEF tail
  <2> QED
    BY <1>1, <2>1, <2>2
<1>5. tree \in Seq(PdfNodes) /\ Follows(tree, head, tail)
  <2> HIDE DEF head, tail
  <2> QED
    BY <1>2, <1>4, Concatenation
<1> HIDE DEF head, tail, tree, n
<1>6. /\ Len(tree) = 1 + n /\ DOMAIN tree = 1..(1 + n)
      /\ tree[1] = Document("document", f, text)
      /\ \A k \in 1..n : tree[1 + k] = FlatPage(f, doc, order[k])
  BY <1>1, <1>2, <1>4, <1>5 DEF Follows
<1>7. \A k \in DOMAIN tree : k # 1 => k - 1 \in 1..n /\ tree[k] = FlatPage(f, doc, order[k - 1])
  <2> SUFFICES ASSUME NEW k \in DOMAIN tree, k # 1
               PROVE  k - 1 \in 1..n /\ tree[k] = FlatPage(f, doc, order[k - 1])
    OBVIOUS
  <2>1. k - 1 \in 1..n /\ 1 + (k - 1) = k
    BY <1>1, <1>6
  <2>2. tree[1 + (k - 1)] = FlatPage(f, doc, order[k - 1])
    BY <1>6, <2>1
  <2> QED
    BY <2>1, <2>2
<1>8. \A k \in DOMAIN tree : k # 1 => \E i \in K : tree[k] = FlatPage(f, doc, i)
  <2> SUFFICES ASSUME NEW k \in DOMAIN tree, k # 1
               PROVE  \E i \in K : tree[k] = FlatPage(f, doc, i)
    OBVIOUS
  <2>1. tree[k] = FlatPage(f, doc, order[k - 1]) /\ order[k - 1] \in K
    BY <1>1, <1>7
  <2> QED
    BY <2>1
<1>9. \A i \in K : \E k \in DOMAIN tree : k # 1 /\ tree[k] = FlatPage(f, doc, i)
  <2> SUFFICES ASSUME NEW i \in K PROVE \E k \in DOMAIN tree : k # 1 /\ tree[k] = FlatPage(f, doc, i)
    OBVIOUS
  <2>1. PICK k \in 1..n : order[k] = i
    BY <1>1
  <2>2. 1 + k \in DOMAIN tree /\ 1 + k # 1 /\ tree[1 + k] = FlatPage(f, doc, i)
    BY <1>1, <1>6, <2>1
  <2> QED
    BY <2>2
<1>10. ASSUME NEW j \in DOMAIN tree, NEW k \in DOMAIN tree, j # 1, k # 1, tree[j] = tree[k]
       PROVE  j = k
  <2>1. /\ j - 1 \in 1..n /\ tree[j] = FlatPage(f, doc, order[j - 1])
        /\ k - 1 \in 1..n /\ tree[k] = FlatPage(f, doc, order[k - 1])
    BY <1>7, <1>10
  <2>2. tree[j].page = order[j - 1] /\ tree[k].page = order[k - 1]
    BY <1>1, <1>3, <2>1
  <2>3. j - 1 = k - 1
    BY <1>1, <1>10, <2>1, <2>2
  <2> QED
    BY <1>1, <1>6, <2>1, <2>3
<1>11. tree[1].file = f /\ tree[1].kind = "document" /\ tree[1].parent = 1
  BY <1>6 DEF Document, PdfNode
<1>12. PageTree(tree, f, doc, K)
  BY <1>1, <1>5, <1>6, <1>8, <1>9, <1>10, <1>11 DEF PageTree
<1> QED
  BY <1>12 DEF tree, head, tail, PageList

OnePage(tree, p) == \E k \in DOMAIN tree : PagesIn(tree, p) = {k}

LEMMA PageTreeIsPlanted ==
    ASSUME NEW f \in Files, NEW doc \in Nat \ {0}, NEW K \in SUBSET Nat, NEW tree,
           PageTree(tree, f, doc, K)
    PROVE  /\ Planted(tree, f, doc)
           /\ \A p \in K : OnePage(tree, p)
<1>1. tree \in Seq(PdfNodes) /\ Len(tree) \in Nat /\ DOMAIN tree = 1..Len(tree) /\ 1 \in DOMAIN tree
  BY DEF PageTree
<1>2. \A i \in K : /\ FlatPage(f, doc, i).file = f /\ FlatPage(f, doc, i).kind = "page"
                   /\ FlatPage(f, doc, i).parent = doc /\ FlatPage(f, doc, i).page = i
  BY DEF FlatPage, PdfNode
<1>3. ASSUME NEW k \in DOMAIN tree PROVE OfTree(tree, f, doc, k)
  <2>1. CASE k = 1
    BY <2>1 DEF PageTree, OfTree
  <2>2. CASE k # 1
    <3>1. /\ tree[k].file = f /\ tree[k].kind = "page" /\ tree[k].parent = doc
      BY <1>2, <2>2 DEF PageTree
    <3>2. doc \in doc..(doc + k - 2) /\ doc - doc + 1 = 1
      BY <1>1, <2>2
    <3>3. tree[1].kind = "document"
      BY DEF PageTree
    <3> QED
      BY <3>1, <3>2, <3>3 DEF OfTree
  <2> QED
    BY <2>1, <2>2
<1>4. ASSUME NEW p \in K PROVE OnePage(tree, p)
  <2>1. PICK k \in DOMAIN tree : k # 1 /\ tree[k] = FlatPage(f, doc, p)
    BY DEF PageTree
  <2>2. k \in PagesIn(tree, p)
    BY <1>2, <2>1 DEF PagesIn
  <2>3. ASSUME NEW j \in PagesIn(tree, p) PROVE j = k
    <3>1. j # 1
      BY DEF PagesIn, PageTree
    <3>2. tree[j] = FlatPage(f, doc, p)
      BY <1>2, <3>1 DEF PagesIn, PageTree
    <3> QED
      BY <2>1, <3>1, <3>2 DEF PageTree, PagesIn
  <2> QED
    BY <2>2, <2>3 DEF OnePage
<1> QED
  BY <1>1, <1>3, <1>4 DEF Planted

LEMMA FlatTreeIsPlanted ==
    ASSUME NEW f \in Files, NEW pages \in Seq(PdfPage), NEW doc \in Nat \ {0},
           NEW mode \in PdfModes
    PROVE  /\ Planted(FlatTree(f, pages, doc, mode), f, doc)
           /\ mode # "document" =>
                 \A p \in DOMAIN pages : OnePage(FlatTree(f, pages, doc, mode), p)
<1> DEFINE n == Len(pages)
           text == Firsts(DOMAIN pages)
<1>1. n \in Nat /\ DOMAIN pages = 1..n /\ text \in SUBSET Nat
  BY FirstsAreNumbers
<1>2. CASE mode # "document" /\ pages # <<>>
  <2> DEFINE order == [i \in 1..n |-> i]
             tree == PageList(f, doc, order, text)
  <2>1. /\ order \in Seq(1..n) /\ DOMAIN order = 1..n
        /\ \A k \in 1..n : order[k] = k
    BY <1>1
  <2>2. [k \in DOMAIN order |-> FlatPage(f, doc, order[k])]
          = [i \in DOMAIN pages |-> FlatPage(f, doc, i)]
    BY <1>1, <2>1
  <2>3. FlatTree(f, pages, doc, mode) = tree
    BY <1>2, <2>2 DEF FlatTree, PageList
  <2> HIDE DEF order, text, n
  <2>4. 1..n \in SUBSET Nat
    BY <1>1
  <2>5. /\ \A i \in 1..n : \E k \in DOMAIN order : order[k] = i
        /\ \A j, k \in DOMAIN order : order[j] = order[k] => j = k
    BY <2>1
  <2>6. PageTree(tree, f, doc, 1..n)
    BY <1>1, <2>1, <2>4, <2>5, PagesOfList
  <2> HIDE DEF tree
  <2>7. Planted(tree, f, doc) /\ \A p \in 1..n : OnePage(tree, p)
    BY <2>4, <2>6, PageTreeIsPlanted
  <2> QED
    BY <1>1, <2>3, <2>7 DEF n
<1>3. CASE ~(mode # "document" /\ pages # <<>>)
  <2> DEFINE tree == <<Document("whole", f, text)>>
  <2>1. FlatTree(f, pages, doc, mode) = tree
    BY <1>3 DEF FlatTree
  <2>2. Document("whole", f, text) \in PdfNodes
    BY <1>1, DocumentNode
  <2>3. tree \in Seq(PdfNodes) /\ DOMAIN tree = {1} /\ tree[1] = Document("whole", f, text)
    BY <2>2
  <2> HIDE DEF tree, text
  <2>4. Planted(tree, f, doc)
    BY <2>3 DEF Planted, OfTree, Document, PdfNode
  <2>5. mode # "document" => DOMAIN pages = {}
    BY <1>3
  <2> QED
    BY <2>1, <2>4, <2>5
<1> QED
  BY <1>2, <1>3

LEMMA ChunkTreeIsPlanted ==
    ASSUME NEW f \in Files, NEW pages \in Seq(PdfPage), NEW doc \in Nat \ {0}
    PROVE  /\ Planted(ChunkTree(f, pages, doc), f, doc)
           /\ \A p \in WithText(pages) : OnePage(ChunkTree(f, pages, doc), p)
<1> DEFINE n == Len(pages)
           K == WithText(pages)
           text == Firsts(K)
           flat == [i \in DOMAIN pages |-> FlatPage(f, doc, i)]
<1>1. n \in Nat /\ DOMAIN pages = 1..n /\ K \in SUBSET (1..n) /\ K \in SUBSET Nat
  BY DEF WithText
<1>2. text \in SUBSET Nat
  BY <1>1, FirstsAreNumbers
<1>3. PICK order \in Seq(K) :
         /\ Sorts(order, K, Ascending(K))
         /\ \A j, k \in DOMAIN order : j < k => order[j] < order[k]
         /\ Picked(flat, K) = [k \in DOMAIN order |-> flat[order[k]]]
  <2> HIDE DEF n, K, flat, text
  <2>1. n \in Nat /\ K \in SUBSET (1..n)
    BY <1>1
  <2>2. \E order \in Seq(K) : PicksAt(order, flat, K)
    BY <2>1, PickedKeepsOrder
  <2> QED
    BY <2>2 DEF PicksAt
<1>4. \A k \in DOMAIN order : order[k] \in K /\ flat[order[k]] = FlatPage(f, doc, order[k])
  BY <1>1
<1>5. ChunkTree(f, pages, doc) = PageList(f, doc, order, text)
  <2>1. [k \in DOMAIN order |-> flat[order[k]]]
          = [k \in DOMAIN order |-> FlatPage(f, doc, order[k])]
    BY <1>4
  <2> QED
    BY <1>3, <2>1 DEF ChunkTree, PageList
<1> HIDE DEF K, text, flat, n
<1>6. /\ \A i \in K : \E k \in DOMAIN order : order[k] = i
      /\ \A j, k \in DOMAIN order : order[j] = order[k] => j = k
  BY <1>3 DEF Sorts
<1>7. PageTree(PageList(f, doc, order, text), f, doc, K)
  BY <1>1, <1>2, <1>6, PagesOfList
<1>8. /\ Planted(PageList(f, doc, order, text), f, doc)
      /\ \A p \in K : OnePage(PageList(f, doc, order, text), p)
  BY <1>1, <1>7, PageTreeIsPlanted
<1> QED
  BY <1>5, <1>8 DEF K

LEMMA ConvertedTreeIsPlanted ==
    ASSUME NEW f \in Files, NEW pages \in Seq(PdfPage), NEW doc \in Nat \ {0}
    PROVE  Planted(ConvertedTree(f, pages, doc), f, doc)
<1> DEFINE first == Document("document", f, Firsts(DOMAIN pages))
           second == PdfNode("whole", f, doc, NoHeading, 0, DOMAIN pages)
           tree == <<first, second>>
<1>1. DOMAIN pages \in SUBSET Nat
  OBVIOUS
<1>2. first \in PdfNodes /\ second \in PdfNodes
  BY <1>1, FirstsAreNumbers, DocumentNode, PdfAssumption DEF PdfNode, PdfNodes, Files
<1>3. /\ first.file = f /\ first.parent = 1 /\ first.kind = "document"
      /\ second.file = f /\ second.parent = doc /\ second.kind = "whole"
  BY DEF Document, PdfNode
<1> HIDE DEF first, second
<1>4. tree \in Seq(PdfNodes) /\ DOMAIN tree = 1..2 /\ tree[1] = first /\ tree[2] = second
  BY <1>2
<1>5. ConvertedTree(f, pages, doc) = tree
  BY DEF ConvertedTree, first, second
<1> HIDE DEF tree
<1>6. doc \in doc..(doc + 2 - 2) /\ doc - doc + 1 = 1
  OBVIOUS
<1>7. OfTree(tree, f, doc, 1) /\ OfTree(tree, f, doc, 2)
  BY <1>3, <1>4, <1>6 DEF OfTree
<1> QED
  BY <1>4, <1>5, <1>7 DEF Planted

LEMMA SectionTreeIsPlanted ==
    ASSUME NEW f \in Files, NEW pages \in Seq(PdfPage), NEW doc \in Nat \ {0}
    PROVE  /\ Planted(SectionTree(f, pages, doc), f, doc)
           /\ \A p \in DOMAIN pages :
                 PagesIn(SectionTree(f, pages, doc), p)
                   = IF p <= Built(pages) THEN {1 + Len(Titles(pages)) + p} ELSE {}
<1> DEFINE n == Len(Titles(pages))
           built == Built(pages)
           tree == SectionTree(f, pages, doc)
<1>1. /\ n \in Nat /\ DOMAIN tree = 1..(1 + n + built)
      /\ tree \in Seq(PdfNodes)
      /\ tree[1] = Document("document", f, {1})
      /\ \A k \in 1..n : tree[1 + k] =
            PdfNode("section", f, doc, Titles(pages)[k], 0,
                    PagesUnder(pages, Titles(pages)[k]))
      /\ \A i \in 1..built : tree[1 + n + i] =
            PdfNode("page", f, doc + Place(pages, HeadingOf(pages, i)), HeadingOf(pages, i), i, {i})
  BY SectionTreeNodes
<1>2. built \in Nat /\ built <= Len(pages) /\ Len(pages) \in Nat /\ DOMAIN pages = 1..Len(pages)
  BY BuiltTypes
<1>3. \A i \in 1..built : Place(pages, HeadingOf(pages, i)) \in 1..n
  <2>1. DOMAIN Titles(pages) = 1..n
    BY TitlesOnce
  <2> QED
    BY <1>2, <2>1, PlacesOfTitles
<1> HIDE DEF n, built, tree
<1>4. tree[1].file = f /\ tree[1].kind = "document" /\ tree[1].parent = 1
  BY <1>1 DEF Document, PdfNode
<1>5. \A k \in 1..n : /\ tree[1 + k].file = f /\ tree[1 + k].kind = "section"
                      /\ tree[1 + k].parent = doc
  <2> SUFFICES ASSUME NEW k \in 1..n
               PROVE  /\ tree[1 + k].file = f /\ tree[1 + k].kind = "section"
                      /\ tree[1 + k].parent = doc
    OBVIOUS
  <2>1. tree[1 + k] = PdfNode("section", f, doc, Titles(pages)[k], 0,
                              PagesUnder(pages, Titles(pages)[k]))
    BY <1>1
  <2> QED
    BY <2>1 DEF PdfNode
<1>6. \A i \in 1..built : /\ tree[1 + n + i].file = f /\ tree[1 + n + i].kind = "page"
                          /\ tree[1 + n + i].parent = doc + Place(pages, HeadingOf(pages, i))
                          /\ tree[1 + n + i].page = i
  <2> SUFFICES ASSUME NEW i \in 1..built
               PROVE  /\ tree[1 + n + i].file = f /\ tree[1 + n + i].kind = "page"
                      /\ tree[1 + n + i].parent = doc + Place(pages, HeadingOf(pages, i))
                      /\ tree[1 + n + i].page = i
    OBVIOUS
  <2>1. tree[1 + n + i] =
           PdfNode("page", f, doc + Place(pages, HeadingOf(pages, i)), HeadingOf(pages, i), i, {i})
    BY <1>1
  <2> QED
    BY <2>1 DEF PdfNode
<1>7. \A k \in DOMAIN tree : \/ k = 1
                             \/ k - 1 \in 1..n /\ k = 1 + (k - 1)
                             \/ k - 1 - n \in 1..built /\ k = 1 + n + (k - 1 - n)
  BY <1>1, <1>2
<1>8. ASSUME NEW k \in DOMAIN tree PROVE OfTree(tree, f, doc, k)
  <2>1. CASE k = 1
    BY <1>4, <2>1 DEF OfTree
  <2>2. ASSUME NEW j \in 1..n, k = 1 + j PROVE OfTree(tree, f, doc, k)
    <3>1. doc \in doc..(doc + k - 2) /\ doc - doc + 1 = 1
      BY <1>1, <2>2
    <3> QED
      BY <1>4, <1>5, <2>2, <3>1 DEF OfTree
  <2>3. ASSUME NEW i \in 1..built, k = 1 + n + i PROVE OfTree(tree, f, doc, k)
    <3> DEFINE j == Place(pages, HeadingOf(pages, i))
    <3>1. j \in 1..n
      BY <1>3
    <3>2. tree[k].file = f /\ tree[k].kind = "page" /\ tree[k].parent = doc + j
      BY <1>6, <2>3
    <3> HIDE DEF j
    <3>3. doc + j \in doc..(doc + k - 2) /\ (doc + j) - doc + 1 = 1 + j
      BY <1>1, <1>2, <2>3, <3>1
    <3>4. tree[1 + j].kind = "section"
      BY <1>5, <3>1
    <3>5. tree[k].parent - doc + 1 = 1 + j
      BY <3>2, <3>3
    <3>6. tree[k].parent \in doc..(doc + k - 2)
      BY <3>2, <3>3
    <3> QED
      BY <3>2, <3>4, <3>5, <3>6 DEF OfTree
  <2> QED
    BY <1>7, <2>1, <2>2, <2>3
<1>9. ASSUME NEW p \in DOMAIN pages
      PROVE  PagesIn(tree, p) = IF p <= built THEN {1 + n + p} ELSE {}
  <2>1. \A k \in DOMAIN tree : tree[k].kind = "page" =>
           \E i \in 1..built : k = 1 + n + i /\ tree[k].page = i
    <3> SUFFICES ASSUME NEW k \in DOMAIN tree, tree[k].kind = "page"
                 PROVE  \E i \in 1..built : k = 1 + n + i /\ tree[k].page = i
      OBVIOUS
    <3>1. k # 1 /\ ~(k - 1 \in 1..n /\ k = 1 + (k - 1))
      BY <1>4, <1>5
    <3>2. k - 1 - n \in 1..built /\ k = 1 + n + (k - 1 - n)
      BY <1>7, <3>1
    <3> QED
      BY <1>6, <3>2
  <2>2. p \in Nat /\ p >= 1
    BY <1>2
  <2>3. p <= built => 1 + n + p \in DOMAIN tree /\ p \in 1..built
    BY <1>1, <1>2, <2>2
  <2>4. p <= built => 1 + n + p \in PagesIn(tree, p)
    BY <1>6, <2>3 DEF PagesIn
  <2>5. \A k \in PagesIn(tree, p) : k = 1 + n + p /\ p <= built
    BY <1>2, <2>1, <2>2 DEF PagesIn
  <2> QED
    BY <2>4, <2>5
<1> QED
  BY <1>1, <1>8, <1>9 DEF Planted, n, built, tree

(***************************************************************************)
(* Trees in the list of nodes.                                             *)
(***************************************************************************)
AtMostOnePage(tree, p) == PagesIn(tree, p) = {} \/ OnePage(tree, p)
OneOrTwoPages(tree, p) == \E j, k \in DOMAIN tree : PagesIn(tree, p) = {j, k}

\* tree has the nodes of the file f, from doc on.
Occupies(list, f, doc, tree) ==
    /\ doc + Len(tree) <= Len(list) + 1
    /\ \A k \in DOMAIN tree : list[doc + k - 1] = tree[k]
    /\ \A i \in DOMAIN list : list[i].file = f => i - doc + 1 \in DOMAIN tree

\* What a file's tree is, by what became of the file; "half" is a file at its fallback.
Grown(tree, mode, pages, f, doc, outcome) ==
    /\ Planted(tree, f, doc)
    /\ outcome = "waiting" => tree = <<>>
    /\ outcome = "empty" => WithText(pages) = {}
    /\ outcome \in {"half", "lost"} => mode = "structured"
    /\ outcome = "half" => \A p \in DOMAIN pages : AtMostOnePage(tree, p)
    /\ outcome = "fallback" => \A p \in DOMAIN pages : OneOrTwoPages(tree, p)
    /\ outcome = "whole" /\ mode = "structured" =>
          Unformattable(pages) = {} /\ tree = SectionTree(f, pages, doc)
    /\ outcome = "whole" /\ mode \in {"structured", "pymupdf4llm", "page"} =>
          \A p \in WithText(pages) : OnePage(tree, p)

TreeAt(list, mode, pages, f, outcome, doc, tree) ==
    /\ Grown(tree, mode, pages, f, doc, outcome)
    /\ Occupies(list, f, doc, tree)
    /\ outcome = "half" => doc + Len(tree) = Len(list) + 1
HasTree(list, mode, pages, f, outcome) ==
    \E doc \in Nat \ {0, 1}, tree \in Seq(PdfNodes) :
        TreeAt(list, mode, pages, f, outcome, doc, tree)

\* One tree planted after another is one tree.
LEMMA PlantedTogether ==
    ASSUME NEW f \in Files, NEW doc \in Nat \ {0}, NEW s \in Seq(PdfNodes),
           NEW t \in Seq(PdfNodes), Planted(s, f, doc), Planted(t, f, doc + Len(s))
    PROVE  Planted(s \o t, f, doc)
<1> DEFINE both == s \o t
           m == Len(s)
<1>1. /\ m \in Nat /\ Len(t) \in Nat /\ DOMAIN s = 1..m /\ DOMAIN t = 1..Len(t)
      /\ both \in Seq(PdfNodes) /\ Follows(both, s, t)
  BY Concatenation
<1> HIDE DEF both
<1>2. /\ DOMAIN both = 1..(m + Len(t))
      /\ \A k \in 1..m : both[k] = s[k]
      /\ \A k \in 1..Len(t) : both[m + k] = t[k]
  BY <1>1 DEF Follows
<1>3. ASSUME NEW k \in 1..m PROVE OfTree(both, f, doc, k)
  <2>1. OfTree(s, f, doc, k) /\ both[k] = s[k]
    BY <1>1, <1>2 DEF Planted
  <2>2. s[k].parent \in doc..(doc + k - 2) => s[k].parent - doc + 1 \in 1..m
    BY <1>1
  <2>3. s[k].parent \in doc..(doc + k - 2)
          => both[s[k].parent - doc + 1] = s[s[k].parent - doc + 1]
    BY <1>2, <2>2
  <2> QED
    BY <2>1, <2>3 DEF OfTree
<1>4. ASSUME NEW k \in 1..Len(t) PROVE OfTree(both, f, doc, m + k)
  <2> DEFINE up == t[k].parent
  <2>1. OfTree(t, f, doc + m, k) /\ both[m + k] = t[k]
    BY <1>1, <1>2 DEF Planted
  <2> HIDE DEF m
  <2>2. up \in (doc + m)..((doc + m) + k - 2) =>
           /\ up \in doc..(doc + (m + k) - 2)
           /\ up - (doc + m) + 1 \in 1..Len(t)
           /\ up - doc + 1 = m + (up - (doc + m) + 1)
    <3> SUFFICES ASSUME up \in (doc + m)..((doc + m) + k - 2)
                 PROVE  /\ up \in doc..(doc + (m + k) - 2)
                        /\ up - (doc + m) + 1 \in 1..Len(t)
                        /\ up - doc + 1 = m + (up - (doc + m) + 1)
      OBVIOUS
    <3> HIDE DEF up
    <3>1. doc \in Nat /\ m \in Nat /\ k \in Nat /\ Len(t) \in Nat /\ up \in Int
      BY <1>1
    <3>2. up >= doc + m /\ up <= doc + m + (k - 2) /\ k <= Len(t) /\ k >= 1
      BY <1>1, <3>1
    <3>3. up \in doc..(doc + (m + k) - 2)
      BY <3>1, <3>2
    <3>4. up - (doc + m) + 1 \in 1..Len(t)
      BY <3>1, <3>2
    <3>5. up - doc + 1 = m + (up - (doc + m) + 1)
      BY <3>1
    <3> QED
      BY <3>3, <3>4, <3>5
  <2>3. up \in (doc + m)..((doc + m) + k - 2)
          => both[up - doc + 1] = t[up - (doc + m) + 1]
    BY <1>2, <2>2
  <2> QED
    BY <2>1, <2>2, <2>3 DEF OfTree
<1>5. \A k \in DOMAIN both : k \in 1..m \/ (k - m \in 1..Len(t) /\ k = m + (k - m))
  BY <1>1, <1>2
<1>6. \A k \in DOMAIN both : OfTree(both, f, doc, k)
  BY <1>3, <1>4, <1>5
<1> QED
  BY <1>1, <1>6 DEF Planted, both

LEMMA PagesOfBoth ==
    ASSUME NEW s \in Seq(PdfNodes), NEW t \in Seq(PdfNodes), NEW p,
           AtMostOnePage(s, p), OnePage(t, p)
    PROVE  OneOrTwoPages(s \o t, p)
<1> DEFINE both == s \o t
           m == Len(s)
<1>1. /\ m \in Nat /\ Len(t) \in Nat /\ DOMAIN s = 1..m /\ DOMAIN t = 1..Len(t)
      /\ Follows(both, s, t)
  BY Concatenation
<1> HIDE DEF both
<1>2. /\ DOMAIN both = 1..(m + Len(t))
      /\ \A k \in 1..m : both[k] = s[k]
      /\ \A k \in 1..Len(t) : both[m + k] = t[k]
  BY <1>1 DEF Follows
<1> HIDE DEF m
<1>3. PICK k \in 1..Len(t) : PagesIn(t, p) = {k}
  BY <1>1 DEF OnePage
<1>4. m + k \in DOMAIN both
  BY <1>1, <1>2
<1>5. \A i \in DOMAIN both : i \in 1..m \/ (i - m \in 1..Len(t) /\ i = m + (i - m))
  BY <1>1, <1>2
<1>6. \A i \in 1..m : i \in DOMAIN both /\ (i \in PagesIn(both, p) <=> i \in PagesIn(s, p))
  <2>1. \A i \in 1..m : i \in DOMAIN both
    BY <1>1, <1>2
  <2> QED
    BY <1>1, <1>2, <2>1 DEF PagesIn
<1>7. \A i \in 1..Len(t) : m + i \in PagesIn(both, p) <=> i \in PagesIn(t, p)
  <2>1. \A i \in 1..Len(t) : m + i \in DOMAIN both
    BY <1>1, <1>2
  <2> QED
    BY <1>1, <1>2, <2>1 DEF PagesIn
<1>8. \A i \in DOMAIN both : i \notin 1..m =>
         (i \in PagesIn(both, p) <=> i = m + k)
  <2> SUFFICES ASSUME NEW i \in DOMAIN both, i \notin 1..m
               PROVE  i \in PagesIn(both, p) <=> i = m + k
    OBVIOUS
  <2>1. i - m \in 1..Len(t) /\ i = m + (i - m)
    BY <1>5
  <2>2. i \in PagesIn(both, p) <=> i - m \in PagesIn(t, p)
    BY <1>7, <2>1
  <2>3. i - m = k <=> i = m + k
    BY <1>1, <2>1
  <2> QED
    BY <1>3, <2>2, <2>3
<1>9. m + k \notin 1..m
  BY <1>1
<1>10. PagesIn(both, p) \subseteq DOMAIN both
  BY DEF PagesIn
<1>11. CASE PagesIn(s, p) = {}
  <2>1. PagesIn(both, p) = {m + k, m + k}
    BY <1>4, <1>6, <1>8, <1>9, <1>10, <1>11
  <2> QED
    BY <1>4, <2>1 DEF OneOrTwoPages, both
<1>12. CASE OnePage(s, p)
  <2>1. PICK j \in 1..m : PagesIn(s, p) = {j}
    BY <1>1, <1>12 DEF OnePage
  <2>2. j \in DOMAIN both /\ PagesIn(both, p) = {j, m + k}
    BY <1>4, <1>6, <1>8, <1>9, <1>10, <2>1
  <2> QED
    BY <1>4, <2>2 DEF OneOrTwoPages, both
<1> QED
  BY <1>11, <1>12 DEF AtMostOnePage

LEMMA NothingIsPlanted ==
    ASSUME NEW f, NEW doc
    PROVE  Planted(<<>>, f, doc) /\ \A p : AtMostOnePage(<<>>, p)
<1>1. <<>> \in Seq(PdfNodes) /\ DOMAIN <<>> = {}
  OBVIOUS
<1> QED
  BY <1>1 DEF Planted, AtMostOnePage, PagesIn

\* The tree of a file stays as it is when nodes of another are added.
LEMMA OtherTreesStay ==
    ASSUME NEW list \in Seq(PdfNodes), NEW t \in Seq(PdfNodes), NEW f,
           \A k \in DOMAIN t : t[k].file # f,
           NEW mode, NEW pages, NEW outcome, outcome # "half",
           HasTree(list, mode, pages, f, outcome)
    PROVE  HasTree(list \o t, mode, pages, f, outcome)
<1> DEFINE both == list \o t
           m == Len(list)
<1>1. /\ m \in Nat /\ Len(t) \in Nat /\ DOMAIN list = 1..m /\ DOMAIN t = 1..Len(t)
      /\ Follows(both, list, t)
  BY Concatenation
<1>2. PICK doc \in Nat \ {0, 1}, tree \in Seq(PdfNodes) :
         TreeAt(list, mode, pages, f, outcome, doc, tree)
  BY DEF HasTree
<1> HIDE DEF both
<1>3. /\ Len(both) = m + Len(t) /\ DOMAIN both = 1..(m + Len(t))
      /\ \A k \in 1..m : both[k] = list[k]
      /\ \A k \in 1..Len(t) : both[m + k] = t[k]
  BY <1>1 DEF Follows
<1> HIDE DEF m
<1>4. Len(tree) \in Nat /\ DOMAIN tree = 1..Len(tree)
  OBVIOUS
<1>5. /\ doc + Len(tree) <= m + 1
      /\ \A k \in DOMAIN tree : list[doc + k - 1] = tree[k]
      /\ \A i \in 1..m : list[i].file = f => i - doc + 1 \in DOMAIN tree
  BY <1>1, <1>2 DEF TreeAt, Occupies, m
<1>6. doc + Len(tree) <= Len(both) + 1
  BY <1>1, <1>3, <1>4, <1>5
<1>7. \A k \in DOMAIN tree : both[doc + k - 1] = tree[k]
  <2>1. \A k \in DOMAIN tree : doc + k - 1 \in 1..m
    BY <1>1, <1>4, <1>5
  <2> QED
    BY <1>3, <1>5, <2>1
<1>8. \A i \in DOMAIN both : both[i].file = f => i - doc + 1 \in DOMAIN tree
  <2> SUFFICES ASSUME NEW i \in DOMAIN both, both[i].file = f
               PROVE  i - doc + 1 \in DOMAIN tree
    OBVIOUS
  <2>1. i \in 1..m \/ (i - m \in 1..Len(t) /\ i = m + (i - m))
    BY <1>1, <1>3
  <2>2. i - m \in 1..Len(t) /\ i = m + (i - m) => both[i] = t[i - m]
    BY <1>3
  <2>3. i \in 1..m
    BY <1>1, <2>1, <2>2
  <2> QED
    BY <1>3, <1>5, <2>3
<1>9. TreeAt(both, mode, pages, f, outcome, doc, tree)
  BY <1>2, <1>6, <1>7, <1>8 DEF TreeAt, Occupies
<1> QED
  BY <1>9 DEF HasTree, both

\* The tree of a file that had none.
LEMMA FirstTree ==
    ASSUME NEW list \in Seq(PdfNodes), Len(list) >= 1, NEW t \in Seq(PdfNodes), NEW g,
           NEW mode, NEW pages, NEW outcome,
           HasTree(list, mode, pages, g, "waiting"),
           Grown(t, mode, pages, g, Len(list) + 1, outcome)
    PROVE  HasTree(list \o t, mode, pages, g, outcome)
<1> DEFINE both == list \o t
           m == Len(list)
           doc == m + 1
<1>1. /\ m \in Nat /\ Len(t) \in Nat /\ DOMAIN list = 1..m /\ DOMAIN t = 1..Len(t)
      /\ Follows(both, list, t)
  BY Concatenation
<1>2. \A i \in 1..m : list[i].file # g
  <2>1. PICK d \in Nat \ {0, 1}, tree \in Seq(PdfNodes) :
           TreeAt(list, mode, pages, g, "waiting", d, tree)
    BY DEF HasTree
  <2>2. DOMAIN tree = {}
    BY <2>1 DEF TreeAt, Grown
  <2> QED
    BY <1>1, <2>1, <2>2 DEF TreeAt, Occupies
<1> HIDE DEF both
<1>3. /\ Len(both) = m + Len(t) /\ DOMAIN both = 1..(m + Len(t))
      /\ \A k \in 1..m : both[k] = list[k]
      /\ \A k \in 1..Len(t) : both[m + k] = t[k]
  BY <1>1 DEF Follows
<1>4. doc \in Nat \ {0, 1}
  BY <1>1
<1>5. doc + Len(t) = Len(both) + 1
  BY <1>1, <1>3
<1>6. \A k \in DOMAIN t : both[doc + k - 1] = t[k]
  <2>1. \A k \in DOMAIN t : doc + k - 1 = m + k
    BY <1>1
  <2> QED
    BY <1>1, <1>3, <2>1
<1>7. \A i \in DOMAIN both : both[i].file = g => i - doc + 1 \in DOMAIN t
  <2> SUFFICES ASSUME NEW i \in DOMAIN both, both[i].file = g
               PROVE  i - doc + 1 \in DOMAIN t
    OBVIOUS
  <2>1. i \notin 1..m
    BY <1>2, <1>3
  <2> QED
    BY <1>1, <1>3, <2>1
<1>8. Grown(t, mode, pages, g, doc, outcome)
  OBVIOUS
<1> HIDE DEF doc
<1>9. TreeAt(both, mode, pages, g, outcome, doc, t)
  <2>1. doc + Len(t) <= Len(both) + 1
    BY <1>1, <1>3, <1>5
  <2> QED
    BY <1>5, <1>6, <1>7, <1>8, <2>1 DEF TreeAt, Occupies
<1> QED
  BY <1>4, <1>9 DEF HasTree, both

\* What the fallback adds.
LEMMA SecondTree ==
    ASSUME NEW list \in Seq(PdfNodes), NEW t \in Seq(PdfNodes), NEW g \in Files,
           NEW mode, NEW pages,
           HasTree(list, mode, pages, g, "half"), Planted(t, g, Len(list) + 1),
           \A p \in DOMAIN pages : OnePage(t, p)
    PROVE  HasTree(list \o t, mode, pages, g, "fallback")
<1> DEFINE both == list \o t
           m == Len(list)
<1>1. /\ m \in Nat /\ Len(t) \in Nat /\ DOMAIN list = 1..m /\ DOMAIN t = 1..Len(t)
      /\ Follows(both, list, t)
  BY Concatenation
<1> HIDE DEF both
<1>2. /\ Len(both) = m + Len(t) /\ DOMAIN both = 1..(m + Len(t))
      /\ \A k \in 1..m : both[k] = list[k]
      /\ \A k \in 1..Len(t) : both[m + k] = t[k]
  BY <1>1 DEF Follows
<1>3. PICK doc \in Nat \ {0, 1}, s \in Seq(PdfNodes) :
         TreeAt(list, mode, pages, g, "half", doc, s)
  BY DEF HasTree
<1> DEFINE tree == s \o t
<1>4. /\ Len(s) \in Nat /\ DOMAIN s = 1..Len(s) /\ tree \in Seq(PdfNodes) /\ Follows(tree, s, t)
  BY Concatenation
<1>5. doc + Len(s) = m + 1
  BY <1>3 DEF TreeAt
<1>6. Planted(tree, g, doc)
  <2>1. Planted(s, g, doc)
    BY <1>3 DEF TreeAt, Grown
  <2>2. Planted(t, g, doc + Len(s))
    BY <1>5
  <2>3. doc \in Nat \ {0}
    OBVIOUS
  <2> HIDE DEF tree
  <2> QED
    BY <2>1, <2>2, <2>3, PlantedTogether DEF tree
<1>7. \A p \in DOMAIN pages : OneOrTwoPages(tree, p)
  <2>1. \A p \in DOMAIN pages : AtMostOnePage(s, p)
    BY <1>3 DEF TreeAt, Grown
  <2> HIDE DEF tree
  <2> QED
    BY <2>1, PagesOfBoth DEF tree
<1> HIDE DEF tree
<1>8. Grown(tree, mode, pages, g, doc, "fallback")
  BY <1>6, <1>7 DEF Grown
<1>9. /\ Len(tree) = Len(s) + Len(t) /\ DOMAIN tree = 1..(Len(s) + Len(t))
      /\ \A k \in 1..Len(s) : tree[k] = s[k]
      /\ \A k \in 1..Len(t) : tree[Len(s) + k] = t[k]
  BY <1>4 DEF Follows
<1>10. /\ \A k \in 1..Len(s) : list[doc + k - 1] = s[k]
       /\ \A i \in 1..m : list[i].file = g => i - doc + 1 \in 1..Len(s)
  BY <1>1, <1>3, <1>4 DEF TreeAt, Occupies
<1> HIDE DEF m
<1>11. \A k \in DOMAIN tree : both[doc + k - 1] = tree[k]
  <2> SUFFICES ASSUME NEW k \in DOMAIN tree PROVE both[doc + k - 1] = tree[k]
    OBVIOUS
  <2> DEFINE j == k - Len(s)
  <2>1. k \in 1..Len(s) \/ (j \in 1..Len(t) /\ k = Len(s) + j)
    BY <1>1, <1>4, <1>9
  <2>2. CASE k \in 1..Len(s)
    <3>1. doc + k - 1 \in 1..m
      BY <1>1, <1>4, <1>5, <2>2
    <3> QED
      BY <1>2, <1>9, <1>10, <2>2, <3>1
  <2>3. CASE j \in 1..Len(t) /\ k = Len(s) + j
    <3> HIDE DEF j
    <3>1. m \in Int /\ Len(s) \in Int /\ j \in Int /\ doc \in Int
      BY <1>1, <1>4, <2>3
    <3>2. k = Len(s) + j /\ doc + Len(s) = m + 1
      BY <1>5, <2>3
    <3>3. doc + k - 1 = m + j
      BY <3>1, <3>2
    <3> QED
      BY <1>2, <1>9, <2>3, <3>3
  <2> QED
    BY <2>1, <2>2, <2>3
<1>12. \A i \in DOMAIN both : both[i].file = g => i - doc + 1 \in DOMAIN tree
  <2> SUFFICES ASSUME NEW i \in DOMAIN both, both[i].file = g
               PROVE  i - doc + 1 \in DOMAIN tree
    OBVIOUS
  <2>1. CASE i \in 1..m
    BY <1>1, <1>2, <1>4, <1>9, <1>10, <2>1
  <2>2. CASE i \notin 1..m
    BY <1>1, <1>2, <1>4, <1>5, <1>9, <2>2
  <2> QED
    BY <2>1, <2>2
<1>13. doc + Len(tree) <= Len(both) + 1
  BY <1>1, <1>2, <1>4, <1>5, <1>9
<1>14. TreeAt(both, mode, pages, g, "fallback", doc, tree)
  BY <1>8, <1>11, <1>12, <1>13 DEF TreeAt, Occupies
<1> QED
  BY <1>4, <1>14 DEF HasTree, both

\* What became of a file whose nodes are as they were.
LEMMA SameTree ==
    ASSUME NEW list \in Seq(PdfNodes), Len(list) >= 1, NEW g, NEW mode, NEW pages
    PROVE  /\ HasTree(list, mode, pages, g, "waiting") /\ mode = "structured"
                 => HasTree(list, mode, pages, g, "half")
           /\ HasTree(list, mode, pages, g, "waiting") /\ WithText(pages) = {}
                 => HasTree(list, mode, pages, g, "empty")
           /\ HasTree(list, mode, pages, g, "half") => HasTree(list, mode, pages, g, "lost")
<1>1. ASSUME HasTree(list, mode, pages, g, "waiting"), mode = "structured"
      PROVE  HasTree(list, mode, pages, g, "half")
  <2>1. PICK d \in Nat \ {0, 1}, tree \in Seq(PdfNodes) :
           TreeAt(list, mode, pages, g, "waiting", d, tree)
    BY <1>1 DEF HasTree
  <2>2. tree = <<>> /\ DOMAIN tree = {} /\ Len(tree) = 0
    BY <2>1 DEF TreeAt, Grown
  <2> DEFINE doc == Len(list) + 1
  <2>3. doc \in Nat \ {0, 1} /\ doc + 0 = Len(list) + 1 /\ doc + 0 <= Len(list) + 1
    OBVIOUS
  <2> HIDE DEF doc
  <2>4. Grown(tree, mode, pages, g, doc, "half")
    BY <1>1, <2>2, NothingIsPlanted DEF Grown
  <2>5. Occupies(list, g, doc, tree)
    BY <2>1, <2>2, <2>3 DEF TreeAt, Occupies
  <2>6. TreeAt(list, mode, pages, g, "half", doc, tree)
    BY <2>2, <2>3, <2>4, <2>5 DEF TreeAt
  <2> QED
    BY <2>3, <2>6 DEF HasTree
<1>2. ASSUME HasTree(list, mode, pages, g, "waiting"), WithText(pages) = {}
      PROVE  HasTree(list, mode, pages, g, "empty")
  BY <1>2 DEF HasTree, TreeAt, Grown
<1>3. ASSUME HasTree(list, mode, pages, g, "half") PROVE HasTree(list, mode, pages, g, "lost")
  BY <1>3 DEF HasTree, TreeAt, Grown
<1> QED
  BY <1>1, <1>2, <1>3

(***************************************************************************)
(* The inductive invariant: every file has its tree.                       *)
(***************************************************************************)
Outcome(f) == IF f = file /\ step = "fallback" THEN "half" ELSE filed[f]
PdfTyped ==
    /\ pdfMode \in PdfModes
    /\ contents \in [Files -> Documents]
    /\ listed \in Seq(PdfNodes) /\ Len(listed) >= 1
    /\ listed[1] = PdfNode("root", 0, 0, NoHeading, 0, {})
    /\ \A i \in DOMAIN listed : i # 1 => listed[i].file \in Files
    /\ file \in 1..(NumFiles + 1)
    /\ step \in {"extract", "fallback", "completed", "failed"}
    /\ filed \in [Files -> {"waiting", "whole", "fallback", "empty", "lost"}]
PdfOrdered ==
    /\ \A f \in Files : filed[f] = "waiting" <=> f >= file
    /\ step = "fallback" => file \in Files
    /\ step = "completed" => file > NumFiles
PdfTrees == \A f \in Files : HasTree(listed, pdfMode, contents[f], f, Outcome(f))
PdfInv == PdfTyped /\ PdfOrdered /\ PdfTrees

LEMMA PdfStarts == PdfInit => PdfInv
<1> SUFFICES ASSUME PdfInit PROVE PdfInv
  OBVIOUS
<1> DEFINE root == PdfNode("root", 0, 0, NoHeading, 0, {})
<1>1. NumFiles \in Nat
  BY PdfAssumption
<1>2. root \in PdfNodes /\ root.file = 0
  BY <1>1 DEF PdfNode, PdfNodes
<1>3. listed = <<root>>
  BY DEF PdfInit
<1> HIDE DEF root
<1>4. listed \in Seq(PdfNodes) /\ Len(listed) = 1 /\ DOMAIN listed = {1} /\ listed[1] = root
  BY <1>2, <1>3
<1>5. PdfTyped
  BY <1>1, <1>4 DEF PdfTyped, PdfInit, root
<1>6. PdfOrdered
  BY <1>1 DEF PdfOrdered, PdfInit, Files
<1>7. ASSUME NEW f \in Files PROVE HasTree(listed, pdfMode, contents[f], f, Outcome(f))
  <2>1. Outcome(f) = "waiting"
    BY DEF Outcome, PdfInit
  <2>2. Grown(<<>>, pdfMode, contents[f], f, 2, "waiting")
    BY NothingIsPlanted DEF Grown
  <2>3. Occupies(listed, f, 2, <<>>)
    <3>1. f # 0 /\ DOMAIN <<>> = {} /\ Len(<<>>) = 0
      BY <1>1 DEF Files
    <3> QED
      BY <1>2, <1>4, <3>1 DEF Occupies
  <2>4. TreeAt(listed, pdfMode, contents[f], f, "waiting", 2, <<>>)
    BY <2>2, <2>3 DEF TreeAt
  <2>5. 2 \in Nat \ {0, 1} /\ <<>> \in Seq(PdfNodes)
    OBVIOUS
  <2> QED
    BY <2>1, <2>4, <2>5 DEF HasTree
<1> QED
  BY <1>5, <1>6, <1>7 DEF PdfInv, PdfTrees

\* The list after nodes of one file are added.
LEMMA ListGrows ==
    ASSUME PdfTyped, NEW g \in Files, NEW t \in Seq(PdfNodes),
           \A k \in DOMAIN t : t[k].file = g
    PROVE  /\ listed \o t \in Seq(PdfNodes) /\ Len(listed \o t) >= 1
           /\ (listed \o t)[1] = listed[1]
           /\ \A i \in DOMAIN (listed \o t) : i # 1 => (listed \o t)[i].file \in Files
<1> DEFINE both == listed \o t
           m == Len(listed)
<1>1. listed \in Seq(PdfNodes) /\ m >= 1 /\ \A i \in DOMAIN listed : i # 1 => listed[i].file \in Files
  BY DEF PdfTyped
<1>2. /\ m \in Nat /\ Len(t) \in Nat /\ DOMAIN listed = 1..m /\ DOMAIN t = 1..Len(t)
      /\ both \in Seq(PdfNodes) /\ Follows(both, listed, t)
  BY <1>1, Concatenation
<1> HIDE DEF both
<1>3. /\ Len(both) = m + Len(t) /\ DOMAIN both = 1..(m + Len(t))
      /\ \A k \in 1..m : both[k] = listed[k]
      /\ \A k \in 1..Len(t) : both[m + k] = t[k]
  BY <1>2 DEF Follows
<1> HIDE DEF m
<1>4. ASSUME NEW i \in DOMAIN both, i # 1 PROVE both[i].file \in Files
  <2>1. i \in 1..m \/ (i - m \in 1..Len(t) /\ i = m + (i - m))
    BY <1>2, <1>3
  <2>2. CASE i \in 1..m
    BY <1>1, <1>2, <1>3, <1>4, <2>2
  <2>3. CASE i - m \in 1..Len(t) /\ i = m + (i - m)
    BY <1>2, <1>3, <2>3
  <2> QED
    BY <2>1, <2>2, <2>3
<1>5. Len(both) >= 1 /\ both[1] = listed[1]
  BY <1>1, <1>2, <1>3
<1> QED
  BY <1>2, <1>4, <1>5 DEF both

\* A file is done with.
LEMMA FileSettles ==
    ASSUME PdfInv, step \in {"extract", "fallback"}, file \in Files, pdfMode' = pdfMode, contents' = contents,
           NEW t \in Seq(PdfNodes), \A k \in DOMAIN t : t[k].file = file, listed' = listed \o t,
           NEW o \in {"whole", "fallback", "empty", "lost"}, Settle(o),
           HasTree(listed', pdfMode, contents[file], file, o)
    PROVE  PdfInv'
<1>1. NumFiles \in Nat /\ Files = 1..NumFiles
  BY PdfAssumption DEF Files
<1>2. PdfTyped'
  <2>1. PdfTyped
    BY DEF PdfInv
  <2>2. /\ listed' \in Seq(PdfNodes) /\ Len(listed') >= 1 /\ listed'[1] = listed[1]
        /\ \A i \in DOMAIN listed' : i # 1 => listed'[i].file \in Files
    BY <2>1, ListGrows
  <2>3. file' \in 1..(NumFiles + 1) /\ step' = "extract"
    BY <1>1 DEF Settle
  <2>4. filed' \in [Files -> {"waiting", "whole", "fallback", "empty", "lost"}]
    BY <2>1 DEF PdfTyped, Settle
  <2> QED
    BY <2>1, <2>2, <2>3, <2>4 DEF PdfTyped
<1>3. /\ filed \in [Files -> {"waiting", "whole", "fallback", "empty", "lost"}]
      /\ listed \in Seq(PdfNodes) /\ \A f \in Files : filed[f] = "waiting" <=> f >= file
  BY DEF PdfInv, PdfTyped, PdfOrdered
<1>4. filed'[file] = o /\ \A f \in Files : f # file => filed'[f] = filed[f]
  BY <1>3 DEF Settle
<1>5. PdfOrdered'
  <2>1. \A f \in Files : filed'[f] = "waiting" <=> f >= file'
    <3> SUFFICES ASSUME NEW f \in Files PROVE filed'[f] = "waiting" <=> f >= file'
      OBVIOUS
    <3>1. file' = file + 1
      BY DEF Settle
    <3>2. CASE f = file
      BY <1>1, <1>4, <3>1, <3>2
    <3>3. CASE f # file
      <4>1. f >= file <=> f >= file + 1
        BY <1>1, <3>3
      <4> QED
        BY <1>3, <1>4, <3>1, <3>3, <4>1
    <3> QED
      BY <3>2, <3>3
  <2> QED
    BY <2>1 DEF PdfOrdered, Settle
<1>6. ASSUME NEW f \in Files PROVE HasTree(listed', pdfMode', contents'[f], f, Outcome(f)')
  <2>1. Outcome(f)' = filed'[f]
    BY DEF Outcome, Settle
  <2>2. CASE f = file
    BY <1>4, <2>1, <2>2
  <2>3. CASE f # file
    <3>1. Outcome(f) = filed[f] /\ filed[f] # "half"
      BY <1>3, <2>3 DEF Outcome
    <3>2. HasTree(listed, pdfMode, contents[f], f, filed[f])
      BY <3>1 DEF PdfInv, PdfTrees
    <3>3. \A k \in DOMAIN t : t[k].file # f
      BY <2>3
    <3>4. HasTree(listed \o t, pdfMode, contents[f], f, filed[f])
      BY <1>3, <3>1, <3>2, <3>3, OtherTreesStay
    <3> QED
      BY <1>4, <2>1, <2>3, <3>4
  <2> QED
    BY <2>2, <2>3
<1>7. PdfTrees'
  BY <1>6 DEF PdfTrees
<1> QED
  BY <1>2, <1>5, <1>7 DEF PdfInv

\* The structured builder gives way to the fallback.
LEMMA FileFallsBack ==
    ASSUME PdfInv, step = "extract", file \in Files, pdfMode' = pdfMode, contents' = contents,
           NEW t \in Seq(PdfNodes), \A k \in DOMAIN t : t[k].file = file, listed' = listed \o t,
           step' = "fallback", file' = file, filed' = filed,
           HasTree(listed', pdfMode, contents[file], file, "half")
    PROVE  PdfInv'
<1>1. PdfTyped /\ PdfOrdered
  BY DEF PdfInv
<1>2. PdfTyped'
  <2>1. /\ listed' \in Seq(PdfNodes) /\ Len(listed') >= 1 /\ listed'[1] = listed[1]
        /\ \A i \in DOMAIN listed' : i # 1 => listed'[i].file \in Files
    BY <1>1, ListGrows
  <2> QED
    BY <1>1, <2>1 DEF PdfTyped
<1>3. PdfOrdered'
  BY <1>1 DEF PdfOrdered
<1>4. ASSUME NEW f \in Files PROVE HasTree(listed', pdfMode', contents'[f], f, Outcome(f)')
  <2>1. CASE f = file
    BY <2>1 DEF Outcome
  <2>2. CASE f # file
    <3>1. Outcome(f)' = filed[f] /\ Outcome(f) = filed[f]
      BY <2>2 DEF Outcome
    <3>2. listed \in Seq(PdfNodes)
      BY <1>1 DEF PdfTyped
    <3>3. filed[f] # "half"
      BY <1>1 DEF PdfTyped
    <3>4. \A k \in DOMAIN t : t[k].file # f
      BY <2>2
    <3>5. HasTree(listed, pdfMode, contents[f], f, filed[f])
      BY <3>1 DEF PdfInv, PdfTrees
    <3>6. HasTree(listed \o t, pdfMode, contents[f], f, filed[f])
      BY <3>2, <3>5, <3>3, <3>4, OtherTreesStay
    <3> QED
      BY <3>1, <3>6
  <2> QED
    BY <2>1, <2>2
<1>5. PdfTrees'
  BY <1>4 DEF PdfTrees
<1> QED
  BY <1>2, <1>3, <1>5 DEF PdfInv

LEMMA FilesOfTree ==
    ASSUME NEW f, NEW doc, NEW tree, Planted(tree, f, doc)
    PROVE  tree \in Seq(PdfNodes) /\ \A k \in DOMAIN tree : tree[k].file = f
BY DEF Planted, OfTree

\* What a step finds of its file.
LEMMA FileAtHand ==
    ASSUME PdfInv, file \in Files
    PROVE  /\ contents[file] \in Seq(PdfPage)
           /\ listed \in Seq(PdfNodes) /\ Len(listed) >= 1
           /\ Len(listed) + 1 \in Nat \ {0}
           /\ pdfMode \in PdfModes
           /\ step = "extract" => HasTree(listed, pdfMode, contents[file], file, "waiting")
           /\ step = "fallback" => HasTree(listed, pdfMode, contents[file], file, "half")
<1>1. PdfTyped /\ PdfOrdered /\ PdfTrees
  BY DEF PdfInv
<1>2. contents[file] \in Seq(PdfPage)
  BY <1>1, PdfAssumption DEF PdfTyped
<1>3. listed \in Seq(PdfNodes) /\ Len(listed) >= 1 /\ pdfMode \in PdfModes
  BY <1>1 DEF PdfTyped
<1>4. Len(listed) + 1 \in Nat \ {0}
  BY <1>3
<1>5. NumFiles \in Nat /\ file \in 1..NumFiles /\ file >= file
  BY PdfAssumption DEF Files
<1>6. filed[file] = "waiting"
  BY <1>1, <1>5 DEF PdfOrdered
<1>7. step = "extract" => Outcome(file) = "waiting"
  BY <1>6 DEF Outcome
<1>8. step = "fallback" => Outcome(file) = "half"
  BY DEF Outcome
<1> QED
  BY <1>1, <1>2, <1>3, <1>4, <1>7, <1>8 DEF PdfTrees

LEMMA NothingAdded ==
    ASSUME NEW list \in Seq(PdfNodes)
    PROVE  list \o <<>> = list /\ <<>> \in Seq(PdfNodes) /\ DOMAIN <<>> = {}
OBVIOUS

\* An extractor gives the file its tree.
LEMMA FileGetsTree ==
    ASSUME PdfInv, file \in Files, step = "extract", UNCHANGED <<pdfMode, contents>>,
           NEW t, listed' = listed \o t, Settle("whole"),
           Grown(t, pdfMode, contents[file], file, Len(listed) + 1, "whole")
    PROVE  PdfInv'
<1>1. Planted(t, file, Len(listed) + 1)
  BY DEF Grown
<1>2. t \in Seq(PdfNodes) /\ \A k \in DOMAIN t : t[k].file = file
  BY <1>1, FilesOfTree
<1>3. /\ listed \in Seq(PdfNodes) /\ Len(listed) >= 1
      /\ HasTree(listed, pdfMode, contents[file], file, "waiting")
  BY FileAtHand
<1>4. HasTree(listed \o t, pdfMode, contents[file], file, "whole")
  BY <1>2, <1>3, FirstTree
<1>5. HasTree(listed', pdfMode, contents[file], file, "whole")
  BY <1>4
<1> QED
  BY <1>2, <1>5, FileSettles

LEMMA StructuredKeeps == PdfInv /\ Structured => PdfInv'
<1> SUFFICES ASSUME PdfInv, Structured PROVE PdfInv'
  OBVIOUS
<1> DEFINE pages == contents[file]
           doc == Len(listed) + 1
           tree == SectionTree(file, pages, doc)
<1>1. /\ step = "extract" /\ file \in Files /\ pdfMode = "structured"
      /\ pdfMode' = pdfMode /\ contents' = contents
  BY DEF Structured, AtFile
<1>2. /\ pages \in Seq(PdfPage) /\ doc \in Nat \ {0}
      /\ listed \in Seq(PdfNodes) /\ Len(listed) >= 1
      /\ HasTree(listed, pdfMode, pages, file, "waiting")
  BY <1>1, FileAtHand
<1>3. CASE pages = <<>>
  <2>1. listed' = listed \o <<>> /\ Settle("empty") /\ <<>> \in Seq(PdfNodes) /\ DOMAIN <<>> = {}
    BY <1>2, <1>3, NothingAdded DEF Structured
  <2>2. WithText(pages) = {}
    BY <1>3 DEF WithText
  <2>3. HasTree(listed, pdfMode, pages, file, "empty")
    BY <1>2, <2>2, SameTree
  <2>4. HasTree(listed', pdfMode, pages, file, "empty")
    BY <1>3, <2>3 DEF Structured
  <2> QED
    BY <1>1, <2>1, <2>4, FileSettles
<1>4. CASE pages # <<>>
  <2>1. listed' = listed \o tree
    BY <1>4 DEF Structured
  <2>2. /\ Planted(tree, file, doc)
        /\ \A p \in DOMAIN pages : PagesIn(tree, p)
              = IF p <= Built(pages) THEN {1 + Len(Titles(pages)) + p} ELSE {}
    BY <1>1, <1>2, SectionTreeIsPlanted
  <2>3. /\ Built(pages) \in 0..Len(pages) /\ Len(Titles(pages)) \in Nat
        /\ Unformattable(pages) = {} => Built(pages) = Len(pages)
        /\ DOMAIN tree = 1..(1 + Len(Titles(pages)) + Built(pages))
    BY <1>1, <1>2, BuiltTypes, SectionTreeNodes
  <2>4. DOMAIN pages = 1..Len(pages) /\ Len(pages) \in Nat
    BY <1>2
  <2>5. tree \in Seq(PdfNodes) /\ \A k \in DOMAIN tree : tree[k].file = file
    BY <2>2, FilesOfTree
  <2> HIDE DEF tree
  <2>6. \A p \in DOMAIN pages : p <= Built(pages) => OnePage(tree, p)
    <3> SUFFICES ASSUME NEW p \in DOMAIN pages, p <= Built(pages) PROVE OnePage(tree, p)
      OBVIOUS
    <3>1. 1 + Len(Titles(pages)) + p \in DOMAIN tree
      BY <2>3, <2>4
    <3> QED
      BY <2>2, <3>1 DEF OnePage
  <2>7. \A p \in DOMAIN pages : AtMostOnePage(tree, p)
    BY <2>2, <2>6 DEF AtMostOnePage
  <2>8. CASE Unformattable(pages) = {}
    <3>1. Settle("whole")
      BY <1>4, <2>8 DEF Structured
    <3>2. WithText(pages) \subseteq DOMAIN pages /\ \A p \in DOMAIN pages : p <= Built(pages)
      BY <2>3, <2>4, <2>8 DEF WithText
    <3>3. Grown(tree, pdfMode, pages, file, doc, "whole")
      BY <2>2, <2>6, <2>8, <3>2 DEF Grown, tree
    <3> QED
      BY <1>1, <2>1, <3>1, <3>3, FileGetsTree
  <2>9. CASE Unformattable(pages) # {}
    <3>1. step' = "fallback" /\ file' = file /\ filed' = filed
      BY <1>4, <2>9 DEF Structured
    <3>2. Grown(tree, pdfMode, pages, file, doc, "half")
      BY <1>1, <2>2, <2>7 DEF Grown
    <3>3. HasTree(listed \o tree, pdfMode, pages, file, "half")
      BY <1>2, <2>5, <3>2, FirstTree
    <3>4. HasTree(listed', pdfMode, pages, file, "half")
      BY <2>1, <3>3
    <3> HIDE DEF pages
    <3> QED
      BY <1>1, <2>1, <2>5, <3>1, <3>4, FileFallsBack DEF pages
  <2> QED
    BY <2>8, <2>9
<1> QED
  BY <1>3, <1>4

LEMMA ChunkedKeeps == PdfInv /\ Chunked => PdfInv'
<1> SUFFICES ASSUME PdfInv, Chunked PROVE PdfInv'
  OBVIOUS
<1> DEFINE pages == contents[file]
           doc == Len(listed) + 1
           tree == ChunkTree(file, pages, doc)
<1>1. /\ step = "extract" /\ file \in Files /\ pdfMode = "pymupdf4llm"
      /\ pdfMode' = pdfMode /\ contents' = contents
  BY DEF Chunked, AtFile
<1>2. /\ pages \in Seq(PdfPage) /\ doc \in Nat \ {0}
      /\ listed \in Seq(PdfNodes) /\ Len(listed) >= 1
      /\ HasTree(listed, pdfMode, pages, file, "waiting")
  BY <1>1, FileAtHand
<1>3. CASE WithText(pages) = {}
  <2>1. listed' = listed \o <<>> /\ Settle("empty") /\ <<>> \in Seq(PdfNodes) /\ DOMAIN <<>> = {}
    BY <1>2, <1>3, NothingAdded DEF Chunked
  <2>2. HasTree(listed, pdfMode, pages, file, "empty")
    BY <1>2, <1>3, SameTree
  <2>3. HasTree(listed', pdfMode, pages, file, "empty")
    BY <1>3, <2>2 DEF Chunked
  <2> QED
    BY <1>1, <2>1, <2>3, FileSettles
<1>4. CASE WithText(pages) # {}
  <2>1. listed' = listed \o tree /\ Settle("whole")
    BY <1>4 DEF Chunked
  <2>2. Planted(tree, file, doc) /\ \A p \in WithText(pages) : OnePage(tree, p)
    BY <1>1, <1>2, ChunkTreeIsPlanted
  <2>3. Grown(tree, pdfMode, pages, file, doc, "whole")
    BY <1>1, <2>2 DEF Grown
  <2> QED
    BY <1>1, <2>1, <2>3, FileGetsTree
<1> QED
  BY <1>3, <1>4

LEMMA ConvertedKeeps == PdfInv /\ Converted => PdfInv'
<1> SUFFICES ASSUME PdfInv, Converted PROVE PdfInv'
  OBVIOUS
<1> DEFINE pages == contents[file]
           doc == Len(listed) + 1
           tree == ConvertedTree(file, pages, doc)
<1>1. /\ step = "extract" /\ file \in Files /\ pdfMode = "docling" /\ Settle("whole")
      /\ pdfMode' = pdfMode /\ contents' = contents
  BY DEF Converted, AtFile
<1>2. pages \in Seq(PdfPage) /\ doc \in Nat \ {0}
  BY <1>1, FileAtHand
<1>3. listed' = listed \o tree
  BY DEF Converted, ConvertedTree
<1>4. Planted(tree, file, doc)
  BY <1>1, <1>2, ConvertedTreeIsPlanted
<1>5. Grown(tree, pdfMode, pages, file, doc, "whole")
  BY <1>1, <1>4 DEF Grown
<1> QED
  BY <1>1, <1>3, <1>5, FileGetsTree

LEMMA FlatKeeps == PdfInv /\ Flat => PdfInv'
<1> SUFFICES ASSUME PdfInv, Flat PROVE PdfInv'
  OBVIOUS
<1> DEFINE pages == contents[file]
           doc == Len(listed) + 1
           tree == FlatTree(file, pages, doc, pdfMode)
<1>1. /\ step = "extract" /\ file \in Files /\ pdfMode \in {"page", "document"}
      /\ Settle("whole") /\ pdfMode' = pdfMode /\ contents' = contents
      /\ listed' = listed \o tree
  BY DEF Flat, AtFile
<1>2. pages \in Seq(PdfPage) /\ doc \in Nat \ {0} /\ pdfMode \in PdfModes
  BY <1>1, FileAtHand
<1>3. /\ Planted(tree, file, doc)
      /\ pdfMode # "document" => \A p \in DOMAIN pages : OnePage(tree, p)
  BY <1>1, <1>2, FlatTreeIsPlanted
<1>4. WithText(pages) \subseteq DOMAIN pages
  BY DEF WithText
<1>5. Grown(tree, pdfMode, pages, file, doc, "whole")
  BY <1>1, <1>3, <1>4 DEF Grown
<1> QED
  BY <1>1, <1>5, FileGetsTree

LEMMA FallbackKeeps == PdfInv /\ Fallback => PdfInv'
<1> SUFFICES ASSUME PdfInv, Fallback PROVE PdfInv'
  OBVIOUS
<1> DEFINE pages == contents[file]
           doc == Len(listed) + 1
           tree == FlatTree(file, pages, doc, "page")
<1>1. /\ step = "fallback" /\ file \in Files /\ Settle("fallback")
      /\ pdfMode' = pdfMode /\ contents' = contents
      /\ listed' = listed \o tree
  BY DEF Fallback, AtFile
<1>2. /\ pages \in Seq(PdfPage) /\ doc \in Nat \ {0} /\ listed \in Seq(PdfNodes)
      /\ HasTree(listed, pdfMode, pages, file, "half")
  BY <1>1, FileAtHand
<1>3. "page" \in PdfModes
  BY DEF PdfModes
<1>4. Planted(tree, file, doc) /\ \A p \in DOMAIN pages : OnePage(tree, p)
  BY <1>1, <1>2, <1>3, FlatTreeIsPlanted
<1>5. tree \in Seq(PdfNodes) /\ \A k \in DOMAIN tree : tree[k].file = file
  BY <1>4, FilesOfTree
<1> HIDE DEF tree
<1>6. HasTree(listed \o tree, pdfMode, pages, file, "fallback")
  BY <1>1, <1>2, <1>4, <1>5, SecondTree
<1>7. HasTree(listed', pdfMode, pages, file, "fallback")
  BY <1>1, <1>6
<1> QED
  BY <1>1, <1>5, <1>7, FileSettles

LEMMA FallbackRaisesKeeps == PdfInv /\ FallbackRaises => PdfInv'
<1> SUFFICES ASSUME PdfInv, FallbackRaises PROVE PdfInv'
  OBVIOUS
<1>1. /\ step = "fallback" /\ file \in Files /\ Settle("lost")
      /\ pdfMode' = pdfMode /\ contents' = contents /\ listed' = listed
  BY DEF FallbackRaises, AtFile
<1>2. /\ listed \in Seq(PdfNodes) /\ Len(listed) >= 1
      /\ HasTree(listed, pdfMode, contents[file], file, "half")
  BY <1>1, FileAtHand
<1>3. HasTree(listed', pdfMode, contents[file], file, "lost")
  BY <1>1, <1>2, SameTree
<1>4. listed' = listed \o <<>> /\ <<>> \in Seq(PdfNodes) /\ DOMAIN <<>> = {}
  BY <1>1, <1>2, NothingAdded
<1> QED
  BY <1>1, <1>3, <1>4, FileSettles

LEMMA ExtractRaisesKeeps == PdfInv /\ ExtractRaises => PdfInv'
<1> SUFFICES ASSUME PdfInv, ExtractRaises PROVE PdfInv'
  OBVIOUS
<1>1. /\ step = "extract" /\ file \in Files
      /\ UNCHANGED <<pdfMode, contents, listed, file, filed>>
      /\ step' = IF pdfMode = "structured" THEN "fallback" ELSE "failed"
  BY DEF ExtractRaises, AtFile
<1>2. /\ listed \in Seq(PdfNodes) /\ Len(listed) >= 1
      /\ HasTree(listed, pdfMode, contents[file], file, "waiting")
  BY <1>1, FileAtHand
<1>3. CASE pdfMode = "structured"
  <2>1. HasTree(listed', pdfMode, contents[file], file, "half")
    BY <1>1, <1>2, <1>3, SameTree
  <2>2. listed' = listed \o <<>> /\ <<>> \in Seq(PdfNodes) /\ DOMAIN <<>> = {}
    BY <1>1, <1>2, NothingAdded
  <2> QED
    BY <1>1, <1>3, <2>1, <2>2, FileFallsBack
<1>4. CASE pdfMode # "structured"
  <2>1. step' = "failed" /\ \A f \in Files : Outcome(f)' = Outcome(f)
    BY <1>1, <1>4 DEF Outcome
  <2>2. PdfTyped' /\ PdfOrdered'
    BY <1>1, <2>1 DEF PdfInv, PdfTyped, PdfOrdered
  <2>3. PdfTrees'
    BY <1>1, <2>1 DEF PdfInv, PdfTrees
  <2> QED
    BY <2>2, <2>3 DEF PdfInv
<1> QED
  BY <1>3, <1>4

LEMMA StoreTreeKeeps == PdfInv /\ StoreTree => PdfInv'
<1> SUFFICES ASSUME PdfInv, StoreTree PROVE PdfInv'
  OBVIOUS
<1>1. /\ step = "extract" /\ file > NumFiles /\ step' = "completed"
      /\ UNCHANGED <<pdfMode, contents, listed, file, filed>>
  BY DEF StoreTree
<1>2. \A f \in Files : Outcome(f)' = Outcome(f)
  BY <1>1 DEF Outcome
<1>3. PdfTyped' /\ PdfOrdered'
  BY <1>1 DEF PdfInv, PdfTyped, PdfOrdered
<1>4. PdfTrees'
  BY <1>1, <1>2 DEF PdfInv, PdfTrees
<1> QED
  BY <1>3, <1>4 DEF PdfInv

LEMMA PdfStutters == PdfInv /\ UNCHANGED pdfVars => PdfInv'
<1> SUFFICES ASSUME PdfInv, UNCHANGED pdfVars PROVE PdfInv'
  OBVIOUS
<1>1. UNCHANGED <<pdfMode, contents, listed, file, step, filed>>
  BY DEF pdfVars
<1>2. \A f \in Files : Outcome(f)' = Outcome(f)
  BY <1>1 DEF Outcome
<1>3. PdfTyped' /\ PdfOrdered'
  BY <1>1 DEF PdfInv, PdfTyped, PdfOrdered
<1>4. PdfTrees'
  BY <1>1, <1>2 DEF PdfInv, PdfTrees
<1> QED
  BY <1>3, <1>4 DEF PdfInv

LEMMA FilesHaveTrees == PdfSpec => []PdfInv
<1>1. PdfInv /\ [PdfNext]_pdfVars => PdfInv'
  BY StructuredKeeps, ChunkedKeeps, ConvertedKeeps, FlatKeeps, FallbackKeeps,
     FallbackRaisesKeeps, ExtractRaisesKeeps, StoreTreeKeeps, PdfStutters DEF PdfNext
<1> QED
  BY <1>1, PdfStarts, PTL DEF PdfSpec

(***************************************************************************)
(* What the trees give.                                                    *)
(***************************************************************************)
LEMMA TreeOfFile ==
    ASSUME PdfInv, NEW f \in Files
    PROVE  \E doc \in Nat \ {0, 1}, tree \in Seq(PdfNodes) :
              TreeAt(listed, pdfMode, contents[f], f, Outcome(f), doc, tree)
BY DEF PdfInv, PdfTrees, HasTree

\* The nodes of a file are its tree's.
LEMMA NodesOfTree ==
    ASSUME PdfInv, NEW f \in Files, NEW doc \in Nat \ {0, 1}, NEW tree \in Seq(PdfNodes),
           Occupies(listed, f, doc, tree), Planted(tree, f, doc)
    PROVE  /\ DOMAIN tree = 1..Len(tree) /\ Len(tree) \in Nat
           /\ \A k \in DOMAIN tree : doc + k - 1 \in DOMAIN listed /\ listed[doc + k - 1] = tree[k]
           /\ \A i \in DOMAIN listed : listed[i].file = f =>
                 /\ i - doc + 1 \in DOMAIN tree
                 /\ i = doc + (i - doc + 1) - 1
                 /\ listed[i] = tree[i - doc + 1]
<1>1. listed \in Seq(PdfNodes)
  BY DEF PdfInv, PdfTyped
<1>2. DOMAIN tree = 1..Len(tree) /\ Len(tree) \in Nat
      /\ DOMAIN listed = 1..Len(listed) /\ Len(listed) \in Nat
  BY <1>1
<1>3. doc + Len(tree) <= Len(listed) + 1
  BY DEF Occupies
<1>4. \A k \in DOMAIN tree : doc + k - 1 \in DOMAIN listed /\ listed[doc + k - 1] = tree[k]
  <2> SUFFICES ASSUME NEW k \in DOMAIN tree
               PROVE  doc + k - 1 \in DOMAIN listed /\ listed[doc + k - 1] = tree[k]
    OBVIOUS
  <2>1. doc + k - 1 \in 1..Len(listed)
    BY <1>2, <1>3
  <2> QED
    BY <1>2, <2>1 DEF Occupies
<1>5. ASSUME NEW i \in DOMAIN listed, listed[i].file = f
      PROVE  /\ i - doc + 1 \in DOMAIN tree
             /\ i = doc + (i - doc + 1) - 1
             /\ listed[i] = tree[i - doc + 1]
  <2>1. i - doc + 1 \in DOMAIN tree
    BY <1>5 DEF Occupies
  <2>2. i = doc + (i - doc + 1) - 1
    BY <1>2
  <2> QED
    BY <1>4, <2>1, <2>2
<1> QED
  BY <1>2, <1>4, <1>5

LEMMA PagesOfTree ==
    ASSUME PdfInv, NEW f \in Files, NEW doc \in Nat \ {0, 1}, NEW tree \in Seq(PdfNodes),
           Occupies(listed, f, doc, tree), Planted(tree, f, doc), NEW p
    PROVE  PageNodes(f, p) = {doc + k - 1 : k \in PagesIn(tree, p)}
<1>1. ASSUME NEW k \in PagesIn(tree, p) PROVE doc + k - 1 \in PageNodes(f, p)
  <2>1. k \in DOMAIN tree /\ tree[k].kind = "page" /\ tree[k].page = p
    BY DEF PagesIn
  <2>2. tree[k].file = f
    BY <2>1, FilesOfTree
  <2>3. doc + k - 1 \in DOMAIN listed /\ listed[doc + k - 1] = tree[k]
    BY <2>1, NodesOfTree
  <2> QED
    BY <2>1, <2>2, <2>3 DEF PageNodes
<1>2. ASSUME NEW i \in PageNodes(f, p)
      PROVE  i - doc + 1 \in PagesIn(tree, p) /\ i = doc + (i - doc + 1) - 1
  <2>1. i \in DOMAIN listed /\ listed[i].kind = "page" /\ listed[i].file = f /\ listed[i].page = p
    BY DEF PageNodes
  <2>2. /\ i - doc + 1 \in DOMAIN tree /\ i = doc + (i - doc + 1) - 1
        /\ listed[i] = tree[i - doc + 1]
    BY <2>1, NodesOfTree
  <2> QED
    BY <2>1, <2>2 DEF PagesIn
<1> QED
  BY <1>1, <1>2

LEMMA EdgesStay == PdfInv => EdgesStayInFile
<1> SUFFICES ASSUME PdfInv, NEW i \in DOMAIN listed \ {1}
             PROVE  LET node == listed[i]
                        up == listed[node.parent]
                    IN  /\ node.parent < i
                        /\ node.kind = "document" => up.kind = "root"
                        /\ node.kind \in {"section", "page"} => up.file = node.file
                        /\ node.kind = "section" => up.kind = "document"
                        /\ node.kind = "page" => up.kind \in {"document", "section"}
                        /\ node.kind = "whole" => /\ up.kind \in {"root", "document"}
                                                  /\ up.file \in {0, node.file}
  BY DEF EdgesStayInFile
<1> DEFINE f == listed[i].file
           node == listed[i]
<1>1. /\ f \in Files /\ i \in Nat /\ i > 1
      /\ listed[1].kind = "root" /\ listed[1].file = 0
  BY DEF PdfInv, PdfTyped, PdfNode
<1> HIDE DEF f
<1>2. PICK doc \in Nat \ {0, 1}, tree \in Seq(PdfNodes) :
         TreeAt(listed, pdfMode, contents[f], f, Outcome(f), doc, tree)
  BY <1>1, TreeOfFile
<1>3. Occupies(listed, f, doc, tree) /\ Planted(tree, f, doc)
  BY <1>2 DEF TreeAt, Grown
<1> DEFINE k == i - doc + 1
<1>4. /\ k \in DOMAIN tree /\ DOMAIN tree = 1..Len(tree) /\ Len(tree) \in Nat
      /\ i = doc + k - 1 /\ listed[i] = tree[k]
      /\ \A j \in DOMAIN tree : listed[doc + j - 1] = tree[j] /\ tree[j].file = f
  <2>1. listed[i].file = f
    BY DEF f
  <2>2. \A j \in DOMAIN tree : tree[j].file = f
    BY <1>3, FilesOfTree
  <2> QED
    BY <1>1, <1>3, <2>1, <2>2, NodesOfTree
<1>5. OfTree(tree, f, doc, k)
  BY <1>3, <1>4 DEF Planted
<1> HIDE DEF k
<1>6. CASE node.parent = 1 /\ node.kind \in {"document", "whole"}
  BY <1>1, <1>6
<1>7. CASE node.parent \in doc..(doc + k - 2)
  <2> DEFINE up == node.parent
             j == up - doc + 1
  <2>1. up < i /\ j \in DOMAIN tree /\ doc + j - 1 = up
    <3> HIDE DEF up
    <3> QED
      BY <1>4, <1>7 DEF up
  <2>2. listed[up] = tree[j] /\ listed[up].file = f /\ listed[i].file = f
    BY <1>4, <2>1
  <2>3. /\ node.kind \in {"section", "whole", "page"}
        /\ node.kind = "section" => listed[up].kind = "document"
        /\ node.kind = "page" => listed[up].kind \in {"document", "section"}
        /\ node.kind = "whole" => listed[up].kind = "document"
    BY <1>4, <1>5, <1>7, <2>2 DEF OfTree
  <2> QED
    BY <2>1, <2>2, <2>3
<1> QED
  BY <1>4, <1>5, <1>6, <1>7 DEF OfTree

\* A file that was built in sections.
LEMMA SectionsOfFile ==
    ASSUME PdfInv, NEW f \in Files, pdfMode = "structured", filed[f] = "whole"
    PROVE  /\ \A p \in DOMAIN contents[f] : \A i \in PageNodes(f, p) :
                 SectionOf(i) =
                     IF contents[f][p].heading # NoHeading THEN contents[f][p].heading
                     ELSE IF p = 1 THEN FrontMatter
                     ELSE SectionOf(CHOOSE j \in PageNodes(f, p - 1) : TRUE)
           /\ \A i \in DOMAIN listed : listed[i].kind = "section" /\ listed[i].file = f =>
                 listed[i].text = {p \in DOMAIN contents[f] :
                                       \E j \in PageNodes(f, p) : listed[j].parent = i}
<1> DEFINE pages == contents[f]
           titles == Titles(pages)
           n == Len(titles)
<1>1. Outcome(f) = "whole"
  <2>1. NumFiles \in Nat
    BY PdfAssumption
  <2> QED
    BY <2>1 DEF PdfInv, PdfOrdered, Outcome, Files
<1>2. pages \in Seq(PdfPage)
  BY PdfAssumption DEF PdfInv, PdfTyped
<1>3. PICK doc \in Nat \ {0, 1}, tree \in Seq(PdfNodes) :
         TreeAt(listed, pdfMode, contents[f], f, "whole", doc, tree)
  BY <1>1, TreeOfFile
<1>4. /\ Occupies(listed, f, doc, tree) /\ Planted(tree, f, doc)
      /\ Unformattable(pages) = {} /\ tree = SectionTree(f, pages, doc)
  BY <1>3 DEF TreeAt, Grown
<1>5. DOMAIN pages = 1..Len(pages) /\ Len(pages) \in Nat /\ Built(pages) = Len(pages)
  BY <1>2, <1>4, BuiltTypes
<1>6. /\ n \in Nat /\ DOMAIN tree = 1..(1 + n + Len(pages))
      /\ \A k \in 1..n : tree[1 + k] =
            PdfNode("section", f, doc, titles[k], 0, PagesUnder(pages, titles[k]))
      /\ \A p \in DOMAIN pages : tree[1 + n + p] =
            PdfNode("page", f, doc + Place(pages, HeadingOf(pages, p)), HeadingOf(pages, p), p, {p})
      /\ tree[1].kind = "document"
  <2>1. doc \in Nat
    OBVIOUS
  <2> DEFINE made == SectionTree(f, pages, doc)
  <2>2. /\ n \in Nat /\ DOMAIN made = 1..(1 + n + Built(pages))
        /\ made[1] = Document("document", f, {1})
        /\ \A k \in 1..n : made[1 + k] =
              PdfNode("section", f, doc, titles[k], 0, PagesUnder(pages, titles[k]))
        /\ \A p \in 1..Built(pages) : made[1 + n + p] =
              PdfNode("page", f, doc + Place(pages, HeadingOf(pages, p)), HeadingOf(pages, p),
                      p, {p})
    BY <1>2, <2>1, SectionTreeNodes
  <2>3. /\ n \in Nat /\ DOMAIN tree = 1..(1 + n + Built(pages))
        /\ tree[1] = Document("document", f, {1})
        /\ \A k \in 1..n : tree[1 + k] =
              PdfNode("section", f, doc, titles[k], 0, PagesUnder(pages, titles[k]))
        /\ \A p \in 1..Built(pages) : tree[1 + n + p] =
              PdfNode("page", f, doc + Place(pages, HeadingOf(pages, p)), HeadingOf(pages, p),
                      p, {p})
    <3>1. tree = made
      BY <1>4
    <3> HIDE DEF made
    <3> QED
      BY <2>2, <3>1
  <2>4. tree[1].kind = "document"
    BY <2>3 DEF Document, PdfNode
  <2> QED
    BY <1>5, <2>3, <2>4
<1>7. /\ DOMAIN titles = 1..n
      /\ \A p \in DOMAIN pages : /\ Place(pages, HeadingOf(pages, p)) \in 1..n
                                 /\ titles[Place(pages, HeadingOf(pages, p))] = HeadingOf(pages, p)
      /\ \A j, k \in 1..n : titles[j] = titles[k] => j = k
  BY <1>2, TitlesOnce, PlacesOfTitles
<1>8. \A p \in DOMAIN pages : PageNodes(f, p) = {doc + n + p}
  <2> SUFFICES ASSUME NEW p \in DOMAIN pages PROVE PageNodes(f, p) = {doc + n + p}
    OBVIOUS
  <2>1. PagesIn(tree, p) = {1 + n + p}
    BY <1>2, <1>4, <1>5, SectionTreeIsPlanted
  <2>2. PageNodes(f, p) = {doc + k - 1 : k \in PagesIn(tree, p)}
    BY <1>4, PagesOfTree
  <2> HIDE DEF n, pages
  <2>3. doc + (1 + n + p) - 1 = doc + n + p
    BY <1>5, <1>6
  <2> QED
    BY <2>1, <2>2, <2>3
<1>9. /\ \A k \in DOMAIN tree : listed[doc + k - 1] = tree[k]
      /\ \A i \in DOMAIN listed : listed[i].file = f =>
            /\ i - doc + 1 \in DOMAIN tree
            /\ i = doc + (i - doc + 1) - 1
            /\ listed[i] = tree[i - doc + 1]
  BY <1>4, NodesOfTree
<1> HIDE DEF pages, titles, n
<1>10. ASSUME NEW p \in DOMAIN pages
       PROVE  /\ listed[doc + n + p].parent = doc + Place(pages, HeadingOf(pages, p))
              /\ SectionOf(doc + n + p) = HeadingOf(pages, p)
  <2> DEFINE j == Place(pages, HeadingOf(pages, p))
  <2>1. j \in 1..n /\ titles[j] = HeadingOf(pages, p)
    BY <1>7
  <2>2. tree[1 + n + p] = PdfNode("page", f, doc + j, HeadingOf(pages, p), p, {p})
    BY <1>6
  <2>3. tree[1 + n + p].parent = doc + j
    BY <2>2 DEF PdfNode
  <2> HIDE DEF j
  <2>4. /\ 1 + n + p \in DOMAIN tree /\ doc + (1 + n + p) - 1 = doc + n + p
        /\ 1 + j \in DOMAIN tree /\ doc + (1 + j) - 1 = doc + j
    BY <1>5, <1>6, <2>1
  <2>5. listed[doc + n + p] = tree[1 + n + p] /\ listed[doc + j] = tree[1 + j]
    BY <1>9, <2>4
  <2>6. tree[1 + j] = PdfNode("section", f, doc, titles[j], 0, PagesUnder(pages, titles[j]))
    BY <1>6, <2>1
  <2>7. tree[1 + j].title = titles[j]
    BY <2>6 DEF PdfNode
  <2> QED
    BY <2>1, <2>3, <2>5, <2>7 DEF SectionOf, j
<1>11. ASSUME NEW p \in DOMAIN pages, NEW i \in PageNodes(f, p)
       PROVE  SectionOf(i) =
                 IF pages[p].heading # NoHeading THEN pages[p].heading
                 ELSE IF p = 1 THEN FrontMatter
                 ELSE SectionOf(CHOOSE j \in PageNodes(f, p - 1) : TRUE)
  <2>1. SectionOf(i) = HeadingOf(pages, p)
    BY <1>8, <1>10
  <2>2. HeadingOf(pages, p) =
           IF pages[p].heading # NoHeading THEN pages[p].heading
           ELSE IF p = 1 THEN FrontMatter ELSE HeadingOf(pages, p - 1)
    BY <1>2, HeadingHolds
  <2>3. ASSUME p # 1
        PROVE  SectionOf(CHOOSE j \in PageNodes(f, p - 1) : TRUE) = HeadingOf(pages, p - 1)
    <3>1. p - 1 \in DOMAIN pages
      BY <1>5, <2>3
    <3>2. (CHOOSE j \in PageNodes(f, p - 1) : TRUE) = doc + n + (p - 1)
      BY <1>8, <3>1
    <3> QED
      BY <1>10, <3>1, <3>2
  <2> QED
    BY <2>1, <2>2, <2>3
<1>12. ASSUME NEW i \in DOMAIN listed, listed[i].kind = "section", listed[i].file = f
       PROVE  listed[i].text = {p \in DOMAIN pages : \E j \in PageNodes(f, p) : listed[j].parent = i}
  <2> DEFINE k == i - doc
  <2>1. i \in Nat
    BY DEF PdfInv, PdfTyped
  <2>2. k \in Int /\ k + 1 \in DOMAIN tree /\ listed[i] = tree[k + 1] /\ i = doc + k
    <3>1. i - doc + 1 \in DOMAIN tree /\ listed[i] = tree[i - doc + 1]
      BY <1>9, <1>12
    <3> QED
      BY <2>1, <3>1
  <2> HIDE DEF k
  <2>3. k \in 1..n
    <3>1. k \in Int /\ (k + 1 = 1 \/ k \in 1..n \/ (k - n \in DOMAIN pages /\ k + 1 = 1 + n + (k - n)))
      <4>1. k \in Int /\ k + 1 \in 1..(1 + n + Len(pages))
        BY <1>6, <2>1, <2>2
      <4> QED
        BY <1>5, <1>6, <4>1
    <3>2. \A p \in DOMAIN pages : tree[1 + n + p].kind = "page"
      <4> SUFFICES ASSUME NEW p \in DOMAIN pages PROVE tree[1 + n + p].kind = "page"
        OBVIOUS
      <4>1. tree[1 + n + p] = PdfNode("page", f, doc + Place(pages, HeadingOf(pages, p)),
                                      HeadingOf(pages, p), p, {p})
        BY <1>6
      <4> QED
        BY <4>1 DEF PdfNode
    <3> QED
      BY <1>6, <1>12, <2>2, <3>1, <3>2
  <2>4. k + 1 = 1 + k
    BY <1>6, <2>3
  <2>5. tree[1 + k] = PdfNode("section", f, doc, titles[k], 0, PagesUnder(pages, titles[k]))
    BY <1>6, <2>3
  <2>6. listed[i].text = PagesUnder(pages, titles[k])
    BY <2>2, <2>4, <2>5 DEF PdfNode
  <2>7. ASSUME NEW p \in DOMAIN pages
        PROVE  HeadingOf(pages, p) = titles[k] <=> \E j \in PageNodes(f, p) : listed[j].parent = i
    <3> DEFINE q == Place(pages, HeadingOf(pages, p))
    <3>1. q \in 1..n /\ titles[q] = HeadingOf(pages, p)
      BY <1>7
    <3>2. (\E j \in PageNodes(f, p) : listed[j].parent = i) <=> doc + q = i
      BY <1>8, <1>10
    <3> HIDE DEF q
    <3>3. doc + q = i <=> q = k
      BY <1>6, <2>2, <2>3, <3>1
    <3> QED
      BY <1>7, <2>3, <3>1, <3>2, <3>3
  <2> QED
    BY <2>6, <2>7 DEF PagesUnder
<1> QED
  BY <1>11, <1>12 DEF pages

LEMMA TwoNodes ==
    ASSUME NEW x, NEW y
    PROVE  Cardinality({x}) = 1 /\ Cardinality({x, y}) \in {1, 2}
<1>1. IsFiniteSet({}) /\ Cardinality({}) = 0 /\ {} \cup {y} = {y} /\ {y} \cup {x} = {x, y}
  BY FS_EmptySet
<1>2. \A z : IsFiniteSet({z}) /\ Cardinality({z}) = 1
  BY FS_Singleton
<1>3. Cardinality({x, y}) = IF x \in {y} THEN 1 ELSE 2
  <2>1. IsFiniteSet({y}) /\ Cardinality({y}) = 1
    BY <1>2
  <2>2. Cardinality({y} \cup {x}) = IF x \in {y} THEN Cardinality({y}) ELSE Cardinality({y}) + 1
    BY <2>1, FS_AddElement
  <2>3. {y} \cup {x} = {x, y}
    OBVIOUS
  <2>4. Cardinality({y} \cup {x}) = IF x \in {y} THEN 1 ELSE 2
    BY <2>1, <2>2
  <2> QED
    BY <2>3, <2>4
<1> QED
  BY <1>2, <1>3

LEMMA FiledWell ==
    ASSUME PdfInv, step = "completed", NEW f \in Files
    PROVE  /\ pdfMode \in {"structured", "pymupdf4llm", "page"} =>
                 \A p \in WithText(contents[f]) :
                     /\ filed[f] = "whole" => Cardinality(PageNodes(f, p)) = 1
                     /\ filed[f] = "fallback" => Cardinality(PageNodes(f, p)) \in {1, 2}
           /\ filed[f] = "lost" => pdfMode = "structured"
           /\ filed[f] = "empty" => WithText(contents[f]) = {}
           /\ filed[f] # "waiting"
<1>1. Outcome(f) = filed[f]
  BY DEF Outcome
<1>2. PICK doc \in Nat \ {0, 1}, tree \in Seq(PdfNodes) :
         TreeAt(listed, pdfMode, contents[f], f, filed[f], doc, tree)
  BY <1>1, TreeOfFile
<1>3. Occupies(listed, f, doc, tree) /\ Grown(tree, pdfMode, contents[f], f, doc, filed[f])
  BY <1>2 DEF TreeAt
<1>4. Planted(tree, f, doc)
  BY <1>3 DEF Grown
<1>5. filed[f] # "waiting"
  <2>1. NumFiles \in Nat /\ f \in 1..NumFiles
    BY PdfAssumption DEF Files
  <2>2. file \in 1..(NumFiles + 1) /\ file > NumFiles /\ (filed[f] = "waiting" <=> f >= file)
    BY DEF PdfInv, PdfTyped, PdfOrdered
  <2> QED
    BY <2>1, <2>2
<1>6. ASSUME NEW p \in WithText(contents[f]) PROVE PageNodes(f, p) = {doc + k - 1 : k \in PagesIn(tree, p)}
  BY <1>3, <1>4, PagesOfTree
<1>7. ASSUME pdfMode \in {"structured", "pymupdf4llm", "page"}, filed[f] = "whole",
             NEW p \in WithText(contents[f])
      PROVE  Cardinality(PageNodes(f, p)) = 1
  <2>1. OnePage(tree, p)
    BY <1>3, <1>7 DEF Grown
  <2>2. PICK k \in DOMAIN tree : PagesIn(tree, p) = {k}
    BY <2>1 DEF OnePage
  <2>3. PageNodes(f, p) = {doc + k - 1}
    BY <1>6, <2>2
  <2> QED
    BY <2>3, TwoNodes
<1>8. ASSUME filed[f] = "fallback", NEW p \in WithText(contents[f])
      PROVE  Cardinality(PageNodes(f, p)) \in {1, 2}
  <2>1. OneOrTwoPages(tree, p)
    BY <1>3, <1>8 DEF Grown, WithText
  <2>2. PICK j \in DOMAIN tree, k \in DOMAIN tree : PagesIn(tree, p) = {j, k}
    BY <2>1 DEF OneOrTwoPages
  <2>3. PageNodes(f, p) = {doc + j - 1, doc + k - 1}
    BY <1>6, <2>2
  <2> QED
    BY <2>3, TwoNodes
<1> QED
  BY <1>3, <1>5, <1>7, <1>8 DEF Grown

\* PdfTypeOK, in every reachable state: a file at hand and nodes of the kinds there are.
THEOREM PdfTypeCorrect == PdfSpec => []PdfTypeOK
<1>1. PdfInv => PdfTypeOK
  <2> SUFFICES ASSUME PdfInv PROVE PdfTypeOK
    OBVIOUS
  <2>1. PdfTyped
    BY DEF PdfInv
  <2>2. \A i \in DOMAIN listed :
           /\ listed[i].kind \in {"root", "document", "section", "page", "whole"}
           /\ listed[i].file \in 0..NumFiles
           /\ listed[i].title \in Headings \cup {NoHeading, FrontMatter}
    <3> SUFFICES ASSUME NEW i \in DOMAIN listed
                 PROVE  /\ listed[i].kind \in {"root", "document", "section", "page", "whole"}
                        /\ listed[i].file \in 0..NumFiles
                        /\ listed[i].title \in Headings \cup {NoHeading, FrontMatter}
      OBVIOUS
    <3>1. listed[i] \in PdfNodes
      BY <2>1 DEF PdfTyped
    <3> QED
      BY <3>1 DEF PdfNodes
  <2> QED
    BY <2>1, <2>2 DEF PdfTypeOK, PdfTyped
<1> QED
  BY <1>1, FilesHaveTrees, PTL

\* PagesAreFiled, for every directory of files: edges stay in their file, sections hold
\* their pages, and a completed snapshot has every page with text of a file that was built,
\* once, and of a file that fell back once or twice (_ingest_impl).
THEOREM PdfIsFiled == PdfSpec => []PagesAreFiled
<1>1. PdfInv => PagesAreFiled
  BY EdgesStay, SectionsOfFile, FiledWell DEF PagesAreFiled, SectionsHoldTheirPages
<1> QED
  BY <1>1, FilesHaveTrees, PTL

(***************************************************************************)
(* Lists.                                                                  *)
(***************************************************************************)
LEMMA PrefixMeans ==
    ASSUME NEW S, NEW s \in Seq(S), NEW t \in Seq(S)
    PROVE  IsPrefix(s, t) <=> /\ Len(s) <= Len(t)
                              /\ \A k \in 1..Len(s) : s[k] = t[k]
<1>1. Len(s) \in Nat /\ Len(t) \in Nat /\ DOMAIN s = 1..Len(s) /\ DOMAIN t = 1..Len(t)
  OBVIOUS
<1>2. ASSUME Len(s) <= Len(t)
      PROVE  SubSeq(s, 1, Len(s)) = SubSeq(t, 1, Len(s)) <=> \A k \in 1..Len(s) : s[k] = t[k]
  <2>1. /\ SubSeq(s, 1, Len(s)) = [k \in 1..Len(s) |-> s[k]]
        /\ SubSeq(t, 1, Len(s)) = [k \in 1..Len(s) |-> t[k]]
    BY <1>1, <1>2
  <2>2. (\A k \in 1..Len(s) : s[k] = t[k])
          <=> [k \in 1..Len(s) |-> s[k]] = [k \in 1..Len(s) |-> t[k]]
    BY Zenon
  <2> QED
    BY <2>1, <2>2
<1> QED
  BY <1>2 DEF IsPrefix

\* An element before a list.
LEMMA OneMore ==
    ASSUME NEW S, NEW x \in S, NEW s \in Seq(S)
    PROVE  /\ <<x>> \o s \in Seq(S) /\ Len(<<x>> \o s) = Len(s) + 1
           /\ (<<x>> \o s)[1] = x /\ \A k \in 1..Len(s) : (<<x>> \o s)[k + 1] = s[k]
<1>1. <<x>> \in Seq(S) /\ Len(<<x>>) = 1 /\ <<x>>[1] = x /\ Len(s) \in Nat
  OBVIOUS
<1>2. <<x>> \o s \in Seq(S) /\ Follows(<<x>> \o s, <<x>>, s)
  BY <1>1, Concatenation
<1> DEFINE both == <<x>> \o s
<1> HIDE DEF both
<1>3. /\ Len(both) = 1 + Len(s)
      /\ \A k \in 1..1 : both[k] = <<x>>[k]
      /\ \A k \in 1..Len(s) : both[1 + k] = s[k]
  BY <1>1, <1>2 DEF Follows, both
<1>4. \A k \in 1..Len(s) : k + 1 = 1 + k
  BY <1>1
<1>5. Len(both) = Len(s) + 1 /\ both[1] = x
  BY <1>1, <1>3
<1> QED
  BY <1>2, <1>3, <1>4, <1>5 DEF both

LEMMA PrefixWithOneMore ==
    ASSUME NEW S, NEW x \in S, NEW s \in Seq(S), NEW t \in Seq(S), IsPrefix(s, t)
    PROVE  IsPrefix(<<x>> \o s, <<x>> \o t)
<1> DEFINE u == <<x>> \o s
           v == <<x>> \o t
<1>1. /\ Len(s) \in Nat /\ Len(t) \in Nat
      /\ Len(s) <= Len(t) /\ \A k \in 1..Len(s) : s[k] = t[k]
  BY PrefixMeans
<1>2. /\ u \in Seq(S) /\ Len(u) = Len(s) + 1
      /\ u[1] = x /\ \A k \in 1..Len(s) : u[k + 1] = s[k]
      /\ v \in Seq(S) /\ Len(v) = Len(t) + 1
      /\ v[1] = x /\ \A k \in 1..Len(t) : v[k + 1] = t[k]
  BY OneMore
<1> HIDE DEF u, v
<1>3. ASSUME NEW k \in 1..Len(u) PROVE u[k] = v[k]
  <2>1. CASE k = 1
    BY <1>2, <2>1
  <2>2. CASE k # 1
    <3>1. k - 1 \in 1..Len(s) /\ k - 1 \in 1..Len(t) /\ (k - 1) + 1 = k
      BY <1>1, <1>2, <2>2
    <3> QED
      BY <1>1, <1>2, <3>1
  <2> QED
    BY <2>1, <2>2
<1>4. Len(u) <= Len(v)
  BY <1>1, <1>2
<1> QED
  BY <1>2, <1>3, <1>4, PrefixMeans DEF u, v

\* How often a list has something.
LEMMA OccurrencesAreCounted ==
    ASSUME NEW S, NEW s \in Seq(S), NEW x
    PROVE  /\ IsFiniteSet({i \in DOMAIN s : s[i] = x})
           /\ Occurrences(x, s) \in Nat
           /\ (\A i \in DOMAIN s : s[i] # x) => Occurrences(x, s) = 0
<1>1. IsFiniteSet(DOMAIN s)
  <2>1. Len(s) \in Nat /\ DOMAIN s = 1..Len(s)
    OBVIOUS
  <2> QED
    BY <2>1, NumbersUpTo
<1>2. IsFiniteSet({i \in DOMAIN s : s[i] = x})
  BY <1>1, FS_Subset
<1>3. Cardinality({i \in DOMAIN s : s[i] = x}) \in Nat
  BY <1>2, FS_CardinalityType
<1>4. ASSUME \A i \in DOMAIN s : s[i] # x PROVE Occurrences(x, s) = 0
  <2>1. {i \in DOMAIN s : s[i] = x} = {}
    BY <1>4
  <2> QED
    BY <2>1, FS_EmptySet DEF Occurrences
<1> QED
  BY <1>2, <1>3, <1>4 DEF Occurrences

LEMMA OccurrencesInBoth ==
    ASSUME NEW S, NEW s \in Seq(S), NEW t \in Seq(S), NEW x
    PROVE  Occurrences(x, s \o t) = Occurrences(x, s) + Occurrences(x, t)
<1> DEFINE both == s \o t
           m == Len(s)
           A == {i \in DOMAIN s : s[i] = x}
           B == {i \in DOMAIN t : t[i] = x}
           C == {i \in DOMAIN both : both[i] = x}
           D == {i \in C : i > m}
           f == [i \in B |-> m + i]
<1>1. /\ m \in Nat /\ Len(t) \in Nat /\ DOMAIN s = 1..m /\ DOMAIN t = 1..Len(t)
      /\ Follows(both, s, t)
  BY Concatenation
<1> HIDE DEF both
<1>2. /\ DOMAIN both = 1..(m + Len(t))
      /\ \A k \in 1..m : both[k] = s[k]
      /\ \A k \in 1..Len(t) : both[m + k] = t[k]
  BY <1>1 DEF Follows
<1> HIDE DEF m
<1>3. IsFiniteSet(A) /\ IsFiniteSet(B)
  BY OccurrencesAreCounted
<1>4. B \subseteq 1..Len(t) /\ A \subseteq 1..m
  BY <1>1
<1>5. \A i \in B : m + i \in D
  BY <1>1, <1>2
<1>6. \A i \in D : i - m \in B /\ i = m + (i - m)
  <2> SUFFICES ASSUME NEW i \in D PROVE i - m \in B /\ i = m + (i - m)
    OBVIOUS
  <2>1. i \in 1..(m + Len(t)) /\ i > m /\ both[i] = x
    BY <1>2
  <2>2. i - m \in 1..Len(t) /\ i = m + (i - m)
    BY <1>1, <2>1
  <2> QED
    BY <1>1, <1>2, <2>1, <2>2
<1>7. A \cup D = C /\ A \cap D = {}
  <2>1. A \subseteq C
    BY <1>1, <1>2
  <2>2. \A i \in C : i \in A \/ i \in D
    BY <1>1, <1>2
  <2>3. \A i \in A : i \notin D
    BY <1>1, <1>4
  <2> QED
    BY <2>1, <2>2, <2>3
<1>8. f \in Bijection(B, D)
  <2>1. f \in [B -> D]
    BY <1>5
  <2>2. \A i, j \in B : m + i = m + j => i = j
    BY <1>1, <1>4
  <2> HIDE DEF A, B, C, D
  <2>3. f \in Injection(B, D)
    BY <2>1, <2>2 DEF Injection, IsInjective
  <2>4. f \in Surjection(B, D)
    BY <1>6, <2>1 DEF Surjection
  <2> QED
    BY <2>3, <2>4 DEF Bijection
<1>9. IsFiniteSet(D) /\ Cardinality(D) = Cardinality(B)
  <2> HIDE DEF B, D, f
  <2> QED
    BY <1>3, <1>8, FS_Bijection DEF ExistsBijection
<1>10. Cardinality(C) = Cardinality(A) + Cardinality(B)
  <2> HIDE DEF A, B, C, D
  <2>1. Cardinality(A \cup D) = Cardinality(A) + Cardinality(D) - Cardinality(A \cap D)
    BY <1>3, <1>9, FS_Union
  <2>2. Cardinality(A) \in Nat /\ Cardinality(D) \in Nat /\ Cardinality({}) = 0
    BY <1>3, <1>9, FS_CardinalityType, FS_EmptySet
  <2>3. Cardinality(A \cup D) = Cardinality(C) /\ Cardinality(A \cap D) = Cardinality({})
    BY <1>7, Zenon
  <2> QED
    BY <1>9, <2>1, <2>2, <2>3
<1> QED
  BY <1>10 DEF Occurrences, both

\* A sublist has what is asked for as often as the list.
LEMMA OccurrencesInSublist ==
    ASSUME NEW S, NEW s \in Seq(S), NEW x, NEW K \in SUBSET (DOMAIN s)
    PROVE  /\ Picked(s, K) \in Seq({s[k] : k \in K})
           /\ {k \in DOMAIN s : s[k] = x} \subseteq K => Occurrences(x, Picked(s, K)) = Occurrences(x, s)
<1>1. Len(s) \in Nat /\ DOMAIN s = 1..Len(s)
  OBVIOUS
<1>2. PICK order \in Seq(K) : PicksAt(order, s, K)
  BY <1>1, PickedKeepsOrder
<1> DEFINE sub == Picked(s, K)
           n == Len(order)
<1>3. n \in Nat /\ DOMAIN order = 1..n /\ \A k \in 1..n : order[k] \in K
  OBVIOUS
<1>4. sub = [k \in DOMAIN order |-> s[order[k]]]
  BY <1>2 DEF PicksAt
<1>5. /\ \A i \in K : \E k \in 1..n : order[k] = i
      /\ \A j, k \in 1..n : order[j] = order[k] => j = k
  BY <1>2, <1>3 DEF PicksAt, Sorts
<1> HIDE DEF n, sub
<1>6. sub \in Seq({s[k] : k \in K})
  <2>1. sub \in [1..n -> {s[k] : k \in K}]
    BY <1>3, <1>4
  <2> QED
    BY <1>3, <2>1
<1>7. ASSUME {k \in DOMAIN s : s[k] = x} \subseteq K PROVE Occurrences(x, sub) = Occurrences(x, s)
  <2> DEFINE A == {k \in DOMAIN sub : sub[k] = x}
             B == {k \in DOMAIN s : s[k] = x}
             f == [k \in A |-> order[k]]
  <2>1. DOMAIN sub = 1..n /\ \A k \in 1..n : sub[k] = s[order[k]]
    BY <1>3, <1>4
  <2>2. A \subseteq 1..n /\ \A k \in A : order[k] \in B
    BY <1>3, <2>1
  <2>3. \A i \in B : \E k \in A : order[k] = i
    <3> SUFFICES ASSUME NEW i \in B PROVE \E k \in A : order[k] = i
      OBVIOUS
    <3>1. PICK k \in 1..n : order[k] = i
      BY <1>5, <1>7
    <3> QED
      BY <2>1, <3>1
  <2>4. IsFiniteSet(A)
    BY <1>6, OccurrencesAreCounted
  <2> HIDE DEF A, B
  <2>5. f \in [A -> B]
    BY <2>2
  <2>6. \A j, k \in A : f[j] = f[k] => j = k
    BY <1>5, <2>2
  <2>7. f \in Injection(A, B)
    BY <2>5, <2>6 DEF Injection, IsInjective
  <2>8. f \in Surjection(A, B)
    BY <2>3, <2>5 DEF Surjection
  <2>9. f \in Bijection(A, B)
    BY <2>7, <2>8 DEF Bijection
  <2>10. Cardinality(B) = Cardinality(A)
    <3> HIDE DEF f
    <3> QED
      BY <2>4, <2>9, FS_Bijection DEF ExistsBijection
  <2> QED
    BY <2>10 DEF A, B, Occurrences
<1> QED
  BY <1>6, <1>7 DEF sub

(***************************************************************************)
(* The list of the sources.                                                *)
(***************************************************************************)
Flattens(flat, lists) ==
    \A i \in DOMAIN lists : flat[i] = IF i = 1 THEN lists[i] ELSE flat[i - 1] \o lists[i]

LEMMA FlatteningUnfolds ==
    ASSUME NEW S, NEW lists \in Seq(Seq(S)), Len(lists) >= 1
    PROVE  \E flat \in [DOMAIN lists -> Seq(S)] :
              Flattens(flat, lists) /\ FlattenSeq(lists) = flat[Len(lists)]
<1> DEFINE n == Len(lists)
           D == 1..n
           V == Seq(S)
           m == [i \in D |-> i]
           def == [p \in [D -> V] \X D |->
                     IF p[2] = 1 THEN lists[p[2]] ELSE p[1][p[2] - 1] \o lists[p[2]]]
<1>1. n \in Nat /\ n >= 1 /\ DOMAIN lists = D /\ \A i \in D : lists[i] \in V
  OBVIOUS
<1>2. V # {} /\ m \in [D -> Nat] /\ \A i \in D : m[i] = i
  <2>1. <<>> \in V
    OBVIOUS
  <2> QED
    BY <1>1, <2>1
<1>3. \A i \in D : i # 1 => i - 1 \in D /\ i - 1 < i
  BY <1>1
<1>4. \A g \in [D -> V], i \in D :
         def[<<g, i>>] = IF i = 1 THEN lists[i] ELSE g[i - 1] \o lists[i]
  OBVIOUS
<1>5. def \in [[D -> V] \X D -> V]
  <2>1. \A g \in [D -> V], i \in D : (IF i = 1 THEN lists[i] ELSE g[i - 1] \o lists[i]) \in V
    <3> SUFFICES ASSUME NEW g \in [D -> V], NEW i \in D
                 PROVE  (IF i = 1 THEN lists[i] ELSE g[i - 1] \o lists[i]) \in V
      OBVIOUS
    <3> HIDE DEF D
    <3>1. lists[i] \in Seq(S) /\ (i # 1 => g[i - 1] \in Seq(S))
      BY <1>1, <1>3
    <3> QED
      BY <3>1
  <2> QED
    BY <2>1
<1>6. Founded(def, m, D, V)
  <2> HIDE DEF def, V, D, m
  <2> SUFFICES ASSUME NEW i \in D, NEW g \in [D -> V], NEW h \in [D -> V],
                      \A y \in Below(m, i, D) : g[y] = h[y]
               PROVE  def[<<g, i>>] = def[<<h, i>>]
    BY DEF Founded
  <2>1. i # 1 => g[i - 1] = h[i - 1]
    BY <1>2, <1>3 DEF Below
  <2>2. /\ def[<<g, i>>] = IF i = 1 THEN lists[i] ELSE g[i - 1] \o lists[i]
        /\ def[<<h, i>>] = IF i = 1 THEN lists[i] ELSE h[i - 1] \o lists[i]
    BY <1>4
  <2>3. CASE i = 1
    BY <2>2, <2>3
  <2>4. CASE i # 1
    <3>1. g[i - 1] \o lists[i] = h[i - 1] \o lists[i]
      BY <2>1, <2>4, Zenon
    <3> QED
      BY <2>2, <2>4, <3>1
  <2> QED
    BY <2>3, <2>4
<1>7. PICK g \in [D -> V] : SolvesAll(g, def, D)
  <2> HIDE DEF def, V, D, m
  <2> QED
    BY <1>2, <1>5, <1>6, RecursionIsDefined
<1>8. \A i \in D : g[i] = IF i = 1 THEN lists[i] ELSE g[i - 1] \o lists[i]
  BY <1>4, <1>7 DEF SolvesAll
<1> DEFINE Whole(f) == [i \in 1..Len(lists) |-> IF i = 1 THEN lists[i] ELSE f[i - 1] \o lists[i]]
           flat == CHOOSE f : f = Whole(f)
<1>9. flat = Whole(flat)
  <2>1. g = Whole(g)
    BY <1>8
  <2> QED
    BY <2>1
<1>10. FlattenSeq(lists) = flat[n]
  BY <1>1 DEF FlattenSeq
<1> HIDE DEF flat, def, m
<1>11. \A i \in D : flat[i] = IF i = 1 THEN lists[i] ELSE flat[i - 1] \o lists[i]
  BY <1>9
<1> DEFINE Bad == {i \in D : flat[i] # g[i]}
<1>12. Bad = {}
  <2> SUFFICES ASSUME Bad # {} PROVE FALSE
    OBVIOUS
  <2>1. Bad \in SUBSET Nat
    BY <1>1
  <2> HIDE DEF Bad
  <2>2. PICK i \in Bad : \A j \in Bad : i <= j
    BY <2>1, LeastMember
  <2>3. i \in D /\ flat[i] # g[i]
    BY <2>2 DEF Bad
  <2>4. i # 1
    BY <1>8, <1>11, <2>3
  <2>5. i - 1 \in D /\ ~(i <= i - 1)
    BY <1>3, <2>3, <2>4
  <2>6. flat[i - 1] = g[i - 1]
    BY <2>2, <2>5 DEF Bad
  <2> QED
    BY <1>8, <1>11, <2>3, <2>6
<1>13. n \in D
  BY <1>1
<1>14. Flattens(g, lists)
  BY <1>1, <1>8 DEF Flattens
<1> QED
  BY <1>1, <1>10, <1>12, <1>13, <1>14

\* Joined, lists have what each of them has; what only one has is there as often as in it.
LEMMA Flattened ==
    ASSUME NEW S, NEW lists \in Seq(Seq(S)), Len(lists) >= 1
    PROVE  /\ FlattenSeq(lists) \in Seq(S)
           /\ \A x : \A h \in DOMAIN lists :
                 (\A i \in DOMAIN lists : i # h => Occurrences(x, lists[i]) = 0)
                    => Occurrences(x, FlattenSeq(lists)) = Occurrences(x, lists[h])
<1> DEFINE n == Len(lists)
<1>1. n \in Nat /\ n >= 1 /\ DOMAIN lists = 1..n /\ \A i \in 1..n : lists[i] \in Seq(S)
  OBVIOUS
<1>2. PICK flat \in [DOMAIN lists -> Seq(S)] :
         Flattens(flat, lists) /\ FlattenSeq(lists) = flat[Len(lists)]
  BY FlatteningUnfolds
<1>3. ASSUME NEW x, NEW h \in DOMAIN lists,
             \A i \in DOMAIN lists : i # h => Occurrences(x, lists[i]) = 0
      PROVE  Occurrences(x, FlattenSeq(lists)) = Occurrences(x, lists[h])
  <2> DEFINE Count(i) == IF i < h THEN 0 ELSE Occurrences(x, lists[h])
             Bad == {i \in 1..n : Occurrences(x, flat[i]) # Count(i)}
  <2>1. h \in 1..n
    BY <1>1
  <2>2. Bad = {}
    <3> SUFFICES ASSUME Bad # {} PROVE FALSE
      OBVIOUS
    <3>1. Bad \in SUBSET Nat
      BY <1>1
    <3> HIDE DEF Bad
    <3>2. PICK i \in Bad : \A j \in Bad : i <= j
      BY <3>1, LeastMember
    <3>3. i \in 1..n /\ Occurrences(x, flat[i]) # Count(i)
      BY <3>2 DEF Bad
    <3>4. flat[i] = IF i = 1 THEN lists[i] ELSE flat[i - 1] \o lists[i]
      BY <1>1, <1>2, <3>3 DEF Flattens
    <3>5. i # h => Occurrences(x, lists[i]) = 0
      BY <1>1, <1>3, <3>3
    <3>6. i # 1
      <4>1. i = 1 => Count(i) = Occurrences(x, lists[i])
        BY <1>1, <2>1, <3>3, <3>5
      <4> QED
        BY <3>3, <3>4, <4>1
    <3>7. i - 1 \in 1..n /\ ~(i <= i - 1)
      BY <1>1, <3>3, <3>6
    <3>8. Occurrences(x, flat[i - 1]) = Count(i - 1)
      BY <3>2, <3>7 DEF Bad
    <3>9. flat[i - 1] \in Seq(S) /\ lists[i] \in Seq(S)
      BY <1>1, <3>3, <3>7
    <3>10. Occurrences(x, flat[i]) = Occurrences(x, flat[i - 1]) + Occurrences(x, lists[i])
      BY <3>4, <3>6, <3>9, OccurrencesInBoth
    <3>11. Occurrences(x, lists[h]) \in Nat
      <4>1. lists[h] \in Seq(S)
        BY <1>1, <2>1
      <4> QED
        BY <4>1, OccurrencesAreCounted
    <3>12. Count(i - 1) + Occurrences(x, lists[i]) = Count(i)
      BY <1>1, <2>1, <3>3, <3>5, <3>7, <3>11
    <3> QED
      BY <3>3, <3>8, <3>10, <3>12
  <2>3. n \in 1..n /\ ~(n < h)
    BY <1>1, <2>1
  <2>4. Occurrences(x, flat[n]) = Count(n)
    BY <2>2, <2>3
  <2>5. Occurrences(x, flat[n]) = Occurrences(x, lists[h])
    BY <2>3, <2>4
  <2> QED
    BY <1>2, <2>5, Zenon
<1>4. FlattenSeq(lists) \in Seq(S)
  <2>1. n \in DOMAIN lists
    BY <1>1
  <2> QED
    BY <1>2, <2>1
<1> QED
  BY <1>3, <1>4

LEMMA ListOfLength ==
    ASSUME NEW T, NEW n \in Nat, NEW list \in [1..n -> T]
    PROVE  list \in Seq(T) /\ Len(list) = n
<1>1. list \in Seq(T)
  OBVIOUS
<1>2. DOMAIN list = 1..n /\ DOMAIN list = 1..Len(list) /\ Len(list) \in Nat
  BY <1>1
<1> QED
  BY <1>1, <1>2

\* The groups: each type is in one of six.
LEMMA GroupsAreSix ==
    /\ DOMAIN Groups = 1..6
    /\ \A i, j \in 1..6 : Groups[i] = Groups[j] => i = j
    /\ \A c : \E h \in 1..6 : GroupOf(c) = Groups[h]
<1>1. DOMAIN Groups = 1..6
  BY DEF Groups
<1>2. /\ Groups[1] = "sec_filing" /\ Groups[2] = "earnings_release"
      /\ Groups[3] = "earnings_transcript" /\ Groups[4] = "database_query"
      /\ Groups[5] = "calculation" /\ Groups[6] = "other"
  BY DEF Groups
<1>3. \A i \in 1..6 : i = 1 \/ i = 2 \/ i = 3 \/ i = 4 \/ i = 5 \/ i = 6
  OBVIOUS
<1>4. ASSUME NEW i \in 1..6, NEW j \in 1..6, Groups[i] = Groups[j] PROVE i = j
  BY <1>2, <1>3, <1>4
<1>5. ASSUME NEW c PROVE \E h \in 1..6 : GroupOf(c) = Groups[h]
  <2>1. CASE c.type \in ToSet(Groups)
    <3>1. GroupOf(c) = c.type
      BY <2>1 DEF GroupOf
    <3>2. \E h \in 1..6 : c.type = Groups[h]
      BY <1>1, <2>1 DEF ToSet
    <3> QED
      BY <3>1, <3>2
  <2>2. CASE c.type \notin ToSet(Groups)
    <3>1. GroupOf(c) = Groups[6]
      BY <1>2, <2>2 DEF GroupOf
    <3> QED
      BY <3>1
  <2> QED
    BY <2>1, <2>2
<1> QED
  BY <1>1, <1>4, <1>5

\* The list has every citation as often as the report.
LEMMA ListingIsComplete ==
    ASSUME NEW S, NEW citations \in Seq(S)
    PROVE  /\ Listing(citations) \in Seq(Seq(S)) /\ Len(Listing(citations)) = 6
           /\ \A x \in ToSet(citations) :
                 Occurrences(x, FlattenSeq(Listing(citations))) = Occurrences(x, citations)
<1> DEFINE Ks(i) == {k \in DOMAIN citations : GroupOf(citations[k]) = Groups[i]}
           lists == Listing(citations)
<1>1. DOMAIN lists = 1..6 /\ \A i \in 1..6 : lists[i] = Picked(citations, Ks(i))
  BY GroupsAreSix DEF Listing
<1>2. \A i \in 1..6 : /\ lists[i] \in Seq({citations[k] : k \in Ks(i)})
                      /\ lists[i] \in Seq(S)
  <2> SUFFICES ASSUME NEW i \in 1..6
               PROVE  lists[i] \in Seq({citations[k] : k \in Ks(i)}) /\ lists[i] \in Seq(S)
    OBVIOUS
  <2>1. lists[i] \in Seq({citations[k] : k \in Ks(i)})
    <3>1. Ks(i) \in SUBSET (DOMAIN citations)
      OBVIOUS
    <3>2. lists[i] = Picked(citations, Ks(i))
      BY <1>1
    <3> HIDE DEF Ks, lists
    <3> QED
      BY <3>1, <3>2, OccurrencesInSublist
  <2>2. {citations[k] : k \in Ks(i)} \subseteq S
    OBVIOUS
  <2> HIDE DEF Ks, lists
  <2> QED
    BY <2>1, <2>2
<1>3. lists \in Seq(Seq(S)) /\ Len(lists) = 6
  <2>1. lists \in [1..6 -> Seq(S)]
    BY <1>1, <1>2 DEF Listing
  <2> HIDE DEF lists
  <2>2. 6 \in Nat
    OBVIOUS
  <2> QED
    BY <2>1, <2>2, ListOfLength
<1>4. ASSUME NEW x \in ToSet(citations)
      PROVE  Occurrences(x, FlattenSeq(lists)) = Occurrences(x, citations)
  <2>1. PICK h \in 1..6 : GroupOf(x) = Groups[h]
    BY GroupsAreSix
  <2>2. Occurrences(x, lists[h]) = Occurrences(x, citations)
    <3>1. Ks(h) \in SUBSET (DOMAIN citations) /\ {k \in DOMAIN citations : citations[k] = x} \subseteq Ks(h)
      BY <2>1
    <3>2. lists[h] = Picked(citations, Ks(h))
      BY <1>1
    <3> HIDE DEF Ks, lists
    <3> QED
      BY <3>1, <3>2, OccurrencesInSublist
  <2>3. ASSUME NEW i \in 1..6, i # h PROVE Occurrences(x, lists[i]) = 0
    <3>1. \A k \in Ks(i) : citations[k] # x
      BY <2>1, <2>3, GroupsAreSix
    <3>2. lists[i] \in Seq({citations[k] : k \in Ks(i)}) /\ lists[i] \in Seq(S)
      BY <1>2
    <3> HIDE DEF Ks, lists
    <3>3. \A j \in DOMAIN lists[i] : lists[i][j] \in {citations[k] : k \in Ks(i)}
      BY <3>2
    <3>4. \A j \in DOMAIN lists[i] : lists[i][j] # x
      BY <3>1, <3>3
    <3> QED
      BY <3>2, <3>4, OccurrencesAreCounted
  <2>4. Len(lists) >= 1 /\ DOMAIN lists = 1..6
    BY <1>1, <1>3
  <2> HIDE DEF lists
  <2> QED
    BY <1>3, <2>2, <2>3, <2>4, Flattened
<1> QED
  BY <1>3, <1>4

(***************************************************************************)
(* Sources of an answer.  P is a set of pieces that does not look at their *)
(* texts and numbers.                                                      *)
(***************************************************************************)
AnyPieces(P) ==
    /\ P \subseteq Piece
    /\ [sources |-> 0, marked |-> FALSE, text |-> Heading] \in P
    /\ \A p \in P : \A n \in Nat : \A t \in Texts :
          [sources |-> n, marked |-> p.marked, text |-> t] \in P
LinesOf(P) == Seq(P) \ {<<>>}
CitesOf(P) == {Citation(pieces) : pieces \in LinesOf(P)}
StatesOf(P) == [cites : Seq(CitesOf(P)), open : Seq(P)]

LEMMA FirstOfNumbers ==
    ASSUME NEW S \in SUBSET Nat, S # {}
    PROVE  Min(S) \in S /\ \A s \in S : Min(S) <= s
<1>1. \E s \in S : \A t \in S : s <= t
  BY LeastMember
<1> QED
  BY <1>1 DEF Min

\* A line that is not empty has a first and a last piece.
LEMMA LastPiece ==
    ASSUME NEW S, NEW line \in Seq(S), line # <<>>
    PROVE  /\ Len(line) \in Nat /\ Len(line) >= 1 /\ DOMAIN line = 1..Len(line)
           /\ Last(line) = line[Len(line)] /\ Last(line) \in S /\ line[1] \in S
           /\ Front(line) \in Seq(S) /\ Len(Front(line)) = Len(line) - 1
           /\ \A k \in 1..(Len(line) - 1) : Front(line)[k] = line[k]
<1>1. Len(line) \in Nat /\ Len(line) >= 1 /\ DOMAIN line = 1..Len(line)
  OBVIOUS
<1>2. Front(line) = [k \in 1..(Len(line) - 1) |-> line[k]]
  BY <1>1 DEF Front
<1>3. Front(line) \in [1..(Len(line) - 1) -> S] /\ Len(line) - 1 \in Nat
  BY <1>1, <1>2
<1>4. Front(line) \in Seq(S) /\ Len(Front(line)) = Len(line) - 1
  BY <1>3, ListOfLength, Zenon
<1>5. Last(line) = line[Len(line)] /\ Last(line) \in S /\ line[1] \in S
  BY <1>1 DEF Last
<1>6. \A k \in 1..(Len(line) - 1) : Front(line)[k] = line[k]
  BY <1>2
<1> QED
  BY <1>1, <1>4, <1>5, <1>6

\* A part of a list up to its end.
LEMMA Ending ==
    ASSUME NEW S, NEW list \in Seq(S), NEW from \in 1..(Len(list) + 1)
    PROVE  /\ SubSeq(list, from, Len(list)) \in Seq(S)
           /\ Len(SubSeq(list, from, Len(list))) = Len(list) - from + 1
           /\ \A k \in 1..(Len(list) - from + 1) : SubSeq(list, from, Len(list))[k] = list[from + k - 1]
<1> DEFINE n == Len(list)
           m == n - from + 1
<1>1. n \in Nat /\ m \in Nat /\ DOMAIN list = 1..n
  OBVIOUS
<1>2. SubSeq(list, from, n) = [k \in 1..m |-> list[from + k - 1]]
  BY <1>1
<1>3. \A k \in 1..m : list[from + k - 1] \in S
  BY <1>1
<1>4. SubSeq(list, from, n) \in [1..m -> S]
  BY <1>2, <1>3
<1>5. SubSeq(list, from, n) \in Seq(S) /\ Len(SubSeq(list, from, n)) = m
  BY <1>1, <1>4, ListOfLength, Zenon
<1> QED
  BY <1>2, <1>5

\* A source starts in a line that says "Source:", and ends as the line does.
LEMMA SourceStarts ==
    ASSUME NEW P, AnyPieces(P), NEW line \in LinesOf(P)
    PROVE  /\ FromSource(line) \in Seq(P)
           /\ FromSource(line) = <<>> <=> \A k \in DOMAIN line : line[k].sources = 0
           /\ FromSource(line) # <<>> => Last(FromSource(line)).text = Last(line).text
<1> DEFINE n == Len(line)
           hits == {k \in DOMAIN line : line[k].sources > 0}
<1>1. /\ n \in Nat /\ n >= 1 /\ DOMAIN line = 1..n /\ line \in Seq(P)
      /\ Last(line) = line[n]
      /\ \A k \in 1..n : line[k] \in P /\ line[k] \in Piece
  <2>1. line \in Seq(P) /\ line # <<>>
    BY DEF LinesOf
  <2>2. n \in Nat /\ n >= 1 /\ DOMAIN line = 1..n /\ Last(line) = line[n]
    BY <2>1, LastPiece
  <2> QED
    BY <2>1, <2>2 DEF AnyPieces
<1>2. \A k \in 1..n : line[k].sources \in Nat /\ line[k].text \in Texts
  BY <1>1 DEF Piece
<1>3. CASE hits = {}
  <2>1. FromSource(line) = <<>>
    BY <1>3 DEF FromSource
  <2>2. \A k \in DOMAIN line : line[k].sources = 0
    BY <1>1, <1>2, <1>3
  <2> QED
    BY <2>1, <2>2
<1>4. CASE hits # {}
  <2> DEFINE h == Min(hits)
             rest == SubSeq(line, h + 1, n)
             first == AfterSource(line[h])
  <2>1. h \in 1..n /\ line[h].sources > 0
    <3>1. hits \in SUBSET Nat
      BY <1>1
    <3>2. h \in hits
      <4> HIDE DEF hits
      <4> QED
        BY <1>4, <3>1, FirstOfNumbers
    <3> QED
      BY <1>1, <3>2
  <2>2. FromSource(line) = <<first>> \o rest
    BY <1>4 DEF FromSource
  <2> HIDE DEF h, hits
  <2>3. first \in P /\ first.text = line[h].text
    <3>1. line[h] \in P /\ line[h].sources - 1 \in Nat /\ line[h].text \in Texts
      BY <1>1, <1>2, <2>1
    <3> QED
      BY <3>1 DEF AfterSource, AnyPieces
  <2>4. /\ rest \in Seq(P) /\ Len(rest) = n - h
        /\ \A k \in 1..(n - h) : rest[k] = line[h + k]
    <3>1. h + 1 \in 1..(n + 1) /\ n - (h + 1) + 1 = n - h /\ \A k \in 1..(n - h) : h + 1 + k - 1 = h + k
      BY <1>1, <2>1
    <3> QED
      BY <1>1, <3>1, Ending
  <2> HIDE DEF first, rest
  <2> DEFINE source == <<first>> \o rest
  <2>5. /\ source \in Seq(P) /\ Len(source) = n - h + 1
        /\ source[1] = first /\ \A k \in 1..(n - h) : source[k + 1] = line[h + k]
    <3>1. /\ source \in Seq(P) /\ Len(source) = Len(rest) + 1
          /\ source[1] = first /\ \A k \in 1..Len(rest) : source[k + 1] = rest[k]
      <4>1. first \in P /\ rest \in Seq(P)
        BY <2>3, <2>4
      <4> QED
        BY <4>1, OneMore
    <3> HIDE DEF source
    <3> QED
      BY <2>4, <3>1
  <2> HIDE DEF source
  <2>6. source # <<>> /\ Last(source) = source[n - h + 1]
    BY <1>1, <2>1, <2>5 DEF Last
  <2>7. Last(source).text = line[n].text
    <3>1. CASE h = n
      BY <1>1, <2>3, <2>5, <2>6, <3>1
    <3>2. CASE h # n
      <4>1. n - h \in 1..(n - h) /\ h + (n - h) = n
        BY <1>1, <2>1, <3>2
      <4> QED
        BY <2>5, <2>6, <4>1
    <3> QED
      BY <3>1, <3>2
  <2>8. ~ \A k \in DOMAIN line : line[k].sources = 0
    <3>1. line[h].sources # 0 /\ h \in DOMAIN line
      BY <1>1, <1>2, <2>1
    <3> QED
      BY <3>1
  <2>9. FromSource(line) = source
    BY <2>2 DEF source
  <2> QED
    BY <1>1, <2>5, <2>6, <2>7, <2>8, <2>9
<1> QED
  BY <1>3, <1>4

\* A citation has the pieces of its source.
LEMMA CitationTypes ==
    ASSUME NEW P, NEW c \in CitesOf(P)
    PROVE  c.name \in P /\ c.table \in Seq(P)
<1>1. PICK pieces \in LinesOf(P) : c = Citation(pieces)
  BY DEF CitesOf
<1>2. pieces \in Seq(P) /\ Len(pieces) \in Nat /\ Len(pieces) >= 1 /\ pieces[1] \in P
  <2>1. pieces \in Seq(P) /\ pieces # <<>>
    BY DEF LinesOf
  <2> QED
    BY <2>1, LastPiece
<1>3. c.name = pieces[1]
  BY <1>1 DEF Citation
<1>4. PICK from \in 1..(Len(pieces) + 1) : c.table = SubSeq(pieces, from, Len(pieces))
  <2> DEFINE paged == /\ HasPage(pieces)
                      /\ ~(Len(pieces) = 3 /\ Void(pieces[3]) /\ pieces[3].text = Nothing)
             from == IF paged THEN 3 ELSE 2
  <2>1. c.table = SubSeq(pieces, from, Len(pieces))
    BY <1>1 DEF Citation
  <2>2. paged => Len(pieces) > 1
    BY DEF HasPage
  <2>3. from \in 1..(Len(pieces) + 1)
    <3> HIDE DEF paged
    <3> QED
      BY <1>2, <2>2
  <2> QED
    BY <2>1, <2>3
<1>5. c.table \in Seq(P)
  BY <1>2, <1>4, Ending
<1> QED
  BY <1>2, <1>3, <1>5

\* The source that a line is read into.
SourceOf(state, line) ==
    IF state.open = <<>> THEN FromSource(line) ELSE Front(state.open) \o line

LEMMA SourceGrows ==
    ASSUME NEW P, AnyPieces(P), NEW state \in StatesOf(P), NEW line \in LinesOf(P)
    PROVE  /\ SourceOf(state, line) \in Seq(P)
           /\ SourceOf(state, line) = <<>> <=> state.open = <<>> /\ FromSource(line) = <<>>
           /\ SourceOf(state, line) # <<>> => Last(SourceOf(state, line)).text = Last(line).text
<1> DEFINE front == Front(state.open)
<1>1. line \in Seq(P) /\ line # <<>> /\ state.open \in Seq(P)
  BY DEF LinesOf, StatesOf
<1>2. CASE state.open = <<>>
  <2>1. SourceOf(state, line) = FromSource(line)
    BY <1>2 DEF SourceOf
  <2> QED
    BY <1>2, <2>1, SourceStarts, Zenon
<1>3. CASE state.open # <<>>
  <2> DEFINE both == front \o line
             n == Len(front)
             m == Len(line)
  <2>1. front \in Seq(P)
    BY <1>1, <1>3, LastPiece
  <2>2. m \in Nat /\ m >= 1 /\ Last(line) = line[m]
    BY <1>1, LastPiece
  <2> HIDE DEF front
  <2>3. /\ n \in Nat /\ both \in Seq(P) /\ Follows(both, front, line)
    BY <1>1, <2>1, Concatenation, Zenon
  <2>4. Len(both) = n + m /\ both[n + m] = line[m]
    <3>1. Len(both) = n + m /\ \A k \in 1..m : both[n + k] = line[k]
      BY <2>3, Zenon DEF Follows
    <3>2. m \in 1..m
      BY <2>2
    <3> QED
      BY <3>1, <3>2
  <2>5. SourceOf(state, line) = both
    BY <1>3 DEF SourceOf, front
  <2> HIDE DEF both
  <2>6. both # <<>> /\ Last(both) = line[m]
    BY <2>2, <2>3, <2>4 DEF Last
  <2> QED
    BY <1>3, <2>2, <2>3, <2>5, <2>6
<1> QED
  BY <1>2, <1>3

\* What reading a line does.
LEMMA Reading ==
    ASSUME NEW P, AnyPieces(P), NEW state \in StatesOf(P), NEW line \in LinesOf(P)
    PROVE  /\ Read(state, line) \in StatesOf(P)
           /\ Read(state, line).open # <<>> => Empty(Last(line))
           /\ \/ Read(state, line).cites = state.cites
              \/ \E c \in CitesOf(P) : Read(state, line).cites = Append(state.cites, c)
           /\ ~Empty(Last(line)) =>
                 IF state.open = <<>> /\ FromSource(line) = <<>>
                 THEN Read(state, line).cites = state.cites
                 ELSE \E c \in CitesOf(P) : Read(state, line).cites = Append(state.cites, c)
<1> DEFINE pieces == SourceOf(state, line)
           next == Read(state, line)
<1>1. /\ pieces \in Seq(P)
      /\ pieces = <<>> <=> state.open = <<>> /\ FromSource(line) = <<>>
      /\ pieces # <<>> => Last(pieces).text = Last(line).text
  BY SourceGrows, Zenon
<1>2. state.cites \in Seq(CitesOf(P)) /\ state.open \in Seq(P)
  BY DEF StatesOf
<1>3. next = IF pieces = <<>> THEN state
             ELSE IF GoesOn(pieces) THEN [cites |-> state.cites, open |-> pieces]
             ELSE [cites |-> Append(state.cites, Citation(pieces)), open |-> <<>>]
  BY DEF Read, SourceOf
<1> HIDE DEF pieces, next
<1>4. GoesOn(pieces) /\ pieces # <<>> => Empty(Last(line))
  BY <1>1 DEF GoesOn, Void, Empty
<1>5. CASE pieces = <<>>
  <2>1. next = state
    BY <1>3, <1>5
  <2> QED
    BY <1>1, <1>5, <2>1 DEF next
<1>6. CASE pieces # <<>> /\ GoesOn(pieces)
  <2>1. next = [cites |-> state.cites, open |-> pieces]
    BY <1>3, <1>6
  <2>2. next \in StatesOf(P)
    BY <1>1, <1>2, <2>1 DEF StatesOf
  <2>3. next.cites = state.cites /\ Empty(Last(line))
    BY <1>4, <1>6, <2>1
  <2> QED
    BY <2>2, <2>3 DEF next
<1>7. CASE pieces # <<>> /\ ~GoesOn(pieces)
  <2>1. next = [cites |-> Append(state.cites, Citation(pieces)), open |-> <<>>]
    BY <1>3, <1>7
  <2>2. Citation(pieces) \in CitesOf(P)
    BY <1>1, <1>7 DEF CitesOf, LinesOf
  <2>3. Append(state.cites, Citation(pieces)) \in Seq(CitesOf(P))
    BY <1>2, <2>2
  <2>4. next \in StatesOf(P)
    BY <2>1, <2>3 DEF StatesOf
  <2>5. next.cites = Append(state.cites, Citation(pieces)) /\ next.open = <<>>
    BY <2>1
  <2>6. ~(state.open = <<>> /\ FromSource(line) = <<>>)
    BY <1>1, <1>7
  <2> QED
    BY <2>2, <2>4, <2>5, <2>6 DEF next
<1> QED
  BY <1>5, <1>6, <1>7

(***************************************************************************)
(* The recursion of Scan: upto[i] is what has been read after i lines.     *)
(***************************************************************************)
Start == [cites |-> <<>>, open |-> <<>>]
Scanned(upto, lines) ==
    /\ upto[0] = Start
    /\ \A i \in 1..Len(lines) : upto[i] = Read(upto[i - 1], lines[i])

\* What is read first does not depend on what follows.
SameUpTo(n, lines, more) ==
    /\ n \in Nat /\ Len(lines) \in Nat /\ Len(more) \in Nat
    /\ n <= Len(lines) /\ n <= Len(more)
    /\ \A k \in 1..n : lines[k] = more[k]

ReadAlike(n, f, g) == \A i \in 0..n : f[i] = g[i]

LEMMA ScanIsOne ==
    ASSUME NEW n, NEW lines, NEW more, SameUpTo(n, lines, more),
           NEW f, NEW g, Scanned(f, lines), Scanned(g, more)
    PROVE  ReadAlike(n, f, g)
<1> SUFFICES \A i \in 0..n : f[i] = g[i]
  BY DEF ReadAlike
<1> USE DEF SameUpTo
<1> DEFINE Bad == {i \in 0..n : f[i] # g[i]}
<1> SUFFICES ASSUME Bad # {} PROVE FALSE
  OBVIOUS
<1>1. Bad \in SUBSET Nat
  OBVIOUS
<1> HIDE DEF Bad
<1>2. PICK i \in Bad : \A j \in Bad : i <= j
  BY <1>1, LeastMember
<1>3. i \in 0..n /\ f[i] # g[i]
  BY <1>2 DEF Bad
<1>4. i # 0
  BY <1>3 DEF Scanned
<1>5. i - 1 \in 0..n /\ ~(i <= i - 1) /\ i \in 1..n /\ i \in 1..Len(lines) /\ i \in 1..Len(more)
  BY <1>3, <1>4
<1>6. f[i - 1] = g[i - 1]
  BY <1>2, <1>5 DEF Bad
<1>7. f[i] = Read(f[i - 1], lines[i]) /\ g[i] = Read(g[i - 1], more[i])
  BY <1>5 DEF Scanned
<1> QED
  BY <1>3, <1>5, <1>6, <1>7

LEMMA ScanIsDefined ==
    ASSUME NEW P, AnyPieces(P), NEW lines \in Seq(LinesOf(P))
    PROVE  \E upto \in [0..Len(lines) -> StatesOf(P)] :
              Scanned(upto, lines) /\ Scan(lines) = upto[Len(lines)]
<1> DEFINE n == Len(lines)
           D == 0..n
           V == StatesOf(P)
           m == [i \in D |-> i]
           def == [p \in [D -> V] \X D |->
                     IF p[2] = 0 THEN Start ELSE Read(p[1][p[2] - 1], lines[p[2]])]
<1>1. n \in Nat /\ \A i \in 1..n : lines[i] \in LinesOf(P)
  OBVIOUS
<1>2. Start \in V
  BY DEF Start, StatesOf
<1>3. V # {} /\ m \in [D -> Nat] /\ \A i \in D : m[i] = i
  BY <1>1, <1>2
<1>4. def \in [[D -> V] \X D -> V]
  <2> SUFFICES ASSUME NEW g \in [D -> V], NEW i \in D, i # 0
               PROVE  Read(g[i - 1], lines[i]) \in V
    BY <1>2
  <2>1. i - 1 \in D /\ i \in 1..n
    BY <1>1
  <2>2. g[i - 1] \in V /\ lines[i] \in LinesOf(P)
    BY <1>1, <2>1
  <2> QED
    BY <2>2, Reading
<1>5. \A g \in [D -> V], i \in D :
         def[<<g, i>>] = IF i = 0 THEN Start ELSE Read(g[i - 1], lines[i])
  OBVIOUS
<1>6. Founded(def, m, D, V)
  <2> HIDE DEF def, V, m
  <2> SUFFICES ASSUME NEW i \in D, NEW g \in [D -> V], NEW h \in [D -> V],
                      \A y \in Below(m, i, D) : g[y] = h[y]
               PROVE  def[<<g, i>>] = def[<<h, i>>]
    BY DEF Founded
  <2>1. CASE i = 0
    BY <1>5, <2>1
  <2>2. CASE i # 0
    <3>1. i - 1 \in D /\ m[i - 1] = i - 1 /\ m[i] = i
      BY <1>1, <1>3, <2>2
    <3>2. m[i - 1] < m[i]
      BY <3>1
    <3>3. g[i - 1] = h[i - 1]
      BY <3>1, <3>2 DEF Below
    <3> QED
      BY <1>5, <3>3
  <2> QED
    BY <2>1, <2>2
<1>7. PICK g \in [D -> V] : SolvesAll(g, def, D)
  <2> HIDE DEF def, V, D, m
  <2> QED
    BY <1>3, <1>4, <1>6, RecursionIsDefined
<1>8. \A i \in D : g[i] = IF i = 0 THEN Start ELSE Read(g[i - 1], lines[i])
  BY <1>5, <1>7 DEF SolvesAll
<1> DEFINE Whole(f) == [i \in 0..n |-> IF i = 0 THEN [cites |-> <<>>, open |-> <<>>]
                                      ELSE Read(f[i - 1], lines[i])]
           upto == CHOOSE f : f = Whole(f)
<1>9. g = Whole(g)
  BY <1>8 DEF Start
<1>10. upto = Whole(upto)
  BY <1>9
<1>11. Scan(lines) = upto[n]
  BY DEF Scan
<1> HIDE DEF upto, def, m
<1>12. \A i \in D : upto[i] = IF i = 0 THEN Start ELSE Read(upto[i - 1], lines[i])
  BY <1>10 DEF Start
<1> HIDE DEF V
<1>13. \A f : (\A i \in D : f[i] = IF i = 0 THEN Start ELSE Read(f[i - 1], lines[i])) => Scanned(f, lines)
  <2> SUFFICES ASSUME NEW f, \A i \in D : f[i] = IF i = 0 THEN Start ELSE Read(f[i - 1], lines[i])
               PROVE  Scanned(f, lines)
    OBVIOUS
  <2>1. 0 \in D /\ \A i \in 1..n : i \in D /\ i # 0
    BY <1>1
  <2> QED
    BY <2>1 DEF Scanned
<1>14. Scanned(g, lines) /\ Scanned(upto, lines)
  BY <1>8, <1>12, <1>13
<1>15. \A i \in 0..n : upto[i] = g[i]
  <2>1. SameUpTo(n, lines, lines)
    BY <1>1 DEF SameUpTo
  <2> HIDE DEF n
  <2>2. ReadAlike(n, upto, g)
    BY <1>14, <2>1, ScanIsOne, Zenon
  <2> QED
    BY <2>2 DEF ReadAlike
<1>16. n \in 0..n
  BY <1>1
<1> QED
  BY <1>11, <1>14, <1>15, <1>16

LEMMA PrefixGrows ==
    ASSUME NEW S, NEW s \in Seq(S), NEW t \in Seq(S), NEW x \in S
    PROVE  /\ IsPrefix(s, s)
           /\ IsPrefix(s, t) => IsPrefix(s, Append(t, x))
           /\ Append(t, x) \in Seq(S) /\ Len(Append(t, x)) = Len(t) + 1
           /\ Front(Append(t, x)) = t
<1>1. /\ Len(s) \in Nat /\ Len(t) \in Nat
      /\ Append(t, x) \in Seq(S) /\ Len(Append(t, x)) = Len(t) + 1
      /\ \A k \in 1..Len(t) : Append(t, x)[k] = t[k]
  OBVIOUS
<1>2. IsPrefix(s, s)
  BY <1>1, PrefixMeans
<1>3. ASSUME IsPrefix(s, t) PROVE IsPrefix(s, Append(t, x))
  <2>1. Len(s) <= Len(t) /\ \A k \in 1..Len(s) : s[k] = t[k]
    BY <1>3, PrefixMeans
  <2>2. Len(s) <= Len(Append(t, x)) /\ \A k \in 1..Len(s) : s[k] = Append(t, x)[k]
    <3>1. \A k \in 1..Len(s) : k \in 1..Len(t)
      BY <1>1, <2>1
    <3> QED
      BY <1>1, <2>1, <3>1
  <2> QED
    BY <1>1, <2>2, PrefixMeans
<1>4. Front(Append(t, x)) = t
  <2> DEFINE both == Append(t, x)
  <2>1. Front(both) = [k \in 1..Len(t) |-> both[k]]
    BY <1>1 DEF Front
  <2>2. t = [k \in 1..Len(t) |-> t[k]]
    OBVIOUS
  <2> QED
    BY <1>1, <2>1, <2>2
<1> QED
  BY <1>1, <1>2, <1>3, <1>4

\* A citation that has been read stays.
LEMMA ScanGrows ==
    ASSUME NEW P, AnyPieces(P), NEW lines \in Seq(LinesOf(P)),
           NEW upto \in [0..Len(lines) -> StatesOf(P)], Scanned(upto, lines),
           NEW i \in 0..Len(lines), NEW j \in i..Len(lines)
    PROVE  /\ IsPrefix(upto[i].cites, upto[j].cites)
           /\ Len(upto[i].cites) \in Nat /\ Len(upto[j].cites) \in Nat
           /\ Len(upto[i].cites) <= Len(upto[j].cites)
<1> DEFINE n == Len(lines)
           V == Seq(CitesOf(P))
           Bad == {k \in i..n : ~IsPrefix(upto[i].cites, upto[k].cites)}
<1>1. n \in Nat /\ i \in Nat
  OBVIOUS
<1>2. \A k \in i..n : k \in 0..n /\ upto[k] \in StatesOf(P) /\ upto[k].cites \in V
  BY <1>1 DEF StatesOf
<1>3. i \in i..n
  BY <1>1
<1>4. upto[i].cites \in V
  BY <1>2, <1>3
<1>5. Bad = {}
  <2> SUFFICES ASSUME Bad # {} PROVE FALSE
    OBVIOUS
  <2>1. Bad \in SUBSET Nat
    BY <1>1
  <2> HIDE DEF Bad
  <2>2. PICK k \in Bad : \A l \in Bad : k <= l
    BY <2>1, LeastMember
  <2>3. k \in i..n /\ ~IsPrefix(upto[i].cites, upto[k].cites)
    BY <2>2 DEF Bad
  <2> HIDE DEF V
  <2>4. k # i
    <3>1. IsPrefix(upto[i].cites, upto[i].cites)
      <4>1. Len(upto[i].cites) \in Nat
        BY <1>4 DEF V
      <4> QED
        BY <1>4, <4>1, PrefixMeans DEF V
    <3> QED
      BY <2>3, <3>1
  <2>5. k - 1 \in i..n /\ ~(k <= k - 1) /\ k \in 1..n
    BY <1>1, <2>3, <2>4
  <2>6. IsPrefix(upto[i].cites, upto[k - 1].cites)
    BY <2>2, <2>5 DEF Bad
  <2>7. upto[k] = Read(upto[k - 1], lines[k])
    BY <2>5 DEF Scanned
  <2>8. upto[k - 1] \in StatesOf(P) /\ lines[k] \in LinesOf(P)
    BY <1>2, <2>5
  <2>9. \/ upto[k].cites = upto[k - 1].cites
        \/ \E c \in CitesOf(P) : upto[k].cites = Append(upto[k - 1].cites, c)
    <3> DEFINE old == upto[k - 1]
               line == lines[k]
               next == Read(old, line)
    <3>1. old \in StatesOf(P) /\ line \in LinesOf(P)
      BY <2>8
    <3> HIDE DEF old, line
    <3>2. \/ next.cites = old.cites
          \/ \E c \in CitesOf(P) : next.cites = Append(old.cites, c)
      BY <3>1, Reading, Zenon
    <3> HIDE DEF next
    <3>3. upto[k] = next
      BY <2>7 DEF next, old, line
    <3> QED
      BY <3>2, <3>3 DEF old
  <2>10. IsPrefix(upto[i].cites, upto[k].cites)
    <3>1. upto[k - 1].cites \in V
      BY <1>2, <2>5
    <3> QED
      <4> DEFINE s == upto[i].cites
                 t == upto[k - 1].cites
      <4>1. s \in Seq(CitesOf(P)) /\ t \in Seq(CitesOf(P))
        BY <1>4, <3>1 DEF V
      <4> HIDE DEF s, t
      <4>2. \A c \in CitesOf(P) : IsPrefix(s, t) => IsPrefix(s, Append(t, c))
        BY <4>1, PrefixGrows
      <4> QED
        BY <2>6, <2>9, <4>2 DEF s, t
  <2> QED
    BY <2>3, <2>10
<1>6. IsPrefix(upto[i].cites, upto[j].cites)
  BY <1>5
<1>7. upto[j].cites \in V
  BY <1>2
<1>8. Len(upto[i].cites) <= Len(upto[j].cites)
  BY <1>4, <1>6, <1>7, PrefixMeans
<1> QED
  BY <1>4, <1>6, <1>7, <1>8

\* Lines that do not break off, the first of them without a source.
ClosedLines(more) ==
    /\ more # <<>> /\ FromSource(more[1]) = <<>>
    /\ \A k \in DOMAIN more : ~Empty(Last(more[k]))
Sourceless(more) == \A k \in DOMAIN more : FromSource(more[k]) = <<>>

\* They close the source that is open, and add the ones that they have.
LEMMA ScanCloses ==
    ASSUME NEW P, AnyPieces(P), NEW lines \in Seq(LinesOf(P)), NEW more \in Seq(LinesOf(P)),
           ClosedLines(more), NEW both \in Seq(LinesOf(P)), Follows(both, lines, more),
           NEW upto \in [0..Len(both) -> StatesOf(P)], Scanned(upto, both)
    PROVE  LET n == Len(lines)
               end == Len(both)
           IN  /\ upto[end].open = <<>>
               /\ upto[n].open # <<>> => Len(upto[end].cites) > Len(upto[n].cites)
               /\ upto[n].open = <<>> => (upto[end].cites = upto[n].cites <=> Sourceless(more))
<1> DEFINE n == Len(lines)
           m == Len(more)
           end == Len(both)
<1>1. /\ n \in Nat /\ m \in Nat /\ m >= 1 /\ DOMAIN more = 1..m
      /\ \A k \in 1..m : more[k] \in LinesOf(P) /\ ~Empty(Last(more[k]))
      /\ FromSource(more[1]) = <<>>
  BY DEF ClosedLines
<1>2. end = n + m /\ \A k \in 1..m : both[n + k] = more[k]
  BY DEF Follows
<1>3. \A k \in 1..m : /\ n + k \in 1..end /\ n + k - 1 \in 0..end /\ n + k \in 0..end
                      /\ n + k \in (n + k)..end /\ n + k - 1 \in n..end
  BY <1>1, <1>2
<1>4. ASSUME NEW k \in 1..m
      PROVE  /\ upto[n + k].open = <<>>
             /\ IF upto[n + k - 1].open = <<>> /\ FromSource(more[k]) = <<>>
                THEN upto[n + k].cites = upto[n + k - 1].cites
                ELSE /\ Len(upto[n + k].cites) = Len(upto[n + k - 1].cites) + 1
                     /\ Len(upto[n + k - 1].cites) \in Nat
  <2>1. upto[n + k] = Read(upto[n + k - 1], more[k])
    <3>1. n + k \in 1..Len(both) /\ both[n + k] = more[k]
      BY <1>2, <1>3
    <3> QED
      BY <3>1 DEF Scanned
  <2>2. upto[n + k - 1] \in StatesOf(P) /\ more[k] \in LinesOf(P) /\ ~Empty(Last(more[k]))
    BY <1>1, <1>3
  <2> DEFINE old == upto[n + k - 1]
  <2> HIDE DEF old
  <2>3. /\ upto[n + k].open = <<>>
        /\ IF old.open = <<>> /\ FromSource(more[k]) = <<>>
           THEN upto[n + k].cites = old.cites
           ELSE \E c \in CitesOf(P) : upto[n + k].cites = Append(old.cites, c)
    <3> DEFINE line == more[k]
               next == Read(old, line)
    <3>1. old \in StatesOf(P) /\ line \in LinesOf(P) /\ ~Empty(Last(line))
      BY <2>2 DEF old
    <3> HIDE DEF line
    <3>2. /\ next.open = <<>>
          /\ IF old.open = <<>> /\ FromSource(line) = <<>>
             THEN next.cites = old.cites
             ELSE \E c \in CitesOf(P) : next.cites = Append(old.cites, c)
      <4>1. next.open # <<>> => Empty(Last(line))
        BY <3>1, Reading, Zenon
      <4>2. IF old.open = <<>> /\ FromSource(line) = <<>>
            THEN next.cites = old.cites
            ELSE \E c \in CitesOf(P) : next.cites = Append(old.cites, c)
        BY <3>1, Reading, Zenon
      <4> QED
        BY <3>1, <4>1, <4>2
    <3> HIDE DEF next
    <3>3. upto[n + k] = next
      BY <2>1 DEF next, line, old
    <3> QED
      BY <3>2, <3>3 DEF line
  <2>4. old.cites \in Seq(CitesOf(P))
    BY <2>2 DEF StatesOf, old
  <2>5. Len(old.cites) \in Nat /\ \A c \in CitesOf(P) : Len(Append(old.cites, c)) = Len(old.cites) + 1
    BY <2>4
  <2> QED
    BY <2>3, <2>5 DEF old
<1>5. upto[end].open = <<>>
  <2>1. m \in 1..m /\ end = n + m
    BY <1>1, <1>2
  <2> QED
    BY <1>4, <2>1
<1>6. \A k \in 1..m :
         /\ Len(upto[n].cites) \in Nat /\ Len(upto[n + k - 1].cites) \in Nat
         /\ Len(upto[n + k].cites) \in Nat /\ Len(upto[end].cites) \in Nat
         /\ Len(upto[n].cites) <= Len(upto[n + k - 1].cites)
         /\ Len(upto[n + k].cites) <= Len(upto[end].cites)
  <2> SUFFICES ASSUME NEW k \in 1..m
               PROVE  /\ Len(upto[n].cites) \in Nat /\ Len(upto[n + k - 1].cites) \in Nat
                      /\ Len(upto[n + k].cites) \in Nat /\ Len(upto[end].cites) \in Nat
                      /\ Len(upto[n].cites) <= Len(upto[n + k - 1].cites)
                      /\ Len(upto[n + k].cites) <= Len(upto[end].cites)
    OBVIOUS
  <2>1. n \in 0..end /\ n + k - 1 \in n..end /\ n + k \in 0..end /\ end \in (n + k)..end
    BY <1>1, <1>2
  <2>2. /\ Len(upto[n].cites) \in Nat /\ Len(upto[n + k - 1].cites) \in Nat
        /\ Len(upto[n].cites) <= Len(upto[n + k - 1].cites)
    BY <2>1, ScanGrows
  <2>3. /\ Len(upto[n + k].cites) \in Nat /\ Len(upto[end].cites) \in Nat
        /\ Len(upto[n + k].cites) <= Len(upto[end].cites)
    BY <2>1, ScanGrows
  <2> QED
    BY <2>2, <2>3
<1>7. ASSUME NEW k \in 1..m, ~(upto[n + k - 1].open = <<>> /\ FromSource(more[k]) = <<>>)
      PROVE  Len(upto[end].cites) > Len(upto[n].cites)
  <2> DEFINE first == Len(upto[n].cites)
             old == Len(upto[n + k - 1].cites)
             new == Len(upto[n + k].cites)
             last == Len(upto[end].cites)
  <2>1. new = old + 1
    BY <1>4, <1>7
  <2>2. first \in Nat /\ old \in Nat /\ new \in Nat /\ last \in Nat
    BY <1>6, <1>7
  <2>3. first <= old /\ new <= last
    BY <1>6, <1>7
  <2> HIDE DEF first, old, new, last
  <2>4. last > first
    BY <2>1, <2>2, <2>3
  <2> QED
    BY <2>4 DEF first, last
<1>8. ASSUME upto[n].open # <<>> PROVE Len(upto[end].cites) > Len(upto[n].cites)
  <2>1. 1 \in 1..m /\ n + 1 - 1 = n
    BY <1>1
  <2> QED
    BY <1>7, <1>8, <2>1
<1>9. ASSUME ~Sourceless(more) PROVE upto[end].cites # upto[n].cites
  <2>1. PICK k \in 1..m : FromSource(more[k]) # <<>>
    BY <1>1, <1>9 DEF Sourceless
  <2>2. Len(upto[end].cites) > Len(upto[n].cites)
    BY <1>7, <2>1
  <2>3. Len(upto[n].cites) \in Nat
    BY <1>6, <2>1
  <2> QED
    BY <2>2, <2>3
<1>10. ASSUME upto[n].open = <<>>, Sourceless(more) PROVE upto[end].cites = upto[n].cites
  <2> DEFINE Bad == {k \in 0..m : upto[n + k].cites # upto[n].cites}
  <2>1. Bad = {}
    <3> SUFFICES ASSUME Bad # {} PROVE FALSE
      OBVIOUS
    <3>1. Bad \in SUBSET Nat
      BY <1>1
    <3> HIDE DEF Bad
    <3>2. PICK k \in Bad : \A l \in Bad : k <= l
      BY <3>1, LeastMember
    <3>3. k \in 0..m /\ upto[n + k].cites # upto[n].cites
      BY <3>2 DEF Bad
    <3>4. k # 0
      <4>1. n + 0 = n
        BY <1>1
      <4> QED
        BY <3>3, <4>1
    <3>5. k \in 1..m /\ k - 1 \in 0..m /\ ~(k <= k - 1) /\ n + (k - 1) = n + k - 1
      BY <1>1, <3>3, <3>4
    <3>6. upto[n + k - 1].cites = upto[n].cites
      BY <3>2, <3>5 DEF Bad
    <3>7. upto[n + k - 1].open = <<>>
      <4>1. CASE k = 1
        <5>1. n + k - 1 = n
          BY <1>1, <4>1
        <5> QED
          BY <1>10, <5>1
      <4>2. CASE k # 1
        <5>1. k - 1 \in 1..m
          BY <1>1, <3>5, <4>2
        <5> QED
          BY <1>4, <3>5, <5>1
      <4> QED
        BY <4>1, <4>2
    <3>8. FromSource(more[k]) = <<>>
      BY <1>1, <1>10, <3>5 DEF Sourceless
    <3> QED
      BY <1>4, <3>3, <3>5, <3>6, <3>7, <3>8
  <2>2. m \in 0..m /\ n + m = end
    BY <1>1, <1>2
  <2> QED
    BY <2>1, <2>2
<1> QED
  BY <1>5, <1>8, <1>9, <1>10

\* What has been read when the answer ends, and perhaps the source that is open then.
LEMMA CitationsAreScanned ==
    ASSUME NEW P, AnyPieces(P), NEW lines \in Seq(LinesOf(P)),
           NEW upto \in [0..Len(lines) -> StatesOf(P)], Scan(lines) = upto[Len(lines)]
    PROVE  LET end == upto[Len(lines)]
           IN  /\ CitationsIn(lines) \in Seq(CitesOf(P)) /\ end.cites \in Seq(CitesOf(P))
               /\ \/ CitationsIn(lines) = end.cites
                  \/ /\ end.open # <<>>
                     /\ \E c \in CitesOf(P) : CitationsIn(lines) = Append(end.cites, c)
<1> DEFINE end == upto[Len(lines)]
<1>1. end \in StatesOf(P)
  <2>1. Len(lines) \in 0..Len(lines)
    OBVIOUS
  <2> QED
    BY <2>1
<1>2. Scan(lines) = end
  OBVIOUS
<1> HIDE DEF end
<1>3. end.cites \in Seq(CitesOf(P)) /\ end.open \in Seq(P)
  BY <1>1 DEF StatesOf
<1>4. CitationsIn(lines) = IF end.open = <<>> \/ (Len(end.open) = 1 /\ end.open[1].text = Nothing)
                           THEN end.cites ELSE Append(end.cites, Citation(end.open))
  BY <1>2 DEF CitationsIn
<1>5. CASE CitationsIn(lines) = end.cites
  BY <1>3, <1>5 DEF end
<1>6. CASE CitationsIn(lines) # end.cites
  <2>1. end.open # <<>> /\ CitationsIn(lines) = Append(end.cites, Citation(end.open))
    BY <1>4, <1>6
  <2>2. Citation(end.open) \in CitesOf(P)
    BY <1>3, <2>1 DEF CitesOf, LinesOf
  <2>3. Append(end.cites, Citation(end.open)) \in Seq(CitesOf(P))
    BY <1>3, <2>2
  <2> QED
    BY <1>3, <2>1, <2>2, <2>3 DEF end
<1> QED
  BY <1>5, <1>6

\* An answer with a source open breaks off.
LEMMA OpenBreaksOff ==
    ASSUME NEW P, AnyPieces(P), NEW lines \in Seq(LinesOf(P)),
           NEW upto \in [0..Len(lines) -> StatesOf(P)], Scanned(upto, lines),
           upto[Len(lines)].open # <<>>
    PROVE  BreaksOff(lines)
<1> DEFINE n == Len(lines)
<1>1. n \in Nat /\ n # 0
  <2>1. n \in Nat
    OBVIOUS
  <2>2. n = 0 => upto[n].open = <<>>
    BY DEF Scanned, Start
  <2> QED
    BY <2>1, <2>2
<1>2. n \in 1..n /\ n - 1 \in 0..n /\ lines # <<>> /\ Last(lines) = lines[n]
  BY <1>1 DEF Last
<1> DEFINE old == upto[n - 1]
           line == lines[n]
           next == Read(old, line)
<1>3. old \in StatesOf(P) /\ line \in LinesOf(P)
  BY <1>2
<1>4. upto[n] = next
  BY <1>2 DEF Scanned
<1>5. next.open # <<>>
  BY <1>4
<1> HIDE DEF old, line
<1>6. next.open # <<>> => Empty(Last(line))
  BY <1>3, Reading, Zenon
<1> QED
  BY <1>2, <1>5, <1>6 DEF BreaksOff, line

\* The citations of an answer are found again where lines like those of the list follow.
LEMMA CitationsRemain ==
    ASSUME NEW P, AnyPieces(P), NEW lines \in Seq(LinesOf(P)), NEW more \in Seq(LinesOf(P)),
           ClosedLines(more)
    PROVE  LET before == CitationsIn(lines)
               after == CitationsIn(lines \o more)
           IN  /\ before # <<>> => after # <<>> /\ IsPrefix(Front(before), after)
               /\ ~BreaksOff(lines) =>
                     IsPrefix(before, after) /\ (before = after <=> Sourceless(more))
<1> DEFINE both == lines \o more
           n == Len(lines)
           end == Len(both)
           V == Seq(CitesOf(P))
           before == CitationsIn(lines)
           after == CitationsIn(both)
<1>1. both \in Seq(LinesOf(P)) /\ Follows(both, lines, more) /\ n \in Nat /\ Len(more) \in Nat
  BY Concatenation, Zenon
<1> HIDE DEF both
<1>2. /\ end = n + Len(more) /\ n \in 0..end /\ end \in n..end /\ n <= end /\ n <= n /\ end \in Nat
      /\ \A k \in 1..n : lines[k] = both[k]
  BY <1>1 DEF Follows
<1>3. PICK upto \in [0..n -> StatesOf(P)] : Scanned(upto, lines) /\ Scan(lines) = upto[n]
  BY ScanIsDefined
<1>4. PICK longer \in [0..end -> StatesOf(P)] : Scanned(longer, both) /\ Scan(both) = longer[end]
  BY <1>1, ScanIsDefined
<1> DEFINE old == upto[n].cites
           new == longer[end].cites
<1>5. upto[n] = longer[n]
  <2>1. \A i \in 0..n : upto[i] = longer[i]
    <3>1. SameUpTo(n, lines, both)
      BY <1>1, <1>2 DEF SameUpTo
    <3> HIDE DEF n
    <3>2. Scanned(upto, lines) /\ Scanned(longer, both)
      BY <1>3, <1>4
    <3>3. ReadAlike(n, upto, longer)
      BY <3>1, <3>2, ScanIsOne, Zenon
    <3> QED
      BY <3>3 DEF ReadAlike
  <2>2. n \in 0..n
    BY <1>1
  <2> QED
    BY <2>1, <2>2
<1>6. /\ before \in V /\ old \in V
      /\ \/ before = old
         \/ upto[n].open # <<>> /\ \E c \in CitesOf(P) : before = Append(old, c)
  BY <1>3, CitationsAreScanned
<1>7. /\ longer[end].open = <<>>
      /\ upto[n].open # <<>> => Len(new) > Len(old)
      /\ upto[n].open = <<>> => (new = old <=> Sourceless(more))
  BY <1>1, <1>4, <1>5, ScanCloses
<1>8. after = new /\ new \in V
  BY <1>1, <1>4, <1>7, CitationsAreScanned
<1>9. IsPrefix(old, new) /\ Len(old) \in Nat /\ Len(new) \in Nat
  BY <1>1, <1>2, <1>4, <1>5, ScanGrows
<1>10. upto[n].open # <<>> => BreaksOff(lines)
  BY <1>3, OpenBreaksOff
<1> HIDE DEF old, new, before, after, V
<1>11. \A c \in CitesOf(P) : Front(Append(old, c)) = old
  BY <1>6, PrefixGrows DEF V
<1>12. ASSUME before # <<>> PROVE after # <<>> /\ IsPrefix(Front(before), after)
  <2>1. CASE before = old
    <3>1. Len(old) <= Len(new) /\ \A k \in 1..Len(old) : old[k] = new[k]
      BY <1>6, <1>8, <1>9, PrefixMeans DEF V
    <3>2. Len(old) >= 1 /\ Front(old) \in V /\ Len(Front(old)) = Len(old) - 1
      BY <1>6, <1>12, <2>1, LastPiece DEF V
    <3>3. \A k \in 1..(Len(old) - 1) : Front(old)[k] = old[k]
      BY <1>6, <1>12, <2>1, LastPiece DEF V
    <3>4. Len(Front(old)) <= Len(new) /\ \A k \in 1..Len(Front(old)) : Front(old)[k] = new[k]
      <4>1. Len(old) - 1 <= Len(new) /\ \A k \in 1..(Len(old) - 1) : k \in 1..Len(old)
        BY <1>9, <3>1
      <4>2. \A k \in 1..(Len(old) - 1) : Front(old)[k] = new[k]
        BY <3>1, <3>3, <4>1, Zenon
      <4> QED
        BY <3>2, <4>1, <4>2
    <3>5. IsPrefix(Front(old), new)
      BY <1>8, <3>2, <3>4, PrefixMeans DEF V
    <3>6. new # <<>>
      BY <1>9, <3>1, <3>2
    <3> QED
      BY <1>8, <2>1, <3>5, <3>6
  <2>2. CASE before # old
    <3>1. upto[n].open # <<>> /\ Front(before) = old
      BY <1>6, <1>11, <2>2
    <3>2. new # <<>>
      BY <1>7, <1>9, <3>1
    <3> QED
      BY <1>8, <1>9, <3>1, <3>2
  <2> QED
    BY <2>1, <2>2
<1>13. ASSUME ~BreaksOff(lines) PROVE IsPrefix(before, after) /\ (before = after <=> Sourceless(more))
  <2>1. upto[n].open = <<>> /\ before = old
    BY <1>6, <1>10, <1>13
  <2> QED
    BY <1>7, <1>8, <1>9, <2>1
<1> QED
  BY <1>12, <1>13 DEF before, after, both

(***************************************************************************)
(* The rows of the list.                                                   *)
(***************************************************************************)
\* What a list has is there where lists are joined, and nothing else.
LEMMA FlattenedMembers ==
    ASSUME NEW S, NEW lists \in Seq(Seq(S)), Len(lists) >= 1
    PROVE  /\ FlattenSeq(lists) \in Seq(S)
           /\ \A i \in DOMAIN lists : ToSet(lists[i]) \subseteq ToSet(FlattenSeq(lists))
<1> DEFINE n == Len(lists)
<1>1. n \in Nat /\ n >= 1 /\ DOMAIN lists = 1..n /\ \A i \in 1..n : lists[i] \in Seq(S)
  OBVIOUS
<1>2. PICK flat \in [DOMAIN lists -> Seq(S)] :
         Flattens(flat, lists) /\ FlattenSeq(lists) = flat[Len(lists)]
  BY FlatteningUnfolds
<1>3. FlattenSeq(lists) \in Seq(S)
  BY Flattened
<1>4. \A i \in 1..n : flat[i] = IF i = 1 THEN lists[i] ELSE flat[i - 1] \o lists[i]
  BY <1>1, <1>2 DEF Flattens
<1>5. ASSUME NEW i \in 1..n, i # 1
      PROVE  /\ i - 1 \in 1..n
             /\ ToSet(flat[i - 1]) \subseteq ToSet(flat[i])
             /\ ToSet(lists[i]) \subseteq ToSet(flat[i])
  <2> DEFINE s == flat[i - 1]
             t == lists[i]
             both == s \o t
  <2>1. i - 1 \in 1..n
    BY <1>1, <1>5
  <2>2. s \in Seq(S) /\ t \in Seq(S)
    BY <1>1, <1>2, <2>1
  <2> HIDE DEF s, t
  <2>3. /\ Len(s) \in Nat /\ Len(t) \in Nat /\ DOMAIN s = 1..Len(s) /\ DOMAIN t = 1..Len(t)
        /\ Follows(both, s, t)
    BY <2>2, Concatenation, Zenon
  <2> HIDE DEF both
  <2>4. flat[i] = both
    BY <1>4, <1>5 DEF both, s, t
  <2>5. \A k \in DOMAIN s : k \in DOMAIN both /\ both[k] = s[k]
    BY <2>3 DEF Follows
  <2>6. \A k \in DOMAIN t : Len(s) + k \in DOMAIN both /\ both[Len(s) + k] = t[k]
    BY <2>3 DEF Follows
  <2> QED
    BY <2>1, <2>4, <2>5, <2>6 DEF ToSet, s, t
<1>6. ASSUME NEW h \in 1..n PROVE ToSet(lists[h]) \subseteq ToSet(flat[n])
  <2> DEFINE Bad == {i \in h..n : ~(ToSet(lists[h]) \subseteq ToSet(flat[i]))}
  <2>1. Bad = {}
    <3> SUFFICES ASSUME Bad # {} PROVE FALSE
      OBVIOUS
    <3>1. Bad \in SUBSET Nat
      BY <1>1
    <3> HIDE DEF Bad
    <3>2. PICK i \in Bad : \A j \in Bad : i <= j
      BY <3>1, LeastMember
    <3>3. i \in h..n /\ i \in 1..n /\ ~(ToSet(lists[h]) \subseteq ToSet(flat[i]))
      BY <1>1, <3>2 DEF Bad
    <3>4. i # 1
      <4>1. i = 1 => h = 1 /\ flat[1] = lists[1]
        BY <1>1, <1>4, <3>3
      <4> QED
        BY <3>3, <4>1
    <3>5. i # h
      BY <1>5, <3>3, <3>4
    <3>6. i - 1 \in h..n /\ ~(i <= i - 1)
      BY <1>1, <3>3, <3>5
    <3>7. ToSet(lists[h]) \subseteq ToSet(flat[i - 1])
      BY <3>2, <3>6 DEF Bad
    <3> QED
      BY <1>5, <3>3, <3>4, <3>7
  <2>2. n \in h..n
    BY <1>1
  <2> QED
    BY <2>1, <2>2
<1> QED
  BY <1>1, <1>2, <1>3, <1>6

\* A row ends in text, and is a source of its own if what it has of the citation says so.
LEMMA RowIsClosed ==
    ASSUME NEW P, AnyPieces(P), NEW pieces \in LinesOf(P)
    PROVE  /\ Row(pieces) \in LinesOf(P) /\ ~Empty(Last(Row(pieces)))
           /\ FromSource(Row(pieces)) = <<>> <=> \A k \in DOMAIN pieces : pieces[k].sources = 0
<1> DEFINE n == Len(pieces)
           row == Row(pieces)
           shown == [k \in 1..n |-> IF k \in 2..(n - 1) /\ pieces[k].text = Page
                                   THEN Page ELSE RowText]
<1>1. pieces \in Seq(P) /\ n \in Nat /\ n >= 1 /\ DOMAIN pieces = 1..n
  <2>1. pieces \in Seq(P) /\ pieces # <<>>
    BY DEF LinesOf
  <2> QED
    BY <2>1, LastPiece
<1>2. row = [k \in 1..n |->
                [sources |-> pieces[k].sources, marked |-> pieces[k].marked, text |-> shown[k]]]
  BY <1>1 DEF Row
<1>3. ASSUME NEW k \in 1..n
      PROVE  [sources |-> pieces[k].sources, marked |-> pieces[k].marked, text |-> shown[k]] \in P
  <2>1. pieces[k] \in P
    BY <1>1
  <2>2. pieces[k].sources \in Nat /\ shown[k] \in Texts
    BY <2>1 DEF AnyPieces, Piece, Texts
  <2> QED
    BY <2>1, <2>2 DEF AnyPieces
<1>r. n \notin 2..(n - 1)
  BY <1>1
<1> HIDE DEF row
<1>4. row \in [1..n -> P]
  BY <1>2, <1>3
<1>5. row \in Seq(P) /\ Len(row) = n
  BY <1>1, <1>4, ListOfLength, Zenon
<1>6. row # <<>> /\ row \in LinesOf(P)
  BY <1>1, <1>5 DEF LinesOf
<1>7. Last(row).text = RowText
  <2>1. n \in 1..n
    BY <1>1
  <2> QED
    BY <1>2, <1>5, <1>r, <2>1 DEF Last
<1>8. ~Empty(Last(row))
  BY <1>7, CitationsAssumption DEF Empty
<1>9. FromSource(row) = <<>> <=> \A k \in DOMAIN row : row[k].sources = 0
  BY <1>6, SourceStarts
<1>10. DOMAIN row = 1..n /\ \A k \in 1..n : row[k].sources = pieces[k].sources
  BY <1>2
<1> QED
  BY <1>1, <1>6, <1>8, <1>9, <1>10 DEF row

\* Joining the name and the table loses no source.
LEMMA JoinedSources ==
    ASSUME NEW P, AnyPieces(P), NEW name \in P, NEW table \in Seq(P)
    PROVE  /\ RowPieces(name, table) \in LinesOf(P)
           /\ (\A k \in DOMAIN RowPieces(name, table) : RowPieces(name, table)[k].sources = 0)
                 <=> name.sources = 0 /\ \A k \in DOMAIN table : table[k].sources = 0
<1>1. CASE table = <<>>
  <2>1. RowPieces(name, table) = <<name>> /\ DOMAIN table = {}
    BY <1>1 DEF RowPieces
  <2>2. <<name>> \in LinesOf(P) /\ DOMAIN <<name>> = {1} /\ <<name>>[1] = name
    BY DEF LinesOf
  <2> QED
    BY <2>1, <2>2
<1>2. CASE table # <<>>
  <2> DEFINE first == [sources |-> name.sources + table[1].sources,
                       marked |-> name.marked \/ table[1].marked, text |-> RowText]
             rest == Tail(table)
             both == <<first>> \o rest
             n == Len(table)
  <2>1. n \in Nat /\ n >= 1 /\ DOMAIN table = 1..n /\ table[1] \in P
    BY <1>2, LastPiece
  <2>2. /\ rest \in Seq(P) /\ Len(rest) = n - 1
        /\ \A k \in 1..(n - 1) : rest[k] = table[k + 1]
    BY <1>2, <2>1
  <2>3. name.sources \in Nat /\ \A k \in 1..n : table[k].sources \in Nat
    <3>1. \A p \in P : p.sources \in Nat
      BY DEF AnyPieces, Piece
    <3> QED
      BY <2>1, <3>1
  <2>4. first \in P
    <3>1. name.marked \in BOOLEAN /\ table[1].marked \in BOOLEAN
      BY <2>1 DEF AnyPieces, Piece
    <3>2. \/ (name.marked \/ table[1].marked) = name.marked
          \/ (name.marked \/ table[1].marked) = table[1].marked
      BY <3>1
    <3>3. name.sources + table[1].sources \in Nat /\ RowText \in Texts
      BY <2>1, <2>3 DEF Texts
    <3>4. \A p \in P : [sources |-> name.sources + table[1].sources,
                        marked |-> p.marked, text |-> RowText] \in P
      BY <3>3 DEF AnyPieces
    <3> QED
      BY <2>1, <3>2, <3>4
  <2>5. first.sources = name.sources + table[1].sources
    OBVIOUS
  <2> HIDE DEF first, rest
  <2>6. /\ both \in Seq(P) /\ Len(both) = n
        /\ both[1] = first /\ \A k \in 1..(n - 1) : both[k + 1] = table[k + 1]
    <3>1. /\ both \in Seq(P) /\ Len(both) = Len(rest) + 1
          /\ both[1] = first /\ \A k \in 1..Len(rest) : both[k + 1] = rest[k]
      BY <2>2, <2>4, OneMore
    <3> HIDE DEF both, n
    <3>2. Len(rest) = n - 1
      BY <2>2
    <3>3. Len(both) = n
      BY <2>1, <3>1, <3>2
    <3>4. ASSUME NEW k \in 1..(n - 1)
          PROVE  both[k + 1] = table[k + 1]
      <4>1. both[k + 1] = rest[k]
        BY <3>1, <3>2, Zenon
      <4>2. rest[k] = table[k + 1]
        BY <2>2, Zenon
      <4> QED
        BY <4>1, <4>2, Zenon
    <3> QED
      BY <3>1, <3>3, <3>4, Zenon
  <2>7. RowPieces(name, table) = both
    BY <1>2 DEF RowPieces, first, rest
  <2> HIDE DEF both
  <2>8. both # <<>> /\ DOMAIN both = 1..n
    BY <2>1, <2>6
  <2>9. \A k \in 1..n : k # 1 => both[k] = table[k]
    <3>1. \A k \in 1..n : k # 1 => k - 1 \in 1..(n - 1) /\ (k - 1) + 1 = k
      BY <2>1
    <3> QED
      BY <2>6, <3>1
  <2>10. first.sources = 0 <=> name.sources = 0 /\ table[1].sources = 0
    BY <2>1, <2>3, <2>5
  <2>11. 1 \in 1..n
    BY <2>1
  <2>12. (\A k \in 1..n : both[k].sources = 0)
            <=> name.sources = 0 /\ \A k \in 1..n : table[k].sources = 0
    BY <2>6, <2>9, <2>10, <2>11
  <2> QED
    BY <2>1, <2>6, <2>7, <2>8, <2>12 DEF LinesOf
<1> QED
  BY <1>1, <1>2

\* The rows of a citation.
LEMMA RowsAreClosed ==
    ASSUME NEW P, AnyPieces(P), NEW c \in CitesOf(P)
    PROVE  /\ RowsOf(c) \in Seq(LinesOf(P)) /\ RowsOf(c) # <<>>
           /\ \A k \in DOMAIN RowsOf(c) : ~Empty(Last(RowsOf(c)[k]))
           /\ Sourceless(RowsOf(c)) <=> ~Nested(c)
<1> DEFINE name == <<c.name>>
           all == RowPieces(c.name, c.table)
<1>1. c.name \in P /\ c.table \in Seq(P)
  BY CitationTypes
<1>2. name \in LinesOf(P) /\ DOMAIN name = {1} /\ name[1] = c.name
  BY <1>1 DEF LinesOf
<1>3. all \in LinesOf(P)
  BY <1>1, JoinedSources
<1>4. Len(c.table) \in Nat /\ DOMAIN c.table = 1..Len(c.table)
  BY <1>1
<1>5. c.name.sources \in Nat /\ \A k \in DOMAIN c.table : c.table[k].sources \in Nat
  <2>1. \A p \in P : p.sources \in Nat
    BY DEF AnyPieces, Piece
  <2> QED
    BY <1>1, <2>1
<1>6. Nested(c) <=> c.name.sources # 0 \/ \E k \in DOMAIN c.table : c.table[k].sources # 0
  BY <1>5 DEF Nested
<1>7. (\A k \in DOMAIN all : all[k].sources = 0)
         <=> c.name.sources = 0 /\ \A k \in DOMAIN c.table : c.table[k].sources = 0
  BY <1>1, JoinedSources, SMTT(30)
<1> HIDE DEF name, all
<1>8. CASE c.type = "calculation" /\ c.table # <<>>
  <2>1. RowsOf(c) = <<Row(name), Row(c.table)>>
    BY <1>8 DEF RowsOf, name
  <2>2. c.table \in LinesOf(P)
    BY <1>1, <1>8 DEF LinesOf
  <2>3. /\ Row(name) \in LinesOf(P) /\ ~Empty(Last(Row(name)))
        /\ FromSource(Row(name)) = <<>> <=> \A k \in DOMAIN name : name[k].sources = 0
    BY <1>2, RowIsClosed
  <2>4. /\ Row(c.table) \in LinesOf(P) /\ ~Empty(Last(Row(c.table)))
        /\ FromSource(Row(c.table)) = <<>> <=> \A k \in DOMAIN c.table : c.table[k].sources = 0
    BY <2>2, RowIsClosed
  <2> DEFINE first == Row(name)
             second == Row(c.table)
             rows == <<first, second>>
  <2> HIDE DEF first, second
  <2>5. first \in LinesOf(P) /\ second \in LinesOf(P)
    BY <2>3, <2>4 DEF first, second
  <2>6. rows \in Seq(LinesOf(P)) /\ rows # <<>>
    BY <2>5
  <2>7. DOMAIN rows = {1, 2} /\ rows[1] = first /\ rows[2] = second
    OBVIOUS
  <2>8. RowsOf(c) = rows
    BY <2>1 DEF first, second
  <2> HIDE DEF rows
  <2>9. FromSource(first) = <<>> <=> c.name.sources = 0
    BY <1>2, <2>3 DEF first
  <2>10. Sourceless(rows) <=> FromSource(first) = <<>> /\ FromSource(second) = <<>>
    BY <2>7 DEF Sourceless
  <2>11. Sourceless(rows) <=> ~Nested(c)
    BY <1>6, <2>4, <2>9, <2>10 DEF second
  <2> QED
    BY <2>3, <2>4, <2>6, <2>7, <2>8, <2>11 DEF first, second
<1>9. CASE ~(c.type = "calculation" /\ c.table # <<>>)
  <2> DEFINE row == Row(all)
             rows == <<row>>
  <2>1. RowsOf(c) = rows
    BY <1>9 DEF RowsOf, all
  <2>2. /\ row \in LinesOf(P) /\ ~Empty(Last(row))
        /\ FromSource(row) = <<>> <=> \A k \in DOMAIN all : all[k].sources = 0
    BY <1>3, RowIsClosed
  <2> HIDE DEF row
  <2>3. rows \in Seq(LinesOf(P)) /\ rows # <<>> /\ DOMAIN rows = {1} /\ rows[1] = row
    BY <2>2
  <2> HIDE DEF rows
  <2>4. Sourceless(rows) <=> FromSource(row) = <<>>
    BY <2>3 DEF Sourceless
  <2>5. Sourceless(rows) <=> ~Nested(c)
    BY <1>6, <1>7, <2>2, <2>4
  <2> QED
    BY <2>1, <2>2, <2>3, <2>5
<1> QED
  BY <1>8, <1>9

\* The list: its heading, and the rows of every citation.
LEMMA SectionIsClosed ==
    ASSUME NEW P, AnyPieces(P), NEW citations \in Seq(CitesOf(P)), citations # <<>>
    PROVE  LET more == SectionLines(citations)
           IN  /\ more \in Seq(LinesOf(P)) /\ ClosedLines(more)
               /\ more[1][1].text = Heading
               /\ Sourceless(more) <=> \A k \in DOMAIN citations : ~Nested(citations[k])
<1> DEFINE n == Len(citations)
           R == {row \in LinesOf(P) : ~Empty(Last(row))}
           rows == [k \in DOMAIN citations |-> RowsOf(citations[k])]
           flat == FlattenSeq(rows)
           heading == [sources |-> 0, marked |-> FALSE, text |-> Heading]
           top == <<heading>>
           more == <<top>> \o flat
<1>1. n \in Nat /\ n >= 1 /\ DOMAIN citations = 1..n /\ \A k \in 1..n : citations[k] \in CitesOf(P)
  OBVIOUS
<1>2. ASSUME NEW k \in 1..n
      PROVE  /\ RowsOf(citations[k]) \in Seq(R)
             /\ Sourceless(RowsOf(citations[k])) <=> ~Nested(citations[k])
  <2> DEFINE c == citations[k]
             part == RowsOf(c)
  <2>1. c \in CitesOf(P)
    BY <1>1
  <2> HIDE DEF c
  <2>2. /\ part \in Seq(LinesOf(P))
        /\ \A j \in DOMAIN part : ~Empty(Last(part[j]))
        /\ Sourceless(part) <=> ~Nested(c)
    BY <2>1, RowsAreClosed
  <2> HIDE DEF part
  <2>3. part \in Seq(R)
    <3> DEFINE L == LinesOf(P)
    <3>1. part \in Seq(L) /\ Len(part) \in Nat /\ DOMAIN part = 1..Len(part)
      BY <2>2
    <3>2. \A j \in 1..Len(part) : part[j] \in R
      BY <2>2, <3>1
    <3> HIDE DEF R
    <3>3. part \in [1..Len(part) -> R]
      BY <3>1, <3>2
    <3> QED
      BY <3>1, <3>3, ListOfLength, Zenon
  <2> QED
    BY <2>2, <2>3 DEF part, c
<1>3. rows \in Seq(Seq(R)) /\ Len(rows) = n
  <2> HIDE DEF R
  <2>1. rows \in [1..n -> Seq(R)]
    BY <1>1, <1>2
  <2> HIDE DEF rows
  <2> QED
    BY <1>1, <2>1, ListOfLength, Zenon
<1>4. /\ flat \in Seq(R)
      /\ \A i \in 1..n : ToSet(RowsOf(citations[i])) \subseteq ToSet(flat)
  <2>1. DOMAIN rows = 1..n /\ \A i \in 1..n : rows[i] = RowsOf(citations[i])
    BY <1>1
  <2> HIDE DEF rows, R
  <2>2. Len(rows) >= 1
    BY <1>1, <1>3
  <2>3. flat \in Seq(R) /\ \A i \in DOMAIN rows : ToSet(rows[i]) \subseteq ToSet(flat)
    BY <1>3, <2>2, FlattenedMembers
  <2> QED
    BY <2>1, <2>3
<1>5. \A row \in ToSet(flat) : \E i \in 1..n : row \in ToSet(RowsOf(citations[i]))
  <2> DEFINE M == {row \in R : \E i \in 1..n : row \in ToSet(RowsOf(citations[i]))}
  <2>1. ASSUME NEW i \in 1..n PROVE RowsOf(citations[i]) \in Seq(M)
    <3> DEFINE part == RowsOf(citations[i])
    <3>1. part \in Seq(R)
      BY <1>2
    <3>2. \A row \in ToSet(part) : row \in R => row \in M
      OBVIOUS
    <3> HIDE DEF part, R, M
    <3>3. /\ Len(part) \in Nat /\ DOMAIN part = 1..Len(part)
          /\ \A j \in 1..Len(part) : part[j] \in R /\ part[j] \in ToSet(part)
      BY <3>1 DEF ToSet
    <3>4. part \in [1..Len(part) -> M]
      BY <3>1, <3>2, <3>3
    <3>5. part \in Seq(M)
      BY <3>3, <3>4, ListOfLength, Zenon
    <3> QED
      BY <3>5 DEF part
  <2>2. rows \in [1..n -> Seq(M)]
    BY <1>1, <2>1
  <2> HIDE DEF M, rows
  <2>3. rows \in Seq(Seq(M)) /\ Len(rows) = n
    BY <1>1, <2>2, ListOfLength, Zenon
  <2>4. Len(rows) >= 1
    BY <1>1, <2>3
  <2>5. flat \in Seq(M)
    BY <2>3, <2>4, FlattenedMembers
  <2>6. ToSet(flat) \subseteq M
    BY <2>5 DEF ToSet
  <2> QED
    BY <2>6 DEF M
<1>6. SectionLines(citations) = more
  BY DEF SectionLines
<1> HIDE DEF rows, flat
<1>7. heading \in P /\ top \in LinesOf(P) /\ Last(top) = heading /\ top[1] = heading
  <2>1. heading \in P
    BY DEF AnyPieces
  <2> HIDE DEF heading
  <2>2. top \in Seq(P) /\ top # <<>> /\ Len(top) = 1 /\ top[1] = heading
    BY <2>1
  <2> QED
    BY <2>1, <2>2 DEF LinesOf, Last
<1>8. FromSource(top) = <<>>
  <2>1. \A k \in DOMAIN top : top[k].sources = 0
    OBVIOUS
  <2> HIDE DEF top
  <2> QED
    BY <1>7, <2>1, SourceStarts
<1>9. top \in R /\ heading.text = Heading
  <2>1. heading.text = Heading
    OBVIOUS
  <2> HIDE DEF heading
  <2>2. ~Empty(Last(top))
    BY <1>7, <2>1, CitationsAssumption DEF Empty
  <2> QED
    BY <1>7, <2>1, <2>2
<1> HIDE DEF top, heading
<1>10. /\ more \in Seq(R) /\ Len(more) = Len(flat) + 1 /\ more[1] = top
       /\ \A k \in 1..Len(flat) : more[k + 1] = flat[k]
  <2> HIDE DEF R
  <2> QED
    BY <1>4, <1>9, OneMore
<1> HIDE DEF more
<1>11. Len(flat) \in Nat /\ DOMAIN flat = 1..Len(flat) /\ DOMAIN more = 1..(Len(flat) + 1) /\ more # <<>>
  <2> HIDE DEF R
  <2> QED
    BY <1>4, <1>10
<1>12. \A k \in DOMAIN more : more[k] \in R
  <2> HIDE DEF R
  <2> QED
    BY <1>10
<1>13. more \in Seq(LinesOf(P)) /\ ClosedLines(more)
  <2>1. more \in Seq(LinesOf(P))
    <3> DEFINE L == LinesOf(P)
    <3>1. R \subseteq L
      OBVIOUS
    <3> HIDE DEF R, L
    <3>2. more \in Seq(L)
      BY <1>10, <3>1
    <3> QED
      BY <3>2 DEF L
  <2> QED
    BY <1>8, <1>10, <1>11, <1>12, <2>1 DEF ClosedLines
<1>14. Sourceless(more) <=> \A k \in 1..Len(flat) : FromSource(flat[k]) = <<>>
  <2>1. ASSUME Sourceless(more), NEW k \in 1..Len(flat) PROVE FromSource(flat[k]) = <<>>
    <3>1. k + 1 \in DOMAIN more
      BY <1>11
    <3> QED
      BY <1>10, <2>1, <3>1 DEF Sourceless
  <2>2. ASSUME \A k \in 1..Len(flat) : FromSource(flat[k]) = <<>>, NEW k \in DOMAIN more
        PROVE  FromSource(more[k]) = <<>>
    <3>1. CASE k = 1
      BY <1>8, <1>10, <3>1
    <3>2. CASE k # 1
      <4>1. k - 1 \in 1..Len(flat) /\ (k - 1) + 1 = k
        BY <1>11, <3>2
      <4>2. more[k] = flat[k - 1]
        BY <1>10, <4>1
      <4> QED
        BY <2>2, <4>1, <4>2
    <3> QED
      BY <3>1, <3>2
  <2> QED
    BY <2>1, <2>2 DEF Sourceless
<1>15. (\A k \in 1..Len(flat) : FromSource(flat[k]) = <<>>)
          <=> \A i \in 1..n : Sourceless(RowsOf(citations[i]))
  <2>1. (\A k \in 1..Len(flat) : FromSource(flat[k]) = <<>>)
           <=> \A row \in ToSet(flat) : FromSource(row) = <<>>
    BY <1>11 DEF ToSet
  <2>2. \A i \in 1..n : Sourceless(RowsOf(citations[i]))
           <=> \A row \in ToSet(RowsOf(citations[i])) : FromSource(row) = <<>>
    BY DEF ToSet, Sourceless
  <2> QED
    BY <1>4, <1>5, <2>1, <2>2
<1>16. Sourceless(more) <=> \A k \in DOMAIN citations : ~Nested(citations[k])
  BY <1>1, <1>2, <1>14, <1>15
<1>17. more[1][1].text = Heading
  BY <1>7, <1>9, <1>10
<1> QED
  BY <1>6, <1>13, <1>16, <1>17

LEMMA NoMembers ==
    ASSUME NEW S, NEW list \in Seq(S)
    PROVE  list = <<>> <=> ToSet(list) = {}
<1>1. Len(list) \in Nat /\ DOMAIN list = 1..Len(list)
  OBVIOUS
<1>2. ASSUME list = <<>> PROVE ToSet(list) = {}
  BY <1>1, <1>2 DEF ToSet
<1>3. ASSUME list # <<>> PROVE ToSet(list) # {}
  <2>1. 1 \in DOMAIN list
    BY <1>1, <1>3
  <2> QED
    BY <2>1 DEF ToSet
<1> QED
  BY <1>2, <1>3

\* The list has the citations of the report, and no other.
LEMMA ListingHasTheSame ==
    ASSUME NEW S, NEW citations \in Seq(S)
    PROVE  LET flat == FlattenSeq(Listing(citations))
           IN  /\ flat \in Seq(S)
               /\ ToSet(flat) = ToSet(citations)
               /\ flat = <<>> <=> citations = <<>>
<1> DEFINE T == ToSet(citations)
           lists == Listing(citations)
           flat == FlattenSeq(lists)
<1>1. Len(citations) \in Nat /\ DOMAIN citations = 1..Len(citations)
  OBVIOUS
<1>2. citations \in Seq(T)
  <2>1. citations \in [1..Len(citations) -> T]
    BY <1>1 DEF ToSet
  <2> HIDE DEF T
  <2> QED
    BY <1>1, <2>1, ListOfLength, Zenon
<1> HIDE DEF T
<1>3. /\ lists \in Seq(Seq(T)) /\ Len(lists) = 6
      /\ \A x \in T : Occurrences(x, flat) = Occurrences(x, citations)
  BY <1>2, ListingIsComplete DEF T
<1> HIDE DEF lists
<1>4. flat \in Seq(T)
  <2>1. Len(lists) >= 1
    BY <1>3
  <2> QED
    BY <1>3, <2>1, FlattenedMembers
<1> HIDE DEF flat
<1>5. T \subseteq S
  BY DEF T, ToSet
<1>6. flat \in Seq(S)
  BY <1>4, <1>5
<1>7. ASSUME NEW x \in T PROVE x \in ToSet(flat)
  <2> DEFINE at == {i \in DOMAIN citations : citations[i] = x}
  <2>1. IsFiniteSet(at)
    BY <1>2, OccurrencesAreCounted
  <2>2. at # {}
    BY <1>7 DEF T, ToSet
  <2> HIDE DEF at
  <2>3. Cardinality(at) # 0
    BY <2>1, <2>2, FS_EmptySet
  <2>4. Occurrences(x, citations) # 0
    BY <2>3 DEF Occurrences, at
  <2>5. Occurrences(x, flat) # 0
    BY <1>3, <1>7, <2>4 DEF flat
  <2>6. ~ \A i \in DOMAIN flat : flat[i] # x
    BY <1>4, <2>5, OccurrencesAreCounted
  <2> QED
    BY <2>6 DEF ToSet
<1>8. ToSet(flat) = T
  BY <1>4, <1>7 DEF ToSet
<1>9. flat = <<>> <=> citations = <<>>
  <2>1. flat = <<>> <=> ToSet(flat) = {}
    BY <1>6, NoMembers
  <2>2. citations = <<>> <=> T = {}
    BY NoMembers DEF T
  <2> QED
    BY <1>8, <2>1, <2>2
<1> QED
  BY <1>6, <1>8, <1>9 DEF flat, lists, T

(***************************************************************************)
(* The answer, its report and its list.                                    *)
(***************************************************************************)
Unmarked(lines) == \A i \in DOMAIN lines : ~Marked(lines[i])

\* Pieces without a mark, if the answer has none.
PiecesFor(lines) == {p \in Piece : Unmarked(lines) => ~p.marked}

\* An answer has no unsourced claim when no line of it has the mark.
LEMMA UnsourcedMeans ==
    ASSUME NEW lines \in Seq(Line)
    PROVE  Unsourced(lines) \in Nat /\ (Unsourced(lines) = 0 <=> Unmarked(lines))
<1> DEFINE at == {i \in DOMAIN lines : Marked(lines[i])}
<1>1. IsFiniteSet(at)
  <2>1. Len(lines) \in Nat /\ DOMAIN lines = 1..Len(lines)
    OBVIOUS
  <2>2. IsFiniteSet(DOMAIN lines)
    BY <2>1, NumbersUpTo
  <2> QED
    BY <2>2, FS_Subset
<1>2. Unmarked(lines) <=> at = {}
  BY DEF Unmarked
<1> HIDE DEF at
<1>3. Cardinality(at) \in Nat /\ (Cardinality(at) = 0 <=> at = {})
  BY <1>1, FS_CardinalityType, FS_EmptySet
<1> QED
  BY <1>2, <1>3 DEF Unsourced, at

LEMMA LinesHavePieces ==
    ASSUME NEW lines \in Seq(Line)
    PROVE  /\ AnyPieces(PiecesFor(lines)) /\ LinesOf(PiecesFor(lines)) \subseteq Line
           /\ lines \in Seq(LinesOf(PiecesFor(lines)))
           /\ Unmarked(lines) => \A line \in LinesOf(PiecesFor(lines)) : ~Marked(line)
<1> DEFINE P == PiecesFor(lines)
           L == LinesOf(P)
           n == Len(lines)
<1>1. AnyPieces(P)
  <2>1. P \subseteq Piece /\ Heading \in Texts
    BY DEF PiecesFor, Texts
  <2>2. [sources |-> 0, marked |-> FALSE, text |-> Heading] \in P
    BY <2>1 DEF PiecesFor, Piece
  <2>3. ASSUME NEW p \in P, NEW m \in Nat, NEW t \in Texts
        PROVE  [sources |-> m, marked |-> p.marked, text |-> t] \in P
    BY DEF PiecesFor, Piece
  <2> HIDE DEF P
  <2> QED
    BY <2>1, <2>2, <2>3 DEF AnyPieces
<1>2. L \subseteq Line
  BY DEF LinesOf, Line, PiecesFor
<1>3. n \in Nat /\ DOMAIN lines = 1..n /\ \A i \in 1..n : lines[i] \in Line
  OBVIOUS
<1>4. ASSUME NEW i \in 1..n PROVE lines[i] \in L
  <2> DEFINE line == lines[i]
  <2>1. line \in Seq(Piece) /\ line # <<>>
    BY <1>3 DEF Line
  <2>2. \A k \in DOMAIN line : Unmarked(lines) => ~line[k].marked
    BY <1>3 DEF Unmarked, Marked
  <2> HIDE DEF line
  <2>3. Len(line) \in Nat /\ DOMAIN line = 1..Len(line) /\ \A k \in 1..Len(line) : line[k] \in Piece
    BY <2>1
  <2>4. \A k \in 1..Len(line) : line[k] \in P
    BY <2>2, <2>3 DEF PiecesFor
  <2> HIDE DEF P
  <2>5. line \in [1..Len(line) -> P]
    BY <2>1, <2>3, <2>4
  <2>6. line \in Seq(P)
    BY <2>3, <2>5, ListOfLength, Zenon
  <2> QED
    BY <2>1, <2>6 DEF LinesOf, line
<1>5. Unmarked(lines) => \A line \in L : ~Marked(line)
  <2> SUFFICES ASSUME Unmarked(lines), NEW line \in L PROVE ~Marked(line)
    OBVIOUS
  <2>1. \A p \in P : ~p.marked
    BY DEF PiecesFor
  <2>2. line \in Seq(P)
    BY DEF LinesOf
  <2> HIDE DEF P
  <2>3. \A k \in DOMAIN line : line[k] \in P
    BY <2>2
  <2> QED
    BY <2>1, <2>3 DEF Marked
<1> HIDE DEF P, L
<1>6. lines \in [1..n -> L]
  BY <1>3, <1>4
<1>7. lines \in Seq(L)
  BY <1>3, <1>6, ListOfLength, Zenon
<1> QED
  BY <1>1, <1>2, <1>5, <1>7 DEF P, L

LEMMA ReportIsTyped ==
    ASSUME NEW lines \in Seq(Line)
    PROVE  /\ Report(lines).citations = CitationsIn(lines)
           /\ Report(lines).unsourced = Unsourced(lines)
           /\ CitationsIn(lines) \in Seq(CitesOf(PiecesFor(lines)))
           /\ Report(lines).complete
                 <=> CitationsIn(lines) # <<>> /\ Has(lines, Heading) /\ Unsourced(lines) = 0
           /\ Report(lines).complete \in BOOLEAN
<1>1. AnyPieces(PiecesFor(lines)) /\ lines \in Seq(LinesOf(PiecesFor(lines)))
  BY LinesHavePieces
<1>2. PICK upto \in [0..Len(lines) -> StatesOf(PiecesFor(lines))] : Scan(lines) = upto[Len(lines)]
  BY <1>1, ScanIsDefined
<1>3. CitationsIn(lines) \in Seq(CitesOf(PiecesFor(lines)))
  BY <1>1, <1>2, CitationsAreScanned
<1> QED
  BY <1>3 DEF Report

\* An answer with its list: validated, it shows what the report said.
LEMMA ListedAnswer ==
    ASSUME NEW lines \in Seq(Line)
    PROVE  LET cites == CitationsIn(lines)
               more == SectionLines(FlattenSeq(Listing(cites)))
               both == lines \o more
           IN  /\ more \in Seq(Line) /\ both \in Seq(Line)
               /\ Report(both).complete <=> cites # <<>> /\ Unsourced(lines) = 0
               /\ cites # <<>> => IsPrefix(Front(cites), CitationsIn(both))
               /\ ~BreaksOff(lines) =>
                     /\ IsPrefix(cites, CitationsIn(both))
                     /\ cites = CitationsIn(both) <=> \A k \in DOMAIN cites : ~Nested(cites[k])
<1> DEFINE P == PiecesFor(lines)
           cites == CitationsIn(lines)
           flat == FlattenSeq(Listing(cites))
           more == SectionLines(flat)
           both == lines \o more
           n == Len(lines)
<1>1. /\ AnyPieces(P) /\ LinesOf(P) \subseteq Line /\ lines \in Seq(LinesOf(P))
      /\ Unmarked(lines) => \A line \in LinesOf(P) : ~Marked(line)
  BY LinesHavePieces
<1>2. cites \in Seq(CitesOf(P))
  BY ReportIsTyped
<1> HIDE DEF P, cites
<1>3. flat \in Seq(CitesOf(P)) /\ ToSet(flat) = ToSet(cites) /\ (flat = <<>> <=> cites = <<>>)
  BY <1>2, ListingHasTheSame
<1> HIDE DEF flat
<1>4. CASE cites = <<>>
  <2>1. more = <<>>
    BY <1>3, <1>4 DEF SectionLines
  <2>2. both = lines /\ more \in Seq(Line)
    BY <2>1
  <2> HIDE DEF both, more
  <2>3. ~Report(both).complete /\ IsPrefix(cites, CitationsIn(both)) /\ cites = CitationsIn(both)
    <3>1. CitationsIn(both) = cites /\ ~Report(lines).complete
      BY <1>4, <2>2, ReportIsTyped DEF cites
    <3>2. <<>> \in Seq(CitesOf(P)) /\ Len(<<>>) = 0
      OBVIOUS
    <3>3. Len(<<>>) <= Len(<<>>) /\ \A k \in 1..Len(<<>>) : <<>>[k] = <<>>[k]
      BY <3>2
    <3>4. IsPrefix(<<>>, <<>>)
      BY <3>2, <3>3, PrefixMeans
    <3> QED
      BY <1>4, <2>2, <3>1, <3>4
  <2>4. \A k \in DOMAIN cites : ~Nested(cites[k])
    BY <1>4
  <2> QED
    BY <1>4, <2>2, <2>3, <2>4 DEF both, more, flat, cites
<1>5. CASE cites # <<>>
  <2>1. /\ more \in Seq(LinesOf(P)) /\ ClosedLines(more) /\ more[1][1].text = Heading
        /\ Sourceless(more) <=> \A k \in DOMAIN flat : ~Nested(flat[k])
    BY <1>1, <1>3, <1>5, SectionIsClosed
  <2> HIDE DEF more
  <2>2. (\A k \in DOMAIN flat : ~Nested(flat[k])) <=> \A k \in DOMAIN cites : ~Nested(cites[k])
    <3>1. (\A k \in DOMAIN flat : ~Nested(flat[k])) <=> \A c \in ToSet(flat) : ~Nested(c)
      BY DEF ToSet
    <3>2. (\A k \in DOMAIN cites : ~Nested(cites[k])) <=> \A c \in ToSet(cites) : ~Nested(c)
      BY DEF ToSet
    <3> QED
      BY <1>3, <3>1, <3>2
  <2>3. /\ cites # <<>> => CitationsIn(both) # <<>> /\ IsPrefix(Front(cites), CitationsIn(both))
        /\ ~BreaksOff(lines) => /\ IsPrefix(cites, CitationsIn(both))
                                /\ cites = CitationsIn(both) <=> Sourceless(more)
    BY <1>1, <2>1, CitationsRemain DEF cites
  <2>4. more \in Seq(Line)
    <3> DEFINE L == LinesOf(P)
    <3> HIDE DEF L
    <3>1. more \in Seq(L) /\ L \subseteq Line
      BY <1>1, <2>1 DEF L
    <3> QED
      BY <3>1
  <2>5. /\ n \in Nat /\ Len(more) \in Nat /\ DOMAIN lines = 1..n /\ DOMAIN more = 1..Len(more)
        /\ both \in Seq(Line) /\ Follows(both, lines, more)
    BY <2>4, Concatenation, Zenon
  <2> HIDE DEF both
  <2>6. /\ DOMAIN both = 1..(n + Len(more))
        /\ \A k \in 1..n : both[k] = lines[k]
        /\ \A k \in 1..Len(more) : both[n + k] = more[k]
    BY <2>5 DEF Follows
  <2>7. more # <<>> /\ 1 \in 1..Len(more) /\ more[1] \in Line
    BY <2>1, <2>4 DEF ClosedLines
  <2>8. Has(both, Heading)
    <3>1. n + 1 \in DOMAIN both /\ both[n + 1] = more[1]
      BY <2>5, <2>6, <2>7
    <3>2. 1 \in DOMAIN more[1]
      BY <2>7 DEF Line
    <3> QED
      BY <2>1, <3>1, <3>2 DEF Has
  <2>9. Unmarked(both) <=> Unmarked(lines)
    <3>1. ASSUME Unmarked(both), NEW i \in DOMAIN lines PROVE ~Marked(lines[i])
      <4>1. i \in DOMAIN both /\ both[i] = lines[i]
        BY <2>5, <2>6
      <4> QED
        BY <3>1, <4>1 DEF Unmarked
    <3>2. ASSUME Unmarked(lines), NEW i \in DOMAIN both PROVE ~Marked(both[i])
      <4>1. CASE i \in 1..n
        BY <2>5, <2>6, <3>2, <4>1 DEF Unmarked
      <4>2. CASE i \notin 1..n
        <5>1. i - n \in 1..Len(more) /\ n + (i - n) = i
          BY <2>5, <2>6, <4>2
        <5>2. both[i] = more[i - n] /\ more[i - n] \in LinesOf(P)
          BY <2>1, <2>6, <5>1
        <5> QED
          BY <1>1, <3>2, <5>2
      <4> QED
        BY <4>1, <4>2
    <3> QED
      BY <3>1, <3>2 DEF Unmarked
  <2>10. Unsourced(both) = 0 <=> Unsourced(lines) = 0
    BY <2>5, <2>9, UnsourcedMeans
  <2>11. Report(both).complete <=> Unsourced(lines) = 0
    BY <1>5, <2>3, <2>5, <2>8, <2>10, ReportIsTyped
  <2> QED
    BY <1>5, <2>1, <2>2, <2>3, <2>4, <2>5, <2>11 DEF both, more, flat, cites
<1> QED
  BY <1>4, <1>5

\* lines are what the report in hand was made of.
ReportedOn(lines) ==
    /\ report = Report(lines)
    /\ stage = "validated" => answer = lines
    /\ stage = "listed" =>
          /\ section = Listing(report.citations)
          /\ answer = lines \o SectionLines(FlattenSeq(section))

CitationInv ==
    /\ answer \in Seq(Line)
    /\ stage \in {"writing", "validated", "listed", "done"}
    /\ \E lines \in Seq(Line) : ReportedOn(lines)

LEMMA CitationInvHolds == CitationSpec => []CitationInv
<1>1. CitationInit => CitationInv
  <2> SUFFICES ASSUME CitationInit PROVE CitationInv
    OBVIOUS
  <2>1. <<>> \in Seq(Line)
    OBVIOUS
  <2>2. ReportedOn(<<>>)
    BY DEF CitationInit, ReportedOn
  <2> QED
    BY <2>1, <2>2 DEF CitationInit, CitationInv
<1>2. CitationInv /\ [CitationNext]_citationVars => CitationInv'
  <2> SUFFICES ASSUME CitationInv, [CitationNext]_citationVars PROVE CitationInv'
    OBVIOUS
  <2>1. PICK lines \in Seq(Line) : ReportedOn(lines)
    BY DEF CitationInv
  <2>2. ASSUME NEW line \in Lines, Write(line) PROVE CitationInv'
    <3>1. line \in Line
      BY CitationsAssumption
    <3>2. answer' \in Seq(Line)
      BY <2>2, <3>1 DEF CitationInv, Write
    <3>3. ReportedOn(lines)'
      BY <2>1, <2>2 DEF ReportedOn, Write
    <3> QED
      BY <2>2, <3>2, <3>3 DEF CitationInv, Write
  <2>3. CASE ValidateAnswer
    <3>1. answer \in Seq(Line) /\ answer' = answer
      BY <2>3 DEF CitationInv, ValidateAnswer
    <3>2. stage' \in {"validated", "done"} /\ report' = Report(answer)
      BY <2>3 DEF ValidateAnswer
    <3>3. \E more \in Seq(Line) : ReportedOn(more)'
      <4>1. report' = Report(answer) /\ (stage' = "validated" => answer' = answer) /\ stage' # "listed"
        BY <3>1, <3>2
      <4> QED
        BY <3>1, <4>1 DEF ReportedOn
    <3> QED
      BY <3>1, <3>2, <3>3 DEF CitationInv
  <2>4. CASE BuildSection
    <3> DEFINE more == SectionLines(FlattenSeq(Listing(CitationsIn(lines))))
    <3>1. /\ answer = lines /\ report = Report(lines) /\ report' = report /\ stage' = "listed"
          /\ section' = Listing(report.citations)
          /\ answer' = answer \o SectionLines(FlattenSeq(section'))
      BY <2>1, <2>4 DEF BuildSection, ReportedOn
    <3>2. report.citations = CitationsIn(lines)
      BY <3>1, ReportIsTyped
    <3>3. answer' = lines \o more
      BY <3>1, <3>2
    <3>4. lines \o more \in Seq(Line)
      BY ListedAnswer
    <3>5. ReportedOn(lines)'
      BY <3>1 DEF ReportedOn
    <3> QED
      BY <3>1, <3>3, <3>4, <3>5 DEF CitationInv
  <2>5. CASE UNCHANGED citationVars
    <3>1. ReportedOn(lines)'
      BY <2>1, <2>5 DEF ReportedOn, citationVars
    <3> QED
      BY <2>5, <3>1 DEF CitationInv, citationVars
  <2> QED
    BY <2>2, <2>3, <2>4, <2>5 DEF CitationNext
<1> QED
  BY <1>1, <1>2, PTL DEF CitationSpec

\* The answer stays a list of lines, and the report one of citations made of their pieces.
THEOREM CitationTypeCorrect == CitationSpec => []CitationTypeOK
<1>1. CitationInv => CitationTypeOK
  <2> SUFFICES ASSUME CitationInv PROVE CitationTypeOK
    OBVIOUS
  <2>1. PICK lines \in Seq(Line) : ReportedOn(lines)
    BY DEF CitationInv
  <2> DEFINE P == PiecesFor(lines)
             cites == CitationsIn(lines)
  <2>2. /\ report.citations = cites /\ report.unsourced = Unsourced(lines)
        /\ report.complete \in BOOLEAN /\ cites \in Seq(CitesOf(P))
    BY <2>1, ReportIsTyped DEF ReportedOn
  <2>3. Unsourced(lines) \in Nat
    BY UnsourcedMeans
  <2>4. P \subseteq Piece
    BY DEF PiecesFor
  <2> HIDE DEF P, cites
  <2>5. ASSUME NEW i \in DOMAIN cites PROVE cites[i].name \in Piece /\ cites[i].table \in Seq(Piece)
    <3>1. cites[i] \in CitesOf(P)
      BY <2>2
    <3>2. cites[i].name \in P /\ cites[i].table \in Seq(P)
      BY <3>1, CitationTypes
    <3> QED
      BY <2>4, <3>2
  <2> QED
    BY <2>2, <2>3, <2>5 DEF CitationInv, CitationTypeOK
<1> QED
  BY <1>1, CitationInvHolds, PTL

\* Without its list, an answer is what it was.
LEMMA WrittenIsKept ==
    ASSUME NEW S, NEW lines \in Seq(S), NEW more \in Seq(S)
    PROVE  SubSeq(lines \o more, 1, Len(lines \o more) - Len(more)) = lines
<1> DEFINE both == lines \o more
           n == Len(lines)
<1>1. /\ n \in Nat /\ Len(more) \in Nat /\ both \in Seq(S) /\ Follows(both, lines, more)
  BY Concatenation, Zenon
<1> HIDE DEF both
<1>2. /\ Len(both) = n + Len(more) /\ DOMAIN both = 1..Len(both)
      /\ \A k \in 1..n : both[k] = lines[k]
  BY <1>1 DEF Follows
<1>3. Len(both) - Len(more) = n /\ n <= Len(both)
  BY <1>1, <1>2
<1>4. SubSeq(both, 1, n) = [k \in 1..n |-> both[k]]
  BY <1>1, <1>3
<1>5. lines = [k \in 1..n |-> lines[k]]
  OBVIOUS
<1> QED
  BY <1>2, <1>3, <1>4, <1>5 DEF both

\* Validated with its list, an answer with a citation is complete unless a claim is marked;
\* the list has every citation as often as the report had it.  The citations are found again,
\* before any other, but for the last one of an answer that breaks off in its source; the
\* list adds some exactly if the text of a citation says "Source:".
THEOREM ReportIsSettled == CitationSpec => ListSettlesReport
<1> DEFINE before == report.citations
           after == report'.citations
           Settles ==
              /\ \A x \in ToSet(before) : Occurrences(x, FlattenSeq(section)) = Occurrences(x, before)
              /\ report'.complete <=> before # <<>> /\ report.unsourced = 0
              /\ before # <<>> => IsPrefix(Front(before), after)
              /\ ~BreaksOff(Written) =>
                    /\ IsPrefix(before, after)
                    /\ before = after <=> \A k \in DOMAIN before : ~Nested(before[k])
<1>1. CitationInv /\ [CitationNext]_citationVars =>
        [stage = "listed" /\ stage' = "done" => Settles]_citationVars
  <2> SUFFICES ASSUME CitationInv, [CitationNext]_citationVars,
                      stage = "listed", stage' = "done"
               PROVE  Settles
    BY Zenon
  <2>1. PICK lines \in Seq(Line) : ReportedOn(lines)
    BY DEF CitationInv
  <2>2. report' = Report(answer)
    BY DEF CitationNext, Write, ValidateAnswer, BuildSection, citationVars
  <2> DEFINE cites == CitationsIn(lines)
             more == SectionLines(FlattenSeq(Listing(cites)))
             both == lines \o more
  <2>3. before = cites /\ report.unsourced = Unsourced(lines) /\ cites \in Seq(CitesOf(PiecesFor(lines)))
    BY <2>1, ReportIsTyped DEF ReportedOn
  <2>4. section = Listing(cites) /\ answer = both /\ SectionLines(FlattenSeq(section)) = more
    BY <2>1, <2>3 DEF ReportedOn
  <2>5. /\ more \in Seq(Line) /\ both \in Seq(Line)
        /\ Report(both).complete <=> cites # <<>> /\ Unsourced(lines) = 0
        /\ cites # <<>> => IsPrefix(Front(cites), CitationsIn(both))
        /\ ~BreaksOff(lines) =>
              /\ IsPrefix(cites, CitationsIn(both))
              /\ cites = CitationsIn(both) <=> \A k \in DOMAIN cites : ~Nested(cites[k])
    BY ListedAnswer
  <2> HIDE DEF more
  <2>6. Written = lines
    BY <2>4, <2>5, WrittenIsKept DEF Written
  <2> HIDE DEF cites, both
  <2>7. after = CitationsIn(both) /\ report'.complete = Report(both).complete
    BY <2>2, <2>4, <2>5, ReportIsTyped
  <2>8. \A x \in ToSet(before) : Occurrences(x, FlattenSeq(section)) = Occurrences(x, before)
    BY <2>3, <2>4, ListingIsComplete
  <2> HIDE DEF before, after
  <2> QED
    BY <2>3, <2>5, <2>6, <2>7, <2>8
<1> QED
  BY <1>1, CitationInvHolds, PTL DEF CitationSpec, ListSettlesReport

(***************************************************************************)
(* The parts side by side.                                                 *)
(***************************************************************************)

\* Each part runs as it does alone, so whatever is proved of it holds.
LEMMA PartsRunAlone ==
    LibrarySpec =>
        GraphSpec /\ VerifierSpec /\ CitationSpec /\ RetrievalSpec /\ PdfSpec
<1>1. LibraryInit => GraphInit /\ VerifierInit /\ CitationInit /\ RetrievalInit /\ PdfInit
  BY DEF LibraryInit, GraphIdle, RetrievalIdle, PdfIdle
<1>2. [LibraryNext]_libraryVars => [GraphNext]_graphVars
  BY DEF LibraryNext, libraryVars
<1>3. [LibraryNext]_libraryVars => [VerifierNext]_verifierVars
  BY DEF LibraryNext, libraryVars
<1>4. [LibraryNext]_libraryVars => [CitationNext]_citationVars
  BY DEF LibraryNext, libraryVars
<1>5. [LibraryNext]_libraryVars => [RetrievalNext]_retrievalVars
  BY DEF LibraryNext, libraryVars
<1>6. [LibraryNext]_libraryVars => [PdfNext]_pdfVars
  BY DEF LibraryNext, libraryVars
<1> QED
  BY <1>1, <1>2, <1>3, <1>4, <1>5, <1>6, PTL
     DEF LibrarySpec, GraphSpec, VerifierSpec, CitationSpec, RetrievalSpec, PdfSpec

\* Types of all parts, whichever is in use.
THEOREM LibraryTypeCorrect == LibrarySpec => []LibraryTypeOK
<1>1. LibrarySpec => []GraphTypeOK /\ []VerifierTypeOK /\ []CitationTypeOK
                     /\ []RetrievalTypeOK /\ []PdfTypeOK
  BY PartsRunAlone, GraphTypeCorrect, VerifierTypeCorrect, CitationTypeCorrect,
     RetrievalTypeCorrect, PdfTypeCorrect
<1>2. GraphTypeOK /\ VerifierTypeOK /\ CitationTypeOK /\ RetrievalTypeOK /\ PdfTypeOK
         => LibraryTypeOK
  BY DEF LibraryTypeOK
<1> QED
  BY <1>1, <1>2, PTL
=============================================================================
