------------------------ MODULE SnapshotIngestProofs ------------------------
(***************************************************************************)
(* Proofs about SnapshotIngest, for any source, any number of threads,     *)
(* workers, retries, lost workers and second deliveries.                   *)
(***************************************************************************)
EXTENDS SnapshotIngest, FiniteSetTheorems, FunctionTheorems, SequenceTheorems, TLAPS

(***************************************************************************)
(* Finite sets.                                                            *)
(***************************************************************************)

\* The nodes a call makes are as many as the files it read.
LEMMA SectionsAreFinite ==
    ASSUME NEW f, f.files \in SUBSET Paths
    PROVE  IsFiniteSet(Sections(f)) /\ Cardinality(Sections(f)) = Cardinality(f.files)
<1> DEFINE g == [p \in f.files |-> [snapshot |-> f.snapshot, file |-> p, call |-> f.call]]
<1>1. IsFiniteSet(f.files)
  BY SourceAssumption, FS_Subset
<1>2. g \in Bijection(f.files, Sections(f))
  <2>1. g \in [f.files -> Sections(f)]
    BY DEF Sections
  <2>2. \A n \in Sections(f) : \E p \in f.files : g[p] = n
    BY DEF Sections
  <2>3. \A p, q \in f.files : g[p] = g[q] => p = q
    <3> SUFFICES ASSUME NEW p \in f.files, NEW q \in f.files, g[p] = g[q]
                 PROVE  p = q
      OBVIOUS
    <3>1. g[p].file = p /\ g[q].file = q
      OBVIOUS
    <3> QED
      BY <3>1
  <2> HIDE DEF g
  <2> QED
    BY <2>1, <2>2, <2>3, Fun_IsBij
<1>3. ExistsBijection(f.files, Sections(f))
  BY <1>2 DEF ExistsBijection
<1> QED
  BY <1>1, <1>3, FS_Bijection

\* A call number that is not taken is a number.
LEMMA CallNumbers ==
    ASSUME IsFiniteSet(nodes), NEW s
    PROVE  NewCall(s) \in Nat /\ IsFiniteSet(NodesOf(s)) /\ Cardinality(NodesOf(s)) \in Nat
<1> DEFINE N == NodesOf(s)
           C == {n.call : n \in N}
           g == [n \in N |-> n.call]
<1>1. IsFiniteSet(N) /\ Cardinality(N) \in Nat
  BY FS_Subset, FS_CardinalityType DEF NodesOf
<1>2. g \in Surjection(N, C)
  <2>1. g \in [N -> C] /\ \A k \in C : \E n \in N : g[n] = k
    OBVIOUS
  <2> HIDE DEF g, C, N
  <2> QED
    BY <2>1, Fun_IsSurj
<1>3. IsFiniteSet(C)
  <2> HIDE DEF g, C, N
  <2> QED
    BY <1>1, <1>2, FS_Surjection
<1>4. Cardinality(C \ {0}) \in Nat
  <2> HIDE DEF C
  <2> QED
    BY <1>3, FS_Difference, FS_CardinalityType
<1> QED
  BY <1>1, <1>4 DEF NewCall

(***************************************************************************)
(* Type correctness.                                                       *)
(***************************************************************************)
LEMMA Frames ==
    /\ Idle \in Frame
    /\ \A s \in Snapshots, step \in Steps, k \in 0..MaxRetries : On(s, step, k) \in Frame
<1>1. \A s \in Snapshots, step \in Steps, k \in 0..MaxRetries : On(s, step, k) \in Frame
  BY DEF On, Frame
<1>2. 1 \in Snapshots /\ 0 \in 0..MaxRetries /\ "idle" \in Steps
  BY BoundsAssumption DEF Snapshots, Steps
<1> QED
  BY <1>1, <1>2 DEF Idle

\* A step of a runner replaces its frame by a well typed one.
LEMMA FrameWrites ==
    ASSUME TypeOK, NEW r \in Runners, NEW p \in Frame, frame' = [frame EXCEPT ![r] = p]
    PROVE  /\ frame' \in [Runners -> Frame]
           /\ frame'[r] = p
           /\ \A q \in Runners : q # r => frame'[q] = frame[q]
BY DEF TypeOK

LEMMA GotoWrites ==
    ASSUME TypeOK, NEW r \in Runners, NEW step \in Steps, Goto(r, step)
    PROVE  \E p \in Frame :
               /\ p = [frame[r] EXCEPT !.pc = step]
               /\ p.pc = step
               /\ p.snapshot = frame[r].snapshot
               /\ p.call = frame[r].call
               /\ p.files = frame[r].files
               /\ p.count = frame[r].count
               /\ frame' = [frame EXCEPT ![r] = p]
<1>1. frame[r] \in Frame
  BY DEF TypeOK
<1>2. [frame[r] EXCEPT !.pc = step] \in Frame
  BY <1>1 DEF Frame
<1>3. frame' = [frame EXCEPT ![r] = [frame[r] EXCEPT !.pc = step]]
  BY DEF Goto
<1> QED
  BY <1>1, <1>2, <1>3 DEF Frame

\* A step of continue_ingest keeps the types and the tables finite.
LEMMA ContinueKeepsTypes ==
    ASSUME TypeOK, IsFiniteSet(nodes), NEW r \in Runners, ContinueStep(r)
    PROVE  TypeOK' /\ IsFiniteSet(nodes')
<1>0. frame[r] \in Frame /\ frame \in [Runners -> Frame]
  BY DEF TypeOK
<1>1. CASE AlreadyCompleted(r)
  <2>1. frame' \in [Runners -> Frame]
    BY <1>1, GotoWrites, FrameWrites DEF AlreadyCompleted, Steps
  <2>2. UNCHANGED <<tables, outsideTables>>
    BY <1>1 DEF AlreadyCompleted
  <2> QED
    BY <2>1, <2>2 DEF TypeOK, tables, outsideTables, counters
<1>2. CASE Continue(r)
  <2>1. frame' \in [Runners -> Frame]
    BY <1>2, GotoWrites, FrameWrites DEF Continue, Steps
  <2>2. UNCHANGED <<tables, broker, counters, completions>>
    BY <1>2 DEF Continue
  <2>3. repeated' \subseteq Snapshots
    BY <1>0, <1>2 DEF Continue, TypeOK, Frame
  <2> QED
    BY <2>1, <2>2, <2>3 DEF TypeOK, tables, counters
<1>3. CASE Gather(r)
  <2>1. PICK S \in Trees : frame' = [frame EXCEPT ![r] =
                               [frame[r] EXCEPT !.pc = "nodes", !.files = S]]
    BY <1>3 DEF Gather
  <2>2. [frame[r] EXCEPT !.pc = "nodes", !.files = S] \in Frame
    BY <1>0, SourceAssumption DEF Frame, Steps
  <2>3. frame' \in [Runners -> Frame]
    BY <2>1, <2>2, FrameWrites
  <2>4. UNCHANGED <<tables, outsideTables>>
    BY <1>3 DEF Gather
  <2> QED
    BY <2>3, <2>4 DEF TypeOK, tables, outsideTables, counters
<1>4. CASE StoreNodes(r)
  <2>. DEFINE f == [frame[r] EXCEPT !.call = NewCall(frame[r].snapshot)]
  <2>1. f \in Frame
    BY <1>0, CallNumbers DEF Frame
  <2>2. /\ nodes' = nodes \cup Sections(f) \cup {RootNode(f.snapshot)}
        /\ frame' = [frame EXCEPT ![r] = [f EXCEPT !.pc = "edges"]]
        /\ UNCHANGED <<status, edges, events, outsideTables>>
    BY <1>4 DEF StoreNodes
  <2>3. [f EXCEPT !.pc = "edges"] \in Frame
    BY <2>1 DEF Frame, Steps
  <2> HIDE DEF f
  <2>4. frame' \in [Runners -> Frame]
    BY <2>2, <2>3, FrameWrites
  <2>5. Sections(f) \subseteq Node /\ RootNode(f.snapshot) \in Node
    BY <2>1 DEF Sections, Frame, Node, RootNode
  <2>6. IsFiniteSet(Sections(f))
    BY <2>1, SectionsAreFinite DEF Frame
  <2>7. IsFiniteSet(nodes \cup Sections(f))
    BY <2>6, FS_Union
  <2>8. IsFiniteSet(nodes')
    BY <2>2, <2>7, FS_AddElement
  <2> QED
    BY <2>2, <2>4, <2>5, <2>8 DEF TypeOK, outsideTables, counters
<1>5. CASE StoreEdges(r)
  <2>1. frame' \in [Runners -> Frame]
    BY <1>5, GotoWrites, FrameWrites DEF StoreEdges, Steps
  <2>2. Sections(frame[r]) \subseteq Node
    BY <1>0 DEF Sections, Frame, Node
  <2>3. edges' \subseteq Node
    BY <1>5, <2>2 DEF StoreEdges, TypeOK
  <2>4. UNCHANGED <<status, nodes, events, outsideTables>>
    BY <1>5 DEF StoreEdges
  <2> QED
    BY <2>1, <2>3, <2>4 DEF TypeOK, outsideTables, counters
<1>6. CASE Complete(r)
  <2>1. On(frame[r].snapshot, "count", frame[r].retries) \in Frame
    BY <1>0, Frames DEF Frame, Steps
  <2>2. frame' \in [Runners -> Frame]
    BY <1>6, <2>1, FrameWrites DEF Complete
  <2>3. /\ status' = [status EXCEPT ![frame[r].snapshot] = "completed"]
        /\ completions' = completions \cup {[snapshot |-> frame[r].snapshot,
               call |-> frame[r].call, files |-> frame[r].files]}
        /\ UNCHANGED <<nodes, edges, events, broker, counters, repeated>>
    BY <1>6 DEF Complete
  <2>4. completions' \subseteq Completion
    BY <1>0, <2>3 DEF TypeOK, Completion, Frame
  <2>5. status' \in Seq({"pending", "completed"}) /\ Len(status') = Len(status)
    <3>0. status \in Seq({"pending", "completed"})
      BY DEF TypeOK
    <3>1. CASE frame[r].snapshot \in 1..Len(status)
      BY <2>3, <3>0, <3>1, ExceptSeq
    <3>2. CASE frame[r].snapshot \notin 1..Len(status)
      <4>1. status \in [1..Len(status) -> {"pending", "completed"}]
        BY <3>0, LenProperties
      <4>2. [status EXCEPT ![frame[r].snapshot] = "completed"] = status
        BY <3>2, <4>1
      <4> QED
        BY <2>3, <3>0, <4>2
    <3> QED
      BY <3>1, <3>2
  <2> QED
    BY <2>2, <2>3, <2>4, <2>5 DEF TypeOK, counters
<1>7. CASE CountNodes(r)
  <2>1. Cardinality(NodesOf(frame[r].snapshot)) \in Nat
    BY CallNumbers
  <2>2. [frame[r] EXCEPT !.pc = "audit", !.count = Cardinality(NodesOf(frame[r].snapshot))]
            \in Frame
    BY <1>0, <2>1 DEF Frame, Steps
  <2>3. frame' \in [Runners -> Frame]
    BY <1>7, <2>2, FrameWrites DEF CountNodes
  <2>4. UNCHANGED <<tables, outsideTables>>
    BY <1>7 DEF CountNodes
  <2> QED
    BY <2>3, <2>4 DEF TypeOK, tables, outsideTables, counters
<1>8. CASE RecordIngested(r)
  <2>1. [frame[r] EXCEPT !.pc = "ack"] \in Frame
    BY <1>0 DEF Frame, Steps
  <2>2. PICK p \in Frame : frame' = [frame EXCEPT ![r] = p]
    BY <1>8, <2>1, Frames DEF RecordIngested
  <2>3. frame' \in [Runners -> Frame]
    BY <2>2, FrameWrites
  <2>4. /\ events' = events \cup {[snapshot |-> frame[r].snapshot, count |-> frame[r].count]}
        /\ UNCHANGED <<status, nodes, edges, outsideTables>>
    BY <1>8 DEF RecordIngested
  <2>5. events' \subseteq Event
    BY <1>0, <2>4 DEF TypeOK, Event, Frame
  <2> QED
    BY <2>3, <2>4, <2>5 DEF TypeOK, outsideTables, counters
<1> QED
  BY <1>1, <1>2, <1>3, <1>4, <1>5, <1>6, <1>7, <1>8 DEF ContinueStep

\* Sending a message or getting one back keeps the broker a count of messages.
LEMMA BrokerWrites ==
    ASSUME TypeOK, NEW m \in Message,
           \/ broker' = [broker EXCEPT ![m] = broker[m] + 1]
           \/ broker[m] > 0 /\ broker' = [broker EXCEPT ![m] = broker[m] - 1]
    PROVE  broker' \in [Message -> Nat]
<1>1. broker \in [Message -> Nat] /\ broker[m] \in Nat
  BY DEF TypeOK
<1> QED
  BY <1>1

LEMMA HeldIsMessage ==
    ASSUME TypeOK, NEW w \in Workers
    PROVE  /\ Held(w) \in Message
           /\ frame[w].retries < MaxRetries => [Held(w) EXCEPT !.retries = @ + 1] \in Message
<1>1. frame[w] \in Frame
  BY DEF TypeOK, Runners
<1>2. frame[w].snapshot \in Snapshots /\ frame[w].retries \in 0..MaxRetries
  BY <1>1 DEF Frame
<1>3. Held(w) \in Message
  BY <1>2 DEF Held, Message
<1>4. ASSUME frame[w].retries < MaxRetries
      PROVE  [Held(w) EXCEPT !.retries = @ + 1] \in Message
  <2>1. frame[w].retries + 1 \in 0..MaxRetries
    BY <1>2, <1>4, BoundsAssumption
  <2> QED
    BY <1>2, <2>1 DEF Held, Message
<1> QED
  BY <1>3, <1>4

\* A thread or worker that gives up.
LEMMA GoesIdle ==
    ASSUME TypeOK, NEW r \in Runners, frame' = [frame EXCEPT ![r] = Idle]
    PROVE  frame' \in [Runners -> Frame] /\ frame'[r] = Idle
BY Frames, FrameWrites

\* A request keeps the types and the tables finite.
LEMMA ThreadKeepsTypes ==
    ASSUME TypeOK, IsFiniteSet(nodes), NEW t \in Threads,
           CreateSnapshot(t) \/ CreateRoot(t) \/ RequestFails(t)
    PROVE  TypeOK' /\ IsFiniteSet(nodes')
<1>0. t \in Runners /\ frame[t] \in Frame
  BY DEF TypeOK, Runners
<1>1. CASE CreateSnapshot(t)
  <2>1. /\ Len(status) < MaxSnapshots
        /\ status' = Append(status, "pending")
        /\ frame' = [frame EXCEPT ![t] = On(Len(status) + 1, "root", 0)]
        /\ UNCHANGED <<nodes, edges, events, outsideTables>>
    BY <1>1 DEF CreateSnapshot
  <2>2. status' \in Seq({"pending", "completed"}) /\ Len(status') = Len(status) + 1
    BY <2>1, AppendProperties DEF TypeOK
  <2>3. Len(status) \in Nat
    BY LenProperties DEF TypeOK
  <2>4. Len(status) + 1 \in Snapshots
    BY <2>1, <2>3, BoundsAssumption DEF Snapshots
  <2>5. On(Len(status) + 1, "root", 0) \in Frame
    BY <2>4, Frames, BoundsAssumption DEF Steps
  <2>6. frame' \in [Runners -> Frame]
    BY <1>0, <2>1, <2>5, FrameWrites
  <2>7. Len(status') <= MaxSnapshots
    BY <2>1, <2>2, <2>3, BoundsAssumption
  <2> QED
    BY <2>1, <2>2, <2>6, <2>7 DEF TypeOK, outsideTables, counters
<1>2. CASE CreateRoot(t)
  <2>1. frame' \in [Runners -> Frame]
    BY <1>0, <1>2, GotoWrites, GoesIdle, FrameWrites DEF CreateRoot, Steps
  <2>2. /\ nodes' = nodes \cup {RootNode(frame[t].snapshot)}
        /\ UNCHANGED <<status, edges, events, outsideTables>>
    BY <1>2 DEF CreateRoot
  <2>3. RootNode(frame[t].snapshot) \in Node
    BY <1>0 DEF RootNode, Node, Frame
  <2>4. IsFiniteSet(nodes')
    BY <2>2, FS_AddElement
  <2> QED
    BY <2>1, <2>2, <2>3, <2>4 DEF TypeOK, outsideTables, counters
<1>3. CASE RequestFails(t)
  <2>1. frame' \in [Runners -> Frame]
    BY <1>0, <1>3, GoesIdle DEF RequestFails
  <2>2. UNCHANGED <<tables, outsideTables>>
    BY <1>3 DEF RequestFails
  <2> QED
    BY <2>1, <2>2 DEF TypeOK, tables, outsideTables, counters
<1> QED
  BY <1>1, <1>2, <1>3

\* The worker's side of the broker keeps the types.
LEMMA BrokerKeepsTypes ==
    ASSUME TypeOK, NEW w \in Workers,
           \/ \E m \in Message : Receive(w, m)
           \/ Raise(w) \/ Ack(w) \/ WorkerLost(w) \/ DeliverAgain(w)
    PROVE  TypeOK' /\ UNCHANGED tables
<1>0. w \in Runners /\ frame[w] \in Frame /\ Held(w) \in Message
  BY HeldIsMessage DEF TypeOK, Runners
<1>1. ASSUME NEW m \in Message, Receive(w, m)
      PROVE  TypeOK' /\ UNCHANGED tables
  <2>1. On(m.snapshot, "check", m.retries) \in Frame
    BY Frames DEF Message, Steps
  <2>2. frame' \in [Runners -> Frame]
    BY <1>0, <1>1, <2>1, FrameWrites DEF Receive
  <2>3. broker' \in [Message -> Nat]
    BY <1>1, BrokerWrites DEF Receive
  <2>4. UNCHANGED <<tables, counters, completions, repeated>>
    BY <1>1 DEF Receive
  <2> QED
    BY <2>2, <2>3, <2>4 DEF TypeOK, tables, counters
<1>2. CASE Raise(w)
  <2>1. frame' \in [Runners -> Frame]
    BY <1>0, <1>2, GoesIdle DEF Raise
  <2>2. UNCHANGED <<tables, sent, lost, duplicates, completions, repeated>>
    BY <1>2 DEF Raise
  <2>3. broker' \in [Message -> Nat] /\ gaveUp' \subseteq Snapshots
    <3>1. CASE frame[w].retries < MaxRetries
      <4>1. PICK m \in Message : broker' = [broker EXCEPT ![m] = broker[m] + 1]
        BY <1>2, <3>1, HeldIsMessage DEF Raise
      <4> QED
        BY <1>2, <3>1, <4>1, BrokerWrites DEF Raise, TypeOK
    <3>2. CASE ~(frame[w].retries < MaxRetries)
      BY <1>0, <1>2, <3>2 DEF Raise, TypeOK, Frame
    <3> QED
      BY <3>1, <3>2
  <2> QED
    BY <2>1, <2>2, <2>3 DEF TypeOK, tables
<1>3. CASE Ack(w)
  <2>1. frame' \in [Runners -> Frame]
    BY <1>0, <1>3, GoesIdle DEF Ack
  <2>2. UNCHANGED <<tables, outsideTables>>
    BY <1>3 DEF Ack
  <2> QED
    BY <2>1, <2>2 DEF TypeOK, tables, outsideTables, counters
<1>4. CASE WorkerLost(w)
  <2>1. frame' \in [Runners -> Frame]
    BY <1>0, <1>4, GoesIdle DEF WorkerLost
  <2>2. broker' \in [Message -> Nat]
    BY <1>0, <1>4, BrokerWrites DEF WorkerLost
  <2>3. lost' \in 0..MaxLost
    BY <1>4, BoundsAssumption DEF WorkerLost, TypeOK
  <2>4. UNCHANGED <<tables, gaveUp, sent, duplicates, completions, repeated>>
    BY <1>4 DEF WorkerLost
  <2> QED
    BY <2>1, <2>2, <2>3, <2>4 DEF TypeOK, tables
<1>5. CASE DeliverAgain(w)
  <2>1. broker' \in [Message -> Nat]
    BY <1>0, <1>5, BrokerWrites DEF DeliverAgain
  <2>2. duplicates' \in 0..MaxDuplicates
    BY <1>5, BoundsAssumption DEF DeliverAgain, TypeOK
  <2>3. UNCHANGED <<tables, frame, gaveUp, sent, lost, completions, repeated>>
    BY <1>5 DEF DeliverAgain
  <2> QED
    BY <2>1, <2>2, <2>3 DEF TypeOK, tables
<1> QED
  BY <1>1, <1>2, <1>3, <1>4, <1>5

LEMMA SendKeepsTypes ==
    ASSUME TypeOK, NEW s \in DOMAIN status, Send(s)
    PROVE  TypeOK' /\ UNCHANGED <<tables, frame, completions>>
<1>1. s \in Snapshots
  <2>1. DOMAIN status = 1..Len(status) /\ Len(status) \in Nat /\ Len(status) <= MaxSnapshots
    BY LenProperties DEF TypeOK
  <2> QED
    BY <2>1, BoundsAssumption DEF Snapshots
<1>2. [snapshot |-> s, retries |-> 0] \in Message
  BY <1>1, BoundsAssumption DEF Message
<1>3. broker' \in [Message -> Nat]
  BY <1>2, BrokerWrites DEF Send
<1>4. sent' \in 0..MaxSent
  BY BoundsAssumption DEF Send, TypeOK
<1>5. UNCHANGED <<tables, frame, gaveUp, lost, duplicates, completions, repeated>>
  BY DEF Send
<1> QED
  BY <1>3, <1>4, <1>5 DEF TypeOK, tables

LEMMA InitTypes ==
    ASSUME Init
    PROVE  TypeOK /\ IsFiniteSet(nodes)
<1>1. status \in Seq({"pending", "completed"}) /\ Len(status) <= MaxSnapshots
  BY BoundsAssumption DEF Init
<1>2. frame \in [Runners -> Frame]
  BY Frames DEF Init
<1>3. IsFiniteSet(nodes)
  BY FS_EmptySet DEF Init
<1> QED
  BY <1>1, <1>2, <1>3, BoundsAssumption DEF Init, TypeOK

LEMMA TypesInductive ==
    ASSUME TypeOK, IsFiniteSet(nodes), [Next]_vars
    PROVE  TypeOK' /\ IsFiniteSet(nodes')
<1>1. ASSUME NEW t \in Threads,
             CreateSnapshot(t) \/ CreateRoot(t) \/ ContinueStep(t) \/ RequestFails(t)
      PROVE  TypeOK' /\ IsFiniteSet(nodes')
  BY <1>1, ThreadKeepsTypes, ContinueKeepsTypes DEF Runners
<1>2. ASSUME NEW s \in DOMAIN status, Send(s)
      PROVE  TypeOK' /\ IsFiniteSet(nodes')
  BY <1>2, SendKeepsTypes DEF tables
<1>3. ASSUME NEW w \in Workers,
             TaskStep(w) \/ TaskRaises(w) \/ WorkerLost(w) \/ DeliverAgain(w)
      PROVE  TypeOK' /\ IsFiniteSet(nodes')
  <2>1. \/ ContinueStep(w)
        \/ (\E m \in Message : Receive(w, m)) \/ Raise(w) \/ Ack(w) \/ WorkerLost(w)
           \/ DeliverAgain(w)
    BY <1>3 DEF TaskStep, TaskRaises, RootMissing
  <2>2. CASE ContinueStep(w)
    BY <2>2, ContinueKeepsTypes DEF Runners
  <2>3. CASE ~ContinueStep(w)
    BY <2>1, <2>3, BrokerKeepsTypes DEF tables
  <2> QED
    BY <2>2, <2>3
<1>4. CASE UNCHANGED vars
  BY <1>4 DEF vars, tables, counters, TypeOK
<1> QED
  BY <1>1, <1>2, <1>3, <1>4 DEF Next

\* Every variable keeps its type, and the node table stays finite, so that node_count is
\* a number.
THEOREM TypeCorrect == Spec => [](TypeOK /\ IsFiniteSet(nodes))
<1>1. Init => TypeOK /\ IsFiniteSet(nodes)
  BY InitTypes
<1>2. TypeOK /\ IsFiniteSet(nodes) /\ [Next]_vars => (TypeOK /\ IsFiniteSet(nodes))'
  BY TypesInductive
<1> QED
  BY <1>1, <1>2, PTL DEF Spec

(***************************************************************************)
(* What COMPLETED promises.  The inductive invariant says of every call    *)
(* what it has committed when it is at each step, and of every completion  *)
(* that what it read is still there; the tables only ever grow, so that    *)
(* no step of another thread or worker can take it back.                   *)
(***************************************************************************)
Good(r) ==
    /\ frame[r].pc = "root" => frame[r].snapshot \in DOMAIN status
    /\ frame[r].pc \in {"gather", "nodes", "edges", "complete"} =>
           RootNode(frame[r].snapshot) \in nodes
    /\ frame[r].pc \in {"edges", "complete"} => Sections(frame[r]) \subseteq nodes
    /\ frame[r].pc = "complete" => Sections(frame[r]) \subseteq edges
    /\ frame[r].pc \in {"count", "audit"} =>
           /\ frame[r].snapshot \in DOMAIN status
           /\ status[frame[r].snapshot] = "completed"
    /\ frame[r].pc = "audit" =>
           \E c \in completions :
               /\ c.snapshot = frame[r].snapshot
               /\ frame[r].count >= Cardinality(c.files) + 1

NodesBelong == \A n \in nodes : n.snapshot \in DOMAIN status

CompletionsWhole ==
    \A c \in completions :
        RootNode(c.snapshot) \in nodes /\ Sections(c) \subseteq nodes \cap edges

CompletedHas ==
    \A s \in DOMAIN status :
        status[s] = "completed" => \E c \in completions : c.snapshot = s

Whole ==
    /\ NodesBelong
    /\ CompletionsWhole
    /\ CompletedHas
    /\ EdgesHaveNodes
    /\ EventsCountWhole
    /\ \A r \in Runners : Good(r)

\* The tables only grow, and COMPLETED is final.
Grows ==
    /\ nodes \subseteq nodes'
    /\ edges \subseteq edges'
    /\ completions \subseteq completions'
    /\ DOMAIN status \subseteq DOMAIN status'
    /\ \A s \in DOMAIN status : status[s] = "completed" => status'[s] = "completed"

LEMMA StatusIsSeq ==
    ASSUME TypeOK
    PROVE  /\ status \in [1..Len(status) -> {"pending", "completed"}]
           /\ DOMAIN status = 1..Len(status)
           /\ Len(status) \in Nat
BY LenProperties DEF TypeOK

LEMMA AppendGrows ==
    ASSUME TypeOK, status' = Append(status, "pending")
    PROVE  /\ DOMAIN status' = 1..(Len(status) + 1)
           /\ \A s \in DOMAIN status : status'[s] = status[s]
           /\ status'[Len(status) + 1] = "pending"
<1>1. status \in Seq({"pending", "completed"})
  BY DEF TypeOK
<1>2. /\ status' \in Seq({"pending", "completed"})
      /\ Len(status') = Len(status) + 1
      /\ \A s \in 1..Len(status) : status'[s] = status[s]
      /\ status'[Len(status) + 1] = "pending"
  BY <1>1, AppendProperties
<1> QED
  BY <1>2, StatusIsSeq, LenProperties

LEMMA StepGrows ==
    ASSUME TypeOK, [Next]_vars
    PROVE  Grows
<1>1. ASSUME NEW r \in Runners, ContinueStep(r)
      PROVE  Grows
  <2>1. CASE Complete(r)
    BY <2>1, StatusIsSeq DEF Complete, Grows
  <2>2. CASE StoreNodes(r)
    BY <2>2 DEF StoreNodes, outsideTables, Grows
  <2>3. CASE StoreEdges(r)
    BY <2>3 DEF StoreEdges, outsideTables, Grows
  <2>4. CASE ~Complete(r) /\ ~StoreNodes(r) /\ ~StoreEdges(r)
    <3>1. UNCHANGED <<status, nodes, edges, completions>>
      BY <1>1, <2>4 DEF ContinueStep, AlreadyCompleted, Continue, Gather, CountNodes,
         RecordIngested, tables, outsideTables
    <3> QED
      BY <3>1 DEF Grows
  <2> QED
    BY <2>1, <2>2, <2>3, <2>4
<1>2. ASSUME NEW t \in Threads, CreateSnapshot(t) \/ CreateRoot(t) \/ RequestFails(t)
      PROVE  Grows
  <2>1. CASE CreateSnapshot(t)
    BY <2>1, AppendGrows, StatusIsSeq DEF CreateSnapshot, outsideTables, Grows
  <2>2. CASE CreateRoot(t)
    BY <2>2 DEF CreateRoot, outsideTables, Grows
  <2>3. CASE RequestFails(t)
    BY <2>3 DEF RequestFails, tables, outsideTables, Grows
  <2> QED
    BY <1>2, <2>1, <2>2, <2>3
<1>3. CASE UNCHANGED <<tables, completions>>
  BY <1>3 DEF tables, Grows
<1>4. ASSUME NEW w \in Workers,
             \/ \E m \in Message : Receive(w, m)
             \/ Raise(w) \/ Ack(w) \/ WorkerLost(w) \/ DeliverAgain(w)
      PROVE  UNCHANGED <<tables, completions>>
  BY <1>4 DEF Receive, Raise, Ack, WorkerLost, DeliverAgain, outsideTables
<1>5. ASSUME NEW s \in DOMAIN status, Send(s)
      PROVE  UNCHANGED <<tables, completions>>
  BY <1>5 DEF Send
<1>6. UNCHANGED vars => UNCHANGED <<tables, completions>>
  BY DEF vars
<1> QED
  BY <1>1, <1>2, <1>3, <1>4, <1>5, <1>6
     DEF Next, TaskStep, TaskRaises, RootMissing, Runners

\* What holds of a table that did not change survives the growth of the others.
LEMMA TablesStay ==
    ASSUME Whole, Grows
    PROVE  /\ nodes' = nodes => NodesBelong'
           /\ completions' = completions => CompletionsWhole'
           /\ status' = status => CompletedHas'
           /\ edges' = edges => EdgesHaveNodes'
           /\ events' = events => EventsCountWhole'
<1>1. nodes' = nodes => NodesBelong'
  BY DEF Whole, Grows, NodesBelong
<1>2. completions' = completions => CompletionsWhole'
  BY DEF Whole, Grows, CompletionsWhole
<1>3. status' = status => CompletedHas'
  BY DEF Whole, Grows, CompletedHas
<1>4. edges' = edges => EdgesHaveNodes'
  BY DEF Whole, Grows, EdgesHaveNodes
<1>5. events' = events => EventsCountWhole'
  BY DEF Whole, Grows, EventsCountWhole, Completed
<1> QED
  BY <1>1, <1>2, <1>3, <1>4, <1>5

\* So does what holds of a runner that did not move.
LEMMA OthersStay ==
    ASSUME TypeOK, Whole, Grows, NEW r \in Runners, NEW p, Good(r)',
           frame' = [frame EXCEPT ![r] = p]
    PROVE  \A q \in Runners : Good(q)'
<1> SUFFICES ASSUME NEW q \in Runners, q # r
             PROVE  Good(q)'
  OBVIOUS
<1>1. frame'[q] = frame[q]
  BY DEF TypeOK
<1>2. Good(q)
  BY DEF Whole
<1> QED
  BY <1>1, <1>2 DEF Good, Grows

\* A runner that waits has nothing to show.
LEMMA WaitingIsGood ==
    ASSUME NEW r \in Runners, frame'[r].pc \in {"idle", "check", "ack"}
    PROVE  Good(r)'
BY DEF Good

\* What a call counts covers the call that completed the snapshot.
LEMMA CountCovers ==
    ASSUME TypeOK, IsFiniteSet(nodes), Whole, NEW c \in completions
    PROVE  Cardinality(NodesOf(c.snapshot)) >= Cardinality(c.files) + 1
<1>1. c.files \in SUBSET Paths /\ c.snapshot \in Snapshots
  BY DEF TypeOK, Completion
<1>2. IsFiniteSet(Sections(c)) /\ Cardinality(Sections(c)) = Cardinality(c.files)
  BY <1>1, SectionsAreFinite
<1> DEFINE S == Sections(c) \cup {RootNode(c.snapshot)}
<1>3. RootNode(c.snapshot) \notin Sections(c)
  <2>1. \A n \in Sections(c) : n.file \in Paths
    BY <1>1 DEF Sections
  <2> QED
    BY <2>1, SourceAssumption DEF RootNode
<1>4. Cardinality(S) = Cardinality(c.files) + 1
  BY <1>2, <1>3, FS_AddElement
<1>5. S \subseteq NodesOf(c.snapshot)
  <2>1. S \subseteq nodes
    BY DEF Whole, CompletionsWhole
  <2>2. \A n \in Sections(c) : n.snapshot = c.snapshot
    BY DEF Sections
  <2>3. RootNode(c.snapshot).snapshot = c.snapshot
    BY DEF RootNode
  <2> QED
    BY <2>1, <2>2, <2>3 DEF NodesOf
<1>6. IsFiniteSet(NodesOf(c.snapshot))
  BY CallNumbers
<1>7. /\ Cardinality(S) <= Cardinality(NodesOf(c.snapshot))
      /\ Cardinality(S) \in Nat
      /\ Cardinality(NodesOf(c.snapshot)) \in Nat
  <2> HIDE DEF S
  <2> QED
    BY <1>5, <1>6, FS_Subset, FS_CardinalityType
<1> QED
  BY <1>4, <1>7

\* continue_ingest, step by step.
LEMMA ContinueKeepsWhole ==
    ASSUME TypeOK, IsFiniteSet(nodes), Whole, Grows, NEW r \in Runners, ContinueStep(r)
    PROVE  Whole'
<1>0. frame[r] \in Frame /\ Good(r)
  BY DEF TypeOK, Whole
<1>1. CASE AlreadyCompleted(r)
  <2>1. PICK p \in Frame : /\ p = [frame[r] EXCEPT !.pc = "count"]
                           /\ p.pc = "count" /\ p.snapshot = frame[r].snapshot
                           /\ frame' = [frame EXCEPT ![r] = p]
    BY <1>1, GotoWrites DEF AlreadyCompleted, Steps
  <2>2. frame'[r] = p
    BY <2>1, FrameWrites
  <2>3. Good(r)'
    BY <1>1, <2>1, <2>2 DEF AlreadyCompleted, Completed, tables, Good
  <2>4. UNCHANGED <<status, nodes, edges, events, completions>>
    BY <1>1 DEF AlreadyCompleted, tables, outsideTables
  <2> QED
    BY <2>1, <2>3, <2>4, TablesStay, OthersStay DEF Whole
<1>2. CASE Continue(r)
  <2>1. PICK p \in Frame : /\ p = [frame[r] EXCEPT !.pc = "gather"]
                           /\ p.pc = "gather" /\ p.snapshot = frame[r].snapshot
                           /\ frame' = [frame EXCEPT ![r] = p]
    BY <1>2, GotoWrites DEF Continue, Steps
  <2>2. frame'[r] = p
    BY <2>1, FrameWrites
  <2>3. Good(r)'
    BY <1>2, <2>1, <2>2 DEF Continue, MayContinue, tables, Good
  <2>4. UNCHANGED <<status, nodes, edges, events, completions>>
    BY <1>2 DEF Continue, tables, outsideTables
  <2> QED
    BY <2>1, <2>3, <2>4, TablesStay, OthersStay DEF Whole
<1>3. CASE Gather(r)
  <2>1. PICK S \in Trees : frame' = [frame EXCEPT ![r] =
                               [frame[r] EXCEPT !.pc = "nodes", !.files = S]]
    BY <1>3 DEF Gather
  <2>2. frame'[r].pc = "nodes" /\ frame'[r].snapshot = frame[r].snapshot
    BY <1>0, <2>1 DEF TypeOK, Frame
  <2>3. UNCHANGED <<status, nodes, edges, events, completions>>
    BY <1>3 DEF Gather, tables, outsideTables
  <2>4. Good(r)'
    BY <1>0, <1>3, <2>2, <2>3 DEF Gather, Good
  <2> QED
    BY <2>1, <2>3, <2>4, TablesStay, OthersStay DEF Whole
<1>4. CASE StoreNodes(r)
  <2> DEFINE f == [frame[r] EXCEPT !.call = NewCall(frame[r].snapshot)]
  <2>1. /\ f.pc = "nodes"
        /\ nodes' = nodes \cup Sections(f) \cup {RootNode(f.snapshot)}
        /\ frame' = [frame EXCEPT ![r] = [f EXCEPT !.pc = "edges"]]
        /\ UNCHANGED <<status, edges, events, outsideTables>>
    BY <1>4 DEF StoreNodes
  <2>2. f \in Frame /\ f.snapshot = frame[r].snapshot /\ f.pc = frame[r].pc
    BY <1>0, CallNumbers DEF Frame
  <2> HIDE DEF f
  <2>3. /\ frame'[r].pc = "edges"
        /\ frame'[r].snapshot = f.snapshot
        /\ frame'[r].call = f.call
        /\ frame'[r].files = f.files
    BY <2>1, <2>2 DEF TypeOK, Frame
  <2>4. Sections(frame[r])' = Sections(f)
    BY <2>3 DEF Sections
  <2>5. Good(r)'
    BY <2>1, <2>3, <2>4 DEF Good
  <2>6. NodesBelong'
    <3>1. RootNode(f.snapshot) \in nodes
      BY <1>0, <2>1, <2>2 DEF Good
    <3>2. f.snapshot \in DOMAIN status
      BY <3>1 DEF Whole, NodesBelong, RootNode
    <3>3. \A n \in Sections(f) : n.snapshot = f.snapshot
      BY DEF Sections
    <3> QED
      BY <2>1, <3>1, <3>2, <3>3 DEF Whole, NodesBelong
  <2>7. UNCHANGED <<status, edges, events, completions>>
    BY <2>1 DEF outsideTables
  <2> QED
    BY <2>1, <2>5, <2>6, <2>7, TablesStay, OthersStay DEF Whole
<1>5. CASE StoreEdges(r)
  <2>1. PICK p \in Frame : /\ p.pc = "complete" /\ p.snapshot = frame[r].snapshot
                           /\ p.call = frame[r].call /\ p.files = frame[r].files
                           /\ frame' = [frame EXCEPT ![r] = p]
    BY <1>5, GotoWrites DEF StoreEdges, Steps
  <2>2. frame'[r] = p
    BY <2>1, FrameWrites
  <2>3. /\ frame[r].pc = "edges"
        /\ edges' = edges \cup Sections(frame[r])
        /\ UNCHANGED <<status, nodes, events, completions>>
    BY <1>5 DEF StoreEdges, outsideTables
  <2>4. Sections(frame[r])' = Sections(frame[r])
    BY <2>1, <2>2 DEF Sections
  <2>5. Sections(frame[r]) \subseteq nodes /\ RootNode(frame[r].snapshot) \in nodes
    BY <1>0, <2>3 DEF Good
  <2>6. Good(r)'
    BY <2>1, <2>2, <2>3, <2>4, <2>5 DEF Good
  <2>7. EdgesHaveNodes'
    <3>1. \A e \in Sections(frame[r]) : e.snapshot = frame[r].snapshot
      BY DEF Sections
    <3> QED
      BY <2>3, <2>5, <3>1 DEF Whole, EdgesHaveNodes
  <2> QED
    BY <2>1, <2>3, <2>6, <2>7, TablesStay, OthersStay DEF Whole
<1>6. CASE Complete(r)
  <2> DEFINE c == [snapshot |-> frame[r].snapshot, call |-> frame[r].call,
                   files |-> frame[r].files]
             p == On(frame[r].snapshot, "count", frame[r].retries)
  <2>1. /\ frame[r].pc = "complete"
        /\ status' = [status EXCEPT ![frame[r].snapshot] = "completed"]
        /\ completions' = completions \cup {c}
        /\ frame' = [frame EXCEPT ![r] = p]
        /\ UNCHANGED <<nodes, edges, events>>
    BY <1>6 DEF Complete
  <2>2. /\ RootNode(frame[r].snapshot) \in nodes
        /\ Sections(frame[r]) \subseteq nodes \cap edges
    BY <1>0, <2>1 DEF Good
  <2>3. frame[r].snapshot \in DOMAIN status
    BY <2>2 DEF Whole, NodesBelong, RootNode
  <2>4. frame'[r] = p /\ p.pc = "count" /\ p.snapshot = frame[r].snapshot
    BY <2>1 DEF TypeOK, On
  <2>5. /\ DOMAIN status' = DOMAIN status
        /\ status'[frame[r].snapshot] = "completed"
        /\ \A s \in DOMAIN status : s # frame[r].snapshot => status'[s] = status[s]
    BY <2>1, <2>3, StatusIsSeq
  <2>6. Good(r)'
    BY <2>3, <2>4, <2>5 DEF Good
  <2>7. CompletionsWhole'
    <3>1. Sections(c) = Sections(frame[r]) /\ c.snapshot = frame[r].snapshot
      BY DEF Sections
    <3> HIDE DEF c
    <3> QED
      BY <2>1, <2>2, <3>1 DEF Whole, CompletionsWhole
  <2>8. CompletedHas'
    <3>1. c.snapshot = frame[r].snapshot /\ c \in completions'
      BY <2>1
    <3> HIDE DEF c
    <3> SUFFICES ASSUME NEW s \in DOMAIN status', status'[s] = "completed"
                 PROVE  \E k \in completions' : k.snapshot = s
      BY DEF CompletedHas
    <3>2. CASE s = frame[r].snapshot
      BY <3>1, <3>2
    <3>3. CASE s # frame[r].snapshot
      BY <2>1, <2>5, <3>3 DEF Whole, CompletedHas
    <3> QED
      BY <3>2, <3>3
  <2> HIDE DEF c, p
  <2> QED
    BY <2>1, <2>6, <2>7, <2>8, TablesStay, OthersStay DEF Whole
<1>7. CASE CountNodes(r)
  <2> DEFINE k == Cardinality(NodesOf(frame[r].snapshot))
  <2>1. /\ frame[r].pc = "count"
        /\ frame' = [frame EXCEPT ![r] = [frame[r] EXCEPT !.pc = "audit", !.count = k]]
        /\ UNCHANGED <<status, nodes, edges, events, completions>>
    BY <1>7 DEF CountNodes, tables, outsideTables
  <2>2. PICK c \in completions : c.snapshot = frame[r].snapshot
    BY <1>0, <2>1 DEF Good, Whole, CompletedHas
  <2>3. k >= Cardinality(c.files) + 1
    BY <2>2, CountCovers
  <2> HIDE DEF k
  <2>4. frame'[r].pc = "audit" /\ frame'[r].snapshot = frame[r].snapshot /\ frame'[r].count = k
    BY <1>0, <2>1 DEF TypeOK, Frame
  <2>5. Good(r)'
    BY <1>0, <2>1, <2>2, <2>3, <2>4 DEF Good
  <2> QED
    BY <2>1, <2>5, TablesStay, OthersStay DEF Whole
<1>8. CASE RecordIngested(r)
  <2> DEFINE e == [snapshot |-> frame[r].snapshot, count |-> frame[r].count]
  <2>1. /\ frame[r].pc = "audit"
        /\ events' = events \cup {e}
        /\ UNCHANGED <<status, nodes, edges, completions>>
    BY <1>8 DEF RecordIngested, outsideTables
  <2>2. PICK p : frame' = [frame EXCEPT ![r] = p] /\ p.pc \in {"idle", "ack"}
    <3>1. [frame[r] EXCEPT !.pc = "ack"].pc = "ack"
      BY <1>0 DEF Frame
    <3>2. Idle.pc = "idle"
      BY DEF Idle, On
    <3> QED
      BY <1>8, <3>1, <3>2 DEF RecordIngested
  <2>3. Good(r)'
    BY <2>2, WaitingIsGood DEF TypeOK
  <2>4. EventsCountWhole'
    <3>1. /\ Completed(e.snapshot)
          /\ \E c \in completions :
                 c.snapshot = e.snapshot /\ e.count >= Cardinality(c.files) + 1
      BY <1>0, <2>1 DEF Good, Completed
    <3> HIDE DEF e
    <3> QED
      BY <2>1, <3>1 DEF Whole, EventsCountWhole, Completed
  <2> HIDE DEF e
  <2> QED
    BY <2>1, <2>2, <2>3, <2>4, TablesStay, OthersStay DEF Whole
<1> QED
  BY <1>1, <1>2, <1>3, <1>4, <1>5, <1>6, <1>7, <1>8 DEF ContinueStep

\* The two commits of create_pending_snapshot and a request that ends early.
LEMMA ThreadKeepsWhole ==
    ASSUME TypeOK, Whole, Grows, NEW t \in Threads,
           CreateSnapshot(t) \/ CreateRoot(t) \/ RequestFails(t)
    PROVE  Whole'
<1>0. t \in Runners /\ frame[t] \in Frame /\ Good(t)
  BY DEF TypeOK, Whole, Runners
<1>1. CASE CreateSnapshot(t)
  <2> DEFINE p == On(Len(status) + 1, "root", 0)
  <2>1. /\ status' = Append(status, "pending")
        /\ frame' = [frame EXCEPT ![t] = p]
        /\ UNCHANGED <<nodes, edges, events, completions>>
    BY <1>1 DEF CreateSnapshot, outsideTables
  <2>2. /\ Len(status) + 1 \in DOMAIN status'
        /\ \A s \in DOMAIN status : status'[s] = status[s]
        /\ \A s \in DOMAIN status' : s \in DOMAIN status \/ status'[s] = "pending"
    BY <2>1, AppendGrows, StatusIsSeq
  <2>3. frame'[t].pc = "root" /\ frame'[t].snapshot = Len(status) + 1
    BY <1>0, <2>1 DEF TypeOK, On
  <2>4. Good(t)'
    BY <2>2, <2>3 DEF Good
  <2>5. CompletedHas'
    BY <2>1, <2>2 DEF Whole, CompletedHas
  <2> HIDE DEF p
  <2> QED
    BY <1>0, <2>1, <2>4, <2>5, TablesStay, OthersStay DEF Whole
<1>2. CASE CreateRoot(t)
  <2>1. /\ frame[t].pc = "root"
        /\ nodes' = nodes \cup {RootNode(frame[t].snapshot)}
        /\ UNCHANGED <<status, edges, events, completions>>
    BY <1>2 DEF CreateRoot, outsideTables
  <2>2. NodesBelong'
    BY <1>0, <2>1 DEF Whole, NodesBelong, Good, RootNode
  <2>3. PICK p : frame' = [frame EXCEPT ![t] = p] /\ p.pc \in {"check", "idle"}
    <3>1. [frame[t] EXCEPT !.pc = "check"].pc = "check" /\ Idle.pc = "idle"
      BY <1>0 DEF Frame, Idle, On
    <3> QED
      BY <1>2, <3>1 DEF CreateRoot, Goto
  <2>4. Good(t)'
    BY <1>0, <2>3, WaitingIsGood DEF TypeOK
  <2> QED
    BY <1>0, <2>1, <2>2, <2>3, <2>4, TablesStay, OthersStay DEF Whole
<1>3. CASE RequestFails(t)
  <2>1. /\ frame' = [frame EXCEPT ![t] = Idle]
        /\ UNCHANGED <<status, nodes, edges, events, completions>>
    BY <1>3 DEF RequestFails, tables, outsideTables
  <2>2. Good(t)'
    BY <1>0, <2>1, WaitingIsGood DEF TypeOK, Idle, On
  <2> QED
    BY <1>0, <2>1, <2>2, TablesStay, OthersStay DEF Whole
<1> QED
  BY <1>1, <1>2, <1>3

\* The worker's side of the broker.
LEMMA BrokerKeepsWhole ==
    ASSUME TypeOK, Whole, Grows, NEW w \in Workers,
           \/ \E m \in Message : Receive(w, m)
           \/ Raise(w) \/ Ack(w) \/ WorkerLost(w) \/ DeliverAgain(w)
    PROVE  Whole'
<1>1. w \in Runners
  BY DEF Runners
<1>2. UNCHANGED <<status, nodes, edges, events, completions>>
  BY DEF Receive, Raise, Ack, WorkerLost, DeliverAgain, tables, outsideTables
<1>3. \/ frame' = frame
      \/ \E p : frame' = [frame EXCEPT ![w] = p] /\ p.pc \in {"idle", "check"}
  <2>1. Idle.pc = "idle" /\ \A m \in Message : On(m.snapshot, "check", m.retries).pc = "check"
    BY DEF Idle, On
  <2> QED
    BY <2>1 DEF Receive, Raise, Ack, WorkerLost, DeliverAgain
<1>4. CASE frame' = frame
  <2>1. \A q \in Runners : Good(q)'
    BY <1>4 DEF Whole, Good, Grows
  <2> QED
    BY <1>2, <2>1, TablesStay DEF Whole
<1>5. CASE \E p : frame' = [frame EXCEPT ![w] = p] /\ p.pc \in {"idle", "check"}
  <2>1. PICK p : frame' = [frame EXCEPT ![w] = p] /\ p.pc \in {"idle", "check"}
    BY <1>5
  <2>2. Good(w)'
    BY <1>1, <2>1, WaitingIsGood DEF TypeOK
  <2> QED
    BY <1>1, <1>2, <2>1, <2>2, TablesStay, OthersStay DEF Whole
<1> QED
  BY <1>3, <1>4, <1>5

LEMMA WholeInductive ==
    ASSUME TypeOK, IsFiniteSet(nodes), Whole, [Next]_vars
    PROVE  Whole'
<1>0. Grows
  BY StepGrows
<1>1. ASSUME NEW t \in Threads,
             CreateSnapshot(t) \/ CreateRoot(t) \/ ContinueStep(t) \/ RequestFails(t)
      PROVE  Whole'
  BY <1>0, <1>1, ThreadKeepsWhole, ContinueKeepsWhole DEF Runners
<1>2. ASSUME UNCHANGED <<tables, frame, completions>>
      PROVE  Whole'
  <2>1. \A q \in Runners : Good(q)'
    BY <1>2 DEF Whole, Good, tables
  <2> QED
    BY <1>0, <1>2, <2>1, TablesStay DEF Whole, tables
<1>3. ASSUME NEW w \in Workers,
             TaskStep(w) \/ TaskRaises(w) \/ WorkerLost(w) \/ DeliverAgain(w)
      PROVE  Whole'
  <2>1. \/ ContinueStep(w)
        \/ (\E m \in Message : Receive(w, m)) \/ Raise(w) \/ Ack(w) \/ WorkerLost(w)
           \/ DeliverAgain(w)
    BY <1>3 DEF TaskStep, TaskRaises, RootMissing
  <2> QED
    BY <1>0, <2>1, ContinueKeepsWhole, BrokerKeepsWhole DEF Runners
<1>4. ASSUME NEW s \in DOMAIN status, Send(s)
      PROVE  UNCHANGED <<tables, frame, completions>>
  BY <1>4 DEF Send
<1>5. UNCHANGED vars => UNCHANGED <<tables, frame, completions>>
  BY DEF vars
<1> QED
  BY <1>1, <1>2, <1>3, <1>4, <1>5 DEF Next

LEMMA InitWhole ==
    ASSUME Init
    PROVE  Whole
<1>1. \A r \in Runners : Good(r)
  BY DEF Init, Good, Idle, On
<1>2. DOMAIN status = {}
  BY DEF Init
<1> QED
  BY <1>1, <1>2 DEF Init, Whole, NodesBelong, CompletionsWhole, CompletedHas, EdgesHaveNodes,
     EventsCountWhole

\* Each call has stored what its step says it has, and a COMPLETED snapshot is whole: the
\* inductive invariant of the theorems below.
THEOREM AlwaysWhole == Spec => []Whole
<1>1. Init => Whole
  BY InitWhole
<1>2. TypeOK /\ IsFiniteSet(nodes) /\ Whole /\ [Next]_vars => Whole'
  BY WholeInductive
<1> QED
  BY <1>1, <1>2, TypeCorrect, PTL DEF Spec

\* A snapshot that says COMPLETED holds its root and all that some call read, with its
\* edges, in every interleaving of requests and redelivered tasks.
THEOREM CompletedMeansWhole == Spec => []CompletedIsWhole
<1>1. Whole => CompletedIsWhole
  BY DEF Whole, CompletedHas, CompletionsWhole, CompletedIsWhole
<1> QED
  BY <1>1, AlwaysWhole, PTL

\* No edge is stored before the nodes it joins.
THEOREM EdgesJoinNodes == Spec => []EdgesHaveNodes
<1>1. Whole => EdgesHaveNodes
  BY DEF Whole
<1> QED
  BY <1>1, AlwaysWhole, PTL

\* The audit event of an ingestion counts at least what the call that completed the
\* snapshot had read.
THEOREM EventsAreWhole == Spec => []EventsCountWhole
<1>1. Whole => EventsCountWhole
  BY DEF Whole
<1> QED
  BY <1>1, AlwaysWhole, PTL

(***************************************************************************)
(* A settled snapshot is frozen.  A call that reads the source for a       *)
(* snapshot has found it PENDING, so once it is COMPLETED and nobody reads *)
(* nobody begins; and the root that a slow create_pending_snapshot may     *)
(* still store is there already.                                           *)
(***************************************************************************)
Frozen(s) ==
    Settled(s)' /\ NodesOf(s)' = NodesOf(s) /\ EdgesOf(s)' = EdgesOf(s)

\* Enough for a step of one runner: it does not read s, and stores nothing for s.
LEMMA RunnerLeavesFrozen ==
    ASSUME TypeOK, Grows, NEW s \in DOMAIN status, Settled(s), NEW r \in Runners, NEW p,
           frame' = [frame EXCEPT ![r] = p],
           p.snapshot # s \/ p.pc \notin {"gather", "nodes", "edges", "complete"},
           \A n \in nodes' \ nodes : n.snapshot # s,
           \A e \in edges' \ edges : e.snapshot # s
    PROVE  Frozen(s)
<1>1. Completed(s)'
  BY DEF Settled, Completed, Grows
<1>2. ~Reading(s)'
  BY DEF Settled, Reading, TypeOK
<1>3. NodesOf(s)' = NodesOf(s)
  BY DEF NodesOf, Grows
<1>4. EdgesOf(s)' = EdgesOf(s)
  BY DEF EdgesOf, Grows
<1> QED
  BY <1>1, <1>2, <1>3, <1>4 DEF Frozen, Settled

LEMMA ContinueLeavesFrozen ==
    ASSUME TypeOK, IsFiniteSet(nodes), Whole, Grows, NEW s \in DOMAIN status, Settled(s),
           NEW r \in Runners, ContinueStep(r)
    PROVE  Frozen(s)
<1>0. frame[r] \in Frame /\ Completed(s)
  BY DEF TypeOK, Settled
<1>1. frame[r].pc \in {"gather", "nodes", "edges", "complete"} => frame[r].snapshot # s
  BY DEF Settled, Reading
<1>2. CASE AlreadyCompleted(r)
  <2>1. PICK p \in Frame : p.pc = "count" /\ frame' = [frame EXCEPT ![r] = p]
    BY <1>2, GotoWrites DEF AlreadyCompleted, Steps
  <2>2. UNCHANGED <<nodes, edges>>
    BY <1>2 DEF AlreadyCompleted, tables
  <2> QED
    BY <2>1, <2>2, RunnerLeavesFrozen
<1>3. CASE Continue(r)
  <2>1. frame[r].snapshot # s
    BY <1>0, <1>3 DEF Continue, MayContinue
  <2>2. PICK p \in Frame : p.snapshot = frame[r].snapshot /\ frame' = [frame EXCEPT ![r] = p]
    BY <1>3, GotoWrites DEF Continue, Steps
  <2>3. UNCHANGED <<nodes, edges>>
    BY <1>3 DEF Continue, tables
  <2> QED
    BY <2>1, <2>2, <2>3, RunnerLeavesFrozen
<1>4. CASE Gather(r)
  <2>1. PICK S \in Trees : frame' = [frame EXCEPT ![r] =
                               [frame[r] EXCEPT !.pc = "nodes", !.files = S]]
    BY <1>4 DEF Gather
  <2>2. frame[r].snapshot # s
    BY <1>1, <1>4 DEF Gather
  <2>3. [frame[r] EXCEPT !.pc = "nodes", !.files = S].snapshot # s
    BY <1>0, <2>2 DEF Frame
  <2>4. UNCHANGED <<nodes, edges>>
    BY <1>4 DEF Gather, tables
  <2> QED
    BY <2>1, <2>3, <2>4, RunnerLeavesFrozen
<1>5. CASE StoreNodes(r)
  <2> DEFINE f == [frame[r] EXCEPT !.call = NewCall(frame[r].snapshot)]
  <2>1. /\ f.pc = "nodes"
        /\ nodes' = nodes \cup Sections(f) \cup {RootNode(f.snapshot)}
        /\ frame' = [frame EXCEPT ![r] = [f EXCEPT !.pc = "edges"]]
        /\ edges' = edges
    BY <1>5 DEF StoreNodes
  <2>2. /\ f.snapshot = frame[r].snapshot
        /\ f.pc = frame[r].pc
        /\ [f EXCEPT !.pc = "edges"].snapshot = f.snapshot
    BY <1>0 DEF Frame
  <2> HIDE DEF f
  <2>3. f.snapshot # s
    BY <1>1, <2>1, <2>2
  <2>4. \A n \in Sections(f) \cup {RootNode(f.snapshot)} : n.snapshot = f.snapshot
    BY DEF Sections, RootNode
  <2> QED
    BY <2>1, <2>2, <2>3, <2>4, RunnerLeavesFrozen
<1>6. CASE StoreEdges(r)
  <2>1. /\ frame[r].pc = "edges"
        /\ edges' = edges \cup Sections(frame[r])
        /\ nodes' = nodes
    BY <1>6 DEF StoreEdges
  <2>2. frame[r].snapshot # s
    BY <1>1, <2>1
  <2>3. PICK p \in Frame : p.snapshot = frame[r].snapshot /\ frame' = [frame EXCEPT ![r] = p]
    BY <1>6, GotoWrites DEF StoreEdges, Steps
  <2>4. \A e \in Sections(frame[r]) : e.snapshot = frame[r].snapshot
    BY DEF Sections
  <2> QED
    BY <2>1, <2>2, <2>3, <2>4, RunnerLeavesFrozen
<1>7. CASE Complete(r)
  <2>1. On(frame[r].snapshot, "count", frame[r].retries).pc = "count"
    BY DEF On
  <2>2. /\ frame' = [frame EXCEPT ![r] = On(frame[r].snapshot, "count", frame[r].retries)]
        /\ UNCHANGED <<nodes, edges>>
    BY <1>7 DEF Complete
  <2> QED
    BY <2>1, <2>2, RunnerLeavesFrozen
<1>8. CASE CountNodes(r)
  <2>1. PICK k : frame' = [frame EXCEPT ![r] = [frame[r] EXCEPT !.pc = "audit", !.count = k]]
    BY <1>8 DEF CountNodes
  <2>2. [frame[r] EXCEPT !.pc = "audit", !.count = k].pc = "audit"
    BY <1>0 DEF Frame
  <2>3. UNCHANGED <<nodes, edges>>
    BY <1>8 DEF CountNodes, tables
  <2> QED
    BY <2>1, <2>2, <2>3, RunnerLeavesFrozen
<1>9. CASE RecordIngested(r)
  <2>1. PICK p : frame' = [frame EXCEPT ![r] = p] /\ p.pc \in {"idle", "ack"}
    <3>1. [frame[r] EXCEPT !.pc = "ack"].pc = "ack" /\ Idle.pc = "idle"
      BY <1>0 DEF Frame, Idle, On
    <3> QED
      BY <1>9, <3>1 DEF RecordIngested
  <2>2. UNCHANGED <<nodes, edges>>
    BY <1>9 DEF RecordIngested
  <2> QED
    BY <2>1, <2>2, RunnerLeavesFrozen
<1> QED
  BY <1>2, <1>3, <1>4, <1>5, <1>6, <1>7, <1>8, <1>9 DEF ContinueStep

LEMMA ThreadLeavesFrozen ==
    ASSUME TypeOK, Whole, Grows, NEW s \in DOMAIN status, Settled(s), NEW t \in Threads,
           CreateSnapshot(t) \/ CreateRoot(t) \/ RequestFails(t)
    PROVE  Frozen(s)
<1>0. t \in Runners /\ frame[t] \in Frame
  BY DEF TypeOK, Runners
<1>1. CASE CreateSnapshot(t)
  <2>1. /\ frame' = [frame EXCEPT ![t] = On(Len(status) + 1, "root", 0)]
        /\ UNCHANGED <<nodes, edges>>
    BY <1>1 DEF CreateSnapshot
  <2>2. On(Len(status) + 1, "root", 0).pc = "root"
    BY DEF On
  <2> QED
    BY <1>0, <2>1, <2>2, RunnerLeavesFrozen
<1>2. CASE CreateRoot(t)
  <2>1. PICK p : frame' = [frame EXCEPT ![t] = p] /\ p.pc \in {"check", "idle"}
    <3>1. [frame[t] EXCEPT !.pc = "check"].pc = "check" /\ Idle.pc = "idle"
      BY <1>0 DEF Frame, Idle, On
    <3> QED
      BY <1>2, <3>1 DEF CreateRoot, Goto
  <2>2. RootNode(s) \in nodes
    BY DEF Settled, Completed, Whole, CompletedHas, CompletionsWhole
  <2>3. nodes' = nodes \cup {RootNode(frame[t].snapshot)} /\ edges' = edges
    BY <1>2 DEF CreateRoot
  <2>4. \A n \in nodes' \ nodes : n.snapshot # s
    BY <2>2, <2>3 DEF RootNode
  <2> QED
    BY <1>0, <2>1, <2>3, <2>4, RunnerLeavesFrozen
<1>3. CASE RequestFails(t)
  <2>1. frame' = [frame EXCEPT ![t] = Idle] /\ UNCHANGED <<nodes, edges>>
    BY <1>3 DEF RequestFails, tables
  <2>2. Idle.pc = "idle"
    BY DEF Idle, On
  <2> QED
    BY <1>0, <2>1, <2>2, RunnerLeavesFrozen
<1> QED
  BY <1>1, <1>2, <1>3

LEMMA BrokerLeavesFrozen ==
    ASSUME TypeOK, Grows, NEW s \in DOMAIN status, Settled(s), NEW w \in Workers,
           \/ \E m \in Message : Receive(w, m)
           \/ Raise(w) \/ Ack(w) \/ WorkerLost(w) \/ DeliverAgain(w)
    PROVE  Frozen(s)
<1>1. w \in Runners
  BY DEF Runners
<1>2. UNCHANGED <<nodes, edges>>
  BY DEF Receive, Raise, Ack, WorkerLost, DeliverAgain, tables
<1>3. PICK p : /\ frame' = [frame EXCEPT ![w] = p]
               /\ p = frame[w] \/ p.pc \in {"idle", "check"}
  <2>1. Idle.pc = "idle" /\ \A m \in Message : On(m.snapshot, "check", m.retries).pc = "check"
    BY DEF Idle, On
  <2>2. [frame EXCEPT ![w] = frame[w]] = frame
    BY <1>1 DEF TypeOK
  <2> QED
    BY <2>1, <2>2 DEF Receive, Raise, Ack, WorkerLost, DeliverAgain
<1>4. p.snapshot # s \/ p.pc \notin {"gather", "nodes", "edges", "complete"}
  BY <1>1, <1>3 DEF Settled, Reading
<1> QED
  BY <1>1, <1>2, <1>3, <1>4, RunnerLeavesFrozen

\* Once a snapshot is COMPLETED and the calls that had begun before have ended, no
\* redelivery and no other request changes its nodes and edges.
THEOREM SettledStaysFrozen == Spec => SettledIsFrozen
<1>1. ASSUME TypeOK, IsFiniteSet(nodes), Whole, [Next]_vars,
             NEW s \in DOMAIN status, Settled(s)
      PROVE  Frozen(s)
  <2>0. Grows
    BY <1>1, StepGrows
  <2>1. ASSUME NEW t \in Threads,
               CreateSnapshot(t) \/ CreateRoot(t) \/ ContinueStep(t) \/ RequestFails(t)
        PROVE  Frozen(s)
    BY <1>1, <2>0, <2>1, ThreadLeavesFrozen, ContinueLeavesFrozen DEF Runners
  <2>2. ASSUME NEW w \in Workers,
               TaskStep(w) \/ TaskRaises(w) \/ WorkerLost(w) \/ DeliverAgain(w)
        PROVE  Frozen(s)
    <3>1. \/ ContinueStep(w)
          \/ (\E m \in Message : Receive(w, m)) \/ Raise(w) \/ Ack(w) \/ WorkerLost(w)
             \/ DeliverAgain(w)
      BY <2>2 DEF TaskStep, TaskRaises, RootMissing
    <3> QED
      BY <1>1, <2>0, <3>1, BrokerLeavesFrozen, ContinueLeavesFrozen DEF Runners
  <2>3. ASSUME UNCHANGED <<status, nodes, edges, frame>>
        PROVE  Frozen(s)
    BY <1>1, <2>3 DEF Frozen, Settled, Completed, Reading, NodesOf, EdgesOf
  <2>4. ASSUME NEW m \in DOMAIN status, Send(m)
        PROVE  UNCHANGED <<status, nodes, edges, frame>>
    BY <2>4 DEF Send, tables
  <2>5. UNCHANGED vars => UNCHANGED <<status, nodes, edges, frame>>
    BY DEF vars, tables
  <2> QED
    BY <1>1, <2>1, <2>2, <2>3, <2>4, <2>5 DEF Next
<1>2. TypeOK /\ IsFiniteSet(nodes) /\ Whole /\ [Next]_vars =>
          [\A s \in DOMAIN status : Settled(s) =>
              Settled(s)' /\ NodesOf(s)' = NodesOf(s) /\ EdgesOf(s)' = EdgesOf(s)]_vars
  BY <1>1 DEF Frozen
<1> QED
  BY <1>2, TypeCorrect, AlwaysWhole, PTL DEF Spec, SettledIsFrozen

(***************************************************************************)
(* Ingested once.  Of a snapshot that is not repeated one call at most     *)
(* reads the source, the tables have what that call has stored and nothing *)
(* besides the root, and after it set COMPLETED they stay so; what is      *)
(* counted then is what it read.  A call that dies leaves nodes behind     *)
(* which no other call adds to: it would find them, and be a repetition.   *)
(***************************************************************************)
Reads(r, s) ==
    frame[r].snapshot = s /\ frame[r].pc \in {"gather", "nodes", "edges", "complete"}

FilesOnce(s) ==
    \A m, n \in NodesOf(s) \cup {RootNode(s)} : m.file = n.file => m = n

OneReads(s) == \A q, r \in Runners : Reads(q, s) /\ Reads(r, s) => q = r

\* What a call that reads finds in the tables is its own.
ReadsAlone(r, s) ==
    /\ ~Completed(s)
    /\ frame[r].pc \in {"gather", "nodes"} => NodesOf(s) = {RootNode(s)}
    /\ frame[r].pc \in {"gather", "nodes", "edges"} => EdgesOf(s) = {}
    /\ frame[r].pc \in {"edges", "complete"} =>
           NodesOf(s) = Sections(frame[r]) \cup {RootNode(s)}
    /\ frame[r].pc = "complete" => EdgesOf(s) = Sections(frame[r])

EventsOf(s) == {e \in events : e.snapshot = s}

CompletedBy(c, s) ==
    /\ c.snapshot = s
    /\ NodesOf(s) = Sections(c) \cup {RootNode(s)}
    /\ EdgesOf(s) = Sections(c)
    /\ \A e \in EventsOf(s) : e.count = Cardinality(c.files) + 1
    /\ \A r \in Runners :
           frame[r].snapshot = s /\ frame[r].pc = "audit" =>
               frame[r].count = Cardinality(c.files) + 1

Once(s) ==
    /\ FilesOnce(s)
    /\ OneReads(s)
    /\ \A r \in Runners : Reads(r, s) => ReadsAlone(r, s)
    /\ Completed(s) => \E c \in completions : CompletedBy(c, s)

EdgesLeaveFiles == \A e \in edges : e.file \in Paths

OnceInv == EdgesLeaveFiles /\ \A s \in DOMAIN status \ repeated : Once(s)

\* Nothing of s changes, and the runner that moves does not read it after the step.
LEMMA OnceStays ==
    ASSUME TypeOK, NEW s, Once(s), NEW r \in Runners, NEW p,
           frame' = [frame EXCEPT ![r] = p],
           p.snapshot = s =>
               p.pc \notin {"gather", "nodes", "edges", "complete", "audit"},
           NodesOf(s)' = NodesOf(s), EdgesOf(s)' = EdgesOf(s), EventsOf(s)' = EventsOf(s),
           completions \subseteq completions', Completed(s)' = Completed(s)
    PROVE  Once(s)'
<1>1. frame'[r] = p /\ \A q \in Runners : q # r => frame'[q] = frame[q]
  BY DEF TypeOK
<1>2. FilesOnce(s)'
  BY DEF Once, FilesOnce, RootNode
<1>3. \A q \in Runners : Reads(q, s)' => q # r /\ Reads(q, s)
  BY <1>1 DEF Reads
<1>4. OneReads(s)'
  BY <1>3 DEF Once, OneReads
<1>5. ASSUME NEW q \in Runners, Reads(q, s)'
      PROVE  ReadsAlone(q, s)'
  <2>1. frame'[q] = frame[q] /\ ReadsAlone(q, s)
    BY <1>1, <1>3, <1>5 DEF Once
  <2>2. Sections(frame[q])' = Sections(frame[q])
    BY <2>1 DEF Sections
  <2> QED
    BY <2>1, <2>2 DEF ReadsAlone, RootNode
<1>6. ASSUME Completed(s)'
      PROVE  (\E c \in completions : CompletedBy(c, s))'
  <2>1. PICK c \in completions : CompletedBy(c, s)
    BY <1>6 DEF Once
  <2>2. \A q \in Runners : frame'[q].snapshot = s /\ frame'[q].pc = "audit" =>
                               frame'[q].count = Cardinality(c.files) + 1
    BY <1>1, <2>1 DEF CompletedBy
  <2>3. CompletedBy(c, s)'
    BY <2>1, <2>2 DEF CompletedBy, Sections, RootNode
  <2> QED
    BY <2>1, <2>3
<1> QED
  BY <1>2, <1>4, <1>5, <1>6 DEF Once

\* The one call that reads s goes on.
LEMMA ReaderGoesOn ==
    ASSUME TypeOK, NEW s, NEW r \in Runners, NEW p, frame' = [frame EXCEPT ![r] = p],
           \A q \in Runners : q # r => ~Reads(q, s),
           ReadsAlone(r, s)', FilesOnce(s)'
    PROVE  Once(s)'
<1>1. \A q \in Runners : q # r => frame'[q] = frame[q]
  BY DEF TypeOK
<1>2. \A q \in Runners : Reads(q, s)' => q = r
  BY <1>1 DEF Reads
<1>3. OneReads(s)'
  BY <1>2 DEF OneReads
<1> QED
  BY <1>2, <1>3 DEF Once, ReadsAlone

\* The sections of a call are not the root.
LEMMA SectionsHaveFiles ==
    ASSUME NEW f, f.files \in SUBSET Paths
    PROVE  /\ \A n \in Sections(f) : n.file \in Paths /\ n.snapshot = f.snapshot
           /\ RootNode(f.snapshot) \notin Sections(f)
           /\ \A m, n \in Sections(f) \cup {RootNode(f.snapshot)} : m.file = n.file => m = n
<1>1. \A n \in Sections(f) : n.file \in Paths /\ n.snapshot = f.snapshot
  BY DEF Sections
<1>2. RootNode(f.snapshot).file \notin Paths
  BY SourceAssumption DEF RootNode
<1>3. \A m, n \in Sections(f) : m.file = n.file => m = n
  BY DEF Sections
<1> QED
  BY <1>1, <1>2, <1>3

\* The nodes of a call and the root, counted.
LEMMA WholeCount ==
    ASSUME NEW c, c.files \in SUBSET Paths
    PROVE  Cardinality(Sections(c) \cup {RootNode(c.snapshot)}) = Cardinality(c.files) + 1
<1>1. IsFiniteSet(Sections(c)) /\ Cardinality(Sections(c)) = Cardinality(c.files)
  BY SectionsAreFinite
<1>2. RootNode(c.snapshot) \notin Sections(c)
  BY SectionsHaveFiles
<1> QED
  BY <1>1, <1>2, FS_AddElement

\* A snapshot that has only its root has no edges.
LEMMA RootHasNoEdges ==
    ASSUME EdgesHaveNodes, EdgesLeaveFiles, NEW s, NodesOf(s) = {RootNode(s)}
    PROVE  EdgesOf(s) = {}
<1> SUFFICES ASSUME NEW e \in EdgesOf(s)
             PROVE  FALSE
  OBVIOUS
<1>1. e \in NodesOf(s) /\ e.file \in Paths
  BY DEF EdgesOf, NodesOf, EdgesHaveNodes, EdgesLeaveFiles
<1> QED
  BY <1>1, SourceAssumption DEF RootNode

\* Whether a snapshot is COMPLETED and what it holds is its own affair.
LEMMA OthersAreLeft ==
    ASSUME NEW s, NEW f,
           \/ nodes' = nodes
           \/ nodes' = nodes \cup Sections(f) \cup {RootNode(f.snapshot)}
           \/ nodes' = nodes \cup {RootNode(f.snapshot)},
           edges' = edges \/ edges' = edges \cup Sections(f),
           f.snapshot # s
    PROVE  NodesOf(s)' = NodesOf(s) /\ EdgesOf(s)' = EdgesOf(s)
<1>1. \A n \in Sections(f) \cup {RootNode(f.snapshot)} : n.snapshot # s
  BY DEF Sections, RootNode
<1> QED
  BY <1>1 DEF NodesOf, EdgesOf

\* What a call has in its frame after it read the source.
LEMMA GatherWrites ==
    ASSUME TypeOK, NEW r \in Runners, Gather(r)
    PROVE  /\ frame[r].pc = "gather"
           /\ \E p \in Frame : /\ p.pc = "nodes" /\ p.snapshot = frame[r].snapshot
                               /\ frame' = [frame EXCEPT ![r] = p]
           /\ UNCHANGED <<status, nodes, edges, events, completions, repeated>>
<1>0. frame[r] \in Frame /\ Gather(r)
  BY DEF TypeOK
<1>1. PICK S \in Trees : frame' = [frame EXCEPT ![r] =
                             [frame[r] EXCEPT !.pc = "nodes", !.files = S]]
  BY <1>0 DEF Gather
<1> DEFINE p == [frame[r] EXCEPT !.pc = "nodes", !.files = S]
<1>2. p \in Frame /\ p.pc = "nodes" /\ p.snapshot = frame[r].snapshot
  BY <1>0, SourceAssumption DEF Frame, Steps
<1>3. frame' = [frame EXCEPT ![r] = p]
  BY <1>1
<1> HIDE DEF p
<1> QED
  BY <1>2, <1>3 DEF Gather, tables, outsideTables

\* What a step of continue_ingest may do besides.
LEMMA ContinueWrites ==
    ASSUME TypeOK, NEW r \in Runners, ContinueStep(r)
    PROVE  /\ repeated \subseteq repeated'
           /\ DOMAIN status' = DOMAIN status
           /\ edges' = edges \/ edges' = edges \cup Sections(frame[r])
<1>1. CASE AlreadyCompleted(r) \/ CountNodes(r) \/ RecordIngested(r)
  BY <1>1 DEF AlreadyCompleted, CountNodes, RecordIngested, tables, outsideTables
<1>2. CASE Continue(r)
  BY <1>2 DEF Continue, tables
<1>3. CASE StoreNodes(r)
  BY <1>3 DEF StoreNodes, outsideTables
<1>4. CASE StoreEdges(r)
  BY <1>4 DEF StoreEdges, outsideTables
<1>5. CASE Complete(r)
  BY <1>5, StatusIsSeq DEF Complete
<1>6. CASE Gather(r)
  BY <1>6, GatherWrites
<1> QED
  BY <1>1, <1>2, <1>3, <1>4, <1>5, <1>6 DEF ContinueStep

LEMMA ContinueIsOnce ==
    ASSUME TypeOK, IsFiniteSet(nodes), Whole, Grows, OnceInv, NEW r \in Runners,
           ContinueStep(r), NEW s \in DOMAIN status, s \notin repeated'
    PROVE  Once(s)'
<1>0. /\ frame[r] \in Frame
      /\ Good(r)
      /\ frame[r].files \in SUBSET Paths
  BY DEF TypeOK, Whole, Frame
<1>1. Once(s)
  <2>1. repeated \subseteq repeated'
    BY ContinueWrites
  <2> QED
    BY <2>1 DEF OnceInv
<1>2. CASE AlreadyCompleted(r)
  <2>1. PICK p \in Frame : p.pc = "count" /\ frame' = [frame EXCEPT ![r] = p]
    BY <1>2, GotoWrites DEF AlreadyCompleted, Steps
  <2>2. UNCHANGED <<status, nodes, edges, events, completions>>
    BY <1>2 DEF AlreadyCompleted, tables, outsideTables
  <2> QED
    BY <1>1, <2>1, <2>2, OnceStays DEF NodesOf, EdgesOf, EventsOf, Completed
<1>3. CASE Continue(r)
  <2>1. PICK p \in Frame : /\ p.pc = "gather" /\ p.snapshot = frame[r].snapshot
                           /\ frame' = [frame EXCEPT ![r] = p]
    BY <1>3, GotoWrites DEF Continue, Steps
  <2>2. UNCHANGED <<status, nodes, edges, events, completions>>
    BY <1>3 DEF Continue, tables
  <2>3. /\ NodesOf(s)' = NodesOf(s) /\ EdgesOf(s)' = EdgesOf(s)
        /\ EventsOf(s)' = EventsOf(s) /\ Completed(s)' = Completed(s)
    BY <2>2 DEF NodesOf, EdgesOf, EventsOf, Completed
  <2>4. CASE frame[r].snapshot # s
    BY <1>1, <2>1, <2>2, <2>3, <2>4, OnceStays
  <2>5. CASE frame[r].snapshot = s
    <3>1. ~BegunBefore(s) /\ ~Completed(s)
      BY <1>3, <2>5 DEF Continue, MayContinue
    <3>2. NodesOf(s) = {RootNode(s)} /\ ~Reading(s)
      BY <3>1 DEF BegunBefore
    <3>3. EdgesOf(s) = {}
      BY <3>2, RootHasNoEdges DEF Whole, OnceInv
    <3>4. frame'[r] = p
      BY <2>1, FrameWrites
    <3>5. ReadsAlone(r, s)'
      BY <2>1, <2>3, <3>1, <3>2, <3>3, <3>4 DEF ReadsAlone, RootNode
    <3>6. FilesOnce(s)'
      BY <2>3, <3>2 DEF FilesOnce, RootNode
    <3> QED
      BY <2>1, <3>2, <3>5, <3>6, ReaderGoesOn DEF Reading, Reads
  <2> QED
    BY <2>4, <2>5
<1>4. CASE Gather(r)
  <2>2. PICK p \in Frame : /\ p.pc = "nodes" /\ p.snapshot = frame[r].snapshot
                           /\ frame' = [frame EXCEPT ![r] = p]
    BY <1>4, GatherWrites
  <2>3. frame[r].pc = "gather" /\ UNCHANGED <<status, nodes, edges, events, completions>>
    BY <1>4, GatherWrites
  <2>4. /\ NodesOf(s)' = NodesOf(s) /\ EdgesOf(s)' = EdgesOf(s)
        /\ EventsOf(s)' = EventsOf(s) /\ Completed(s)' = Completed(s)
    BY <2>3 DEF NodesOf, EdgesOf, EventsOf, Completed
  <2>5. CASE frame[r].snapshot # s
    BY <1>1, <2>2, <2>3, <2>4, <2>5, OnceStays
  <2>6. CASE frame[r].snapshot = s
    <3>1. Reads(r, s) /\ ReadsAlone(r, s) /\ \A q \in Runners : q # r => ~Reads(q, s)
      BY <1>1, <2>3, <2>6 DEF Reads, Once, OneReads
    <3>2. frame'[r] = p
      BY <2>2 DEF TypeOK
    <3>3. ReadsAlone(r, s)'
      BY <2>2, <2>3, <2>4, <3>1, <3>2 DEF ReadsAlone, RootNode
    <3>4. FilesOnce(s)'
      BY <1>1, <2>4 DEF Once, FilesOnce, RootNode
    <3> QED
      BY <2>2, <3>1, <3>3, <3>4, ReaderGoesOn
  <2> QED
    BY <2>5, <2>6
<1>5. CASE StoreNodes(r)
  <2> DEFINE f == [frame[r] EXCEPT !.call = NewCall(frame[r].snapshot)]
             p == [f EXCEPT !.pc = "edges"]
  <2>1. /\ f.pc = "nodes"
        /\ nodes' = nodes \cup Sections(f) \cup {RootNode(f.snapshot)}
        /\ frame' = [frame EXCEPT ![r] = p]
        /\ UNCHANGED <<status, edges, events, completions>>
    BY <1>5 DEF StoreNodes, outsideTables
  <2>2. /\ f.snapshot = frame[r].snapshot /\ f.pc = frame[r].pc /\ f.files = frame[r].files
        /\ p.pc = "edges" /\ p.snapshot = f.snapshot /\ p.call = f.call /\ p.files = f.files
    BY <1>0 DEF Frame
  <2> HIDE DEF f, p
  <2>3. frame'[r] = p /\ Sections(frame[r])' = Sections(f)
    BY <2>1, <2>2 DEF TypeOK, Sections
  <2>4. EdgesOf(s)' = EdgesOf(s) /\ EventsOf(s)' = EventsOf(s) /\ Completed(s)' = Completed(s)
    BY <2>1 DEF EdgesOf, EventsOf, Completed
  <2>5. CASE frame[r].snapshot # s
    <3>1. NodesOf(s)' = NodesOf(s)
      BY <2>1, <2>2, <2>5, OthersAreLeft
    <3> QED
      BY <1>1, <2>1, <2>2, <2>4, <2>5, <3>1, OnceStays
  <2>6. CASE frame[r].snapshot = s
    <3>1. Reads(r, s) /\ ReadsAlone(r, s) /\ \A q \in Runners : q # r => ~Reads(q, s)
      BY <1>1, <2>1, <2>2, <2>6 DEF Reads, Once, OneReads
    <3>2. NodesOf(s) = {RootNode(s)} /\ EdgesOf(s) = {} /\ ~Completed(s)
      BY <2>1, <2>2, <3>1 DEF ReadsAlone
    <3>3. \A n \in Sections(f) \cup {RootNode(s)} : n.snapshot = s
      BY <2>2, <2>6 DEF Sections, RootNode
    <3>4. NodesOf(s)' = Sections(f) \cup {RootNode(s)}
      BY <2>1, <2>2, <2>6, <3>2, <3>3 DEF NodesOf
    <3>5. ReadsAlone(r, s)'
      BY <2>2, <2>3, <2>4, <3>2, <3>4 DEF ReadsAlone, RootNode
    <3>6. FilesOnce(s)'
      <4>1. \A m, n \in Sections(f) \cup {RootNode(s)} : m.file = n.file => m = n
        BY <1>0, <2>2, <2>6, SectionsHaveFiles
      <4> QED
        BY <3>4, <4>1 DEF FilesOnce, RootNode
    <3> QED
      BY <2>1, <3>1, <3>5, <3>6, ReaderGoesOn
  <2> QED
    BY <2>5, <2>6
<1>6. CASE StoreEdges(r)
  <2>1. PICK p \in Frame : /\ p.pc = "complete" /\ p.snapshot = frame[r].snapshot
                           /\ p.call = frame[r].call /\ p.files = frame[r].files
                           /\ frame' = [frame EXCEPT ![r] = p]
    BY <1>6, GotoWrites DEF StoreEdges, Steps
  <2>2. /\ frame[r].pc = "edges"
        /\ edges' = edges \cup Sections(frame[r])
        /\ UNCHANGED <<status, nodes, events, completions>>
    BY <1>6 DEF StoreEdges, outsideTables
  <2>3. frame'[r] = p /\ Sections(frame[r])' = Sections(frame[r])
    <3>1. frame'[r] = p
      BY <2>1, FrameWrites
    <3> QED
      BY <2>1, <3>1 DEF Sections
  <2>4. NodesOf(s)' = NodesOf(s) /\ EventsOf(s)' = EventsOf(s) /\ Completed(s)' = Completed(s)
    BY <2>2 DEF NodesOf, EventsOf, Completed
  <2>5. CASE frame[r].snapshot # s
    <3>1. EdgesOf(s)' = EdgesOf(s)
      BY <2>2, <2>5, OthersAreLeft
    <3> QED
      BY <1>1, <2>1, <2>2, <2>4, <2>5, <3>1, OnceStays
  <2>6. CASE frame[r].snapshot = s
    <3>1. Reads(r, s) /\ ReadsAlone(r, s) /\ \A q \in Runners : q # r => ~Reads(q, s)
      BY <1>1, <2>2, <2>6 DEF Reads, Once, OneReads
    <3>2. EdgesOf(s) = {} /\ ~Completed(s) /\ NodesOf(s) = Sections(frame[r]) \cup {RootNode(s)}
      BY <2>2, <3>1 DEF ReadsAlone
    <3>3. \A n \in Sections(frame[r]) : n.snapshot = s
      BY <2>6 DEF Sections
    <3>4. EdgesOf(s)' = Sections(frame[r])
      BY <2>2, <3>2, <3>3 DEF EdgesOf
    <3>5. ReadsAlone(r, s)'
      BY <2>1, <2>3, <2>4, <3>2, <3>4 DEF ReadsAlone, RootNode
    <3>6. FilesOnce(s)'
      BY <1>1, <2>4 DEF Once, FilesOnce, RootNode
    <3> QED
      BY <2>1, <3>1, <3>5, <3>6, ReaderGoesOn
  <2> QED
    BY <2>5, <2>6
<1>7. CASE Complete(r)
  <2> DEFINE p == On(frame[r].snapshot, "count", frame[r].retries)
  <2>1. /\ frame[r].pc = "complete"
        /\ status' = [status EXCEPT ![frame[r].snapshot] = "completed"]
        /\ completions \subseteq completions'
        /\ frame' = [frame EXCEPT ![r] = p]
        /\ UNCHANGED <<nodes, edges, events>>
    BY <1>7 DEF Complete
  <2>2. PICK c \in completions' : /\ c.snapshot = frame[r].snapshot
                                  /\ Sections(c) = Sections(frame[r])
    <3> DEFINE k == [snapshot |-> frame[r].snapshot, call |-> frame[r].call,
                     files |-> frame[r].files]
    <3>1. k \in completions'
      BY <1>7 DEF Complete
    <3>2. k.snapshot = frame[r].snapshot /\ Sections(k) = Sections(frame[r])
      BY DEF Sections
    <3> HIDE DEF k
    <3> QED
      BY <3>1, <3>2
  <2>0. p.pc = "count"
    BY DEF On
  <2> HIDE DEF p
  <2>3. NodesOf(s)' = NodesOf(s) /\ EdgesOf(s)' = EdgesOf(s) /\ EventsOf(s)' = EventsOf(s)
    BY <2>1 DEF NodesOf, EdgesOf, EventsOf
  <2>4. CASE frame[r].snapshot # s
    <3>1. Completed(s)' = Completed(s)
      BY <2>1, <2>4, StatusIsSeq DEF Completed
    <3> QED
      BY <1>1, <2>0, <2>1, <2>3, <3>1, OnceStays
  <2>5. CASE frame[r].snapshot = s
    <3>1. Reads(r, s) /\ ReadsAlone(r, s) /\ \A q \in Runners : q # r => ~Reads(q, s)
      BY <1>1, <2>1, <2>5 DEF Reads, Once, OneReads
    <3>2. /\ ~Completed(s)
          /\ NodesOf(s) = Sections(c) \cup {RootNode(s)}
          /\ EdgesOf(s) = Sections(c)
      BY <2>1, <2>2, <3>1 DEF ReadsAlone
    <3>3. frame'[r] = p /\ \A q \in Runners : q # r => frame'[q] = frame[q]
      BY <2>1 DEF TypeOK
    <3>4. \A q \in Runners : ~Reads(q, s)'
      BY <2>0, <3>1, <3>3 DEF Reads
    <3>5. \A q \in Runners : ~(frame'[q].snapshot = s /\ frame'[q].pc = "audit")
      BY <2>0, <3>2, <3>3 DEF Whole, Good, Completed
    <3>6. EventsOf(s) = {}
      BY <3>2 DEF EventsOf, Whole, EventsCountWhole
    <3>7. CompletedBy(c, s)'
      BY <2>2, <2>3, <2>5, <3>2, <3>5, <3>6 DEF CompletedBy, RootNode, Sections
    <3>8. FilesOnce(s)'
      BY <1>1, <2>3 DEF Once, FilesOnce, RootNode
    <3> QED
      BY <2>2, <3>4, <3>7, <3>8 DEF Once, OneReads
  <2> QED
    BY <2>4, <2>5
<1>8. CASE CountNodes(r)
  <2> DEFINE k == Cardinality(NodesOf(frame[r].snapshot))
             p == [frame[r] EXCEPT !.pc = "audit", !.count = k]
  <2>1. /\ frame[r].pc = "count"
        /\ frame' = [frame EXCEPT ![r] = p]
        /\ UNCHANGED <<status, nodes, edges, events, completions>>
    BY <1>8 DEF CountNodes, tables, outsideTables
  <2>2. p.pc = "audit" /\ p.snapshot = frame[r].snapshot /\ p.count = k
    BY <1>0 DEF Frame
  <2>3. frame[r].snapshot = s => k = Cardinality(NodesOf(s))
    OBVIOUS
  <2> HIDE DEF k, p
  <2>4. /\ NodesOf(s)' = NodesOf(s) /\ EdgesOf(s)' = EdgesOf(s)
        /\ EventsOf(s)' = EventsOf(s) /\ Completed(s)' = Completed(s)
    BY <2>1 DEF NodesOf, EdgesOf, EventsOf, Completed
  <2>5. CASE frame[r].snapshot # s
    BY <1>1, <2>1, <2>2, <2>4, <2>5, OnceStays
  <2>6. CASE frame[r].snapshot = s
    <3>1. PICK c \in completions : CompletedBy(c, s)
      BY <1>0, <1>1, <2>1, <2>6 DEF Good, Once, Completed
    <3>2. c.files \in SUBSET Paths
      BY DEF TypeOK, Completion
    <3>3. k = Cardinality(c.files) + 1
      BY <2>3, <2>6, <3>1, <3>2, WholeCount DEF CompletedBy
    <3>4. frame'[r] = p /\ \A q \in Runners : q # r => frame'[q] = frame[q]
      BY <2>1 DEF TypeOK
    <3>5. \A q \in Runners : frame'[q].snapshot = s /\ frame'[q].pc = "audit" =>
                                 frame'[q].count = Cardinality(c.files) + 1
      BY <2>2, <3>1, <3>3, <3>4 DEF CompletedBy
    <3>6. CompletedBy(c, s)'
      BY <2>4, <3>1, <3>5 DEF CompletedBy, Sections, RootNode
    <3>7. \A q \in Runners : ~Reads(q, s)'
      BY <1>0, <1>1, <2>1, <2>2, <2>6, <3>4 DEF Reads, Once, ReadsAlone, Good, Completed
    <3>8. FilesOnce(s)'
      BY <1>1, <2>4 DEF Once, FilesOnce, RootNode
    <3> QED
      BY <2>1, <3>6, <3>7, <3>8 DEF Once, OneReads
  <2> QED
    BY <2>5, <2>6
<1>9. CASE RecordIngested(r)
  <2> DEFINE e == [snapshot |-> frame[r].snapshot, count |-> frame[r].count]
  <2>1. /\ frame[r].pc = "audit"
        /\ events' = events \cup {e}
        /\ UNCHANGED <<status, nodes, edges, completions>>
    BY <1>9 DEF RecordIngested, outsideTables
  <2>2. e.snapshot = frame[r].snapshot /\ e.count = frame[r].count
    OBVIOUS
  <2> HIDE DEF e
  <2>3. PICK p : frame' = [frame EXCEPT ![r] = p] /\ p.pc \in {"idle", "ack"}
    <3>1. [frame[r] EXCEPT !.pc = "ack"].pc = "ack" /\ Idle.pc = "idle"
      BY <1>0 DEF Frame, Idle, On
    <3> QED
      BY <1>9, <3>1 DEF RecordIngested
  <2>4. NodesOf(s)' = NodesOf(s) /\ EdgesOf(s)' = EdgesOf(s) /\ Completed(s)' = Completed(s)
    BY <2>1 DEF NodesOf, EdgesOf, Completed
  <2>5. CASE frame[r].snapshot # s
    <3>1. EventsOf(s)' = EventsOf(s)
      BY <2>1, <2>2, <2>5 DEF EventsOf
    <3> QED
      BY <1>1, <2>1, <2>3, <2>4, <3>1, OnceStays
  <2>6. CASE frame[r].snapshot = s
    <3>1. PICK c \in completions : CompletedBy(c, s)
      BY <1>0, <1>1, <2>1, <2>6 DEF Good, Once, Completed
    <3>2. \A x \in EventsOf(s)' : x.count = Cardinality(c.files) + 1
      BY <2>1, <2>2, <2>6, <3>1 DEF CompletedBy, EventsOf
    <3>3. frame'[r] = p /\ \A q \in Runners : q # r => frame'[q] = frame[q]
      BY <2>3 DEF TypeOK
    <3>4. \A q \in Runners : frame'[q].snapshot = s /\ frame'[q].pc = "audit" =>
                                 frame'[q].count = Cardinality(c.files) + 1
      BY <2>3, <3>1, <3>3 DEF CompletedBy
    <3>5. CompletedBy(c, s)'
      BY <2>4, <3>1, <3>2, <3>4 DEF CompletedBy, Sections, RootNode
    <3>6. \A q \in Runners : ~Reads(q, s)'
      BY <1>0, <1>1, <2>1, <2>3, <2>6, <3>3 DEF Reads, Once, ReadsAlone, Good, Completed
    <3>7. FilesOnce(s)'
      BY <1>1, <2>4 DEF Once, FilesOnce, RootNode
    <3> QED
      BY <2>1, <3>5, <3>6, <3>7 DEF Once, OneReads
  <2> QED
    BY <2>5, <2>6
<1> QED
  BY <1>2, <1>3, <1>4, <1>5, <1>6, <1>7, <1>8, <1>9 DEF ContinueStep

\* create_pending_snapshot and a request that ends early.
LEMMA ThreadIsOnce ==
    ASSUME TypeOK, Whole, Grows, OnceInv, NEW t \in Threads,
           CreateSnapshot(t) \/ CreateRoot(t) \/ RequestFails(t),
           NEW s \in DOMAIN status', s \notin repeated'
    PROVE  Once(s)'
<1>0. t \in Runners /\ frame[t] \in Frame /\ Good(t)
  BY DEF TypeOK, Whole, Runners
<1>1. repeated' = repeated
  BY DEF CreateSnapshot, CreateRoot, RequestFails, outsideTables
<1>2. CASE CreateSnapshot(t)
  <2> DEFINE p == On(Len(status) + 1, "root", 0)
  <2>1. /\ status' = Append(status, "pending")
        /\ frame' = [frame EXCEPT ![t] = p]
        /\ UNCHANGED <<nodes, edges, events, completions>>
    BY <1>2 DEF CreateSnapshot, outsideTables
  <2>2. p.pc = "root"
    BY DEF On
  <2> HIDE DEF p
  <2>3. NodesOf(s)' = NodesOf(s) /\ EdgesOf(s)' = EdgesOf(s) /\ EventsOf(s)' = EventsOf(s)
    BY <2>1 DEF NodesOf, EdgesOf, EventsOf
  <2>4. CASE s \in DOMAIN status
    <3>1. Completed(s)' = Completed(s) /\ Once(s)
      BY <1>1, <2>1, <2>4, AppendGrows, StatusIsSeq DEF Completed, OnceInv
    <3> QED
      BY <1>0, <2>1, <2>2, <2>3, <3>1, OnceStays
  <2>5. CASE s \notin DOMAIN status
    <3>1. ~Completed(s)'
      BY <2>1, <2>5, AppendGrows, StatusIsSeq DEF Completed
    <3>2. NodesOf(s) = {}
      BY <2>5 DEF NodesOf, Whole, NodesBelong
    <3>3. \A q \in Runners : ~Reads(q, s)
      <4>1. RootNode(s) \notin nodes
        BY <3>2 DEF NodesOf, RootNode
      <4> QED
        BY <4>1 DEF Reads, Whole, Good
    <3>4. \A q \in Runners : ~Reads(q, s)'
      BY <1>0, <2>1, <2>2, <3>3 DEF Reads, TypeOK
    <3>5. FilesOnce(s)'
      BY <2>3, <3>2 DEF FilesOnce, RootNode
    <3> QED
      BY <3>1, <3>4, <3>5 DEF Once, OneReads
  <2> QED
    BY <2>4, <2>5
<1>3. CASE CreateRoot(t)
  <2>1. /\ frame[t].pc = "root"
        /\ nodes' = nodes \cup {RootNode(frame[t].snapshot)}
        /\ UNCHANGED <<status, edges, events, completions>>
    BY <1>3 DEF CreateRoot, outsideTables
  <2>2. PICK p : frame' = [frame EXCEPT ![t] = p] /\ p.pc \in {"check", "idle"}
    <3>1. [frame[t] EXCEPT !.pc = "check"].pc = "check" /\ Idle.pc = "idle"
      BY <1>0 DEF Frame, Idle, On
    <3> QED
      BY <1>3, <3>1 DEF CreateRoot, Goto
  <2>3. EdgesOf(s)' = EdgesOf(s) /\ EventsOf(s)' = EventsOf(s) /\ Completed(s)' = Completed(s)
    BY <2>1 DEF EdgesOf, EventsOf, Completed
  <2>4. Once(s)
    BY <1>1, <2>1 DEF OnceInv
  <2>5. CASE frame[t].snapshot # s \/ RootNode(s) \in nodes
    <3>1. NodesOf(s)' = NodesOf(s)
      BY <2>1, <2>5 DEF NodesOf, RootNode
    <3> QED
      BY <1>0, <2>1, <2>2, <2>3, <2>4, <3>1, OnceStays
  <2>6. CASE frame[t].snapshot = s /\ RootNode(s) \notin nodes
    <3>1. NodesOf(s)' = NodesOf(s) \cup {RootNode(s)}
      BY <2>1, <2>6 DEF NodesOf, RootNode
    <3>2. ~Completed(s)'
      BY <2>3, <2>6 DEF Completed, Whole, CompletedHas, CompletionsWhole
    <3>3. \A q \in Runners : ~Reads(q, s)
      BY <2>6 DEF Reads, Whole, Good
    <3>4. \A q \in Runners : ~Reads(q, s)'
      BY <1>0, <2>2, <3>3 DEF Reads, TypeOK
    <3>5. FilesOnce(s)'
      BY <2>4, <3>1 DEF Once, FilesOnce, RootNode
    <3> QED
      BY <3>2, <3>4, <3>5 DEF Once, OneReads
  <2> QED
    BY <2>5, <2>6
<1>4. CASE RequestFails(t)
  <2>1. /\ frame' = [frame EXCEPT ![t] = Idle]
        /\ UNCHANGED <<status, nodes, edges, events, completions>>
    BY <1>4 DEF RequestFails, tables, outsideTables
  <2>2. Idle.pc = "idle"
    BY DEF Idle, On
  <2>3. Once(s)
    BY <1>1, <2>1 DEF OnceInv
  <2> QED
    BY <1>0, <2>1, <2>2, <2>3, OnceStays DEF NodesOf, EdgesOf, EventsOf, Completed
<1> QED
  BY <1>2, <1>3, <1>4

\* The worker's side of the broker.
LEMMA BrokerIsOnce ==
    ASSUME TypeOK, OnceInv, NEW w \in Workers,
           \/ \E m \in Message : Receive(w, m)
           \/ Raise(w) \/ Ack(w) \/ WorkerLost(w),
           NEW s \in DOMAIN status, s \notin repeated'
    PROVE  Once(s)'
<1>1. w \in Runners
  BY DEF Runners
<1>2. UNCHANGED <<status, nodes, edges, events, completions, repeated>>
  BY DEF Receive, Raise, Ack, WorkerLost, tables, outsideTables
<1>3. \E p : frame' = [frame EXCEPT ![w] = p] /\ p.pc \in {"idle", "check"}
  <2>1. Idle.pc = "idle" /\ \A m \in Message : On(m.snapshot, "check", m.retries).pc = "check"
    BY DEF Idle, On
  <2> QED
    BY <2>1 DEF Receive, Raise, Ack, WorkerLost
<1>4. Once(s)
  BY <1>2 DEF OnceInv
<1> QED
  BY <1>1, <1>2, <1>3, <1>4, OnceStays DEF NodesOf, EdgesOf, EventsOf, Completed

LEMMA EdgesKeepFiles ==
    ASSUME TypeOK, EdgesLeaveFiles, [Next]_vars
    PROVE  EdgesLeaveFiles'
<1>1. \/ edges' = edges
      \/ \E r \in Runners : edges' = edges \cup Sections(frame[r])
  <2>1. ASSUME NEW r \in Runners, ContinueStep(r)
        PROVE  edges' = edges \/ edges' = edges \cup Sections(frame[r])
    BY <2>1, ContinueWrites
  <2>2. ASSUME NEW t \in Threads, CreateSnapshot(t) \/ CreateRoot(t) \/ RequestFails(t)
        PROVE  edges' = edges
    BY <2>2 DEF CreateSnapshot, CreateRoot, RequestFails, tables
  <2>3. ASSUME NEW w \in Workers,
               \/ \E m \in Message : Receive(w, m)
               \/ Raise(w) \/ Ack(w) \/ WorkerLost(w) \/ DeliverAgain(w)
        PROVE  edges' = edges
    BY <2>3 DEF Receive, Raise, Ack, WorkerLost, DeliverAgain, tables
  <2>4. ASSUME NEW s \in DOMAIN status, Send(s)
        PROVE  edges' = edges
    BY <2>4 DEF Send, tables
  <2>5. UNCHANGED vars => edges' = edges
    BY DEF vars, tables
  <2> QED
    BY <2>1, <2>2, <2>3, <2>4, <2>5 DEF Next, TaskStep, TaskRaises, RootMissing, Runners
<1>2. ASSUME NEW r \in Runners
      PROVE  \A e \in Sections(frame[r]) : e.file \in Paths
  BY SectionsHaveFiles DEF TypeOK, Frame
<1> QED
  BY <1>1, <1>2 DEF EdgesLeaveFiles

LEMMA OnceInductive ==
    ASSUME TypeOK, IsFiniteSet(nodes), Whole, OnceInv, [Next]_vars
    PROVE  OnceInv'
<1>0. Grows /\ EdgesLeaveFiles'
  BY StepGrows, EdgesKeepFiles DEF OnceInv
<1> SUFFICES ASSUME NEW s \in DOMAIN status', s \notin repeated'
             PROVE  Once(s)'
  BY <1>0 DEF OnceInv
<1>1. ASSUME NEW r \in Runners, ContinueStep(r)
      PROVE  Once(s)'
  <2>1. DOMAIN status' = DOMAIN status
    BY <1>1, ContinueWrites
  <2> QED
    BY <1>0, <1>1, <2>1, ContinueIsOnce
<1>2. ASSUME NEW t \in Threads, CreateSnapshot(t) \/ CreateRoot(t) \/ RequestFails(t)
      PROVE  Once(s)'
  BY <1>0, <1>2, ThreadIsOnce
<1>3. ASSUME NEW w \in Workers,
             \/ \E m \in Message : Receive(w, m)
             \/ Raise(w) \/ Ack(w) \/ WorkerLost(w)
      PROVE  Once(s)'
  <2>1. status' = status
    BY <1>3 DEF Receive, Raise, Ack, WorkerLost, tables
  <2> QED
    BY <1>3, <2>1, BrokerIsOnce
<1>4. ASSUME UNCHANGED <<tables, frame, completions, repeated>>
      PROVE  Once(s)'
  <2>1. Once(s)
    BY <1>4 DEF OnceInv, tables
  <2> QED
    BY <1>4, <2>1 DEF Once, FilesOnce, OneReads, Reads, ReadsAlone, CompletedBy, EventsOf,
       EdgesOf, NodesOf, Completed, Sections, RootNode, tables
<1>5. ASSUME NEW w \in Workers, DeliverAgain(w)
      PROVE  UNCHANGED <<tables, frame, completions, repeated>>
  BY <1>5 DEF DeliverAgain
<1>6. ASSUME NEW m \in DOMAIN status, Send(m)
      PROVE  UNCHANGED <<tables, frame, completions, repeated>>
  BY <1>6 DEF Send
<1>7. UNCHANGED vars => UNCHANGED <<tables, frame, completions, repeated>>
  BY DEF vars
<1> QED
  BY <1>1, <1>2, <1>3, <1>4, <1>5, <1>6, <1>7
     DEF Next, TaskStep, TaskRaises, RootMissing, Runners

\* Unless its source was read by two calls at once, or again after a call had stored its
\* nodes, a COMPLETED snapshot holds what one call read, each file once, with its edges,
\* and every audit event of it has counted exactly that.
THEOREM IngestedOnce == Spec => []IngestedOnceUnlessRepeated
<1>1. Init => OnceInv
  <2>1. ASSUME Init
        PROVE  DOMAIN status = {} /\ edges = {}
    BY <2>1 DEF Init
  <2> QED
    BY <2>1 DEF OnceInv, EdgesLeaveFiles
<1>2. TypeOK /\ IsFiniteSet(nodes) /\ Whole /\ OnceInv /\ [Next]_vars => OnceInv'
  BY OnceInductive
<1>3. OnceInv => IngestedOnceUnlessRepeated
  <2> SUFFICES ASSUME OnceInv, NEW s \in DOMAIN status, s \notin repeated
               PROVE  /\ \A m, n \in NodesOf(s) : m.file = n.file => m = n
                      /\ Completed(s) =>
                             \E c \in completions :
                                 /\ c.snapshot = s
                                 /\ NodesOf(s) = Sections(c) \cup {RootNode(s)}
                                 /\ {e \in edges : e.snapshot = s} = Sections(c)
                                 /\ \A e \in events :
                                        e.snapshot = s => e.count = Cardinality(c.files) + 1
    BY DEF IngestedOnceUnlessRepeated
  <2>1. Once(s)
    BY DEF OnceInv
  <2>2. \A m, n \in NodesOf(s) : m.file = n.file => m = n
    BY <2>1 DEF Once, FilesOnce
  <2>3. ASSUME Completed(s)
        PROVE  \E c \in completions :
                   /\ c.snapshot = s
                   /\ NodesOf(s) = Sections(c) \cup {RootNode(s)}
                   /\ {e \in edges : e.snapshot = s} = Sections(c)
                   /\ \A e \in events :
                          e.snapshot = s => e.count = Cardinality(c.files) + 1
    <3>1. PICK c \in completions : CompletedBy(c, s)
      BY <2>1, <2>3 DEF Once
    <3> QED
      BY <3>1 DEF CompletedBy, EdgesOf, EventsOf
  <2> QED
    BY <2>2, <2>3
<1> QED
  BY <1>1, <1>2, <1>3, TypeCorrect, AlwaysWhole, PTL DEF Spec
=============================================================================
