--------------------------- MODULE SnapshotIngest ---------------------------
(***************************************************************************)
(* The ingestion of a source into a snapshot.  A connector commits a       *)
(* PENDING snapshot, then its root node; continue_ingest reads the source  *)
(* and commits the nodes, then the edges, then the COMPLETED status.  An   *)
(* API thread does all of it in one request; or the pending snapshot is    *)
(* left to the worker task lattice_jit.snapshot.continue_ingest, which the *)
(* broker delivers at least once.  The git, Confluence and SharePoint      *)
(* connectors share this shape; the PDF connector is the thread's part     *)
(* without the check.  Every repository call is one transaction and one    *)
(* step here.                                                              *)
(*                                                                         *)
(* Snapshots are numbered in the order of created_at.  A call of           *)
(* continue_ingest gives every file a fresh node id, so a node is a file   *)
(* together with the number of the call that made it, counted as the calls *)
(* store their nodes; the root node of a snapshot is the file Root of      *)
(* call 0.  Every edge is a BELONGS_TO edge to the root, so it is          *)
(* identified with the node it comes from.                                 *)
(***************************************************************************)
EXTENDS Integers, FiniteSets, Sequences

CONSTANTS
    Paths,         \* files, pages or documents of the source
    Root,
    Trees,         \* the sets of files the source may hold when it is read
    Threads,       \* API threads
    Workers,       \* Celery worker processes
    MaxRetries,    \* settings.celery_task_max_retries
    MaxSnapshots,  \* bound: snapshots created
    MaxSent,       \* bound: tasks sent
    MaxLost,       \* bound: workers lost
    MaxDuplicates  \* bound: second deliveries of a message still being worked on

ASSUME SourceAssumption ==
    /\ Root \notin Paths
    /\ Trees \subseteq SUBSET Paths
    /\ IsFiniteSet(Paths)
    /\ Threads \cap Workers = {}

ASSUME BoundsAssumption ==
    /\ MaxRetries \in Nat
    /\ MaxSnapshots \in Nat \ {0}
    /\ MaxSent \in Nat
    /\ MaxLost \in Nat
    /\ MaxDuplicates \in Nat

VARIABLES
    status,      \* table source_snapshots
    nodes,       \* table knowledge_nodes
    edges,       \* table knowledge_edges
    events,      \* the snapshot_ingested rows of table audit_events
    frame,       \* the locals of each thread and of each worker's task
    broker,      \* the copies of each message waiting in the broker
    gaveUp,      \* snapshots whose task failed with its retries used up
    sent,        \* tasks sent so far
    lost,        \* workers lost so far
    duplicates,  \* second deliveries so far
    completions, \* what the calls that set COMPLETED had read
    repeated     \* snapshots of which a call has begun beside or after another

tables == <<status, nodes, edges, events>>
counters == <<gaveUp, sent, lost, duplicates>>
vars == <<tables, frame, broker, counters, completions, repeated>>

(***************************************************************************)
(* Values.                                                                 *)
(***************************************************************************)
Snapshots == 1..MaxSnapshots

Node == [snapshot : Snapshots, file : Paths \cup {Root}, call : Nat]

RootNode(s) == [snapshot |-> s, file |-> Root, call |-> 0]

NodesOf(s) == {n \in nodes : n.snapshot = s}

Steps == {"idle", "root", "check", "gather", "nodes", "edges", "complete",
          "count", "audit", "ack"}

Frame == [pc : Steps, snapshot : Snapshots, call : Nat, files : SUBSET Paths,
          count : Nat, retries : 0..MaxRetries]

Event == [snapshot : Snapshots, count : Nat]

Message == [snapshot : Snapshots, retries : 0..MaxRetries]

Completion == [snapshot : Snapshots, call : Nat, files : SUBSET Paths]

On(s, step, retries) ==
    [pc |-> step, snapshot |-> s, call |-> 0, files |-> {}, count |-> 0, retries |-> retries]

Idle == On(1, "idle", 0)

Runners == Threads \cup Workers

\* The nodes of a call that read some files.
Sections(f) == {[snapshot |-> f.snapshot, file |-> p, call |-> f.call] : p \in f.files}

NewCall(s) == Cardinality({n.call : n \in NodesOf(s)} \ {0}) + 1

Goto(r, step) == frame' = [frame EXCEPT ![r] = [@ EXCEPT !.pc = step]]

-----------------------------------------------------------------------------
Init ==
    /\ status = <<>>
    /\ nodes = {}
    /\ edges = {}
    /\ events = {}
    /\ frame = [r \in Runners |-> Idle]
    /\ broker = [m \in Message |-> 0]
    /\ gaveUp = {}
    /\ sent = 0
    /\ lost = 0
    /\ duplicates = 0
    /\ completions = {}
    /\ repeated = {}

(***************************************************************************)
(* create_pending_snapshot.                                                *)
(***************************************************************************)
outsideTables == <<broker, counters, completions, repeated>>

CreateSnapshot(t) ==
    /\ frame[t].pc = "idle"
    /\ Len(status) < MaxSnapshots
    /\ status' = Append(status, "pending")
    /\ frame' = [frame EXCEPT ![t] = On(Len(status) + 1, "root", 0)]
    /\ UNCHANGED <<nodes, edges, events, outsideTables>>

\* ingest goes on with continue_ingest in the same thread; the caller of
\* create_pending_snapshot alone only gets the id.
CreateRoot(t) ==
    /\ frame[t].pc = "root"
    /\ nodes' = nodes \cup {RootNode(frame[t].snapshot)}
    /\ \/ Goto(t, "check")
       \/ frame' = [frame EXCEPT ![t] = Idle]
    /\ UNCHANGED <<status, edges, events, outsideTables>>

(***************************************************************************)
(* continue_ingest.                                                        *)
(***************************************************************************)
Completed(s) == s \in DOMAIN status /\ status[s] = "completed"

AlreadyCompleted(r) ==
    /\ frame[r].pc = "check"
    /\ Completed(frame[r].snapshot)
    /\ Goto(r, "count")
    /\ UNCHANGED <<tables, outsideTables>>

\* Mutant of MayContinue: the early return is missing.
HasRoot(s) == RootNode(s) \in nodes

MayContinue(s) == ~Completed(s) /\ RootNode(s) \in nodes

\* Another call reads the snapshot's source, or one has stored nodes and not got to
\* the status.
Reading(s) ==
    \E r \in Runners :
        frame[r].snapshot = s /\ frame[r].pc \in {"gather", "nodes", "edges", "complete"}
BegunBefore(s) == ~Completed(s) /\ (Reading(s) \/ NodesOf(s) # {RootNode(s)})

Continue(r) ==
    /\ frame[r].pc = "check"
    /\ MayContinue(frame[r].snapshot)
    /\ Goto(r, "gather")
    /\ repeated' = repeated \cup {s \in {frame[r].snapshot} : BegunBefore(s)}
    /\ UNCHANGED <<tables, broker, counters, completions>>

\* Mutant of Gather: the directory that is listed is taken for a file.
GatherDirectories(r) ==
    /\ frame[r].pc = "gather"
    /\ \E S \in Trees :
           frame' = [frame EXCEPT ![r] = [@ EXCEPT !.pc = "nodes", !.files = S \cup {Root}]]
    /\ UNCHANGED <<tables, outsideTables>>

\* _iter_files, _iter_pages or _enumerate_files and the downloads.
Gather(r) ==
    /\ frame[r].pc = "gather"
    /\ \E S \in Trees :
           frame' = [frame EXCEPT ![r] = [@ EXCEPT !.pc = "nodes", !.files = S]]
    /\ UNCHANGED <<tables, outsideTables>>

\* Mutant of StoreNodes: the edges are forgotten.
StoreNodesOnly(r) ==
    LET f == [frame[r] EXCEPT !.call = NewCall(frame[r].snapshot)]
    IN  /\ f.pc = "nodes"
        /\ nodes' = nodes \cup Sections(f) \cup {RootNode(f.snapshot)}
        /\ frame' = [frame EXCEPT ![r] = [f EXCEPT !.pc = "complete"]]
        /\ UNCHANGED <<status, edges, events, outsideTables>>

\* The root is stored again with the sections.
StoreNodes(r) ==
    LET f == [frame[r] EXCEPT !.call = NewCall(frame[r].snapshot)]
    IN  /\ f.pc = "nodes"
        /\ nodes' = nodes \cup Sections(f) \cup {RootNode(f.snapshot)}
        /\ frame' = [frame EXCEPT ![r] = [f EXCEPT !.pc = "edges"]]
        /\ UNCHANGED <<status, edges, events, outsideTables>>

StoreEdges(r) ==
    /\ frame[r].pc = "edges"
    /\ edges' = edges \cup Sections(frame[r])
    /\ Goto(r, "complete")
    /\ UNCHANGED <<status, nodes, events, outsideTables>>

\* mark_snapshot_completed.
Complete(r) ==
    LET f == frame[r]
    IN  /\ f.pc = "complete"
        /\ status' = [status EXCEPT ![f.snapshot] = "completed"]
        /\ completions' = completions \cup
               {[snapshot |-> f.snapshot, call |-> f.call, files |-> f.files]}
        /\ frame' = [frame EXCEPT ![r] = On(f.snapshot, "count", f.retries)]
        /\ UNCHANGED <<nodes, edges, events, broker, counters, repeated>>

\* The endpoint and the task both count the nodes for the audit event.
CountNodes(r) ==
    /\ frame[r].pc = "count"
    /\ frame' = [frame EXCEPT ![r] =
           [@ EXCEPT !.pc = "audit", !.count = Cardinality(NodesOf(frame[r].snapshot))]]
    /\ UNCHANGED <<tables, outsideTables>>

\* record_snapshot_ingested: the end of a request, and all but the end of a task.
RecordIngested(r) ==
    /\ frame[r].pc = "audit"
    /\ events' = events \cup {[snapshot |-> frame[r].snapshot, count |-> frame[r].count]}
    /\ frame' = [frame EXCEPT ![r] =
           IF r \in Workers THEN [@ EXCEPT !.pc = "ack"] ELSE Idle]
    /\ UNCHANGED <<status, nodes, edges, outsideTables>>

\* A source that cannot be read, a failed commit, a dead process.
RequestFails(t) ==
    /\ frame[t].pc # "idle"
    /\ frame' = [frame EXCEPT ![t] = Idle]
    /\ UNCHANGED <<tables, outsideTables>>

(***************************************************************************)
(* The worker task lattice_jit.snapshot.continue_ingest.                   *)
(***************************************************************************)
\* Anyone may send it for a snapshot of the table, more than once.
Send(s) ==
    /\ sent < MaxSent
    /\ sent' = sent + 1
    /\ broker' = [broker EXCEPT ![[snapshot |-> s, retries |-> 0]] = @ + 1]
    /\ UNCHANGED <<tables, frame, gaveUp, lost, duplicates, completions, repeated>>

Receive(w, m) ==
    /\ frame[w].pc = "idle"
    /\ broker[m] > 0
    /\ broker' = [broker EXCEPT ![m] = @ - 1]
    /\ frame' = [frame EXCEPT ![w] = On(m.snapshot, "check", m.retries)]
    /\ UNCHANGED <<tables, counters, completions, repeated>>

Held(w) == [snapshot |-> frame[w].snapshot, retries |-> frame[w].retries]

\* autoretry_for=(Exception,) until max_retries is used up.
Raise(w) ==
    /\ frame' = [frame EXCEPT ![w] = Idle]
    /\ IF frame[w].retries < MaxRetries
       THEN /\ broker' = [broker EXCEPT ![[Held(w) EXCEPT !.retries = @ + 1]] = @ + 1]
            /\ UNCHANGED gaveUp
       ELSE /\ gaveUp' = gaveUp \cup {frame[w].snapshot}
            /\ UNCHANGED broker
    /\ UNCHANGED <<tables, sent, lost, duplicates, completions, repeated>>

\* "Root node ... was not found for snapshot ...": the request that created the
\* snapshot ended before it stored the root.
RootMissing(w) ==
    /\ frame[w].pc = "check"
    /\ ~Completed(frame[w].snapshot)
    /\ RootNode(frame[w].snapshot) \notin nodes
    /\ Raise(w)

TaskRaises(w) ==
    /\ frame[w].pc # "idle"
    /\ Raise(w)

Ack(w) ==
    /\ frame[w].pc = "ack"
    /\ frame' = [frame EXCEPT ![w] = Idle]
    /\ UNCHANGED <<tables, outsideTables>>

\* Mutant of WorkerLost: the task is acknowledged when it is received.
AckedEarly(w) ==
    /\ frame[w].pc # "idle"
    /\ lost < MaxLost
    /\ lost' = lost + 1
    /\ frame' = [frame EXCEPT ![w] = Idle]
    /\ UNCHANGED <<tables, broker, gaveUp, sent, duplicates, completions, repeated>>

\* The worker dies: its unacknowledged message is back in the queue.
WorkerLost(w) ==
    /\ frame[w].pc # "idle"
    /\ lost < MaxLost
    /\ lost' = lost + 1
    /\ broker' = [broker EXCEPT ![Held(w)] = @ + 1]
    /\ frame' = [frame EXCEPT ![w] = Idle]
    /\ UNCHANGED <<tables, gaveUp, sent, duplicates, completions, repeated>>

\* The visibility timeout of the broker passes while the worker is still busy.
DeliverAgain(w) ==
    /\ frame[w].pc # "idle"
    /\ duplicates < MaxDuplicates
    /\ duplicates' = duplicates + 1
    /\ broker' = [broker EXCEPT ![Held(w)] = @ + 1]
    /\ UNCHANGED <<tables, frame, gaveUp, sent, lost, completions, repeated>>

-----------------------------------------------------------------------------
ContinueStep(r) ==
    \/ AlreadyCompleted(r) \/ Continue(r) \/ Gather(r) \/ StoreNodes(r) \/ StoreEdges(r)
    \/ Complete(r) \/ CountNodes(r) \/ RecordIngested(r)

TaskStep(w) ==
    \/ \E m \in Message : Receive(w, m)
    \/ ContinueStep(w) \/ RootMissing(w) \/ Ack(w)

Next ==
    \/ \E t \in Threads :
           CreateSnapshot(t) \/ CreateRoot(t) \/ ContinueStep(t) \/ RequestFails(t)
    \/ \E s \in DOMAIN status : Send(s)
    \/ \E w \in Workers :
           TaskStep(w) \/ TaskRaises(w) \/ WorkerLost(w) \/ DeliverAgain(w)

Spec == Init /\ [][Next]_vars

\* The workers take what is in the queue and go on with it.
FairSpec == Spec /\ \A w \in Workers : WF_vars(TaskStep(w))

-----------------------------------------------------------------------------
(***************************************************************************)
(* Properties.                                                             *)
(***************************************************************************)

\* Every variable keeps the shape the code gives it.
TypeOK ==
    /\ status \in Seq({"pending", "completed"}) /\ Len(status) <= MaxSnapshots
    /\ nodes \subseteq Node
    /\ edges \subseteq Node
    /\ events \subseteq Event
    /\ frame \in [Runners -> Frame]
    /\ broker \in [Message -> Nat]
    /\ gaveUp \subseteq Snapshots
    /\ sent \in 0..MaxSent
    /\ lost \in 0..MaxLost
    /\ duplicates \in 0..MaxDuplicates
    /\ completions \subseteq Completion
    /\ repeated \subseteq Snapshots

\* A snapshot that says COMPLETED holds its root and all that some one call read, with
\* the edges: the order of the three commits of continue_ingest survives crashes,
\* redeliveries and a request and a task that work on the snapshot at once.
CompletedIsWhole ==
    \A s \in DOMAIN status :
        status[s] = "completed" =>
            \E c \in completions :
                /\ c.snapshot = s
                /\ Sections(c) \subseteq nodes \cap edges
                /\ RootNode(s) \in nodes

\* A file is in a snapshot twice, an edge is missing or the count in the audit event is
\* off only if a call of continue_ingest began while another was reading, or after one
\* had stored its nodes (service.py:89, :114) and died.  However often a task is sent,
\* delivered or retried besides, a COMPLETED snapshot is what one call read: each file
\* once, under the root, and counted.
IngestedOnceUnlessRepeated ==
    \A s \in DOMAIN status : s \notin repeated =>
        /\ \A m, n \in NodesOf(s) : m.file = n.file => m = n
        /\ Completed(s) =>
               \E c \in completions :
                   /\ c.snapshot = s
                   /\ NodesOf(s) = Sections(c) \cup {RootNode(s)}
                   /\ {e \in edges : e.snapshot = s} = Sections(c)
                   /\ \A e \in events :
                          e.snapshot = s => e.count = Cardinality(c.files) + 1

\* No edge is ever stored before both nodes it joins are.
EdgesHaveNodes ==
    \A e \in edges : e \in nodes /\ RootNode(e.snapshot) \in nodes

\* snapshot_ingested is only recorded of a COMPLETED snapshot, and its node_count is
\* not less than what the call that completed it had read.
EventsCountWhole ==
    \A e \in events :
        /\ Completed(e.snapshot)
        /\ \E c \in completions :
               c.snapshot = e.snapshot /\ e.count >= Cardinality(c.files) + 1

Settled(s) == Completed(s) /\ ~Reading(s)

EdgesOf(s) == {e \in edges : e.snapshot = s}

\* Once a snapshot is COMPLETED and the calls that had begun before have ended, no
\* redelivery works on it or changes it again: the early return of continue_ingest.
SettledIsFrozen ==
    [][\A s \in DOMAIN status :
          Settled(s) =>
              Settled(s)' /\ NodesOf(s)' = NodesOf(s) /\ EdgesOf(s)' = EdgesOf(s)]_vars

\* A task that was sent is not forgotten: its snapshot becomes COMPLETED unless the task
\* uses up its retries.
SentIsIngested ==
    \A s \in Snapshots :
        (\E m \in Message : m.snapshot = s /\ broker[m] > 0) ~> (Completed(s) \/ s \in gaveUp)
=============================================================================
