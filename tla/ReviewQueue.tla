----------------------------- MODULE ReviewQueue -----------------------------
(***************************************************************************)
(* The review queue and the review state of the nodes.  API threads report *)
(* uncertain answers (maybe_queue_review), reviewers approve and reject    *)
(* items, and the governance scan rewrites nodes, all at the same time.    *)
(* Each reads rows in one transaction and writes the whole row back in     *)
(* another (session.merge), so what happened in between is overwritten.    *)
(*                                                                         *)
(* A member of Facts stands for a fact_fingerprint.  It is a hash of the   *)
(* query class and of the first evidence, so the canonical node is a       *)
(* function of it; the risk is not, for OPA may answer differently each    *)
(* time.  Item ids are allocated in the order of created_at.               *)
(***************************************************************************)
EXTENDS Integers, FiniteSetsExt

CONSTANTS
    Facts,       \* fact fingerprints
    Nodes,       \* knowledge nodes of the tenant
    NodeOf,      \* the canonical node of each fact, NoNode without evidence
    NoNode,
    Shedding,    \* settings.load_shedding_enabled
    Callers,     \* API threads that report answers
    Reviewers,   \* API threads that approve or reject
    Scans,       \* governance scan tasks
    MaxReports,  \* bound: calls of maybe_queue_review in a behaviour
    MaxReviews   \* bound: reviews in a behaviour

ASSUME FactsAssumption ==
    /\ Facts # {}
    /\ NodeOf \in [Facts -> Nodes \cup {NoNode}]
    /\ NoNode \notin Nodes
    /\ Shedding \in BOOLEAN

ASSUME BoundsAssumption ==
    /\ MaxReports \in Nat
    /\ MaxReviews \in Nat

Ids == Nat \ {0}
NoId == 0

VARIABLES
    items,     \* table review_queue, by id
    nodes,     \* review_state of each row of knowledge_nodes
    log,       \* table audit_events, as far as it is about reviews
    caller,    \* the locals of each call of maybe_queue_review
    reviewer,  \* the locals of each call of approve_review or reject_review
    scan,      \* the locals of each governance scan
    nextId,    \* the id (and created_at) the next candidate will get
    reviews,   \* reviews started so far
    observed,  \* reports of each fact that were stored
    raced,     \* facts that two reports at once have looked up
    disturbed  \* nodes of which something came between the steps of a review

reviewVars == <<reviewer, reviews>>
vars == <<items, nodes, log, caller, reviewVars, scan, nextId, observed, raced, disturbed>>

(***************************************************************************)
(* Values.                                                                 *)
(***************************************************************************)
Decisions == {"APPROVED", "REJECTED"}
NodeStates == {"NONE"} \cup Decisions

\* LOW is never asked for.
Risks == {"MEDIUM", "HIGH"}

Item == [fact : Facts, count : Nat, risk : Risks, state : {"PENDING"} \cup Decisions]

Event == [type : {"queued"} \cup Decisions, item : Ids, risk : Risks]

Caller == [pc : {"idle", "find", "upsert", "audit"}, id : Ids, row : Item]

Reviewer == [pc : {"idle", "update", "audit", "getNode", "upsertNode"},
             item : Ids, risk : Risks, decision : Decisions]

Scan == [pc : {"unsent", "decay", "calibrate", "done"},
         read : [Nodes -> NodeStates], decayed : SUBSET Nodes]

\* Mutant of Candidate: it keeps the review state of a node.
UnsetCandidate(f, risk) == [fact |-> f, count |-> 1, risk |-> risk, state |-> "NONE"]

\* The ReviewItem a report proposes.
Candidate(f, risk) == [fact |-> f, count |-> 1, risk |-> risk, state |-> "PENDING"]

AnyFact == CHOOSE f \in Facts : TRUE

NoReport == [pc |-> "idle", id |-> 1, row |-> Candidate(AnyFact, "MEDIUM")]
NoReview == [pc |-> "idle", item |-> 1, risk |-> "MEDIUM", decision |-> "APPROVED"]
NoScan(step) == [pc |-> step, read |-> [n \in Nodes |-> "NONE"], decayed |-> {}]

-----------------------------------------------------------------------------
Init ==
    /\ items = [i \in {} |-> {}]
    /\ nodes = [n \in Nodes |-> "NONE"]
    /\ log = {}
    /\ caller = [c \in Callers |-> NoReport]
    /\ reviewer = [r \in Reviewers |-> NoReview]
    /\ scan = [s \in Scans |-> NoScan("unsent")]
    /\ nextId = 1
    /\ reviews = 0
    /\ observed = [f \in Facts |-> 0]
    /\ raced = {}
    /\ disturbed = {}

(***************************************************************************)
(* maybe_queue_review, for an answer that passes its first test, and       *)
(* LoadSheddingService.queue.                                              *)
(***************************************************************************)
otherThanCallers == <<nodes, reviewVars, scan>>

Report(c, f, risk) ==
    /\ caller[c].pc = "idle"
    /\ nextId <= MaxReports
    /\ caller' = [caller EXCEPT ![c] =
           [pc |-> "find", id |-> nextId, row |-> Candidate(f, risk)]]
    /\ nextId' = nextId + 1
    /\ UNCHANGED <<items, log, observed, raced, disturbed, otherThanCallers>>

\* repository.get_review_item_by_fingerprint: the newest item of the fact.
ItemsOf(f) == {i \in DOMAIN items : items[i].fact = f}

\* _max_risk.
Riskier(a, b) == IF "HIGH" \in {a, b} THEN "HIGH" ELSE "MEDIUM"

\* Mutant of Merged: the candidate replaces what was observed before.
MergedOnce(i, risk) ==
    [items[i] EXCEPT !.count = 1, !.risk = Riskier(@, risk)]

\* The existing item as it was read, with the candidate added to it.
Merged(i, risk) ==
    [items[i] EXCEPT !.count = @ + 1, !.risk = Riskier(@, risk)]

\* Between looking the fact up and writing its row.
Storing(c, f) == caller[c].pc = "upsert" /\ caller[c].row.fact = f
Overlapped(f) == IF \E d \in Callers : Storing(d, f) THEN {f} ELSE {}

FindExisting(c) ==
    /\ caller[c].pc = "find"
    /\ \E i \in ItemsOf(caller[c].row.fact) :
           /\ \A j \in ItemsOf(caller[c].row.fact) : j <= i
           /\ caller' = [caller EXCEPT ![c] =
                  [pc |-> "upsert", id |-> i, row |-> Merged(i, caller[c].row.risk)]]
    /\ raced' = raced \cup Overlapped(caller[c].row.fact)
    /\ UNCHANGED <<items, log, nextId, observed, disturbed, otherThanCallers>>

FindNothing(c) ==
    /\ caller[c].pc = "find"
    /\ ItemsOf(caller[c].row.fact) = {}
    /\ caller' = [caller EXCEPT ![c] = [@ EXCEPT !.pc = "upsert"]]
    /\ raced' = raced \cup Overlapped(caller[c].row.fact)
    /\ UNCHANGED <<items, log, nextId, observed, disturbed, otherThanCallers>>

\* Mutant of MayShed: the risk level is not looked at.
ShedAny(risk) == Shedding

\* _should_sample always keeps a high risk; the rest depends on the sample
\* rate, the rate of the tenant and a random number.
MayShed(risk) == Shedding /\ risk # "HIGH"

Shed(c) ==
    /\ caller[c].pc = "find"
    /\ ItemsOf(caller[c].row.fact) = {}
    /\ MayShed(caller[c].row.risk)
    /\ caller' = [caller EXCEPT ![c] = [@ EXCEPT !.pc = "audit"]]
    /\ UNCHANGED <<items, log, nextId, observed, raced, disturbed, otherThanCallers>>

\* The node of an item whose review state is about to be overwritten.
Overwritten(c) ==
    {n \in Nodes :
        /\ NodeOf[caller[c].row.fact] = n
        /\ caller[c].id \in DOMAIN items
        /\ items[caller[c].id].state # caller[c].row.state}

\* repository.upsert_review_item: session.merge writes every column.
Upsert(c) ==
    /\ caller[c].pc = "upsert"
    /\ items' = [i \in DOMAIN items \cup {caller[c].id} |->
           IF i = caller[c].id THEN caller[c].row ELSE items[i]]
    /\ observed' = [observed EXCEPT ![caller[c].row.fact] = @ + 1]
    /\ caller' = [caller EXCEPT ![c] = [@ EXCEPT !.pc = "audit"]]
    /\ disturbed' = disturbed \cup Overwritten(c)
    /\ UNCHANGED <<log, nextId, raced, otherThanCallers>>

\* review_queued is recorded whether or not the item was shed.
AuditQueued(c) ==
    /\ caller[c].pc = "audit"
    /\ log' = log \cup {[type |-> "queued", item |-> caller[c].id, risk |-> caller[c].row.risk]}
    /\ caller' = [caller EXCEPT ![c] = NoReport]
    /\ UNCHANGED <<items, nextId, observed, raced, disturbed, otherThanCallers>>

CallerFails(c) ==
    /\ caller[c].pc # "idle"
    /\ caller' = [caller EXCEPT ![c] = NoReport]
    /\ UNCHANGED <<items, log, nextId, observed, raced, disturbed, otherThanCallers>>

(***************************************************************************)
(* approve_review and reject_review: any item may be reviewed, whatever    *)
(* its state.                                                              *)
(***************************************************************************)
otherThanReviewers == <<caller, scan, nextId, observed, raced>>

\* Of the row that is read only the review state is kept here, and that is
\* replaced before the row is written.
CanonicalNode(i) == NodeOf[items[i].fact]

About(r, n) == reviewer[r].pc # "idle" /\ CanonicalNode(reviewer[r].item) = n


Review(r, i, d) ==
    /\ reviewer[r].pc = "idle"
    /\ reviews < MaxReviews
    /\ reviews' = reviews + 1
    /\ reviewer' = [reviewer EXCEPT ![r] =
           [pc |-> "update", item |-> i, risk |-> "MEDIUM", decision |-> d]]
    /\ disturbed' = disturbed \cup
           {n \in Nodes : CanonicalNode(i) = n /\ \E q \in Reviewers : About(q, n)}
    /\ UNCHANGED <<items, nodes, log, otherThanReviewers>>

\* repository.update_review_item_state touches two columns of the row, and
\* returns the row.
UpdateState(r) ==
    /\ reviewer[r].pc = "update"
    /\ items' = [items EXCEPT ![reviewer[r].item].state = reviewer[r].decision]
    /\ reviewer' = [reviewer EXCEPT ![r] =
           [@ EXCEPT !.pc = "audit", !.risk = items[reviewer[r].item].risk]]
    /\ UNCHANGED <<nodes, log, reviews, disturbed, otherThanReviewers>>

\* Mutant of AuditReview: the event of approvals is recorded for both.
AuditApproval(r) ==
    LET item == reviewer[r].item
    IN  /\ reviewer[r].pc = "audit"
        /\ log' = log \cup {[type |-> "APPROVED", item |-> item, risk |-> reviewer[r].risk]}
        /\ reviewer' = [reviewer EXCEPT ![r] = [@ EXCEPT !.pc = "getNode"]]
        /\ UNCHANGED <<items, nodes, reviews, disturbed, otherThanReviewers>>

AuditReview(r) ==
    LET item == reviewer[r].item
    IN  /\ reviewer[r].pc = "audit"
        /\ log' = log \cup
               {[type |-> reviewer[r].decision, item |-> item, risk |-> reviewer[r].risk]}
        /\ reviewer' = [reviewer EXCEPT ![r] = [@ EXCEPT !.pc = "getNode"]]
        /\ UNCHANGED <<items, nodes, reviews, disturbed, otherThanReviewers>>

\* Mutant of GetNode: the node of a rejected item is left as it is.
GetNodeToApprove(r) ==
    /\ reviewer[r].pc = "getNode"
    /\ reviewer' = [reviewer EXCEPT ![r] =
           IF CanonicalNode(reviewer[r].item) = NoNode \/ reviewer[r].decision = "REJECTED"
           THEN NoReview
           ELSE [@ EXCEPT !.pc = "upsertNode"]]
    /\ UNCHANGED <<items, nodes, log, reviews, disturbed, otherThanReviewers>>

GetNode(r) ==
    /\ reviewer[r].pc = "getNode"
    /\ reviewer' = [reviewer EXCEPT ![r] =
           IF CanonicalNode(reviewer[r].item) = NoNode
           THEN NoReview
           ELSE [@ EXCEPT !.pc = "upsertNode"]]
    /\ UNCHANGED <<items, nodes, log, reviews, disturbed, otherThanReviewers>>

UpsertNode(r) ==
    /\ reviewer[r].pc = "upsertNode"
    /\ nodes' = [nodes EXCEPT ![CanonicalNode(reviewer[r].item)] = reviewer[r].decision]
    /\ reviewer' = [reviewer EXCEPT ![r] = NoReview]
    /\ UNCHANGED <<items, log, reviews, disturbed, otherThanReviewers>>

ReviewFails(r) ==
    /\ reviewer[r].pc # "idle"
    /\ reviewer' = [reviewer EXCEPT ![r] = NoReview]
    /\ disturbed' = disturbed \cup
           {n \in Nodes : About(r, n) /\ reviewer[r].pc # "update"}
    /\ UNCHANGED <<items, nodes, log, reviews, otherThanReviewers>>

(***************************************************************************)
(* run_governance_scan, as far as it writes rows of nodes: it reads all of *)
(* them, writes back those whose confidence has decayed, and then these    *)
(* again together with those the calibration changed.                      *)
(***************************************************************************)
otherThanScans == <<items, log, caller, reviewVars, nextId, observed, raced>>

ScanRead(s) ==
    /\ scan[s].pc = "unsent"
    /\ \E D \in SUBSET Nodes :
           scan' = [scan EXCEPT ![s] = [pc |-> "decay", read |-> nodes, decayed |-> D]]
    /\ UNCHANGED <<nodes, disturbed, otherThanScans>>

Rewritten(s, S) == [n \in Nodes |-> IF n \in S THEN scan[s].read[n] ELSE nodes[n]]

Undone == {n \in Nodes : nodes'[n] # nodes[n]}

WriteDecayed(s) ==
    /\ scan[s].pc = "decay"
    /\ nodes' = Rewritten(s, scan[s].decayed)
    /\ scan' = [scan EXCEPT ![s] = [@ EXCEPT !.pc = "calibrate"]]
    /\ disturbed' = disturbed \cup Undone
    /\ UNCHANGED otherThanScans

WriteCalibrated(s) ==
    /\ scan[s].pc = "calibrate"
    /\ \E C \in SUBSET (Nodes \ scan[s].decayed) :
           nodes' = Rewritten(s, scan[s].decayed \cup C)
    /\ scan' = [scan EXCEPT ![s] = NoScan("done")]
    /\ disturbed' = disturbed \cup Undone
    /\ UNCHANGED otherThanScans

\* The task fails or its worker dies, and it is tried again from the start.
ScanRetried(s) ==
    /\ scan[s].pc \in {"decay", "calibrate"}
    /\ scan' = [scan EXCEPT ![s] = NoScan("unsent")]
    /\ UNCHANGED <<nodes, disturbed, otherThanScans>>

-----------------------------------------------------------------------------
CallerStep(c) ==
    \/ FindExisting(c) \/ FindNothing(c) \/ Shed(c) \/ Upsert(c) \/ AuditQueued(c)

ReviewStep(r) ==
    UpdateState(r) \/ AuditReview(r) \/ GetNode(r) \/ UpsertNode(r)

ScanStep(s) == ScanRead(s) \/ WriteDecayed(s) \/ WriteCalibrated(s) \/ ScanRetried(s)

Next ==
    \/ \E c \in Callers :
           \/ \E f \in Facts, risk \in Risks : Report(c, f, risk)
           \/ CallerStep(c)
           \/ CallerFails(c)
    \/ \E r \in Reviewers :
           \/ \E i \in DOMAIN items, d \in Decisions : Review(r, i, d)
           \/ ReviewStep(r)
           \/ ReviewFails(r)
    \/ \E s \in Scans : ScanStep(s)

Spec == Init /\ [][Next]_vars

-----------------------------------------------------------------------------
(***************************************************************************)
(* Properties.                                                             *)
(***************************************************************************)

\* Every variable keeps the shape the code gives it.
TypeOK ==
    /\ DOMAIN items \subseteq Ids
    /\ items \in [DOMAIN items -> Item]
    /\ nodes \in [Nodes -> NodeStates]
    /\ log \subseteq Event
    /\ caller \in [Callers -> Caller]
    /\ reviewer \in [Reviewers -> Reviewer]
    /\ scan \in [Scans -> Scan]
    /\ nextId \in Ids
    /\ reviews \in 0..MaxReviews
    /\ observed \in [Facts -> Nat]
    /\ raced \subseteq Facts
    /\ disturbed \subseteq Nodes

\* The dedup_counts of the items of a fact never add up to more than the reports of
\* it that were stored: concurrent reports of LoadSheddingService.queue lose counts
\* and make second items, but count nothing twice.
CountIsCovered ==
    LET count == [i \in DOMAIN items |-> items[i].count]
    IN  \A f \in Facts : SumFunctionOnSet(count, ItemsOf(f)) <= observed[f]

\* Observations are lost, or a fact gets a second item, only when two reports of it
\* overlap between reading the item and writing it (load_shedding.py:27 to :37): else a
\* fact has one item at most, and that has counted every report, whatever failed or was
\* reviewed in between.
CountIsExactUnlessRaced ==
    LET count == [i \in DOMAIN items |-> items[i].count]
    IN  \A f \in Facts \ raced :
            /\ Cardinality(ItemsOf(f)) <= 1
            /\ SumFunctionOnSet(count, ItemsOf(f)) = observed[f]

\* When review_queued is recorded for a high risk, or while load shedding is off, the
\* item it names is in the queue: only what _should_sample may drop is audited and
\* not there.
AuditedIsQueued ==
    \A e \in log :
        e.type = "queued" /\ (e.risk = "HIGH" \/ ~Shedding) => e.item \in DOMAIN items

\* A node never carries a decision that is not in the audit log, whoever wrote it
\* last: a review or a scan that puts back what it read before.
NodeDecisionIsAudited ==
    \A n \in Nodes :
        nodes[n] \in Decisions =>
            \E e \in log :
                /\ e.type = nodes[n]
                /\ e.item \in DOMAIN items
                /\ NodeOf[items[e.item].fact] = n

\* The four transactions of a review (review.py:85, :127) leave what one would have left:
\* the node carries the decision of an item of it, no item is decided while its node is
\* not, and each decided item has its event.  Only four things part them: another
\* review of the node that begins meanwhile, a failure after the item was written, a
\* report that writes the item back as it was, and a scan that writes the node back.
Reviewed(n) ==
    {i \in DOMAIN items : CanonicalNode(i) = n /\ items[i].state \in Decisions}
ReviewIsWholeUnlessDisturbed ==
    \A n \in Nodes \ disturbed :
        (\A r \in Reviewers : ~About(r, n)) =>
            /\ nodes[n] \in IF Reviewed(n) = {} THEN {"NONE"}
                            ELSE {items[i].state : i \in Reviewed(n)}
            /\ \A i \in Reviewed(n) :
                   \E e \in log : e.item = i /\ e.type = items[i].state

\* docs/interfaces.md:108 and :112 say that a review updates review_state: a
\* reviewed item never turns pending again by itself.
DecisionStands ==
    [][\A i \in DOMAIN items :
          items[i].state \in Decisions => items'[i].state \in Decisions]_vars
=============================================================================
