-------------------------- MODULE ReviewQueueProofs --------------------------
(***************************************************************************)
(* Proofs about ReviewQueue, for any facts, nodes, threads and scans.      *)
(***************************************************************************)
EXTENDS ReviewQueue, Induction, TLAPS

(***************************************************************************)
(* Type correctness.                                                       *)
(***************************************************************************)

\* What the code starts its locals from has their type.
LEMMA InitialLocals ==
    /\ NoReport \in Caller
    /\ \A f \in Facts, risk \in Risks : Candidate(f, risk) \in Item
    /\ NoReview \in Reviewer
    /\ \A step \in {"unsent", "done"} : NoScan(step) \in Scan
<1>1. \A f \in Facts, risk \in Risks : Candidate(f, risk) \in Item
  BY DEF Candidate, Item, Risks
<1>2. AnyFact \in Facts
  BY FactsAssumption DEF AnyFact
<1>3. NoReport \in Caller
  BY <1>1, <1>2 DEF NoReport, Caller, Ids, Risks
<1>4. NoReview \in Reviewer
  BY DEF NoReview, Reviewer, Ids, Risks, Decisions
<1>5. \A step \in {"unsent", "done"} : NoScan(step) \in Scan
  BY DEF NoScan, Scan, NodeStates
<1> QED
  BY <1>1, <1>3, <1>4, <1>5

\* An action of a thread replaces its locals by a well typed record.
LEMMA CallerWrites ==
    ASSUME TypeOK, NEW c \in Callers, NEW p \in Caller, caller' = [caller EXCEPT ![c] = p]
    PROVE  /\ caller' \in [Callers -> Caller]
           /\ caller'[c] = p
           /\ \A d \in Callers : d # c => caller'[d] = caller[d]
BY DEF TypeOK

LEMMA ReviewerWrites ==
    ASSUME TypeOK, NEW r \in Reviewers, NEW p \in Reviewer, reviewer' = [reviewer EXCEPT ![r] = p]
    PROVE  /\ reviewer' \in [Reviewers -> Reviewer]
           /\ reviewer'[r] = p
           /\ \A q \in Reviewers : q # r => reviewer'[q] = reviewer[q]
BY DEF TypeOK

LEMMA ScanWrites ==
    ASSUME TypeOK, NEW s \in Scans, NEW p \in Scan, scan' = [scan EXCEPT ![s] = p]
    PROVE  /\ scan' \in [Scans -> Scan]
           /\ scan'[s] = p
           /\ \A q \in Scans : q # s => scan'[q] = scan[q]
BY DEF TypeOK

\* Merging keeps an item an item, of the same fact.
LEMMA MergedIsItem ==
    ASSUME TypeOK, NEW i \in DOMAIN items, NEW risk \in Risks
    PROVE  Merged(i, risk) \in Item /\ Merged(i, risk).fact = items[i].fact
<1>1. items[i] \in Item
  BY DEF TypeOK
<1>2. Riskier(items[i].risk, risk) \in Risks
  BY DEF Riskier, Risks
<1>3. items[i].count + 1 \in Nat
  BY <1>1 DEF Item
<1> QED
  BY <1>1, <1>2, <1>3 DEF Merged, Item

\* A call of maybe_queue_review keeps the types.
LEMMA CallerKeepsTypes ==
    ASSUME TypeOK, NEW c \in Callers,
           \/ \E f \in Facts, risk \in Risks : Report(c, f, risk)
           \/ CallerStep(c)
           \/ CallerFails(c)
    PROVE  TypeOK'
<1>0. PICK pc \in {"idle", "find", "upsert", "audit"}, id \in Ids, row \in Item :
          caller[c] = [pc |-> pc, id |-> id, row |-> row]
  BY DEF TypeOK, Caller
<1>1. ASSUME NEW f \in Facts, NEW risk \in Risks, Report(c, f, risk)
      PROVE  TypeOK'
  <2>1. [pc |-> "find", id |-> nextId, row |-> Candidate(f, risk)] \in Caller
    BY InitialLocals DEF TypeOK, Caller
  <2>2. caller' \in [Callers -> Caller]
    BY <1>1, <2>1, CallerWrites DEF Report
  <2>3. nextId' \in Ids
    BY <1>1 DEF Report, TypeOK, Ids
  <2> QED
    BY <1>1, <2>2, <2>3 DEF Report, TypeOK, otherThanCallers, reviewVars
<1>2. CASE FindExisting(c)
  <2>1. PICK i \in DOMAIN items :
            caller' = [caller EXCEPT ![c] =
                [pc |-> "upsert", id |-> i, row |-> Merged(i, caller[c].row.risk)]]
    BY <1>2 DEF FindExisting, ItemsOf
  <2>2. row.risk \in Risks
    BY DEF Item
  <2>3. [pc |-> "upsert", id |-> i, row |-> Merged(i, row.risk)] \in Caller
    BY <2>2, MergedIsItem DEF TypeOK, Caller
  <2>. DEFINE p == [pc |-> "upsert", id |-> i, row |-> Merged(i, row.risk)]
  <2>4. caller' = [caller EXCEPT ![c] = p]
    BY <1>0, <2>1
  <2>5. caller' \in [Callers -> Caller]
    BY <2>3, <2>4, CallerWrites
  <2>6. raced' \subseteq Facts
    BY <1>0, <1>2 DEF FindExisting, TypeOK, Item, Overlapped
  <2> QED
    BY <1>2, <2>5, <2>6 DEF FindExisting, TypeOK, otherThanCallers, reviewVars
<1>3. CASE FindNothing(c)
  <2>1. caller' \in [Callers -> Caller]
    BY <1>0, <1>3 DEF FindNothing, TypeOK, Caller
  <2>2. raced' \subseteq Facts
    BY <1>0, <1>3 DEF FindNothing, TypeOK, Item, Overlapped
  <2> QED
    BY <1>3, <2>1, <2>2 DEF FindNothing, TypeOK, otherThanCallers, reviewVars
<1>4. CASE Shed(c)
  <2>1. caller' \in [Callers -> Caller]
    BY <1>0, <1>4 DEF Shed, TypeOK, Caller
  <2> QED
    BY <1>4, <2>1 DEF Shed, TypeOK, otherThanCallers, reviewVars
<1>5. CASE Upsert(c)
  <2>1. caller' \in [Callers -> Caller]
    BY <1>0, <1>5 DEF Upsert, TypeOK, Caller
  <2>2. DOMAIN items' = DOMAIN items \cup {id}
    BY <1>0, <1>5 DEF Upsert
  <2>3. items' \in [DOMAIN items' -> Item]
    BY <1>0, <1>5, <2>2 DEF Upsert, TypeOK
  <2>4. observed' \in [Facts -> Nat]
    BY <1>0, <1>5 DEF Upsert, TypeOK, Item
  <2>5. disturbed' \subseteq Nodes
    BY <1>5 DEF Upsert, TypeOK, Overwritten
  <2> QED
    BY <1>0, <1>5, <2>1, <2>2, <2>3, <2>4, <2>5 DEF Upsert, TypeOK, otherThanCallers, reviewVars
<1>6. CASE AuditQueued(c)
  <2>1. caller' \in [Callers -> Caller]
    BY <1>6, InitialLocals, CallerWrites DEF AuditQueued
  <2>2. log' \subseteq Event
    BY <1>0, <1>6 DEF AuditQueued, TypeOK, Event, Item
  <2> QED
    BY <1>6, <2>1, <2>2 DEF AuditQueued, TypeOK, otherThanCallers, reviewVars
<1>7. CASE CallerFails(c)
  <2>1. caller' \in [Callers -> Caller]
    BY <1>7, InitialLocals, CallerWrites DEF CallerFails
  <2> QED
    BY <1>7, <2>1 DEF CallerFails, TypeOK, otherThanCallers, reviewVars
<1> QED
  BY <1>1, <1>2, <1>3, <1>4, <1>5, <1>6, <1>7 DEF CallerStep

\* A review is about an item of the table: get_review_item found it, and items are
\* never deleted.
ReviewedExist ==
    \A r \in Reviewers : reviewer[r].pc # "idle" => reviewer[r].item \in DOMAIN items

\* A step of approve_review or reject_review keeps the types.
LEMMA ReviewerKeepsTypes ==
    ASSUME TypeOK, ReviewedExist, NEW r \in Reviewers,
           \/ \E i \in DOMAIN items, d \in Decisions : Review(r, i, d)
           \/ ReviewStep(r)
           \/ ReviewFails(r)
    PROVE  TypeOK'
<1>0. PICK pc \in {"idle", "update", "audit", "getNode", "upsertNode"},
           item \in Ids, risk \in Risks, decision \in Decisions :
          reviewer[r] = [pc |-> pc, item |-> item, risk |-> risk, decision |-> decision]
  BY DEF TypeOK, Reviewer
<1>1. ASSUME NEW i \in DOMAIN items, NEW d \in Decisions, Review(r, i, d)
      PROVE  TypeOK'
  <2>1. [pc |-> "update", item |-> i, risk |-> "MEDIUM", decision |-> d] \in Reviewer
    BY DEF TypeOK, Reviewer, Risks
  <2>2. reviewer' \in [Reviewers -> Reviewer]
    BY <1>1, <2>1, ReviewerWrites DEF Review
  <2>3. reviews' \in 0..MaxReviews
    BY <1>1, BoundsAssumption DEF Review, TypeOK
  <2> QED
    BY <1>1, <2>2, <2>3 DEF Review, TypeOK, otherThanReviewers
<1>2. CASE UpdateState(r)
  <2>1. item \in DOMAIN items
    BY <1>0, <1>2 DEF UpdateState, ReviewedExist
  <2>2. items[item] \in Item
    BY <2>1 DEF TypeOK
  <2>3. [items[item] EXCEPT !.state = decision] \in Item /\ items[item].risk \in Risks
    BY <2>2 DEF Item
  <2>4. items' = [items EXCEPT ![item] = [items[item] EXCEPT !.state = decision]]
    BY <1>0, <1>2 DEF UpdateState
  <2>5. items' \in [DOMAIN items -> Item] /\ DOMAIN items' = DOMAIN items
    BY <2>3, <2>4 DEF TypeOK
  <2>. DEFINE p == [reviewer[r] EXCEPT !.pc = "audit", !.risk = items[item].risk]
  <2>6. reviewer[r] \in Reviewer /\ reviewer[r].item = item
    BY <1>0 DEF TypeOK
  <2>7. p \in Reviewer
    BY <2>3, <2>6 DEF Reviewer
  <2>9. reviewer' = [reviewer EXCEPT ![r] = p]
    BY <1>2, <2>6 DEF UpdateState
  <2>8. reviewer' \in [Reviewers -> Reviewer]
    BY <2>7, <2>9, ReviewerWrites
  <2> QED
    BY <1>2, <2>5, <2>8 DEF UpdateState, TypeOK, otherThanReviewers
<1>3. CASE AuditReview(r)
  <2>1. reviewer' \in [Reviewers -> Reviewer]
    BY <1>0, <1>3 DEF AuditReview, TypeOK, Reviewer
  <2>2. log' \subseteq Event
    BY <1>0, <1>3 DEF AuditReview, TypeOK, Event
  <2> QED
    BY <1>3, <2>1, <2>2 DEF AuditReview, TypeOK, otherThanReviewers
<1>4. CASE GetNode(r)
  <2>1. [reviewer[r] EXCEPT !.pc = "upsertNode"] \in Reviewer
    BY DEF TypeOK, Reviewer
  <2>2. PICK p \in Reviewer : reviewer' = [reviewer EXCEPT ![r] = p]
    BY <1>4, <2>1, InitialLocals DEF GetNode
  <2>3. reviewer' \in [Reviewers -> Reviewer]
    BY <2>2, ReviewerWrites
  <2>4. UNCHANGED <<items, nodes, log, reviews, disturbed, otherThanReviewers>>
    BY <1>4 DEF GetNode
  <2> QED
    BY <2>3, <2>4 DEF TypeOK, otherThanReviewers
<1>5. CASE UpsertNode(r)
  <2>1. nodes' \in [Nodes -> NodeStates]
    <3>1. reviewer[r].decision \in NodeStates
      BY DEF TypeOK, Reviewer, NodeStates
    <3>2. nodes' = [nodes EXCEPT ![CanonicalNode(reviewer[r].item)] = reviewer[r].decision]
      BY <1>5 DEF UpsertNode
    <3> QED
      BY <3>1, <3>2 DEF TypeOK
  <2>2. reviewer' \in [Reviewers -> Reviewer]
    BY <1>5, InitialLocals, ReviewerWrites DEF UpsertNode
  <2> QED
    BY <1>5, <2>1, <2>2 DEF UpsertNode, TypeOK, otherThanReviewers
<1>6. CASE ReviewFails(r)
  <2>1. reviewer' \in [Reviewers -> Reviewer]
    BY <1>6, InitialLocals, ReviewerWrites DEF ReviewFails
  <2> QED
    BY <1>6, <2>1 DEF ReviewFails, TypeOK, otherThanReviewers
<1> QED
  BY <1>1, <1>2, <1>3, <1>4, <1>5, <1>6 DEF ReviewStep

\* A step of the governance scan keeps the types.
LEMMA ScanKeepsTypes ==
    ASSUME TypeOK, NEW s \in Scans, ScanStep(s)
    PROVE  TypeOK'
<1>0. scan[s].read \in [Nodes -> NodeStates] /\ scan[s].decayed \subseteq Nodes
  BY DEF TypeOK, Scan
<1>1. \A S \in SUBSET Nodes : Rewritten(s, S) \in [Nodes -> NodeStates]
  BY <1>0 DEF Rewritten, TypeOK
<1>2. CASE ScanRead(s)
  <2>1. PICK D \in SUBSET Nodes :
            scan' = [scan EXCEPT ![s] = [pc |-> "decay", read |-> nodes, decayed |-> D]]
    BY <1>2 DEF ScanRead
  <2>2. [pc |-> "decay", read |-> nodes, decayed |-> D] \in Scan
    BY DEF TypeOK, Scan
  <2>3. scan' \in [Scans -> Scan]
    BY <2>1, <2>2, ScanWrites
  <2> QED
    BY <1>2, <2>3 DEF ScanRead, TypeOK, otherThanScans, reviewVars
<1>3. CASE WriteDecayed(s)
  <2>1. nodes' \in [Nodes -> NodeStates]
    BY <1>0, <1>1, <1>3 DEF WriteDecayed
  <2>2. scan' \in [Scans -> Scan]
    BY <1>3 DEF WriteDecayed, TypeOK, Scan
  <2>3. disturbed' \subseteq Nodes
    BY <1>3 DEF WriteDecayed, TypeOK, Undone
  <2> QED
    BY <1>3, <2>1, <2>2, <2>3 DEF WriteDecayed, TypeOK, otherThanScans, reviewVars
<1>4. CASE WriteCalibrated(s)
  <2>1. nodes' \in [Nodes -> NodeStates]
    BY <1>0, <1>1, <1>4 DEF WriteCalibrated
  <2>2. scan' \in [Scans -> Scan]
    BY <1>4, InitialLocals, ScanWrites DEF WriteCalibrated
  <2>3. disturbed' \subseteq Nodes
    BY <1>4 DEF WriteCalibrated, TypeOK, Undone
  <2> QED
    BY <1>4, <2>1, <2>2, <2>3 DEF WriteCalibrated, TypeOK, otherThanScans, reviewVars
<1>5. CASE ScanRetried(s)
  <2>1. scan' \in [Scans -> Scan]
    BY <1>5, InitialLocals, ScanWrites DEF ScanRetried
  <2> QED
    BY <1>5, <2>1 DEF ScanRetried, TypeOK, otherThanScans, reviewVars
<1> QED
  BY <1>2, <1>3, <1>4, <1>5 DEF ScanStep

LEMMA TypesAtFirst == Init => TypeOK /\ ReviewedExist
BY InitialLocals, BoundsAssumption
   DEF Init, TypeOK, Ids, NodeStates, ReviewedExist, NoReview

\* Items are never deleted.
LEMMA ItemsStay ==
    ASSUME TypeOK, [Next]_vars
    PROVE  DOMAIN items \subseteq DOMAIN items'
<1>1. ASSUME NEW c \in Callers, Upsert(c)
      PROVE  DOMAIN items \subseteq DOMAIN items'
  BY <1>1 DEF Upsert
<1>2. ASSUME NEW r \in Reviewers, UpdateState(r)
      PROVE  DOMAIN items \subseteq DOMAIN items'
  BY <1>2 DEF UpdateState
<1>3. CASE UNCHANGED items
  BY <1>3
<1> QED
  BY <1>1, <1>2, <1>3 DEF vars, Next, Report, CallerStep, CallerFails, FindExisting,
     FindNothing, Shed, AuditQueued, Review, ReviewStep, ReviewFails, AuditReview, GetNode,
     UpsertNode, ScanStep, ScanRead, WriteDecayed, WriteCalibrated, ScanRetried,
     otherThanScans

LEMMA TypesInductive == TypeOK /\ ReviewedExist /\ [Next]_vars => TypeOK' /\ ReviewedExist'
<1> SUFFICES ASSUME TypeOK, ReviewedExist, [Next]_vars
             PROVE  TypeOK' /\ ReviewedExist'
  OBVIOUS
<1>1. TypeOK'
  <2>1. CASE UNCHANGED vars
    BY <2>1 DEF TypeOK, vars, reviewVars
  <2>2. CASE Next
    BY <2>2, CallerKeepsTypes, ReviewerKeepsTypes, ScanKeepsTypes DEF Next
  <2> QED
    BY <2>1, <2>2
<1>2. ReviewedExist'
  <2>1. CASE UNCHANGED reviewer
    BY <2>1, ItemsStay DEF ReviewedExist
  <2>2. ASSUME NEW r \in Reviewers,
               \/ \E i \in DOMAIN items, d \in Decisions : Review(r, i, d)
               \/ ReviewStep(r)
               \/ ReviewFails(r)
        PROVE  ReviewedExist'
    <3>1. \A q \in Reviewers : q # r => reviewer'[q] = reviewer[q]
      BY <2>2 DEF TypeOK, Review, ReviewStep, UpdateState, AuditReview, GetNode, UpsertNode,
         ReviewFails
    <3>2. \/ reviewer'[r].pc = "idle"
          \/ reviewer'[r].item \in DOMAIN items
      <4>1. CASE \E i \in DOMAIN items, d \in Decisions : Review(r, i, d)
        BY <4>1 DEF Review, TypeOK
      <4>2. CASE ReviewStep(r)
        <5>0. reviewer[r] \in Reviewer
          BY DEF TypeOK
        <5>1. CASE UpdateState(r)
          BY <5>0, <5>1 DEF UpdateState, TypeOK, Reviewer, ReviewedExist
        <5>2. CASE AuditReview(r)
          BY <5>0, <5>2 DEF AuditReview, TypeOK, Reviewer, ReviewedExist
        <5>3. CASE GetNode(r)
          <6>1. \/ reviewer'[r] = NoReview
                \/ reviewer'[r] = [reviewer[r] EXCEPT !.pc = "upsertNode"]
            BY <5>3 DEF GetNode, TypeOK
          <6>2. [reviewer[r] EXCEPT !.pc = "upsertNode"].item = reviewer[r].item
            BY <5>0 DEF Reviewer
          <6>3. reviewer[r].item \in DOMAIN items
            BY <5>3 DEF GetNode, ReviewedExist
          <6>4. NoReview.pc = "idle"
            BY DEF NoReview
          <6> QED
            BY <6>1, <6>2, <6>3, <6>4
        <5>4. CASE UpsertNode(r)
          BY <5>4 DEF UpsertNode, TypeOK, NoReview
        <5> QED
          BY <4>2, <5>1, <5>2, <5>3, <5>4 DEF ReviewStep
      <4>3. CASE ReviewFails(r)
        BY <4>3 DEF ReviewFails, NoReview, TypeOK
      <4> QED
        BY <2>2, <4>1, <4>2, <4>3
    <3> QED
      BY <3>1, <3>2, ItemsStay DEF ReviewedExist
  <2> QED
    BY <2>1, <2>2 DEF Next, vars, reviewVars, Report, CallerStep, CallerFails, FindExisting,
       FindNothing, Shed, Upsert, AuditQueued, ScanStep, ScanRead, WriteDecayed,
       WriteCalibrated, ScanRetried, otherThanCallers, otherThanScans
<1> QED
  BY <1>1, <1>2

\* Every variable of the review queue keeps its type, whatever fails and however the
\* transactions interleave.
THEOREM TypeCorrect == Spec => []TypeOK
<1>1. Spec => [](TypeOK /\ ReviewedExist)
  BY TypesAtFirst, TypesInductive, PTL DEF Spec
<1> QED
  BY <1>1, PTL

(***************************************************************************)
(* What is audited is queued.                                              *)
(***************************************************************************)

\* The invariant behind AuditedIsQueued: it already holds when the audit event is
\* about to be recorded.
AuditedWillBeQueued ==
    \A c \in Callers :
        caller[c].pc = "audit" /\ (caller[c].row.risk = "HIGH" \/ ~Shedding) =>
            caller[c].id \in DOMAIN items

LEMMA QueuedInductive ==
    ASSUME TypeOK, ReviewedExist, AuditedIsQueued, AuditedWillBeQueued, [Next]_vars
    PROVE  AuditedIsQueued' /\ AuditedWillBeQueued'
<1>1. DOMAIN items \subseteq DOMAIN items'
  BY ItemsStay
<1>2. AuditedWillBeQueued'
  <2>1. CASE UNCHANGED caller
    BY <1>1, <2>1 DEF AuditedWillBeQueued
  <2>2. ASSUME NEW c \in Callers,
               \/ \E f \in Facts, risk \in Risks : Report(c, f, risk)
               \/ CallerStep(c)
               \/ CallerFails(c)
        PROVE  AuditedWillBeQueued'
    <3>0. caller \in [Callers -> Caller]
      BY DEF TypeOK
    <3>1. \A d \in Callers : d # c => caller'[d] = caller[d]
      BY <2>2, <3>0 DEF Report, CallerStep, FindExisting, FindNothing, Shed, Upsert,
         AuditQueued, CallerFails
    <3>2. \/ caller'[c].pc # "audit"
          \/ Upsert(c)
          \/ Shed(c)
      BY <2>2, <3>0 DEF Report, CallerStep, FindExisting, FindNothing, AuditQueued,
         CallerFails, NoReport, Caller
    <3>3. CASE Upsert(c)
      <4>1. caller'[c].id = caller[c].id
        BY <3>0, <3>3 DEF Upsert, Caller
      <4>2. caller[c].id \in DOMAIN items'
        BY <3>3 DEF Upsert
      <4> QED
        BY <1>1, <3>1, <4>1, <4>2 DEF AuditedWillBeQueued
    <3>4. CASE Shed(c)
      <4>1. caller'[c].row = caller[c].row
        BY <3>0, <3>4 DEF Shed, Caller
      <4>2. Shedding /\ caller[c].row.risk # "HIGH"
        BY <3>4 DEF Shed, MayShed
      <4> QED
        BY <1>1, <3>1, <4>1, <4>2 DEF AuditedWillBeQueued
    <3>5. CASE caller'[c].pc # "audit"
      BY <1>1, <3>1, <3>5, SMTT(30) DEF AuditedWillBeQueued
    <3> QED
      BY <3>2, <3>3, <3>4, <3>5
  <2> QED
    BY <2>1, <2>2 DEF Next, vars, Review, ReviewStep, UpdateState, AuditReview, GetNode,
       UpsertNode, ReviewFails, ScanStep, ScanRead, WriteDecayed, WriteCalibrated,
       ScanRetried, otherThanReviewers, otherThanScans
<1>3. AuditedIsQueued'
  <2>1. CASE UNCHANGED log
    BY <1>1, <2>1 DEF AuditedIsQueued
  <2>2. ASSUME NEW c \in Callers, AuditQueued(c)
        PROVE  AuditedIsQueued'
    BY <1>1, <2>2 DEF AuditQueued, AuditedIsQueued, AuditedWillBeQueued
  <2>3. ASSUME NEW r \in Reviewers, AuditReview(r)
        PROVE  AuditedIsQueued'
    <3>1. reviewer[r].decision # "queued"
      BY DEF TypeOK, Reviewer, Decisions
    <3> QED
      BY <1>1, <2>3, <3>1 DEF AuditReview, AuditedIsQueued
  <2> QED
    BY <2>1, <2>2, <2>3 DEF Next, vars, Report, CallerStep, FindExisting, FindNothing, Shed,
       Upsert, CallerFails, Review, ReviewStep, UpdateState, GetNode, UpsertNode,
       ReviewFails, ScanStep, ScanRead, WriteDecayed, WriteCalibrated, ScanRetried,
       otherThanScans
<1> QED
  BY <1>2, <1>3

\* Whatever the interleaving of the reports and the failures between their
\* transactions, a review_queued event of a high risk names an item of the queue.
THEOREM AuditedItemsAreQueued == Spec => []AuditedIsQueued
<1>1. Init => AuditedIsQueued /\ AuditedWillBeQueued
  BY DEF Init, AuditedIsQueued, AuditedWillBeQueued, NoReport
<1>2. Spec => [](TypeOK /\ ReviewedExist)
  BY TypesAtFirst, TypesInductive, PTL DEF Spec
<1>3. TypeOK /\ ReviewedExist /\ AuditedIsQueued /\ AuditedWillBeQueued /\ [Next]_vars
          => AuditedIsQueued' /\ AuditedWillBeQueued'
  BY QueuedInductive
<1> QED
  BY <1>1, <1>2, <1>3, PTL DEF Spec

(***************************************************************************)
(* An item keeps its fact.                                                 *)
(***************************************************************************)

\* The row a call is about to write is of the fact of the item it replaces, and ids
\* that were given out are not given out again.
FactsAgree ==
    /\ \A i \in DOMAIN items : i < nextId
    /\ \A c \in Callers :
           caller[c].pc # "idle" =>
               /\ caller[c].id < nextId
               /\ caller[c].id \in DOMAIN items =>
                      items[caller[c].id].fact = caller[c].row.fact
               /\ \A d \in Callers :
                      caller[d].pc # "idle" /\ caller[d].id = caller[c].id =>
                          caller[d].row.fact = caller[c].row.fact

\* No step changes the fact of an item.
FactsKept == \A i \in DOMAIN items : i \in DOMAIN items' /\ items'[i].fact = items[i].fact

LEMMA StepsKeepFacts ==
    ASSUME TypeOK, ReviewedExist, FactsAgree, [Next]_vars
    PROVE  FactsKept
<1>1. CASE UNCHANGED items
  BY <1>1 DEF FactsKept
<1>2. ASSUME NEW c \in Callers, Upsert(c)
      PROVE  FactsKept
  <2>1. caller[c].id \in DOMAIN items => items[caller[c].id].fact = caller[c].row.fact
    BY <1>2 DEF FactsAgree, Upsert
  <2> QED
    BY <1>2, <2>1 DEF FactsKept, Upsert
<1>3. ASSUME NEW r \in Reviewers, UpdateState(r)
      PROVE  FactsKept
  <2>1. reviewer[r].item \in DOMAIN items
    BY <1>3 DEF UpdateState, ReviewedExist
  <2>2. items[reviewer[r].item] \in Item
    BY <2>1 DEF TypeOK
  <2>3. [items[reviewer[r].item] EXCEPT !.state = reviewer[r].decision].fact =
            items[reviewer[r].item].fact
    BY <2>2 DEF Item
  <2>4. items' = [items EXCEPT ![reviewer[r].item] =
            [items[reviewer[r].item] EXCEPT !.state = reviewer[r].decision]]
    BY <1>3 DEF UpdateState
  <2>5. items \in [DOMAIN items -> Item]
    BY DEF TypeOK
  <2> QED
    BY <2>1, <2>3, <2>4, <2>5 DEF FactsKept
<1> QED
  BY <1>1, <1>2, <1>3 DEF vars, Next, Report, CallerStep, CallerFails, FindExisting,
     FindNothing, Shed, AuditQueued, Review, ReviewStep, ReviewFails, AuditReview, GetNode,
     UpsertNode, ScanStep, ScanRead, WriteDecayed, WriteCalibrated, ScanRetried,
     otherThanScans

LEMMA FactsInductive ==
    ASSUME TypeOK, ReviewedExist, FactsAgree, [Next]_vars
    PROVE  FactsAgree'
<1>0. FactsKept
  BY StepsKeepFacts
<1>1. CASE UNCHANGED <<caller, nextId>> /\ DOMAIN items' = DOMAIN items
  BY <1>0, <1>1 DEF FactsAgree, FactsKept
<1>2. ASSUME NEW c \in Callers, NEW f \in Facts, NEW risk \in Risks, Report(c, f, risk)
      PROVE  FactsAgree'
  <2>1. /\ nextId \in Nat
        /\ DOMAIN items \subseteq Nat
        /\ \A d \in Callers : caller[d].id \in Nat
    BY DEF TypeOK, Ids, Caller
  <2>2. nextId' = nextId + 1 /\ items' = items
    BY <1>2 DEF Report
  <2>3. /\ caller'[c].id = nextId
        /\ \A d \in Callers : d # c => caller'[d] = caller[d]
    BY <1>2 DEF Report, TypeOK
  <2>4. nextId \notin DOMAIN items
    BY <2>1 DEF FactsAgree
  <2>5. \A d \in Callers : caller[d].pc # "idle" => caller[d].id # nextId
    BY <2>1 DEF FactsAgree
  <2> QED
    BY <2>1, <2>2, <2>3, <2>4, <2>5 DEF FactsAgree
<1>3. ASSUME NEW c \in Callers, FindExisting(c)
      PROVE  FactsAgree'
  <2>1. PICK i \in ItemsOf(caller[c].row.fact) :
            caller' = [caller EXCEPT ![c] =
                [pc |-> "upsert", id |-> i, row |-> Merged(i, caller[c].row.risk)]]
    BY <1>3 DEF FindExisting
  <2>2. i \in DOMAIN items
    BY DEF ItemsOf
  <2>3. caller[c].row.risk \in Risks
    BY DEF TypeOK, Caller, Item
  <2>4. /\ caller'[c].id = i
        /\ caller'[c].row.fact = items[i].fact
        /\ \A d \in Callers : d # c => caller'[d] = caller[d]
    BY <2>1, <2>2, <2>3, MergedIsItem DEF TypeOK
  <2>5. UNCHANGED <<items, nextId>>
    BY <1>3 DEF FindExisting
  <2> QED
    BY <2>2, <2>4, <2>5 DEF FactsAgree
<1>4. ASSUME NEW c \in Callers, Upsert(c)
      PROVE  FactsAgree'
  <2>1. /\ caller'[c].id = caller[c].id
        /\ caller'[c].row = caller[c].row
        /\ \A d \in Callers : d # c => caller'[d] = caller[d]
    BY <1>4 DEF Upsert, TypeOK, Caller
  <2>2. caller[c].pc # "idle" /\ nextId' = nextId
    BY <1>4 DEF Upsert
  <2>3. /\ DOMAIN items' = DOMAIN items \cup {caller[c].id}
        /\ items'[caller[c].id] = caller[c].row
        /\ \A i \in DOMAIN items : i # caller[c].id => items'[i] = items[i]
    BY <1>4 DEF Upsert
  <2>4. \A d \in Callers : caller'[d].pc # "idle" <=> (caller[d].pc # "idle")
    BY <1>4, <2>1 DEF Upsert, TypeOK, Caller
  <2> QED
    BY <2>1, <2>2, <2>3, <2>4 DEF FactsAgree
<1>5. ASSUME NEW c \in Callers, FindNothing(c) \/ Shed(c)
      PROVE  FactsAgree'
  <2>1. \A d \in Callers :
            /\ caller'[d].id = caller[d].id
            /\ caller'[d].row = caller[d].row
            /\ caller'[d].pc # "idle" => caller[d].pc # "idle"
    BY <1>5 DEF FindNothing, Shed, TypeOK, Caller
  <2>2. UNCHANGED <<items, nextId>>
    BY <1>5 DEF FindNothing, Shed
  <2> QED
    BY <2>1, <2>2 DEF FactsAgree
<1>6. ASSUME NEW c \in Callers, AuditQueued(c) \/ CallerFails(c)
      PROVE  FactsAgree'
  <2>1. /\ caller'[c].pc = "idle"
        /\ \A d \in Callers : d # c => caller'[d] = caller[d]
    BY <1>6 DEF AuditQueued, CallerFails, TypeOK, NoReport
  <2>2. UNCHANGED <<items, nextId>>
    BY <1>6 DEF AuditQueued, CallerFails
  <2> QED
    BY <2>1, <2>2 DEF FactsAgree
<1>7. ASSUME NEW r \in Reviewers, UpdateState(r)
      PROVE  UNCHANGED <<caller, nextId>> /\ DOMAIN items' = DOMAIN items
  BY <1>7, SMTT(30) DEF UpdateState, otherThanReviewers
<1> QED
  BY <1>1, <1>2, <1>3, <1>4, <1>5, <1>6, <1>7 DEF vars, Next, CallerStep, Review,
     ReviewStep, ReviewFails, AuditReview, GetNode, UpsertNode, ScanStep, ScanRead,
     WriteDecayed, WriteCalibrated, ScanRetried, otherThanScans, otherThanReviewers

(***************************************************************************)
(* A decision on a node is audited.                                        *)
(***************************************************************************)

\* Some review of an item of node n is in the log with decision d.
Audited(n, d) ==
    \E e \in log :
        /\ e.type = d
        /\ e.item \in DOMAIN items
        /\ NodeOf[items[e.item].fact] = n

\* What will become the review state of a node: a review records its event before it
\* touches the node, and a scan only writes back what it read.
DecisionsToCome ==
    /\ \A r \in Reviewers :
           reviewer[r].pc \in {"getNode", "upsertNode"} =>
               \E e \in log : e.type = reviewer[r].decision /\ e.item = reviewer[r].item
    /\ \A s \in Scans, n \in Nodes :
           scan[s].read[n] \in Decisions => Audited(n, scan[s].read[n])

\* No event is ever removed from the log.
LEMMA LogGrows == ASSUME [Next]_vars PROVE log \subseteq log'
BY DEF vars, Next, Report, CallerStep, CallerFails, FindExisting, FindNothing, Shed,
   Upsert, AuditQueued, Review, ReviewStep, ReviewFails, UpdateState, AuditReview, GetNode,
   UpsertNode, ScanStep, ScanRead, WriteDecayed, WriteCalibrated, ScanRetried,
   otherThanScans

\* What is audited stays audited.
LEMMA AuditedStays ==
    ASSUME FactsKept, log \subseteq log', NEW n, NEW d, Audited(n, d)
    PROVE  Audited(n, d)'
<1>1. PICK e \in log : /\ e.type = d
                       /\ e.item \in DOMAIN items
                       /\ NodeOf[items[e.item].fact] = n
  BY DEF Audited
<1>2. e \in log' /\ e.item \in DOMAIN items' /\ items'[e.item].fact = items[e.item].fact
  BY <1>1 DEF FactsKept
<1> QED
  BY <1>1, <1>2 DEF Audited

LEMMA ReviewsToComeInductive ==
    ASSUME TypeOK, ReviewedExist, DecisionsToCome, [Next]_vars, NEW r \in Reviewers,
           reviewer'[r].pc \in {"getNode", "upsertNode"}
    PROVE  \E e \in log' : e.type = reviewer'[r].decision /\ e.item = reviewer'[r].item
<1>0. log \subseteq log' /\ reviewer \in [Reviewers -> Reviewer]
  BY LogGrows DEF TypeOK
<1>1. CASE reviewer'[r] = reviewer[r]
  BY <1>0, <1>1 DEF DecisionsToCome
<1>2. CASE AuditReview(r)
  <2>1. /\ reviewer'[r].decision = reviewer[r].decision
        /\ reviewer'[r].item = reviewer[r].item
    BY <1>0, <1>2 DEF AuditReview, Reviewer
  <2>. DEFINE e == [type |-> reviewer[r].decision, item |-> reviewer[r].item,
                    risk |-> reviewer[r].risk]
  <2>2. e \in log'
    BY <1>2 DEF AuditReview
  <2> QED
    BY <2>1, <2>2
<1>3. CASE GetNode(r)
  <2>1. \/ reviewer'[r] = NoReview
        \/ reviewer'[r] = [reviewer[r] EXCEPT !.pc = "upsertNode"]
    BY <1>0, <1>3 DEF GetNode
  <2>2. NoReview.pc = "idle"
    BY DEF NoReview
  <2>3. reviewer'[r] = [reviewer[r] EXCEPT !.pc = "upsertNode"]
    BY <2>1, <2>2
  <2>4. /\ reviewer'[r].decision = reviewer[r].decision
        /\ reviewer'[r].item = reviewer[r].item
    BY <1>0, <2>3 DEF Reviewer
  <2>5. reviewer[r].pc = "getNode"
    BY <1>3 DEF GetNode
  <2> QED
    BY <1>0, <2>4, <2>5 DEF DecisionsToCome
<1>4. CASE UpdateState(r)
  BY <1>0, <1>4 DEF UpdateState, Reviewer
<1>5. CASE UpsertNode(r) \/ ReviewFails(r)
  BY <1>0, <1>5 DEF UpsertNode, ReviewFails, NoReview
<1>6. CASE \E i \in DOMAIN items, d \in Decisions : Review(r, i, d)
  BY <1>0, <1>6 DEF Review
<1>7. ASSUME NEW q \in Reviewers, q # r,
             \/ \E i \in DOMAIN items, d \in Decisions : Review(q, i, d)
             \/ ReviewStep(q)
             \/ ReviewFails(q)
      PROVE  reviewer'[r] = reviewer[r]
  BY <1>0, <1>7 DEF Review, ReviewStep, UpdateState, AuditReview, GetNode, UpsertNode,
     ReviewFails
<1>8. ASSUME UNCHANGED reviewer
      PROVE  reviewer'[r] = reviewer[r]
  BY <1>8, SMTT(30)
<1> QED
  BY <1>1, <1>2, <1>3, <1>4, <1>5, <1>6, <1>7, <1>8 DEF vars, reviewVars, Next, ReviewStep,
     Report, CallerStep, CallerFails, FindExisting, FindNothing, Shed, Upsert, AuditQueued,
     ScanStep, ScanRead, WriteDecayed, WriteCalibrated, ScanRetried, otherThanCallers,
     otherThanScans

LEMMA ScansToComeInductive ==
    ASSUME TypeOK, ReviewedExist, FactsAgree, DecisionsToCome, NodeDecisionIsAudited,
           [Next]_vars, NEW s \in Scans, NEW n \in Nodes, scan'[s].read[n] \in Decisions
    PROVE  Audited(n, scan[s].read[n])'
<1>0. FactsKept /\ log \subseteq log' /\ scan \in [Scans -> Scan]
  BY StepsKeepFacts, LogGrows DEF TypeOK
<1>a. \A d \in Decisions : Audited(n, d) => Audited(n, d)'
  BY <1>0, AuditedStays
<1>1. CASE scan'[s].read = scan[s].read
  <2>1. scan[s].read[n] \in Decisions /\ Audited(n, scan[s].read[n])
    BY <1>1 DEF DecisionsToCome
  <2> QED
    BY <1>1, <2>1, <1>a DEF Audited
<1>2. CASE ScanRead(s)
  <2>1. scan'[s].read = nodes
    BY <1>0, <1>2 DEF ScanRead
  <2>2. nodes[n] \in Decisions /\ Audited(n, nodes[n])
    BY <2>1 DEF NodeDecisionIsAudited, Audited
  <2> QED
    BY <2>1, <2>2, <1>a DEF Audited
<1>3. CASE WriteDecayed(s)
  <2>1. scan'[s].read = scan[s].read
    BY <1>0, <1>3 DEF WriteDecayed, Scan
  <2> QED
    BY <1>1, <2>1
<1>4. CASE WriteCalibrated(s) \/ ScanRetried(s)
  BY <1>0, <1>4 DEF WriteCalibrated, ScanRetried, NoScan, Decisions
<1>5. ASSUME NEW q \in Scans, q # s, ScanStep(q)
      PROVE  scan'[s].read = scan[s].read
  BY <1>0, <1>5 DEF ScanStep, ScanRead, WriteDecayed, WriteCalibrated, ScanRetried
<1>6. ASSUME UNCHANGED scan
      PROVE  scan'[s].read = scan[s].read
  BY <1>6, SMTT(30)
<1> QED
  BY <1>1, <1>2, <1>3, <1>4, <1>5, <1>6 DEF vars, Next, ScanStep, Report, CallerStep,
     CallerFails, FindExisting, FindNothing, Shed, Upsert, AuditQueued, Review, ReviewStep,
     ReviewFails, UpdateState, AuditReview, GetNode, UpsertNode, otherThanCallers,
     otherThanReviewers

LEMMA NodesInductive ==
    ASSUME TypeOK, ReviewedExist, FactsAgree, DecisionsToCome, NodeDecisionIsAudited,
           [Next]_vars
    PROVE  NodeDecisionIsAudited'
<1>0. FactsKept /\ log \subseteq log' /\ nodes \in [Nodes -> NodeStates]
  BY StepsKeepFacts, LogGrows DEF TypeOK
<1>1. \A n \in Nodes, d \in Decisions : Audited(n, d) => Audited(n, d)'
  BY <1>0, AuditedStays
<1> SUFFICES ASSUME NEW n \in Nodes, nodes'[n] \in Decisions
             PROVE  Audited(n, nodes[n])'
  BY DEF NodeDecisionIsAudited, Audited
<1>2. CASE nodes'[n] = nodes[n]
  <2>1. Audited(n, nodes[n])
    BY <1>2 DEF NodeDecisionIsAudited, Audited
  <2> QED
    BY <1>1, <1>2, <2>1 DEF Audited
<1>3. ASSUME NEW r \in Reviewers, UpsertNode(r), nodes'[n] # nodes[n]
      PROVE  Audited(n, nodes[n])'
  <2>1. /\ n = CanonicalNode(reviewer[r].item)
        /\ nodes'[n] = reviewer[r].decision
    BY <1>0, <1>3 DEF UpsertNode
  <2>2. reviewer[r].item \in DOMAIN items
    BY <1>3 DEF UpsertNode, ReviewedExist
  <2>3. \E e \in log : e.type = reviewer[r].decision /\ e.item = reviewer[r].item
    BY <1>3 DEF UpsertNode, DecisionsToCome
  <2>4. Audited(n, reviewer[r].decision)
    BY <2>1, <2>2, <2>3 DEF Audited, CanonicalNode
  <2>5. reviewer[r].decision \in Decisions
    BY DEF TypeOK, Reviewer
  <2> QED
    BY <1>1, <2>1, <2>4, <2>5 DEF Audited
<1>4. ASSUME NEW s \in Scans, WriteDecayed(s) \/ WriteCalibrated(s), nodes'[n] # nodes[n]
      PROVE  Audited(n, nodes[n])'
  <2>1. nodes'[n] = scan[s].read[n]
    BY <1>4 DEF WriteDecayed, WriteCalibrated, Rewritten
  <2>2. Audited(n, scan[s].read[n]) /\ scan[s].read[n] \in Decisions
    BY <2>1 DEF DecisionsToCome
  <2> QED
    BY <1>1, <2>1, <2>2 DEF Audited
<1>5. ASSUME UNCHANGED nodes
      PROVE  nodes'[n] = nodes[n]
  BY <1>5
<1> QED
  BY <1>2, <1>3, <1>4, <1>5 DEF vars, Next, ScanStep, ScanRead, ScanRetried, Report,
     CallerStep, CallerFails, FindExisting, FindNothing, Shed, Upsert, AuditQueued, Review,
     ReviewStep, ReviewFails, UpdateState, AuditReview, GetNode, otherThanCallers

\* For any number of reports, reviews and scans: a decision that a node carries was
\* recorded in the audit log for an item of that node before.
THEOREM NodeDecisionsAreAudited == Spec => []NodeDecisionIsAudited
<1> DEFINE IInv == /\ TypeOK
                   /\ ReviewedExist
                   /\ FactsAgree
                   /\ DecisionsToCome
                   /\ NodeDecisionIsAudited
<1>1. Init => IInv
  <2> SUFFICES ASSUME Init PROVE IInv
    OBVIOUS
  <2>1. TypeOK /\ ReviewedExist
    BY TypesAtFirst
  <2>2. FactsAgree
    BY DEF Init, FactsAgree, NoReport
  <2>3. DecisionsToCome
    BY DEF Init, DecisionsToCome, NoReview, NoScan, Decisions
  <2>4. NodeDecisionIsAudited
    BY DEF Init, NodeDecisionIsAudited, Decisions
  <2> QED
    BY <2>1, <2>2, <2>3, <2>4
<1>2. IInv /\ [Next]_vars => IInv'
  <2> SUFFICES ASSUME IInv, [Next]_vars PROVE IInv'
    OBVIOUS
  <2>1. TypeOK' /\ ReviewedExist'
    BY TypesInductive
  <2>2. FactsAgree'
    BY FactsInductive
  <2>3. DecisionsToCome'
    BY ReviewsToComeInductive, ScansToComeInductive DEF DecisionsToCome
  <2>4. NodeDecisionIsAudited'
    BY NodesInductive
  <2> QED
    BY <2>1, <2>2, <2>3, <2>4
<1> QED
  BY <1>1, <1>2, PTL DEF Spec

(***************************************************************************)
(* No report is counted twice.                                             *)
(***************************************************************************)

\* n[i] is the number of rows that were written over item i.  A row that a call read
\* before others wrote counts less than they stored, never more.
Accounted(n) ==
    /\ \A i \in Ids \ DOMAIN items : n[i] = 0
    /\ \A i \in DOMAIN items : items[i].count <= n[i]
    /\ \A c \in Callers :
           caller[c].pc \in {"find", "upsert"} =>
               caller[c].row.count <= n[caller[c].id] + 1
    /\ \A f \in Facts : SumFunctionOnSet(n, ItemsOf(f)) = observed[f]

CountsAccounted == \E n \in [Ids -> Nat] : Accounted(n)

LEMMA FiniteItems ==
    ASSUME TypeOK, FactsAgree, NEW f
    PROVE  IsFiniteSet(ItemsOf(f)) /\ ItemsOf(f) \subseteq Ids
<1>1. DOMAIN items \subseteq Ids /\ nextId \in Nat
  BY DEF TypeOK, Ids
<1>2. DOMAIN items \subseteq 1..nextId
  BY <1>1 DEF FactsAgree, Ids
<1>3. IsFiniteSet(1..nextId)
  BY <1>1, FS_Interval
<1> QED
  BY <1>1, <1>2, <1>3, FS_Subset DEF ItemsOf

\* The counts are covered when the writes are accounted for.
LEMMA AccountedIsCovered ==
    ASSUME TypeOK, FactsAgree, CountsAccounted
    PROVE  CountIsCovered
<1>1. PICK n \in [Ids -> Nat] : Accounted(n)
  BY DEF CountsAccounted
<1>. DEFINE count == [i \in DOMAIN items |-> items[i].count]
<1>2. ASSUME NEW f \in Facts
      PROVE  SumFunctionOnSet(count, ItemsOf(f)) <= observed[f]
  <2>. DEFINE S == ItemsOf(f)
  <2>1. IsFiniteSet(S) /\ S \subseteq Ids
    BY FiniteItems
  <2>2. \A i \in S : n[i] \in Int /\ count[i] \in Int /\ count[i] <= n[i]
    BY <1>1, <2>1 DEF Accounted, ItemsOf, TypeOK, Item
  <2>3. SumFunctionOnSet(n, S) = observed[f]
    BY <1>1 DEF Accounted
  <2>. HIDE DEF S, count
  <2>4. SumFunctionOnSet(count, S) <= SumFunctionOnSet(n, S)
    BY <2>1, <2>2, SumIsMonotonic
  <2> QED
    BY <2>3, <2>4 DEF S
<1> QED
  BY <1>2 DEF CountIsCovered

\* Storing a row counts one write of its item.
LEMMA UpsertIsAccounted ==
    ASSUME TypeOK, FactsAgree, CountsAccounted, NEW c \in Callers, Upsert(c)
    PROVE  CountsAccounted'
<1>1. PICK n \in [Ids -> Nat] : Accounted(n)
  BY DEF CountsAccounted
<1>. DEFINE id == caller[c].id
            row == caller[c].row
<1>2. id \in Ids /\ row \in Item /\ caller \in [Callers -> Caller]
  BY DEF TypeOK, Caller
<1>m. PICK m \in [Ids -> Nat] : m = [n EXCEPT ![id] = n[id] + 1]
  <2>1. n[id] + 1 \in Nat
    BY <1>2
  <2>2. [n EXCEPT ![id] = n[id] + 1] \in [Ids -> Nat]
    BY <2>1
  <2> QED
    BY <2>2
<1>3. /\ m[id] = n[id] + 1
      /\ \A i \in Ids \ {id} : m[i] = n[i]
      /\ \A i \in Ids : n[i] \in Nat /\ n[i] <= m[i]
  BY <1>2, <1>m
<1>4. /\ DOMAIN items' = DOMAIN items \cup {id}
      /\ items'[id] = row
      /\ \A i \in DOMAIN items \ {id} : items'[i] = items[i]
  BY DEF Upsert
<1>5. observed' = [observed EXCEPT ![row.fact] = observed[row.fact] + 1]
  BY DEF Upsert
<1>6. \A d \in Callers :
          caller'[d].pc \in {"find", "upsert"} => d # c /\ caller'[d] = caller[d]
  BY <1>2 DEF Upsert, Caller
<1>7. id \in DOMAIN items => items[id].fact = row.fact
  BY DEF FactsAgree, Upsert
<1>8. row.count <= n[id] + 1
  BY <1>1 DEF Accounted, Upsert
<1>. HIDE DEF id, row
<1>a. \A i \in Ids \ DOMAIN items' : m[i] = 0
  BY <1>1, <1>3, <1>4 DEF Accounted
<1>b. \A i \in DOMAIN items' : items'[i].count <= m[i]
  <2>. SUFFICES ASSUME NEW i \in DOMAIN items'
                PROVE  items'[i].count <= m[i]
    OBVIOUS
  <2>1. CASE i = id
    BY <1>3, <1>4, <1>8, <2>1
  <2>2. CASE i # id
    BY <1>1, <1>3, <1>4, <2>2 DEF Accounted, TypeOK
  <2> QED
    BY <2>1, <2>2
<1>c. ASSUME NEW d \in Callers, caller'[d].pc \in {"find", "upsert"}
      PROVE  caller'[d].row.count <= m[caller'[d].id] + 1
  <2>1. caller'[d] = caller[d] /\ caller[d].pc \in {"find", "upsert"}
    BY <1>6, <1>c
  <2>2. caller[d].id \in Ids /\ caller[d].row.count \in Nat
    BY <1>2 DEF Caller, Item
  <2>3. caller[d].row.count <= n[caller[d].id] + 1
    BY <1>1, <2>1 DEF Accounted
  <2> QED
    BY <1>3, <2>1, <2>2, <2>3
<1>d. ASSUME NEW f \in Facts
      PROVE  SumFunctionOnSet(m, ItemsOf(f)') = observed'[f]
  <2>. DEFINE S == ItemsOf(f)
  <2>1. IsFiniteSet(S) /\ S \subseteq Ids
    BY FiniteItems
  <2>2. \A i \in S : n[i] \in Int /\ m[i] \in Int
    BY <1>3, <2>1
  <2>3. SumFunctionOnSet(n, S) = observed[f] /\ observed[f] \in Nat
    BY <1>1 DEF Accounted, TypeOK
  <2>4. CASE f # row.fact
    <3>1. ItemsOf(f)' = S /\ id \notin S
      BY <1>4, <1>7, <2>4 DEF ItemsOf
    <3>2. \A i \in S : n[i] \in Int /\ m[i] = n[i]
      BY <1>3, <2>1, <2>2, <3>1
    <3>3. observed'[f] = observed[f]
      BY <1>5, <2>4 DEF TypeOK
    <3>. HIDE DEF S
    <3>4. SumFunctionOnSet(m, S) = SumFunctionOnSet(n, S)
      BY <2>1, <3>2, SumOfSameTerms
    <3> QED
      BY <2>3, <3>1, <3>3, <3>4
  <2>5. CASE f = row.fact /\ id \in DOMAIN items
    <3>1. ItemsOf(f)' = S /\ id \in S
      BY <1>4, <1>7, <2>5 DEF ItemsOf
    <3>2. OneChanged(m, n, S, id)
      BY <1>3, <2>1, <2>2 DEF OneChanged
    <3>3. observed'[f] = observed[f] + 1
      BY <1>5, <2>5 DEF TypeOK
    <3>. HIDE DEF S
    <3>4. SumFunctionOnSet(m, S) = SumFunctionOnSet(n, S) + m[id] - n[id]
      BY <2>1, <3>1, <3>2, SumWithOneChanged
    <3> QED
      BY <1>2, <1>3, <2>3, <3>1, <3>3, <3>4
  <2>6. CASE f = row.fact /\ id \notin DOMAIN items
    <3>. DEFINE T == S \cup {id}
    <3>1. ItemsOf(f)' = T /\ id \notin S
      BY <1>4, <2>6 DEF ItemsOf
    <3>2. IsFiniteSet(T) /\ T \ {id} = S /\ id \in T
      BY <2>1, <3>1, FS_AddElement
    <3>3. \A i \in T : m[i] \in Int
      BY <1>2, <1>3, <2>1
    <3>4. n[id] = 0 /\ m[id] = 1
      BY <1>1, <1>2, <1>3, <2>6 DEF Accounted
    <3>5. \A i \in S : n[i] \in Int /\ m[i] = n[i]
      BY <1>3, <2>1, <2>2, <3>1
    <3>6. observed'[f] = observed[f] + 1
      BY <1>5, <2>6 DEF TypeOK
    <3>. HIDE DEF S, T
    <3>7. SumFunctionOnSet(m, T) = m[id] + SumFunctionOnSet(m, S)
      <4>1. SumFunctionOnSet(m, T) = m[id] + SumFunctionOnSet(m, T \ {id})
        BY <3>2, <3>3, SumWithout
      <4> QED
        BY <3>2, <4>1
    <3>8. SumFunctionOnSet(m, S) = SumFunctionOnSet(n, S)
      BY <2>1, <3>5, SumOfSameTerms
    <3> QED
      BY <2>3, <3>1, <3>4, <3>6, <3>7, <3>8
  <2> QED
    BY <2>4, <2>5, <2>6
<1>9. Accounted(m)'
  BY <1>a, <1>b, <1>c, <1>d DEF Accounted
<1> QED
  BY <1>9 DEF CountsAccounted

\* Any other step of a call writes no item, and proposes a row that counts at most
\* one more than was written.
LEMMA CallsAreAccounted ==
    ASSUME TypeOK, FactsAgree, CountsAccounted, NEW c \in Callers,
           \/ \E f \in Facts, risk \in Risks : Report(c, f, risk)
           \/ FindExisting(c) \/ FindNothing(c) \/ Shed(c) \/ AuditQueued(c)
           \/ CallerFails(c)
    PROVE  CountsAccounted'
<1>1. PICK n \in [Ids -> Nat] : Accounted(n)
  BY DEF CountsAccounted
<1>2. UNCHANGED <<items, observed>>
  BY DEF Report, FindExisting, FindNothing, Shed, AuditQueued, CallerFails
<1>3. \A f \in Facts : ItemsOf(f)' = ItemsOf(f)
  BY <1>2 DEF ItemsOf
<1>4. \A d \in Callers : d # c => caller'[d] = caller[d]
  BY DEF TypeOK, Report, FindExisting, FindNothing, Shed, AuditQueued, CallerFails
<1>5. caller[c] \in Caller /\ caller \in [Callers -> Caller]
  BY DEF TypeOK
<1>6. ASSUME caller'[c].pc \in {"find", "upsert"}
      PROVE  caller'[c].row.count <= n[caller'[c].id] + 1
  <2>1. CASE \E f \in Facts, risk \in Risks : Report(c, f, risk)
    <3>1. caller'[c].row.count = 1 /\ caller'[c].id \in Ids
      BY <1>5, <2>1 DEF Report, Candidate, TypeOK
    <3>2. n[caller'[c].id] \in Nat
      BY <3>1
    <3> QED
      BY <3>1, <3>2
  <2>2. CASE FindExisting(c)
    <3>1. PICK i \in DOMAIN items :
              caller'[c] = [pc |-> "upsert", id |-> i, row |-> Merged(i, caller[c].row.risk)]
      BY <1>5, <2>2 DEF FindExisting, ItemsOf
    <3>2. items[i].count <= n[i] /\ items[i] \in Item /\ i \in Ids
      BY <1>1 DEF Accounted, TypeOK
    <3>3. Merged(i, caller[c].row.risk).count = items[i].count + 1
      BY <3>2 DEF Merged, Item
    <3>4. items[i].count \in Nat /\ n[i] \in Nat
      BY <3>2 DEF Item
    <3>5. caller'[c].id = i /\ caller'[c].row.count = items[i].count + 1
      BY <3>1, <3>3
    <3> QED
      BY <3>2, <3>4, <3>5
  <2>3. CASE FindNothing(c)
    <3>1. caller'[c].row = caller[c].row /\ caller'[c].id = caller[c].id
      BY <1>5, <2>3 DEF FindNothing, Caller
    <3>2. caller[c].row.count <= n[caller[c].id] + 1
      BY <1>1, <2>3 DEF FindNothing, Accounted
    <3> QED
      BY <3>1, <3>2
  <2>4. CASE Shed(c) \/ AuditQueued(c) \/ CallerFails(c)
    BY <1>5, <1>6, <2>4 DEF Shed, AuditQueued, CallerFails, Caller, NoReport
  <2> QED
    BY <2>1, <2>2, <2>3, <2>4
<1>7. Accounted(n)'
  BY <1>1, <1>2, <1>3, <1>4, <1>6 DEF Accounted
<1> QED
  BY <1>7 DEF CountsAccounted

\* Reviews and scans leave the counts alone.
LEMMA OthersAreAccounted ==
    ASSUME TypeOK, ReviewedExist, CountsAccounted, UNCHANGED <<caller, observed>>,
           \/ UNCHANGED items
           \/ \E r \in Reviewers : UpdateState(r)
    PROVE  CountsAccounted'
<1>1. PICK n \in [Ids -> Nat] : Accounted(n)
  BY DEF CountsAccounted
<1>2. /\ DOMAIN items' = DOMAIN items
      /\ \A i \in DOMAIN items : /\ items'[i].count = items[i].count
                                 /\ items'[i].fact = items[i].fact
  <2>1. CASE UNCHANGED items
    BY <2>1
  <2>2. ASSUME NEW r \in Reviewers, UpdateState(r)
        PROVE  <1>2
    <3>1. items' = [items EXCEPT ![reviewer[r].item] =
                       [items[reviewer[r].item] EXCEPT !.state = reviewer[r].decision]]
      BY <2>2 DEF UpdateState
    <3>2. reviewer[r].item \in DOMAIN items /\ items \in [DOMAIN items -> Item]
      BY <2>2 DEF UpdateState, ReviewedExist, TypeOK
    <3>. DEFINE item == items[reviewer[r].item]
                new == [item EXCEPT !.state = reviewer[r].decision]
    <3>3. new.count = item.count /\ new.fact = item.fact
      BY <3>2 DEF Item
    <3> QED
      BY <3>1, <3>2, <3>3
  <2> QED
    BY <2>1, <2>2
<1>3. \A f \in Facts : ItemsOf(f)' = ItemsOf(f)
  BY <1>2 DEF ItemsOf
<1>4. Accounted(n)'
  BY <1>1, <1>2, <1>3 DEF Accounted
<1> QED
  BY <1>4 DEF CountsAccounted

\* However reports of a fact interleave, are lost or fail: the dedup_counts of its
\* items never add up to more than the reports that were stored.
THEOREM CountsAreCovered == Spec => []CountIsCovered
<1>. DEFINE IInv == TypeOK /\ ReviewedExist /\ FactsAgree /\ CountsAccounted
<1>1. Init => IInv
  <2>. SUFFICES ASSUME Init
                PROVE  IInv
    OBVIOUS
  <2>1. TypeOK /\ ReviewedExist
    BY TypesAtFirst
  <2>2. FactsAgree
    BY DEF Init, FactsAgree, NoReport
  <2>. DEFINE n == [i \in Ids |-> 0]
  <2>3. \A f \in Facts : ItemsOf(f) = {} /\ observed[f] = 0
    BY DEF Init, ItemsOf
  <2>4. n \in [Ids -> Nat] /\ \A i \in Ids : n[i] = 0
    OBVIOUS
  <2>5. DOMAIN items = {} /\ \A c \in Callers : caller[c].pc = "idle"
    BY DEF Init, NoReport
  <2>. HIDE DEF n
  <2>6. \A f \in Facts : SumFunctionOnSet(n, ItemsOf(f)) = observed[f]
    BY <2>3, SumOfNothing
  <2>7. Accounted(n)
    BY <2>4, <2>5, <2>6 DEF Accounted
  <2> QED
    BY <2>1, <2>2, <2>4, <2>7 DEF CountsAccounted
<1>2. IInv /\ [Next]_vars => IInv'
  <2>. SUFFICES ASSUME IInv, [Next]_vars
                PROVE  IInv'
    OBVIOUS
  <2>1. TypeOK' /\ ReviewedExist' /\ FactsAgree'
    BY TypesInductive, FactsInductive
  <2>2. ASSUME NEW c \in Callers,
               \/ \E f \in Facts, risk \in Risks : Report(c, f, risk)
               \/ CallerStep(c)
               \/ CallerFails(c)
        PROVE  CountsAccounted'
    BY <2>2, UpsertIsAccounted, CallsAreAccounted DEF CallerStep
  <2>3. ASSUME NEW r \in Reviewers,
               \/ \E i \in DOMAIN items, d \in Decisions : Review(r, i, d)
               \/ ReviewStep(r)
               \/ ReviewFails(r)
        PROVE  CountsAccounted'
    <3>1. UNCHANGED <<caller, observed>> /\ (UNCHANGED items \/ UpdateState(r))
      BY <2>3 DEF ReviewStep, Review, ReviewFails, UpdateState, AuditReview, GetNode,
         UpsertNode, otherThanReviewers
    <3> QED
      BY <3>1, OthersAreAccounted
  <2>4. ASSUME (\E s \in Scans : ScanStep(s)) \/ UNCHANGED vars
        PROVE  CountsAccounted'
    <3>1. UNCHANGED <<items, caller, observed>>
      BY <2>4 DEF ScanStep, ScanRead, WriteDecayed, WriteCalibrated, ScanRetried,
         otherThanScans, vars
    <3> QED
      BY <3>1, OthersAreAccounted
  <2>5. CountsAccounted'
    BY <2>2, <2>3, <2>4 DEF Next
  <2> QED
    BY <2>1, <2>5
<1>3. IInv => CountIsCovered
  BY AccountedIsCovered
<1> QED
  BY <1>1, <1>2, <1>3, PTL DEF Spec

(***************************************************************************)
(* Without a race, every report is counted, in one item.                   *)
(***************************************************************************)

\* What holds of a fact that no two reports have looked up at once: its item has
\* counted every report, and a report that is about to write counts itself on top.
Settled(f) ==
    /\ \A i, j \in ItemsOf(f) : i = j
    /\ \A i \in ItemsOf(f) : items[i].count = observed[f]
    /\ ItemsOf(f) = {} => observed[f] = 0
    /\ \A c, d \in Callers : Storing(c, f) /\ Storing(d, f) => c = d
    /\ \A c \in Callers :
           Storing(c, f) =>
               /\ caller[c].row.count = observed[f] + 1
               /\ \A i \in ItemsOf(f) : caller[c].id = i

FirstRows == \A c \in Callers : caller[c].pc = "find" => caller[c].row.count = 1

Exact == FirstRows /\ \A f \in Facts \ raced : Settled(f)

\* Storing a row adds the report to the item of its fact and leaves the others alone.
LEMMA UpsertIsExact ==
    ASSUME TypeOK, FactsAgree, Exact, NEW c \in Callers, Upsert(c)
    PROVE  Exact'
<1>. DEFINE id == caller[c].id
            row == caller[c].row
<1>1. id \in Ids /\ row \in Item /\ caller \in [Callers -> Caller]
  BY DEF TypeOK, Caller
<1>2. /\ DOMAIN items' = DOMAIN items \cup {id}
      /\ items'[id] = row
      /\ \A i \in DOMAIN items \ {id} : items'[i] = items[i]
  BY DEF Upsert
<1>3. observed' = [observed EXCEPT ![row.fact] = observed[row.fact] + 1]
  BY DEF Upsert
<1>4. /\ caller'[c].pc = "audit"
      /\ \A d \in Callers : d # c => caller'[d] = caller[d]
  BY <1>1 DEF Upsert, Caller
<1>5. id \in DOMAIN items => items[id].fact = row.fact
  BY DEF FactsAgree, Upsert
<1>6. caller[c].pc = "upsert" /\ raced' = raced
  BY DEF Upsert
<1>7. FirstRows'
  BY <1>4 DEF Exact, FirstRows
<1>8. ASSUME NEW f \in Facts \ raced
      PROVE  Settled(f)'
  <2>1. Settled(f)
    BY DEF Exact
  <2>2. CASE f = row.fact
    <3>1. Storing(c, f)
      BY <1>6, <2>2 DEF Storing
    <3>2. \A d \in Callers : ~ Storing(d, f)'
      BY <1>4, <2>1, <3>1 DEF Settled, Storing
    <3>3. ItemsOf(f)' = {id}
      BY <1>2, <2>1, <2>2, <3>1 DEF Settled, ItemsOf
    <3>4. items'[id].count = observed'[f]
      <4>1. row.count = observed[f] + 1
        BY <2>1, <3>1 DEF Settled
      <4> QED
        BY <1>2, <1>3, <2>2, <4>1 DEF TypeOK
    <3> QED
      BY <3>2, <3>3, <3>4 DEF Settled
  <2>3. CASE f # row.fact
    <3>1. ItemsOf(f)' = ItemsOf(f) /\ \A i \in ItemsOf(f) : items'[i] = items[i]
      BY <1>2, <1>5, <2>3 DEF ItemsOf
    <3>2. observed'[f] = observed[f]
      BY <1>3, <2>3 DEF TypeOK
    <3>3. \A d \in Callers : Storing(d, f)' => Storing(d, f) /\ caller'[d] = caller[d]
      BY <1>4 DEF Storing
    <3>. HIDE DEF id, row
    <3> QED
      BY <2>1, <3>1, <3>2, <3>3 DEF Settled
  <2> QED
    BY <2>2, <2>3
<1> QED
  BY <1>6, <1>7, <1>8 DEF Exact

\* Looking the fact up finds what was counted, and no other report about to write.
LEMMA FindIsExact ==
    ASSUME TypeOK, FactsAgree, Exact, NEW c \in Callers, FindExisting(c) \/ FindNothing(c)
    PROVE  Exact'
<1>1. caller[c] \in Caller /\ caller \in [Callers -> Caller] /\ caller[c].row \in Item
  BY DEF TypeOK, Caller
<1>2. /\ caller[c].pc = "find"
      /\ UNCHANGED <<items, observed>>
      /\ raced' = raced \cup Overlapped(caller[c].row.fact)
  BY DEF FindExisting, FindNothing
<1>3. \A d \in Callers : d # c => caller'[d] = caller[d]
  BY <1>1 DEF FindExisting, FindNothing
<1>4. \A f : ItemsOf(f)' = ItemsOf(f)
  BY <1>2 DEF ItemsOf
<1>5. /\ caller'[c].pc = "upsert"
      /\ caller'[c].row.fact = caller[c].row.fact
      /\ \/ /\ caller'[c].id \in ItemsOf(caller[c].row.fact)
            /\ caller'[c].row.count = items[caller'[c].id].count + 1
         \/ /\ ItemsOf(caller[c].row.fact) = {}
            /\ caller'[c].row.count = caller[c].row.count
  <2>1. CASE FindExisting(c)
    <3>1. PICK i \in ItemsOf(caller[c].row.fact) :
              caller' = [caller EXCEPT ![c] =
                  [pc |-> "upsert", id |-> i, row |-> Merged(i, caller[c].row.risk)]]
      BY <2>1 DEF FindExisting
    <3>2. i \in DOMAIN items /\ items[i].fact = caller[c].row.fact
      BY DEF ItemsOf
    <3>3. /\ Merged(i, caller[c].row.risk).fact = items[i].fact
          /\ Merged(i, caller[c].row.risk).count = items[i].count + 1
      <4>1. items[i] \in Item
        BY <3>2 DEF TypeOK
      <4> QED
        BY <4>1 DEF Merged, Item
    <3> QED
      BY <1>1, <3>1, <3>2, <3>3
  <2>2. CASE FindNothing(c)
    BY <1>1, <2>2 DEF FindNothing, Caller
  <2> QED
    BY <2>1, <2>2
<1>6. FirstRows'
  BY <1>3, <1>5 DEF Exact, FirstRows
<1>7. ASSUME NEW f \in Facts \ raced'
      PROVE  Settled(f)'
  <2>1. Settled(f) /\ f \notin raced
    BY <1>2 DEF Exact
  <2>2. CASE f = caller[c].row.fact
    <3>1. \A d \in Callers : ~ Storing(d, f)
      BY <1>2, <2>2 DEF Overlapped
    <3>2. \A d \in Callers : Storing(d, f)' => d = c
      BY <1>3, <3>1 DEF Storing
    <3>3. caller'[c].row.count = observed[f] + 1
      <4>1. CASE ItemsOf(f) = {}
        <5>1. observed[f] = 0 /\ caller[c].row.count = 1
          BY <1>2, <2>1, <4>1 DEF Settled, Exact, FirstRows
        <5> QED
          BY <1>5, <2>2, <4>1, <5>1
      <4>2. CASE ItemsOf(f) # {}
        BY <1>5, <2>1, <2>2, <4>2 DEF Settled
      <4> QED
        BY <4>1, <4>2
    <3>4. \A i \in ItemsOf(f) : caller'[c].id = i
      BY <1>5, <2>1, <2>2 DEF Settled
    <3> QED
      BY <1>2, <1>4, <2>1, <3>2, <3>3, <3>4 DEF Settled
  <2>3. CASE f # caller[c].row.fact
    <3>1. \A d \in Callers : Storing(d, f)' => Storing(d, f) /\ caller'[d] = caller[d]
      BY <1>3, <1>5, <2>3 DEF Storing
    <3> QED
      BY <1>2, <1>4, <2>1, <3>1 DEF Settled
  <2> QED
    BY <2>2, <2>3
<1> QED
  BY <1>6, <1>7 DEF Exact

\* Every other step keeps the items' facts and counts, and lets no report write.
LEMMA OthersAreExact ==
    ASSUME TypeOK, ReviewedExist, Exact, UNCHANGED <<observed, raced>>,
           UNCHANGED items \/ \E r \in Reviewers : UpdateState(r),
           \A c \in Callers :
               \/ caller'[c] = caller[c]
               \/ caller'[c].pc = "find" /\ caller'[c].row.count = 1
               \/ caller'[c].pc \notin {"find", "upsert"}
    PROVE  Exact'
<1>1. /\ DOMAIN items' = DOMAIN items
      /\ \A i \in DOMAIN items : /\ items'[i].count = items[i].count
                                 /\ items'[i].fact = items[i].fact
  <2>1. CASE UNCHANGED items
    BY <2>1
  <2>2. ASSUME NEW r \in Reviewers, UpdateState(r)
        PROVE  <1>1
    <3>1. items' = [items EXCEPT ![reviewer[r].item] =
                       [items[reviewer[r].item] EXCEPT !.state = reviewer[r].decision]]
      BY <2>2 DEF UpdateState
    <3>2. reviewer[r].item \in DOMAIN items /\ items \in [DOMAIN items -> Item]
      BY <2>2 DEF UpdateState, ReviewedExist, TypeOK
    <3>. DEFINE item == items[reviewer[r].item]
                new == [item EXCEPT !.state = reviewer[r].decision]
    <3>3. new.count = item.count /\ new.fact = item.fact
      BY <3>2 DEF Item
    <3> QED
      BY <3>1, <3>2, <3>3
  <2> QED
    BY <2>1, <2>2
<1>2. \A f : ItemsOf(f)' = ItemsOf(f)
  BY <1>1 DEF ItemsOf
<1>3. FirstRows'
  BY DEF Exact, FirstRows
<1>4. ASSUME NEW f \in Facts \ raced
      PROVE  Settled(f)'
  <2>1. Settled(f)
    BY DEF Exact
  <2>2. \A c \in Callers : Storing(c, f)' => Storing(c, f) /\ caller'[c] = caller[c]
    BY DEF Storing
  <2>3. \A i \in ItemsOf(f) : items'[i].count = items[i].count
    BY <1>1 DEF ItemsOf
  <2> QED
    BY <1>2, <2>1, <2>2, <2>3 DEF Settled
<1> QED
  BY <1>3, <1>4 DEF Exact

\* A settled fact has one item at most, and the sum is its count.
LEMMA SettledIsExact ==
    ASSUME TypeOK, Exact
    PROVE  CountIsExactUnlessRaced
<1>. DEFINE count == [i \in DOMAIN items |-> items[i].count]
<1>1. ASSUME NEW f \in Facts \ raced
      PROVE  /\ Cardinality(ItemsOf(f)) <= 1
             /\ SumFunctionOnSet(count, ItemsOf(f)) = observed[f]
  <2>1. Settled(f) /\ observed[f] \in Nat
    BY DEF Exact, TypeOK
  <2>2. CASE ItemsOf(f) = {}
    <3>1. Cardinality(ItemsOf(f)) = 0
      BY <2>2, FS_EmptySet
    <3>2. SumFunctionOnSet(count, {}) = 0
      <4>. HIDE DEF count
      <4> QED
        BY SumOfNothing
    <3> QED
      BY <2>1, <2>2, <3>1, <3>2 DEF Settled
  <2>3. ASSUME NEW i \in ItemsOf(f)
        PROVE  /\ Cardinality(ItemsOf(f)) <= 1
               /\ SumFunctionOnSet(count, ItemsOf(f)) = observed[f]
    <3>1. ItemsOf(f) = {i}
      BY <2>1 DEF Settled
    <3>2. Cardinality({i}) = 1 /\ IsFiniteSet({i})
      BY FS_Singleton
    <3>3. count[i] = observed[f]
      BY <2>1 DEF Settled, ItemsOf
    <3>. HIDE DEF count
    <3>4. SumFunctionOnSet(count, {i}) = count[i] + SumFunctionOnSet(count, {i} \ {i})
      BY <2>1, <3>2, <3>3, SumWithout
    <3>5. {i} \ {i} = {}
      OBVIOUS
    <3>6. SumFunctionOnSet(count, {i}) = observed[f]
      BY <2>1, <3>3, <3>4, <3>5, SumOfNothing
    <3> QED
      BY <3>1, <3>2, <3>6
  <2> QED
    BY <2>2, <2>3
<1> QED
  BY <1>1 DEF CountIsExactUnlessRaced

\* However reports, reviews and scans interleave and fail: a fact of which no two
\* reports overlapped has one item at most, and its dedup_count is the reports stored.
THEOREM CountsAreExact == Spec => []CountIsExactUnlessRaced
<1>. DEFINE IInv == TypeOK /\ ReviewedExist /\ FactsAgree /\ Exact
<1>1. Init => IInv
  <2>. SUFFICES ASSUME Init
                PROVE  IInv
    OBVIOUS
  <2>1. TypeOK /\ ReviewedExist
    BY TypesAtFirst
  <2>2. FactsAgree
    BY DEF Init, FactsAgree, NoReport
  <2>3. \A c \in Callers : caller[c].pc = "idle"
    BY DEF Init, NoReport
  <2>4. \A f \in Facts : ItemsOf(f) = {} /\ observed[f] = 0
    BY DEF Init, ItemsOf
  <2>5. Exact
    BY <2>3, <2>4 DEF Exact, FirstRows, Settled, Storing
  <2> QED
    BY <2>1, <2>2, <2>5
<1>2. IInv /\ [Next]_vars => IInv'
  <2>. SUFFICES ASSUME IInv, [Next]_vars
                PROVE  IInv'
    OBVIOUS
  <2>1. TypeOK' /\ ReviewedExist' /\ FactsAgree'
    BY TypesInductive, FactsInductive
  <2>2. ASSUME NEW c \in Callers,
               \/ \E f \in Facts, risk \in Risks : Report(c, f, risk)
               \/ Shed(c) \/ AuditQueued(c) \/ CallerFails(c)
        PROVE  Exact'
    <3>1. UNCHANGED <<items, observed, raced>>
      BY <2>2 DEF Report, Shed, AuditQueued, CallerFails
    <3>2. \A d \in Callers : d # c => caller'[d] = caller[d]
      BY <2>2 DEF TypeOK, Report, Shed, AuditQueued, CallerFails
    <3>3. \/ caller'[c].pc = "find" /\ caller'[c].row.count = 1
          \/ caller'[c].pc \notin {"find", "upsert"}
      BY <2>2 DEF TypeOK, Caller, Report, Shed, AuditQueued, CallerFails, Candidate, NoReport
    <3> QED
      BY <3>1, <3>2, <3>3, OthersAreExact
  <2>3. ASSUME NEW r \in Reviewers,
               \/ \E i \in DOMAIN items, d \in Decisions : Review(r, i, d)
               \/ ReviewStep(r)
               \/ ReviewFails(r)
        PROVE  Exact'
    <3>1. UNCHANGED <<caller, observed, raced>> /\ (UNCHANGED items \/ UpdateState(r))
      BY <2>3 DEF ReviewStep, Review, ReviewFails, UpdateState, AuditReview, GetNode,
         UpsertNode, otherThanReviewers
    <3> QED
      BY <3>1, OthersAreExact
  <2>4. ASSUME (\E s \in Scans : ScanStep(s)) \/ UNCHANGED vars
        PROVE  Exact'
    <3>1. UNCHANGED <<items, caller, observed, raced>>
      BY <2>4 DEF ScanStep, ScanRead, WriteDecayed, WriteCalibrated, ScanRetried,
         otherThanScans, vars
    <3> QED
      BY <3>1, OthersAreExact
  <2>5. Exact'
    BY <2>2, <2>3, <2>4, UpsertIsExact, FindIsExact DEF Next, CallerStep
  <2> QED
    BY <2>1, <2>5
<1>3. IInv => CountIsExactUnlessRaced
  BY SettledIsExact
<1> QED
  BY <1>1, <1>2, <1>3, PTL DEF Spec

(***************************************************************************)
(* A review is whole.                                                      *)
(***************************************************************************)

\* The event of the decision an item carries is in the log.
Recorded(i) == \E e \in log : e.item = i /\ e.type = items[i].state

\* What ReviewIsWholeUnlessDisturbed says of a node no review is about.
Whole(n) ==
    /\ Reviewed(n) = {} => nodes[n] = "NONE"
    /\ Reviewed(n) # {} => \E i \in Reviewed(n) : nodes[n] = items[i].state
    /\ \A i \in Reviewed(n) : Recorded(i)

\* A review of the node that is past writing its item.
Decided(r, n) ==
    /\ reviewer[r].item \in Reviewed(n)
    /\ items[reviewer[r].item].state = reviewer[r].decision

\* How far the one review of a node has come: before its first write the node is
\* whole; after it the item has the decision, and then all the events are there.
Underway(r, n) ==
    /\ reviewer[r].pc = "update" => Whole(n)
    /\ reviewer[r].pc = "audit" =>
           Decided(r, n) /\ \A i \in Reviewed(n) \ {reviewer[r].item} : Recorded(i)
    /\ reviewer[r].pc \in {"getNode", "upsertNode"} =>
           Decided(r, n) /\ \A i \in Reviewed(n) : Recorded(i)

\* The invariant behind ReviewIsWholeUnlessDisturbed, of one node.
ReviewedInTurn(n) ==
    /\ \A q, r \in Reviewers : About(q, n) /\ About(r, n) => q = r
    /\ (\A r \in Reviewers : ~About(r, n)) => Whole(n)
    /\ \A r \in Reviewers : About(r, n) => Underway(r, n)

InTurn == \A n \in Nodes \ disturbed : ReviewedInTurn(n)

\* A row a report is about to insert is pending.
NewArePending ==
    \A c \in Callers :
        /\ caller[c].pc = "find" => caller[c].row.state = "PENDING"
        /\ caller[c].pc = "upsert" =>
               \/ caller[c].row.state = "PENDING"
               \/ caller[c].id \in DOMAIN items

LEMMA PendingInductive ==
    ASSUME TypeOK, NewArePending, [Next]_vars
    PROVE  NewArePending'
<1>0. DOMAIN items \subseteq DOMAIN items' /\ caller \in [Callers -> Caller]
  BY ItemsStay DEF TypeOK
<1>1. CASE UNCHANGED caller
  BY <1>0, <1>1 DEF NewArePending
<1>2. ASSUME NEW c \in Callers,
             \/ \E f \in Facts, risk \in Risks : Report(c, f, risk)
             \/ CallerStep(c)
             \/ CallerFails(c)
      PROVE  NewArePending'
  <2>1. \A d \in Callers : d # c => caller'[d] = caller[d]
    BY <1>0, <1>2 DEF Report, CallerStep, FindExisting, FindNothing, Shed, Upsert,
       AuditQueued, CallerFails
  <2>2. CASE \E f \in Facts, risk \in Risks : Report(c, f, risk)
    <3>1. caller'[c].pc = "find" /\ caller'[c].row.state = "PENDING"
      BY <1>0, <2>2 DEF Report, Candidate
    <3> QED
      BY <1>0, <2>1, <3>1 DEF NewArePending
  <2>3. CASE FindExisting(c)
    <3>1. caller'[c].pc = "upsert" /\ caller'[c].id \in DOMAIN items
      BY <1>0, <2>3 DEF FindExisting, ItemsOf
    <3> QED
      BY <1>0, <2>1, <3>1 DEF NewArePending
  <2>4. CASE FindNothing(c)
    <3>1. caller[c].pc = "find" /\ caller'[c].pc = "upsert" /\ caller'[c].row = caller[c].row
      BY <1>0, <2>4 DEF FindNothing, Caller
    <3>2. caller'[c].row.state = "PENDING"
      BY <3>1 DEF NewArePending
    <3> QED
      BY <1>0, <2>1, <3>1, <3>2 DEF NewArePending
  <2>5. CASE Shed(c) \/ Upsert(c) \/ AuditQueued(c) \/ CallerFails(c)
    <3>1. caller'[c].pc \notin {"find", "upsert"}
      BY <1>0, <2>5 DEF Shed, Upsert, AuditQueued, CallerFails, NoReport, Caller
    <3> QED
      BY <1>0, <2>1, <3>1 DEF NewArePending
  <2> QED
    BY <1>2, <2>2, <2>3, <2>4, <2>5 DEF CallerStep
<1> QED
  BY <1>1, <1>2 DEF vars, reviewVars, Next, ReviewStep, Review, UpdateState, AuditReview,
     GetNode, UpsertNode, ReviewFails, ScanStep, ScanRead, WriteDecayed, WriteCalibrated,
     ScanRetried, otherThanReviewers, otherThanScans

\* A step that leaves a node and its reviewed items alone.
Quiet(n) ==
    /\ nodes'[n] = nodes[n]
    /\ log \subseteq log'
    /\ Reviewed(n)' = Reviewed(n)
    /\ \A i \in Reviewed(n) : items'[i].state = items[i].state

LEMMA QuietKeepsWhole ==
    ASSUME NEW n \in Nodes, Quiet(n)
    PROVE  /\ \A i \in Reviewed(n) : Recorded(i) => Recorded(i)'
           /\ Whole(n) => Whole(n)'
<1>1. \A i \in Reviewed(n) : Recorded(i) => Recorded(i)'
  BY DEF Quiet, Recorded
<1> QED
  BY <1>1 DEF Quiet, Whole

LEMMA QuietKeepsUnderway ==
    ASSUME NEW n \in Nodes, Quiet(n), NEW r \in Reviewers, reviewer'[r] = reviewer[r],
           Underway(r, n)
    PROVE  Underway(r, n)'
<1>1. Decided(r, n) => Decided(r, n)'
  BY DEF Quiet, Decided
<1>2. /\ \A i \in Reviewed(n) : Recorded(i) => Recorded(i)'
      /\ Whole(n) => Whole(n)'
      /\ Reviewed(n)' = Reviewed(n)
  BY QuietKeepsWhole DEF Quiet
<1> QED
  BY <1>1, <1>2 DEF Underway

\* A review that goes on is about the node it was about.
LEMMA AboutStays ==
    ASSUME TypeOK, ReviewedExist, FactsKept, NEW n \in Nodes, NEW r \in Reviewers,
           reviewer'[r] = reviewer[r]
    PROVE  About(r, n)' <=> About(r, n)
<1>1. reviewer[r].pc # "idle" =>
          CanonicalNode(reviewer[r].item)' = CanonicalNode(reviewer[r].item)
  BY DEF ReviewedExist, FactsKept, CanonicalNode
<1> QED
  BY <1>1 DEF About

\* What no review does to a node that none of them is about, or that one is about.
LEMMA QuietKeepsTurns ==
    ASSUME TypeOK, ReviewedExist, FactsKept, NEW n \in Nodes, Quiet(n), ReviewedInTurn(n),
           \A r \in Reviewers :
               reviewer'[r] = reviewer[r] \/ (~About(r, n) /\ ~About(r, n)')
    PROVE  ReviewedInTurn(n)'
<1>1. \A r \in Reviewers :
          /\ About(r, n)' <=> About(r, n)
          /\ About(r, n) => reviewer'[r] = reviewer[r]
  BY AboutStays
<1>2. \A r \in Reviewers : About(r, n)' => Underway(r, n)'
  BY <1>1, QuietKeepsUnderway DEF ReviewedInTurn
<1>3. (\A r \in Reviewers : ~About(r, n)') => Whole(n)'
  BY <1>1, QuietKeepsWhole DEF ReviewedInTurn
<1> QED
  BY <1>1, <1>2, <1>3 DEF ReviewedInTurn

\* A report that does not overwrite a review, and a step that writes no item.
LEMMA ReportsAreQuiet ==
    ASSUME TypeOK, ReviewedExist, FactsAgree, NewArePending, NEW c \in Callers, Upsert(c),
           NEW n \in Nodes \ disturbed'
    PROVE  Quiet(n)
<1>1. /\ DOMAIN items' = DOMAIN items \cup {caller[c].id}
      /\ items'[caller[c].id] = caller[c].row
      /\ \A i \in DOMAIN items : i # caller[c].id => items'[i] = items[i]
      /\ UNCHANGED <<nodes, log>>
  BY DEF Upsert, otherThanCallers
<1>2. n \notin Overwritten(c)
  BY DEF Upsert
<1>3. CASE caller[c].id \notin DOMAIN items
  <2>1. caller[c].row.state = "PENDING"
    BY <1>3 DEF NewArePending, Upsert
  <2>2. \A i \in DOMAIN items : items'[i] = items[i]
    BY <1>1, <1>3
  <2>3. Reviewed(n)' = Reviewed(n)
    BY <1>1, <2>1, <2>2 DEF Reviewed, CanonicalNode, Decisions
  <2> QED
    BY <1>1, <2>2, <2>3 DEF Quiet, Reviewed
<1>4. CASE caller[c].id \in DOMAIN items
  <2>1. items[caller[c].id].fact = caller[c].row.fact
    BY <1>4 DEF FactsAgree, Upsert
  <2>2. \/ NodeOf[caller[c].row.fact] # n
        \/ items[caller[c].id].state = caller[c].row.state
    BY <1>2, <1>4 DEF Overwritten
  <2>3. DOMAIN items' = DOMAIN items
    BY <1>1, <1>4
  <2>4. \A i \in DOMAIN items :
            /\ items'[i].fact = items[i].fact
            /\ NodeOf[items[i].fact] = n => items'[i].state = items[i].state
    BY <1>1, <2>1, <2>2
  <2>5. Reviewed(n)' = Reviewed(n)
    BY <2>3, <2>4 DEF Reviewed, CanonicalNode
  <2> QED
    BY <1>1, <2>4, <2>5 DEF Quiet, Reviewed, CanonicalNode
<1> QED
  BY <1>3, <1>4

LEMMA UnwrittenIsQuiet ==
    ASSUME NEW n \in Nodes, items' = items, log \subseteq log', nodes'[n] = nodes[n]
    PROVE  Quiet(n)
BY DEF Quiet, Reviewed, CanonicalNode

\* What reports and scans do to a node.
LEMMA OthersKeepTurns ==
    ASSUME TypeOK, ReviewedExist, FactsAgree, NewArePending, FactsKept, InTurn,
           UNCHANGED reviewer,
           \A n \in Nodes \ disturbed' : n \notin disturbed /\ Quiet(n)
    PROVE  InTurn'
<1>1. ASSUME NEW n \in Nodes \ disturbed'
      PROVE  ReviewedInTurn(n)'
  <2>1. Quiet(n) /\ ReviewedInTurn(n)
    BY DEF InTurn
  <2> QED
    BY <2>1, QuietKeepsTurns
<1> QED
  BY <1>1 DEF InTurn

\* What is known when a reviewer takes a step: the others stay where they are.
Steps(r) ==
    /\ reviewer \in [Reviewers -> Reviewer]
    /\ \A q \in Reviewers : q # r => reviewer'[q] = reviewer[q]
    /\ disturbed \subseteq disturbed'

LEMMA ReviewerSteps ==
    ASSUME TypeOK, NEW r \in Reviewers,
           \/ \E i \in DOMAIN items, d \in Decisions : Review(r, i, d)
           \/ ReviewStep(r)
           \/ ReviewFails(r)
    PROVE  Steps(r)
BY DEF TypeOK, Steps, Review, ReviewStep, UpdateState, AuditReview, GetNode, UpsertNode,
   ReviewFails

\* A node the reviewer is not about, before or after the step, keeps its turns.
LEMMA ElsewhereKeepsTurns ==
    ASSUME TypeOK, ReviewedExist, FactsKept, NEW n \in Nodes, ReviewedInTurn(n), Quiet(n),
           NEW r \in Reviewers, Steps(r), ~About(r, n), ~About(r, n)'
    PROVE  ReviewedInTurn(n)'
BY QuietKeepsTurns DEF Steps

\* A node only this reviewer is about keeps them if it is left at the right point.
LEMMA OnlyThisKeepsTurns ==
    ASSUME TypeOK, ReviewedExist, FactsKept, NEW n \in Nodes, NEW r \in Reviewers, Steps(r),
           \A q \in Reviewers : q # r => ~About(q, n),
           About(r, n)' => Underway(r, n)',
           ~About(r, n)' => Whole(n)'
    PROVE  ReviewedInTurn(n)'
<1>1. \A q \in Reviewers : q # r => ~About(q, n)'
  BY AboutStays DEF Steps
<1> QED
  BY <1>1 DEF ReviewedInTurn

\* A review begins at a node that no other is about.
LEMMA ReviewKeepsTurns ==
    ASSUME TypeOK, ReviewedExist, FactsKept, InTurn, NEW r \in Reviewers,
           NEW i \in DOMAIN items, NEW d \in Decisions, Review(r, i, d),
           NEW n \in Nodes \ disturbed'
    PROVE  ReviewedInTurn(n)'
<1>1. Steps(r) /\ n \notin disturbed /\ ReviewedInTurn(n)
  BY ReviewerSteps DEF Steps, InTurn
<1>2. UNCHANGED <<items, nodes, log>> /\ reviewer[r].pc = "idle"
  BY DEF Review
<1>3. Quiet(n) /\ ~About(r, n)
  BY <1>2, UnwrittenIsQuiet DEF About
<1>4. reviewer'[r].pc = "update" /\ reviewer'[r].item = i
  BY <1>1 DEF Review, Steps
<1>5. CASE CanonicalNode(i) # n
  <2>1. CanonicalNode(i)' = CanonicalNode(i)
    BY <1>2 DEF CanonicalNode
  <2>2. ~About(r, n)'
    BY <1>4, <1>5, <2>1 DEF About
  <2> QED
    BY <1>1, <1>3, <2>2, ElsewhereKeepsTurns
<1>6. CASE CanonicalNode(i) = n
  <2>1. \A q \in Reviewers : ~About(q, n)
    BY <1>6 DEF Review
  <2>2. Whole(n)'
    BY <1>1, <1>3, <2>1, QuietKeepsWhole DEF ReviewedInTurn
  <2>3. Underway(r, n)'
    BY <1>4, <2>2 DEF Underway
  <2> QED
    BY <1>1, <2>1, <2>2, <2>3, OnlyThisKeepsTurns
<1> QED
  BY <1>5, <1>6

\* update_review_item_state: of the node only this item changes.
LEMMA UpdateKeepsTurns ==
    ASSUME TypeOK, ReviewedExist, FactsKept, InTurn, NEW r \in Reviewers, UpdateState(r),
           NEW n \in Nodes \ disturbed'
    PROVE  ReviewedInTurn(n)'
<1>. DEFINE j == reviewer[r].item
<1>1. Steps(r) /\ n \notin disturbed /\ ReviewedInTurn(n)
  BY ReviewerSteps DEF Steps, InTurn, ReviewStep
<1>2. /\ UNCHANGED <<nodes, log>>
      /\ reviewer[r].pc = "update"
      /\ items' = [items EXCEPT ![j].state = reviewer[r].decision]
  BY DEF UpdateState
<1>3. j \in DOMAIN items /\ reviewer[r].decision \in Decisions
  BY <1>1, <1>2 DEF ReviewedExist, Steps, Reviewer
<1>4. items[j] \in Item /\ items \in [DOMAIN items -> Item]
  BY <1>3 DEF TypeOK
<1>5. /\ DOMAIN items' = DOMAIN items
      /\ \A i \in DOMAIN items : i # j => items'[i] = items[i]
      /\ items'[j].state = reviewer[r].decision
      /\ items'[j].fact = items[j].fact
  BY <1>2, <1>3, <1>4 DEF Item
<1>6. /\ reviewer'[r].pc = "audit"
      /\ reviewer'[r].item = j
      /\ reviewer'[r].decision = reviewer[r].decision
  BY <1>1 DEF UpdateState, Steps, Reviewer
<1>7. \A i \in DOMAIN items : CanonicalNode(i)' = CanonicalNode(i)
  BY <1>5 DEF CanonicalNode
<1>. HIDE DEF j
<1>8. CASE CanonicalNode(j) # n
  <2>1. ~About(r, n) /\ ~About(r, n)'
    BY <1>3, <1>6, <1>7, <1>8 DEF About, j
  <2>2. Reviewed(n)' = Reviewed(n)
    BY <1>5, <1>7, <1>8 DEF Reviewed
  <2>3. Quiet(n)
    BY <1>2, <1>5, <1>8, <2>2 DEF Quiet, Reviewed
  <2> QED
    BY <1>1, <2>1, <2>3, ElsewhereKeepsTurns
<1>9. CASE CanonicalNode(j) = n
  <2>1. About(r, n) /\ About(r, n)'
    BY <1>2, <1>3, <1>6, <1>7, <1>9 DEF About, j
  <2>2. Whole(n) /\ \A q \in Reviewers : q # r => ~About(q, n)
    BY <1>1, <1>2, <2>1 DEF ReviewedInTurn, Underway
  <2>3. j \in Reviewed(n)' /\ \A i \in Reviewed(n)' : i # j => i \in Reviewed(n)
    BY <1>3, <1>5, <1>7, <1>9 DEF Reviewed
  <2>4. Decided(r, n)'
    BY <1>5, <1>6, <2>3 DEF Decided
  <2>5. \A i \in Reviewed(n)' : i # j => Recorded(i)'
    BY <1>2, <1>5, <2>2, <2>3 DEF Whole, Recorded, Reviewed
  <2>6. Underway(r, n)'
    BY <1>6, <2>4, <2>5 DEF Underway
  <2> QED
    BY <1>1, <2>1, <2>2, <2>6, OnlyThisKeepsTurns
<1> QED
  BY <1>8, <1>9

\* Once its event is recorded the item has it, and the others had theirs.
LEMMA AuditKeepsTurns ==
    ASSUME TypeOK, ReviewedExist, FactsKept, InTurn, NEW r \in Reviewers, AuditReview(r),
           NEW n \in Nodes \ disturbed'
    PROVE  ReviewedInTurn(n)'
<1>0. PICK j : j = reviewer[r].item
  OBVIOUS
<1>1. Steps(r) /\ n \notin disturbed /\ ReviewedInTurn(n)
  BY ReviewerSteps DEF Steps, InTurn, ReviewStep
<1>2. /\ UNCHANGED <<items, nodes>>
      /\ log \subseteq log'
      /\ reviewer[r].pc = "audit"
      /\ [type |-> reviewer[r].decision, item |-> j, risk |-> reviewer[r].risk] \in log'
  BY <1>0 DEF AuditReview
<1>3. /\ reviewer'[r].pc = "getNode"
      /\ reviewer'[r].item = j
      /\ reviewer'[r].decision = reviewer[r].decision
  BY <1>0, <1>1 DEF AuditReview, Steps, Reviewer
<1>4. Quiet(n)
  BY <1>2, UnwrittenIsQuiet
<1>5. CanonicalNode(j)' = CanonicalNode(j)
  BY <1>2 DEF CanonicalNode
<1>6. About(r, n)' <=> About(r, n)
  BY <1>0, <1>2, <1>3, <1>5 DEF About
<1>7. CASE ~About(r, n)
  BY <1>1, <1>4, <1>6, <1>7, ElsewhereKeepsTurns
<1>8. CASE About(r, n)
  <2>1. /\ Decided(r, n)
        /\ \A i \in Reviewed(n) \ {j} : Recorded(i)
        /\ \A q \in Reviewers : q # r => ~About(q, n)
    BY <1>0, <1>1, <1>2, <1>8 DEF ReviewedInTurn, Underway
  <2>2. j \in Reviewed(n)' /\ items'[j].state = reviewer[r].decision
    BY <1>0, <1>2, <1>4, <2>1 DEF Decided, Quiet
  <2>3. Decided(r, n)'
    BY <1>3, <2>2 DEF Decided
  <2>4. Recorded(j)'
    BY <1>2, <2>2 DEF Recorded
  <2>5. \A i \in Reviewed(n)' : Recorded(i)'
    BY <1>4, <2>1, <2>4, QuietKeepsWhole DEF Quiet
  <2>6. Underway(r, n)'
    BY <1>3, <2>3, <2>5 DEF Underway
  <2> QED
    BY <1>1, <1>6, <1>8, <2>1, <2>6, OnlyThisKeepsTurns
<1> QED
  BY <1>7, <1>8

\* Reading the node changes nothing, and an item without a node ends the review.
LEMMA GetKeepsTurns ==
    ASSUME TypeOK, ReviewedExist, FactsKept, InTurn, NEW r \in Reviewers, GetNode(r),
           NEW n \in Nodes \ disturbed'
    PROVE  ReviewedInTurn(n)'
<1>0. PICK j : j = reviewer[r].item
  OBVIOUS
<1>1. Steps(r) /\ n \notin disturbed /\ ReviewedInTurn(n)
  BY ReviewerSteps DEF Steps, InTurn, ReviewStep
<1>2. UNCHANGED <<items, nodes, log>> /\ reviewer[r].pc = "getNode"
  BY DEF GetNode
<1>3. Quiet(n) /\ CanonicalNode(j)' = CanonicalNode(j)
  BY <1>2, UnwrittenIsQuiet DEF CanonicalNode
<1>4. CASE CanonicalNode(j) = NoNode
  <2>1. reviewer'[r].pc = "idle"
    BY <1>0, <1>1, <1>4 DEF GetNode, Steps, NoReview
  <2>2. ~About(r, n) /\ ~About(r, n)'
    BY <1>0, <1>4, <2>1, FactsAssumption DEF About
  <2> QED
    BY <1>1, <1>3, <2>2, ElsewhereKeepsTurns
<1>5. CASE CanonicalNode(j) # NoNode
  <2>1. /\ reviewer'[r].pc = "upsertNode"
        /\ reviewer'[r].item = j
        /\ reviewer'[r].decision = reviewer[r].decision
    BY <1>0, <1>1, <1>5 DEF GetNode, Steps, Reviewer
  <2>2. About(r, n)' <=> About(r, n)
    BY <1>0, <1>2, <1>3, <2>1 DEF About
  <2>3. CASE ~About(r, n)
    BY <1>1, <1>3, <2>2, <2>3, ElsewhereKeepsTurns
  <2>4. CASE About(r, n)
    <3>1. /\ Decided(r, n)
          /\ \A i \in Reviewed(n) : Recorded(i)
          /\ \A q \in Reviewers : q # r => ~About(q, n)
      BY <1>1, <1>2, <2>4 DEF ReviewedInTurn, Underway
    <3>2. j \in Reviewed(n)' /\ items'[j].state = reviewer[r].decision
      BY <1>0, <1>2, <1>3, <3>1 DEF Decided, Quiet
    <3>3. Decided(r, n)'
      BY <2>1, <3>2 DEF Decided
    <3>4. \A i \in Reviewed(n)' : Recorded(i)'
      BY <1>3, <3>1, QuietKeepsWhole DEF Quiet
    <3>5. Underway(r, n)'
      BY <2>1, <3>3, <3>4 DEF Underway
    <3> QED
      BY <1>1, <2>2, <2>4, <3>1, <3>5, OnlyThisKeepsTurns
  <2> QED
    BY <2>3, <2>4
<1> QED
  BY <1>4, <1>5

\* The node gets the decision its item has: the review is whole.
LEMMA UpsertKeepsTurns ==
    ASSUME TypeOK, ReviewedExist, FactsKept, InTurn, NEW r \in Reviewers, UpsertNode(r),
           NEW n \in Nodes \ disturbed'
    PROVE  ReviewedInTurn(n)'
<1>. DEFINE j == reviewer[r].item
<1>1. Steps(r) /\ n \notin disturbed /\ ReviewedInTurn(n)
  BY ReviewerSteps DEF Steps, InTurn, ReviewStep
<1>2. /\ UNCHANGED <<items, log>>
      /\ reviewer[r].pc = "upsertNode"
      /\ nodes' = [nodes EXCEPT ![CanonicalNode(j)] = reviewer[r].decision]
  BY DEF UpsertNode
<1>3. ~About(r, n)'
  BY <1>1 DEF UpsertNode, Steps, NoReview, About
<1>4. Reviewed(n)' = Reviewed(n)
  BY <1>2 DEF Reviewed, CanonicalNode
<1>5. CASE CanonicalNode(j) # n
  <2>1. nodes'[n] = nodes[n]
    BY <1>2, <1>5 DEF TypeOK
  <2>2. Quiet(n) /\ ~About(r, n)
    BY <1>2, <1>5, <2>1, UnwrittenIsQuiet DEF About
  <2> QED
    BY <1>1, <1>3, <2>2, ElsewhereKeepsTurns
<1>6. CASE CanonicalNode(j) = n
  <2>1. nodes'[n] = reviewer[r].decision
    BY <1>2, <1>6 DEF TypeOK
  <2>2. About(r, n)
    BY <1>2, <1>6 DEF About
  <2>3. /\ Decided(r, n)
        /\ \A i \in Reviewed(n) : Recorded(i)
        /\ \A q \in Reviewers : q # r => ~About(q, n)
    BY <1>1, <1>2, <2>2 DEF ReviewedInTurn, Underway
  <2>4. \A i \in Reviewed(n) : Recorded(i)'
    BY <1>2, <2>3 DEF Recorded
  <2>5. j \in Reviewed(n) /\ nodes'[n] = items'[j].state
    BY <1>2, <2>1, <2>3 DEF Decided
  <2>6. Whole(n)'
    BY <1>2, <1>4, <2>4, <2>5 DEF Whole
  <2> QED
    BY <1>1, <1>3, <2>3, <2>6, OnlyThisKeepsTurns
<1> QED
  BY <1>5, <1>6

\* A review that fails before its first write leaves the node whole.
LEMMA FailureKeepsTurns ==
    ASSUME TypeOK, ReviewedExist, FactsKept, InTurn, NEW r \in Reviewers, ReviewFails(r),
           NEW n \in Nodes \ disturbed'
    PROVE  ReviewedInTurn(n)'
<1>1. Steps(r) /\ n \notin disturbed /\ ReviewedInTurn(n)
  BY ReviewerSteps DEF Steps, InTurn
<1>2. UNCHANGED <<items, nodes, log>>
  BY DEF ReviewFails
<1>3. Quiet(n)
  BY <1>2, UnwrittenIsQuiet
<1>4. ~About(r, n)'
  BY <1>1 DEF ReviewFails, Steps, NoReview, About
<1>5. CASE ~About(r, n)
  BY <1>1, <1>3, <1>4, <1>5, ElsewhereKeepsTurns
<1>6. CASE About(r, n)
  <2>1. reviewer[r].pc = "update"
    BY <1>6 DEF ReviewFails
  <2>2. Whole(n) /\ \A q \in Reviewers : q # r => ~About(q, n)
    BY <1>1, <1>6, <2>1 DEF ReviewedInTurn, Underway
  <2>3. Whole(n)'
    BY <1>3, <2>2, QuietKeepsWhole
  <2> QED
    BY <1>1, <1>4, <2>2, <2>3, OnlyThisKeepsTurns
<1> QED
  BY <1>5, <1>6

LEMMA InTurnInductive ==
    ASSUME TypeOK, ReviewedExist, FactsAgree, NewArePending, InTurn, [Next]_vars
    PROVE  InTurn'
<1>0. FactsKept /\ log \subseteq log'
  BY StepsKeepFacts, LogGrows
<1>1. ASSUME NEW c \in Callers, Upsert(c)
      PROVE  InTurn'
  <2>1. UNCHANGED reviewer /\ disturbed \subseteq disturbed'
    BY <1>1 DEF Upsert, otherThanCallers, reviewVars
  <2>2. \A n \in Nodes \ disturbed' : Quiet(n)
    BY <1>1, ReportsAreQuiet
  <2> QED
    BY <1>0, <2>1, <2>2, OthersKeepTurns
<1>2. ASSUME UNCHANGED <<items, reviewer>>, disturbed \subseteq disturbed',
             \A n \in Nodes \ disturbed' : nodes'[n] = nodes[n]
      PROVE  InTurn'
  <2>1. \A n \in Nodes \ disturbed' : Quiet(n)
    BY <1>0, <1>2, UnwrittenIsQuiet
  <2> QED
    BY <1>0, <1>2, <2>1, OthersKeepTurns
<1>3. ASSUME NEW c \in Callers,
             \/ \E f \in Facts, risk \in Risks : Report(c, f, risk)
             \/ FindExisting(c) \/ FindNothing(c) \/ Shed(c) \/ AuditQueued(c) \/ CallerFails(c)
      PROVE  UNCHANGED <<items, reviewer, nodes, disturbed>>
  BY <1>3 DEF Report, FindExisting, FindNothing, Shed, AuditQueued, CallerFails,
     otherThanCallers, reviewVars
<1>4. ASSUME NEW s \in Scans, ScanStep(s)
      PROVE  /\ UNCHANGED <<items, reviewer>>
             /\ disturbed \subseteq disturbed'
             /\ \A n \in Nodes \ disturbed' : nodes'[n] = nodes[n]
  BY <1>4 DEF ScanStep, ScanRead, WriteDecayed, WriteCalibrated, ScanRetried, Undone,
     otherThanScans, reviewVars
<1>5. ASSUME NEW r \in Reviewers,
             \/ \E i \in DOMAIN items, d \in Decisions : Review(r, i, d)
             \/ ReviewStep(r)
             \/ ReviewFails(r)
      PROVE  InTurn'
  <2>1. \A n \in Nodes \ disturbed' : ReviewedInTurn(n)'
    BY <1>0, <1>5, ReviewKeepsTurns, UpdateKeepsTurns, AuditKeepsTurns, GetKeepsTurns,
       UpsertKeepsTurns, FailureKeepsTurns DEF ReviewStep
  <2> QED
    BY <2>1 DEF InTurn
<1>6. CASE UNCHANGED vars
  BY <1>2, <1>6 DEF vars, reviewVars
<1> QED
  BY <1>1, <1>2, <1>3, <1>4, <1>5, <1>6 DEF Next, CallerStep

\* Whatever interleaves and fails: of a node that no second review, failure, report or
\* scan has disturbed, once no review of it is under way, the review state is that of a
\* decided item, and every decided item has its event.
THEOREM ReviewsAreWhole == Spec => []ReviewIsWholeUnlessDisturbed
<1>. DEFINE IInv == TypeOK /\ ReviewedExist /\ FactsAgree /\ NewArePending /\ InTurn
<1>1. Init => IInv
  <2>. SUFFICES ASSUME Init
                PROVE  IInv
    OBVIOUS
  <2>1. TypeOK /\ ReviewedExist
    BY TypesAtFirst
  <2>2. FactsAgree /\ NewArePending
    BY DEF Init, FactsAgree, NewArePending, NoReport
  <2>3. \A n \in Nodes : Reviewed(n) = {} /\ nodes[n] = "NONE"
    BY DEF Init, Reviewed
  <2>4. \A r \in Reviewers, n \in Nodes : ~About(r, n)
    BY DEF Init, NoReview, About
  <2>5. InTurn
    BY <2>3, <2>4 DEF InTurn, ReviewedInTurn, Whole
  <2> QED
    BY <2>1, <2>2, <2>5
<1>2. IInv /\ [Next]_vars => IInv'
  <2>. SUFFICES ASSUME IInv, [Next]_vars
                PROVE  IInv'
    OBVIOUS
  <2>1. TypeOK' /\ ReviewedExist'
    BY TypesInductive
  <2>2. FactsAgree' /\ NewArePending' /\ InTurn'
    BY FactsInductive, PendingInductive, InTurnInductive
  <2> QED
    BY <2>1, <2>2
<1>3. IInv => ReviewIsWholeUnlessDisturbed
  <2>. SUFFICES ASSUME IInv, NEW n \in Nodes \ disturbed, \A r \in Reviewers : ~About(r, n)
                PROVE  /\ nodes[n] \in IF Reviewed(n) = {} THEN {"NONE"}
                                       ELSE {items[i].state : i \in Reviewed(n)}
                       /\ \A i \in Reviewed(n) :
                              \E e \in log : e.item = i /\ e.type = items[i].state
    BY DEF ReviewIsWholeUnlessDisturbed
  <2>1. Whole(n)
    BY DEF InTurn, ReviewedInTurn
  <2>2. \A i \in Reviewed(n) : \E e \in log : e.item = i /\ e.type = items[i].state
    BY <2>1 DEF Whole, Recorded
  <2>3. CASE Reviewed(n) = {}
    BY <2>1, <2>2, <2>3 DEF Whole
  <2>4. CASE Reviewed(n) # {}
    BY <2>1, <2>2, <2>4 DEF Whole
  <2> QED
    BY <2>3, <2>4
<1> QED
  BY <1>1, <1>2, <1>3, PTL DEF Spec
=============================================================================
