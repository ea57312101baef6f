--------------------------- MODULE GovernanceScan ---------------------------
(***************************************************************************)
(* The confidences of the nodes and the jobs that change them.  The task   *)
(* governance.scan lowers nodes that have not been written for long        *)
(* (adaptive decay), then maps the others through a curve fitted to the    *)
(* feedback labels (isotonic calibration).  It reads all nodes once, and   *)
(* writes from that copy twice, with the labels read in between; another   *)
(* delivery of the task and the reviews write the same rows meanwhile.     *)
(*                                                                         *)
(* A confidence is a natural number up to Scale, and a quotient is rounded *)
(* down to one; a day of the model may stand for several.  Keep[n][d] is   *)
(* exp(-d / ttl) for the volatility of node n, on the same scale.          *)
(***************************************************************************)
EXTENDS Integers, SequencesExt, Arrangement

CONSTANTS
    Nodes,        \* the tenant's nodes
    Canonical,    \* nodes that are the canonical node of a review item
    NotANode,     \* target of a label that is about something else
    Scale,        \* the confidence 1.0
    Source,       \* source_confidence of each node
    Keep,         \* what decay leaves of Scale, for each node and age
    LabelValues,  \* label_value of the feedback
    Scanners,     \* workers that run governance.scan
    MaxDays,      \* bound: days that pass
    MaxScans,     \* bound: runs of the task, retries included
    MaxLabels,    \* bound: feedback labels
    MaxReviews    \* bound: reviews of nodes

ASSUME ConfidenceAssumption ==
    /\ Scale \in Nat \ {0}
    /\ MaxDays \in Nat
    /\ Source \in [Nodes -> 0..Scale]
    /\ Keep \in [Nodes -> [0..MaxDays -> 0..Scale]]
    /\ \A n \in Nodes, d, e \in 0..MaxDays : d <= e => Keep[n][e] <= Keep[n][d]
    /\ LabelValues \subseteq Int
    /\ NotANode \notin Nodes
    /\ Canonical \subseteq Nodes

ASSUME ScanBoundsAssumption ==
    /\ MaxScans \in Nat
    /\ MaxLabels \in Nat
    /\ MaxReviews \in Nat

VARIABLES
    nodes,       \* serving_confidence and updated_at of each row
    labels,      \* table feedback_labels, in the order of labeled_at
    now,         \* the clock, in days
    scan,        \* the locals of each run of the task
    review,      \* the locals of the review in progress
    runs,        \* runs of the task started so far
    reviews,     \* reviews started so far
    calibrated,  \* nodes a scan has ever written a calibrated value to
    oldest       \* the greatest age at which a scan has read each node

vars == <<nodes, labels, now, scan, review, runs, reviews, calibrated, oldest>>

(***************************************************************************)
(* Values.                                                                 *)
(***************************************************************************)
Confidences == 0..Scale
Days == 0..MaxDays
Row == [serving : Confidences, updated : Days]
Label == [target : Nodes \cup {NotANode}, value : LabelValues]
Copy == [Nodes -> Row]

Clamp(v) == IF v \in Confidences THEN v ELSE IF v < 0 THEN 0 ELSE Scale

(***************************************************************************)
(* compute_pava.  A block is a run of positions that share the mean of     *)
(* their values; where a block's mean exceeds its successor's, the two are *)
(* pooled and the block before them is looked at again.                    *)
(***************************************************************************)
Block == [first : Nat, last : Nat, sum : Int]

Size(b) == b.last - b.first + 1
Exceeds(a, b) == a.sum * Size(b) > b.sum * Size(a)
PoolAt(blocks, i) ==
    [j \in 1..(Len(blocks) - 1) |->
        CASE j < i -> blocks[j]
          [] j = i -> [first |-> blocks[i].first, last |-> blocks[i + 1].last,
                       sum |-> blocks[i].sum + blocks[i + 1].sum]
          [] j > i -> blocks[j + 1]]

PavaFrom[state \in Seq(Block) \X Nat] ==
    LET blocks == state[1]
        i == state[2]
    IN  IF i >= Len(blocks) THEN blocks
        ELSE IF ~Exceeds(blocks[i], blocks[i + 1]) THEN PavaFrom[<<blocks, i + 1>>]
        ELSE PavaFrom[<<PoolAt(blocks, i), IF i > 1 THEN i - 1 ELSE i>>]

\* Each position a block of its own, and the mean of the block each ends up in.
Alone(values) == [i \in DOMAIN values |-> [first |-> i, last |-> i, sum |-> values[i]]]
MeanIn(blocks, i) ==
    LET b == CHOOSE b \in {blocks[j] : j \in DOMAIN blocks} : i \in b.first..b.last
    IN  b.sum \div Size(b)

\* Mutant of Pava: the block before a pooled one is not looked at again.
PavaForward[state \in Seq(Block) \X Nat] ==
    LET blocks == state[1]
        i == state[2]
    IN  IF i >= Len(blocks) THEN blocks
        ELSE IF ~Exceeds(blocks[i], blocks[i + 1]) THEN PavaForward[<<blocks, i + 1>>]
        ELSE PavaForward[<<PoolAt(blocks, i), i>>]
PavaOnePass(values) ==
    [i \in DOMAIN values |-> MeanIn(PavaForward[<<Alone(values), 1>>], i)]

\* The fitted value of each position.
Pava(values) == [i \in DOMAIN values |-> MeanIn(PavaFrom[<<Alone(values), 1>>], i)]

(***************************************************************************)
(* The curve: from each confidence that was predicted to the fitted value  *)
(* of its first pair.  Pairs are sorted by what was predicted, and a       *)
(* stable sort leaves those of one prediction in the order of the labels.  *)
(***************************************************************************)
MinPairs == 3
NoPoint == -1
Curve == [Confidences -> Confidences \cup {NoPoint}]
NoCurve == [x \in Confidences |-> NoPoint]
Points(curve) == {x \in Confidences : curve[x] # NoPoint}

\* compute_curve_for_tenant: labels of nodes that the scan has read.
Pairs(labelled, copy) ==
    LET known == Picked(labelled, {i \in DOMAIN labelled : labelled[i].target \in Nodes})
    IN  [i \in DOMAIN known |->
            [predicted |-> copy[known[i].target].serving, actual |-> known[i].value]]

Precedes(pairs, i, j) ==
    \/ pairs[i].predicted < pairs[j].predicted
    \/ pairs[i].predicted = pairs[j].predicted /\ i < j
SortedPairs(pairs) ==
    LET K == DOMAIN pairs
        position == Arranged(K, {p \in K \X K : Precedes(pairs, p[1], p[2])})
    IN  [k \in DOMAIN position |-> pairs[position[k]]]

\* Mutant of BuildCurve: the labels as they are, not fitted.
BuildRawCurve(pairs) ==
    LET sorted == SortedPairs(pairs)
        FirstOf(x) == Min({k \in DOMAIN sorted : sorted[k].predicted = x})
        predictions == {sorted[k].predicted : k \in DOMAIN sorted}
    IN  [x \in Confidences |->
            IF x \in predictions THEN Clamp(sorted[FirstOf(x)].actual) ELSE NoPoint]

BuildCurve(pairs) ==
    LET sorted == SortedPairs(pairs)
        fitted == Pava([k \in DOMAIN sorted |-> sorted[k].actual])
        FirstOf(x) == Min({k \in DOMAIN sorted : sorted[k].predicted = x})
        predictions == {sorted[k].predicted : k \in DOMAIN sorted}
    IN  [x \in Confidences |->
            IF x \in predictions THEN Clamp(fitted[FirstOf(x)]) ELSE NoPoint]

CurveFor(labelled, copy) ==
    LET pairs == Pairs(labelled, copy)
    IN  IF Len(pairs) < MinPairs THEN NoCurve ELSE BuildCurve(pairs)

\* Mutant of ApplyCalibration: extrapolates below the first point.
Extrapolate(c, curve) ==
    LET xs == Points(curve)
    IN  IF xs = {} THEN c ELSE curve[Min(xs)] + c - Min(xs)

\* apply_calibration: linear between two points, constant outside.
ApplyCalibration(c, curve) ==
    LET xs == Points(curve)
        below == {x \in xs : x <= c}
        above == {x \in xs : x >= c}
    IN  CASE xs = {} -> c
          [] xs # {} /\ below = {} -> curve[Min(xs)]
          [] xs # {} /\ above = {} -> curve[Max(xs)]
          [] below # {} /\ above # {} ->
               LET x0 == Max(below)
                   x1 == Min(above)
               IN  IF x0 = x1 THEN curve[x0]
                   ELSE Clamp(curve[x0] + ((c - x0) * (curve[x1] - curve[x0])) \div (x1 - x0))

(***************************************************************************)
(* apply_adaptive_decay, from source_confidence and the age in days since  *)
(* updated_at; the scan passes unused_weeks = 0.                           *)
(***************************************************************************)
DecayedTo(n, age) == (Source[n] * Keep[n][age]) \div Scale
\* Mutant of Age: since created_at, which is day 0.
AgeSinceCreation(row, at) == at

Age(row, at) == IF at > row.updated THEN at - row.updated ELSE 0
Decays(n, row, at) == DecayedTo(n, Age(row, at)) < row.serving

(***************************************************************************)
(* Initial states: nodes fresh from an ingestion.                          *)
(***************************************************************************)
Idle == [pc |-> "idle"]
NoReview == [pc |-> "none"]

Init ==
    /\ nodes = [n \in Nodes |-> [serving |-> Source[n], updated |-> 0]]
    /\ labels = <<>>
    /\ now = 0
    /\ scan = [s \in Scanners |-> Idle]
    /\ review = NoReview
    /\ runs = 0
    /\ reviews = 0
    /\ calibrated = {}
    /\ oldest = [n \in Nodes |-> 0]

(***************************************************************************)
(* run_governance_scan.  The pending items and the number of labels that   *)
(* it reads before the nodes only go into the audit summary.               *)
(***************************************************************************)
DecayedIn(s) == {n \in Nodes : Decays(n, scan[s].copy[n], scan[s].at)}
Calibration(s, n) == ApplyCalibration(scan[s].copy[n].serving, scan[s].curve)
CalibratedIn(s) ==
    {n \in Nodes \ DecayedIn(s) : Calibration(s, n) # scan[s].copy[n].serving}

DecayedRow(s, n) ==
    [serving |-> DecayedTo(n, Age(scan[s].copy[n], scan[s].at)), updated |-> scan[s].at]
CalibratedRow(s, n) == [serving |-> Calibration(s, n), updated |-> scan[s].at]

ScanRead(s) ==
    /\ scan[s].pc = "idle"
    /\ runs < MaxScans
    /\ runs' = runs + 1
    /\ scan' = [scan EXCEPT ![s] =
                    [pc |-> "decay", copy |-> nodes, at |-> now, curve |-> NoCurve]]
    /\ oldest' = [n \in Nodes |->
                    IF now - nodes[n].updated > oldest[n] THEN now - nodes[n].updated
                    ELSE oldest[n]]
    /\ UNCHANGED <<nodes, labels, now, review, reviews, calibrated>>

\* The first upsert_nodes.
ScanDecay(s) ==
    /\ scan[s].pc = "decay"
    /\ nodes' = [n \in Nodes |-> IF n \in DecayedIn(s) THEN DecayedRow(s, n) ELSE nodes[n]]
    /\ scan' = [scan EXCEPT ![s].pc = "curve"]
    /\ UNCHANGED <<labels, now, review, runs, reviews, calibrated, oldest>>

\* compute_curve_for_tenant lists the labels, and uses the copy of the nodes.
ScanCurve(s) ==
    /\ scan[s].pc = "curve"
    /\ scan' = [scan EXCEPT ![s].pc = "calibrate",
                            ![s].curve = CurveFor(labels, scan[s].copy)]
    /\ UNCHANGED <<nodes, labels, now, review, runs, reviews, calibrated, oldest>>

\* The second upsert_nodes: the decayed rows once more, and the calibrated ones.
ScanCalibrate(s) ==
    /\ scan[s].pc = "calibrate"
    /\ nodes' = [n \in Nodes |->
                    CASE n \in DecayedIn(s) -> DecayedRow(s, n)
                      [] n \in CalibratedIn(s) -> CalibratedRow(s, n)
                      [] OTHER -> nodes[n]]
    /\ calibrated' = calibrated \cup CalibratedIn(s)
    /\ scan' = [scan EXCEPT ![s].pc = "audit"]
    /\ UNCHANGED <<labels, now, review, runs, reviews, oldest>>

\* The audit event, and the end of the task.
ScanAudit(s) ==
    /\ scan[s].pc = "audit"
    /\ scan' = [scan EXCEPT ![s] = Idle]
    /\ UNCHANGED <<nodes, labels, now, review, runs, reviews, calibrated, oldest>>

\* A call raises or the worker is lost; a retry is another run.
ScanFails(s) ==
    /\ scan[s].pc # "idle"
    /\ scan' = [scan EXCEPT ![s] = Idle]
    /\ UNCHANGED <<nodes, labels, now, review, runs, reviews, calibrated, oldest>>

(***************************************************************************)
(* What happens beside the scans.                                          *)
(***************************************************************************)

\* record_feedback.
RecordFeedback(target, value) ==
    /\ Len(labels) < MaxLabels
    /\ labels' = Append(labels, [target |-> target, value |-> value])
    /\ UNCHANGED <<nodes, now, scan, review, runs, reviews, calibrated, oldest>>

\* approve_review and reject_review read the canonical node (get_node) ...
ReviewRead(n) ==
    /\ review.pc = "none"
    /\ reviews < MaxReviews
    /\ reviews' = reviews + 1
    /\ review' = [pc |-> "write", node |-> n, row |-> nodes[n], at |-> now]
    /\ UNCHANGED <<nodes, labels, now, scan, runs, calibrated, oldest>>

\* ... and write it back with updated_at = now (upsert_nodes).
ReviewWrite ==
    /\ review.pc = "write"
    /\ nodes' = [nodes EXCEPT ![review.node] = [review.row EXCEPT !.updated = review.at]]
    /\ review' = NoReview
    /\ UNCHANGED <<labels, now, scan, runs, reviews, calibrated, oldest>>

DayPasses ==
    /\ now < MaxDays
    /\ now' = now + 1
    /\ UNCHANGED <<nodes, labels, scan, review, runs, reviews, calibrated, oldest>>

ScanStep(s) ==
    \/ ScanRead(s)
    \/ ScanDecay(s)
    \/ ScanCurve(s)
    \/ ScanCalibrate(s)
    \/ ScanAudit(s)
    \/ ScanFails(s)

Next ==
    \/ \E s \in Scanners : ScanStep(s)
    \/ \E target \in Nodes \cup {NotANode}, value \in LabelValues :
          RecordFeedback(target, value)
    \/ \E n \in Canonical : ReviewRead(n)
    \/ ReviewWrite
    \/ DayPasses

Spec == Init /\ [][Next]_vars

(***************************************************************************)
(* Properties.                                                             *)
(***************************************************************************)
ScanLocals ==
    {Idle} \cup [pc : {"decay", "curve", "calibrate", "audit"}, copy : Copy, at : Days,
                 curve : Curve]
ReviewLocals == {NoReview} \cup [pc : {"write"}, node : Nodes, row : Row, at : Days]

\* Types: every confidence stays between 0 and 1, whatever the labels say.
TypeOK ==
    /\ nodes \in Copy
    /\ labels \in Seq(Label)
    /\ now \in Days
    /\ scan \in [Scanners -> ScanLocals]
    /\ review \in ReviewLocals
    /\ runs \in 0..MaxScans
    /\ reviews \in 0..MaxReviews
    /\ calibrated \subseteq Nodes
    /\ oldest \in [Nodes -> Days]

\* Isotonic regression by its min-max formula: at i, the greatest over j <= i of the
\* least over k >= i of the mean from j to k.  Rounding down keeps the order of means, so
\* the formula over rounded means gives the rounded value.
IsotonicFit(values) ==
    LET MeanFrom(j, k) == SumFunctionOnSet(values, j..k) \div (k - j + 1)
    IN  [i \in DOMAIN values |->
            Max({Min({MeanFrom(j, k) : k \in i..Len(values)}) : j \in 1..i})]

\* The step that computes a curve, and its pairs.
CurveStep(s) == scan[s].pc = "curve" /\ scan'[s].pc = "calibrate"
StepPairs(s) == SortedPairs(Pairs(labels, scan[s].copy))

\* The points of a curve are those of the isotonic regression of the labels, so pooling
\* adjacent violators computes what compute_pava's docstring says of it.  Of several
\* labels with one prediction only the first counts for the point, and which is first
\* depends on the order they came in.
CurveIsIsotonic ==
    [][\A s \in Scanners : CurveStep(s) /\ scan'[s].curve # NoCurve =>
          LET pairs == StepPairs(s)
              fit == IsotonicFit([k \in DOMAIN pairs |-> pairs[k].actual])
          IN  /\ Points(scan'[s].curve) = {pairs[k].predicted : k \in DOMAIN pairs}
              /\ \A k \in DOMAIN pairs :
                    (k > 1 => pairs[k - 1].predicted < pairs[k].predicted) =>
                        scan'[s].curve[pairs[k].predicted] = Clamp(fit[k])]_vars

\* Calibration never turns the order of two nodes around: of those it maps, one that
\* was trusted no more than another still is.
OrderIsKept ==
    \A s \in Scanners : scan[s].pc = "calibrate" =>
        \A m, n \in Nodes \ DecayedIn(s) :
            scan[s].copy[m].serving <= scan[s].copy[n].serving =>
                Calibration(s, m) <= Calibration(s, n)

\* Decay starts again from source_confidence at every write of the row, so it never
\* adds up: until a scan calibrates a node, its confidence is at least what one decay
\* over the longest age that a scan has seen leaves of source_confidence.
DecayHasFloor ==
    \A n \in Nodes \ calibrated : nodes[n].serving >= DecayedTo(n, oldest[n])
=============================================================================
